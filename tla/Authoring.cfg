SPECIFICATION Spec
CONSTANTS
  Path <- Paths
  Global = "global.md"
  Architecture = "architecture.md"
  CaseKey <- LowerCase
  Parent <- ParentDirectory
  Proc = {"p", "q"}
  Requests <- AnyRequest
  InitialManifests <- Manifests
  InitialDocs <- Documents
  InitialDirectories = {"."}
  EditedPaths = {"k.md", "d.md", "u.md"}
  HumanBodies = {"same size"}
  HumanLinks = {"d.md"}
  MaxCommands = 2
  MaxRecoveries = 2
  MaxCrashes = 1
  MaxEdits = 1
  None = None
INVARIANTS
  TypeOK
  CommandsKeepCatalogValid
  AllowedMovesStage
  UndisturbedPlansSettle
  MigrationKeepsSelection
PROPERTIES
  NoManifestUpdateLost
  CapturedTextsSurvive
  SelectionFollows
CHECK_DEADLOCK FALSE
