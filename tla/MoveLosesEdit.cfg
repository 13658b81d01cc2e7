SPECIFICATION Spec
CONSTANTS
  Path <- Paths
  Global = "global.md"
  Architecture = "architecture.md"
  CaseKey <- LowerCase
  Parent <- ParentDirectory
  Proc = {"p"}
  Requests <- OnlyMove
  InitialManifests <- PlainManifest
  InitialDocs <- Documents
  InitialDirectories = {"."}
  EditedPaths = {"k.md"}
  HumanBodies = {"same size"}
  HumanLinks = {"d.md"}
  MaxCommands = 1
  MaxRecoveries = 0
  MaxCrashes = 0
  MaxEdits = 1
  None = None
PROPERTY
  TextsSurvive
CHECK_DEADLOCK FALSE
