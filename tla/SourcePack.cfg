SPECIFICATION Spec
CONSTANTS
  p = p
  q = q
  Proc = {p, q}
  Name = {"manifest", "full", "index", "core", "extended", "support", "task a", "task b"}
  Round = {1, 2}
  Requests <- AllRequests
  Profiles <- OnlyProfile
  Projects <- Trees
  InitialRounds <- OldRounds
  EditedNames = {"manifest", "index"}
  MaxCommands = 2
  MaxCrashes = 1
  MaxEdits = 1
  None = None
SYMMETRY Alike
INVARIANTS
  LatestIsOnePack
  PlanFits
PROPERTIES
  TheirExportsSurvive
CHECK_DEADLOCK FALSE
