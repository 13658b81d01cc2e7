SPECIFICATION Spec
CONSTANTS
  Kind <- MoveKind
  MakesDirectory = TRUE
  CrashPoints <- AnyPoint
  RecoveryOps = {"complete", "rollback"}
  MaxCrashes = 1
  MaxRecoveries = 2
  MaxRollbacks = 2
  MaxEdits = 2
PROPERTIES
  TheirFilesSurvive
  CreationNeverOverwrites
CHECK_DEADLOCK FALSE
