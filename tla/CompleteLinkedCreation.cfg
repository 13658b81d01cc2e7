SPECIFICATION Spec
CONSTANTS
  Kind <- MoveKind
  MakesDirectory = TRUE
  CrashPoints = {"unlink temporary"}
  RecoveryOps = {"complete"}
  MaxCrashes = 1
  MaxRecoveries = 1
  MaxRollbacks = 0
  MaxEdits = 0
INVARIANT
  CompleteAlwaysSettles
CHECK_DEADLOCK FALSE
