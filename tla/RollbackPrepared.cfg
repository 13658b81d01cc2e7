SPECIFICATION Spec
CONSTANTS
  Kind <- MoveKind
  MakesDirectory = TRUE
  CrashPoints = {"recheck"}
  RecoveryOps = {"rollback"}
  MaxCrashes = 1
  MaxRecoveries = 1
  MaxRollbacks = 1
  MaxEdits = 0
INVARIANT
  RollbackAlwaysSettles
CHECK_DEADLOCK FALSE
