SPECIFICATION PersistentSpec
CONSTANTS
  Kind <- MoveKindWithReference
  MakesDirectory = TRUE
  CrashPoints <- AnyPoint
  RecoveryOps = {"complete", "rollback"}
  MaxCrashes = 3
  MaxRecoveries = 7
  MaxRollbacks = 3
  MaxEdits = 0
INVARIANTS
  TypeOK
  JournalTracksDisk
  CompleteSettles
  RollbackSettles
PROPERTIES
  JournalRemovalSettles
  ImplementsAtomicMutation
  SettledInTheEnd
CHECK_DEADLOCK FALSE
