SPECIFICATION PersistentSpec
CONSTANTS
  Kind <- UpgradeKind
  CrashPoints <- AnyPoint
  MaxCrashes = 2
  MaxEdits = 0
INVARIANTS
  TypeOK
  OrdinaryCommandsSeeWholeMigration
  UpgradeSettles
PROPERTIES
  MigrationCompletes
  ImplementsAtomicMutation
CHECK_DEADLOCK FALSE
