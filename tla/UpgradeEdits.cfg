SPECIFICATION Spec
CONSTANTS
  Kind <- UpgradeKind
  CrashPoints <- AnyPoint
  MaxCrashes = 1
  MaxEdits = 2
PROPERTIES
  TheirFilesSurvive
  CustomizedAssetsStay
  BindingGoesLast
CHECK_DEADLOCK FALSE
