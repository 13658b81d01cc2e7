SPECIFICATION Spec
CONSTANTS
  Proc = {"p", "q"}
  Root = {".agent", "tools"}
  DefaultRoot = ".agent"
  InitialConfigs <- Configs
  InitialTexts <- ShortTexts
  EditedTexts <- TheirTexts
  MaxCommands = 2
  MaxCrashes = 1
  MaxEdits = 1
  None = None
INVARIANT
  OneInstallation
PROPERTIES
  TheirTextKept
  GuardedWrites
CHECK_DEADLOCK FALSE
