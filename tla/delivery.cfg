SPECIFICATION FairSpec
CONSTANTS
  Task = {k1, k2}
  MaxVersion = 2
  Event = {e1}
  MaxAttempts = 2
  Type <- MCType
  SettingOf <- MCSettingOf
  Configs <- MCConfigs
INVARIANTS
  TypeOK
  
  
  
  HookTries

  
CHECK_DEADLOCK FALSE
