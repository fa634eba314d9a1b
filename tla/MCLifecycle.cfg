SPECIFICATION FairSpec
CONSTANTS
  u1 = u1
  NoConfig = NoConfig
  NoPipeline = NoPipeline
  Emergency = Emergency
  Configs <- MCConfigs
  Asked <- MCAsked
  EnvConfig <- MCEnv
  DefaultHot = 1
  NoEndpoint = "none"
  NSlots = 2
  Loggers = {u1}
  MaxOps = 2
  MaxOutside = 1
  MaxLogProviders = 2
CHECK_DEADLOCK FALSE
INVARIANTS InForce
PROPERTIES PublishedLast GenerationsSpec ProvidersStable OperationsEnd
