CONSTANTS
  Hosted = Hosted
  Standalone = Standalone
  Apps = {Hosted, Standalone}
  KindsOf <- MCHosted
  SlowContainer = {Hosted}
  MaxRuntimes = 2
  MaxPosted = 0
  PoolMax = 1
  FailedStartLimit = 1
  IdleLoad = TRUE
  Faults = {"start","exec","execStop","execPool"}
  None = None
SPECIFICATION Spec
INVARIANTS TypeOK RunStateAgrees ProcessHasOwner PoolIsUnattached ReadyLauncherWasTold CleanExit
PROPERTIES NoNewProcessInShutDown
CHECK_DEADLOCK FALSE
