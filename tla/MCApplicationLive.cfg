CONSTANTS
  Hosted = Hosted
  Standalone = Standalone
  Apps = {Hosted}
  KindsOf <- MCEmbedded
  SlowContainer = {}
  MaxRuntimes = 2
  MaxPosted = 1
  PoolMax = 0
  FailedStartLimit = 0
  IdleLoad = FALSE
  Faults = {"start","exec","execStop"}
  None = None
SPECIFICATION FairSpec
INVARIANTS RunStateAgrees
PROPERTIES ImplementsAppLifeCycle StopsAreReported StopIsCarriedOut
CHECK_DEADLOCK FALSE
