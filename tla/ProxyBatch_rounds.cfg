SPECIFICATION FairSpec
CONSTANTS
  TotalCount = 3
  BatchSize = 2
  ProxyOf <- TwoProxies
  MaxAmount = 2
  MaxEvents = 1
  MaxLaunch = 2
  MaxFailures = 1
CHECK_DEADLOCK FALSE
INVARIANTS NobodyForgotten LaunchedOnce
PROPERTIES Finishes
