SPECIFICATION FairSpec
CONSTANTS
  Modes <- AllModes
  RetryCount = 2
  Failures <- AllFailures
  Watched = TRUE
  Requests <- AllRequests
  MaxResume = 1
  MaxLaunch = 2
CHECK_DEADLOCK FALSE
INVARIANTS LaunchedOnce SuccessIsEarned NoRowAfterStop
PROPERTIES EndIsNoticed
