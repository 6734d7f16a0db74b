SPECIFICATION FairSpec
CONSTANTS
  general = general
  hourly = hourly
  t1 = t1
  Task = {t1, t2}
  Rule = {general, hourly}
  Matching <- Finds
  AnyAge = {hourly}
  Batch = 1
  MaxCrash = 1
CHECK_DEADLOCK FALSE
INVARIANTS CleanWithoutCrash
PROPERTIES LiveTasksKept RunEnds OrphansGo ImplementsTask
