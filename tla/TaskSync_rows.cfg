SPECIFICATION RestartSpec
CONSTANTS
  parent = parent
  child = child
  Task = {parent, child}
  NoTask = NoTask
  Parent <- Family
  MayStray = {parent}
CHECK_DEADLOCK FALSE
INVARIANTS RowNotAhead StoppedResultHonest
PROPERTIES ImplementsTask RowsCatchUp
