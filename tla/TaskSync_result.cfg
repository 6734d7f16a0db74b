SPECIFICATION Spec
CONSTANTS
  parent = parent
  child = child
  Task = {parent}
  NoTask = NoTask
  Parent <- Family
  MayStray = {parent}
CHECK_DEADLOCK FALSE
INVARIANTS CheckKeepsResult
