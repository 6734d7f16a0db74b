SPECIFICATION Spec
CONSTANTS
  parent = parent
  child = child
  other = other
  r1 = r1
  r2 = r2
  NoTask = NoTask
  NoResource = NoResource
  Task = {parent, child, other}
  Resource = {r1}
  Parent <- Family
  Related <- NoRelated
INVARIANTS LocksInv LockedThroughRun ExclusiveUse
PROPERTIES ImplementsAbstractLock
CHECK_DEADLOCK FALSE
