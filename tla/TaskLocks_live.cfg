SPECIFICATION FairSpec
CONSTANTS
  parent = parent
  child = child
  other = other
  r1 = r1
  r2 = r2
  NoTask = NoTask
  NoResource = NoResource
  Task = {parent, other}
  Resource = {r1, r2}
  Parent <- Family
  Related <- SecondRelated
PROPERTIES PlannersUnblocked LeakedLocksRemoved ImplementsTask
CHECK_DEADLOCK FALSE
