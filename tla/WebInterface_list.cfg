SPECIFICATION Spec
CONSTANTS
  t1 = t1
  t2 = t2
  t3 = t3
  s1 = s1
  s2 = s2
  None = None
  Refused = Refused
  Task = {t1, t2, t3}
  Child = {t2, t3}
  Editable = {}
  Starts <- MCOver
  MaxCalls <- MCNone
  MaxLoads <- MCLoads
  Time = {"H12", "H24"}
  Result = {"error"}
  Card = {"paused"}
  Links <- MCListLinks
  Slot = {s1}
INVARIANTS LatestShown
PROPERTIES FocusHonest
