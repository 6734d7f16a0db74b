SPECIFICATION ThreadStateSpec
CONSTANTS
  alice = alice
  acme = acme
  utc = utc
  local = local
  p1 = p1
  p2 = p2
  worker = worker
  web = web
  None = None
  Worker = {worker}
  Web = {web}
  Plan = {p1, p2}
  User = {alice}
  Taxonomy = {acme}
  Zone = {utc, local}
  Default = utc
  MaxDepth = 3
  MaxCall = 5
  MaxNesting = 3
  MaxPlan = 4
INVARIANTS PlainCallsExecute SyncAnswered WorksAsOwner WorkersClean
PROPERTIES StartsNewest
