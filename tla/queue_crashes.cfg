SPECIFICATION HSpec
CONSTANTS
  Jobs = {j1}
  Workers = {w1, w2}
  Procs = {p1}
  Slots = {s1, s2}
  Reserve = 0
  None = None
  ActorMaxRetries = 1
  MaxJobReschedules = 2
  RequeueAge = 0
  StaleAge = 0
  StuckAge = 0
  StuckMaxRetries = 1
  MaxDelay = 1
  MaxCrashes = 1
  Requests = {"cancel", "retry"}
  MaxEnqueues = 2
SYMMETRY Symmetry
INVARIANTS RetriesBounded ClaimExclusive CopiesBounded
