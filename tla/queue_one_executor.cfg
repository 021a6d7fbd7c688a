SPECIFICATION Spec
CONSTANTS
  Jobs = {j1}
  Workers = {w1, w2}
  Procs = {p1, p2}
  Slots = {s1, s2}
  Reserve = 0
  None = None
  ActorMaxRetries = 1
  MaxJobReschedules = 2
  RequeueAge = 0
  StaleAge = 0
  StuckAge = 0
  StuckMaxRetries = 1
  MaxDelay = 1
  MaxCrashes = 0
  Requests = {}
SYMMETRY Symmetry
INVARIANTS AtMostOneExecutor
