SPECIFICATION Spec
CONSTANTS
  Jobs = {j1}
  Workers = {w1}
  Procs = {p1}
  Slots = {s1, s2}
  Reserve = 0
  None = None
  ActorMaxRetries = 1
  MaxJobReschedules = 2
  RequeueAge = 0
  StaleAge = 1
  StuckAge = 1
  StuckMaxRetries = 1
  MaxDelay = 1
  MaxCrashes = 0
  Requests = {}
PROPERTIES RetryIsExecuted
