SPECIFICATION FairSpec
CONSTANTS
  Jobs = {j1}
  Workers = {w1}
  Procs = {p1}
  Slots = {s1, s2, s3}
  Reserve = 2
  None = None
  ActorMaxRetries = 1
  MaxJobReschedules = 1
  RequeueAge = 0
  StaleAge = 1
  StuckAge = 1
  StuckMaxRetries = 1
  MaxDelay = 1
  MaxCrashes = 1
  Requests = {"schedule", "cancel", "retry"}
INVARIANTS TypeOK
PROPERTIES WaitingJobMoves AbandonedJobRecovers
