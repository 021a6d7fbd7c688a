SPECIFICATION FairSpec
CONSTANTS
  a1 = a1  a2 = a2  a3 = a3  s1 = s1  s2 = s2
  Workspaces = {s1, s2}
  Agents = {a1, a2, a3}
  Workspace <- MCWorkspace
  Members = {m1}
  Handlers = {h1}
  Workers = {w1}
  Jobs = {j1}
  Ttl = 0
  Requests = {"unclaimed", "release", "cancel", "retry"}
  MaxClaims = 2
  None = None
INVARIANTS TypeOK OneHolder ListsOwnClaims
PROPERTIES ReservationSpec ClaimEnds
CHECK_DEADLOCK FALSE
