SPECIFICATION Spec
CONSTANTS
  toMembers = toMembers  toClaimed = toClaimed  toGroups = toGroups
  Jobs = {toMembers}
  Kind <- MCKind
  Workers = {w1, w2}
  Recipients = {r1}
  Batch = 2
  MaxPerDay = 2
  MaxStarts = 2
  Requests = {"cancel", "retry"}
  None = None
SYMMETRY Symmetry
INVARIANTS NoDuplicateSends
CHECK_DEADLOCK FALSE
