SPECIFICATION Spec
CONSTANTS
  toMembers = toMembers  toClaimed = toClaimed  toGroups = toGroups
  Jobs = {toMembers}
  Kind <- MCKind
  Workers = {w1, w2}
  Recipients = {r1, r2, r3}
  Batch = 2
  MaxPerDay = 1
  MaxStarts = 2
  Requests = {"cancel", "retry"}
  None = None
SYMMETRY Symmetry
INVARIANTS TypeOK ResendsAfterFailure ProgressIsTrue DailyLimitBound
CHECK_DEADLOCK FALSE
