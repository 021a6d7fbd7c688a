SPECIFICATION Spec
CONSTANTS
  MaxNet = 1
  Failed = Failed
  None = None
  k1 = k1
  k2 = k2
  Members = {1, 2, 3}
  Keywords = {k1, k2}
  Has <- MCHas
  MaxConditions = 1
  PageSize = 2
  MaxPages = 2
INVARIANT FilterNarrows
CHECK_DEADLOCK FALSE
