SPECIFICATION FairSpec
CONSTANTS
  Calls = {s1, r1}
  Abortable = {r1}
  Sessions = {s1}
  Workspaces = {w1, w2}
  MaxTokens = 4
  None = None
PROPERTIES RefusedTokenNotSent SwitchIsKept EveryCallSettles
CHECK_DEADLOCK FALSE
