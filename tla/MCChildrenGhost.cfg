SPECIFICATION LiveSpec
CONSTANTS
  Windows = {w1, w2}
  Pids = {p1, p2}
  None = None
  Failed = Failed
  Patterns <- MCPatterns
  Size = 1
  MaxReady = 1
  MaxEvents = 4
INVARIANTS
  DeadUnread
CHECK_DEADLOCK FALSE
