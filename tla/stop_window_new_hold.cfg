SPECIFICATION Spec
CONSTANTS
  Timeouts = {8, 10, 30, 90}
  Durations = {0, 40}
  CutMax = 5
  HashMax = 5
INVARIANT NoHoldIsKilled
CHECK_DEADLOCK FALSE
