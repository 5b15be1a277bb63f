SPECIFICATION Spec
CONSTANTS
  Timeouts = {0, 1, 59, 60, 118, 300, 301}
  Durations = {0, 148, 149}
  CutMax = 200
  HashMax = 10
INVARIANT HoldUnderWayIsResumed
CHECK_DEADLOCK FALSE
