SPECIFICATION Spec
CONSTANTS
  MaxPlayers = 1
  MaxJournal = 2
  MaxFailures = 1
  MaxFaults = 0
  Attempts = 1
  LateAttach = FALSE
  Interval = 2
  Retry = 1
INVARIANT IdleIsCaptured
