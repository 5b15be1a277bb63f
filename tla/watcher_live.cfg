SPECIFICATION FairSpec
CONSTANTS
  MaxPlayers = 1
  MaxJournal = 2
  MaxFailures = 1
  MaxFaults = 1
  Attempts = 1
  LateAttach = FALSE
  Interval = 2
  Retry = 1
PROPERTY Stops
PROPERTY PromiseKept
PROPERTY EventuallyIdle
PROPERTY SnapshotsKeepComing
