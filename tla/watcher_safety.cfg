SPECIFICATION Spec
CONSTANTS
  MaxPlayers = 2
  MaxJournal = 2
  MaxFailures = 2
  MaxFaults = 1
  Attempts = 2
  LateAttach = FALSE
  Interval = 3
  Retry = 1
INVARIANT TypeOK
INVARIANT DiskLoadable
INVARIANT PlayersAreTimed
PROPERTY RetryDeadlineRespected
PROPERTY DeadlineNeverExtended
PROPERTY CycleSpec
PROPERTY OrdinaryEndIsCaptured
