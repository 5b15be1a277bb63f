SPECIFICATION Spec
CONSTANTS
  MaxPlayers = 1
  MaxJournal = 2
  MaxFailures = 0
  MaxFaults = 0
  Attempts = 1
  LateAttach = TRUE
  Interval = 2
  Retry = 1
INVARIANT PlayersAreTimed
