SPECIFICATION FairSpec
CONSTANTS
  MaxPlayers = 1
  MaxQueries = 2
  MaxPipe = 4
  MaxLines = 4
  MaxFaults = 3
  Prompt = TRUE
INVARIANT HeldWhileCopied
INVARIANT ResumeConfirmed
INVARIANT NotLeftHeld
INVARIANT CountIsCurrent
PROPERTY HoldEnds
PROPERTY CallsEnd
