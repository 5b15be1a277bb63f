SPECIFICATION Spec
CONSTANTS
  MaxPlayers = 0
  MaxQueries = 1
  MaxPipe = 6
  MaxLines = 4
  MaxFaults = 0
  Prompt = FALSE
INVARIANT HeldWhileCopied
