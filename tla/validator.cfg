SPECIFICATION FairSpec
CONSTANTS
  MaxPieces = 5
  Half = 2
INVARIANT PassedIsEarned
INVARIANT LogIsFaithful
INVARIANT SurvivorWasKilled
PROPERTY Ends
CHECK_DEADLOCK FALSE
