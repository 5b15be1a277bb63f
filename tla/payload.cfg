SPECIFICATION Spec
CONSTANTS
  Whole = {current}
  Grown = {log}
  Required = {current}
  Inodes = {1, 2, 3, 4, 5}
  NoInode = 0
  MaxSlots = 2
  Keep = 1
  MaxGen = 2
  MaxLen = 2
  MaxClock = 1
  MaxFaults = 1
INVARIANT PublishedIsHeld
INVARIANT VerifierTellsDamage
INVARIANT DamageIsNotInherited
INVARIANT RehearsalIsTruthful
PROPERTY OldSnapshotsUntouched
CHECK_DEADLOCK FALSE
