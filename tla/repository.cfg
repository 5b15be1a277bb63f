SPECIFICATION Spec
CONSTANTS
  Procs = {w, c}
  Nobody = nobody
  MaxNames = 4
  Keep = 2
  MaxFailed = 1
  Attempts = 2
  MaxFaults = 2
  ClockBack = TRUE
SYMMETRY ProcessSymmetry
INVARIANT OnlyValidatedAreTrusted
INVARIANT LatestNeverDangles
INVARIANT ReturnedSnapshotSurvives
INVARIANT FailedBounded
INVARIANT VerifiedBounded
PROPERTY EvidenceKept
PROPERTY DiagnosedBeforeDiscard
PROPERTY RotationTakesOldest
PROPERTY LatestMovesToNewest
PROPERTY ReadersSeeOneState
