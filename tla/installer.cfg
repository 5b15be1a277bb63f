SPECIFICATION Spec
CONSTANTS
  Last = 3
INVARIANT AllOrNothing
PROPERTY ServerUntouchedWithoutRestart
CHECK_DEADLOCK FALSE
