SPECIFICATION Spec
CONSTANTS
  N = 3
INVARIANT
  NoCircularWait
CHECK_DEADLOCK FALSE
