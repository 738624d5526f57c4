CONSTANTS
  Request = {r1, r2, r3, r4}
  Sector = {1, 2, 3}
  Beyond = {2, 9}
SPECIFICATION FairSpec
INVARIANTS QueueExact NoBug
PROPERTIES ForwardInPlace HeadServed DrainEnds
CHECK_DEADLOCK FALSE
