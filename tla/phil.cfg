SPECIFICATION FairSpec
CONSTANTS
  N = 3
INVARIANTS
  PermitConserved
  NeighboursExclude
  MonitorGuards
  NoLostWakeup
PROPERTY
  EatersFinish
\* The philosophers can deadlock: see phil_deadlock.cfg.
CHECK_DEADLOCK FALSE
