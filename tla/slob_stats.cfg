CONSTANTS
  PageUnits = 3
  Page = {p1, p2}
  Thread = {t1, t2}
  SLOB_BREAK1 = 4
  SLOB_BREAK2 = 100
  MINALIGN = 4
  RCU_SIZE = 2
  KmallocSizes = {}
  Caches <- PlainCaches
  SpAlt = {NULL}
  MaxStat = 12
  NULL = NULL
SPECIFICATION Spec
SYMMETRY Symmetry
INVARIANT StatsExact
CHECK_DEADLOCK FALSE
