CONSTANTS
  PageUnits = 5
  Page = {p1, p2}
  Thread = {t1}
  SLOB_BREAK1 = 4
  SLOB_BREAK2 = 100
  MINALIGN = 4
  RCU_SIZE = 2
  KmallocSizes = {2, 5, 6, 7}
  Caches <- MixedCaches
  SpAlt = {NULL, p1, p2}
  MaxStat = 20
  NULL = NULL
SPECIFICATION Spec
SYMMETRY Symmetry
INVARIANTS TypeOK PagePartitioned FreeListCoalesced UnitsExact DataIntact Aligned FreePathMatches KsizeFits NoBug
CHECK_DEADLOCK FALSE
