CONSTANTS
  Searchers = {s1, s2}
  Inserters = {i1, i2}
  Deleters = {d1, d2}
  Node = {n1, n2, n3, n4}
  MaxSize = 2
  NULL = NULL
SPECIFICATION Spec
SYMMETRY Symmetry
INVARIANTS Exclusion WalkersInList ListWellFormed NothingLost LocksReturned OvershootBounded InsertedIsLast
CHECK_DEADLOCK FALSE
