CONSTANTS
  Searchers = {s1}
  Inserters = {i1}
  Deleters = {d1, d2}
  Node = {n1, n2, n3}
  MaxSize = 3
  NULL = NULL
SPECIFICATION Spec
SYMMETRY Symmetry
INVARIANT CountsItems
CHECK_DEADLOCK FALSE
