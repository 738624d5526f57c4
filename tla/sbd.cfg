CONSTANTS
  nsectors = 2
  logical_block_size = 2
  MajorParam = 0
  SECTOR = 2
  ULONG = 5
  Request = {r1, r2}
  Val = {v1, v2}
  Key = {k1, k2}
  KeyLen = {10, 16}
  ValidLen = {16}
  MaxStores = 1
  Junk = Junk
  NULL = NULL
SPECIFICATION FairSpec
INVARIANTS UsesAreLive StartedIsCurrent LeftBehind
PROPERTIES Served ImplementsDisk
CHECK_DEADLOCK FALSE
