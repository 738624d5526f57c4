CONSTANTS
  Producers = {p1}
  Consumers = {c1, c2}
  BUFFSIZE = 2
  Raw <- RawNumbers
  MaxItems = 5
  NoThread = NoThread
  W = 8
  N = 5
  M = 3
  MATRIX_A = {3, 4, 5, 7}
  MULTIPLIER = 101
  SEED = 5489
  TU = 3
  TS = 2
  TB = {2, 4, 5, 7}
  TT = 4
  TC = {4, 6, 7}
  TL = 5
SPECIFICATION RandomSpec
INVARIANTS SleepInBounds EntryOnce
PROPERTIES MutexReturned StackDrained FollowsRecurrence
