CONSTANTS
  b1 = b1
  b2 = b2
  b3 = b3
  b4 = b4
  v = v
  w = w
  x = x
  t1 = t1
  t2 = t2
  NULL = NULL
  Threads <- MCThreads
  Blocks <- MCBlocks
  Vectors <- MCVectors
  MaxLength = 2
  Builds <- AfterBuilds
SPECIFICATION Spec
INVARIANTS StaysUsable
CHECK_DEADLOCK FALSE
