CONSTANTS
  Workers = {w1, w2, w3}
  Jobs = {j1, j2}
  NULL = NULL
  QueNum = 2
SPECIFICATION PoolFairSpec
INVARIANTS FreedLast NullForEach
PROPERTIES DeleteReturns
CHECK_DEADLOCK FALSE
