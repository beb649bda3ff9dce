SPECIFICATION Spec
CONSTANTS
  Fd = {f1, f2, f3, f4}
  Workers = {w1, w2}
  PoolSize = 2
  PoolMin = 0
  RefillBatch = 2
  Batch = 2
  SweepMin = 1
  MaxPending = 9
SYMMETRY Symmetry
INVARIANTS PoolBounded PendingExact
PROPERTY IsSocketPool
