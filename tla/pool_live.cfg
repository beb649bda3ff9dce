SPECIFICATION FairSpec
CONSTANTS
  Fd = {f1, f2}
  Workers = {w1, w2}
  PoolSize = 2
  PoolMin = 1
  RefillBatch = 2
  Batch = 2
  SweepMin = 1
  MaxPending = 2
PROPERTIES Refills TakeEnds ExpiredLeave ThreadsStop
