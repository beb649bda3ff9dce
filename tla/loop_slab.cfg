SPECIFICATION FairSpec
CONSTANTS
  None = None
  GenMod = 2
  IdxSpan = 4
  UDP_BASE = 4
  MaxSlots = 2
  MaxUdp = 1
  MaxBatch = 3
  MaxArrivals = 4
INVARIANTS EventsReachOwner NoneSkipped SlabExact AcceptNotLost
PROPERTIES Served ShutdownEnds
CHECK_DEADLOCK FALSE
