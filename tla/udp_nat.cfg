SPECIFICATION FairSpec
CONSTANTS
  None = None
  Clients = {c1, c2}
  MaxSlots = 2
  Batch = 2
  Idle = 1
  MaxIn = 3
  MaxReplies = 2
INVARIANTS MapExact OneUserPerSocket QueuesAnnounced IdleBound
PROPERTIES IsUdpNat QueuesRead
CHECK_DEADLOCK TRUE
