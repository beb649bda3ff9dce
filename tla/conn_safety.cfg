SPECIFICATION Spec
CONSTANTS
  Chunk = 2
  PipeCap = 2
  SndCap = 1
  MaxUnits = 3
  Starts = {TRUE, FALSE}
  MayFin = TRUE
  MayReset = TRUE
  MayNoMem = TRUE
INVARIANTS EofAfterData NoLostWakeup HalfCloseClock
PROPERTY IsRelayStream
CHECK_DEADLOCK FALSE
