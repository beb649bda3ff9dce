SPECIFICATION LoopSpec
CONSTANTS
  Chunk = 2
  PipeCap = 2
  SndCap = 1
  MaxUnits = 4
  Starts = {TRUE, FALSE}
  MayFin = FALSE
  MayReset = TRUE
  MayNoMem = TRUE
INVARIANT NoIdleTurn
PROPERTIES Quiesces ConnectNoticed
CHECK_DEADLOCK FALSE
