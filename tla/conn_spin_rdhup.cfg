SPECIFICATION LoopSpec
CONSTANTS
  Chunk = 1
  PipeCap = 1
  SndCap = 1
  MaxUnits = 2
  Starts = {FALSE}
  MayFin = TRUE
  MayReset = FALSE
  MayNoMem = FALSE
PROPERTY Quiesces
CHECK_DEADLOCK FALSE
