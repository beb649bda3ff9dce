SPECIFICATION FairSpec
CONSTANTS
  Chunk = 2
  PipeCap = 2
  SndCap = 1
  MaxUnits = 1
  Starts = {TRUE}
  MayFin = TRUE
  MayReset = FALSE
  MayNoMem = FALSE
PROPERTY ConnectNoticed
CHECK_DEADLOCK FALSE
