SPECIFICATION FairSpec
CONSTANTS
  Chunk = 3
  PipeCap = 2
  SndCap = 1
  MaxUnits = 3
  Starts = {FALSE}
  MayFin = TRUE
  MayReset = FALSE
  MayNoMem = FALSE
PROPERTIES Delivers FinPassedOn
CHECK_DEADLOCK FALSE
