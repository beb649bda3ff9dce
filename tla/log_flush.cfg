SPECIFICATION FairSpec
CONSTANTS
  Pushers = {main, w1, w2}
  Main = main
  QueueMax = 2
  Rate = 2
  Modes = {TRUE, FALSE}
  MaxPush = 3
INVARIANT RateKept
PROPERTIES DropsAccounted DropsReported
CHECK_DEADLOCK FALSE
