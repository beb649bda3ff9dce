SPECIFICATION FairSpec
CONSTANTS
  Off = Off
  ConnectTimeout = 5
  IdleTimeout = 4
  HalfClose = 2
  Second = 2
  MaxAge = 9
INVARIANTS ConnectBound SilentBound HalfBound
PROPERTIES NotEarly NoImmortal
CHECK_DEADLOCK TRUE
