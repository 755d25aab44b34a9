SPECIFICATION AccessSpec
CONSTANTS
  AuthTimeout = 1
  Period = 3
  TokenLife = 10
  MaxClock = 12
INVARIANTS AccessInv FramesNeedAccess
CHECK_DEADLOCK FALSE
