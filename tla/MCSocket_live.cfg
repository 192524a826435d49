SPECIFICATION FairSpec
CONSTANTS
  AllowHalfOpen = TRUE
  InitMayFail = FALSE
  MayReset = TRUE
  RdHighWater = 1
  SndBuf = 1
  MaxIn = 0
  MaxOut = 2
  MaxTicks = 2
CHECK_DEADLOCK FALSE
INVARIANTS
  SocketEventAlive
PROPERTIES
  CloseEmitted
  EndCompletes
