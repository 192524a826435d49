SPECIFICATION Spec
CONSTANTS
  AllowHalfOpen = FALSE
  InitMayFail = TRUE
  MayReset = FALSE
  RdHighWater = 2
  SndBuf = 1
  MaxIn = 3
  MaxOut = 2
  MaxTicks = 2
CHECK_DEADLOCK FALSE
INVARIANTS
  LifeInv
  ReceivedInOrder
  SentInOrder
  NothingLeftUnsent
PROPERTIES
  EndIsComplete
