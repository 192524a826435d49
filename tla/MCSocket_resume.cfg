SPECIFICATION Spec
CONSTANTS
  AllowHalfOpen = FALSE
  InitMayFail = FALSE
  MayReset = FALSE
  RdHighWater = 1
  SndBuf = 1
  MaxIn = 2
  MaxOut = 2
  MaxTicks = 2
CHECK_DEADLOCK FALSE
INVARIANTS
  ResumedIsPolled
