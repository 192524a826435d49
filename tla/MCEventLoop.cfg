SPECIFICATION Spec
CONSTANTS
  Masks <- ReadOnly
  Events = {e1, e2}
  Handles = {h1, h2, h3}
  FDs = {f1}
  NoEvent = NoEvent
  NoHandle = NoHandle
  NoFD = NoFD
  UserTick = UserTick
  Timeouts = {0, 3}
  IntMax = 2
  MaxElapsed = 1
  MaxRestarts = 1
  MaxTicks = 2
  MaxEvents = 1
  EpollMayFail = TRUE
SYMMETRY Symmetry
CHECK_DEADLOCK FALSE
INVARIANTS
  TypeOK
  OneRecordPerEvent
  TimerQueueExact
  PendingOnce
  NoDanglingHandles
  EpollOwnership
  NothingPendingAtPoll
  TimersNotLate
