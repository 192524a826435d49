SPECIFICATION FairSpec
CONSTANTS
  Masks <- ReadOnly
  Events = {e1, e2}
  Handles = {h1, h2}
  FDs = {f1}
  NoEvent = NoEvent
  NoHandle = NoHandle
  NoFD = NoFD
  UserTick = UserTick
  Timeouts = {1}
  IntMax = 2
  MaxElapsed = 1
  MaxRestarts = 1
  MaxTicks = 2
  MaxEvents = 1
  EpollMayFail = FALSE
CHECK_DEADLOCK FALSE
PROPERTIES
  ImplementsContract
  CloseCompletes
  RemovalsComplete
  TimersRun
