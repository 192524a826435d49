SPECIFICATION Spec
CONSTANTS
  Masks <- ReadOrNothing
  Events = {e1, e2}
  Handles = {h1, h2}
  FDs = {f1, f2}
  NoEvent = NoEvent
  NoHandle = NoHandle
  NoFD = NoFD
  UserTick = UserTick
  Timeouts = {}
  IntMax = 2
  MaxElapsed = 0
  MaxRestarts = 0
  MaxTicks = 2
  MaxEvents = 2
  EpollMayFail = FALSE
SYMMETRY Symmetry
CHECK_DEADLOCK FALSE
INVARIANTS
  InterestStaleOnlyAtRegisteredMask
PROPERTIES
  CallbacksOnlyWhenAttached
