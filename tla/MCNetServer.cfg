SPECIFICATION FairSpec
CONSTANTS
  FDs = {f1, f2}
  NoFD = NoFD
  AttachMayFail = TRUE
  MaxListens = 3
  MaxCloses = 3
  MaxClients = 3
  MaxFailures = 2
CHECK_DEADLOCK FALSE
INVARIANTS
  DescriptorInv
  CallbacksInTime
PROPERTIES
  ConnectionsServed
  DetachedIsClosed
