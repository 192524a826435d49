SPECIFICATION Spec
CONSTANTS
  FDs = {f1}
  NoFD = NoFD
  AttachMayFail = FALSE
  MaxListens = 1
  MaxCloses = 2
  MaxClients = 2
  MaxFailures = 0
CHECK_DEADLOCK FALSE
INVARIANTS
  AcceptsOnOpenDescriptor
