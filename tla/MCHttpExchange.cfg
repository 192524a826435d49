SPECIFICATION FairSpec
CONSTANTS
  Inputs <- MCInputs
  MayFin = TRUE
  Mark = 1
  MaxCalls <- MCCalls
CHECK_DEADLOCK FALSE
INVARIANTS
  TypeOK
  RequestInOrder
  ResponseInOrder
  FlowsTogether
  SocketOutlivesStreams
PROPERTIES
  ResponseCompletes
