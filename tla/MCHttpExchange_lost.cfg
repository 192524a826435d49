SPECIFICATION Spec
CONSTANTS
  Inputs <- OneRequest
  MayFin = TRUE
  Mark = 1
  MaxCalls <- OneCall
CHECK_DEADLOCK FALSE
INVARIANTS
  FinishMeansPassedOn
