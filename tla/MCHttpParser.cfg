SPECIFICATION Spec
CONSTANTS
  Inputs <- MCInputs
  FeedSizes <- MCFeedSizes
  MaxHeaderSize <- MCMaxHeaderSize
  LengthMax <- MCLengthMax
  Expected <- MCExpected
INVARIANTS
  ParserInv
  SplitIndependent
  HeardAsSent
  CompleteInTime
  WellFormed
  BodyAsAnnounced
  HeldBounded
CHECK_DEADLOCK FALSE
