SPECIFICATION Spec
CONSTANTS
  near = near  far = far
  Relays = {near, far}
  Ranked <- MCRanked
  Presses = {"s1"}
  Polls = {"p1"}
  None = None
  AddressLimit = 1
  ReportsDropped = TRUE
  Earlier <- MCNone
  MaxBid = 2
  MaxNonce = 1
  MaxMishaps = 0
INVARIANT LiveIsPending
CHECK_DEADLOCK FALSE
