SPECIFICATION Spec
CONSTANTS
  near = near  far = far
  Relays = {near, far}
  Ranked <- MCRanked
  Presses = {"s1", "s2"}
  Polls = {"p1"}
  None = None
  AddressLimit = 1
  ReportsDropped = FALSE
  Earlier <- MCEarlier
  MaxBid = 2
  MaxNonce = 2
  MaxMishaps = 1
INVARIANTS TypeOK ShownIsExecuted PendingIsFollowed
PROPERTIES FreshPollSettles
CHECK_DEADLOCK FALSE
