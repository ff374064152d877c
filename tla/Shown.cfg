SPECIFICATION FairSpec
CONSTANTS
  near = near  far = far
  Relays = {near, far}
  Ranked <- MCRanked
  Presses = {"s1"}
  Polls = {"p1", "p2"}
  None = None
  AddressLimit = 1
  ReportsDropped = FALSE
  Earlier <- MCEarlier
  MaxBid = 1
  MaxNonce = 2
  MaxMishaps = 0
PROPERTIES ExecutedIsShown
CHECK_DEADLOCK FALSE
