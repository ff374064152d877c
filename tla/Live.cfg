SPECIFICATION FairSpec
CONSTANTS
  r1 = r1  r2 = r2  r3 = r3
  w1 = w1  w2 = w2
  alice = alice  bob = bob  carol = carol
  Requests = {r1, r2, r3}
  Swap <- MCTooLongSwap
  Origins = {alice, bob}
  Sweeps = {w1}
  TierName <- MCLowTierNames
  TIERS <- MCLowTier
  OpeningBid <- MCLowTierOpening
  MinFeePerByte = 1
  RbfBumpBips = 5000
  MinTier = "low"
  MaxPendingPerKey = 2
  IndexLags = TRUE
  Endpoints = {"extended", "account"}
  FaultKinds = {"throw", "reject"}
  MaxFaults = 1
PROPERTIES EveryRequestIsAnswered RecordsClimbOrLeave
CHECK_DEADLOCK FALSE
