SPECIFICATION Spec
CONSTANTS
  r1 = r1  r2 = r2  r3 = r3
  w1 = w1  w2 = w2
  alice = alice  bob = bob  carol = carol
  Requests = {r1, r2, r3}
  Swap <- MCCrowdSwap
  Origins = {alice, bob, carol}
  Sweeps = {w1}
  TierName <- MCFlatTierNames
  TIERS <- MCFlatTier
  OpeningBid <- MCFlatTierOpening
  MinFeePerByte = 1
  RbfBumpBips = 5000
  MinTier = "low"
  MaxPendingPerKey = 3
  IndexLags = FALSE
  Endpoints = {"extended"}
  FaultKinds = {}
  MaxFaults = 0
INVARIANT NoTwins
CHECK_DEADLOCK FALSE
