SPECIFICATION Spec
CONSTANTS
  r1 = r1  r2 = r2  r3 = r3
  w1 = w1  w2 = w2
  alice = alice  bob = bob  carol = carol
  Requests = {r1, r2, r3}
  Swap <- MCTwinSwap
  Origins = {alice}
  Sweeps = {w1, w2}
  TierName <- MCBothTiersNames
  TIERS <- MCBothTiers
  OpeningBid <- MCBothTiersOpening
  MinFeePerByte = 1
  RbfBumpBips = 5000
  MinTier = "low"
  MaxPendingPerKey = 2
  IndexLags = TRUE
  Endpoints = {"extended", "account"}
  FaultKinds = {"lostBump", "drop"}
  MaxFaults = 1
INVARIANTS LiveIsTracked OneRequestPerOriginNonce SponsorsOnce
CHECK_DEADLOCK FALSE
