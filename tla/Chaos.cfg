SPECIFICATION Spec
CONSTANTS
  r1 = r1  r2 = r2  r3 = r3
  w1 = w1  w2 = w2
  alice = alice  bob = bob  carol = carol
  Requests = {r1, r2, r3}
  Swap <- MCMinimumSwap
  Origins = {alice, bob}
  Sweeps = {w1}
  TierName <- MCAllTiersNames
  TIERS <- MCAllTiers
  OpeningBid <- MCAllTiersOpening
  MinFeePerByte = 1
  RbfBumpBips = 5000
  MinTier = "mid"
  MaxPendingPerKey = 2
  IndexLags = TRUE
  Endpoints = {"extended", "account"}
  FaultKinds = {"refuse","throw","reject","lostReply","lostBump","store","death","slow","expire","drop","outside"}
  MaxFaults = 2
INVARIANTS TypeOK FeeWithinBracket EveryBidIsARung
CHECK_DEADLOCK FALSE
