SPECIFICATION LifeSpec
CONSTANTS
  TierName <- MCTierName
  TIERS <- MCTIERS
  OpeningBid <- MCOpeningBid
  TIER_NAMES <- MCTierNames
  MinFeePerByte = 0
  RbfBumpBips = 1000
  Tier = "high"
  SweepEvery = 10
  RbfAfter = 10
  Latency = 1
  Bytes = 0
  MaxRestarts = 1
  MaxFailed = 2
  RESERVE_RUNNING_MS = 2
  RESERVE_BROADCAST_MS = 360
INVARIANTS ClimbsInTime OneRecord RefusedWhileClimbing
PROPERTIES RefinesClock
CHECK_DEADLOCK FALSE
