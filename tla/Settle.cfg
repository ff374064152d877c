SPECIFICATION Spec
CONSTANTS
  r1 = r1  r2 = r2
  alice = alice  dao = dao  app = app  stranger = stranger
  None = None
  Requests = {r1, r2}
  Users = {alice, dao}
  Others = {app}
  Deployer = dao
  OtherSponsors = {stranger}
  BuildInputs <- MCInputs
  HandMade <- MCHandMade
  InitialSbtc <- MCSbtc
  InitialStx <- MCStx
  Rates = {100, 400}
  Depths = {100, 1000}
  InitialMarket <- MCMarket
  PlainLength = 660
  IntegratorLength = 22
  MaxMoves = 1
  MaxUint = 3010000
  TierName <- MCTierName
  TIERS <- SdkTiers
  OpeningBid <- MCOpeningBid
  MinFeePerByte = 1
  RbfBumpBips = 1000
INVARIANTS TypeOK BuiltIsVerified OnlyTheWorldAborts
PROPERTIES AbortsAreExplained SponsorBreaksEven UserKeepsTheBargain
CHECK_DEADLOCK FALSE
