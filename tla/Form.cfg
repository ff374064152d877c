SPECIFICATION Spec
CONSTANTS
  alice = alice  bob = bob  app = app  near = near  far = far
  None = None
  Accounts = {alice, bob}
  BalanceOf <- MCBalanceOf
  Integrator = app
  IntegratorBips = 100
  Relays = {near, far}
  MinTier <- MCMinTier
  SmallSwapMax = 199
  LargeSwapMin = 300
  Worlds <- MCWorlds
  Entries <- MCEntries
  MaxRefreshes = 3
  MaxLinked = 2
  MaxTrades = 1
  MaxMishaps = 1
  PriceScale = 10000
  DlmmMinOutput = 60000
INVARIANTS TypeOK BalanceIsOfAccount AskedIsPayable
PROPERTIES SurfacesAgree ShownReadsBack BestIsCommitted QuotesAreFair
CHECK_DEADLOCK FALSE
