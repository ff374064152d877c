SPECIFICATION FairSpec
CONSTANTS
  r1 = r1  r2 = r2  r3 = r3
  alice = alice  bob = bob
  Requests = {r1, r2, r3}
  Origin <- MCOrigin
  Days <- MCDays
  Pools = {1, 2, 3}
  PerOriginPerHour = 1
  GlobalPerHour = 2
  Retries = 2
  ClientTimeout = 16
  Gaps <- MCGaps
  MaxBad = 4
INVARIANTS AnsweredInTime LimitHolds
PROPERTIES RefinesAttempt EveryCallEnds
CHECK_DEADLOCK FALSE
