SPECIFICATION FairSpec
CONSTANTS
  t1 = t1
  t2 = t2
  t3 = t3
  Threads = {t1, t2, t3}
  Token = 4
  Second = 2
  MaxRate = 5
  MinRate = 2
  RecoverStep = 2
  RecoverAfter = 2
  RetryAfters = {0, 2}
  AgeCap = 5
INVARIANTS
  TypeOK
  CeilingHolds
  RateHolds
PROPERTIES
  CooldownHolds
  RequestsFlow
  RateRecovers
