SPECIFICATION Spec
CONSTANTS
  t1 = t1
  Threads = {t1}
  Token = 4
  Second = 2
  MaxRate = 1
  MinRate = 2
  RecoverStep = 2
  RecoverAfter = 2
  RetryAfters = {0, 2}
  AgeCap = 5
INVARIANT
  CeilingHolds
