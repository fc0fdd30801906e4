SPECIFICATION FairSpec
CONSTANTS
  t1 = t1
  t2 = t2
  t3 = t3
  Threads = {t1, t2, t3}
  Ops = {"copy", "log"}
  CopyWorkers = 3
  IncreaseAfter = 2
  MaxAttempts = 2
INVARIANTS
  TypeOK
  SlotsConserved
  NoMissedWakeup
PROPERTIES
  CallsEnd
  WaitersServed
  LimitRecovers
