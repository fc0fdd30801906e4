SPECIFICATION Spec
CONSTANTS
  t1 = t1
  Threads = {t1}
  Ops = {"copy"}
  CopyWorkers = 1
  IncreaseAfter = 2
  MaxAttempts = 2
INVARIANT
  EveryThrottleReported
