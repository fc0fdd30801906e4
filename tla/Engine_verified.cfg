SPECIFICATION Spec
CONSTANTS
  Folder = Folder
  Main = Main
  None = None
  Size <- MCSize
  MaxSingle = 2
  f1 = f1
  i1 = i1
  i2 = i2
  i3 = i3
  i4 = i4
  w1 = w1
  Files = {f1}
  Shortcuts = {}
  Workers = {w1}
  Accounts = {acc}
  LogIds = {i1, i2, i3, i4}
  Native = {}
  Big = {}
  Budget = 0
  MaxPending = 16
  RateThreshold = 2
  FlushEvery = 50
  DryRuns = {FALSE}
  Faults = {"differ"}
  MaxFaults = 1
INVARIANTS
  SuccessMeansVerified
