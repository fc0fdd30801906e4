SPECIFICATION RerunSpec
CONSTANTS
  Folder = Folder
  Main = Main
  None = None
  Size <- MCSize
  MaxSingle = 2
  f1 = f1
  i1 = i1
  i2 = i2
  i3 = i3
  i4 = i4
  f2 = f2
  s1 = s1
  w1 = w1
  Files = {f1, f2, s1}
  Shortcuts = {s1}
  Workers = {w1}
  Accounts = {acc1, acc2}
  LogIds = {i1, i2, i3, i4}
  Native = {f2}
  Big = {}
  Budget = 1
  MaxPending = 1
  RateThreshold = 2
  FlushEvery = 1
  DryRuns = {FALSE}
  Faults = {"rate", "quota", "reject", "lost", "retried", "differ", "unverifiable", "shortcut", "index", "load", "save", "report", "trash", "signal", "crash", "userTrash"}
  MaxFaults = 1
PROPERTIES
  RunEnds
  Converges
