SPECIFICATION Spec
CONSTANTS
  Folder = Folder
  Main = Main
  None = None
  Size <- MCSize
  MaxSingle = 2
  f1 = f1
  i1 = i1
  i2 = i2
  i3 = i3
  i4 = i4
  f2 = f2
  f3 = f3
  s1 = s1
  big1 = big1
  w1 = w1
  Files = {f1, f2, f3, s1, big1}
  Shortcuts = {s1}
  Workers = {w1}
  Accounts = {acc}
  LogIds = {i1, i2, i3, i4}
  Native = {}
  Big = {big1}
  Budget = 0
  MaxPending = 2
  RateThreshold = 2
  FlushEvery = 3
  DryRuns = {FALSE}
  Faults = {"rate", "save", "trash"}
  MaxFaults = 4
SYMMETRY Symmetry
INVARIANTS
  BreakerBounded
  LogNeverAhead
