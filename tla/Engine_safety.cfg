SPECIFICATION Spec
CONSTANTS
  Folder = Folder
  Main = Main
  None = None
  Size <- MCSize
  MaxSingle = 2
  f1 = f1
  i1 = i1
  i2 = i2
  i3 = i3
  i4 = i4
  f2 = f2
  s1 = s1
  w1 = w1
  w2 = w2
  Files = {f1, f2, s1}
  Shortcuts = {s1}
  Workers = {w1, w2}
  Accounts = {acc}
  LogIds = {i1, i2, i3, i4}
  Native = {}
  Big = {}
  Budget = 2
  MaxPending = 2
  RateThreshold = 2
  FlushEvery = 2
  DryRuns = {TRUE, FALSE}
  Faults = {"rate", "quota", "reject", "lost", "differ", "unverifiable", "shortcut", "list", "load", "save", "report", "trash", "signal", "crash", "userTrash"}
  MaxFaults = 2
SYMMETRY Symmetry
INVARIANTS
  TypeOK
  AtMostOneCopy
  NothingSkipped
  FinalLogWins
  BytesAccounted
PROPERTIES
  DryRunWritesNothing
  ImplementsPromise
