SPECIFICATION Spec
CONSTANTS
  r = r
  D = D
  G = G
  a = a
  b1 = b1
  b2 = b2
  c = c
  SD = SD
  LR = LR
  Ta = Ta
  None = None
  Folders = {r, D, G}
  Root = r
  Files = {a, b1, b2, c}
  Shortcuts = {SD, LR, Ta}
  Target <- MCTarget
  Name <- MCName
  Md5 <- MCMd5
  Size <- MCSize
  Scenarios <- TwiceReached
  FlushEvery = 2
INVARIANTS
  SuccessIsComplete
