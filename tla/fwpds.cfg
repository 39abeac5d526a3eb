SPECIFICATION FSpec
CONSTANTS
  p = p
  q = q
  qf = qf
  a = a
  b = b
  keep = keep
  havoc = havoc
  Default = Default
  NoMerge = NoMerge
  EPS = EPS
  P <- MCP
  Q <- MCQ
  Stack <- MCStack
  MaxGeneration = 2
  Weight <- Relation2
  Zero <- RelZero
  One <- RelOne
  Combine <- RelCombine
  Extend <- RelExtend
  Diff <- RelDiffNew
  Client <- MCClient
  ClientApply <- MCApply
  Additions <- MCAdditions
  Inputs <- MCInputs
  MaxRules = 3
  MaxAgain = 2
CHECK_DEADLOCK FALSE
INVARIANTS AgreesWithEwpds
