SPECIFICATION Spec
CONSTANTS
  p = p
  p2 = p2
  q = q
  qf = qf
  a = a
  b = b
  keep = keep
  havoc = havoc
  Default = Default
  NoMerge = NoMerge
  EPS = EPS
  P <- OneState
  Q <- MCQ
  Stack <- MCStack
  MaxGeneration = 2
  Weight <- Relation2
  Zero <- RelZero
  One <- RelOne
  Combine <- RelCombine
  Extend <- RelExtend
  Diff <- RelDiffNew
  Client <- MCClient
  ClientApply <- MCApply
  Additions <- MCAdditions
  Inputs <- MCInputs
  MaxRules = 3
  Depth = 2
  Cut = 4
CHECK_DEADLOCK FALSE
INVARIANTS TypeOK MergeFunctionsAgree Saturates SummariesMarked AnswersQuery PostAgainAddsNothing
