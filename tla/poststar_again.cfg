SPECIFICATION Spec
CONSTANTS
  p = p
  p2 = p2
  q = q
  qf = qf
  a = a
  b = b
  EPS = EPS
  P <- TwoStates
  Q <- MCQ
  Stack <- MCStack
  MaxGeneration = 2
  Weight <- Relation2
  Zero <- RelZero
  One <- RelOne
  Combine <- RelCombine
  Extend <- RelExtend
  Diff <- RelDiffExact
  RuleSets <- Programs
  Inputs <- ProgramInputs
  Depth = 2
  Cut = 4
  Leftovers <- NoLeftovers
CHECK_DEADLOCK FALSE
INVARIANTS IInv GeneratedStatesAreFresh AnswersPostStar
PROPERTIES EveryQueryReturns
