SPECIFICATION Spec
CONSTANTS
  p = p
  p2 = p2
  q = q
  qf = qf
  a = a
  b = b
  EPS = EPS
  P <- TwoStates
  Q <- MCQ
  Stack <- MCStack
  MaxGeneration = 1
  Weight <- Relation2
  Zero <- RelZero
  One <- RelOne
  Combine <- RelCombine
  Extend <- RelExtend
  Diff <- RelDiffWhole
  RuleSets <- MCRuleSets
  Inputs <- MCInputs
  Depth = 2
  Cut = 4
CHECK_DEADLOCK FALSE
INVARIANTS TypeOK SaturatedWhenDone NoLostUpdate AnswersPreStar
PROPERTIES QueryReturns
