SPECIFICATION Spec
CONSTANTS
  p = p
  p2 = p2
  q = q
  qf = qf
  a = a
  b = b
  EPS = EPS
  P <- OneState
  Q <- MCQ
  Stack <- MCStack
  MaxGeneration = 1
  Weight <- Relation2
  Zero <- RelZero
  One <- RelOne
  Combine <- RelCombine
  Extend <- RelExtend
  Diff <- RelDiffWhole
  RuleSets <- UpToThreeRules
  Inputs <- SomeInputs
  Depth = 2
  Cut = 4
  Leftovers <- SomeLeftovers
CHECK_DEADLOCK FALSE
INVARIANTS SaturatedWhenDone NoLostUpdate AnswersPostStar CfgAddsNoStates
