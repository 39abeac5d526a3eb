SPECIFICATION RulesSpec
CONSTANTS
  p = p
  q = q
  a = a
  b = b
  EPS = EPS
  P <- MCP
  Other <- MCOther
  Stack <- MCStack
  Weight <- Relation2
  Zero <- RelZero
  One <- RelOne
  Combine <- RelCombine
  Extend <- RelExtend
  Diff <- RelDiffWhole
  Rules <- MCRules5
  Weights <- MCWeights
  Met <- MCMet
CHECK_DEADLOCK FALSE
INVARIANTS RulesTypeOK RulesIndexesAgree
PROPERTIES ImplementsRuleMap
