SPECIFICATION Spec
CONSTANTS
  Label <- MCLabel
  Grown <- MCGrown
  top_down_eval = TRUE
  MaxNodes = 6
  MaxCount = 3
  MaxProcess = 2
  Unsigned = 1000
  Weight <- Relation2
  Zero <- RelZero
  One <- RelOne
  Combine <- RelCombine
  Extend <- RelExtend
  Diff <- RelDiffNew
INVARIANTS WeightsAreFresh
PROPERTIES OldAreConstant
CHECK_DEADLOCK FALSE
