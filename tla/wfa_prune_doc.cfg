SPECIFICATION Spec
CONSTANTS
  s0 = s0
  s1 = s1
  s2 = s2
  s3 = s3
  a = a
  b = b
  EPS = EPS
  States <- MCStates
  Stack <- MCStack
  Weight <- Relation2
  Zero <- RelZero
  One <- RelOne
  Combine <- RelCombine
  Extend <- RelExtend
  Diff <- RelDiffWhole
  Adds <- MCAdds
  Finals <- MCFinals
  Initials <- MCInitials
  Filters <- MCFilters
CHECK_DEADLOCK FALSE
PROPERTY PruneLeavesOnlyTheChop
