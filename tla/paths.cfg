SPECIFICATION Spec
CONSTANTS
  s = s
  mid = mid
  f = f
  a = a
  b = b
  EPS = EPS
  NIL = NIL
  NoNode = NoNode
  Root = Root
  ID = ID
  Node <- MCNode
  Start = s
  Alphabet <- MCAlphabet
  Final <- MCFinal
  Additions <- MCAdditions
  MaxTrans = 4
  WordLength = 2
  Weight <- Relation2
  Zero <- RelZero
  One <- RelOne
  Combine <- RelCombine
  Extend <- RelExtend
  Diff <- RelDiffNew
INVARIANTS SummaryIsLeast ClosureIsLeast WordsAgree RegexWithinSummary TarjanAgrees
