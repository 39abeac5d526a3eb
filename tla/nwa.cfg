SPECIFICATION Spec
CONSTANTS
  EPSILON = EPSILON
  WILD = WILD
  plain = plain
  prime = prime
  starStart = starStart
  program = program
  fin = fin
  x = x
  y = y
  u = u
  v = v
  dup = dup
  a = a
  Alphabet <- MCAlphabet
  MaxLength = 4
  Starts <- MCStarts
  Args <- MCArgs
  Calls <- MCCalls
  Internals <- MCInternals
  Returns <- MCReturns
  Fresh = dup
  MaxTrans = 4
INVARIANTS TypeOK BuildsItsLanguage DeterminizesItsLanguage DecisionsAgree
PROPERTIES EditsKeepLanguage
