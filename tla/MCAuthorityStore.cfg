SPECIFICATION Spec
CONSTANTS
  Key = {k1}
  Hash = {c1, c2}
  Scope = {s1, s2}
  ExitCode = {x1, x2}
  MaxGeneration = 2
  None = None
  Handle = {h1, h2}
SYMMETRY HandleSymmetry
INVARIANTS
  TypeOK
  StoreStaysValid
  AnswersStayTrue
  GrantsAreExclusive
PROPERTIES
  ImplementsLedger
