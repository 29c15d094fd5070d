SPECIFICATION Spec
CONSTANTS
  Client = {p1, p2}
  Revision = {r1}
  Contract = {t1}
  Key <- MCKey
  Hash = {c1}
  Scope = {s1}
  ExitCode <- MCExitCode
  MaxGeneration = 2
  None = None
INVARIANTS
  StagesRunOnExactTree
