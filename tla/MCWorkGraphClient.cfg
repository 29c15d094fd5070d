SPECIFICATION Spec
CONSTANTS
  Client = {p1}
  Revision = {r1}
  Contract = {t1, t2}
  Key <- MCKey
  Hash = {c1, c2}
  Scope = {s1}
  ExitCode <- MCExitCode
  MaxGeneration = 2
  None = None
INVARIANTS
  TypeOK
  OneAuthorizedRun
  StagesRunOnExactTree
  GreenMeansValidated
  RedMeansRecorded
  NoGenerationNoAuthority
