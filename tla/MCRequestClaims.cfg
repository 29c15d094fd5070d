CONSTANTS
  m1 = m1
  m2 = m2
  r1 = r1
  r2 = r2
  b1 = b1
  Master = {m1, m2}
  Request = {r1, r2}
  Buildset = {b1}
  None = None
  SetOf <- AllOfOne
  Starts <- OneRequestOrOneMaster
  MayCancel = {r1}
  MayExpire = {m2}
  MayReturn = {}
  MaxCrashes = 2
  MaxRetries = 1
SPECIFICATION FairSpec
INVARIANTS TypeOK OneBuildAtATime CancelReaches BuildsetIsFaithful
PROPERTIES EveryRequestEnds
CHECK_DEADLOCK FALSE
