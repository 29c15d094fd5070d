CONSTANTS
  m1 = m1
  m2 = m2
  r1 = r1
  r2 = r2
  b1 = b1
  Master = {m1, m2}
  Request = {r1, r2}
  Buildset = {b1}
  None = None
  SetOf <- AllOfOne
  Starts <- TwoMasters
  MayCancel = {}
  MayExpire = {m2}
  MayReturn = {}
  MaxCrashes = 1
  MaxRetries = 0
SPECIFICATION Spec
PROPERTIES HousekeepingReleases
CHECK_DEADLOCK FALSE
