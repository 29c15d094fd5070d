SPECIFICATION FairSpec
CONSTANTS
  A = A
  B = B
  C = C
  b1 = b1
  b2 = b2
  b3 = b3
  s1 = s1
  s2 = s2
  s3 = s3
  Lock = {A, B}
  Build = {b1, b2, b3}
  Step = {s2}
  AlwaysRun = {}
  MayStop = {}
  Of <- OrderedOf
  Locks <- OrderedLocks
  MaxCounts <- OrderedMaxCounts
PROPERTIES
  WaitersProceed
CHECK_DEADLOCK FALSE
