SPECIFICATION FairSpec
CONSTANTS
  A = A
  B = B
  C = C
  b1 = b1
  b2 = b2
  b3 = b3
  s1 = s1
  s2 = s2
  s3 = s3
  Lock = {A, B, C}
  Build = {b1, b2, b3}
  Step = {s1, s2, s3}
  AlwaysRun = {}
  MayStop = {b3}
  Of <- SharedOf
  Locks <- SharedLocks
  MaxCounts <- SharedMaxCounts
INVARIANTS
  TypeOK
  OwnersAreCompatible
  RunningHoldsLocks
  WaitersAreInterested
  NoLostWakeUp
PROPERTIES
  EveryBuildEnds
\* The builds come to their end.
CHECK_DEADLOCK FALSE
