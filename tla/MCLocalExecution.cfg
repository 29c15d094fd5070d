SPECIFICATION FairSpec
CONSTANTS
  Key = {k1}
  Hash = {c1, c2}
  Scope = {s1}
  ExitCode = {x1, x2}
  MaxGeneration = 2
  None = None
  Controller = {p1, p2}
INVARIANTS
  TypeOK
  AtMostOneLaunch
  LaunchedUnderUnknown
  TerminalIsObserved
PROPERTIES
  ImplementsLaunchAuthority
  EveryCallEnds
