CONSTANTS
  Build = {b1, b2}
  None = None
  Attempts = 2
  MaxBuilds = 2
  Faults <- SomeFaults
  MaxDrops = 1
  MaxStops = 1
SPECIFICATION FairSpec
INVARIANTS TypeOK StateTellsTheTask
PROPERTIES  OneInstance OnlyTwoWaitsAreEndless
CHECK_DEADLOCK FALSE
