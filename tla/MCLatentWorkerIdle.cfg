CONSTANTS
  Build = {b1, b2}
  None = None
  Attempts = 2
  MaxBuilds = 2
  Faults <- NoFaults
  MaxDrops = 0
  MaxStops = 2
SPECIFICATION FairSpec
PROPERTIES IdleIsStopped
CHECK_DEADLOCK FALSE
