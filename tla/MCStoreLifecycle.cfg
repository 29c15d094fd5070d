SPECIFICATION Spec
CONSTANTS
  Process = {a1, a2, a3}
  MaxRows = 2
  None = None
SYMMETRY ProcessSymmetry
CHECK_DEADLOCK FALSE
INVARIANTS
  TypeOK
  TablesMatchVersion
  OpenMeansCurrent
PROPERTIES
  HistoryIsKept
  FailedInitializationIsFinal
