CONSTANTS
  Last = 4
  Empty <- NoPackets
  HighWaterMark = 2
  FaultSets <- NoFaults
  MaxPauses = 2
  Impatient = TRUE
  MaxCloses = 0
SPECIFICATION Spec
CHECK_DEADLOCK FALSE
INVARIANTS RowsInOrder
