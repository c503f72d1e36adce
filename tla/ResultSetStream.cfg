CONSTANTS
  Last = 4
  Empty = {2}
  HighWaterMark = 2
  FaultSets <- FetchFaults
  MaxPauses = 2
  Impatient = FALSE
  MaxCloses = 2
SPECIFICATION FairSpec
CHECK_DEADLOCK FALSE
INVARIANTS RowsInOrder Backpressure OneFetch EndThenClose
PROPERTIES CloseSettles StreamEnds
