CONSTANTS
  Last = 4
  Empty = {2}
  HighWaterMark = 1
  FaultSets <- Separately
  Lobs <- LobsSeparately
  MaxPauses = 0
  Impatient = FALSE
  MaxCloses = 0
  Room = 1
SPECIFICATION FairFetchSpec
CHECK_DEADLOCK FALSE
INVARIANTS FetchCallsBackOnce FetchIsComplete
PROPERTIES FetchSettles
