CONSTANTS
  Last = 4
  Empty <- NoPackets
  HighWaterMark = 1
  FaultSets <- Together
  Lobs <- LobsTogether
  MaxPauses = 0
  Impatient = FALSE
  MaxCloses = 0
  Room = 1
SPECIFICATION FetchSpec
CHECK_DEADLOCK FALSE
INVARIANTS FailureIsReported
