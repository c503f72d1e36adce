CONSTANTS
  MIN_COMPRESS_PKT_LEN = 20
  MaxInt16 = 2
  None = None
  Scenarios <- MCScenarios
  Chunks = {1, 5, 7}
  PacketSizeLimit = 30
  MaxLogins = 2
SPECIFICATION FairSpec
CHECK_DEADLOCK FALSE
INVARIANTS PacketsArriveWhole AnsweredAsAgreed
PROPERTIES ExchangesSettle
