SPECIFICATION FairSpec
CONSTANTS
  Batches <- Batches3
  PacketSizeLimit = 6
  PacketSize = 5
  LobHeader = 1
CHECK_DEADLOCK FALSE
INVARIANTS RowsInOrder SuccessIsComplete PacketFits LeavesTransactions
PROPERTIES AllOrNothing Settles
