SPECIFICATION FairSpec
CONSTANTS
  Length = 8
  ReadSize = 3
  Impatient = FALSE
  Fails = TRUE
CHECK_DEADLOCK FALSE
INVARIANTS BytesInOrder EndIsComplete OneRead
PROPERTIES Settles
