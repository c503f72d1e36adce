SPECIFICATION Spec
CONSTANTS
  Length = 6
  ReadSize = 3
  Impatient = TRUE
  Fails = FALSE
INVARIANTS BytesInOrder
CHECK_DEADLOCK FALSE
