CONSTANTS
  r1 = r1  r2 = r2  r3 = r3  e1 = e1  e2 = e2  d1 = d1  d2 = d2  c1 = c1
  Requests = {r1, r2, r3}
  Executes = {}
  Disconnects = {}
  Closes = {c1}
  TooLarge = {}
  Unwritable = {}
  AsyncProof = FALSE
  Faults = {"sqlerror", "fin"}
  UserDestroys = FALSE
  Orderly = FALSE
  MaxRounds = 1
SPECIFICATION FairSpec
CHECK_DEADLOCK FALSE
INVARIANTS AtMostOnce
PROPERTIES ImplementsService CloseCloses
