CONSTANTS
  r1 = r1  r2 = r2  r3 = r3  e1 = e1  e2 = e2  d1 = d1  d2 = d2  c1 = c1
  Requests = {r1}
  Executes = {}
  Disconnects = {}
  Closes = {}
  TooLarge = {}
  Unwritable = {}
  AsyncProof = FALSE
  Faults = {"autherror"}
  UserDestroys = FALSE
  Orderly = FALSE
  MaxRounds = 2
SPECIFICATION Spec
CHECK_DEADLOCK FALSE
INVARIANTS FailedLoginDisconnects
