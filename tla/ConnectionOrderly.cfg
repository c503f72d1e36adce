CONSTANTS
  r1 = r1  r2 = r2  r3 = r3  e1 = e1  e2 = e2  d1 = d1  d2 = d2  c1 = c1
  Requests = {r1, r2, r3}
  Executes = {e1, e2}
  Disconnects = {d1}
  Closes = {}
  TooLarge = {r1}
  Unwritable = {r2}
  AsyncProof = TRUE
  Faults = {"sqlerror", "badparam"}
  UserDestroys = FALSE
  Orderly = TRUE
  MaxRounds = 3
SPECIFICATION FairSpec
CHECK_DEADLOCK FALSE
INVARIANTS NeverCrashes
PROPERTIES DisconnectSettles
