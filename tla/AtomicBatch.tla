------------------------------ MODULE AtomicBatch ------------------------------
(***************************************************************************)
(* What a statement with many rows and LOBs promises under auto-commit,    *)
(* whatever the number of packets it takes: the whole batch is stored, or  *)
(* nothing is.  The caller is told which, unless the connection breaks:    *)
(* then an error leaves open which of the two has happened.                *)
(***************************************************************************)
CONSTANT Nothing

VARIABLES
  whole,   \* the batch
  stored,  \* what is committed
  outcome, \* what the caller has been told: none, ok, error
  broken   \* the connection has broken before the caller was told

batchVars == <<whole, stored, outcome, broken>>

Init == stored = Nothing /\ outcome = "none" /\ ~broken

Commit ==
  /\ stored = Nothing /\ outcome = "none" /\ ~broken
  /\ stored' = whole
  /\ UNCHANGED <<whole, outcome, broken>>

\* The batch is stored when its caller is told, or was before.
Succeed ==
  /\ outcome = "none" /\ ~broken
  /\ stored' = whole
  /\ outcome' = "ok"
  /\ UNCHANGED <<whole, broken>>

\* On a connection that works, an error means that nothing is stored.
Fail ==
  /\ stored = Nothing /\ outcome = "none" /\ ~broken
  /\ outcome' = "error"
  /\ UNCHANGED <<whole, stored, broken>>

\* The reply that is lost may be the one that says that the batch is stored; nothing is stored later.
Break ==
  /\ outcome = "none" /\ ~broken
  /\ broken' = TRUE
  /\ stored' \in {stored, whole}
  /\ outcome' \in {"none", "error"}
  /\ UNCHANGED whole

\* The caller is told of the break later.
Tell ==
  /\ outcome = "none" /\ broken
  /\ outcome' = "error"
  /\ UNCHANGED <<whole, stored, broken>>

Next == Commit \/ Succeed \/ Fail \/ Break \/ Tell

Spec == Init /\ [][Next]_batchVars
===============================================================================
