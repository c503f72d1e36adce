---------------------------- MODULE RequestService ----------------------------
(***************************************************************************)
(* What user code relies on when it hands requests to a connection: the    *)
(* requests are answered one at a time and in the order in which they were *)
(* made, each callback is called once, and when the connection breaks the  *)
(* requests that are left are answered too, with an error.                 *)
(***************************************************************************)
EXTENDS Naturals, Sequences

CONSTANT Requests

VARIABLES
  open,     \* requests are accepted
  pending,  \* accepted requests without an answer, oldest first
  settled   \* requests whose callback has been called

serviceVars == <<open, pending, settled>>

Init == open = TRUE /\ pending = <<>> /\ settled = {}

Fresh(r) == r \notin settled /\ \A i \in DOMAIN pending : pending[i] # r

Submit(r) ==
  /\ open /\ Fresh(r)
  /\ pending' = Append(pending, r)
  /\ UNCHANGED <<open, settled>>

\* A closed service answers at once, with an error.
Refuse(r) ==
  /\ ~open /\ Fresh(r)
  /\ settled' = settled \cup {r}
  /\ UNCHANGED <<open, pending>>

\* The request that is answered may be the one that ends the service.
Answer ==
  /\ pending # <<>>
  /\ settled' = settled \cup {Head(pending)}
  /\ pending' = Tail(pending)
  /\ open' \in {open, FALSE}

\* The waiting requests fail together; the one being served is answered on its own.
Break ==
  /\ open' = FALSE
  /\ \E k \in 0..Len(pending) :
        /\ k <= 1
        /\ pending' = SubSeq(pending, 1, k)
        /\ settled' = settled \cup {pending[i] : i \in (k + 1)..Len(pending)}

Next == Answer \/ Break \/ \E r \in Requests : Submit(r) \/ Refuse(r)

Spec == Init /\ [][Next]_serviceVars /\ WF_serviceVars(Answer)
===============================================================================
