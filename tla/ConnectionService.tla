--------------------------- MODULE ConnectionService ---------------------------
(* Connection implements RequestService for the callbacks of its tasks. *)
EXTENDS Connection

\* The task that has left the queue and whose callback has not been called.
Served ==
  {t \in Tasks \cap issued : calls[t] = 0 /\ t \in gaps \cup Elements(ticks) \cup {due.to, receive}}

InService == IF Served = {} THEN <<>> ELSE <<CHOOSE t \in Served : TRUE>>

Service == INSTANCE RequestService WITH
  Requests <- Tasks,
  open     <- hasQueue /\ ReadyState # "closed",
  pending  <- InService \o queue,
  settled  <- {t \in Tasks : calls[t] > 0}

\* Connection.enqueue, Queue.dequeue and _cleanup together: tasks are answered in order, one
\* at a time and once, and those that are left when the server closes the connection fail.
ImplementsService == Service!Spec
===============================================================================
