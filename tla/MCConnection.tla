----------------------------- MODULE MCConnection -----------------------------
(* Small instances of Connection. *)
EXTENDS ConnectionService

CONSTANTS r1, r2, r3, e1, e2, d1, d2, c1

NoFaults == {}
AllFaults == {"fin", "reset", "sqlerror", "fatal", "autherror", "badproof", "badparam"}
===============================================================================
