------------------------------ MODULE MCResultSet ------------------------------
(* Small instances of ResultSet. *)
EXTENDS ResultSet

NoPackets == {}
NoFaults == {{}}
FetchFaults == {{"fetch", "fin", "reset"}}
===============================================================================
