--------------------------- MODULE MCResultSetFetch ---------------------------
(* Small instances of ResultSetFetch. *)
EXTENDS ResultSetFetch

NoPackets == {}

\* Rows without LOBs on a connection that may break or fail FETCH; rows with two LOBs, whose
\* reading may fail, as CLOSE may.
Separately == {{"fetch", "fin", "reset"}, {"lob", "close"}}
LobsSeparately == [f \in Separately |-> IF "lob" \in f THEN 2 ELSE 0]

\* Rows with a LOB on a connection that may break.
Together == {{"fin", "reset"}}
LobsTogether == [f \in Together |-> 1]
===============================================================================
