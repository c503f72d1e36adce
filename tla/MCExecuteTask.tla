---------------------------- MODULE MCExecuteTask ----------------------------
(* Small batches for TLC. *)
EXTENDS ExecuteTask

Row(size, lobs) == [size |-> size, lobs |-> lobs]
Execution(rows, bad, autoCommit, faults) == [rows |-> rows, bad |-> bad, autoCommit |-> autoCommit, faults |-> faults]

\* A LOB that continues in a WRITE_LOB packet, two in a row that fill theirs; requests and the
\* stream that is read may fail, and the connection may break.
WithLobs == Execution(<<Row(2, <<4>>), Row(5, <<>>), Row(2, <<1, 2>>)>>, {}, TRUE,
       {"request", "reading", "fin", "reset"})

\* Every LOB has room in the packet of its row and the Writer rejects the last row; everything may
\* fail, COMMIT and ROLLBACK and a stream that is not being read too.
SmallLobs ==
  Execution(<<Row(1, <<1>>), Row(3, <<>>), Row(2, <<1>>), Row(1, <<>>)>>, {4}, TRUE,
       {"request", "finalize", "reading", "other", "fin"})

\* Three packets in a transaction of the user; a LOB that is cut, one whose row leaves it no room.
Mixed ==
  Execution(<<Row(2, <<>>), Row(2, <<2>>), Row(5, <<1>>), Row(1, <<>>)>>, {}, FALSE,
       {"request", "reading", "reset"})

Batches3 == {WithLobs, SmallLobs, Mixed}

\* The second row is larger than a packet.
TooLarge == {Execution(<<Row(2, <<>>), Row(9, <<>>)>>, {}, TRUE, {})}

\* Two LOBs in a row, the first one larger than a packet; the stream of the second one may fail
\* before its turn.
TwoLobs == {Execution(<<Row(2, <<4, 1>>)>>, {}, TRUE, {"other"})}
===============================================================================
