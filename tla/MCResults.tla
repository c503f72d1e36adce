------------------------------ MODULE MCResults ------------------------------
(***************************************************************************)
(* Small instances of Results, with the topology of a system with two      *)
(* volumes.                                                                *)
(***************************************************************************)
EXTENDS Results, TLC

Address(bracket, name, port) ==
  [bracket |-> bracket, name |-> name, colons |-> name = "fd00::1", clean |-> TRUE,
   port |-> port, portClean |-> TRUE]

MCLower == ("HANA" :> "hana") @@ ("hana" :> "hana") @@ ("fd00::1" :> "fd00::1")
MCAddresses ==
  {Address("none", "HANA", 0), Address("none", "HANA", 1), Address("none", "hana", 2),
   Address("none", "fd00::1", 1), Address("open", "fd00::1", 0)}

Record(a, port, volumeId, own) ==
  [host |-> a, port |-> port, volumeId |-> volumeId, isOwn |-> own, role |-> "r"]

Own == Record(Address("none", "HANA", 0), 1, 1, TRUE)
Second == Record(Address("none", "hana", 2), 1, 2, FALSE)
Third == Record(Address("none", "fd00::1", 1), 1, 4, FALSE)
\* Of another site, with the volume of Own.
OtherSite == Record(Address("none", "hana", 2), 1, 5, FALSE)

\* The own host alone and with one of two others, a volume twice, a host that cannot be
\* reached directly, a forwarded port, and records without a port, whose text has one or has none.
MCUpdates ==
  {<<>>, <<Own>>, <<Own, Second>>, <<Third, Own>>, <<Own, OtherSite>>,
   <<Record(Address("open", "fd00::1", 0), 1, 2, FALSE), Own>>,
   <<Record(Address("none", "hana", 2), 1, 1, TRUE)>>,
   <<Own, Record(Address("none", "HANA", 0), NoPort, 2, FALSE)>>,
   <<Record(Address("none", "HANA", 1), NoPort, 1, TRUE)>>,
   <<Record(Address("none", "HANA", 0), NoPort, 1, TRUE)>>}

Scenario(kinds, faults, calls, changes) ==
  [kinds |-> kinds, faults |-> faults, updates |-> {<<>>}, ignores |-> FALSE,
   calls |-> calls, settings |-> changes, results |-> MaxResults]
TopologyOf(ignores) == [Scenario({"ping"}, {}, 3, 0) EXCEPT !.updates = MCUpdates, !.ignores = ignores]
Statement == {"prepare", "run", "drop"}

MCScenarios == {
  \* Writes, with variables and autoCommit changed among them; the connection ends with and without
  \* a fatal reply, with up to three requests waiting.
  Scenario({"update", "commit", "rollback"}, {"sql"}, 3, 2),
  Scenario({"update", "commit", "rollback"}, {"unconfirmed", "closing", "reset"}, 3, 1),
  \* Rows fetched between writes.
  Scenario({"select", "update"}, {"fatal", "fin"}, 2, 1),
  \* Results of one call and of two, errors of every request, and breaks between them.
  Scenario({"procedure"}, {"sql", "fin", "reset", "toolarge"}, 1, 0),
  Scenario({"procedure", "select"}, {}, 2, 0),
  [Scenario({"procedure", "select"}, {"lob", "sql"}, 2, 0) EXCEPT !.results = 0],
  \* A prepared statement.
  Scenario(Statement, {"sql", "unbound"}, 3, 1),
  \* The topology, used and ignored.
  TopologyOf(FALSE), TopologyOf(TRUE)}

\* Variables are changed, and a packet is too large.
TooLarge == {Scenario({"update"}, {"toolarge"}, 1, 1)}

\* A LOB among the output parameters of a procedure with result sets cannot be read.
LobFails == {Scenario({"procedure"}, {"lob"}, 1, 0)}
===============================================================================
