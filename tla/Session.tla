------------------------------- MODULE Session -------------------------------
(***************************************************************************)
(* What a connection knows of its session, and what each packet carries of *)
(* it (lib/protocol/Connection.js send and receive, ClientInfo.js,         *)
(* Transaction.js, part/StatementContext.js, request/index.js): the        *)
(* session variables that the server has not been told yet, the statement  *)
(* context of the last reply, the state of the transaction and the         *)
(* topology.  The server is external.                                      *)
(*                                                                         *)
(* The task queue is that of Connection: one request at a time, in order.  *)
(* When the connection breaks, the requests that are left get an error,    *)
(* except the one that next() sends on the destroyed socket.               *)
(***************************************************************************)
EXTENDS Topology, FiniteSets

CONSTANTS
  Keys, Values,   \* session variables and what they may be set to
  Unset,          \* the value of a variable that has not been set
  Kinds,          \* the calls that user code may make
  Scenarios,      \* what may happen in a session; see ScenarioOK
  MaxCalls,       \* bound on the calls
  MaxSettings,    \* bound on the settings that user code changes
  MaxResults      \* bound on the result sets of a procedure call

Possible == {"sql", "lob", "fatal", "closing", "unconfirmed", "fin", "reset", "toolarge", "unbound"}

\* The calls that are made, what may go wrong, the lists of topology records that replies
\* may carry and whether the client ignores them, and the bounds on calls, on settings and
\* on the result sets of a procedure call.
ScenarioOK(s) ==
  /\ s.kinds \subseteq Kinds /\ s.faults \subseteq Possible
  /\ <<>> \in s.updates /\ s.updates \subseteq UpdateLists
  /\ s.ignores \in BOOLEAN
  /\ s.calls \in 0..MaxCalls /\ s.settings \in 0..MaxSettings /\ s.results \in 0..MaxResults

ASSUME SessionAssumption ==
  /\ Unset \notin Values
  /\ MaxCalls \in Nat /\ MaxSettings \in Nat /\ MaxResults \in Nat \ {0}
  /\ \A s \in Scenarios : ScenarioOK(s)

VARIABLES
  scenario,    \* what may happen
  settings,    \* settings changed so far
  properties,  \* _clientInfo._properties
  updated,     \* _clientInfo._updatedProperties
  context,     \* _statementContext; 0 when it is undefined
  autoCommit,  \* _transaction.autoCommit
  txKind,      \* _transaction.kind
  queue,       \* tasks that wait in _queue
  busy,        \* _queue.busy
  wire,        \* the packet that the server has not answered, or its reply
  closed,      \* the connection has ended
  losing,      \* the place in the queue of the task that is lost with the connection; 0 if none is
  lost,        \* the tasks whose callbacks are never called (history)
  server       \* the session on the server

sessionVars == <<scenario, settings, properties, updated, context, autoCommit, txKind, topologyVars>>
lossVars == <<losing, lost>>
transportVars == <<queue, busy, wire, closed, lossVars>>

Executing == {"EXECUTE", "EXECUTE_DIRECT", "PREPARE", "FETCH_NEXT"}
MessageTypes == Executing \cup
  {"READ_LOB", "CLOSE_RESULT_SET", "DROP_STATEMENT_ID", "COMMIT", "ROLLBACK", "CLIENT_PING"}

NoPacket == [stage |-> "none"]

SessionInit ==
  /\ scenario \in Scenarios /\ settings = 0
  /\ properties = [k \in Keys |-> Unset] /\ updated = {} /\ context = 0
  /\ autoCommit = TRUE /\ txKind = "none"
  /\ queue = <<>> /\ busy = FALSE /\ wire = NoPacket /\ closed = FALSE
  /\ losing = 0 /\ lost = {}
  /\ server = [vars |-> properties, context |-> 0, txn |-> "none",
               uncommitted |-> {}, committed |-> {}, prepared |-> FALSE, open |-> {}]
  /\ TopologyInit /\ (scenario.ignores <=> ignoreTopology = "REQUESTED")

-----------------------------------------------------------------------------
(* Requests *)

\* Faulty variant: autoCommit is taken for an option that has a default.
CommitByDefault(type) == type \in {"EXECUTE", "EXECUTE_DIRECT", "FETCH_NEXT", "READ_LOB"}

\* createSegment, getCommitImmediateley: whether the server commits after the request,
\* decided when the request is made.
CommitImmediately(type) ==
  type \in {"EXECUTE", "EXECUTE_DIRECT", "FETCH_NEXT", "READ_LOB"} /\ autoCommit

\* A task for the queue: the call of the user it belongs to, and the result set it is about.
Request(type, c, i) ==
  [type |-> type, call |-> c, i |-> i, commit |-> CommitImmediately(type)]

\* A packet with parameters or SQL text may be larger than packetSizeLimit.
MayBeLarge(r) == "toolarge" \in scenario.faults /\ r.type \in {"EXECUTE", "EXECUTE_DIRECT", "PREPARE"}

\* push() and resume() send at once when the queue is not busy.
MustSend == ~busy /\ queue # <<>>

-----------------------------------------------------------------------------
(* Session variables *)

\* Faulty variant: a property is only sent when it is new.
FlaggedWhenNew(k) == IF properties[k] = Unset THEN updated \cup {k} ELSE updated

\* setProperty
Flagged(k) == updated \cup {k}

\* setClientInfo(key, value); an empty key or value is refused and changes nothing.
SetClientInfo(k, v) ==
  /\ settings < scenario.settings /\ settings' = settings + 1
  /\ properties' = [properties EXCEPT ![k] = v]
  /\ updated' = Flagged(k)
  /\ UNCHANGED <<scenario, context, autoCommit, txKind, topologyVars, transportVars, server>>

SetAutoCommit(b) ==
  /\ settings < scenario.settings /\ settings' = settings + 1
  /\ autoCommit # b /\ autoCommit' = b
  /\ UNCHANGED <<scenario, properties, updated, context, txKind, topologyVars, transportVars, server>>

ShouldSend(type) == type \in Executing /\ updated # {}

-----------------------------------------------------------------------------
(* send *)

\* The packet of the first task.  getUpdatedProperties() has forgotten the updates when
\* pconn.send() finds that the packet is too large.
Send ==
  /\ MustSend /\ ~closed
  /\ LET r == Head(queue)
         info == IF ShouldSend(r.type) THEN [k \in updated |-> properties[k]] ELSE [k \in {} |-> Unset]
         packet == [stage |-> "sent", request |-> r, context |-> context, info |-> info]
         refused == [stage |-> "refused", request |-> r]
     IN wire' \in IF MayBeLarge(r) THEN {packet, refused} ELSE {packet}
  /\ updated' = IF ShouldSend(Head(queue).type) THEN {} ELSE updated
  /\ queue' = Tail(queue) /\ busy' = TRUE
  /\ UNCHANGED <<scenario, settings, properties, context, autoCommit, txKind, topologyVars, closed, lossVars, server>>

-----------------------------------------------------------------------------
(* The server *)

\* What a reply may say of the transaction: a set of transaction flags, {} without the part.
Reply(r, error, flags, results) ==
  [stage |-> "answered", request |-> r, error |-> error, flags |-> flags,
   context |-> server'.context, results |-> results]

\* The server takes the session variables of the packet, and gives statements a context.
Served(s, packet) ==
  [s EXCEPT !.vars = [k \in Keys |-> IF k \in DOMAIN packet.info THEN packet.info[k] ELSE @[k]],
            !.context = IF packet.request.type \in Executing THEN (s.context % 2) + 1 ELSE 0]

Committed(s) == [s EXCEPT !.txn = "none", !.committed = @ \cup s.uncommitted, !.uncommitted = {}]
RolledBack(s) == [s EXCEPT !.txn = "none", !.uncommitted = {}]
EndFlags(s, flag) == IF s.txn = "none" THEN {} ELSE {flag}

\* A statement that is executed: a write joins the transaction, a read begins one, and
\* both end it when the request says so.
Executed(s, r, writes) ==
  LET begun == [s EXCEPT !.txn = IF writes THEN "write" ELSE IF @ = "none" THEN "read" ELSE @,
                         !.uncommitted = IF writes THEN @ \cup {r.call} ELSE @]
  IN IF r.commit THEN Committed(begun) ELSE begun
ExecutedFlags(s, r, writes) ==
  IF r.commit THEN {"committed"}
  ELSE IF writes /\ s.txn # "write" THEN {"write"}
  ELSE IF ~writes /\ s.txn = "none" THEN {"read"} ELSE {}

\* The server does not execute the request, or executes it and ends the session.
ServeError ==
  /\ wire.stage = "sent"
  /\ \/ /\ "sql" \in scenario.faults /\ wire.request.type # "READ_LOB" /\ server' = Served(server, wire)
        /\ wire' = Reply(wire.request, "sql", {}, <<>>)
     \/ /\ "lob" \in scenario.faults /\ wire.request.type = "READ_LOB" /\ server' = Served(server, wire)
        /\ wire' = Reply(wire.request, "sql", {}, <<>>)
     \/ /\ "fatal" \in scenario.faults /\ server' = RolledBack(Served(server, wire))
        /\ wire' = Reply(wire.request, "fatal", {}, <<>>)
     \/ /\ "closing" \in scenario.faults /\ server' = RolledBack(Served(server, wire))
        /\ wire' = Reply(wire.request, "none", {"closing"}, <<>>)
  /\ UNCHANGED <<sessionVars, queue, busy, closed, lossVars>>

ServeCommit ==
  /\ wire.stage = "sent" /\ wire.request.type \in {"COMMIT", "ROLLBACK"}
  /\ LET s == Served(server, wire) flag == IF wire.request.type = "COMMIT" THEN "committed" ELSE "rolledBack" IN
     \/ /\ server' = IF wire.request.type = "COMMIT" THEN Committed(s) ELSE RolledBack(s)
        /\ wire' = Reply(wire.request, "none", EndFlags(s, flag), <<>>)
     \/ /\ "unconfirmed" \in scenario.faults
        /\ server' = s
        /\ wire' = Reply(wire.request, "none", {"unconfirmed"}, <<>>)
  /\ UNCHANGED <<sessionVars, queue, busy, closed, lossVars>>

-----------------------------------------------------------------------------
(* receive *)

\* Transaction.setFlags
KindAfter(flags) ==
  IF "read" \in flags THEN "read" ELSE IF "write" \in flags THEN "write"
  ELSE IF flags \cap {"committed", "rolledBack"} # {} THEN "none" ELSE txKind

\* The error that a reply hands to the callback of its task, and whether it ends the
\* connection: a transaction error of the session counts when the reply has none.
ErrorOf(reply) == IF reply.error = "none" /\ "closing" \in reply.flags THEN "fatal" ELSE reply.error

\* Where the task is that next() sends on the destroyed socket behind n others: _cleanup forgets its
\* callback.  A task that is too large is told at once, and next() takes the one behind it.
LosingAfter(n) ==
  LET small(i) == Cardinality({j \in 1..i : ~MayBeLarge(queue[j])})
  IN {i \in 0..Len(queue) : IF i = 0 THEN small(Len(queue)) <= n ELSE small(i - 1) <= n /\ n < i}

\* receive(), up to the callback: context, transaction, topology, and destroy().  The task that next()
\* sends then is told by onError, the one after it is lost.
Receive ==
  /\ context' = wire.context
  /\ txKind' = KindAfter(wire.flags)
  /\ \E records \in scenario.updates : UpdateTopology(records)
  /\ closed' = (closed \/ ErrorOf(wire) = "fatal")
  /\ losing' \in IF ErrorOf(wire) = "fatal" THEN LosingAfter(1) ELSE {losing}
  /\ UNCHANGED <<scenario, settings, properties, updated, autoCommit, lost>>

\* The callback of the task has returned: next().
QueueNext ==
  /\ busy /\ wire = NoPacket
  /\ busy' = FALSE
  /\ UNCHANGED <<sessionVars, queue, wire, closed, lossVars, server>>

\* The connection breaks between two events.  A FIN fails the tasks that wait, then the request under
\* way.  A reset fails the request under way, next() sends the next task, which is lost, and 'close'
\* fails the others.
Break ==
  /\ ~closed /\ ~MustSend /\ wire.stage # "refused" /\ (busy => wire # NoPacket)
  /\ closed' = TRUE
  /\ \/ "fin" \in scenario.faults /\ losing' = 0
     \/ "reset" \in scenario.faults /\ losing' \in LosingAfter(0)
  /\ wire' = IF wire = NoPacket THEN wire ELSE [stage |-> "refused", request |-> wire.request]
  /\ server' = RolledBack(server)
  /\ UNCHANGED <<sessionVars, queue, busy, lost>>

\* The head of the queue leaves it because the connection has ended.
Leaves ==
  /\ wire = NoPacket /\ closed /\ queue # <<>>
  /\ losing' = IF losing = 0 THEN 0 ELSE losing - 1

\* next() has sent the task on the destroyed socket, and _cleanup drops its receive.
Lose ==
  /\ losing = 1 /\ Leaves
  /\ queue' = Tail(queue) /\ lost' = lost \cup {Head(queue)}
  /\ UNCHANGED <<sessionVars, busy, wire, closed, server>>

\* Commit and rollback report success unless the flags say otherwise (Client.commit).
Unconfirmed(type, reply) ==
  /\ reply.flags # {}
  /\ type = "COMMIT" => "committed" \notin reply.flags
  /\ type = "ROLLBACK" => "rolledBack" \notin reply.flags
===============================================================================
