------------------------------- MODULE Results -------------------------------
(***************************************************************************)
(* The calls of a client and what becomes of their replies: Client.js,     *)
(* Statement.js and Result.js.  exec() goes on after the reply: it reads   *)
(* the LOBs among the output parameters, fetches the rows of one result    *)
(* set after the other, and closes them.  Each of these is a request of    *)
(* its own on the same queue, between those of the other calls.            *)
(*                                                                         *)
(* ResultSet.fetch and Lob.read are modelled here by the requests they     *)
(* send; their streams are the subject of ResultSetFetch and Lob.          *)
(***************************************************************************)
EXTENDS Session

CONSTANTS
  MaxPackets   \* bound on the packets of rows behind the first one

Calls == 1..MaxCalls
ResultIds == Calls \X (1..MaxResults)

ASSUME CallAssumption ==
  /\ Kinds \subseteq {"select", "update", "procedure", "prepare", "run", "drop", "commit", "rollback", "ping"}
  /\ MaxPackets \in Nat

VARIABLES
  made,       \* the calls made so far: their kind and autoCommit
  told,       \* what the callback of each call has been told
  work,       \* where the result of each call is
  sets,       \* the result sets: packets left, and what the client knows of them
  ticks,      \* process.nextTick callbacks
  statement,  \* the prepared statement: none, preparing, ready, lost (its connection is gone)
  allowed     \* the writes that user code has asked to commit (history)

resultVars == <<made, told, work, sets, ticks, statement, allowed>>
vars == <<sessionVars, transportVars, server, resultVars>>

Idle == [at |-> "idle", i |-> 0, n |-> 0]

Init ==
  /\ SessionInit
  /\ made = <<>> /\ told = [c \in Calls |-> "none"] /\ work = [c \in Calls |-> Idle]
  /\ sets = [s \in ResultIds |-> [left |-> 0, state |-> "none"]]
  /\ ticks = <<>> /\ statement = "none" /\ allowed = {}

\* The event loop takes the next event when nothing is left to do at once.
EventLoop == ~MustSend /\ ticks = <<>>

-----------------------------------------------------------------------------
(* Calls *)

TypeOf(kind) ==
  CASE kind \in {"select", "update", "procedure"} -> "EXECUTE_DIRECT"
    [] kind = "prepare" -> "PREPARE"
    [] kind = "run" -> "EXECUTE"
    [] kind = "drop" -> "DROP_STATEMENT_ID"
    [] kind = "commit" -> "COMMIT"
    [] kind = "rollback" -> "ROLLBACK"
    [] kind = "ping" -> "CLIENT_PING"

Writes == {"update", "run"}
WritesBefore(c) == {w \in 1..(c - 1) : made[w].kind \in Writes}

\* A statement is prepared once, and run and dropped while it has its connection.
MayCall(kind) ==
  /\ kind = "prepare" => statement = "none"
  /\ kind \in {"run", "drop"} => statement = "ready"

Told(c, outcome) == [told EXCEPT ![c] = IF @ = "none" THEN outcome ELSE "twice"]

\* A call of user code: a task for the queue.  Statement.exec() with the wrong number of
\* values makes none.
Call(kind) ==
  /\ ~MustSend /\ Len(made) < scenario.calls /\ MayCall(kind)
  /\ LET c == Len(made) + 1
         r == Request(TypeOf(kind), c, 0)
     IN /\ made' = Append(made, [kind |-> kind, auto |-> autoCommit])
        /\ \/ /\ queue' = Append(queue, r) /\ UNCHANGED ticks
              /\ allowed' = allowed \cup
                   (IF kind = "commit" THEN WritesBefore(c)
                    ELSE IF autoCommit THEN WritesBefore(c) \cup {c} ELSE {})
           \/ /\ kind = "run" /\ "unbound" \in scenario.faults
              /\ ticks' = Append(ticks, [do |-> "unbound", call |-> c, i |-> 0])
              /\ UNCHANGED <<queue, allowed>>
  /\ statement' = IF kind = "prepare" THEN "preparing" ELSE statement
  /\ UNCHANGED <<sessionVars, busy, wire, closed, lossVars, server, told, work, sets>>

\* fetchNext, readLob and closeResultSet of a call, behind the tasks `waiting`.
GoesOn(type, c, i, waiting) ==
  LET r == Request(type, c, i) IN
  /\ queue' = Append(waiting, r)
  /\ allowed' = IF autoCommit THEN allowed \cup {w \in 1..Len(made) : made[w].kind \in Writes} ELSE allowed

-----------------------------------------------------------------------------
(* The server executes statements *)

\* A result set: the packets behind the one that comes with the reply, and whether the
\* server closes it with the last one.
Served1 == [left : 0..MaxPackets, closes : BOOLEAN]

OpenSets(c, results) == {<<c, i>> : i \in {k \in DOMAIN results : ~(results[k].left = 0 /\ results[k].closes)}}

Serve ==
  /\ wire.stage = "sent" /\ wire.request.type \notin {"COMMIT", "ROLLBACK"}
  /\ LET r == wire.request
         s == Served(server, wire)
         kind == made[r.call].kind
         opened(results) == [s EXCEPT !.open = @ \cup OpenSets(r.call, results)]
     IN \/ /\ r.type \in {"EXECUTE_DIRECT", "EXECUTE"} /\ kind \in Writes
           /\ server' = Executed(s, r, TRUE)
           /\ wire' = Reply(r, "none", ExecutedFlags(s, r, TRUE), <<>>)
        \/ /\ r.type = "EXECUTE_DIRECT" /\ kind \in {"select", "procedure"}
           /\ \E n \in (IF kind = "select" THEN {1} ELSE 0..scenario.results) : \E results \in [1..n -> Served1] :
                /\ server' = Executed(opened(results), r, FALSE)
                /\ wire' = Reply(r, "none", ExecutedFlags(s, r, FALSE), results)
        \/ /\ r.type = "FETCH_NEXT"
           /\ \E closes \in BOOLEAN :
                /\ closes => sets[<<r.call, r.i>>].left = 1
                /\ server' = Executed([s EXCEPT !.open = IF closes THEN @ \ {<<r.call, r.i>>} ELSE @], r, FALSE)
                /\ wire' = Reply(r, "none", ExecutedFlags(s, r, FALSE), <<[left |-> 0, closes |-> closes]>>)
        \/ /\ r.type = "CLOSE_RESULT_SET"
           /\ server' = [s EXCEPT !.open = @ \ {<<r.call, r.i>>}]
           /\ wire' = Reply(r, "none", {}, <<>>)
        \/ /\ r.type \in {"PREPARE", "DROP_STATEMENT_ID"}
           /\ server' = [s EXCEPT !.prepared = (r.type = "PREPARE")]
           /\ wire' = Reply(r, "none", {}, <<>>)
        \/ /\ r.type \in {"READ_LOB", "CLIENT_PING"}
           /\ server' = IF r.commit THEN Committed(s) ELSE s
           /\ wire' = Reply(r, "none", IF r.commit THEN EndFlags(s, "committed") ELSE {}, <<>>)
  /\ UNCHANGED <<sessionVars, queue, busy, closed, lossVars, resultVars>>

-----------------------------------------------------------------------------
(* Results *)

Tick(do, c, i) == [do |-> do, call |-> c, i |-> i]

\* Faulty variant: fetchAll closes what is left only when it has succeeded.
LeftAfterSuccess(c, outcome) == IF outcome = "ok" THEN {s \in ResultIds : s[1] = c /\ sets[s].state = "open"} ELSE {}

\* The result sets of a call that are not closed.
LeftOpen(c, outcome) == {s \in ResultIds : s[1] = c /\ sets[s].state \in {"open", "gone"}}

\* The indices in I, from the first to the last: a set of one sequence.
InOrder(I) == {o \in [1..Cardinality(I) -> I] : \A k, l \in DOMAIN o : k < l => o[k] < o[l]}

\* done() of fetchAll: close() of each open result set, then the callback.
FetchAllDone(c, outcome, due) ==
  /\ \E order \in InOrder({s[2] : s \in LeftOpen(c, outcome)}) :
       ticks' = due \o [k \in DOMAIN order |-> Tick("sendClose", c, order[k])]
  /\ told' = Told(c, outcome)
  /\ work' = [work EXCEPT ![c] = Idle]

\* handleQuery, and handleDBCall with or without a LOB among the output parameters.
HandleResult(c, results, waiting) ==
  LET n == Len(results) IN
  /\ sets' = [s \in ResultIds |->
       IF s[1] = c /\ s[2] \in 1..n
       THEN [left  |-> results[s[2]].left,
             state |-> IF results[s[2]].left = 0 /\ results[s[2]].closes THEN "closed" ELSE "open"]
       ELSE sets[s]]
  /\ \/ /\ n = 0 /\ told' = Told(c, "ok")
        /\ queue' = waiting /\ UNCHANGED <<allowed, work>>
     \/ /\ n > 0 /\ work' = [work EXCEPT ![c] = [at |-> "fetch", i |-> 1, n |-> n]]
        /\ queue' = waiting /\ UNCHANGED <<allowed, told>>
     \/ /\ made[c].kind = "procedure" /\ GoesOn("READ_LOB", c, 0, waiting)
        /\ work' = [work EXCEPT ![c] = [at |-> "lob", i |-> 0, n |-> n]]
        /\ UNCHANGED told

\* The stream of the result set that is fetched needs data, or has ended: fetch() closes
\* a result set that is not closed before it calls back.
FetchOn(c) ==
  /\ EventLoop /\ work[c].at = "fetch"
  /\ LET i == work[c].i s == sets[<<c, i>>] IN
     \/ /\ s.left > 0 /\ GoesOn("FETCH_NEXT", c, i, queue) /\ UNCHANGED ticks
     \/ /\ s.left = 0 /\ UNCHANGED <<queue, allowed>>
        /\ ticks' = Append(ticks, IF s.state = "closed" THEN Tick("next", c, i)
                                                       ELSE Tick("sendClose", c, i))
  /\ work' = [work EXCEPT ![c].at = "wait"]
  /\ UNCHANGED <<sessionVars, busy, wire, closed, lossVars, server, made, told, sets, statement>>

\* What the callback of a result set's close() does: fetch() calls back, with its rows or
\* with the error of FETCH_NEXT, whatever became of CLOSE_RESULT_SET.
AfterClose(c, i, due) ==
  CASE work[c].at = "wait"   -> ticks' = Append(due, Tick("next", c, i)) /\ UNCHANGED <<told, work>>
    [] work[c].at = "failed" -> FetchAllDone(c, "error", due)
    [] OTHER                 -> ticks' = due /\ UNCHANGED <<told, work>>

\* A process.nextTick callback: next(i + 1) of fetchAll or readLobs, the second half of
\* close(), the error of Statement.exec().
RunTick ==
  /\ ~MustSend /\ ticks # <<>>
  /\ LET t == Head(ticks) c == t.call due == Tail(ticks) IN
     \/ /\ t.do = "unbound" /\ told' = Told(c, "error") /\ ticks' = due
        /\ UNCHANGED <<queue, allowed, work>>
     \/ /\ t.do = "next" /\ UNCHANGED <<queue, allowed>>
        /\ IF t.i < work[c].n
           THEN /\ work' = [work EXCEPT ![c].at = "fetch", ![c].i = t.i + 1]
                /\ ticks' = due /\ UNCHANGED told
           ELSE FetchAllDone(c, "ok", due)
     \/ /\ t.do = "sendClose"
        /\ IF sets[<<c, t.i>>].state = "gone"
           THEN AfterClose(c, t.i, due) /\ UNCHANGED <<queue, allowed>>
           ELSE /\ GoesOn("CLOSE_RESULT_SET", c, t.i, queue)
                /\ ticks' = due /\ UNCHANGED <<told, work>>
  /\ UNCHANGED <<sessionVars, busy, wire, closed, lossVars, server, made, sets, statement>>

-----------------------------------------------------------------------------
(* Replies *)

\* The callbacks of the requests.
Settle(r, failed, reply, waiting) ==
  LET c == r.call IN
  \/ /\ r.type \in {"EXECUTE", "EXECUTE_DIRECT"} /\ ~failed /\ made[c].kind \notin Writes
     /\ HandleResult(c, reply.results, waiting)
     /\ UNCHANGED <<ticks, statement>>
  \/ /\ \/ r.type \in {"EXECUTE", "EXECUTE_DIRECT"} /\ (failed \/ made[c].kind \in Writes)
        \/ r.type \in {"PREPARE", "DROP_STATEMENT_ID", "COMMIT", "ROLLBACK", "CLIENT_PING"}
     /\ told' = Told(c, IF failed \/ (r.type \in {"COMMIT", "ROLLBACK"} /\ Unconfirmed(r.type, reply))
                       THEN "error" ELSE "ok")
     /\ statement' = IF r.type = "DROP_STATEMENT_ID" \/ (r.type = "PREPARE" /\ failed) THEN "lost"
                     ELSE IF r.type = "PREPARE" THEN "ready" ELSE statement
     /\ queue' = waiting /\ UNCHANGED <<ticks, work, sets, allowed>>
  \/ /\ r.type = "READ_LOB" /\ queue' = waiting
     /\ IF failed
        THEN told' = Told(c, "error") /\ work' = [work EXCEPT ![c] = Idle] /\ UNCHANGED ticks
        ELSE ticks' = Append(ticks, Tick("next", c, 0)) /\ UNCHANGED <<told, work>>
     /\ UNCHANGED <<sets, statement, allowed>>
  \/ /\ r.type = "FETCH_NEXT" /\ queue' = waiting
     /\ IF failed
        THEN /\ work' = [work EXCEPT ![c].at = "failed"] /\ UNCHANGED sets
             /\ ticks' = Append(ticks, Tick("sendClose", c, r.i))
        ELSE /\ work' = [work EXCEPT ![c].at = "fetch"] /\ UNCHANGED ticks
             /\ sets' = [sets EXCEPT ![<<c, r.i>>] =
                  [left |-> @.left - 1, state |-> IF reply.results[1].closes THEN "closed" ELSE "open"]]
     /\ UNCHANGED <<told, statement, allowed>>
  \/ /\ r.type = "CLOSE_RESULT_SET" /\ queue' = waiting
     /\ sets' = [sets EXCEPT ![<<c, r.i>>].state = IF failed THEN "gone" ELSE "closed"]
     /\ AfterClose(c, r.i, ticks)
     /\ UNCHANGED <<statement, allowed>>

\* A reply arrives.
Answer ==
  /\ EventLoop /\ wire.stage = "answered"
  /\ Receive
  /\ Settle(wire.request, ErrorOf(wire) # "none", wire, queue)
  /\ wire' = NoPacket
  /\ UNCHANGED <<busy, server, made>>

\* A task fails without a reply: its packet was not sent, or the connection broke.
Fail ==
  /\ \/ wire.stage = "refused" /\ Settle(wire.request, TRUE, wire, queue) /\ UNCHANGED losing
     \/ losing # 1 /\ Leaves /\ Settle(Head(queue), TRUE, wire, Tail(queue))
  /\ wire' = NoPacket
  /\ UNCHANGED <<sessionVars, busy, closed, lost, server, made>>

-----------------------------------------------------------------------------

UserStep ==
  \/ /\ ~MustSend
     /\ (\E k \in Keys, v \in Values : SetClientInfo(k, v)) \/ (\E b \in BOOLEAN : SetAutoCommit(b))
     /\ UNCHANGED resultVars
  \/ \E kind \in scenario.kinds : Call(kind)

ClientStep ==
  \/ (Send \/ QueueNext \/ Lose) /\ UNCHANGED resultVars
  \/ RunTick \/ Answer \/ Fail \/ \E c \in Calls : FetchOn(c)

ServerStep ==
  \/ (ServeError \/ ServeCommit) /\ UNCHANGED resultVars
  \/ Serve

Next == UserStep \/ ClientStep \/ ServerStep \/ (EventLoop /\ Break /\ UNCHANGED resultVars)

\* The event loop runs, and the server answers, or the connection breaks.
Spec == Init /\ [][Next]_vars /\ WF_vars(ClientStep) /\ WF_vars(ServerStep)

-----------------------------------------------------------------------------
(* Properties *)

TypeOK ==
  /\ properties \in [Keys -> Values \cup {Unset}] /\ updated \subseteq Keys
  /\ context \in 0..2 /\ txKind \in {"none", "read", "write"}
  /\ autoCommit \in BOOLEAN /\ busy \in BOOLEAN /\ closed \in BOOLEAN
  /\ \A i \in DOMAIN queue : queue[i].type \in MessageTypes
  /\ told \in [Calls -> {"none", "ok", "error"}]
  /\ TopologyTypeOK

\* Between two requests, client and server agree: the server has the session variables
\* that are not flagged, and the transaction and the context are what the client thinks.
\* (lib/protocol/ClientInfo.js:69, lib/protocol/Connection.js:283)
MirrorsServer ==
  wire = NoPacket /\ ~closed =>
    /\ \A k \in Keys \ updated : server.vars[k] = properties[k]
    /\ txKind = server.txn
    /\ context = server.context

\* Writes are committed when user code has asked for it, and only then: by autoCommit at
\* the time of the call, by commit(), or by a later request made with autoCommit; what
\* commit() and rollback() report is what has become of the writes before them.
\* (lib/protocol/request/index.js:69, lib/Client.js:66)
CommitsAsAsked ==
  /\ server.committed \subseteq allowed
  /\ \A c \in 1..Len(made) : told[c] = "ok" =>
       /\ made[c].kind \in Writes /\ made[c].auto => c \in server.committed
       /\ made[c].kind \in {"commit", "rollback"} => WritesBefore(c) \cap server.uncommitted = {}
       /\ made[c].kind = "commit" => \A w \in WritesBefore(c) : told[w] = "ok" =>
            \/ w \in server.committed
            \/ \E d \in 1..c : made[d].kind = "rollback" /\ d > w

\* next() is called once for each request that leaves, so that no more than one is lost with the
\* connection.  (lib/protocol/Connection.js:268)
LosesOne == Cardinality(lost) <= 1

\* Every call calls back once, and then no result set of its reply stays open on the server, unless
\* the connection has ended or the server did not close it when it was told to.  The only call that
\* is never answered is the one whose request is lost with the connection, and no more than one is.
\* (lib/protocol/Result.js:199, lib/protocol/Connection.js:268)
ExecSettles ==
  /\ []LosesOne
  /\ \A c \in Calls :
       /\ [](told[c] # "twice")
       /\ c <= Len(made) ~>
            \/ /\ told[c] # "none"
               /\ \A s \in ResultIds : s[1] = c =>
                    s \notin server.open \/ closed \/ sets[s].state = "gone"
            \/ \E r \in lost : r.call = c
===============================================================================
