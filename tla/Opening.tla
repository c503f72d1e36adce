-------------------------------- MODULE Opening --------------------------------
(***************************************************************************)
(* From Client.connect to its callback: lib/Client.js (connect, redirect), *)
(* ConnectionManager.js (hosts in order, tenant databases),                *)
(* PhysicalConnection.open with its timeout, Connection.open, connect,     *)
(* close and the 'close' event of a socket that has been given up.         *)
(*                                                                         *)
(* The objects are one record `client`: connect() calls, Connections and   *)
(* sockets are named by their positions in three sequences, and the        *)
(* functions that call each other before they return to the event loop are *)
(* operators on the record.  AUTHENTICATE and CONNECT are one exchange     *)
(* here; module Connection has both, and what follows the login.           *)
(***************************************************************************)
EXTENDS Naturals, Sequences

CONSTANTS
  Hosts,        \* hosts with a port
  Scenarios,    \* settings of the client and what goes wrong, see ScenarioAssumption
  MaxConnects,  \* bound on the calls of connect()
  Impatient,    \* user code calls connect() and close() also while a connect() is unanswered
  None

\* hosts: the option hosts, or host alone if not isList; tenant: the option databaseName is given, and
\* the database is on one of these; down: hosts that may fail to answer, or to answer as they should;
\* target: where the login redirects to, or None; faults: what else may fail, or tasks: user code
\* enqueues one before the login, or token: the settings hold a token that can be used once.
ASSUME ScenarioAssumption ==
  \A s \in Scenarios :
    /\ s.hosts \in Seq(Hosts) /\ s.hosts # <<>> /\ s.isList \in BOOLEAN
    /\ ~s.isList => Len(s.hosts) = 1
    /\ s.tenant \subseteq Hosts /\ s.target \in Hosts \cup {None}
    /\ s.faults \subseteq {"lookup", "login", "options", "badinit", "break", "tasks", "token"}
ASSUME BoundAssumption == MaxConnects \in Nat /\ Impatient \in BOOLEAN /\ None \notin Hosts

VARIABLES scenario, client

vars == <<scenario, client>>

Fault(f) == f \in scenario.faults
Multi == scenario.tenant # {}

Outcomes == {"unopened", "refused", "broken", "ok"}

Connection ==
  [alive : BOOLEAN, queue : BOOLEAN, anchor : Nat, redirectType : {"none", "az", "dbname"},
   session : BOOLEAN, receive : Nat, connecting : BOOLEAN, loggedIn : BOOLEAN, waiting : BOOLEAN,
   closeOnDrain : BOOLEAN]
Socket ==
  [state : {"connecting", "negotiating", "open", "destroyed", "closed", "ignored"}, conn : Nat,
   attempt : Nat, host : Hosts, purpose : {"lookup", "tenant", "login"}, listens : BOOLEAN,
   asked : BOOLEAN, login : Nat]
Attempt ==
  [conn : Nat, left : Seq(Hosts), redirects : Nat, noToken : BOOLEAN, calls : Nat,
   outcome : Outcomes \cup {"none"}]
Client ==
  [current : Nat, host : Hosts, used : BOOLEAN, conns : Seq(Connection), sockets : Seq(Socket),
   attempts : Seq(Attempt), immediates : Seq(Nat), crashed : BOOLEAN]

TypeOK == scenario \in Scenarios /\ client \in Client

NewConnection(redirectType) ==
  [alive |-> TRUE,         \* _state is defined
   queue |-> TRUE,         \* _queue is defined
   anchor |-> 0,           \* the anchor socket
   redirectType |-> redirectType,
   session |-> FALSE,      \* sessionId # -1
   receive |-> 0,          \* _state.receive: the connect() whose lookup is asked
   connecting |-> FALSE,   \* messageType is AUTHENTICATE or CONNECT
   loggedIn |-> FALSE,     \* the queue runs
   waiting |-> FALSE,      \* a task is in the queue
   closeOnDrain |-> FALSE] \* closeConnection listens to 'drain'

NewSocket(c, a, h, purpose) ==
  [state |-> "connecting", \* then negotiating, open, destroyed, closed; ignored: open, without listeners
   conn |-> c, attempt |-> a, host |-> h,
   purpose |-> purpose,    \* what follows open(): lookup (of the tenant), tenant, login
   listens |-> FALSE,      \* the 'close' listener of Connection.open
   asked |-> FALSE,        \* a lookup or a login is unanswered
   login |-> 0]            \* _handshakeReceive: the connect() whose login is asked

Init ==
  /\ scenario \in Scenarios
  /\ client = [current |-> 1, host |-> Head(scenario.hosts), used |-> FALSE,
               conns |-> <<NewConnection("none")>>, sockets |-> <<>>, attempts |-> <<>>, immediates |-> <<>>, crashed |-> FALSE]

Anchor(st, c) == st.sockets[st.conns[c].anchor]

\* readyState; protocolVersion is set before the anchor is, so that 'opening' is never seen.
ReadyState(st, c) ==
  LET conn == st.conns[c]
  IN CASE ~conn.alive -> "closed"
       [] conn.alive /\ conn.anchor = 0 -> "new"
       [] conn.alive /\ conn.anchor # 0 /\ Anchor(st, c).state # "open" -> "closed"
       [] OTHER -> IF conn.connecting THEN "connecting"
                   ELSE IF conn.session THEN "connected" ELSE "disconnected"

\* cb of Client.connect
Told(st, a, outcome) == [st EXCEPT !.attempts[a].calls = @ + 1, !.attempts[a].outcome = outcome]

\* The same from util.setImmediate
ToldLater(st, a) == [st EXCEPT !.immediates = Append(@, a)]

-----------------------------------------------------------------------------
(* Connection *)

\* destroy
Destroy(st, c) ==
  IF st.conns[c].anchor # 0 /\ Anchor(st, c).state = "open"
  THEN [st EXCEPT !.sockets[st.conns[c].anchor].state = "destroyed"]
  ELSE st

\* close
Close(st, c) ==
  IF ReadyState(st, c) = "closed" THEN st
  ELSE IF st.conns[c].waiting = FALSE THEN Destroy(st, c)
  ELSE [st EXCEPT !.conns[c].closeOnDrain = TRUE]

\* _closeSilently
CloseSilently(st, c) ==
  IF st.conns[c].anchor = 0 THEN st
  ELSE Close([st EXCEPT !.sockets[st.conns[c].anchor].listens = FALSE], c)

\* open, which creates a PhysicalConnection
Open(st, c, a, h, purpose) == [st EXCEPT !.sockets = Append(@, NewSocket(c, a, h, purpose))]

\* connect: wrong options are reported at once, or in a later event as missing ones are; an anchor
\* or a state that is missing is dereferenced.
Login(st, a) ==
  LET c == st.current
  IN (IF Fault("options") THEN {Told(st, a, "refused"), ToldLater(st, a)} ELSE {})
       \cup {IF st.attempts[a].noToken THEN ToldLater(st, a)
             ELSE IF st.conns[c].anchor = 0 \/ ~st.conns[c].alive THEN [st EXCEPT !.crashed = TRUE]
             ELSE [st EXCEPT !.conns[c].connecting = TRUE,
                             !.sockets[st.conns[c].anchor].login = a,
                             !.sockets[st.conns[c].anchor].asked = TRUE]}

-----------------------------------------------------------------------------
(* ConnectionManager *)

\* tryConnect: the hosts that are left, the first one first
TryConnect(st, a) ==
  LET left == st.attempts[a].left
  IN IF left = <<>> THEN Told(st, a, "unopened")
     ELSE Open([st EXCEPT !.attempts[a].left = Tail(left)], st.attempts[a].conn, a, Head(left),
               IF Multi THEN "lookup" ELSE "login")

\* openConnection: the option hosts comes first.
OpenConnection(st, a, c) ==
  TryConnect([st EXCEPT !.attempts[a].conn = c,
                        !.attempts[a].left = IF scenario.isList THEN scenario.hosts ELSE <<st.host>>], a)

\* Faulty variant: the connection is closed, but nobody is told.
ClosesOnly(st, c, a) == Close(st, c)

\* handleError of _openConnectionMultiDbCase
HandleError(st, c, a) == TryConnect(Close(st, c), a)

\* Faulty variant: the first host that fails ends the attempt.
GivesUp(st, s) == Told(st, st.sockets[s].attempt, "unopened")

\* The callback of open() with an error
OpenFailed(st, s) ==
  LET socket == st.sockets[s]
  IN IF socket.purpose = "lookup"
     THEN HandleError(st, socket.conn, socket.attempt)
     ELSE TryConnect(st, socket.attempt)

\* The callback of open() without an error: fetchDbConnectInfo, or onopen of Client.connect.
Opened(st, s) ==
  LET socket == st.sockets[s]
      c      == socket.conn
      opened == [st EXCEPT !.conns[c].anchor = s, !.sockets[s].state = "open", !.sockets[s].listens = TRUE]
  IN IF socket.purpose # "lookup" THEN Login(opened, socket.attempt)
     ELSE IF ReadyState(opened, c) = "closed" THEN {HandleError(opened, c, socket.attempt)}
     ELSE {[opened EXCEPT !.conns[c].receive = socket.attempt, !.conns[c].session = TRUE,
                          !.sockets[s].asked = TRUE]}

\* Faulty variant: the socket of the wrong database is left open.
LeavesSystemDb(st, c, a, h) ==
  Open([st EXCEPT !.conns[c].redirectType = "dbname"], c, a, h, "tenant")

\* The reply to the lookup names another host.
RedirectToTenant(st, c, a, h) ==
  Open([CloseSilently(st, c) EXCEPT !.conns[c].redirectType = "dbname"], c, a, h, "tenant")

-----------------------------------------------------------------------------
(* Client *)

\* The reply to AUTHENTICATE names another host: asked for, and looked at, only without an earlier redirect.
MayRedirect(st) == scenario.target # None /\ st.conns[st.current].redirectType = "none"

\* done(err, reply) with dbConnectInfo, and doRedirect
Redirect(st, a) ==
  LET left == CloseSilently([st EXCEPT !.host = scenario.target], st.current)
      new  == [left EXCEPT !.conns = Append(@, NewConnection("az")), !.current = Len(left.conns) + 1,
                           !.attempts[a].redirects = @ + 1, !.attempts[a].noToken = st.used]
  IN OpenConnection(new, a, new.current)

Pending(st) == {a \in DOMAIN st.attempts : st.attempts[a].calls = 0}

\* connect
UserConnect ==
  /\ Len(client.attempts) < MaxConnects /\ (Impatient \/ Pending(client) = {})
  /\ LET a  == Len(client.attempts) + 1
         st == [client EXCEPT !.used = Fault("token"),
                  !.attempts = Append(@, [conn |-> client.current, left |-> <<>>, redirects |-> 0,
                                          noToken |-> client.used, calls |-> 0, outcome |-> "none"])]
         rs == ReadyState(client, client.current)
     IN client' \in CASE rs = "new" -> {OpenConnection(st, a, st.current)}
                      [] rs = "closed" ->
                           LET new == [st EXCEPT !.conns = Append(@, NewConnection("none")),
                                                 !.current = Len(st.conns) + 1]
                           IN {OpenConnection(new, a, new.current)}
                      [] rs = "disconnected" -> Login(st, a)
                      [] OTHER -> {ToldLater(st, a)}
  /\ UNCHANGED scenario

Immediate ==
  /\ client.immediates # <<>>
  /\ client' = Told([client EXCEPT !.immediates = Tail(@)], Head(client.immediates), "refused")
  /\ UNCHANGED scenario

\* close
UserClose ==
  /\ Impatient \/ Pending(client) = {}
  /\ client' = Close(client, client.current)
  /\ UNCHANGED scenario

\* A task is enqueued: a connection that is 'new' or 'closed' refuses it.
UserEnqueue ==
  LET c == client.current
  IN /\ Fault("tasks") /\ ~client.conns[c].loggedIn /\ client.conns[c].queue
     /\ ReadyState(client, c) \notin {"new", "closed"}
     /\ client' = [client EXCEPT !.conns[c].waiting = TRUE]
     /\ UNCHANGED scenario

\* The tasks have run: 'drain'.
Drain(c) ==
  /\ client.conns[c].loggedIn /\ client.conns[c].queue /\ client.conns[c].waiting
  /\ LET st == [client EXCEPT !.conns[c].waiting = FALSE, !.conns[c].closeOnDrain = FALSE]
     IN client' = IF client.conns[c].closeOnDrain THEN Destroy(st, c) ELSE st
  /\ UNCHANGED scenario

-----------------------------------------------------------------------------
(* Sockets *)

Up(h) == h \notin scenario.down

\* tcp.connect calls back without an error: the initialization request is sent, its timer started.
TcpConnected(s) ==
  /\ client.sockets[s].state = "connecting"
  /\ client' = [client EXCEPT !.sockets[s].state = "negotiating"]
  /\ UNCHANGED scenario

\* tcp.connect calls back with an error.
TcpFailed(s) ==
  /\ client.sockets[s].state = "connecting" /\ ~Up(client.sockets[s].host)
  /\ client' = OpenFailed([client EXCEPT !.sockets[s].state = "closed"], s)
  /\ UNCHANGED scenario

\* ondata of PhysicalConnection.open
InitReply(s) ==
  /\ client.sockets[s].state = "negotiating"
  /\ client' \in Opened(client, s)
  /\ UNCHANGED scenario

\* A reply that is too short: the listeners are removed, the socket is left.
InitInvalid(s) ==
  /\ client.sockets[s].state = "negotiating" /\ Fault("badinit") /\ ~Up(client.sockets[s].host)
  /\ client' = OpenFailed([client EXCEPT !.sockets[s].state = "ignored"], s)
  /\ UNCHANGED scenario

\* onerror of PhysicalConnection.open: an error of the socket, or the timer.
InitFailed(s) ==
  /\ client.sockets[s].state = "negotiating" /\ ~Up(client.sockets[s].host)
  /\ client' = OpenFailed([client EXCEPT !.sockets[s].state = "destroyed"], s)
  /\ UNCHANGED scenario

\* Faulty variant: the callback of the login stays registered.
KeepsLogin(st, s) == [st EXCEPT !.sockets[s].asked = FALSE, !.conns[st.sockets[s].conn].receive = 0]

\* onData takes both callbacks away.
Taken(st, s) ==
  [st EXCEPT !.sockets[s].asked = FALSE, !.sockets[s].login = 0, !.conns[st.sockets[s].conn].receive = 0]

\* The callback that a reply or an error on the socket is handed to, if any, and the state without it.
Handed(s) ==
  LET c == client.sockets[s].conn
  IN [login  |-> client.sockets[s].login,
      lookup |-> IF client.sockets[s].login = 0 /\ client.conns[c].alive THEN client.conns[c].receive ELSE 0]

\* What the callback of the lookup does with its result.
LookupDone(st, c, a) ==
  {RedirectToTenant(st, c, a, h) : h \in scenario.tenant \ {Anchor(st, c).host}}
    \cup (IF Anchor(st, c).host \in scenario.tenant THEN Login(st, a) ELSE {})
    \cup (IF Fault("lookup") THEN {HandleError(st, c, a)} ELSE {})

\* What the callback of the login does with its result.
LoginDone(st, c, a) ==
  {Told([st EXCEPT !.conns[c].loggedIn = TRUE], a, "ok")}
    \cup (IF Fault("login") THEN {Told(st, a, "refused")} ELSE {})
    \cup (IF MayRedirect(st) THEN {Redirect(st, a)} ELSE {})

\* onData: a Connection without _state throws.
Reply(s) ==
  /\ client.sockets[s].state = "open" /\ client.sockets[s].asked
  /\ LET c    == client.sockets[s].conn
         to   == Handed(s)
         read == [Taken(client, s) EXCEPT !.conns[c].connecting = FALSE, !.conns[c].session = TRUE]
     IN client' \in IF ~client.conns[c].alive THEN {[client EXCEPT !.crashed = TRUE]}
                    ELSE IF to.login # 0 THEN LoginDone(read, c, to.login)
                    ELSE IF to.lookup # 0 THEN LookupDone(read, c, to.lookup)
                    ELSE {read}
  /\ UNCHANGED scenario

\* 'end' or 'error' of an open socket.
Break(s) ==
  /\ client.sockets[s].state = "open" /\ Fault("break")
  /\ LET c     == client.sockets[s].conn
         to    == Handed(s)
         ended == [client EXCEPT !.sockets[s].state = "destroyed", !.sockets[s].asked = FALSE,
                                 !.sockets[s].login = 0,
                                 !.conns[c].receive = IF to.login # 0 THEN @ ELSE 0]
     IN \E clears \in BOOLEAN :
          LET st == IF clears THEN [ended EXCEPT !.conns[c].queue = FALSE, !.conns[c].waiting = FALSE,
                                                 !.conns[c].closeOnDrain = FALSE]
                    ELSE ended
          IN client' = IF to.login # 0 THEN Told(st, to.login, "broken")
                       ELSE IF to.lookup # 0 THEN HandleError(st, c, to.lookup)
                       ELSE st
  /\ UNCHANGED scenario

\* 'close': _cleanup drops the state, whichever socket of the Connection it was.
SocketClosed(s) ==
  /\ client.sockets[s].state = "destroyed"
  /\ LET c  == client.sockets[s].conn
         st == [client EXCEPT !.sockets[s].state = "closed"]
     IN client' = IF client.sockets[s].listens
                  THEN [st EXCEPT !.conns[c].alive = FALSE, !.conns[c].queue = FALSE,
                                  !.conns[c].waiting = FALSE, !.conns[c].closeOnDrain = FALSE]
                  ELSE st
  /\ UNCHANGED scenario

SocketStep(s) ==
  \/ TcpConnected(s) \/ TcpFailed(s) \/ InitReply(s) \/ InitInvalid(s) \/ InitFailed(s)
  \/ Reply(s) \/ SocketClosed(s)

EventStep ==
  \/ Immediate
  \/ \E c \in DOMAIN client.conns : Drain(c)
  \/ \E s \in DOMAIN client.sockets : SocketStep(s)

Next ==
  /\ ~client.crashed
  /\ UserConnect \/ UserClose \/ UserEnqueue \/ EventStep \/ \E s \in DOMAIN client.sockets : Break(s)

Spec == Init /\ [][Next]_vars

\* The operating system ends every attempt to connect, the timer every negotiation, the server
\* answers what it is asked or its socket breaks.
FairSpec == Spec /\ WF_vars(~client.crashed /\ EventStep)

-----------------------------------------------------------------------------
(* Properties *)

\* Client.connect: the callback is called once, and never from a connection that is given up; told of
\* success, the client is logged in on a socket of its own, where a redirect has led it if there was one.
ConnectAnswers ==
  [][\A a \in DOMAIN client'.attempts :
       LET was == IF a \in DOMAIN client.attempts THEN client.attempts[a].calls ELSE 0
           now == client'.attempts[a]
       IN now.calls # was =>
            /\ was = 0 /\ now.calls = 1
            /\ now.outcome = "ok" =>
                 /\ ReadyState(client', client'.current) = "connected"
                 /\ client'.conns[client'.current].loggedIn
                 /\ now.redirects > 0 => Anchor(client', client'.current).host \in
                                           {scenario.target} \cup scenario.tenant]_vars

\* README.md:201, "The client establishes a connection to the first available host from the list":
\* a connect() that could not open a connection has found every host down, or one that it was sent to,
\* unless the server it asks for the tenant database may fail.
LookupMayFail == Multi /\ (Fault("lookup") \/ Fault("break"))

FirstAvailable ==
  \A a \in DOMAIN client.attempts :
    client.attempts[a].outcome = "unopened" /\ ~LookupMayFail =>
      \/ \A i \in DOMAIN scenario.hosts : ~Up(scenario.hosts[i])
      \/ \E h \in scenario.tenant \cup {scenario.target} : ~Up(h)

\* When every connect() has been answered, no socket is open but the anchor of the client's connection,
\* and none at all when the last one could not open a connection.
OneSocket ==
  Pending(client) = {} =>
    \A s \in DOMAIN client.sockets :
      client.sockets[s].state \in {"connecting", "negotiating", "open"} =>
        /\ s = client.conns[client.current].anchor
        /\ client.attempts[Len(client.attempts)].outcome # "unopened"

\* The same of a socket whose initialization reply was rejected.
NoneIgnored == \A s \in DOMAIN client.sockets : client.sockets[s].state # "ignored"

\* connect() calls back, whatever redirects the servers ask for.
ConnectSettles == \A n \in 1..MaxConnects : (n \in Pending(client)) ~> (n \notin Pending(client))

\* A connect() that is redirected logs in with the credentials that it was called with.
RedirectKeepsToken ==
  \A a \in DOMAIN client.attempts :
    client.attempts[a].outcome = "refused" /\ client.attempts[a].redirects > 0 =>
      Fault("login") \/ Fault("options")

\* No handler throws.
NeverCrashes == ~client.crashed
===============================================================================
