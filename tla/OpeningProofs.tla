----------------------------- MODULE OpeningProofs -----------------------------
(***************************************************************************)
(* Theorems about the way from connect() to its callback, for any hosts,   *)
(* settings, redirects and faults, when user code waits for the callback   *)
(* of one connect() before it calls connect() or close() again.  They rest *)
(* on one invariant: the unanswered connect() is in one place at a time.   *)
(***************************************************************************)
EXTENDS Opening, SequenceTheorems, TLAPS

\* The hypotheses.  A second connect() meets the first one; a server that is asked for the tenant
\* database and fails takes the connection to the next host with it; the option hosts comes before
\* the target of a redirect; a task that waits keeps a socket open that is left.
Patient == ~Impatient
LookupIsLast == LookupMayFail => Len(scenario.hosts) = 1
RedirectIsFollowed == scenario.isList => scenario.target = None
TasksStay == Fault("tasks") => scenario.tenant = {} /\ scenario.target = None

-----------------------------------------------------------------------------
(* The inductive invariant *)

Sockets(st) == DOMAIN st.sockets
Conns(st) == DOMAIN st.conns

IsOpening(st, s) == st.sockets[s].state \in {"connecting", "negotiating"}
IsOpen(st, s) == st.sockets[s].state = "open"

\* The connection that is in use, and its anchor.
Conn(st) == st.conns[st.current]
Last(st) == Len(st.attempts)

\* A host that a connect() was sent to is down; or all are that it was given.
ElsewhereDown == \E h \in scenario.tenant \cup {scenario.target} : ~Up(h)
AllDown == ElsewhereDown \/ \A i \in DOMAIN scenario.hosts : ~Up(scenario.hosts[i])

\* The objects refer to each other.
Shape(st) ==
  /\ st.current = Len(st.conns) /\ st.current \in Conns(st)
  /\ \A s \in Sockets(st) :
       /\ st.sockets[s].conn \in Conns(st)
       /\ IsOpen(st, s) => st.conns[st.sockets[s].conn].anchor # 0
       /\ st.sockets[s].purpose = "lookup" => Multi
  /\ \A c \in Conns(st) :
       /\ st.conns[c].anchor # 0 => /\ st.conns[c].anchor \in Sockets(st)
                                    /\ st.sockets[st.conns[c].anchor].conn = c
                                    /\ ~IsOpening(st, st.conns[c].anchor)
       /\ st.conns[c].loggedIn => st.conns[c].session /\ st.conns[c].anchor # 0
       /\ st.conns[c].waiting => Fault("tasks")
  /\ st.host \in {Head(scenario.hosts), scenario.target}

\* Only the anchor can end the Connection, and an open one has not.
Anchored(st) ==
  \A s \in Sockets(st) :
    LET conn == st.conns[st.sockets[s].conn]
    IN /\ st.sockets[s].listens => s = conn.anchor
       /\ IsOpen(st, s) /\ s = conn.anchor => conn.alive

\* No socket is open but the anchor of the connection in use.
Single(st) == \A s \in Sockets(st) : IsOpen(st, s) => s = Conn(st).anchor

Objects(st) ==
  /\ ~st.crashed
  /\ Shape(st)
  /\ LookupIsLast => Anchored(st)
  /\ LookupIsLast /\ TasksStay => Single(st)
  /\ ~LookupMayFail => \A a \in DOMAIN st.attempts : st.attempts[a].outcome = "unopened" => AllDown

NoneOpen(st) == \A s \in Sockets(st) : ~IsOpen(st, s)
NoneAsked(st) == \A s \in Sockets(st) : IsOpen(st, s) => ~st.sockets[s].asked
OnlyAsked(st, s) ==
  /\ IsOpen(st, s) /\ st.sockets[s].asked
  /\ \A x \in Sockets(st) : IsOpen(st, x) /\ st.sockets[x].asked => x = s

\* Where the unanswered connect() may be.
NoImmediate(st) == st.immediates = <<>>
NoOpening(st) == \A s \in Sockets(st) : ~IsOpening(st, s)
NoLookup(st) == \A c \in Conns(st) : st.conns[c].receive = 0
NoLogin(st) == \A s \in Sockets(st) : st.sockets[s].login = 0

\* The first n calls of connect() have called back, once each, the others have not.
Answered(st, n) ==
  \A a \in DOMAIN st.attempts :
    /\ st.attempts[a].calls = IF a <= n THEN 1 ELSE 0
    /\ st.attempts[a].outcome = "none" <=> a > n

Unanswered(st) == Last(st) > 0 /\ Answered(st, Last(st) - 1)

\* It is in hand: nothing is under way for it.
InHand(st) == Unanswered(st) /\ NoImmediate(st) /\ NoOpening(st) /\ NoLookup(st) /\ NoLogin(st)

\* The connect() that is unanswered, and how many of its hosts have been tried.
Call(st) == st.attempts[Last(st)]
Tried(st) == Len(scenario.hosts) - Len(Call(st).left)

\* Of the hosts, the last ones are left; a redirect has put its target in the place of the only one.
Left(st) ==
  /\ Call(st).conn = st.current
  /\ Len(Call(st).left) <= Len(scenario.hosts)
  /\ \A i \in DOMAIN Call(st).left :
       /\ Call(st).left[i] \in {scenario.hosts[Tried(st) + i], scenario.target}
       /\ RedirectIsFollowed /\ Call(st).redirects > 0 => Call(st).left[i] = scenario.target

Failed(i) == ElsewhereDown \/ ~Up(scenario.hosts[i])

\* A host that the connect() was given, and that is tried now, or one that it was sent to.
Reaches(st, h) ==
  /\ Len(Call(st).left) < Len(scenario.hosts)
  /\ h \in {scenario.hosts[Tried(st)], scenario.target} \cup scenario.tenant
  /\ RedirectIsFollowed /\ Call(st).redirects > 0 => h \in {scenario.target} \cup scenario.tenant
  /\ ~LookupMayFail => \A i \in 1..Tried(st) - 1 : Failed(i)

\* A connection that can be opened, or opened again.
Ready(st) ==
  /\ Conn(st).alive
  /\ Conn(st).anchor # 0 => ~st.sockets[Conn(st).anchor].listens

\* The sockets of the connection in use have been left.
Fresh(st) == \A s \in Sockets(st) : IsOpen(st, s) => st.sockets[s].conn # st.current

\* The next host is tried: those before have failed.
Tries(st) ==
  /\ InHand(st) /\ Left(st) /\ ~Conn(st).loggedIn
  /\ ~LookupMayFail => \A i \in 1..Tried(st) : Failed(i)
  /\ LookupIsLast => NoneAsked(st)
  /\ LookupIsLast /\ TasksStay => NoneOpen(st)
  /\ LookupIsLast /\ Call(st).left # <<>> => Ready(st) /\ (LookupMayFail => Fresh(st))

Opens(st, s) ==
  /\ Unanswered(st) /\ NoImmediate(st) /\ NoLookup(st) /\ NoLogin(st)
  /\ \A x \in Sockets(st) : IsOpening(st, x) <=> x = s
  /\ st.sockets[s].conn = st.current /\ st.sockets[s].attempt = Last(st) /\ ~st.sockets[s].asked
  /\ Left(st) /\ Reaches(st, st.sockets[s].host) /\ ~Conn(st).loggedIn
  /\ LookupIsLast => NoneAsked(st) /\ Ready(st)
  /\ LookupIsLast /\ TasksStay => NoneOpen(st)
  /\ LookupIsLast /\ LookupMayFail /\ st.sockets[s].purpose = "lookup" => Fresh(st)

Looks(st, s) ==
  /\ Unanswered(st) /\ NoImmediate(st) /\ NoOpening(st) /\ NoLogin(st)
  /\ \A c \in Conns(st) : st.conns[c].receive = IF c = st.current THEN Last(st) ELSE 0
  /\ s = Conn(st).anchor /\ st.sockets[s].purpose = "lookup"
  /\ Left(st) /\ Reaches(st, st.sockets[s].host) /\ ~Conn(st).loggedIn
  /\ LookupIsLast => OnlyAsked(st, s)
  /\ LookupIsLast /\ LookupMayFail =>
       \A x \in Sockets(st) : IsOpen(st, x) /\ st.sockets[x].conn = st.current => x = s

LogsIn(st, s) ==
  /\ Unanswered(st) /\ NoImmediate(st) /\ NoOpening(st) /\ NoLookup(st)
  /\ \A x \in Sockets(st) : st.sockets[x].login = IF x = s THEN Last(st) ELSE 0
  /\ s = Conn(st).anchor /\ ~Conn(st).loggedIn
  /\ RedirectIsFollowed /\ Call(st).redirects > 0 =>
       st.sockets[s].host \in {scenario.target} \cup scenario.tenant
  /\ LookupIsLast => OnlyAsked(st, s)

\* The callback is deferred; it is lost, when a lookup has failed.
Deferred(st) ==
  /\ Unanswered(st) /\ st.immediates = <<Last(st)>> /\ NoOpening(st) /\ NoLookup(st) /\ NoLogin(st)
  /\ LookupIsLast => NoneAsked(st)
Lost(st) == InHand(st) /\ ~LookupIsLast

\* Every connect() has called back.
Rests(st) ==
  /\ Answered(st, Last(st)) /\ NoImmediate(st) /\ NoOpening(st) /\ NoLookup(st) /\ NoLogin(st)
  /\ LookupIsLast => NoneAsked(st)
  /\ LookupIsLast /\ TasksStay /\ (Last(st) = 0 \/ Call(st).outcome = "unopened") => NoneOpen(st)

Stage(st) ==
  \/ Rests(st) \/ Deferred(st) \/ Lost(st)
  \/ \E s \in Sockets(st) : Opens(st, s) \/ Looks(st, s) \/ LogsIn(st, s)

\* A handler has thrown only after the lookup has failed and other hosts were left.
Good(st) ==
  /\ st \in Client
  /\ \/ st.crashed /\ ~LookupIsLast /\ (Unanswered(st) \/ Answered(st, Last(st)))
     \/ Objects(st) /\ Stage(st)

Inv == scenario \in Scenarios /\ Good(client)

-----------------------------------------------------------------------------
(* Records and sequences *)

LEMMA ClientFacts ==
  ASSUME NEW st \in Client
  PROVE  /\ st.current \in Nat /\ st.host \in Hosts /\ st.used \in BOOLEAN /\ st.crashed \in BOOLEAN
         /\ st.conns \in Seq(Connection) /\ st.sockets \in Seq(Socket)
         /\ st.attempts \in Seq(Attempt) /\ st.immediates \in Seq(Nat)
         /\ Len(st.conns) \in Nat /\ Len(st.sockets) \in Nat /\ Len(st.attempts) \in Nat
         /\ DOMAIN st.conns = 1..Len(st.conns) /\ DOMAIN st.sockets = 1..Len(st.sockets)
         /\ DOMAIN st.attempts = 1..Len(st.attempts)
         /\ \A s \in DOMAIN st.sockets : st.sockets[s] \in Socket
         /\ \A c \in DOMAIN st.conns : st.conns[c] \in Connection
         /\ \A a \in DOMAIN st.attempts : st.attempts[a] \in Attempt
<1>1. /\ st.current \in Nat /\ st.host \in Hosts /\ st.used \in BOOLEAN /\ st.crashed \in BOOLEAN
      /\ st.conns \in Seq(Connection) /\ st.sockets \in Seq(Socket)
      /\ st.attempts \in Seq(Attempt) /\ st.immediates \in Seq(Nat)
  BY DEF Client
<1>2. /\ \A s \in 1..Len(st.sockets) : st.sockets[s] \in Socket
      /\ \A c \in 1..Len(st.conns) : st.conns[c] \in Connection
      /\ \A a \in 1..Len(st.attempts) : st.attempts[a] \in Attempt
  BY <1>1, ElementOfSeq
<1> QED BY <1>1, <1>2

LEMMA SocketFacts ==
  ASSUME NEW u \in Socket
  PROVE  /\ u.state \in {"connecting", "negotiating", "open", "destroyed", "closed", "ignored"}
         /\ u.conn \in Nat /\ u.attempt \in Nat /\ u.host \in Hosts
         /\ u.purpose \in {"lookup", "tenant", "login"} /\ u.listens \in BOOLEAN
         /\ u.asked \in BOOLEAN /\ u.login \in Nat
  BY DEF Socket

LEMMA ConnFacts ==
  ASSUME NEW u \in Connection
  PROVE  /\ u.alive \in BOOLEAN /\ u.queue \in BOOLEAN /\ u.anchor \in Nat
         /\ u.redirectType \in {"none", "az", "dbname"} /\ u.session \in BOOLEAN /\ u.receive \in Nat
         /\ u.connecting \in BOOLEAN /\ u.loggedIn \in BOOLEAN /\ u.waiting \in BOOLEAN
         /\ u.closeOnDrain \in BOOLEAN
  BY DEF Connection

LEMMA AttemptFacts ==
  ASSUME NEW u \in Attempt
  PROVE  /\ u.conn \in Nat /\ u.left \in Seq(Hosts) /\ Len(u.left) \in Nat
         /\ DOMAIN u.left = 1..Len(u.left) /\ u.redirects \in Nat
         /\ u.noToken \in BOOLEAN /\ u.calls \in Nat /\ u.outcome \in Outcomes \cup {"none"}
  BY DEF Attempt

\* One element of a sequence is put in the place of another one.
LEMMA PutSocket ==
  ASSUME NEW st \in Client, NEW k \in DOMAIN st.sockets, NEW v \in Socket
  PROVE  LET t == [st EXCEPT !.sockets[k] = v]
         IN /\ t \in Client /\ DOMAIN t.sockets = DOMAIN st.sockets
            /\ t.current = st.current /\ t.host = st.host /\ t.used = st.used /\ t.conns = st.conns
            /\ t.attempts = st.attempts /\ t.immediates = st.immediates /\ t.crashed = st.crashed
            /\ t.sockets[k] = v /\ \A s \in DOMAIN st.sockets \ {k} : t.sockets[s] = st.sockets[s]
<1> DEFINE q == [st.sockets EXCEPT ![k] = v]
<1>1. st.sockets \in Seq(Socket) /\ k \in 1..Len(st.sockets)
  BY ClientFacts
<1>2. q \in Seq(Socket) /\ DOMAIN q = DOMAIN st.sockets
  BY <1>1, ExceptSeq
<1>3. q[k] = v /\ \A s \in DOMAIN st.sockets \ {k} : q[s] = st.sockets[s]
  OBVIOUS
<1> HIDE DEF q
<1> DEFINE t == [st EXCEPT !.sockets = q]
<1>4. /\ t \in Client /\ t.sockets = q
      /\ t.current = st.current /\ t.host = st.host /\ t.used = st.used /\ t.conns = st.conns
      /\ t.attempts = st.attempts /\ t.immediates = st.immediates /\ t.crashed = st.crashed
  BY <1>2 DEF Client
<1>5. t = [st EXCEPT !.sockets[k] = v]
  BY DEF q
<1> HIDE DEF t
<1> QED BY <1>2, <1>3, <1>4, <1>5

LEMMA PutConn ==
  ASSUME NEW st \in Client, NEW k \in DOMAIN st.conns, NEW v \in Connection
  PROVE  LET t == [st EXCEPT !.conns[k] = v]
         IN /\ t \in Client /\ DOMAIN t.conns = DOMAIN st.conns
            /\ t.current = st.current /\ t.host = st.host /\ t.used = st.used
            /\ t.sockets = st.sockets
            /\ t.attempts = st.attempts /\ t.immediates = st.immediates /\ t.crashed = st.crashed
            /\ t.conns[k] = v /\ \A c \in DOMAIN st.conns \ {k} : t.conns[c] = st.conns[c]
            /\ Len(t.conns) = Len(st.conns)
<1> DEFINE q == [st.conns EXCEPT ![k] = v]
<1>1. st.conns \in Seq(Connection) /\ k \in 1..Len(st.conns)
  BY ClientFacts
<1>2. q \in Seq(Connection) /\ DOMAIN q = DOMAIN st.conns /\ Len(q) = Len(st.conns)
  BY <1>1, ExceptSeq
<1>3. q[k] = v /\ \A c \in DOMAIN st.conns \ {k} : q[c] = st.conns[c]
  OBVIOUS
<1> HIDE DEF q
<1> DEFINE t == [st EXCEPT !.conns = q]
<1>4. /\ t \in Client /\ t.conns = q
      /\ t.current = st.current /\ t.host = st.host /\ t.used = st.used /\ t.sockets = st.sockets
      /\ t.attempts = st.attempts /\ t.immediates = st.immediates /\ t.crashed = st.crashed
  BY <1>2 DEF Client
<1>5. t = [st EXCEPT !.conns[k] = v]
  BY DEF q
<1> HIDE DEF t
<1> QED BY <1>2, <1>3, <1>4, <1>5

LEMMA PutAttempt ==
  ASSUME NEW st \in Client, NEW k \in DOMAIN st.attempts, NEW v \in Attempt
  PROVE  LET t == [st EXCEPT !.attempts[k] = v]
         IN /\ t \in Client /\ DOMAIN t.attempts = DOMAIN st.attempts
            /\ t.current = st.current /\ t.host = st.host /\ t.used = st.used
            /\ t.sockets = st.sockets
            /\ t.conns = st.conns /\ t.immediates = st.immediates /\ t.crashed = st.crashed
            /\ t.attempts[k] = v
            /\ \A a \in DOMAIN st.attempts \ {k} : t.attempts[a] = st.attempts[a]
            /\ Len(t.attempts) = Len(st.attempts)
<1> DEFINE q == [st.attempts EXCEPT ![k] = v]
<1>1. st.attempts \in Seq(Attempt) /\ k \in 1..Len(st.attempts)
  BY ClientFacts
<1>2. q \in Seq(Attempt) /\ DOMAIN q = DOMAIN st.attempts /\ Len(q) = Len(st.attempts)
  BY <1>1, ExceptSeq
<1>3. q[k] = v /\ \A a \in DOMAIN st.attempts \ {k} : q[a] = st.attempts[a]
  OBVIOUS
<1> HIDE DEF q
<1> DEFINE t == [st EXCEPT !.attempts = q]
<1>4. /\ t \in Client /\ t.attempts = q
      /\ t.current = st.current /\ t.host = st.host /\ t.used = st.used /\ t.sockets = st.sockets
      /\ t.conns = st.conns /\ t.immediates = st.immediates /\ t.crashed = st.crashed
  BY <1>2 DEF Client
<1>5. t = [st EXCEPT !.attempts[k] = v]
  BY DEF q
<1> HIDE DEF t
<1> QED BY <1>2, <1>3, <1>4, <1>5

\* The other fields.
LEMMA PutHost ==
  ASSUME NEW st \in Client, NEW h \in Hosts
  PROVE  LET t == [st EXCEPT !.host = h]
         IN /\ t \in Client /\ t.host = h /\ t.current = st.current /\ t.used = st.used
            /\ t.sockets = st.sockets
            /\ t.conns = st.conns /\ t.attempts = st.attempts /\ t.immediates = st.immediates
            /\ t.crashed = st.crashed
  BY DEF Client

LEMMA PutUsed ==
  ASSUME NEW st \in Client, NEW b \in BOOLEAN
  PROVE  LET t == [st EXCEPT !.used = b]
         IN /\ t \in Client /\ t.used = b /\ t.current = st.current /\ t.host = st.host
            /\ t.sockets = st.sockets
            /\ t.conns = st.conns /\ t.attempts = st.attempts /\ t.immediates = st.immediates
            /\ t.crashed = st.crashed
  BY DEF Client

LEMMA PutCrashed ==
  ASSUME NEW st \in Client, NEW b \in BOOLEAN
  PROVE  LET t == [st EXCEPT !.crashed = b]
         IN /\ t \in Client /\ t.crashed = b /\ t.current = st.current /\ t.host = st.host
            /\ t.used = st.used
            /\ t.sockets = st.sockets /\ t.conns = st.conns /\ t.attempts = st.attempts
            /\ t.immediates = st.immediates
  BY DEF Client

LEMMA PutImmediates ==
  ASSUME NEW st \in Client, NEW q \in Seq(Nat)
  PROVE  LET t == [st EXCEPT !.immediates = q]
         IN /\ t \in Client /\ t.immediates = q /\ t.current = st.current /\ t.host = st.host
            /\ t.used = st.used
            /\ t.sockets = st.sockets /\ t.conns = st.conns /\ t.attempts = st.attempts
            /\ t.crashed = st.crashed
  BY DEF Client

\* One element is added to a sequence.
LEMMA AddSocket ==
  ASSUME NEW st \in Client, NEW v \in Socket
  PROVE  LET t == [st EXCEPT !.sockets = Append(@, v)]
             n == Len(st.sockets) + 1
         IN /\ t \in Client /\ DOMAIN t.sockets = DOMAIN st.sockets \cup {n}
            /\ n \notin DOMAIN st.sockets
            /\ n \in Nat /\ n # 0
            /\ t.current = st.current /\ t.host = st.host /\ t.used = st.used /\ t.conns = st.conns
            /\ t.attempts = st.attempts /\ t.immediates = st.immediates /\ t.crashed = st.crashed
            /\ t.sockets[n] = v /\ \A s \in DOMAIN st.sockets : t.sockets[s] = st.sockets[s]
<1> DEFINE q == Append(st.sockets, v)
           n == Len(st.sockets) + 1
<1>1. st.sockets \in Seq(Socket) /\ Len(st.sockets) \in Nat /\ DOMAIN st.sockets = 1..Len(st.sockets)
  BY ClientFacts
<1>2. /\ q \in Seq(Socket) /\ Len(q) = n /\ \A s \in 1..Len(st.sockets) : q[s] = st.sockets[s]
      /\ q[n] = v
  BY <1>1, AppendProperties
<1> HIDE DEF q
<1>3. /\ DOMAIN q = DOMAIN st.sockets \cup {n} /\ n \notin DOMAIN st.sockets
      /\ n \in Nat /\ n # 0
      /\ q[n] = v /\ \A s \in DOMAIN st.sockets : q[s] = st.sockets[s]
  <2>1. DOMAIN q = 1..Len(st.sockets) + 1
    BY <1>2, LenProperties
  <2>2. 1..Len(st.sockets) + 1 = 1..Len(st.sockets) \cup {Len(st.sockets) + 1}
    BY <1>1
  <2> QED BY <2>1, <2>2, <1>1, <1>2
<1> DEFINE t == [st EXCEPT !.sockets = q]
<1>4. /\ t \in Client /\ t.sockets = q
      /\ t.current = st.current /\ t.host = st.host /\ t.used = st.used /\ t.conns = st.conns
      /\ t.attempts = st.attempts /\ t.immediates = st.immediates /\ t.crashed = st.crashed
  BY <1>2 DEF Client
<1>5. t = [st EXCEPT !.sockets = Append(@, v)]
  BY DEF q
<1> HIDE DEF t, n
<1>6. /\ t \in Client /\ DOMAIN t.sockets = DOMAIN st.sockets \cup {n} /\ n \notin DOMAIN st.sockets
      /\ n \in Nat /\ n # 0
      /\ t.current = st.current /\ t.host = st.host /\ t.used = st.used /\ t.conns = st.conns
      /\ t.attempts = st.attempts /\ t.immediates = st.immediates /\ t.crashed = st.crashed
      /\ t.sockets[n] = v /\ \A s \in DOMAIN st.sockets : t.sockets[s] = st.sockets[s]
  BY <1>3, <1>4
<1> QED BY <1>5, <1>6, Zenon DEF n

LEMMA AddConn ==
  ASSUME NEW st \in Client, NEW v \in Connection
  PROVE  LET n == Len(st.conns) + 1
             t == [st EXCEPT !.conns = Append(@, v), !.current = n]
         IN /\ t \in Client /\ DOMAIN t.conns = DOMAIN st.conns \cup {n} /\ n \notin DOMAIN st.conns
            /\ n = Len(t.conns) /\ t.current = n
            /\ t.host = st.host /\ t.used = st.used /\ t.sockets = st.sockets
            /\ t.attempts = st.attempts /\ t.immediates = st.immediates /\ t.crashed = st.crashed
            /\ t.conns[n] = v /\ \A c \in DOMAIN st.conns : t.conns[c] = st.conns[c]
<1> DEFINE q == Append(st.conns, v)
           n == Len(st.conns) + 1
<1>1. st.conns \in Seq(Connection) /\ Len(st.conns) \in Nat /\ DOMAIN st.conns = 1..Len(st.conns)
  BY ClientFacts
<1>2. /\ q \in Seq(Connection) /\ Len(q) = n /\ \A c \in 1..Len(st.conns) : q[c] = st.conns[c]
      /\ q[n] = v
  BY <1>1, AppendProperties
<1> HIDE DEF q
<1>3. /\ DOMAIN q = DOMAIN st.conns \cup {n} /\ n \notin DOMAIN st.conns
      /\ n \in Nat /\ n = Len(q)
      /\ q[n] = v /\ \A c \in DOMAIN st.conns : q[c] = st.conns[c]
  <2>1. DOMAIN q = 1..Len(st.conns) + 1
    BY <1>2, LenProperties
  <2>2. 1..Len(st.conns) + 1 = 1..Len(st.conns) \cup {Len(st.conns) + 1}
    BY <1>1
  <2> QED BY <2>1, <2>2, <1>1, <1>2
<1> HIDE DEF n
<1> DEFINE t == [[st EXCEPT !.conns = q] EXCEPT !.current = n]
<1>4. /\ t \in Client /\ t.conns = q /\ t.current = n
      /\ t.host = st.host /\ t.used = st.used /\ t.sockets = st.sockets
      /\ t.attempts = st.attempts /\ t.immediates = st.immediates /\ t.crashed = st.crashed
  BY <1>2, <1>3, ZenonT(40) DEF Client
<1>5. t = [st EXCEPT !.conns = Append(@, v), !.current = n]
  BY DEF q
<1> HIDE DEF t
<1>6. /\ t \in Client /\ DOMAIN t.conns = DOMAIN st.conns \cup {n} /\ n \notin DOMAIN st.conns
      /\ n = Len(t.conns) /\ t.current = n
      /\ t.host = st.host /\ t.used = st.used /\ t.sockets = st.sockets
      /\ t.attempts = st.attempts /\ t.immediates = st.immediates /\ t.crashed = st.crashed
      /\ t.conns[n] = v /\ \A c \in DOMAIN st.conns : t.conns[c] = st.conns[c]
  BY <1>3, <1>4, ZenonT(40)
<1> QED BY <1>5, <1>6, Zenon DEF n

-----------------------------------------------------------------------------
(* Steps that only take something away *)

\* A socket is closed, what was asked on it is answered or given up.
FadesSocket(u, v) ==
  /\ v.conn = u.conn /\ v.attempt = u.attempt /\ v.host = u.host /\ v.purpose = u.purpose
  /\ v.state \in {"connecting", "negotiating"} => u.state \in {"connecting", "negotiating"}
  /\ v.state = "open" => u.state = "open"
  /\ v.listens => u.listens
  /\ v.asked => u.asked
  /\ v.login \in {u.login, 0}

FadesConn(u, v) ==
  /\ v.anchor = u.anchor /\ v.loggedIn = u.loggedIn
  /\ u.session => v.session
  /\ v.receive \in {u.receive, 0}
  /\ v.waiting => u.waiting \/ Fault("tasks")

\* A Connection ends with its anchor, which is closed.
Lives(st, t) ==
  LookupIsLast =>
    \A c \in Conns(st) :
      LET anchor == st.conns[c].anchor
      IN st.conns[c].alive /\ ~t.conns[c].alive =>
           anchor # 0 /\ ~IsOpen(t, anchor) /\ st.sockets[anchor].listens

Fades(st, t) ==
  /\ t \in Client
  /\ t.current = st.current /\ t.attempts = st.attempts /\ t.immediates = st.immediates
  /\ t.crashed = st.crashed /\ t.host \in {st.host, scenario.target}
  /\ Sockets(t) = Sockets(st) /\ \A s \in Sockets(st) : FadesSocket(st.sockets[s], t.sockets[s])
  /\ Conns(t) = Conns(st) /\ Len(t.conns) = Len(st.conns)
  /\ \A c \in Conns(st) : FadesConn(st.conns[c], t.conns[c])
  /\ Lives(st, t)

LEMMA FadesSame ==
  ASSUME NEW st \in Client
  PROVE  Fades(st, st)
<1>1. \A s \in Sockets(st) : FadesSocket(st.sockets[s], st.sockets[s])
  BY DEF FadesSocket
<1>2. \A c \in Conns(st) : FadesConn(st.conns[c], st.conns[c])
  BY DEF FadesConn
<1>3. Lives(st, st)
  BY DEF Lives
<1> QED BY <1>1, <1>2, <1>3 DEF Fades

LEMMA FadesAgain ==
  ASSUME NEW st \in Client, NEW t, NEW u, Objects(st), Fades(st, t), Fades(t, u)
  PROVE  Fades(st, u)
<1>1. /\ u \in Client
      /\ u.current = st.current /\ u.attempts = st.attempts /\ u.immediates = st.immediates
      /\ u.crashed = st.crashed /\ u.host \in {st.host, scenario.target}
      /\ Sockets(u) = Sockets(st) /\ Conns(u) = Conns(st) /\ Len(u.conns) = Len(st.conns)
      /\ Sockets(t) = Sockets(st) /\ Conns(t) = Conns(st)
  BY DEF Fades
<1>2. ASSUME NEW s \in Sockets(st)
      PROVE  FadesSocket(st.sockets[s], t.sockets[s]) /\ FadesSocket(t.sockets[s], u.sockets[s])
  BY <1>1 DEF Fades
<1>3. ASSUME NEW c \in Conns(st)
      PROVE  FadesConn(st.conns[c], t.conns[c]) /\ FadesConn(t.conns[c], u.conns[c])
  BY <1>1 DEF Fades
<1>4. \A s \in Sockets(st) : FadesSocket(st.sockets[s], u.sockets[s])
  BY <1>2 DEF FadesSocket
<1>5. \A c \in Conns(st) : FadesConn(st.conns[c], u.conns[c])
  BY <1>3 DEF FadesConn
<1>6. Lives(st, u)
  <2> SUFFICES ASSUME LookupIsLast, NEW c \in Conns(st), st.conns[c].alive, ~u.conns[c].alive
               PROVE  /\ st.conns[c].anchor # 0 /\ ~IsOpen(u, st.conns[c].anchor)
                      /\ st.sockets[st.conns[c].anchor].listens
    BY DEF Lives
  <2> DEFINE anchor == st.conns[c].anchor
  <2>1. anchor # 0 => anchor \in Sockets(st)
    BY DEF Objects, Shape
  <2>2. t.conns[c].anchor = anchor
    BY <1>3 DEF FadesConn
  <2>3. CASE ~t.conns[c].alive
    <3>1. anchor # 0 /\ ~IsOpen(t, anchor) /\ st.sockets[anchor].listens
      BY <2>3 DEF Lives, Fades
    <3>2. anchor \in Sockets(st) /\ FadesSocket(t.sockets[anchor], u.sockets[anchor])
      BY <3>1, <2>1, <1>2
    <3> QED BY <3>1, <3>2 DEF IsOpen, FadesSocket
  <2>4. CASE t.conns[c].alive
    <3>1. Lives(t, u) /\ c \in Conns(t)
      BY <1>1 DEF Fades
    <3>2. anchor # 0 /\ ~IsOpen(u, anchor) /\ t.sockets[anchor].listens
      BY <3>1, <2>4, <2>2 DEF Lives
    <3>3. anchor \in Sockets(st) /\ FadesSocket(st.sockets[anchor], t.sockets[anchor])
      BY <3>2, <2>1, <1>2
    <3> QED BY <3>2, <3>3 DEF FadesSocket
  <2> QED BY <2>3, <2>4
<1> QED BY <1>1, <1>4, <1>5, <1>6 DEF Fades

\* The structure is kept.
LEMMA FadesObjects ==
  ASSUME NEW st \in Client, NEW t, Objects(st), Fades(st, t)
  PROVE  Objects(t)
<1>1. /\ t \in Client /\ t.current = st.current /\ t.attempts = st.attempts
      /\ t.crashed = st.crashed /\ t.host \in {st.host, scenario.target}
      /\ Sockets(t) = Sockets(st) /\ Conns(t) = Conns(st) /\ Len(t.conns) = Len(st.conns)
      /\ \A s \in Sockets(st) : FadesSocket(st.sockets[s], t.sockets[s])
      /\ \A c \in Conns(st) : FadesConn(st.conns[c], t.conns[c])
  BY DEF Fades
<1>2. ~t.crashed
  BY <1>1 DEF Objects
<1>3. Shape(t)
  <2>1. Shape(st)
    BY DEF Objects
  <2>2. t.current = Len(t.conns) /\ t.current \in Conns(t)
       /\ t.host \in {Head(scenario.hosts), scenario.target}
    BY <1>1, <2>1 DEF Shape
  <2>3. ASSUME NEW s \in Sockets(t)
        PROVE  /\ t.sockets[s].conn \in Conns(t)
               /\ IsOpen(t, s) => t.conns[t.sockets[s].conn].anchor # 0
               /\ t.sockets[s].purpose = "lookup" => Multi
    <3>1. /\ st.sockets[s].conn \in Conns(st)
          /\ IsOpen(st, s) => st.conns[st.sockets[s].conn].anchor # 0
          /\ st.sockets[s].purpose = "lookup" => Multi
      BY <1>1, <2>1 DEF Shape
    <3>2. FadesSocket(st.sockets[s], t.sockets[s])
      BY <1>1
    <3>3. FadesConn(st.conns[st.sockets[s].conn], t.conns[st.sockets[s].conn])
      BY <1>1, <3>1
    <3> QED BY <3>1, <3>2, <3>3, <1>1, ZenonT(40) DEF FadesSocket, FadesConn, IsOpen
  <2>4. ASSUME NEW c \in Conns(t)
        PROVE  /\ t.conns[c].anchor # 0 => /\ t.conns[c].anchor \in Sockets(t)
                                           /\ t.sockets[t.conns[c].anchor].conn = c
                                           /\ ~IsOpening(t, t.conns[c].anchor)
               /\ t.conns[c].loggedIn => t.conns[c].session /\ t.conns[c].anchor # 0
               /\ t.conns[c].waiting => Fault("tasks")
    <3> DEFINE anchor == st.conns[c].anchor
    <3>1. /\ anchor # 0 => /\ anchor \in Sockets(st)
                           /\ st.sockets[anchor].conn = c
                           /\ ~IsOpening(st, anchor)
          /\ st.conns[c].loggedIn => st.conns[c].session /\ anchor # 0
          /\ st.conns[c].waiting => Fault("tasks")
      BY <1>1, <2>1 DEF Shape
    <3>2. FadesConn(st.conns[c], t.conns[c])
      BY <1>1
    <3>3. anchor # 0 => FadesSocket(st.sockets[anchor], t.sockets[anchor])
      BY <1>1, <3>1
    <3> QED BY <3>1, <3>2, <3>3, <1>1, ZenonT(40) DEF FadesSocket, FadesConn, IsOpening
  <2> QED BY <2>2, <2>3, <2>4 DEF Shape
<1>4. ASSUME LookupIsLast
      PROVE  Anchored(t)
  <2> SUFFICES ASSUME NEW s \in Sockets(t)
               PROVE  /\ t.sockets[s].listens => s = t.conns[t.sockets[s].conn].anchor
                      /\ IsOpen(t, s) /\ s = t.conns[t.sockets[s].conn].anchor =>
                           t.conns[t.sockets[s].conn].alive
    BY DEF Anchored
  <2> DEFINE c == st.sockets[s].conn
  <2>1. /\ st.sockets[s].listens => s = st.conns[c].anchor
        /\ IsOpen(st, s) /\ s = st.conns[c].anchor => st.conns[c].alive
    BY <1>1, <1>4 DEF Objects, Anchored
  <2>2. c \in Conns(st)
    BY <1>1 DEF Objects, Shape
  <2>3. FadesSocket(st.sockets[s], t.sockets[s]) /\ FadesConn(st.conns[c], t.conns[c])
    BY <1>1, <2>2
  <2>4. st.conns[c].alive /\ ~t.conns[c].alive => ~IsOpen(t, st.conns[c].anchor)
    BY <1>4, <2>2 DEF Lives, Fades
  <2> QED BY <2>1, <2>3, <2>4, ZenonT(40) DEF FadesSocket, FadesConn, IsOpen
<1>5. ASSUME LookupIsLast, TasksStay
      PROVE  Single(t)
  <2> SUFFICES ASSUME NEW s \in Sockets(t), IsOpen(t, s)
               PROVE  s = Conn(t).anchor
    BY DEF Single
  <2>1. FadesSocket(st.sockets[s], t.sockets[s])
    BY <1>1
  <2>2. s = Conn(st).anchor
    BY <2>1, <1>1, <1>5 DEF FadesSocket, IsOpen, Objects, Single
  <2>3. Conn(st) \in Connection /\ st.current \in Conns(st)
    BY ClientFacts DEF Objects, Shape, Conn, Conns
  <2>4. FadesConn(Conn(st), Conn(t))
    BY <2>3, <1>1 DEF Conn
  <2> QED BY <2>2, <2>4 DEF FadesConn
<1>6. ~LookupMayFail => \A a \in DOMAIN t.attempts : t.attempts[a].outcome = "unopened" => AllDown
  BY <1>1 DEF Objects
<1> QED BY <1>2, <1>3, <1>4, <1>5, <1>6 DEF Objects

LEMMA InUse ==
  ASSUME NEW st \in Client, Objects(st)
  PROVE  /\ st.current \in Conns(st) /\ Conn(st) \in Connection /\ Conn(st) = st.conns[st.current]
         /\ Conn(st).anchor # 0 => Conn(st).anchor \in Sockets(st)
         /\ ~st.crashed
<1>1. st.current \in Conns(st)
  BY DEF Objects, Shape
<1>2. Conn(st) = st.conns[st.current] /\ Conn(st) \in Connection
  BY <1>1, ClientFacts DEF Conn, Conns
<1> QED BY <1>1, <1>2 DEF Objects, Shape

\* What the stages say of the calls, and of the sockets, is kept.
LEMMA FadesKeeps ==
  ASSUME NEW st \in Client, NEW t, Objects(st), Fades(st, t)
  PROVE  /\ Last(t) = Last(st) /\ Conn(t).loggedIn = Conn(st).loggedIn
         /\ Last(st) > 0 => Call(t) = Call(st) /\ Tried(t) = Tried(st)
         /\ \A n : Answered(st, n) => Answered(t, n)
         /\ Unanswered(st) => Unanswered(t)
         /\ NoImmediate(st) => NoImmediate(t)
         /\ NoOpening(st) => NoOpening(t)
         /\ NoLookup(st) => NoLookup(t)
         /\ NoLogin(st) => NoLogin(t)
         /\ InHand(st) => InHand(t)
         /\ NoneOpen(st) => NoneOpen(t)
         /\ NoneAsked(st) => NoneAsked(t)
         /\ Left(st) => Left(t)
         /\ Fresh(st) => Fresh(t)
         /\ LookupIsLast /\ Ready(st) => Ready(t)
<1>1. /\ t.current = st.current /\ t.attempts = st.attempts /\ t.immediates = st.immediates
      /\ Sockets(t) = Sockets(st) /\ Conns(t) = Conns(st)
      /\ \A s \in Sockets(st) : FadesSocket(st.sockets[s], t.sockets[s])
      /\ \A c \in Conns(st) : FadesConn(st.conns[c], t.conns[c])
  BY DEF Fades
<1>2. Last(t) = Last(st) /\ Call(t) = Call(st) /\ Tried(t) = Tried(st)
  BY <1>1 DEF Last, Call, Tried
<1>3. /\ \A n : Answered(st, n) => Answered(t, n)
      /\ Unanswered(st) => Unanswered(t)
  BY <1>1, <1>2 DEF Answered, Unanswered
<1>4. NoImmediate(st) => NoImmediate(t)
  BY <1>1 DEF NoImmediate
<1>5. /\ NoOpening(st) => NoOpening(t)
      /\ NoneOpen(st) => NoneOpen(t)
      /\ NoneAsked(st) => NoneAsked(t)
      /\ Fresh(st) => Fresh(t)
  BY <1>1 DEF NoOpening, NoneOpen, NoneAsked, Fresh, IsOpening, IsOpen, FadesSocket
<1>6. /\ NoLookup(st) => NoLookup(t)
      /\ NoLogin(st) => NoLogin(t)
  BY <1>1 DEF NoLookup, NoLogin, FadesSocket, FadesConn
<1>7. Left(st) => Left(t)
  BY <1>1, <1>2 DEF Left
<1>8. st.current \in Conns(st) /\ FadesConn(Conn(st), Conn(t))
  BY <1>1, InUse DEF Conn
<1>9. ASSUME LookupIsLast, Ready(st)
      PROVE  Ready(t)
  <2>1. Conn(t).anchor = Conn(st).anchor /\ Conn(st).alive
    BY <1>8, <1>9 DEF FadesConn, Ready
  <2>2. ASSUME Conn(st).anchor # 0
        PROVE  ~st.sockets[Conn(st).anchor].listens /\ ~t.sockets[Conn(st).anchor].listens
    <3>1. Conn(st).anchor \in Sockets(st)
      BY <2>2, InUse
    <3> QED BY <3>1, <2>2, <1>1, <1>9 DEF Ready, FadesSocket
  <2>3. Conn(t).alive
    BY <1>8, <1>1, <1>9, <2>1, <2>2 DEF Lives, Fades, Conn
  <2> QED BY <2>1, <2>2, <2>3 DEF Ready
<1>10. Conn(t).loggedIn = Conn(st).loggedIn
  BY <1>8 DEF FadesConn
<1> QED BY <1>2, <1>3, <1>4, <1>5, <1>6, <1>7, <1>9, <1>10 DEF InHand

\* Nothing that the unanswered connect() waits for is taken away.
Steady(st, t) ==
  /\ \A s \in Sockets(st) : t.sockets[s].login = st.sockets[s].login
  /\ \A s \in Sockets(st) : IsOpening(st, s) => IsOpening(t, s)
  /\ \A c \in Conns(st) : t.conns[c].receive = st.conns[c].receive
  /\ LookupIsLast =>
       \A s \in Sockets(st) : IsOpen(st, s) /\ st.sockets[s].asked => IsOpen(t, s) /\ t.sockets[s].asked

LEMMA SteadyAsked ==
  ASSUME NEW st \in Client, NEW t, Fades(st, t), Steady(st, t), LookupIsLast,
         NEW s \in Sockets(st), OnlyAsked(st, s)
  PROVE  OnlyAsked(t, s)
<1>1. Sockets(t) = Sockets(st) /\ \A x \in Sockets(st) : FadesSocket(st.sockets[x], t.sockets[x])
  BY DEF Fades
<1>2. IsOpen(t, s) /\ t.sockets[s].asked
  BY DEF OnlyAsked, Steady
<1>3. ASSUME NEW x \in Sockets(t), IsOpen(t, x), t.sockets[x].asked
      PROVE  x = s
  <2>1. IsOpen(st, x) /\ st.sockets[x].asked
    BY <1>1, <1>3 DEF FadesSocket, IsOpen
  <2> QED BY <2>1, <1>1 DEF OnlyAsked
<1> QED BY <1>2, <1>3 DEF OnlyAsked

LEMMA SteadyKeeps ==
  ASSUME NEW st \in Client, NEW t, Objects(st), Stage(st), Fades(st, t), Steady(st, t)
  PROVE  Good(t)
<1> USE FadesKeeps
<1>1. /\ t \in Client
      /\ t.current = st.current /\ t.attempts = st.attempts /\ t.immediates = st.immediates
      /\ Sockets(t) = Sockets(st) /\ Conns(t) = Conns(st)
      /\ \A s \in Sockets(st) : FadesSocket(st.sockets[s], t.sockets[s])
      /\ \A c \in Conns(st) : FadesConn(st.conns[c], t.conns[c])
  BY DEF Fades
<1>2. Objects(t)
  BY FadesObjects
<1>3. CASE Rests(st)
  <2>1. Last(t) = Last(st) /\ (Call(t).outcome = "unopened" => Call(st).outcome = "unopened")
    BY <1>1 DEF Last, Call
  <2>2. Rests(t)
    BY <1>3, <2>1 DEF Rests
  <2> QED BY <2>2, <1>1, <1>2 DEF Good, Stage
<1>4. CASE Deferred(st)
  <2>1. Deferred(t)
    BY <1>4, <1>1 DEF Deferred
  <2> QED BY <2>1, <1>1, <1>2 DEF Good, Stage
<1>5. CASE Lost(st)
  <2>1. Lost(t)
    BY <1>5 DEF Lost
  <2> QED BY <2>1, <1>1, <1>2 DEF Good, Stage
<1>6. ASSUME NEW s \in Sockets(st), Opens(st, s)
      PROVE  Good(t)
  <2>1. Last(st) > 0 /\ Call(t) = Call(st) /\ Tried(t) = Tried(st)
    BY <1>6 DEF Opens, Unanswered
  <2>2. \A x \in Sockets(t) : IsOpening(t, x) <=> x = s
    BY <1>6, <1>1 DEF Opens, Steady, FadesSocket, IsOpening
  <2>3. /\ t.sockets[s].conn = st.sockets[s].conn /\ t.sockets[s].attempt = st.sockets[s].attempt
        /\ t.sockets[s].host = st.sockets[s].host /\ t.sockets[s].purpose = st.sockets[s].purpose
        /\ ~t.sockets[s].asked
    BY <1>1, <1>6 DEF FadesSocket, Opens
  <2>4. Reaches(t, t.sockets[s].host)
    BY <1>6, <2>1, <2>3 DEF Opens, Reaches
  <2>5. Opens(t, s)
    BY <1>6, <2>2, <2>3, <2>4, <1>1 DEF Opens
  <2> QED BY <2>5, <1>1, <1>2 DEF Good, Stage
<1>7. ASSUME NEW s \in Sockets(st), Looks(st, s)
      PROVE  Good(t)
  <2>1. Last(st) > 0 /\ Call(t) = Call(st) /\ Tried(t) = Tried(st)
    BY <1>7 DEF Looks, Unanswered
  <2>2. \A c \in Conns(t) : t.conns[c].receive = IF c = t.current THEN Last(t) ELSE 0
    BY <1>7, <1>1 DEF Looks, Steady
  <2>3. t.sockets[s].host = st.sockets[s].host /\ t.sockets[s].purpose = st.sockets[s].purpose
    BY <1>1 DEF FadesSocket
  <2>4. Reaches(t, t.sockets[s].host)
    BY <1>7, <2>1, <2>3 DEF Looks, Reaches
  <2>5. s = Conn(t).anchor
    BY <1>7, <1>1, InUse, ZenonT(40) DEF Looks, Conn, FadesConn
  <2>6. LookupIsLast => OnlyAsked(t, s)
    BY <1>7, SteadyAsked DEF Looks
  <2>7. LookupIsLast /\ LookupMayFail =>
          \A x \in Sockets(t) : IsOpen(t, x) /\ t.sockets[x].conn = t.current => x = s
    BY <1>7, <1>1 DEF Looks, FadesSocket, IsOpen
  <2>8. Looks(t, s)
    BY <1>7, <2>2, <2>3, <2>4, <2>5, <2>6, <2>7, <1>1 DEF Looks
  <2> QED BY <2>8, <1>1, <1>2 DEF Good, Stage
<1>8. ASSUME NEW s \in Sockets(st), LogsIn(st, s)
      PROVE  Good(t)
  <2>1. Last(st) > 0 /\ Call(t) = Call(st) /\ Last(t) = Last(st)
    BY <1>8 DEF LogsIn, Unanswered
  <2>2. \A x \in Sockets(t) : t.sockets[x].login = IF x = s THEN Last(t) ELSE 0
    BY <1>8, <1>1 DEF LogsIn, Steady
  <2>3. t.sockets[s].host = st.sockets[s].host
    BY <1>1 DEF FadesSocket
  <2>4. s = Conn(t).anchor
    BY <1>8, <1>1, InUse DEF LogsIn, Conn, FadesConn
  <2>5. LookupIsLast => OnlyAsked(t, s)
    BY <1>8, SteadyAsked DEF LogsIn
  <2>6. LogsIn(t, s)
    BY <1>8, <2>1, <2>2, <2>3, <2>4, <2>5 DEF LogsIn
  <2> QED BY <2>6, <1>1, <1>2 DEF Good, Stage
<1> QED BY <1>3, <1>4, <1>5, <1>6, <1>7, <1>8 DEF Stage

LEMMA SocketFades ==
  ASSUME NEW st \in Client, NEW k \in Sockets(st), NEW v \in Socket, FadesSocket(st.sockets[k], v)
  PROVE  LET t == [st EXCEPT !.sockets[k] = v]
         IN /\ Fades(st, t) /\ t.conns = st.conns /\ t.used = st.used /\ t.host = st.host
            /\ t.sockets[k] = v /\ \A s \in Sockets(st) \ {k} : t.sockets[s] = st.sockets[s]
<1> DEFINE t == [st EXCEPT !.sockets[k] = v]
<1>1. /\ t \in Client /\ DOMAIN t.sockets = DOMAIN st.sockets
      /\ t.current = st.current /\ t.host = st.host /\ t.used = st.used /\ t.conns = st.conns
      /\ t.attempts = st.attempts /\ t.immediates = st.immediates /\ t.crashed = st.crashed
      /\ t.sockets[k] = v /\ \A s \in DOMAIN st.sockets \ {k} : t.sockets[s] = st.sockets[s]
  BY PutSocket DEF Sockets
<1> HIDE DEF t
<1>2. \A s \in Sockets(st) : FadesSocket(st.sockets[s], t.sockets[s])
  BY <1>1 DEF FadesSocket, Sockets
<1>3. \A c \in Conns(st) : FadesConn(st.conns[c], t.conns[c])
  BY <1>1 DEF FadesConn
<1>4. Lives(st, t)
  BY <1>1 DEF Lives
<1>5. Fades(st, t)
  BY <1>1, <1>2, <1>3, <1>4 DEF Fades, Sockets, Conns
<1>6. /\ Fades(st, t) /\ t.conns = st.conns /\ t.used = st.used /\ t.host = st.host
      /\ t.sockets[k] = v /\ \A s \in Sockets(st) \ {k} : t.sockets[s] = st.sockets[s]
  BY <1>1, <1>5 DEF Sockets
<1> QED BY <1>6, Zenon DEF t

LEMMA ConnFades ==
  ASSUME NEW st \in Client, NEW k \in Conns(st), NEW v \in Connection,
         FadesConn(st.conns[k], v), v.alive = st.conns[k].alive
  PROVE  LET t == [st EXCEPT !.conns[k] = v]
         IN /\ Fades(st, t) /\ t.sockets = st.sockets /\ t.used = st.used /\ t.host = st.host
            /\ t.conns[k] = v /\ \A c \in Conns(st) \ {k} : t.conns[c] = st.conns[c]
<1> DEFINE t == [st EXCEPT !.conns[k] = v]
<1>1. /\ t \in Client /\ DOMAIN t.conns = DOMAIN st.conns /\ Len(t.conns) = Len(st.conns)
      /\ t.current = st.current /\ t.host = st.host /\ t.used = st.used /\ t.sockets = st.sockets
      /\ t.attempts = st.attempts /\ t.immediates = st.immediates /\ t.crashed = st.crashed
      /\ t.conns[k] = v /\ \A c \in DOMAIN st.conns \ {k} : t.conns[c] = st.conns[c]
  BY PutConn DEF Conns
<1> HIDE DEF t
<1>2. \A s \in Sockets(st) : FadesSocket(st.sockets[s], t.sockets[s])
  BY <1>1 DEF FadesSocket
<1>3. \A c \in Conns(st) : FadesConn(st.conns[c], t.conns[c])
  BY <1>1 DEF FadesConn, Conns
<1>4. Lives(st, t)
  BY <1>1 DEF Lives, Conns
<1>5. Fades(st, t)
  BY <1>1, <1>2, <1>3, <1>4 DEF Fades, Sockets, Conns
<1>6. /\ Fades(st, t) /\ t.sockets = st.sockets /\ t.used = st.used /\ t.host = st.host
      /\ t.conns[k] = v /\ \A c \in Conns(st) \ {k} : t.conns[c] = st.conns[c]
  BY <1>1, <1>5 DEF Conns
<1> QED BY <1>6, Zenon DEF t

\* Only what a Connection and its anchor are closed with differs.
Same(st, t) ==
  /\ \A s \in Sockets(st) : /\ t.sockets[s].login = st.sockets[s].login
                            /\ t.sockets[s].asked = st.sockets[s].asked
                            /\ IsOpening(st, s) => IsOpening(t, s)
  /\ \A c \in Conns(st) : /\ t.conns[c].receive = st.conns[c].receive
                          /\ t.conns[c].alive = st.conns[c].alive
                          /\ t.conns[c].waiting = st.conns[c].waiting
  /\ t.used = st.used /\ t.host = st.host

LEMMA DestroyFades ==
  ASSUME NEW st \in Client, Objects(st), NEW c \in Conns(st)
  PROVE  LET t == Destroy(st, c)
         IN /\ Fades(st, t) /\ Same(st, t)
            /\ st.conns[c].anchor # 0 => ~IsOpen(t, st.conns[c].anchor)
            /\ \A s \in Sockets(st) : s # st.conns[c].anchor => t.sockets[s] = st.sockets[s]
<1> DEFINE k == st.conns[c].anchor
           v == [st.sockets[k] EXCEPT !.state = "destroyed"]
           t == [st EXCEPT !.sockets[k] = v]
<1>1. CASE k # 0 /\ st.sockets[k].state = "open"
  <2>1. k \in Sockets(st) /\ st.sockets[k] \in Socket
    BY <1>1, ClientFacts DEF Objects, Shape, Sockets
  <2>2. v \in Socket /\ v.state = "destroyed" /\ v.login = st.sockets[k].login
        /\ v.asked = st.sockets[k].asked /\ FadesSocket(st.sockets[k], v)
    BY <2>1, <1>1 DEF Socket, FadesSocket
  <2>3. Destroy(st, c) = t
    BY <1>1 DEF Destroy, Anchor
  <2> HIDE DEF v
  <2>4. /\ Fades(st, t) /\ t.conns = st.conns /\ t.used = st.used /\ t.host = st.host
        /\ t.sockets[k] = v /\ \A s \in Sockets(st) \ {k} : t.sockets[s] = st.sockets[s]
    BY <2>1, <2>2, SocketFades
  <2> HIDE DEF t
  <2>5. Same(st, t)
    BY <2>2, <2>4, <1>1 DEF Same, IsOpening
  <2>6. ~IsOpen(t, k)
    BY <2>2, <2>4 DEF IsOpen
  <2> QED BY <2>3, <2>4, <2>5, <2>6
<1>2. CASE ~(k # 0 /\ st.sockets[k].state = "open")
  <2>1. Destroy(st, c) = st
    BY <1>2 DEF Destroy, Anchor
  <2>2. Same(st, st)
    BY DEF Same
  <2> QED BY <2>1, <2>2, <1>2, FadesSame DEF IsOpen
<1> QED BY <1>1, <1>2

LEMMA CloseFades ==
  ASSUME NEW st \in Client, Objects(st), NEW c \in Conns(st)
  PROVE  LET t == Close(st, c)
         IN /\ Fades(st, t) /\ Same(st, t)
            /\ \/ ~st.conns[c].alive \/ st.conns[c].waiting \/ st.conns[c].anchor = 0
               \/ ~IsOpen(t, st.conns[c].anchor)
            /\ \A s \in Sockets(st) : s # st.conns[c].anchor => t.sockets[s] = st.sockets[s]
<1>1. CASE ReadyState(st, c) = "closed"
  <2>1. Close(st, c) = st
    BY <1>1 DEF Close
  <2>2. ~st.conns[c].alive \/ st.conns[c].anchor = 0 \/ ~IsOpen(st, st.conns[c].anchor)
    BY <1>1 DEF ReadyState, IsOpen, Anchor
  <2>3. Same(st, st)
    BY DEF Same
  <2> QED BY <2>1, <2>2, <2>3, FadesSame
<1>2. CASE ReadyState(st, c) # "closed" /\ st.conns[c].waiting = FALSE
  <2>1. Close(st, c) = Destroy(st, c)
    BY <1>2 DEF Close
  <2> QED BY <2>1, DestroyFades
<1>3. CASE ReadyState(st, c) # "closed" /\ st.conns[c].waiting # FALSE
  <2> DEFINE v == [st.conns[c] EXCEPT !.closeOnDrain = TRUE]
             t == [st EXCEPT !.conns[c] = v]
  <2>1. st.conns[c] \in Connection
    BY ClientFacts DEF Conns
  <2>2. v \in Connection /\ FadesConn(st.conns[c], v) /\ v.alive = st.conns[c].alive
        /\ v.receive = st.conns[c].receive /\ v.waiting = st.conns[c].waiting
    BY <2>1 DEF Connection, FadesConn
  <2>3. Close(st, c) = t /\ st.conns[c].waiting
    BY <1>3, <2>1, ConnFacts DEF Close
  <2> HIDE DEF v
  <2>4. /\ Fades(st, t) /\ t.sockets = st.sockets /\ t.used = st.used /\ t.host = st.host
        /\ t.conns[c] = v /\ \A x \in Conns(st) \ {c} : t.conns[x] = st.conns[x]
    BY <2>2, ConnFades
  <2> HIDE DEF t
  <2>5. Same(st, t)
    BY <2>2, <2>4 DEF Same, IsOpening
  <2> QED BY <2>3, <2>4, <2>5
<1> QED BY <1>1, <1>2, <1>3

\* The anchor has lost the listener that would end the Connection with it.
LEMMA CloseSilentlyFades ==
  ASSUME NEW st \in Client, Objects(st), NEW c \in Conns(st)
  PROVE  LET t == CloseSilently(st, c)
         IN /\ Fades(st, t) /\ Same(st, t)
            /\ st.conns[c].anchor # 0 => ~t.sockets[st.conns[c].anchor].listens
            /\ \/ ~st.conns[c].alive \/ st.conns[c].waiting \/ st.conns[c].anchor = 0
               \/ ~IsOpen(t, st.conns[c].anchor)
<1>1. CASE st.conns[c].anchor = 0
  <2>1. CloseSilently(st, c) = st
    BY <1>1 DEF CloseSilently
  <2>2. Same(st, st)
    BY DEF Same
  <2> QED BY <2>1, <2>2, <1>1, FadesSame
<1>2. CASE st.conns[c].anchor # 0
  <2> DEFINE k == st.conns[c].anchor
             v == [st.sockets[k] EXCEPT !.listens = FALSE]
             t == [st EXCEPT !.sockets[k] = v]
             u == Close(t, c)
  <2>1. k \in Sockets(st) /\ st.sockets[k] \in Socket
    BY <1>2, ClientFacts DEF Objects, Shape, Sockets
  <2>2. v \in Socket /\ ~v.listens /\ v.login = st.sockets[k].login
        /\ v.asked = st.sockets[k].asked /\ v.state = st.sockets[k].state
        /\ FadesSocket(st.sockets[k], v)
    BY <2>1, SocketFacts DEF Socket, FadesSocket
  <2>3. CloseSilently(st, c) = u
    BY <1>2 DEF CloseSilently
  <2> HIDE DEF v
  <2>4. /\ Fades(st, t) /\ t.conns = st.conns /\ t.used = st.used /\ t.host = st.host
        /\ t.sockets[k] = v /\ \A s \in Sockets(st) \ {k} : t.sockets[s] = st.sockets[s]
    BY <2>1, <2>2, SocketFades, ZenonT(60)
  <2> HIDE DEF t
  <2>5. t \in Client /\ Objects(t) /\ Conns(t) = Conns(st) /\ Sockets(t) = Sockets(st)
    BY <2>4, FadesObjects DEF Fades
  <2>6. Same(st, t)
    BY <2>2, <2>4 DEF Same, IsOpening
  <2>7. /\ Fades(t, u) /\ Same(t, u)
        /\ \/ ~t.conns[c].alive \/ t.conns[c].waiting \/ t.conns[c].anchor = 0
           \/ ~IsOpen(u, t.conns[c].anchor)
    BY <2>5, CloseFades
  <2> HIDE DEF u
  <2>8. Fades(st, u)
    BY <2>4, <2>7, FadesAgain
  <2>9. Same(st, u)
    BY <2>6, <2>7, <2>5 DEF Same
  <2>10. ~u.sockets[k].listens
    BY <2>7, <2>4, <2>2, <2>1, <2>5, ZenonT(40) DEF Fades, FadesSocket
  <2> QED BY <2>3, <2>4, <2>7, <2>8, <2>9, <2>10
<1> QED BY <1>1, <1>2

-----------------------------------------------------------------------------
(* Steps that change the call only *)

SameObjects(st, t) ==
  t.current = st.current /\ t.conns = st.conns /\ t.sockets = st.sockets /\ t.host = st.host

LEMMA ObjectsKept ==
  ASSUME NEW st \in Client, NEW t \in Client, Objects(st), SameObjects(st, t)
  PROVE  /\ Shape(t)
         /\ LookupIsLast => Anchored(t)
         /\ LookupIsLast /\ TasksStay => Single(t)
         /\ Sockets(t) = Sockets(st) /\ Conns(t) = Conns(st) /\ Conn(t) = Conn(st)
         /\ NoOpening(st) => NoOpening(t)
         /\ NoLookup(st) => NoLookup(t)
         /\ NoLogin(st) => NoLogin(t)
         /\ NoneOpen(st) => NoneOpen(t)
         /\ NoneAsked(st) => NoneAsked(t)
         /\ Fresh(st) => Fresh(t)
         /\ Ready(st) => Ready(t)
<1> USE DEF SameObjects
<1>1. Sockets(t) = Sockets(st) /\ Conns(t) = Conns(st) /\ Conn(t) = Conn(st)
  BY DEF Sockets, Conns, Conn
<1>2. /\ \A s : IsOpening(t, s) <=> IsOpening(st, s)
      /\ \A s : IsOpen(t, s) <=> IsOpen(st, s)
  BY DEF IsOpening, IsOpen
<1>3. /\ NoOpening(st) => NoOpening(t)
      /\ NoneOpen(st) => NoneOpen(t)
      /\ NoneAsked(st) => NoneAsked(t)
      /\ Fresh(st) => Fresh(t)
  BY <1>1, <1>2 DEF NoOpening, NoneOpen, NoneAsked, Fresh
<1>4. /\ NoLookup(st) => NoLookup(t)
      /\ NoLogin(st) => NoLogin(t)
      /\ Ready(st) => Ready(t)
  BY <1>1 DEF NoLookup, NoLogin, Ready
<1>5. /\ LookupIsLast => Anchored(t)
      /\ LookupIsLast /\ TasksStay => Single(t)
  BY <1>1, <1>2 DEF Objects, Anchored, Single
<1>6. Shape(t)
  BY <1>1, <1>2 DEF Objects, Shape
<1> QED BY <1>1, <1>3, <1>4, <1>5, <1>6

\* A record of the call is changed, but not whether it has been answered.
OnlyCall(st, t) ==
  /\ t \in Client /\ SameObjects(st, t)
  /\ t.immediates = st.immediates /\ t.crashed = st.crashed
  /\ DOMAIN t.attempts = DOMAIN st.attempts /\ Len(t.attempts) = Len(st.attempts)
  /\ \A a \in DOMAIN st.attempts : /\ t.attempts[a].calls = st.attempts[a].calls
                                   /\ t.attempts[a].outcome = st.attempts[a].outcome

LEMMA OnlyCallKeeps ==
  ASSUME NEW st \in Client, NEW t, Objects(st), OnlyCall(st, t)
  PROVE  /\ Objects(t) /\ Last(t) = Last(st)
         /\ InHand(st) => InHand(t)
<1>1. t \in Client /\ SameObjects(st, t) /\ Last(t) = Last(st)
  BY DEF OnlyCall, Last
<1>2. ~LookupMayFail => \A a \in DOMAIN t.attempts : t.attempts[a].outcome = "unopened" => AllDown
  BY DEF OnlyCall, Objects
<1>3. ~t.crashed
  BY DEF OnlyCall, Objects
<1>4. Objects(t)
  BY <1>1, <1>2, <1>3, ObjectsKept DEF Objects
<1>5. Unanswered(st) => Unanswered(t)
  BY <1>1 DEF Unanswered, Answered, OnlyCall
<1>6. NoImmediate(st) => NoImmediate(t)
  BY DEF NoImmediate, OnlyCall
<1> QED BY <1>1, <1>4, <1>5, <1>6, ObjectsKept DEF InHand

LEMMA InHandFacts ==
  ASSUME NEW st \in Client, Unanswered(st)
  PROVE  /\ Last(st) \in DOMAIN st.attempts /\ Last(st) \in Nat /\ Last(st) > 0
         /\ Call(st) \in Attempt /\ Call(st).calls = 0 /\ Call(st).outcome = "none"
<1>1. Last(st) \in DOMAIN st.attempts /\ Last(st) \in Nat /\ Last(st) > 0
  BY ClientFacts DEF Unanswered, Last
<1>2. Call(st) \in Attempt
  BY <1>1, ClientFacts DEF Call
<1>3. st.attempts[Last(st)].calls = 0 /\ st.attempts[Last(st)].outcome = "none"
  BY <1>1 DEF Unanswered, Answered
<1> QED BY <1>1, <1>2, <1>3 DEF Call

\* What becomes of a connect() that is in hand: it has called back, without success, or not yet.
Works(st, t) == Good(t) /\ Last(t) = Last(st) /\ Call(t).outcome # "ok"

LEMMA ToldFacts ==
  ASSUME NEW st \in Client, Unanswered(st), NEW o \in Outcomes
  PROVE  LET t == Told(st, Last(st), o)
         IN /\ t \in Client /\ SameObjects(st, t) /\ t.immediates = st.immediates
            /\ t.crashed = st.crashed /\ t.used = st.used
            /\ DOMAIN t.attempts = DOMAIN st.attempts /\ Last(t) = Last(st)
            /\ Answered(t, Last(t)) /\ Call(t).outcome = o /\ Call(t).redirects = Call(st).redirects
            /\ \A a \in DOMAIN st.attempts \ {Last(st)} : t.attempts[a] = st.attempts[a]
<1> DEFINE k == Last(st)
           v == [st.attempts[k] EXCEPT !.calls = @ + 1]
           w == [v EXCEPT !.outcome = o]
           t1 == [st EXCEPT !.attempts[k] = v]
           t2 == [t1 EXCEPT !.attempts[k] = w]
<1>1. k \in DOMAIN st.attempts /\ k \in Nat /\ st.attempts[k] \in Attempt /\ st.attempts[k].calls = 0
  BY InHandFacts DEF Call
<1>2. v \in Attempt /\ v.calls = 1 /\ v.redirects = st.attempts[k].redirects
  BY <1>1 DEF Attempt
<1>3. w \in Attempt /\ w.calls = 1 /\ w.outcome = o /\ w.redirects = st.attempts[k].redirects
  BY <1>2 DEF Attempt
<1>4. /\ t1 \in Client /\ DOMAIN t1.attempts = DOMAIN st.attempts
      /\ t1.current = st.current /\ t1.host = st.host /\ t1.used = st.used /\ t1.sockets = st.sockets
      /\ t1.conns = st.conns /\ t1.immediates = st.immediates /\ t1.crashed = st.crashed
      /\ t1.attempts[k] = v /\ \A a \in DOMAIN st.attempts \ {k} : t1.attempts[a] = st.attempts[a]
      /\ Len(t1.attempts) = Len(st.attempts)
  <2> HIDE DEF v, k
  <2> QED BY <1>1, <1>2, PutAttempt
<1>5. Told(st, k, o) = [t1 EXCEPT !.attempts[k] = [t1.attempts[k] EXCEPT !.outcome = o]]
  BY Zenon DEF Told
<1>6. Told(st, k, o) = t2
  BY <1>5, <1>4
<1> HIDE DEF v, k, t1
<1>7. /\ t2 \in Client /\ DOMAIN t2.attempts = DOMAIN t1.attempts
      /\ t2.current = t1.current /\ t2.host = t1.host /\ t2.used = t1.used /\ t2.sockets = t1.sockets
      /\ t2.conns = t1.conns /\ t2.immediates = t1.immediates /\ t2.crashed = t1.crashed
      /\ t2.attempts[k] = w /\ \A a \in DOMAIN t1.attempts \ {k} : t2.attempts[a] = t1.attempts[a]
      /\ Len(t2.attempts) = Len(t1.attempts)
  <2> HIDE DEF w
  <2> QED BY <1>1, <1>3, <1>4, PutAttempt
<1> HIDE DEF t2, w
<1>8. SameObjects(st, t2)
  BY <1>4, <1>7 DEF SameObjects
<1>9. Last(t2) = k
  BY <1>4, <1>7 DEF Last, k
<1>10. \A a \in DOMAIN st.attempts \ {k} : t2.attempts[a] = st.attempts[a]
  BY <1>4, <1>7
<1>11. Answered(t2, k)
  <2> SUFFICES ASSUME NEW a \in DOMAIN t2.attempts
               PROVE  /\ t2.attempts[a].calls = IF a <= k THEN 1 ELSE 0
                      /\ t2.attempts[a].outcome = "none" <=> a > k
    BY DEF Answered
  <2>1. a \in DOMAIN st.attempts /\ a \in Nat /\ a <= k
    BY <1>4, <1>7, ClientFacts DEF k, Last
  <2>2. CASE a = k
    <3>1. o # "none"
      BY DEF Outcomes
    <3> QED BY <2>1, <2>2, <3>1, <1>3, <1>7
  <2>3. CASE a # k
    <3>1. t2.attempts[a] = st.attempts[a] /\ a <= k - 1 /\ ~(a > k - 1) /\ ~(a > k)
      BY <2>1, <2>3, <1>1, <1>10
    <3>2. st.attempts[a].calls = 1 /\ st.attempts[a].outcome # "none"
      BY <2>1, <3>1 DEF Unanswered, Answered, k
    <3> QED BY <2>1, <3>1, <3>2
  <2> QED BY <2>2, <2>3
<1>12. Call(t2).outcome = o /\ Call(t2).redirects = Call(st).redirects
  BY <1>3, <1>7, <1>9 DEF Call, k
<1> QED BY <1>4, <1>6, <1>7, <1>8, <1>9, <1>10, <1>11, <1>12 DEF k

\* The callback is called.
LEMMA TellWorks ==
  ASSUME NEW st \in Client, Objects(st), InHand(st), NEW o \in Outcomes,
         LookupIsLast => NoneAsked(st),
         o = "unopened" => /\ ~LookupMayFail => AllDown
                           /\ LookupIsLast /\ TasksStay => NoneOpen(st)
  PROVE  LET t == Told(st, Last(st), o)
         IN Good(t) /\ Rests(t) /\ Last(t) = Last(st) /\ Call(t).outcome = o
<1> DEFINE t == Told(st, Last(st), o)
<1>1. /\ t \in Client /\ SameObjects(st, t) /\ t.immediates = st.immediates
      /\ t.crashed = st.crashed
      /\ DOMAIN t.attempts = DOMAIN st.attempts /\ Last(t) = Last(st)
      /\ Answered(t, Last(t)) /\ Call(t).outcome = o
      /\ \A a \in DOMAIN st.attempts \ {Last(st)} : t.attempts[a] = st.attempts[a]
  BY ToldFacts DEF InHand
<1> HIDE DEF t
<1>2. Last(t) > 0
  BY <1>1 DEF InHand, Unanswered
<1>3. ASSUME ~LookupMayFail, NEW a \in DOMAIN t.attempts, t.attempts[a].outcome = "unopened"
      PROVE  AllDown
  <2>1. CASE a = Last(st)
    BY <2>1, <1>1, <1>3 DEF Call
  <2>2. CASE a # Last(st)
    BY <2>2, <1>1, <1>3 DEF Objects
  <2> QED BY <2>1, <2>2
<1>4. Objects(t)
  BY <1>1, <1>3, ObjectsKept DEF Objects
<1>5. NoImmediate(t)
  BY <1>1 DEF InHand, NoImmediate
<1>6. NoOpening(t) /\ NoLookup(t) /\ NoLogin(t) /\ (LookupIsLast => NoneAsked(t))
  BY <1>1, ObjectsKept DEF InHand
<1>7. LookupIsLast /\ TasksStay /\ (Last(t) = 0 \/ Call(t).outcome = "unopened") => NoneOpen(t)
  BY <1>1, <1>2, ObjectsKept
<1>8. Rests(t)
  BY <1>1, <1>5, <1>6, <1>7 DEF Rests
<1>9. Good(t)
  BY <1>1, <1>4, <1>8 DEF Good, Stage
<1> QED BY <1>1, <1>8, <1>9 DEF t

\* The callback is deferred.
LEMMA ToldLaterWorks ==
  ASSUME NEW st \in Client, Objects(st), InHand(st), LookupIsLast => NoneAsked(st)
  PROVE  Works(st, ToldLater(st, Last(st)))
<1> DEFINE q == Append(st.immediates, Last(st))
           t == [st EXCEPT !.immediates = q]
<1>1. q = <<Last(st)>> /\ q \in Seq(Nat)
  BY InHandFacts DEF InHand, NoImmediate
<1>2. ToldLater(st, Last(st)) = t
  BY DEF ToldLater
<1> HIDE DEF q
<1>3. /\ t \in Client /\ t.immediates = q /\ t.current = st.current /\ t.host = st.host
      /\ t.sockets = st.sockets /\ t.conns = st.conns
      /\ t.attempts = st.attempts /\ t.crashed = st.crashed
  BY <1>1, PutImmediates
<1> HIDE DEF t
<1>4. SameObjects(st, t) /\ Last(t) = Last(st) /\ Call(t) = Call(st)
  BY <1>3 DEF SameObjects, Last, Call
<1>5. Objects(t)
  BY <1>3, <1>4, ObjectsKept DEF Objects
<1>6. Unanswered(t)
  BY <1>3, <1>4 DEF InHand, Unanswered, Answered
<1>7. NoOpening(t) /\ NoLookup(t) /\ NoLogin(t) /\ (LookupIsLast => NoneAsked(t))
  BY <1>3, <1>4, ObjectsKept DEF InHand
<1>8. Deferred(t)
  BY <1>1, <1>3, <1>4, <1>6, <1>7 DEF Deferred
<1>9. Call(t).outcome # "ok"
  BY <1>4, InHandFacts DEF InHand
<1> QED BY <1>2, <1>3, <1>4, <1>5, <1>8, <1>9 DEF Good, Stage, Works

-----------------------------------------------------------------------------
(* A host is tried *)

LEMMA ScenarioFacts ==
  ASSUME scenario \in Scenarios
  PROVE  /\ scenario.hosts \in Seq(Hosts) /\ scenario.hosts # <<>> /\ scenario.isList \in BOOLEAN
         /\ Len(scenario.hosts) \in Nat /\ Len(scenario.hosts) > 0
         /\ DOMAIN scenario.hosts = 1..Len(scenario.hosts)
         /\ Head(scenario.hosts) = scenario.hosts[1] /\ Head(scenario.hosts) \in Hosts
         /\ ~scenario.isList => Len(scenario.hosts) = 1
         /\ scenario.tenant \subseteq Hosts /\ scenario.target \in Hosts \cup {None}
<1>1. /\ scenario.hosts \in Seq(Hosts) /\ scenario.hosts # <<>> /\ scenario.isList \in BOOLEAN
      /\ ~scenario.isList => Len(scenario.hosts) = 1
      /\ scenario.tenant \subseteq Hosts /\ scenario.target \in Hosts \cup {None}
  BY ScenarioAssumption
<1>2. /\ Len(scenario.hosts) \in Nat /\ Len(scenario.hosts) > 0
      /\ DOMAIN scenario.hosts = 1..Len(scenario.hosts)
      /\ Head(scenario.hosts) = scenario.hosts[1] /\ Head(scenario.hosts) \in Hosts
  BY <1>1
<1> QED BY <1>1, <1>2

LEMMA OpenWorks ==
  ASSUME NEW st \in Client, Objects(st), InHand(st), Left(st), ~Conn(st).loggedIn,
         NEW h \in Hosts, NEW p \in {"lookup", "tenant", "login"}, Reaches(st, h),
         LookupIsLast => NoneAsked(st) /\ Ready(st),
         LookupIsLast /\ TasksStay => NoneOpen(st),
         p = "lookup" => Multi,
         LookupIsLast /\ LookupMayFail /\ p = "lookup" => Fresh(st)
  PROVE  Works(st, Open(st, st.current, Last(st), h, p))
<1> DEFINE v == NewSocket(st.current, Last(st), h, p)
           n == Len(st.sockets) + 1
           t == [st EXCEPT !.sockets = Append(@, v)]
<1>1. v \in Socket
  BY InHandFacts, ClientFacts DEF NewSocket, Socket, InHand
<1>2. /\ v.state = "connecting" /\ v.conn = st.current /\ v.attempt = Last(st) /\ v.host = h
      /\ v.purpose = p /\ v.listens = FALSE /\ v.asked = FALSE /\ v.login = 0
  BY DEF NewSocket
<1>3. Open(st, st.current, Last(st), h, p) = t
  BY DEF Open
<1> HIDE DEF v
<1>4. /\ t \in Client /\ DOMAIN t.sockets = DOMAIN st.sockets \cup {n} /\ n \notin DOMAIN st.sockets
      /\ n \in Nat /\ n # 0
      /\ t.current = st.current /\ t.host = st.host /\ t.used = st.used /\ t.conns = st.conns
      /\ t.attempts = st.attempts /\ t.immediates = st.immediates /\ t.crashed = st.crashed
      /\ t.sockets[n] = v /\ \A s \in DOMAIN st.sockets : t.sockets[s] = st.sockets[s]
  BY <1>1, AddSocket
<1> HIDE DEF t, n
<1>5. /\ Sockets(t) = Sockets(st) \cup {n} /\ n \notin Sockets(st) /\ Conns(t) = Conns(st)
      /\ Conn(t) = Conn(st) /\ Last(t) = Last(st) /\ Call(t) = Call(st) /\ Tried(t) = Tried(st)
      /\ t.sockets[n] = v /\ \A s \in Sockets(st) : t.sockets[s] = st.sockets[s]
  BY <1>4 DEF Sockets, Conns, Conn, Last, Call, Tried
<1>6. /\ \A s \in Sockets(st) : IsOpening(t, s) <=> IsOpening(st, s)
      /\ \A s \in Sockets(st) : IsOpen(t, s) <=> IsOpen(st, s)
      /\ IsOpening(t, n) /\ ~IsOpen(t, n)
  BY <1>5, <1>2 DEF IsOpening, IsOpen
<1>7. Objects(t)
  <2>1. Shape(t)
    <3>1. Shape(st) /\ st.current \in Conns(st)
      BY DEF Objects, Shape
    <3>2. ASSUME NEW s \in Sockets(t)
          PROVE  /\ t.sockets[s].conn \in Conns(t)
                 /\ IsOpen(t, s) => t.conns[t.sockets[s].conn].anchor # 0
                 /\ t.sockets[s].purpose = "lookup" => Multi
      BY <3>1, <1>2, <1>4, <1>5, <1>6 DEF Shape
    <3>3. ASSUME NEW c \in Conns(t)
          PROVE  /\ t.conns[c].anchor # 0 => /\ t.conns[c].anchor \in Sockets(t)
                                             /\ t.sockets[t.conns[c].anchor].conn = c
                                             /\ ~IsOpening(t, t.conns[c].anchor)
                 /\ t.conns[c].loggedIn => t.conns[c].session /\ t.conns[c].anchor # 0
                 /\ t.conns[c].waiting => Fault("tasks")
      BY <3>1, <1>4, <1>5, <1>6 DEF Shape
    <3> QED BY <3>1, <3>2, <3>3, <1>4, <1>5 DEF Shape
  <2>2. LookupIsLast => Anchored(t)
    BY <1>2, <1>4, <1>5, <1>6 DEF Objects, Anchored
  <2>3. LookupIsLast /\ TasksStay => Single(t)
    BY <1>5, <1>6 DEF Objects, Single
  <2>4. ~t.crashed /\ (~LookupMayFail =>
                         \A a \in DOMAIN t.attempts : t.attempts[a].outcome = "unopened" => AllDown)
    BY <1>4 DEF Objects
  <2> QED BY <2>1, <2>2, <2>3, <2>4 DEF Objects
<1>8. /\ Unanswered(t) /\ NoImmediate(t) /\ NoLookup(t)
  BY <1>4, <1>5 DEF InHand, Unanswered, Answered, NoImmediate, NoLookup
<1>9. NoLogin(t)
  BY <1>2, <1>5 DEF InHand, NoLogin
<1>10. \A x \in Sockets(t) : IsOpening(t, x) <=> x = n
  BY <1>5, <1>6 DEF InHand, NoOpening
<1>11. Left(t) /\ Reaches(t, t.sockets[n].host)
  BY <1>2, <1>4, <1>5 DEF Left, Reaches
<1>12. LookupIsLast => NoneAsked(t) /\ Ready(t)
  <2> SUFFICES ASSUME LookupIsLast
               PROVE  NoneAsked(t) /\ Ready(t)
    OBVIOUS
  <2>1. NoneAsked(t)
    BY <1>5, <1>6 DEF NoneAsked
  <2>2. Ready(t)
    BY <1>5, InUse DEF Ready
  <2> QED BY <2>1, <2>2
<1>13. LookupIsLast /\ TasksStay => NoneOpen(t)
  BY <1>5, <1>6 DEF NoneOpen
<1>14. LookupIsLast /\ LookupMayFail /\ t.sockets[n].purpose = "lookup" => Fresh(t)
  BY <1>2, <1>4, <1>5, <1>6 DEF Fresh
<1>15. Opens(t, n)
  BY <1>2, <1>4, <1>5, <1>8, <1>9, <1>10, <1>11, <1>12, <1>13, <1>14 DEF Opens
<1>16. Good(t)
  BY <1>4, <1>5, <1>7, <1>15 DEF Good, Stage
<1>17. Call(t).outcome # "ok"
  BY <1>5, InHandFacts DEF InHand
<1> QED BY <1>3, <1>5, <1>16, <1>17 DEF Works

\* The record of the call is changed as follows by its hosts.
LEMMA PutLeft ==
  ASSUME NEW st \in Client, Unanswered(st), NEW left \in Seq(Hosts)
  PROVE  LET t == [st EXCEPT !.attempts[Last(st)].left = left]
         IN /\ OnlyCall(st, t) /\ Call(t).left = left /\ Call(t).conn = Call(st).conn
            /\ Call(t).redirects = Call(st).redirects /\ t.used = st.used
<1> DEFINE k == Last(st)
           v == [st.attempts[k] EXCEPT !.left = left]
           t == [st EXCEPT !.attempts[k] = v]
<1>1. k \in DOMAIN st.attempts /\ st.attempts[k] \in Attempt
  BY InHandFacts DEF Call
<1>2. /\ v \in Attempt /\ v.left = left /\ v.conn = st.attempts[k].conn
      /\ v.redirects = st.attempts[k].redirects /\ v.calls = st.attempts[k].calls
      /\ v.outcome = st.attempts[k].outcome
  BY <1>1 DEF Attempt
<1> HIDE DEF v, k
<1>3. /\ t \in Client /\ DOMAIN t.attempts = DOMAIN st.attempts
      /\ t.current = st.current /\ t.host = st.host /\ t.used = st.used /\ t.sockets = st.sockets
      /\ t.conns = st.conns /\ t.immediates = st.immediates /\ t.crashed = st.crashed
      /\ t.attempts[k] = v /\ \A a \in DOMAIN st.attempts \ {k} : t.attempts[a] = st.attempts[a]
      /\ Len(t.attempts) = Len(st.attempts)
  BY <1>1, <1>2, PutAttempt
<1>4. t = [st EXCEPT !.attempts[Last(st)].left = left]
  BY DEF k, v
<1> HIDE DEF t
<1>5. OnlyCall(st, t)
  BY <1>2, <1>3 DEF OnlyCall, SameObjects
<1>6. Call(t) = v /\ Call(st) = st.attempts[k]
  BY <1>3 DEF Call, Last, k
<1> QED BY <1>2, <1>3, <1>4, <1>5, <1>6

\* Of the hosts that are left, the next one is taken.
LEMMA NextHost ==
  ASSUME NEW left \in Seq(Hosts), left # <<>>, NEW n \in Nat, Len(left) <= n
  PROVE  /\ Head(left) = left[1] /\ Head(left) \in Hosts /\ 1 \in DOMAIN left
         /\ Tail(left) \in Seq(Hosts) /\ Len(Tail(left)) < n /\ Len(Tail(left)) <= n
         /\ n - Len(Tail(left)) = n - Len(left) + 1 /\ n - Len(left) \in Nat
         /\ 1..(n - Len(Tail(left))) - 1 = 1..(n - Len(left))
         /\ \A i \in DOMAIN Tail(left) :
              /\ i \in Nat /\ i + 1 \in DOMAIN left /\ Tail(left)[i] = left[i + 1]
              /\ n - Len(Tail(left)) + i = n - Len(left) + (i + 1)
<1>1. Len(left) \in Nat /\ Len(left) > 0 /\ DOMAIN left = 1..Len(left)
  BY LenProperties
<1>2. /\ Head(left) = left[1] /\ Head(left) \in Hosts
      /\ Tail(left) \in Seq(Hosts) /\ Len(Tail(left)) = Len(left) - 1
      /\ \A i \in 1..Len(Tail(left)) : Tail(left)[i] = left[i + 1]
  BY <1>1, HeadTailProperties
<1>3. DOMAIN Tail(left) = 1..Len(left) - 1
  BY <1>2, LenProperties
<1> QED BY <1>1, <1>2, <1>3

LEMMA TryConnectWorks ==
  ASSUME scenario \in Scenarios, NEW st \in Client, Objects(st), Tries(st)
  PROVE  Works(st, TryConnect(st, Last(st)))
<1> DEFINE left == Call(st).left
           n == Len(scenario.hosts)
<1>1. /\ Unanswered(st) /\ InHand(st) /\ Left(st) /\ ~Conn(st).loggedIn
      /\ n \in Nat /\ left \in Seq(Hosts) /\ left = st.attempts[Last(st)].left /\ Len(left) <= n
      /\ Tried(st) = n - Len(left)
  BY ScenarioFacts, InHandFacts, AttemptFacts DEF Tries, InHand, Left, Call, Tried
<1>2. CASE left = <<>>
  <2>1. Tried(st) = n
    BY <1>1, <1>2
  <2>2. ~LookupMayFail => AllDown
    <3>1. DOMAIN scenario.hosts = 1..n
      BY ScenarioFacts
    <3> QED BY <2>1, <3>1 DEF Tries, AllDown, Failed
  <2>3. TryConnect(st, Last(st)) = Told(st, Last(st), "unopened")
    BY <1>1, <1>2 DEF TryConnect
  <2>4. /\ LookupIsLast => NoneAsked(st)
        /\ LookupIsLast /\ TasksStay => NoneOpen(st)
    BY DEF Tries
  <2>5. "unopened" \in Outcomes
    BY DEF Outcomes
  <2>6. LET t == Told(st, Last(st), "unopened")
        IN Good(t) /\ Rests(t) /\ Last(t) = Last(st) /\ Call(t).outcome = "unopened"
    BY <1>1, <2>2, <2>4, <2>5, TellWorks
  <2> QED BY <2>3, <2>6 DEF Works
<1>3. CASE left # <<>>
  <2> DEFINE t == [st EXCEPT !.attempts[Last(st)].left = Tail(left)]
             p == IF Multi THEN "lookup" ELSE "login"
  <2>1. /\ Head(left) = left[1] /\ Head(left) \in Hosts /\ 1 \in DOMAIN left
        /\ Tail(left) \in Seq(Hosts) /\ Len(Tail(left)) < n /\ Len(Tail(left)) <= n
        /\ n - Len(Tail(left)) = n - Len(left) + 1 /\ n - Len(left) \in Nat
        /\ 1..(n - Len(Tail(left))) - 1 = 1..(n - Len(left))
        /\ \A i \in DOMAIN Tail(left) :
             /\ i \in Nat /\ i + 1 \in DOMAIN left /\ Tail(left)[i] = left[i + 1]
             /\ n - Len(Tail(left)) + i = n - Len(left) + (i + 1)
    <3> HIDE DEF left, n
    <3> QED BY <1>1, <1>3, NextHost
  <2>2. TryConnect(st, Last(st)) = Open(t, Call(st).conn, Last(st), Head(left), p)
    BY <1>1, <1>3 DEF TryConnect, Call
  <2>3. /\ OnlyCall(st, t) /\ Call(t).left = Tail(left) /\ Call(t).conn = Call(st).conn
        /\ Call(t).redirects = Call(st).redirects
    BY <1>1, <2>1, PutLeft
  <2> HIDE DEF t
  <2>4. /\ t \in Client /\ SameObjects(st, t) /\ Objects(t) /\ InHand(t) /\ Last(t) = Last(st)
        /\ t.current = st.current /\ Conn(t) = Conn(st) /\ Call(st).conn = st.current
    BY <1>1, <2>3, OnlyCallKeeps, ObjectsKept DEF OnlyCall, SameObjects, Left
  <2>5. Tried(t) = n - Len(Tail(left)) /\ Tried(t) = Tried(st) + 1 /\ 1..Tried(t) - 1 = 1..Tried(st)
    BY <1>1, <2>1, <2>3 DEF Tried
  <2>6. Left(t)
    <3>1. ASSUME NEW i \in DOMAIN Call(t).left
          PROVE  /\ Call(t).left[i] \in {scenario.hosts[Tried(t) + i], scenario.target}
                 /\ RedirectIsFollowed /\ Call(t).redirects > 0 => Call(t).left[i] = scenario.target
      <4>1. i + 1 \in DOMAIN left /\ Call(t).left[i] = left[i + 1] /\ Tried(t) + i = Tried(st) + (i + 1)
        BY <2>1, <2>3, <2>5, <1>1
      <4> QED BY <4>1, <1>1, <2>3 DEF Left
    <3> QED BY <3>1, <2>1, <2>3, <2>4 DEF Left
  <2>7. Reaches(t, Head(left))
    <3>1. /\ left[1] \in {scenario.hosts[Tried(st) + 1], scenario.target}
          /\ RedirectIsFollowed /\ Call(st).redirects > 0 => left[1] = scenario.target
      BY <1>1, <2>1 DEF Left
    <3>2. ~LookupMayFail => \A i \in 1..Tried(t) - 1 : Failed(i)
      BY <2>5 DEF Tries
    <3> QED BY <3>1, <3>2, <2>1, <2>3, <2>5 DEF Reaches
  <2>8. /\ LookupIsLast => NoneAsked(t) /\ Ready(t)
        /\ LookupIsLast /\ TasksStay => NoneOpen(t)
        /\ LookupIsLast /\ LookupMayFail => Fresh(t)
    BY <1>3, <2>4, ObjectsKept DEF Tries
  <2>9. p \in {"lookup", "tenant", "login"} /\ (p = "lookup" => Multi)
    OBVIOUS
  <2> HIDE DEF p, left
  <2>10. Works(t, Open(t, t.current, Last(t), Head(left), p))
    BY <2>1, <2>4, <2>6, <2>7, <2>8, <2>9, <1>1, OpenWorks
  <2> QED BY <2>2, <2>4, <2>10 DEF Works
<1> QED BY <1>2, <1>3

-----------------------------------------------------------------------------
(* The login is asked *)

\* Something is asked on a socket.
LEMMA AskKeeps ==
  ASSUME NEW st \in Client, Objects(st), InHand(st), NEW k \in Sockets(st), NEW v \in Socket,
         v.state = st.sockets[k].state, v.conn = st.sockets[k].conn, v.host = st.sockets[k].host,
         v.listens = st.sockets[k].listens, v.purpose = st.sockets[k].purpose
  PROVE  LET t == [st EXCEPT !.sockets[k] = v]
         IN /\ t \in Client /\ Objects(t) /\ t.current = st.current /\ t.conns = st.conns
            /\ Last(t) = Last(st) /\ Call(t) = Call(st) /\ Conn(t) = Conn(st) /\ Tried(t) = Tried(st)
            /\ Sockets(t) = Sockets(st) /\ Conns(t) = Conns(st)
            /\ Unanswered(t) /\ NoImmediate(t) /\ NoOpening(t) /\ NoLookup(t)
            /\ t.sockets[k] = v /\ \A s \in Sockets(st) \ {k} : t.sockets[s] = st.sockets[s]
            /\ \A s \in Sockets(st) : IsOpen(t, s) <=> IsOpen(st, s)
<1> DEFINE t == [st EXCEPT !.sockets[k] = v]
<1>1. /\ t \in Client /\ DOMAIN t.sockets = DOMAIN st.sockets
      /\ t.current = st.current /\ t.host = st.host /\ t.used = st.used /\ t.conns = st.conns
      /\ t.attempts = st.attempts /\ t.immediates = st.immediates /\ t.crashed = st.crashed
      /\ t.sockets[k] = v /\ \A s \in DOMAIN st.sockets \ {k} : t.sockets[s] = st.sockets[s]
  BY PutSocket DEF Sockets
<1> HIDE DEF t
<1>2. /\ Sockets(t) = Sockets(st) /\ Conns(t) = Conns(st) /\ Conn(t) = Conn(st)
      /\ Last(t) = Last(st) /\ Call(t) = Call(st) /\ Tried(t) = Tried(st)
      /\ t.sockets[k] = v /\ \A s \in Sockets(st) \ {k} : t.sockets[s] = st.sockets[s]
  BY <1>1 DEF Sockets, Conns, Conn, Last, Call, Tried
<1>3. \A s \in Sockets(st) :
        /\ t.sockets[s].state = st.sockets[s].state /\ t.sockets[s].conn = st.sockets[s].conn
        /\ t.sockets[s].host = st.sockets[s].host /\ t.sockets[s].listens = st.sockets[s].listens
        /\ t.sockets[s].purpose = st.sockets[s].purpose
  BY <1>2
<1>4. /\ \A s \in Sockets(st) : IsOpening(t, s) <=> IsOpening(st, s)
      /\ \A s \in Sockets(st) : IsOpen(t, s) <=> IsOpen(st, s)
  BY <1>3 DEF IsOpening, IsOpen
<1>5. Shape(t)
  <2>1. Shape(st)
    BY DEF Objects
  <2>2. ASSUME NEW s \in Sockets(t)
        PROVE  /\ t.sockets[s].conn \in Conns(t)
               /\ IsOpen(t, s) => t.conns[t.sockets[s].conn].anchor # 0
               /\ t.sockets[s].purpose = "lookup" => Multi
    BY <2>1, <1>1, <1>2, <1>3, <1>4 DEF Shape
  <2>3. ASSUME NEW c \in Conns(t)
        PROVE  /\ t.conns[c].anchor # 0 => /\ t.conns[c].anchor \in Sockets(t)
                                           /\ t.sockets[t.conns[c].anchor].conn = c
                                           /\ ~IsOpening(t, t.conns[c].anchor)
               /\ t.conns[c].loggedIn => t.conns[c].session /\ t.conns[c].anchor # 0
               /\ t.conns[c].waiting => Fault("tasks")
    BY <2>1, <1>1, <1>2, <1>3, <1>4 DEF Shape
  <2> QED BY <2>1, <2>2, <2>3, <1>1, <1>2 DEF Shape
<1>6. LookupIsLast => Anchored(t)
  BY <1>1, <1>2, <1>3, <1>4 DEF Objects, Anchored
<1>7. LookupIsLast /\ TasksStay => Single(t)
  BY <1>2, <1>4 DEF Objects, Single
<1>8. Objects(t)
  BY <1>1, <1>5, <1>6, <1>7 DEF Objects
<1>9. Unanswered(t) /\ NoImmediate(t) /\ NoOpening(t) /\ NoLookup(t)
  BY <1>1, <1>2, <1>4 DEF InHand, Unanswered, Answered, NoImmediate, NoOpening, NoLookup
<1>10. /\ t \in Client /\ Objects(t) /\ t.current = st.current /\ t.conns = st.conns
       /\ Last(t) = Last(st) /\ Call(t) = Call(st) /\ Conn(t) = Conn(st) /\ Tried(t) = Tried(st)
       /\ Sockets(t) = Sockets(st) /\ Conns(t) = Conns(st)
       /\ Unanswered(t) /\ NoImmediate(t) /\ NoOpening(t) /\ NoLookup(t)
       /\ t.sockets[k] = v /\ \A s \in Sockets(st) \ {k} : t.sockets[s] = st.sockets[s]
       /\ \A s \in Sockets(st) : IsOpen(t, s) <=> IsOpen(st, s)
  BY <1>1, <1>2, <1>4, <1>8, <1>9
<1> QED BY <1>10, Zenon DEF t

\* Where a redirect has led to.
Followed(st) ==
  Conn(st).anchor # 0 /\ RedirectIsFollowed /\ Call(st).redirects > 0 =>
    st.sockets[Conn(st).anchor].host \in {scenario.target} \cup scenario.tenant

LEMMA LogsInWorks ==
  ASSUME NEW st \in Client, Objects(st), InHand(st), ~Conn(st).loggedIn, Conn(st).anchor # 0,
         LookupIsLast => NoneAsked(st) /\ IsOpen(st, Conn(st).anchor), Followed(st)
  PROVE  Works(st, [st EXCEPT !.conns[st.current].connecting = TRUE,
                              !.sockets[Conn(st).anchor].login = Last(st),
                              !.sockets[Conn(st).anchor].asked = TRUE])
<1> DEFINE c == st.current
           k == Conn(st).anchor
           u == [st.conns[c] EXCEPT !.connecting = TRUE]
           t1 == [st EXCEPT !.conns[c] = u]
           v == [t1.sockets[k] EXCEPT !.login = Last(st)]
           t2 == [t1 EXCEPT !.sockets[k] = v]
           w == [t2.sockets[k] EXCEPT !.asked = TRUE]
           t3 == [t2 EXCEPT !.sockets[k] = w]
<1>1. c \in Conns(st) /\ st.conns[c] \in Connection /\ Conn(st) = st.conns[c] /\ k \in Sockets(st)
      /\ st.sockets[k] \in Socket /\ Last(st) \in Nat /\ Last(st) > 0
  BY InUse, ClientFacts, InHandFacts DEF Sockets, InHand
<1>2. u \in Connection /\ FadesConn(st.conns[c], u) /\ u.alive = st.conns[c].alive
  BY <1>1 DEF Connection, FadesConn
<1> HIDE DEF u, c, k
<1>3. Fades(st, t1) /\ t1.sockets = st.sockets
  BY <1>1, <1>2, ConnFades
<1> HIDE DEF t1
<1>4. /\ t1 \in Client /\ Objects(t1) /\ InHand(t1) /\ Last(t1) = Last(st) /\ Call(t1) = Call(st)
      /\ Sockets(t1) = Sockets(st) /\ t1.current = st.current
      /\ Conn(t1).loggedIn = Conn(st).loggedIn /\ (NoneAsked(st) => NoneAsked(t1))
  BY <1>1, <1>3, FadesObjects, FadesKeeps DEF Fades
<1>5. Conn(t1).anchor = k
  BY <1>1, <1>3, <1>4 DEF Fades, FadesConn, Conn, k, c
<1>6. /\ v \in Socket /\ v.login = Last(st) /\ v.state = t1.sockets[k].state
      /\ v.conn = t1.sockets[k].conn /\ v.host = t1.sockets[k].host
      /\ v.listens = t1.sockets[k].listens /\ v.purpose = t1.sockets[k].purpose
  BY <1>1, <1>3 DEF Socket
<1> HIDE DEF v
<1>7. /\ t2 \in Client /\ t2.sockets[k] = v
      /\ \A s \in Sockets(t1) \ {k} : t2.sockets[s] = t1.sockets[s]
  BY <1>1, <1>4, <1>6, PutSocket DEF Sockets
<1>8. /\ w \in Socket /\ w.login = Last(st) /\ w.asked /\ w.state = t1.sockets[k].state
      /\ w.conn = t1.sockets[k].conn /\ w.host = t1.sockets[k].host
      /\ w.listens = t1.sockets[k].listens /\ w.purpose = t1.sockets[k].purpose
  <2> HIDE DEF t2
  <2> QED BY <1>6, <1>7 DEF Socket
<1>9. t3 = [t1 EXCEPT !.sockets[k] = w]
  <2> HIDE DEF w
  <2>1. [t1.sockets EXCEPT ![k] = v] = t2.sockets
    BY <1>4 DEF Client
  <2>2. \A q : [[t1 EXCEPT !.sockets = q] EXCEPT !.sockets = [q EXCEPT ![k] = w]]
                 = [t1 EXCEPT !.sockets = [q EXCEPT ![k] = w]]
    BY <1>4 DEF Client
  <2>3. [[t1.sockets EXCEPT ![k] = v] EXCEPT ![k] = w] = [t1.sockets EXCEPT ![k] = w]
    OBVIOUS
  <2> QED BY <2>1, <2>2, <2>3, ZenonT(40)
<1> HIDE DEF w, t2
<1>10. /\ t3 \in Client /\ Objects(t3) /\ t3.current = t1.current
       /\ Last(t3) = Last(t1) /\ Call(t3) = Call(t1) /\ Conn(t3) = Conn(t1)
       /\ Sockets(t3) = Sockets(t1)
       /\ Unanswered(t3) /\ NoImmediate(t3) /\ NoOpening(t3) /\ NoLookup(t3)
       /\ t3.sockets[k] = w /\ \A s \in Sockets(t1) \ {k} : t3.sockets[s] = t1.sockets[s]
       /\ \A s \in Sockets(t1) : IsOpen(t3, s) <=> IsOpen(t1, s)
  <2> DEFINE y == [t1 EXCEPT !.sockets[k] = w]
  <2>1. /\ y \in Client /\ Objects(y) /\ y.current = t1.current
        /\ Last(y) = Last(t1) /\ Call(y) = Call(t1) /\ Conn(y) = Conn(t1)
        /\ Sockets(y) = Sockets(t1)
        /\ Unanswered(y) /\ NoImmediate(y) /\ NoOpening(y) /\ NoLookup(y)
        /\ y.sockets[k] = w /\ \A s \in Sockets(t1) \ {k} : y.sockets[s] = t1.sockets[s]
        /\ \A s \in Sockets(t1) : IsOpen(y, s) <=> IsOpen(t1, s)
    BY <1>1, <1>4, <1>8, AskKeeps, SMTT(40)
  <2> HIDE DEF y
  <2>2. t3 = y
    BY <1>9 DEF y
  <2> QED BY <2>1, <2>2
<1>11. t3 = [st EXCEPT !.conns[st.current].connecting = TRUE,
                       !.sockets[Conn(st).anchor].login = Last(st),
                       !.sockets[Conn(st).anchor].asked = TRUE]
  BY Zenon DEF t1, t2, u, v, w, c, k
<1> HIDE DEF t3
<1>12. \A x \in Sockets(t3) : t3.sockets[x].login = IF x = k THEN Last(t3) ELSE 0
  BY <1>4, <1>8, <1>10 DEF InHand, NoLogin
<1>13. ASSUME LookupIsLast
       PROVE  OnlyAsked(t3, k)
  <2>1. IsOpen(t1, k)
    BY <1>3, <1>13 DEF IsOpen, k
  <2>2. ASSUME NEW x \in Sockets(t3), IsOpen(t3, x), t3.sockets[x].asked
        PROVE  x = k
    BY <2>2, <1>4, <1>10, <1>13 DEF NoneAsked
  <2> QED BY <2>1, <2>2, <1>1, <1>4, <1>8, <1>10 DEF OnlyAsked
<1>14. RedirectIsFollowed /\ Call(t3).redirects > 0 =>
         t3.sockets[k].host \in {scenario.target} \cup scenario.tenant
  BY <1>3, <1>4, <1>8, <1>10 DEF Followed, k
<1>15. LogsIn(t3, k)
  BY <1>4, <1>5, <1>10, <1>12, <1>13, <1>14 DEF LogsIn
<1>16. Good(t3) /\ Call(t3).outcome # "ok"
  BY <1>1, <1>4, <1>10, <1>15, InHandFacts DEF Good, Stage, InHand
<1> QED BY <1>4, <1>10, <1>11, <1>16 DEF Works

LEMMA CrashWorks ==
  ASSUME NEW st \in Client, Unanswered(st) \/ Answered(st, Last(st)), ~LookupIsLast
  PROVE  LET t == [st EXCEPT !.crashed = TRUE]
         IN Good(t) /\ t.attempts = st.attempts
<1> DEFINE t == [st EXCEPT !.crashed = TRUE]
<1>1. t \in Client /\ t.crashed /\ t.attempts = st.attempts
  BY PutCrashed
<1> HIDE DEF t
<1>2. Last(t) = Last(st)
  BY <1>1 DEF Last
<1>3. Unanswered(t) \/ Answered(t, Last(t))
  BY <1>1, <1>2 DEF Unanswered, Answered
<1>4. Good(t)
  BY <1>1, <1>3 DEF Good
<1> QED BY <1>1, <1>4 DEF t

LEMMA LoginWorks ==
  ASSUME NEW st \in Client, Objects(st), InHand(st), ~Conn(st).loggedIn, Followed(st),
         LookupIsLast => NoneAsked(st) /\ Conn(st).alive /\ Conn(st).anchor # 0
                         /\ IsOpen(st, Conn(st).anchor)
  PROVE  \A t \in Login(st, Last(st)) : Works(st, t)
<1> DEFINE c == st.current
           k == st.conns[c].anchor
           bad == [st EXCEPT !.crashed = TRUE]
           asks == [st EXCEPT !.conns[c].connecting = TRUE, !.sockets[k].login = Last(st),
                              !.sockets[k].asked = TRUE]
<1>1. Works(st, ToldLater(st, Last(st)))
  BY ToldLaterWorks
<1>2. Works(st, Told(st, Last(st), "refused"))
  <2>1. "refused" \in Outcomes
    BY DEF Outcomes
  <2>2. LET t == Told(st, Last(st), "refused")
        IN Good(t) /\ Rests(t) /\ Last(t) = Last(st) /\ Call(t).outcome = "refused"
    BY <2>1, TellWorks
  <2> QED BY <2>2 DEF Works
<1>3. ASSUME k = 0 \/ ~st.conns[c].alive
      PROVE  Works(st, bad)
  <2>1. ~LookupIsLast
    BY <1>3 DEF Conn
  <2>2. Good(bad) /\ bad.attempts = st.attempts
    BY <2>1, CrashWorks DEF InHand
  <2> HIDE DEF bad
  <2>3. Last(bad) = Last(st) /\ Call(bad) = Call(st)
    BY <2>2 DEF Last, Call
  <2> QED BY <2>2, <2>3, InHandFacts DEF Works, InHand
<1>4. ASSUME k # 0
      PROVE  Works(st, asks)
  BY <1>4, LogsInWorks, ZenonT(40) DEF Conn
<1>5. ASSUME NEW t \in Login(st, Last(st))
      PROVE  t \in {ToldLater(st, Last(st)), Told(st, Last(st), "refused"),
                    IF k = 0 \/ ~st.conns[c].alive THEN bad ELSE asks}
  BY <1>5, Zenon DEF Login
<1> HIDE DEF bad, asks
<1> QED BY <1>1, <1>2, <1>3, <1>4, <1>5

-----------------------------------------------------------------------------
(* The next host, the tenant's and the redirect's *)

\* The anchor of the connection in use was the only socket that could be open, and is closed.
LEMMA LeavesNone ==
  ASSUME NEW st \in Client, Objects(st), NEW t, Fades(st, t), LookupIsLast, TasksStay,
         Multi \/ scenario.target # None,
         \/ ~Conn(st).alive \/ Conn(st).waiting \/ Conn(st).anchor = 0
         \/ ~IsOpen(t, Conn(st).anchor)
  PROVE  NoneOpen(t)
<1> SUFFICES ASSUME NEW s \in Sockets(t), IsOpen(t, s)
             PROVE  FALSE
  BY DEF NoneOpen
<1>1. s \in Sockets(st) /\ IsOpen(st, s)
  BY DEF Fades, FadesSocket, IsOpen
<1>2. s = Conn(st).anchor /\ s # 0
  BY <1>1, ClientFacts DEF Objects, Single, Sockets
<1>3. st.current \in Conns(st) /\ Conn(st) = st.conns[st.current]
  BY InUse
<1>4. ~Conn(st).waiting
  BY <1>3 DEF Objects, Shape, TasksStay, Multi
<1>5. st.sockets[s].conn = st.current
  BY <1>2, <1>3 DEF Objects, Shape
<1>6. Conn(st).alive
  BY <1>1, <1>2, <1>3, <1>5 DEF Objects, Anchored
<1> QED BY <1>2, <1>4, <1>6

LEMMA HandleErrorWorks ==
  ASSUME scenario \in Scenarios, Multi, NEW st \in Client, Objects(st), InHand(st), Left(st),
         ~Conn(st).loggedIn,
         ~LookupMayFail => \A i \in 1..Tried(st) : Failed(i),
         LookupIsLast => NoneAsked(st),
         LookupIsLast /\ Call(st).left # <<>> => Ready(st) /\ (LookupMayFail => Fresh(st))
  PROVE  Works(st, HandleError(st, st.current, Last(st)))
<1> DEFINE t == Close(st, st.current)
<1>1. HandleError(st, st.current, Last(st)) = TryConnect(t, Last(st))
  BY DEF HandleError
<1>2. st.current \in Conns(st) /\ Conn(st) = st.conns[st.current] /\ Last(st) > 0
  BY InUse, InHandFacts DEF InHand
<1>3. /\ Fades(st, t)
      /\ \/ ~Conn(st).alive \/ Conn(st).waiting \/ Conn(st).anchor = 0
         \/ ~IsOpen(t, Conn(st).anchor)
  BY <1>2, CloseFades
<1> HIDE DEF t
<1>4. /\ t \in Client /\ Objects(t) /\ Last(t) = Last(st) /\ Call(t) = Call(st)
      /\ Tried(t) = Tried(st) /\ InHand(t) /\ Left(t) /\ ~Conn(t).loggedIn
      /\ NoneAsked(st) => NoneAsked(t)
      /\ Fresh(st) => Fresh(t)
      /\ LookupIsLast /\ Ready(st) => Ready(t)
  BY <1>2, <1>3, FadesObjects, FadesKeeps DEF Fades
<1>5. LookupIsLast /\ TasksStay => NoneOpen(t)
  BY <1>3, LeavesNone
<1>6. Tries(t)
  BY <1>4, <1>5 DEF Tries
<1>7. Works(t, TryConnect(t, Last(t)))
  BY <1>4, <1>6, TryConnectWorks
<1> QED BY <1>1, <1>4, <1>7 DEF Works

LEMMA RedirectToTenantWorks ==
  ASSUME NEW st \in Client, Objects(st), InHand(st), Left(st), ~Conn(st).loggedIn,
         scenario \in Scenarios, NEW h \in scenario.tenant, Len(Call(st).left) < Len(scenario.hosts),
         ~LookupMayFail => \A i \in 1..Tried(st) - 1 : Failed(i),
         LookupIsLast => NoneAsked(st) /\ Conn(st).alive
  PROVE  Works(st, RedirectToTenant(st, st.current, Last(st), h))
<1> DEFINE c == st.current
           u == CloseSilently(st, c)
           v == [u.conns[c] EXCEPT !.redirectType = "dbname"]
           t == [u EXCEPT !.conns[c] = v]
<1>1. c \in Conns(st) /\ Conn(st) = st.conns[c] /\ Last(st) > 0
  BY InUse, InHandFacts DEF InHand
<1>2. RedirectToTenant(st, c, Last(st), h) = Open(t, c, Last(st), h, "tenant")
  BY Zenon DEF RedirectToTenant
<1> HIDE DEF c
<1>3. /\ Fades(st, u) /\ Same(st, u)
      /\ st.conns[c].anchor # 0 => ~u.sockets[st.conns[c].anchor].listens
      /\ \/ ~st.conns[c].alive \/ st.conns[c].waiting \/ st.conns[c].anchor = 0
         \/ ~IsOpen(u, st.conns[c].anchor)
  BY <1>1, CloseSilentlyFades
<1> HIDE DEF u
<1>4. /\ u \in Client /\ Objects(u) /\ c \in Conns(u) /\ u.conns[c] \in Connection
      /\ u.conns[c].anchor = st.conns[c].anchor /\ u.conns[c].alive = st.conns[c].alive
  BY <1>1, <1>3, FadesObjects, ClientFacts DEF Fades, FadesConn, Same, Conns
<1>5. /\ v \in Connection /\ FadesConn(u.conns[c], v) /\ v.alive = u.conns[c].alive
      /\ v.anchor = u.conns[c].anchor
  BY <1>4 DEF Connection, FadesConn
<1> HIDE DEF v
<1>6. Fades(u, t) /\ t.sockets = u.sockets /\ t.conns[c] = v
  BY <1>4, <1>5, ConnFades
<1> HIDE DEF t
<1>7. Fades(st, t)
  BY <1>3, <1>6, FadesAgain
<1>8. /\ t \in Client /\ Objects(t) /\ t.current = c /\ Last(t) = Last(st) /\ Call(t) = Call(st)
      /\ Tried(t) = Tried(st) /\ InHand(t) /\ Left(t) /\ ~Conn(t).loggedIn
      /\ NoneAsked(st) => NoneAsked(t)
  BY <1>1, <1>7, FadesObjects, FadesKeeps DEF Fades, c
<1>9. Conn(t) = v
  BY <1>6, <1>8 DEF Conn
<1>10. ASSUME LookupIsLast
       PROVE  Ready(t)
  BY <1>1, <1>3, <1>4, <1>5, <1>6, <1>9, <1>10 DEF Ready
<1>11. Multi
  BY DEF Multi
<1>12. LookupIsLast /\ TasksStay => NoneOpen(t)
  <2>1. ~IsOpen(u, st.conns[c].anchor) => ~IsOpen(t, st.conns[c].anchor)
    BY <1>6 DEF IsOpen
  <2> QED BY <2>1, <1>1, <1>3, <1>7, <1>11, LeavesNone
<1>13. h \in Hosts /\ Reaches(t, h)
  BY <1>8, ScenarioFacts DEF Reaches
<1>14. Works(t, Open(t, t.current, Last(t), h, "tenant"))
  BY <1>8, <1>10, <1>12, <1>13, OpenWorks
<1> QED BY <1>2, <1>8, <1>14 DEF Works, c

\* The record of the call is changed as follows by its connection.
LEMMA PutCallConn ==
  ASSUME NEW st \in Client, Unanswered(st), NEW c \in Nat
  PROVE  LET t == [st EXCEPT !.attempts[Last(st)].conn = c]
         IN /\ OnlyCall(st, t) /\ Call(t).conn = c /\ Call(t).left = Call(st).left
            /\ Call(t).redirects = Call(st).redirects
<1> DEFINE k == Last(st)
           v == [st.attempts[k] EXCEPT !.conn = c]
           t == [st EXCEPT !.attempts[k] = v]
<1>1. k \in DOMAIN st.attempts /\ st.attempts[k] \in Attempt
  BY InHandFacts DEF Call
<1>2. /\ v \in Attempt /\ v.conn = c /\ v.left = st.attempts[k].left
      /\ v.redirects = st.attempts[k].redirects /\ v.calls = st.attempts[k].calls
      /\ v.outcome = st.attempts[k].outcome
  BY <1>1 DEF Attempt
<1> HIDE DEF v, k
<1>3. /\ t \in Client /\ DOMAIN t.attempts = DOMAIN st.attempts
      /\ t.current = st.current /\ t.host = st.host /\ t.used = st.used /\ t.sockets = st.sockets
      /\ t.conns = st.conns /\ t.immediates = st.immediates /\ t.crashed = st.crashed
      /\ t.attempts[k] = v /\ \A a \in DOMAIN st.attempts \ {k} : t.attempts[a] = st.attempts[a]
      /\ Len(t.attempts) = Len(st.attempts)
  BY <1>1, <1>2, PutAttempt
<1>4. t = [st EXCEPT !.attempts[Last(st)].conn = c]
  BY DEF k, v
<1> HIDE DEF t
<1>5. OnlyCall(st, t)
  BY <1>2, <1>3 DEF OnlyCall, SameObjects
<1>6. Call(t) = v /\ Call(st) = st.attempts[k]
  BY <1>3 DEF Call, Last, k
<1> QED BY <1>2, <1>3, <1>4, <1>5, <1>6

LEMMA OpenConnectionWorks ==
  ASSUME scenario \in Scenarios, NEW st \in Client, Objects(st), InHand(st), ~Conn(st).loggedIn,
         LookupIsLast => NoneAsked(st) /\ Ready(st) /\ Fresh(st),
         LookupIsLast /\ TasksStay => NoneOpen(st),
         RedirectIsFollowed /\ Call(st).redirects > 0 => ~scenario.isList /\ st.host = scenario.target
  PROVE  Works(st, OpenConnection(st, Last(st), st.current))
<1> DEFINE k == Last(st)
           c == st.current
           left == IF scenario.isList THEN scenario.hosts ELSE <<st.host>>
           t1 == [st EXCEPT !.attempts[k].conn = c]
           t2 == [t1 EXCEPT !.attempts[k].left = left]
<1>1. c \in Nat /\ st.host \in Hosts /\ Unanswered(st)
  BY ClientFacts DEF InHand
<1>2. left \in Seq(Hosts) /\ Len(left) = Len(scenario.hosts) /\ DOMAIN left = 1..Len(scenario.hosts)
      /\ \A i \in DOMAIN left : /\ left[i] = scenario.hosts[i] \/ left[i] = st.host
                                /\ ~scenario.isList => i = 1 /\ left[i] = st.host
                                /\ scenario.isList => left[i] = scenario.hosts[i]
  <2>1. CASE scenario.isList
    BY <2>1, ScenarioFacts
  <2>2. CASE ~scenario.isList
    <3>1. left = <<st.host>> /\ Len(scenario.hosts) = 1
      BY <2>2, ScenarioFacts
    <3> QED BY <3>1, <2>2, <1>1
  <2> QED BY <2>1, <2>2
<1>3. /\ OnlyCall(st, t1) /\ Call(t1).conn = c /\ Call(t1).left = Call(st).left
      /\ Call(t1).redirects = Call(st).redirects
  BY <1>1, PutCallConn
<1>4. OpenConnection(st, k, c) = TryConnect(t2, k)
  BY Zenon DEF OpenConnection
<1> HIDE DEF t1, left
<1>5. /\ t1 \in Client /\ SameObjects(st, t1) /\ Objects(t1) /\ InHand(t1) /\ Last(t1) = k
      /\ Unanswered(t1)
  BY <1>3, OnlyCallKeeps DEF OnlyCall, InHand
<1>6. /\ OnlyCall(t1, t2) /\ Call(t2).left = left /\ Call(t2).conn = Call(t1).conn
      /\ Call(t2).redirects = Call(t1).redirects
  BY <1>2, <1>5, PutLeft
<1> HIDE DEF t2
<1>7. /\ t2 \in Client /\ SameObjects(t1, t2) /\ Objects(t2) /\ InHand(t2) /\ Last(t2) = k
  BY <1>5, <1>6, OnlyCallKeeps DEF OnlyCall
<1>8. SameObjects(st, t2)
  BY <1>5, <1>7 DEF SameObjects
<1>9. t2.current = c /\ t2.host = st.host /\ Conn(t2) = Conn(st)
      /\ (NoneOpen(st) => NoneOpen(t2)) /\ (NoneAsked(st) => NoneAsked(t2))
      /\ (Fresh(st) => Fresh(t2)) /\ (Ready(st) => Ready(t2))
  BY <1>7, <1>8, ObjectsKept DEF SameObjects
<1>10. Tried(t2) = 0 /\ Len(scenario.hosts) \in Nat
  BY <1>2, <1>6, ScenarioFacts DEF Tried
<1>11. Left(t2)
  <2>1. ASSUME NEW i \in DOMAIN Call(t2).left
        PROVE  /\ Call(t2).left[i] \in {scenario.hosts[Tried(t2) + i], scenario.target}
               /\ RedirectIsFollowed /\ Call(t2).redirects > 0 => Call(t2).left[i] = scenario.target
    <3>1. /\ i \in Nat /\ Tried(t2) + i = i
          /\ ~scenario.isList => i = 1 /\ left[i] = st.host
          /\ scenario.isList => left[i] = scenario.hosts[i]
      BY <1>2, <1>6, <1>10
    <3>2. st.host \in {scenario.hosts[1], scenario.target}
      BY ScenarioFacts DEF Objects, Shape
    <3> QED BY <3>1, <3>2, <1>3, <1>6
  <2> QED BY <2>1, <1>2, <1>3, <1>6, <1>9, <1>10 DEF Left
<1>12. ~LookupMayFail => \A i \in 1..Tried(t2) : Failed(i)
  BY <1>10
<1>13. Tries(t2)
  BY <1>7, <1>9, <1>11, <1>12 DEF Tries
<1>14. Works(t2, TryConnect(t2, k))
  BY <1>7, <1>13, TryConnectWorks
<1> QED BY <1>4, <1>7, <1>14 DEF Works

\* A new Connection takes the place of one whose sockets have been left.
LEMMA NewConnKeeps ==
  ASSUME NEW st \in Client, Objects(st), NEW r \in {"none", "az", "dbname"},
         LookupIsLast /\ TasksStay => NoneOpen(st)
  PROVE  LET n == Len(st.conns) + 1
             t == [st EXCEPT !.conns = Append(@, NewConnection(r)), !.current = n]
         IN /\ t \in Client /\ Objects(t) /\ t.current = n /\ t.host = st.host
            /\ t.attempts = st.attempts
            /\ ~Conn(t).loggedIn /\ Ready(t) /\ Fresh(t)
            /\ (InHand(st) => InHand(t)) /\ (NoneAsked(st) => NoneAsked(t))
            /\ (NoneOpen(st) => NoneOpen(t))
<1> DEFINE n == Len(st.conns) + 1
           v == NewConnection(r)
           t == [st EXCEPT !.conns = Append(@, v), !.current = n]
<1>1. /\ v \in Connection /\ v.alive /\ v.anchor = 0 /\ ~v.loggedIn /\ v.receive = 0 /\ ~v.waiting
  BY DEF NewConnection, Connection
<1> HIDE DEF v
<1>2. /\ t \in Client /\ DOMAIN t.conns = DOMAIN st.conns \cup {n} /\ n \notin DOMAIN st.conns
      /\ n = Len(t.conns) /\ t.current = n
      /\ t.host = st.host /\ t.used = st.used /\ t.sockets = st.sockets
      /\ t.attempts = st.attempts /\ t.immediates = st.immediates /\ t.crashed = st.crashed
      /\ t.conns[n] = v /\ \A c \in DOMAIN st.conns : t.conns[c] = st.conns[c]
  BY <1>1, AddConn, ZenonT(40)
<1> HIDE DEF t, n
<1>3. /\ Sockets(t) = Sockets(st) /\ Conns(t) = Conns(st) \cup {n} /\ n \notin Conns(st)
      /\ Conn(t) = v /\ Last(t) = Last(st)
      /\ \A c \in Conns(st) : t.conns[c] = st.conns[c]
  BY <1>2 DEF Sockets, Conns, Conn, Last
<1>4. /\ \A s : IsOpening(t, s) <=> IsOpening(st, s)
      /\ \A s : IsOpen(t, s) <=> IsOpen(st, s)
  BY <1>2 DEF IsOpening, IsOpen
<1>5. \A s \in Sockets(st) : st.sockets[s].conn \in Conns(st) /\ t.sockets[s].conn # n
  BY <1>2, <1>3 DEF Objects, Shape
<1>6. Shape(t)
  <2>1. Shape(st)
    BY DEF Objects
  <2>2. ASSUME NEW s \in Sockets(t)
        PROVE  /\ t.sockets[s].conn \in Conns(t)
               /\ IsOpen(t, s) => t.conns[t.sockets[s].conn].anchor # 0
               /\ t.sockets[s].purpose = "lookup" => Multi
    BY <2>1, <1>2, <1>3, <1>4, <1>5 DEF Shape
  <2>3. ASSUME NEW c \in Conns(t)
        PROVE  /\ t.conns[c].anchor # 0 => /\ t.conns[c].anchor \in Sockets(t)
                                           /\ t.sockets[t.conns[c].anchor].conn = c
                                           /\ ~IsOpening(t, t.conns[c].anchor)
               /\ t.conns[c].loggedIn => t.conns[c].session /\ t.conns[c].anchor # 0
               /\ t.conns[c].waiting => Fault("tasks")
    BY <2>1, <1>1, <1>2, <1>3, <1>4 DEF Shape
  <2> QED BY <2>1, <2>2, <2>3, <1>2, <1>3 DEF Shape
<1>7. LookupIsLast => Anchored(t)
  BY <1>2, <1>3, <1>4, <1>5 DEF Objects, Anchored
<1>8. LookupIsLast /\ TasksStay => Single(t)
  BY <1>3, <1>4 DEF NoneOpen, Single
<1>9. Objects(t)
  BY <1>2, <1>6, <1>7, <1>8 DEF Objects
<1>10. ~Conn(t).loggedIn /\ Ready(t) /\ Fresh(t)
  BY <1>1, <1>2, <1>3, <1>5 DEF Ready, Fresh
<1>11. (NoneAsked(st) => NoneAsked(t)) /\ (NoneOpen(st) => NoneOpen(t))
  BY <1>2, <1>3, <1>4 DEF NoneAsked, NoneOpen
<1>12. InHand(st) => InHand(t)
  BY <1>1, <1>2, <1>3, <1>4
  DEF InHand, Unanswered, Answered, NoImmediate, NoOpening, NoLookup, NoLogin
<1>13. /\ t \in Client /\ Objects(t) /\ t.current = n /\ t.host = st.host
       /\ t.attempts = st.attempts
       /\ ~Conn(t).loggedIn /\ Ready(t) /\ Fresh(t)
       /\ (InHand(st) => InHand(t)) /\ (NoneAsked(st) => NoneAsked(t))
       /\ (NoneOpen(st) => NoneOpen(t))
  BY <1>2, <1>9, <1>10, <1>11, <1>12
<1> QED BY <1>13, Zenon DEF t, n, v

LEMMA PutCallRedirect ==
  ASSUME NEW st \in Client, Unanswered(st), NEW b \in BOOLEAN
  PROVE  LET t == [st EXCEPT !.attempts[Last(st)].redirects = @ + 1,
                             !.attempts[Last(st)].noToken = b]
         IN OnlyCall(st, t) /\ Call(t).conn = Call(st).conn /\ Call(t).left = Call(st).left
<1> DEFINE k == Last(st)
           v == [st.attempts[k] EXCEPT !.redirects = @ + 1]
           t1 == [st EXCEPT !.attempts[k] = v]
           w == [t1.attempts[k] EXCEPT !.noToken = b]
           t2 == [t1 EXCEPT !.attempts[k] = w]
<1>1. k \in DOMAIN st.attempts /\ st.attempts[k] \in Attempt
  BY InHandFacts DEF Call
<1>2. /\ v \in Attempt /\ v.conn = st.attempts[k].conn /\ v.left = st.attempts[k].left
      /\ v.calls = st.attempts[k].calls /\ v.outcome = st.attempts[k].outcome
  BY <1>1 DEF Attempt
<1> HIDE DEF v, k
<1>3. /\ t1 \in Client /\ DOMAIN t1.attempts = DOMAIN st.attempts
      /\ t1.current = st.current /\ t1.host = st.host /\ t1.used = st.used /\ t1.sockets = st.sockets
      /\ t1.conns = st.conns /\ t1.immediates = st.immediates /\ t1.crashed = st.crashed
      /\ t1.attempts[k] = v /\ \A a \in DOMAIN st.attempts \ {k} : t1.attempts[a] = st.attempts[a]
      /\ Len(t1.attempts) = Len(st.attempts)
  BY <1>1, <1>2, PutAttempt
<1> HIDE DEF t1
<1>4. /\ w \in Attempt /\ w.conn = v.conn /\ w.left = v.left /\ w.calls = v.calls
      /\ w.outcome = v.outcome
  BY <1>2, <1>3 DEF Attempt
<1> HIDE DEF w
<1>5. /\ t2 \in Client /\ DOMAIN t2.attempts = DOMAIN t1.attempts
      /\ t2.current = t1.current /\ t2.host = t1.host /\ t2.used = t1.used /\ t2.sockets = t1.sockets
      /\ t2.conns = t1.conns /\ t2.immediates = t1.immediates /\ t2.crashed = t1.crashed
      /\ t2.attempts[k] = w /\ \A a \in DOMAIN t1.attempts \ {k} : t2.attempts[a] = t1.attempts[a]
      /\ Len(t2.attempts) = Len(t1.attempts)
  BY <1>1, <1>3, <1>4, PutAttempt
<1>6. t2 = [st EXCEPT !.attempts[Last(st)].redirects = @ + 1, !.attempts[Last(st)].noToken = b]
  BY Zenon DEF k, v, w, t1
<1> HIDE DEF t2
<1>7. OnlyCall(st, t2)
  <2>1. SameObjects(st, t2)
    BY <1>3, <1>5 DEF SameObjects
  <2>2. \A a \in DOMAIN st.attempts : /\ t2.attempts[a].calls = st.attempts[a].calls
                                      /\ t2.attempts[a].outcome = st.attempts[a].outcome
    BY <1>2, <1>3, <1>4, <1>5
  <2> QED BY <2>1, <2>2, <1>3, <1>5 DEF OnlyCall
<1>8. Call(t2) = w /\ Call(st) = st.attempts[k]
  BY <1>3, <1>5 DEF Call, Last, k
<1> QED BY <1>2, <1>4, <1>6, <1>7, <1>8

LEMMA RedirectWorks ==
  ASSUME scenario \in Scenarios, NEW st \in Client, Objects(st), InHand(st),
         scenario.target # None, MayRedirect(st),
         LookupIsLast => NoneAsked(st) /\ Conn(st).alive
  PROVE  Works(st, Redirect(st, Last(st)))
<1> DEFINE a == Last(st)
           c == st.current
           st1 == [st EXCEPT !.host = scenario.target]
           left == CloseSilently(st1, c)
           n == Len(left.conns) + 1
           t1 == [left EXCEPT !.conns = Append(@, NewConnection("az")), !.current = n]
           t2 == [t1 EXCEPT !.attempts[a].redirects = @ + 1, !.attempts[a].noToken = st.used]
<1>1. c \in Conns(st) /\ Conn(st) = st.conns[c] /\ Last(st) > 0 /\ st.used \in BOOLEAN
  BY InUse, InHandFacts, ClientFacts DEF InHand
<1>2. scenario.target \in Hosts
  BY ScenarioFacts
<1>3. /\ st1 \in Client /\ st1.host = scenario.target /\ st1.current = st.current
      /\ st1.sockets = st.sockets /\ st1.conns = st.conns /\ st1.attempts = st.attempts
      /\ st1.immediates = st.immediates /\ st1.crashed = st.crashed
  BY <1>2, PutHost
<1>4. Redirect(st, a) = OpenConnection(t2, a, t2.current)
  BY Zenon DEF Redirect
<1> HIDE DEF st1, c
<1>5. Fades(st, st1) /\ Sockets(st1) = Sockets(st) /\ Conns(st1) = Conns(st)
  <2>1. Sockets(st1) = Sockets(st) /\ Conns(st1) = Conns(st)
    BY <1>3 DEF Sockets, Conns
  <2>2. Lives(st, st1)
    BY <1>3 DEF Lives
  <2>3. \A s \in Sockets(st) : FadesSocket(st.sockets[s], st1.sockets[s])
    BY <1>3 DEF FadesSocket
  <2>4. \A x \in Conns(st) : FadesConn(st.conns[x], st1.conns[x])
    BY <1>3 DEF FadesConn
  <2> QED BY <2>1, <2>2, <2>3, <2>4, <1>3 DEF Fades
<1>6. Objects(st1) /\ c \in Conns(st1)
  BY <1>1, <1>5, FadesObjects
<1>7. /\ Fades(st1, left) /\ Same(st1, left)
      /\ \/ ~st1.conns[c].alive \/ st1.conns[c].waiting \/ st1.conns[c].anchor = 0
         \/ ~IsOpen(left, st1.conns[c].anchor)
  BY <1>3, <1>6, CloseSilentlyFades
<1> HIDE DEF left
<1>8. Fades(st, left) /\ left.host = scenario.target
  BY <1>3, <1>5, <1>7, FadesAgain DEF Same
<1>9. /\ left \in Client /\ Objects(left) /\ InHand(left) /\ Last(left) = a
      /\ left.attempts = st.attempts /\ (NoneAsked(st) => NoneAsked(left))
  BY <1>8, FadesObjects, FadesKeeps DEF Fades
<1>10. LookupIsLast /\ TasksStay => NoneOpen(left)
  BY <1>1, <1>3, <1>7, <1>8, LeavesNone
<1>11. /\ t1 \in Client /\ Objects(t1) /\ t1.current = n /\ t1.host = left.host
       /\ t1.attempts = left.attempts
       /\ ~Conn(t1).loggedIn /\ Ready(t1) /\ Fresh(t1)
       /\ (InHand(left) => InHand(t1)) /\ (NoneAsked(left) => NoneAsked(t1))
       /\ (NoneOpen(left) => NoneOpen(t1))
  BY <1>9, <1>10, NewConnKeeps, ZenonT(40)
<1> HIDE DEF t1, n
<1>12. Last(t1) = a /\ Unanswered(t1)
  BY <1>9, <1>11 DEF Last, InHand
<1>13. OnlyCall(t1, t2)
  <2> DEFINE u == [t1 EXCEPT !.attempts[Last(t1)].redirects = @ + 1,
                             !.attempts[Last(t1)].noToken = st.used]
  <2>1. OnlyCall(t1, u)
    BY <1>1, <1>11, <1>12, PutCallRedirect, ZenonT(40)
  <2>2. u = t2
    BY <1>12, Zenon
  <2> QED BY <2>1, <2>2, Zenon
<1> HIDE DEF t2
<1>14. /\ t2 \in Client /\ Objects(t2) /\ InHand(t2) /\ Last(t2) = a /\ SameObjects(t1, t2)
  BY <1>9, <1>11, <1>12, <1>13, OnlyCallKeeps DEF OnlyCall
<1>15. t2.host = scenario.target /\ ~Conn(t2).loggedIn /\ Ready(t2) /\ Fresh(t2)
       /\ (NoneAsked(t1) => NoneAsked(t2)) /\ (NoneOpen(t1) => NoneOpen(t2))
  BY <1>8, <1>11, <1>14, ObjectsKept DEF SameObjects
<1>16. RedirectIsFollowed => ~scenario.isList
  BY DEF RedirectIsFollowed
<1>17. Works(t2, OpenConnection(t2, Last(t2), t2.current))
  BY <1>9, <1>10, <1>11, <1>14, <1>15, <1>16, OpenConnectionWorks
<1> QED BY <1>4, <1>14, <1>17 DEF Works

-----------------------------------------------------------------------------
(* The calls of user code *)

\* What ConnectAnswers says of one step.
Tells(st, t) ==
  \A a \in DOMAIN t.attempts :
    LET was == IF a \in DOMAIN st.attempts THEN st.attempts[a].calls ELSE 0
        now == t.attempts[a]
    IN now.calls # was =>
         /\ was = 0 /\ now.calls = 1
         /\ now.outcome = "ok" =>
              /\ ReadyState(t, t.current) = "connected"
              /\ t.conns[t.current].loggedIn
              /\ RedirectIsFollowed /\ now.redirects > 0 =>
                   Anchor(t, t.current).host \in {scenario.target} \cup scenario.tenant

LEMMA TellsSame ==
  ASSUME NEW st, NEW t, t.attempts = st.attempts
  PROVE  Tells(st, t)
  BY DEF Tells

LEMMA GoodCalls ==
  ASSUME NEW st, Good(st)
  PROVE  st \in Client /\ (Unanswered(st) \/ Answered(st, Last(st)))
  BY DEF Good, Stage, Rests, Deferred, Lost, InHand, Opens, Looks, LogsIn

\* The client is connected, by a server that the last connect() was redirected to if it was.
Arrived(st) ==
  /\ ReadyState(st, st.current) = "connected" /\ st.conns[st.current].loggedIn
  /\ RedirectIsFollowed /\ Call(st).redirects > 0 =>
       Anchor(st, st.current).host \in {scenario.target} \cup scenario.tenant

LEMMA ArrivedTells ==
  ASSUME NEW st \in Client, NEW t, Good(t), Answered(st, Last(t) - 1), Last(t) > 0,
         Last(t) = Last(st) \/ Last(t) = Last(st) + 1, Call(t).outcome = "ok" => Arrived(t)
  PROVE  Tells(st, t)
<1>1. /\ t \in Client /\ DOMAIN t.attempts = 1..Last(t) /\ Last(t) \in Nat
      /\ DOMAIN st.attempts = 1..Last(st) /\ Last(st) \in Nat
  BY GoodCalls, ClientFacts DEF Last
<1> SUFFICES ASSUME NEW a \in DOMAIN t.attempts,
                    t.attempts[a].calls # (IF a \in DOMAIN st.attempts THEN st.attempts[a].calls ELSE 0)
             PROVE  /\ (IF a \in DOMAIN st.attempts THEN st.attempts[a].calls ELSE 0) = 0
                    /\ t.attempts[a].calls = 1
                    /\ t.attempts[a].outcome = "ok" => Arrived(t) /\ t.attempts[a] = Call(t)
  BY DEF Tells, Arrived
<1>2. a \in Nat /\ a > 0 /\ a <= Last(t)
  BY <1>1
<1>3. Unanswered(t) \/ Answered(t, Last(t))
  BY GoodCalls
<1>4. CASE a < Last(t)
  <2>1. a \in DOMAIN st.attempts /\ a <= Last(t) - 1
    BY <1>1, <1>2, <1>4
  <2>2. st.attempts[a].calls = 1
    BY <2>1 DEF Answered
  <2>3. t.attempts[a].calls = 1
    BY <2>1, <1>2, <1>3 DEF Unanswered, Answered
  <2>4. FALSE
    BY <2>1, <2>2, <2>3
  <2> QED BY <2>4
<1>5. CASE a = Last(t)
  <2>1. ~(a <= Last(t) - 1) /\ a <= Last(t)
    BY <1>1, <1>5
  <2>2. a \in DOMAIN st.attempts => st.attempts[a].calls = 0
    BY <2>1 DEF Answered
  <2>3. t.attempts[a].calls = 0 \/ t.attempts[a].calls = 1
    BY <2>1, <1>3 DEF Unanswered, Answered
  <2> QED BY <2>2, <2>3, <1>5 DEF Call
<1> QED BY <1>2, <1>4, <1>5, <1>1

LEMMA WorksTells ==
  ASSUME NEW st \in Client, NEW t, Good(t), Answered(st, Last(t) - 1), Last(t) > 0,
         Last(t) = Last(st) \/ Last(t) = Last(st) + 1, Call(t).outcome # "ok"
  PROVE  Tells(st, t)
BY ArrivedTells

LEMMA RestsWhenAnswered ==
  ASSUME NEW st \in Client, Stage(st), Pending(st) = {}
  PROVE  Rests(st)
<1>1. ASSUME Unanswered(st)
      PROVE  FALSE
  BY <1>1, InHandFacts DEF Call, Pending
<1> QED BY <1>1 DEF Stage, Deferred, Lost, InHand, Opens, Looks, LogsIn

\* A call is added.
LEMMA NewCall ==
  ASSUME NEW st \in Client, Objects(st), Rests(st), NEW b \in BOOLEAN, NEW v \in Attempt,
         v.calls = 0, v.outcome = "none"
  PROVE  LET t == [st EXCEPT !.used = b, !.attempts = Append(@, v)]
         IN /\ t \in Client /\ Objects(t) /\ InHand(t) /\ SameObjects(st, t)
            /\ Last(t) = Last(st) + 1 /\ Last(t) = Len(st.attempts) + 1 /\ Call(t) = v
<1> DEFINE t1 == [st EXCEPT !.used = b]
           q == Append(st.attempts, v)
           t == [t1 EXCEPT !.attempts = q]
<1>1. st.attempts \in Seq(Attempt) /\ Len(st.attempts) \in Nat
  BY ClientFacts
<1>2. /\ q \in Seq(Attempt) /\ Len(q) = Len(st.attempts) + 1 /\ q[Len(st.attempts) + 1] = v
      /\ \A a \in 1..Len(st.attempts) : q[a] = st.attempts[a]
  BY <1>1, AppendProperties
<1>3. DOMAIN q = 1..Len(st.attempts) + 1
  BY <1>2, LenProperties
<1>4. /\ t1 \in Client /\ t1.current = st.current /\ t1.host = st.host
      /\ t1.sockets = st.sockets /\ t1.conns = st.conns /\ t1.attempts = st.attempts
      /\ t1.immediates = st.immediates /\ t1.crashed = st.crashed
  BY PutUsed
<1>5. t = [st EXCEPT !.used = b, !.attempts = Append(@, v)]
  <2>1. [st EXCEPT !.used = b, !.attempts = Append(@, v)]
          = [t1 EXCEPT !.attempts = Append(t1.attempts, v)]
    BY Zenon
  <2> HIDE DEF t1
  <2> QED BY <2>1, <1>4
<1> HIDE DEF q, t1
<1>6. /\ t \in Client /\ t.attempts = q /\ t.current = st.current /\ t.host = st.host
      /\ t.sockets = st.sockets /\ t.conns = st.conns
      /\ t.immediates = st.immediates /\ t.crashed = st.crashed
  BY <1>2, <1>4 DEF Client
<1> HIDE DEF t
<1>7. SameObjects(st, t)
  BY <1>6 DEF SameObjects
<1>8. Last(t) = Len(st.attempts) + 1 /\ Last(st) = Len(st.attempts) /\ Call(t) = v
  BY <1>2, <1>6 DEF Last, Call
<1>9. Unanswered(t)
  <2> SUFFICES ASSUME NEW a \in DOMAIN t.attempts
               PROVE  /\ t.attempts[a].calls = IF a <= Last(t) - 1 THEN 1 ELSE 0
                      /\ t.attempts[a].outcome = "none" <=> a > Last(t) - 1
    BY <1>1, <1>8 DEF Unanswered, Answered
  <2>1. a \in 1..Len(st.attempts) + 1
    BY <1>3, <1>6
  <2>2. CASE a = Len(st.attempts) + 1
    BY <2>2, <1>1, <1>2, <1>6, <1>8
  <2>3. CASE a # Len(st.attempts) + 1
    <3>1. a \in DOMAIN st.attempts /\ a <= Last(st) /\ ~(a > Last(st)) /\ a <= Last(t) - 1
          /\ ~(a > Last(t) - 1) /\ t.attempts[a] = st.attempts[a]
      BY <2>1, <2>3, <1>1, <1>2, <1>6, <1>8, ClientFacts, SMTT(30)
    <3>2. st.attempts[a].calls = 1 /\ st.attempts[a].outcome # "none"
      BY <3>1 DEF Rests, Answered
    <3> QED BY <3>1, <3>2
  <2> QED BY <2>2, <2>3
<1>10. InHand(t)
  BY <1>6, <1>7, <1>9, ObjectsKept DEF Rests, InHand, NoImmediate
<1>11. Objects(t)
  <2>1. ASSUME NEW a \in DOMAIN t.attempts, t.attempts[a].outcome = "unopened"
        PROVE  a \in DOMAIN st.attempts /\ t.attempts[a] = st.attempts[a]
    <3>1. a # Len(st.attempts) + 1
      BY <2>1, <1>2, <1>6
    <3> QED BY <3>1, <2>1, <1>1, <1>2, <1>3, <1>6, ClientFacts
  <2>2. ~LookupMayFail => \A a \in DOMAIN t.attempts : t.attempts[a].outcome = "unopened" => AllDown
    BY <2>1 DEF Objects
  <2> QED BY <2>2, <1>6, <1>7, ObjectsKept DEF Objects
<1> QED BY <1>5, <1>6, <1>7, <1>8, <1>10, <1>11

LEMMA UserConnectKeeps ==
  ASSUME Inv, ~client.crashed, Patient, UserConnect
  PROVE  Good(client') /\ Tells(client, client')
<1> DEFINE v == [conn |-> client.current, left |-> <<>>, redirects |-> 0,
                 noToken |-> client.used, calls |-> 0, outcome |-> "none"]
           st == [client EXCEPT !.used = Fault("token"), !.attempts = Append(@, v)]
           a == Len(client.attempts) + 1
           rs == ReadyState(client, client.current)
           n == Len(st.conns) + 1
           new == [st EXCEPT !.conns = Append(@, NewConnection("none")), !.current = n]
<1>1. /\ scenario \in Scenarios /\ client \in Client /\ Objects(client) /\ Stage(client)
      /\ Pending(client) = {}
  BY DEF Inv, Good, Patient, UserConnect
<1>2. Rests(client)
  BY <1>1, RestsWhenAnswered
<1>3. v \in Attempt /\ v.calls = 0 /\ v.outcome = "none" /\ v.redirects = 0
  <2>1. <<>> \in Seq(Hosts) /\ 0 \in Nat /\ client.current \in Nat /\ client.used \in BOOLEAN
    BY <1>1, ClientFacts
  <2> QED BY <2>1 DEF Attempt
<1>4. client' \in CASE rs = "new" -> {OpenConnection(st, a, st.current)}
                    [] rs = "closed" -> {OpenConnection(new, a, new.current)}
                    [] rs = "disconnected" -> Login(st, a)
                    [] OTHER -> {ToldLater(st, a)}
  BY Zenon DEF UserConnect
<1> HIDE DEF v
<1>5. /\ st \in Client /\ Objects(st) /\ InHand(st) /\ SameObjects(client, st)
      /\ Last(st) = Last(client) + 1 /\ Last(st) = a /\ Call(st) = v
  <2>1. Fault("token") \in BOOLEAN
    BY DEF Fault
  <2> QED BY <2>1, <1>1, <1>2, <1>3, NewCall, ZenonT(40)
<1> HIDE DEF st, a, rs
<1>6. /\ st.current = client.current /\ Conn(st) = Conn(client)
      /\ LookupIsLast => NoneAsked(st)
  BY <1>1, <1>2, <1>5, ObjectsKept DEF SameObjects, Rests
<1>7. /\ st.current \in Conns(st) /\ Conn(st) = st.conns[st.current]
      /\ Conn(st).anchor # 0 => Conn(st).anchor \in Sockets(st)
                                /\ st.sockets[Conn(st).anchor].conn = st.current
      /\ Conn(st).loggedIn => Conn(st).session /\ Conn(st).anchor # 0
  BY <1>5, InUse DEF Objects, Shape
<1>8. /\ rs = "new" => Conn(st).alive /\ Conn(st).anchor = 0
      /\ rs = "closed" => \/ ~Conn(st).alive
                          \/ Conn(st).anchor # 0 /\ ~IsOpen(st, Conn(st).anchor)
      /\ rs = "disconnected" => /\ Conn(st).alive /\ Conn(st).anchor # 0
                                /\ IsOpen(st, Conn(st).anchor) /\ ~Conn(st).session
  <2>1. rs = ReadyState(st, st.current)
    BY <1>5 DEF rs, ReadyState, Anchor, SameObjects
  <2>2. rs = "new" => Conn(st).alive /\ Conn(st).anchor = 0
    BY <2>1, <1>7 DEF ReadyState
  <2>3. ASSUME Conn(st).alive, Conn(st).anchor = 0 \/ IsOpen(st, Conn(st).anchor)
        PROVE  rs # "closed"
    <3>1. CASE Conn(st).anchor = 0
      BY <3>1, <2>1, <2>3, <1>7 DEF ReadyState
    <3>2. CASE Conn(st).anchor # 0
      <4>1. rs \in {"connecting", "connected", "disconnected"}
        BY <3>2, <2>1, <2>3, <1>7 DEF ReadyState, Anchor, IsOpen
      <4> QED BY <4>1
    <3> QED BY <3>1, <3>2
  <2>4. rs = "disconnected" => /\ Conn(st).alive /\ Conn(st).anchor # 0
                               /\ IsOpen(st, Conn(st).anchor) /\ ~Conn(st).session
    BY <2>1, <1>7 DEF ReadyState, Anchor, IsOpen
  <2> QED BY <2>2, <2>3, <2>4
<1>9. \A t : Works(st, t) => Good(t) /\ Tells(client, t)
  <2> SUFFICES ASSUME NEW t, Works(st, t)
               PROVE  Good(t) /\ Tells(client, t)
    OBVIOUS
  <2>1. Good(t) /\ Last(t) = Last(client) + 1 /\ Call(t).outcome # "ok"
    BY <1>5 DEF Works
  <2>2. Last(client) \in Nat
    BY <1>1, ClientFacts DEF Last
  <2>3. Answered(client, Last(t) - 1)
    BY <2>1, <2>2, <1>2 DEF Rests
  <2> QED BY <2>1, <2>2, <2>3, <1>1, WorksTells
<1>10. ~(RedirectIsFollowed /\ Call(st).redirects > 0)
  BY <1>3, <1>5
<1>11. CASE rs = "new"
  <2>1. ~Conn(st).loggedIn /\ Ready(st)
    BY <1>7, <1>8, <1>11 DEF Ready
  <2>2. Fresh(st)
    BY <1>5, <1>7, <1>8, <1>11 DEF Objects, Shape, Fresh
  <2>3. LookupIsLast /\ TasksStay => NoneOpen(st)
    <3>1. 0 \notin Sockets(st)
      BY <1>5, ClientFacts DEF Sockets
    <3> QED BY <3>1, <1>5, <1>8, <1>11 DEF Objects, Single, NoneOpen
  <2>4. Works(st, OpenConnection(st, Last(st), st.current))
    BY <2>1, <2>2, <2>3, <1>1, <1>5, <1>6, <1>10, OpenConnectionWorks
  <2> QED BY <2>4, <1>4, <1>5, <1>9, <1>11
<1>12. CASE rs = "closed"
  <2>1. LookupIsLast /\ TasksStay => NoneOpen(st)
    <3> SUFFICES ASSUME LookupIsLast, TasksStay, NEW s \in Sockets(st), IsOpen(st, s)
                 PROVE  FALSE
      BY DEF NoneOpen
    <3>1. s = Conn(st).anchor /\ s # 0
      BY <1>5, ClientFacts DEF Objects, Single, Sockets
    <3>2. Conn(st).alive
      BY <3>1, <1>5, <1>7 DEF Objects, Anchored
    <3> QED BY <3>1, <3>2, <1>8, <1>12
  <2>2. /\ new \in Client /\ Objects(new) /\ new.current = n /\ new.host = st.host
        /\ new.attempts = st.attempts
        /\ ~Conn(new).loggedIn /\ Ready(new) /\ Fresh(new)
        /\ (InHand(st) => InHand(new)) /\ (NoneAsked(st) => NoneAsked(new))
        /\ (NoneOpen(st) => NoneOpen(new))
    BY <2>1, <1>5, NewConnKeeps, ZenonT(40)
  <2> HIDE DEF new
  <2>3. Last(new) = Last(st) /\ Call(new) = Call(st)
    BY <2>2 DEF Last, Call
  <2>4. Works(new, OpenConnection(new, Last(new), new.current))
    BY <2>1, <2>2, <2>3, <1>1, <1>5, <1>6, <1>10, OpenConnectionWorks
  <2>5. Works(st, OpenConnection(new, Last(st), new.current))
    BY <2>3, <2>4 DEF Works
  <2> QED BY <2>5, <1>4, <1>5, <1>9, <1>12
<1>13. CASE rs = "disconnected"
  <2>1. ~Conn(st).loggedIn /\ Conn(st).alive /\ Conn(st).anchor # 0 /\ IsOpen(st, Conn(st).anchor)
    BY <1>7, <1>8, <1>13
  <2>2. \A t \in Login(st, Last(st)) : Works(st, t)
    BY <2>1, <1>5, <1>6, <1>10, LoginWorks DEF Followed
  <2> QED BY <2>2, <1>4, <1>5, <1>9, <1>13
<1>14. CASE rs \notin {"new", "closed", "disconnected"}
  <2>1. Works(st, ToldLater(st, Last(st)))
    BY <1>5, <1>6, ToldLaterWorks
  <2> QED BY <2>1, <1>4, <1>5, <1>9, <1>14
<1> QED BY <1>11, <1>12, <1>13, <1>14

LEMMA UserCloseKeeps ==
  ASSUME Inv, ~client.crashed, Patient, UserClose
  PROVE  Good(client') /\ Tells(client, client')
<1>1. /\ client \in Client /\ Objects(client) /\ Stage(client) /\ Pending(client) = {}
      /\ client' = Close(client, client.current)
  BY DEF Inv, Good, Patient, UserClose
<1>2. Rests(client) /\ client.current \in Conns(client)
  BY <1>1, RestsWhenAnswered, InUse
<1>3. Fades(client, client') /\ Same(client, client')
  BY <1>1, <1>2, CloseFades
<1>4. Steady(client, client')
  BY <1>2, <1>3 DEF Steady, Same, Rests, NoneAsked
<1> QED BY <1>1, <1>3, <1>4, SteadyKeeps, TellsSame DEF Fades

LEMMA UserEnqueueKeeps ==
  ASSUME Inv, ~client.crashed, UserEnqueue
  PROVE  Good(client') /\ Tells(client, client')
<1> DEFINE c == client.current
           v == [client.conns[c] EXCEPT !.waiting = TRUE]
           t == [client EXCEPT !.conns[c] = v]
<1>1. client \in Client /\ Objects(client) /\ Stage(client) /\ Fault("tasks") /\ client' = t
  BY DEF Inv, Good, UserEnqueue
<1>2. c \in Conns(client) /\ client.conns[c] \in Connection
  BY <1>1, InUse
<1>3. /\ v \in Connection /\ FadesConn(client.conns[c], v) /\ v.alive = client.conns[c].alive
      /\ v.receive = client.conns[c].receive
  BY <1>1, <1>2 DEF Connection, FadesConn
<1> HIDE DEF v, c
<1>4. /\ Fades(client, t) /\ t.sockets = client.sockets
      /\ t.conns[c] = v /\ \A x \in Conns(client) \ {c} : t.conns[x] = client.conns[x]
  BY <1>1, <1>2, <1>3, ConnFades
<1> HIDE DEF t
<1>5. Steady(client, t)
  BY <1>3, <1>4 DEF Steady, IsOpening, IsOpen
<1> QED BY <1>1, <1>4, <1>5, SteadyKeeps, TellsSame DEF Fades

LEMMA ImmediateKeeps ==
  ASSUME Inv, ~client.crashed, Immediate
  PROVE  Good(client') /\ Tells(client, client')
<1> DEFINE t == [client EXCEPT !.immediates = Tail(@)]
<1>1. /\ client \in Client /\ Objects(client) /\ Stage(client) /\ client.immediates # <<>>
      /\ client' = Told(t, Head(client.immediates), "refused")
  BY DEF Inv, Good, Immediate
<1>2. Deferred(client)
  BY <1>1 DEF Stage, Rests, Lost, InHand, Opens, Looks, LogsIn, NoImmediate
<1>3. /\ Head(client.immediates) = Last(client) /\ Tail(client.immediates) = <<>>
      /\ Tail(client.immediates) \in Seq(Nat)
  BY <1>2 DEF Deferred
<1>4. /\ t \in Client /\ t.immediates = <<>> /\ t.current = client.current /\ t.host = client.host
      /\ t.sockets = client.sockets /\ t.conns = client.conns
      /\ t.attempts = client.attempts /\ t.crashed = client.crashed
  BY <1>1, <1>3, PutImmediates
<1> HIDE DEF t
<1>5. SameObjects(client, t) /\ Last(t) = Last(client) /\ Call(t) = Call(client)
  BY <1>4 DEF SameObjects, Last, Call
<1>6. Objects(t)
  BY <1>1, <1>4, <1>5, ObjectsKept DEF Objects
<1>7. InHand(t) /\ (LookupIsLast => NoneAsked(t)) /\ Unanswered(client)
  <2>1. Unanswered(t) /\ NoImmediate(t)
    BY <1>2, <1>4, <1>5 DEF Deferred, Unanswered, Answered, NoImmediate
  <2> QED BY <2>1, <1>1, <1>2, <1>4, <1>5, ObjectsKept DEF Deferred, InHand
<1>8. /\ Good(client') /\ Last(client') = Last(client) /\ Call(client').outcome = "refused"
  <2>1. "refused" \in Outcomes
    BY DEF Outcomes
  <2> QED BY <2>1, <1>1, <1>3, <1>4, <1>5, <1>6, <1>7, TellWorks
<1>9. Tells(client, client')
  BY <1>1, <1>7, <1>8, WorksTells DEF Unanswered
<1> QED BY <1>8, <1>9

\* A connect() in hand is worked on.
LEMMA WorksInHand ==
  ASSUME NEW st \in Client, NEW u, Unanswered(st), Last(u) = Last(st), NEW t, Works(u, t)
  PROVE  Good(t) /\ Tells(st, t)
<1>1. Good(t) /\ Last(t) = Last(st) /\ Call(t).outcome # "ok"
  BY DEF Works
<1> QED BY <1>1, WorksTells DEF Unanswered

LEMMA AskedHandled ==
  ASSUME NEW st \in Client, Objects(st), Stage(st), LookupIsLast,
         NEW s \in Sockets(st), IsOpen(st, s), st.sockets[s].asked
  PROVE  /\ Looks(st, s) \/ LogsIn(st, s)
         /\ s = Conn(st).anchor /\ Conn(st).alive /\ ~Conn(st).loggedIn
         /\ st.sockets[s].conn = st.current
         /\ \A x \in Sockets(st) : IsOpen(st, x) /\ st.sockets[x].asked => x = s
<1>1. ~NoneAsked(st)
  BY DEF NoneAsked
<1>2. PICK x \in Sockets(st) : Looks(st, x) \/ LogsIn(st, x)
  BY <1>1 DEF Stage, Rests, Deferred, Lost, Opens
<1>3. OnlyAsked(st, x) /\ x = Conn(st).anchor /\ ~Conn(st).loggedIn
  BY <1>2 DEF Looks, LogsIn
<1>4. s = x /\ \A y \in Sockets(st) : IsOpen(st, y) /\ st.sockets[y].asked => y = s
  BY <1>3 DEF OnlyAsked
<1>5. Conn(st).anchor # 0 /\ st.current \in Conns(st) /\ Conn(st) = st.conns[st.current]
  BY <1>3, ClientFacts, InUse DEF Sockets
<1>6. st.sockets[s].conn = st.current
  BY <1>3, <1>4, <1>5 DEF Objects, Shape
<1>7. Conn(st).alive
  BY <1>3, <1>4, <1>5, <1>6 DEF Objects, Anchored
<1> QED BY <1>2, <1>3, <1>4, <1>6, <1>7

LEMMA DrainKeeps ==
  ASSUME Inv, ~client.crashed, NEW c \in DOMAIN client.conns, Drain(c)
  PROVE  Good(client') /\ Tells(client, client')
<1> DEFINE u == [client.conns[c] EXCEPT !.waiting = FALSE]
           t1 == [client EXCEPT !.conns[c] = u]
           v == [t1.conns[c] EXCEPT !.closeOnDrain = FALSE]
           t2 == [t1 EXCEPT !.conns[c] = v]
<1>1. /\ client \in Client /\ Objects(client) /\ Stage(client) /\ client.conns[c].loggedIn
      /\ client' = Destroy(t2, c) \/ client' = t2
  BY Zenon DEF Inv, Good, Drain
<1>2. c \in Conns(client) /\ client.conns[c] \in Connection
  BY <1>1, ClientFacts DEF Conns
<1>3. /\ u \in Connection /\ FadesConn(client.conns[c], u) /\ u.alive = client.conns[c].alive
      /\ u.receive = client.conns[c].receive
  BY <1>2 DEF Connection, FadesConn
<1> HIDE DEF u
<1>4. /\ Fades(client, t1) /\ t1.sockets = client.sockets
      /\ t1.conns[c] = u /\ \A x \in Conns(client) \ {c} : t1.conns[x] = client.conns[x]
  BY <1>1, <1>2, <1>3, ConnFades
<1> HIDE DEF t1
<1>5. t1 \in Client /\ Objects(t1) /\ Conns(t1) = Conns(client)
  BY <1>1, <1>4, FadesObjects DEF Fades
<1>6. /\ v \in Connection /\ FadesConn(t1.conns[c], v) /\ v.alive = t1.conns[c].alive
      /\ v.receive = t1.conns[c].receive
  BY <1>3, <1>4 DEF Connection, FadesConn
<1> HIDE DEF v
<1>7. /\ Fades(t1, t2) /\ t2.sockets = t1.sockets
      /\ t2.conns[c] = v /\ \A x \in Conns(t1) \ {c} : t2.conns[x] = t1.conns[x]
  BY <1>2, <1>5, <1>6, ConnFades
<1> HIDE DEF t2
<1>8. Fades(client, t2) /\ t2 \in Client /\ Objects(t2) /\ c \in Conns(t2)
  BY <1>1, <1>2, <1>4, <1>5, <1>7, FadesAgain, FadesObjects DEF Fades
<1>9. t2.conns[c].anchor = client.conns[c].anchor /\ t2.sockets = client.sockets
  BY <1>2, <1>4, <1>7, <1>8 DEF Fades, FadesConn
<1>10. \A x \in Conns(client) : t2.conns[x].receive = client.conns[x].receive
  BY <1>3, <1>4, <1>5, <1>6, <1>7
<1>11. ASSUME LookupIsLast, NEW s \in Sockets(client), IsOpen(client, s), client.sockets[s].asked
       PROVE  s # client.conns[c].anchor
  <2>1. ~Conn(client).loggedIn /\ client.sockets[s].conn = client.current
    BY <1>1, <1>11, AskedHandled
  <2>2. client.conns[c].anchor # 0 => client.sockets[client.conns[c].anchor].conn = c
    BY <1>1, <1>2 DEF Objects, Shape
  <2>3. s # 0
    BY <1>1, ClientFacts DEF Sockets
  <2> QED BY <2>1, <2>2, <2>3, <1>1 DEF Conn
<1>12. CASE client' = t2
  <2>1. Steady(client, t2)
    BY <1>9, <1>10 DEF Steady, IsOpening, IsOpen
  <2> QED BY <2>1, <1>1, <1>8, <1>12, SteadyKeeps, TellsSame DEF Fades
<1>13. CASE client' = Destroy(t2, c)
  <2>1. /\ Fades(t2, client') /\ Same(t2, client')
        /\ \A s \in Sockets(t2) : s # t2.conns[c].anchor => client'.sockets[s] = t2.sockets[s]
    BY <1>8, <1>13, DestroyFades
  <2>2. Fades(client, client') /\ Sockets(t2) = Sockets(client) /\ Conns(t2) = Conns(client)
    BY <2>1, <1>1, <1>8, FadesAgain DEF Fades
  <2>3. Steady(client, client')
    <3>1. /\ \A s \in Sockets(client) : client'.sockets[s].login = client.sockets[s].login
          /\ \A s \in Sockets(client) : IsOpening(client, s) => IsOpening(client', s)
      BY <2>1, <2>2, <1>9 DEF Same, IsOpening
    <3>2. \A x \in Conns(client) : client'.conns[x].receive = client.conns[x].receive
      BY <2>1, <2>2, <1>10 DEF Same
    <3>3. ASSUME LookupIsLast, NEW s \in Sockets(client), IsOpen(client, s), client.sockets[s].asked
          PROVE  IsOpen(client', s) /\ client'.sockets[s].asked
      BY <3>3, <2>1, <2>2, <1>9, <1>11 DEF IsOpen
    <3> QED BY <3>1, <3>2, <3>3 DEF Steady
  <2> QED BY <2>2, <2>3, <1>1, SteadyKeeps, TellsSame DEF Fades
<1> QED BY <1>1, <1>12, <1>13

-----------------------------------------------------------------------------
(* The socket that is being opened *)

LEMMA OpeningStage ==
  ASSUME NEW st \in Client, Stage(st), NEW s \in Sockets(st), IsOpening(st, s)
  PROVE  Opens(st, s)
<1>1. ~NoOpening(st)
  BY DEF NoOpening
<1>2. PICK x \in Sockets(st) : Opens(st, x)
  BY <1>1 DEF Stage, Rests, Deferred, Lost, InHand, Looks, LogsIn
<1>3. s = x
  BY <1>2 DEF Opens
<1> QED BY <1>2, <1>3

LEMMA TcpConnectedKeeps ==
  ASSUME Inv, ~client.crashed, NEW s \in DOMAIN client.sockets, TcpConnected(s)
  PROVE  Good(client') /\ Tells(client, client')
<1> DEFINE v == [client.sockets[s] EXCEPT !.state = "negotiating"]
           t == [client EXCEPT !.sockets[s] = v]
<1>1. /\ client \in Client /\ Objects(client) /\ Stage(client)
      /\ client.sockets[s].state = "connecting" /\ client' = t
  BY DEF Inv, Good, TcpConnected
<1>2. s \in Sockets(client) /\ client.sockets[s] \in Socket
  BY <1>1, ClientFacts DEF Sockets
<1>3. /\ v \in Socket /\ FadesSocket(client.sockets[s], v) /\ v.state = "negotiating"
      /\ v.login = client.sockets[s].login
  BY <1>1, <1>2 DEF Socket, FadesSocket
<1> HIDE DEF v
<1>4. /\ Fades(client, t) /\ t.conns = client.conns
      /\ t.sockets[s] = v /\ \A x \in Sockets(client) \ {s} : t.sockets[x] = client.sockets[x]
  BY <1>1, <1>2, <1>3, SocketFades
<1> HIDE DEF t
<1>5. Steady(client, t)
  BY <1>1, <1>3, <1>4 DEF Steady, IsOpening, IsOpen
<1> QED BY <1>1, <1>4, <1>5, SteadyKeeps, TellsSame DEF Fades

\* The socket could not be opened.
LEMMA OpenFailedWorks ==
  ASSUME scenario \in Scenarios, NEW st \in Client, Objects(st), NEW s \in Sockets(st),
         Opens(st, s), ~Up(st.sockets[s].host), NEW x \in {"closed", "destroyed", "ignored"}
  PROVE  LET t == OpenFailed([st EXCEPT !.sockets[s].state = x], s)
         IN Good(t) /\ Tells(st, t)
<1> DEFINE v == [st.sockets[s] EXCEPT !.state = x]
           u == [st EXCEPT !.sockets[s] = v]
<1>1. st.sockets[s] \in Socket /\ IsOpening(st, s)
  BY ClientFacts DEF Sockets, Opens
<1>2. /\ v \in Socket /\ FadesSocket(st.sockets[s], v) /\ v.state = x
      /\ v.purpose = st.sockets[s].purpose /\ v.conn = st.sockets[s].conn
      /\ v.attempt = st.sockets[s].attempt
  BY <1>1 DEF Socket, FadesSocket
<1> HIDE DEF v
<1>3. /\ Fades(st, u) /\ u.conns = st.conns
      /\ u.sockets[s] = v /\ \A y \in Sockets(st) \ {s} : u.sockets[y] = st.sockets[y]
  BY <1>2, SocketFades
<1>4. u = [st EXCEPT !.sockets[s].state = x]
  BY DEF v
<1> HIDE DEF u
<1>5. Unanswered(st) /\ Last(st) > 0
  BY DEF Opens, Unanswered
<1>6. /\ u \in Client /\ Objects(u) /\ Last(u) = Last(st) /\ Call(u) = Call(st)
      /\ Tried(u) = Tried(st) /\ Unanswered(u) /\ NoImmediate(u) /\ NoLookup(u) /\ NoLogin(u)
      /\ Left(u) /\ ~Conn(u).loggedIn /\ u.current = st.current /\ Sockets(u) = Sockets(st)
      /\ LookupIsLast => NoneAsked(u) /\ Ready(u)
      /\ LookupIsLast /\ TasksStay => NoneOpen(u)
  BY <1>3, <1>5, FadesObjects, FadesKeeps DEF Opens, Fades
<1>7. InHand(u)
  <2>1. NoOpening(u)
    BY <1>2, <1>3, <1>6 DEF NoOpening, Opens, IsOpening
  <2> QED BY <2>1, <1>6 DEF InHand
<1>8. ~LookupMayFail => \A i \in 1..Tried(u) : Failed(i)
  <2> SUFFICES ASSUME ~LookupMayFail, NEW i \in 1..Tried(u)
               PROVE  Failed(i)
    OBVIOUS
  <2>1. /\ Tried(u) = Tried(st) /\ Tried(st) \in Int
        /\ \A j \in 1..Tried(st) - 1 : Failed(j)
        /\ st.sockets[s].host \in {scenario.hosts[Tried(st)], scenario.target} \cup scenario.tenant
    <3>1. Len(Call(st).left) \in Nat /\ Len(scenario.hosts) \in Nat
      BY <1>5, InHandFacts, AttemptFacts, ScenarioFacts
    <3>2. Tried(st) \in Int
      BY <3>1 DEF Tried
    <3>3. Reaches(st, st.sockets[s].host)
      BY DEF Opens
    <3> QED BY <3>2, <3>3, <1>6 DEF Reaches
  <2>2. CASE i = Tried(st)
    BY <2>1, <2>2 DEF Failed, ElsewhereDown
  <2>3. CASE i # Tried(st)
    <3>1. i \in 1..Tried(st) - 1
      BY <2>1, <2>3
    <3> QED BY <3>1, <2>1
  <2> QED BY <2>2, <2>3
<1>9. LookupIsLast /\ Call(u).left # <<>> => ~LookupMayFail
  <2> SUFFICES ASSUME LookupIsLast, LookupMayFail
               PROVE  Call(u).left = <<>>
    OBVIOUS
  <2>1. Len(Call(st).left) < 1 /\ Call(st).left \in Seq(Hosts) /\ Len(Call(st).left) \in Nat
    BY <1>5, InHandFacts, AttemptFacts DEF Opens, Reaches, LookupIsLast
  <2> QED BY <2>1, <1>6
<1>10. Works(u, OpenFailed(u, s))
  <2>1. u.sockets[s].conn = u.current /\ u.sockets[s].attempt = Last(u)
        /\ u.sockets[s].purpose = st.sockets[s].purpose
    BY <1>2, <1>3, <1>6 DEF Opens
  <2>2. CASE u.sockets[s].purpose = "lookup"
    <3>1. Multi
      BY <2>1, <2>2 DEF Objects, Shape
    <3>2. Works(u, HandleError(u, u.current, Last(u)))
      BY <3>1, <1>6, <1>7, <1>8, <1>9, HandleErrorWorks
    <3> QED BY <3>2, <2>1, <2>2 DEF OpenFailed
  <2>3. CASE u.sockets[s].purpose # "lookup"
    <3>1. Tries(u)
      BY <1>6, <1>7, <1>8, <1>9 DEF Tries
    <3>2. Works(u, TryConnect(u, Last(u)))
      BY <3>1, <1>6, TryConnectWorks
    <3> QED BY <3>2, <2>1, <2>3 DEF OpenFailed
  <2> QED BY <2>2, <2>3
<1> QED BY <1>4, <1>5, <1>6, <1>10, WorksInHand

LEMMA OpenFailedKeeps ==
  ASSUME Inv, ~client.crashed, NEW s \in DOMAIN client.sockets,
         TcpFailed(s) \/ InitInvalid(s) \/ InitFailed(s)
  PROVE  Good(client') /\ Tells(client, client')
<1>1. /\ scenario \in Scenarios /\ client \in Client /\ Objects(client) /\ Stage(client)
      /\ client.sockets[s].state \in {"connecting", "negotiating"} /\ ~Up(client.sockets[s].host)
      /\ s \in Sockets(client)
  BY DEF Inv, Good, TcpFailed, InitInvalid, InitFailed, Sockets
<1>2. PICK x \in {"closed", "destroyed", "ignored"} :
        client' = OpenFailed([client EXCEPT !.sockets[s].state = x], s)
  BY DEF TcpFailed, InitInvalid, InitFailed
<1>3. Opens(client, s)
  BY <1>1, OpeningStage DEF IsOpening
<1> QED BY <1>1, <1>2, <1>3, OpenFailedWorks

\* The socket is the anchor now.
OpenedState(st, s) ==
  [st EXCEPT !.conns[st.sockets[s].conn].anchor = s, !.sockets[s].state = "open",
             !.sockets[s].listens = TRUE]

LEMMA OpenedFacts ==
  ASSUME scenario \in Scenarios, NEW st \in Client, Objects(st), NEW s \in Sockets(st), Opens(st, s)
  PROVE  LET o == OpenedState(st, s)
         IN /\ o \in Client /\ Objects(o) /\ InHand(o) /\ Left(o) /\ ~Conn(o).loggedIn
            /\ o.current = st.current /\ Sockets(o) = Sockets(st)
            /\ Last(o) = Last(st) /\ Call(o) = Call(st) /\ Tried(o) = Tried(st)
            /\ Conn(o).anchor = s /\ IsOpen(o, s) /\ o.sockets[s].conn = st.current
            /\ o.sockets[s].purpose = st.sockets[s].purpose
            /\ Reaches(o, o.sockets[s].host)
            /\ LookupIsLast => NoneAsked(o) /\ Conn(o).alive
            /\ LookupIsLast /\ LookupMayFail /\ o.sockets[s].purpose = "lookup" =>
                 \A x \in Sockets(o) : IsOpen(o, x) /\ o.sockets[x].conn = o.current => x = s
<1> DEFINE c == st.current
           u == [st.conns[c] EXCEPT !.anchor = s]
           t1 == [st EXCEPT !.conns[c] = u]
           v == [t1.sockets[s] EXCEPT !.state = "open"]
           t2 == [t1 EXCEPT !.sockets[s] = v]
           w == [t2.sockets[s] EXCEPT !.listens = TRUE]
           o == [t2 EXCEPT !.sockets[s] = w]
<1>1. /\ st.sockets[s] \in Socket /\ IsOpening(st, s) /\ st.sockets[s].conn = c
      /\ c \in Conns(st) /\ st.conns[c] \in Connection /\ Conn(st) = st.conns[c]
      /\ s \in Nat /\ s # 0 /\ ~st.conns[c].loggedIn /\ ~st.sockets[s].asked
  BY ClientFacts, InUse DEF Sockets, Opens
<1>2. OpenedState(st, s) = [st EXCEPT !.conns[c].anchor = s, !.sockets[s].state = "open",
                                      !.sockets[s].listens = TRUE]
  BY <1>1 DEF OpenedState
<1>3. o = [st EXCEPT !.conns[c].anchor = s, !.sockets[s].state = "open", !.sockets[s].listens = TRUE]
  BY Zenon
<1> HIDE DEF c
<1>4. /\ u \in Connection /\ u.anchor = s /\ u.alive = st.conns[c].alive
      /\ u.loggedIn = st.conns[c].loggedIn /\ u.session = st.conns[c].session
      /\ u.receive = st.conns[c].receive /\ u.waiting = st.conns[c].waiting
  BY <1>1 DEF Connection
<1> HIDE DEF u
<1>5. /\ t1 \in Client /\ DOMAIN t1.conns = DOMAIN st.conns /\ Len(t1.conns) = Len(st.conns)
      /\ t1.current = st.current /\ t1.host = st.host /\ t1.sockets = st.sockets
      /\ t1.attempts = st.attempts /\ t1.immediates = st.immediates /\ t1.crashed = st.crashed
      /\ t1.conns[c] = u /\ \A x \in DOMAIN st.conns \ {c} : t1.conns[x] = st.conns[x]
  BY <1>1, <1>4, PutConn DEF Conns
<1> HIDE DEF t1
<1>6. /\ v \in Socket /\ v.state = "open" /\ v.conn = c /\ v.host = st.sockets[s].host
      /\ v.purpose = st.sockets[s].purpose /\ v.login = st.sockets[s].login
      /\ v.asked = st.sockets[s].asked
  BY <1>1, <1>5 DEF Socket
<1> HIDE DEF v
<1>7. /\ t2 \in Client /\ DOMAIN t2.sockets = DOMAIN t1.sockets
      /\ t2.current = t1.current /\ t2.host = t1.host /\ t2.conns = t1.conns
      /\ t2.attempts = t1.attempts /\ t2.immediates = t1.immediates /\ t2.crashed = t1.crashed
      /\ t2.sockets[s] = v /\ \A x \in DOMAIN t1.sockets \ {s} : t2.sockets[x] = t1.sockets[x]
  BY <1>1, <1>5, <1>6, PutSocket DEF Sockets
<1> HIDE DEF t2
<1>8. /\ w \in Socket /\ w.state = "open" /\ w.conn = c /\ w.host = st.sockets[s].host
      /\ w.purpose = st.sockets[s].purpose /\ w.login = st.sockets[s].login
      /\ ~w.asked
  BY <1>1, <1>6, <1>7 DEF Socket
<1> HIDE DEF w
<1>9. /\ o \in Client /\ DOMAIN o.sockets = DOMAIN t2.sockets
      /\ o.current = t2.current /\ o.host = t2.host /\ o.conns = t2.conns
      /\ o.attempts = t2.attempts /\ o.immediates = t2.immediates /\ o.crashed = t2.crashed
      /\ o.sockets[s] = w /\ \A x \in DOMAIN t2.sockets \ {s} : o.sockets[x] = t2.sockets[x]
  BY <1>1, <1>5, <1>7, <1>8, PutSocket DEF Sockets
<1> HIDE DEF o
<1>10. /\ Sockets(o) = Sockets(st) /\ Conns(o) = Conns(st) /\ Len(o.conns) = Len(st.conns)
       /\ Last(o) = Last(st) /\ Call(o) = Call(st) /\ Tried(o) = Tried(st)
       /\ o.current = c /\ Conn(o) = u /\ o.conns[c] = u
       /\ o.attempts = st.attempts /\ o.immediates = st.immediates /\ o.crashed = st.crashed
       /\ o.host = st.host
       /\ o.sockets[s] = w /\ \A x \in Sockets(st) \ {s} : o.sockets[x] = st.sockets[x]
       /\ \A x \in Conns(st) \ {c} : o.conns[x] = st.conns[x]
  BY <1>5, <1>7, <1>9 DEF Sockets, Conns, Conn, Last, Call, Tried, c
<1>11. /\ IsOpen(o, s) /\ ~IsOpening(o, s)
       /\ \A x \in Sockets(st) \ {s} : /\ ~IsOpening(o, x)
                                       /\ IsOpen(o, x) <=> IsOpen(st, x)
  BY <1>8, <1>10 DEF IsOpen, IsOpening, Opens
<1>12. Shape(o)
  <2>1. Shape(st)
    BY DEF Objects
  <2>2. ASSUME NEW x \in Sockets(o)
        PROVE  /\ o.sockets[x].conn \in Conns(o)
               /\ IsOpen(o, x) => o.conns[o.sockets[x].conn].anchor # 0
               /\ o.sockets[x].purpose = "lookup" => Multi
    <3>1. CASE x = s
      BY <3>1, <2>1, <1>1, <1>4, <1>8, <1>10 DEF Shape
    <3>2. CASE x # s
      <4>1. /\ st.sockets[x].conn \in Conns(st)
            /\ IsOpen(st, x) => st.conns[st.sockets[x].conn].anchor # 0
            /\ st.sockets[x].purpose = "lookup" => Multi
        BY <2>1, <1>10 DEF Shape
      <4>2. o.sockets[x] = st.sockets[x] /\ (IsOpen(o, x) <=> IsOpen(st, x))
        BY <3>2, <1>10, <1>11
      <4>3. \/ o.conns[st.sockets[x].conn].anchor = s
            \/ o.conns[st.sockets[x].conn] = st.conns[st.sockets[x].conn]
        BY <4>1, <1>4, <1>10
      <4> QED BY <4>1, <4>2, <4>3, <1>1, <1>10
    <3> QED BY <3>1, <3>2
  <2>3. ASSUME NEW x \in Conns(o)
        PROVE  /\ o.conns[x].anchor # 0 => /\ o.conns[x].anchor \in Sockets(o)
                                           /\ o.sockets[o.conns[x].anchor].conn = x
                                           /\ ~IsOpening(o, o.conns[x].anchor)
               /\ o.conns[x].loggedIn => o.conns[x].session /\ o.conns[x].anchor # 0
               /\ o.conns[x].waiting => Fault("tasks")
    <3>1. CASE x = c
      BY <3>1, <2>1, <1>1, <1>4, <1>8, <1>10, <1>11 DEF Shape
    <3>2. CASE x # c
      <4>1. o.conns[x] = st.conns[x]
        BY <3>2, <1>10
      <4>2. st.conns[x].anchor # 0 => /\ st.conns[x].anchor \in Sockets(st)
                                      /\ st.sockets[st.conns[x].anchor].conn = x
        BY <2>1, <1>10 DEF Shape
      <4>3. st.conns[x].anchor # 0 => st.conns[x].anchor # s
        BY <4>2, <3>2, <1>1
      <4> QED BY <4>1, <4>2, <4>3, <2>1, <1>10, <1>11 DEF Shape
    <3> QED BY <3>1, <3>2
  <2>4. o.current = Len(o.conns) /\ o.current \in Conns(o)
        /\ o.host \in {Head(scenario.hosts), scenario.target}
    BY <2>1, <1>1, <1>10 DEF Shape, c
  <2> QED BY <2>2, <2>3, <2>4 DEF Shape
<1>13. ASSUME LookupIsLast
       PROVE  Anchored(o)
  <2>1. /\ Ready(st) /\ Anchored(st) /\ st.conns[c].alive
        /\ st.conns[c].anchor # 0 => ~st.sockets[st.conns[c].anchor].listens
    BY <1>1, <1>13 DEF Opens, Ready, Objects
  <2>2. ASSUME NEW x \in Sockets(o)
        PROVE  /\ o.sockets[x].listens => x = o.conns[o.sockets[x].conn].anchor
               /\ IsOpen(o, x) /\ x = o.conns[o.sockets[x].conn].anchor =>
                    o.conns[o.sockets[x].conn].alive
    <3>1. CASE x = s
      <4>1. o.sockets[x] = w /\ w.conn = c /\ o.conns[c] = u
        BY <3>1, <1>8, <1>10
      <4>2. u.anchor = s /\ u.alive
        BY <2>1, <1>4
      <4> QED BY <4>1, <4>2, <3>1
    <3>2. CASE x # s /\ st.sockets[x].conn = c
      <4>1. x \in Sockets(st) /\ x # 0 /\ o.sockets[x] = st.sockets[x] /\ o.conns[c].anchor = s
        BY <3>2, <1>4, <1>10, ClientFacts DEF Sockets
      <4>2. ~st.sockets[x].listens
        BY <4>1, <3>2, <2>1 DEF Anchored
      <4> QED BY <4>1, <4>2, <3>2
    <3>3. CASE x # s /\ st.sockets[x].conn # c
      <4>1. /\ x \in Sockets(st) /\ o.sockets[x] = st.sockets[x] /\ st.sockets[x].conn \in Conns(st)
            /\ o.conns[st.sockets[x].conn] = st.conns[st.sockets[x].conn]
            /\ IsOpen(o, x) <=> IsOpen(st, x)
        BY <3>3, <1>10, <1>11 DEF Objects, Shape
      <4>2. /\ st.sockets[x].listens => x = st.conns[st.sockets[x].conn].anchor
            /\ IsOpen(st, x) /\ x = st.conns[st.sockets[x].conn].anchor =>
                 st.conns[st.sockets[x].conn].alive
        BY <4>1, <2>1 DEF Anchored
      <4> QED BY <4>1, <4>2
    <3> QED BY <3>1, <3>2, <3>3
  <2> QED BY <2>2 DEF Anchored
<1>14. LookupIsLast /\ TasksStay => Single(o)
  BY <1>4, <1>10, <1>11 DEF Opens, NoneOpen, Single
<1>15. Objects(o)
  BY <1>10, <1>12, <1>13, <1>14 DEF Objects
<1>16. InHand(o)
  <2>1. Unanswered(o) /\ NoImmediate(o)
    BY <1>10 DEF Opens, Unanswered, Answered, NoImmediate
  <2>2. NoOpening(o)
    BY <1>10, <1>11 DEF NoOpening
  <2>3. NoLookup(o) /\ NoLogin(o)
    BY <1>1, <1>4, <1>8, <1>10 DEF Opens, NoLookup, NoLogin
  <2> QED BY <2>1, <2>2, <2>3 DEF InHand
<1>17. LookupIsLast => NoneAsked(o) /\ Conn(o).alive
  <2> SUFFICES ASSUME LookupIsLast
               PROVE  NoneAsked(o) /\ Conn(o).alive
    OBVIOUS
  <2>1. Conn(o).alive
    BY <1>1, <1>4, <1>10 DEF Opens, Ready
  <2>2. NoneAsked(o)
    BY <1>8, <1>10, <1>11 DEF Opens, NoneAsked
  <2> QED BY <2>1, <2>2
<1>18. Left(o) /\ Reaches(o, o.sockets[s].host)
  BY <1>8, <1>10 DEF Opens, Left, Reaches, c
<1>19. LookupIsLast /\ LookupMayFail /\ o.sockets[s].purpose = "lookup" =>
         \A x \in Sockets(o) : IsOpen(o, x) /\ o.sockets[x].conn = o.current => x = s
  BY <1>8, <1>10, <1>11 DEF Opens, Fresh, c
<1>20. /\ o \in Client /\ Objects(o) /\ InHand(o) /\ Left(o) /\ ~Conn(o).loggedIn
       /\ o.current = st.current /\ Sockets(o) = Sockets(st)
       /\ Last(o) = Last(st) /\ Call(o) = Call(st) /\ Tried(o) = Tried(st)
       /\ Conn(o).anchor = s /\ IsOpen(o, s) /\ o.sockets[s].conn = st.current
       /\ o.sockets[s].purpose = st.sockets[s].purpose
       /\ Reaches(o, o.sockets[s].host)
       /\ LookupIsLast => NoneAsked(o) /\ Conn(o).alive
       /\ LookupIsLast /\ LookupMayFail /\ o.sockets[s].purpose = "lookup" =>
            \A x \in Sockets(o) : IsOpen(o, x) /\ o.sockets[x].conn = o.current => x = s
  BY <1>1, <1>4, <1>8, <1>9, <1>10, <1>11, <1>15, <1>16, <1>17, <1>18, <1>19 DEF c
<1> QED BY <1>2, <1>3, <1>20

\* The host of the tenant database is asked for.
LEMMA LooksWorks ==
  ASSUME NEW st \in Client, Objects(st), InHand(st), Left(st), ~Conn(st).loggedIn,
         NEW s \in Sockets(st), Conn(st).anchor = s, IsOpen(st, s),
         st.sockets[s].purpose = "lookup", Reaches(st, st.sockets[s].host),
         LookupIsLast => NoneAsked(st),
         LookupIsLast /\ LookupMayFail =>
           \A x \in Sockets(st) : IsOpen(st, x) /\ st.sockets[x].conn = st.current => x = s
  PROVE  Works(st, [st EXCEPT !.conns[st.current].receive = Last(st), !.conns[st.current].session = TRUE,
                              !.sockets[s].asked = TRUE])
<1> DEFINE c == st.current
           u == [st.conns[c] EXCEPT !.receive = Last(st)]
           t1 == [st EXCEPT !.conns[c] = u]
           v == [t1.conns[c] EXCEPT !.session = TRUE]
           t2 == [t1 EXCEPT !.conns[c] = v]
           w == [t2.sockets[s] EXCEPT !.asked = TRUE]
           t == [t2 EXCEPT !.sockets[s] = w]
<1>1. /\ c \in Conns(st) /\ st.conns[c] \in Connection /\ Conn(st) = st.conns[c]
      /\ st.sockets[s] \in Socket /\ Last(st) \in Nat /\ Last(st) > 0
  BY InUse, ClientFacts, InHandFacts DEF Sockets, InHand
<1>2. t = [st EXCEPT !.conns[st.current].receive = Last(st), !.conns[st.current].session = TRUE,
                     !.sockets[s].asked = TRUE]
  BY Zenon
<1> HIDE DEF c
<1>3. /\ u \in Connection /\ u.receive = Last(st) /\ u.anchor = st.conns[c].anchor
      /\ u.alive = st.conns[c].alive /\ u.loggedIn = st.conns[c].loggedIn
      /\ u.waiting = st.conns[c].waiting
  BY <1>1 DEF Connection
<1> HIDE DEF u
<1>4. /\ t1 \in Client /\ DOMAIN t1.conns = DOMAIN st.conns /\ Len(t1.conns) = Len(st.conns)
      /\ t1.current = st.current /\ t1.host = st.host /\ t1.sockets = st.sockets
      /\ t1.attempts = st.attempts /\ t1.immediates = st.immediates /\ t1.crashed = st.crashed
      /\ t1.conns[c] = u /\ \A x \in DOMAIN st.conns \ {c} : t1.conns[x] = st.conns[x]
  BY <1>1, <1>3, PutConn DEF Conns
<1> HIDE DEF t1
<1>5. /\ v \in Connection /\ v.receive = Last(st) /\ v.anchor = st.conns[c].anchor
      /\ v.alive = st.conns[c].alive /\ v.loggedIn = st.conns[c].loggedIn
      /\ v.waiting = st.conns[c].waiting /\ v.session
  BY <1>3, <1>4 DEF Connection
<1> HIDE DEF v
<1>6. /\ t2 \in Client /\ DOMAIN t2.conns = DOMAIN t1.conns /\ Len(t2.conns) = Len(t1.conns)
      /\ t2.current = t1.current /\ t2.host = t1.host /\ t2.sockets = t1.sockets
      /\ t2.attempts = t1.attempts /\ t2.immediates = t1.immediates /\ t2.crashed = t1.crashed
      /\ t2.conns[c] = v /\ \A x \in DOMAIN t1.conns \ {c} : t2.conns[x] = t1.conns[x]
  BY <1>1, <1>4, <1>5, PutConn DEF Conns
<1> HIDE DEF t2
<1>7. /\ w \in Socket /\ w.asked /\ w.state = st.sockets[s].state /\ w.conn = st.sockets[s].conn
      /\ w.host = st.sockets[s].host /\ w.purpose = st.sockets[s].purpose
      /\ w.listens = st.sockets[s].listens /\ w.login = st.sockets[s].login
  BY <1>1, <1>4, <1>6 DEF Socket
<1> HIDE DEF w
<1>8. /\ t \in Client /\ DOMAIN t.sockets = DOMAIN t2.sockets
      /\ t.current = t2.current /\ t.host = t2.host /\ t.conns = t2.conns
      /\ t.attempts = t2.attempts /\ t.immediates = t2.immediates /\ t.crashed = t2.crashed
      /\ t.sockets[s] = w /\ \A x \in DOMAIN t2.sockets \ {s} : t.sockets[x] = t2.sockets[x]
  BY <1>4, <1>6, <1>7, PutSocket DEF Sockets
<1> HIDE DEF t
<1>9. /\ Sockets(t) = Sockets(st) /\ Conns(t) = Conns(st) /\ Len(t.conns) = Len(st.conns)
      /\ Last(t) = Last(st) /\ Call(t) = Call(st) /\ Tried(t) = Tried(st)
      /\ t.current = c /\ t.current = st.current /\ Conn(t) = v /\ t.conns[c] = v
      /\ t.attempts = st.attempts /\ t.immediates = st.immediates /\ t.crashed = st.crashed
      /\ t.host = st.host
      /\ t.sockets[s] = w /\ \A x \in Sockets(st) \ {s} : t.sockets[x] = st.sockets[x]
      /\ \A x \in Conns(st) \ {c} : t.conns[x] = st.conns[x]
  BY <1>4, <1>6, <1>8 DEF Sockets, Conns, Conn, Last, Call, Tried, c
<1>10. /\ \A x \in Sockets(st) : /\ t.sockets[x].conn = st.sockets[x].conn
                                 /\ t.sockets[x].state = st.sockets[x].state
                                 /\ t.sockets[x].purpose = st.sockets[x].purpose
                                 /\ t.sockets[x].listens = st.sockets[x].listens
                                 /\ t.sockets[x].login = st.sockets[x].login
       /\ \A x \in Conns(st) : /\ t.conns[x].anchor = st.conns[x].anchor
                               /\ t.conns[x].alive = st.conns[x].alive
                               /\ t.conns[x].loggedIn = st.conns[x].loggedIn
                               /\ t.conns[x].waiting = st.conns[x].waiting
                               /\ st.conns[x].session => t.conns[x].session
  BY <1>1, <1>5, <1>7, <1>9
<1>11. \A x \in Sockets(st) : /\ IsOpen(t, x) <=> IsOpen(st, x)
                              /\ IsOpening(t, x) <=> IsOpening(st, x)
  BY <1>10 DEF IsOpen, IsOpening
<1>12. Objects(t)
  <2>1. Shape(t)
    <3>1. Shape(st)
      BY DEF Objects
    <3>2. ASSUME NEW x \in Sockets(t)
          PROVE  /\ t.sockets[x].conn \in Conns(t)
                 /\ IsOpen(t, x) => t.conns[t.sockets[x].conn].anchor # 0
                 /\ t.sockets[x].purpose = "lookup" => Multi
      <4>1. /\ x \in Sockets(st) /\ st.sockets[x].conn \in Conns(st)
            /\ IsOpen(st, x) => st.conns[st.sockets[x].conn].anchor # 0
            /\ st.sockets[x].purpose = "lookup" => Multi
        BY <3>1, <1>9 DEF Shape
      <4>2. /\ t.sockets[x].conn = st.sockets[x].conn /\ t.sockets[x].purpose = st.sockets[x].purpose
            /\ IsOpen(t, x) <=> IsOpen(st, x)
        BY <4>1, <1>10, <1>11
      <4>3. t.conns[st.sockets[x].conn].anchor = st.conns[st.sockets[x].conn].anchor
        BY <4>1, <1>10
      <4> QED BY <4>1, <4>2, <4>3, <1>9
    <3>3. ASSUME NEW x \in Conns(t)
          PROVE  /\ t.conns[x].anchor # 0 => /\ t.conns[x].anchor \in Sockets(t)
                                             /\ t.sockets[t.conns[x].anchor].conn = x
                                             /\ ~IsOpening(t, t.conns[x].anchor)
                 /\ t.conns[x].loggedIn => t.conns[x].session /\ t.conns[x].anchor # 0
                 /\ t.conns[x].waiting => Fault("tasks")
      BY <3>1, <1>9, <1>10, <1>11, SMTT(30) DEF Shape
    <3> QED BY <3>1, <3>2, <3>3, <1>9 DEF Shape
  <2>2. LookupIsLast => Anchored(t)
    <3>1. \A x \in Sockets(st) : st.sockets[x].conn \in Conns(st)
      BY DEF Objects, Shape
    <3>2. ASSUME LookupIsLast, NEW x \in Sockets(t)
          PROVE  LET conn == t.conns[t.sockets[x].conn]
                 IN /\ t.sockets[x].listens => x = conn.anchor
                    /\ IsOpen(t, x) /\ x = conn.anchor => conn.alive
      <4> DEFINE y == st.sockets[x].conn
      <4>1. /\ st.sockets[x].listens => x = st.conns[y].anchor
            /\ IsOpen(st, x) /\ x = st.conns[y].anchor => st.conns[y].alive
        BY <3>2, <1>9 DEF Objects, Anchored
      <4>2. /\ t.sockets[x].conn = y /\ t.sockets[x].listens = st.sockets[x].listens
            /\ IsOpen(t, x) <=> IsOpen(st, x)
            /\ t.conns[y].anchor = st.conns[y].anchor /\ t.conns[y].alive = st.conns[y].alive
        BY <3>1, <3>2, <1>9, <1>10, <1>11
      <4> QED BY <4>1, <4>2
    <3> QED BY <3>2 DEF Anchored
  <2>3. LookupIsLast /\ TasksStay => Single(t)
    BY <1>1, <1>5, <1>9, <1>11 DEF Objects, Single
  <2> QED BY <2>1, <2>2, <2>3, <1>9 DEF Objects
<1>13. Unanswered(t) /\ NoImmediate(t) /\ NoOpening(t) /\ NoLogin(t)
  BY <1>9, <1>10, <1>11 DEF InHand, Unanswered, Answered, NoImmediate, NoOpening, NoLogin
<1>14. \A x \in Conns(t) : t.conns[x].receive = IF x = t.current THEN Last(t) ELSE 0
  BY <1>5, <1>9 DEF InHand, NoLookup
<1>15. Left(t) /\ Reaches(t, t.sockets[s].host)
  BY <1>7, <1>9 DEF Left, Reaches
<1>16. LookupIsLast => OnlyAsked(t, s)
  BY <1>7, <1>9, <1>11 DEF NoneAsked, OnlyAsked
<1>17. LookupIsLast /\ LookupMayFail =>
         \A x \in Sockets(t) : IsOpen(t, x) /\ t.sockets[x].conn = t.current => x = s
  BY <1>9, <1>10, <1>11
<1>18. s = Conn(t).anchor /\ ~Conn(t).loggedIn /\ t.sockets[s].purpose = "lookup"
  BY <1>1, <1>5, <1>7, <1>9
<1>19. Looks(t, s)
  BY <1>13, <1>14, <1>15, <1>16, <1>17, <1>18 DEF Looks
<1>20. Good(t) /\ Call(t).outcome # "ok"
  BY <1>8, <1>9, <1>12, <1>19, InHandFacts DEF Good, Stage, InHand
<1> QED BY <1>2, <1>9, <1>20 DEF Works

LEMMA InitReplyKeeps ==
  ASSUME Inv, ~client.crashed, NEW s \in DOMAIN client.sockets, InitReply(s)
  PROVE  Good(client') /\ Tells(client, client')
<1> DEFINE o == OpenedState(client, s)
           c == client.sockets[s].conn
           a == client.sockets[s].attempt
           looks == [o EXCEPT !.conns[c].receive = a, !.conns[c].session = TRUE,
                              !.sockets[s].asked = TRUE]
<1>1. /\ scenario \in Scenarios /\ client \in Client /\ Objects(client) /\ Stage(client)
      /\ s \in Sockets(client) /\ client.sockets[s].state = "negotiating"
  BY DEF Inv, Good, InitReply, Sockets
<1>2. Opens(client, s)
  BY <1>1, OpeningStage DEF IsOpening
<1>3. c = client.current /\ a = Last(client) /\ Unanswered(client) /\ Last(client) > 0
  BY <1>2 DEF Opens, Unanswered
<1>4. client' \in IF client.sockets[s].purpose # "lookup" THEN Login(o, a)
                  ELSE IF ReadyState(o, c) = "closed" THEN {HandleError(o, c, a)}
                  ELSE {looks}
  BY Zenon DEF InitReply, Opened, OpenedState
<1>5. /\ o \in Client /\ Objects(o) /\ InHand(o) /\ Left(o) /\ ~Conn(o).loggedIn
      /\ o.current = client.current /\ Sockets(o) = Sockets(client)
      /\ Last(o) = Last(client) /\ Call(o) = Call(client) /\ Tried(o) = Tried(client)
      /\ Conn(o).anchor = s /\ IsOpen(o, s) /\ o.sockets[s].conn = client.current
      /\ o.sockets[s].purpose = client.sockets[s].purpose
      /\ Reaches(o, o.sockets[s].host)
      /\ LookupIsLast => NoneAsked(o) /\ Conn(o).alive
      /\ LookupIsLast /\ LookupMayFail /\ o.sockets[s].purpose = "lookup" =>
           \A x \in Sockets(o) : IsOpen(o, x) /\ o.sockets[x].conn = o.current => x = s
  BY <1>1, <1>2, OpenedFacts
<1> HIDE DEF o
<1>6. s # 0
  BY <1>1, ClientFacts DEF Sockets
<1>7. Works(o, client')
  <2>1. CASE client.sockets[s].purpose # "lookup"
    <3>1. Followed(o)
      BY <1>5 DEF Followed, Reaches
    <3>2. \A t \in Login(o, Last(o)) : Works(o, t)
      BY <3>1, <1>5, <1>6, LoginWorks
    <3> QED BY <3>2, <2>1, <1>3, <1>4, <1>5
  <2>2. CASE client.sockets[s].purpose = "lookup" /\ ReadyState(o, c) = "closed"
    <3>1. Conn(o) = o.conns[c]
      BY <1>3, <1>5 DEF Conn
    <3>2. ~Conn(o).alive
      BY <3>1, <2>2, <1>5, <1>6 DEF ReadyState, Anchor, IsOpen
    <3>3. ~LookupIsLast /\ LookupMayFail /\ Multi
      BY <3>2, <1>5 DEF LookupIsLast, LookupMayFail
    <3>4. Works(o, HandleError(o, o.current, Last(o)))
      BY <3>3, <1>1, <1>5, HandleErrorWorks
    <3> QED BY <3>4, <2>2, <1>3, <1>4, <1>5
  <2>3. CASE client.sockets[s].purpose = "lookup" /\ ReadyState(o, c) # "closed"
    <3>1. client' = [o EXCEPT !.conns[o.current].receive = Last(o), !.conns[o.current].session = TRUE,
                              !.sockets[s].asked = TRUE]
      BY <2>3, <1>3, <1>4, <1>5
    <3> HIDE DEF looks
    <3>2. Works(o, [o EXCEPT !.conns[o.current].receive = Last(o), !.conns[o.current].session = TRUE,
                             !.sockets[s].asked = TRUE])
      <4>1. s \in Sockets(o) /\ o.sockets[s].purpose = "lookup"
        BY <2>3, <1>1, <1>5
      <4>2. LookupIsLast /\ LookupMayFail =>
              \A x \in Sockets(o) : IsOpen(o, x) /\ o.sockets[x].conn = o.current => x = s
        BY <4>1, <1>5
      <4>3. LookupIsLast => NoneAsked(o)
        BY <1>5
      <4> QED BY <4>1, <4>2, <4>3, <1>5, LooksWorks, Zenon
    <3> QED BY <3>1, <3>2, Zenon
  <2> QED BY <2>1, <2>2, <2>3
<1> QED BY <1>1, <1>3, <1>5, <1>7, WorksInHand

-----------------------------------------------------------------------------
(* The socket that is the anchor *)

\* What a socket was asked is taken from it, and nothing from the others.
Takes(st, t, s) ==
  /\ Fades(st, t)
  /\ t.sockets[s].login = 0 /\ ~t.sockets[s].asked
  /\ \A x \in Sockets(st) \ {s} : t.sockets[x] = st.sockets[x]
  /\ \A x \in Conns(st) : /\ t.conns[x].alive = st.conns[x].alive
                          /\ x # st.sockets[s].conn => t.conns[x].receive = st.conns[x].receive

\* The state in which the callback of a reply is called.
Read(st, s) ==
  [Taken(st, s) EXCEPT !.conns[st.sockets[s].conn].connecting = FALSE,
                       !.conns[st.sockets[s].conn].session = TRUE]

LEMMA ReadTakes ==
  ASSUME NEW st \in Client, Objects(st), NEW s \in Sockets(st)
  PROVE  LET t == Read(st, s)
             conn == t.conns[st.sockets[s].conn]
         IN /\ Takes(st, t, s) /\ t.sockets[s].state = st.sockets[s].state
            /\ conn.receive = 0 /\ ~conn.connecting /\ conn.session
<1> DEFINE c == st.sockets[s].conn
           v1 == [st.sockets[s] EXCEPT !.asked = FALSE]
           t1 == [st EXCEPT !.sockets[s] = v1]
           v2 == [t1.sockets[s] EXCEPT !.login = 0]
           t2 == [t1 EXCEPT !.sockets[s] = v2]
           u3 == [t2.conns[c] EXCEPT !.receive = 0]
           t3 == [t2 EXCEPT !.conns[c] = u3]
           u4 == [t3.conns[c] EXCEPT !.connecting = FALSE]
           t4 == [t3 EXCEPT !.conns[c] = u4]
           u5 == [t4.conns[c] EXCEPT !.session = TRUE]
           t5 == [t4 EXCEPT !.conns[c] = u5]
<1>1. t5 = Read(st, s)
  BY Zenon DEF Read, Taken
<1>2. st.sockets[s] \in Socket /\ c \in Conns(st)
  BY ClientFacts DEF Sockets, Objects, Shape
<1> HIDE DEF c
<1>3. v1 \in Socket /\ FadesSocket(st.sockets[s], v1) /\ ~v1.asked /\ v1.state = st.sockets[s].state
  BY <1>2 DEF Socket, FadesSocket
<1> HIDE DEF v1
<1>4. /\ Fades(st, t1) /\ t1.conns = st.conns
      /\ t1.sockets[s] = v1 /\ \A x \in Sockets(st) \ {s} : t1.sockets[x] = st.sockets[x]
  BY <1>3, SocketFades
<1> HIDE DEF t1
<1>5. t1 \in Client /\ Objects(t1) /\ Sockets(t1) = Sockets(st) /\ Conns(t1) = Conns(st)
  BY <1>4, FadesObjects DEF Fades
<1>6. /\ v2 \in Socket /\ FadesSocket(t1.sockets[s], v2) /\ ~v2.asked /\ v2.login = 0
      /\ v2.state = st.sockets[s].state
  BY <1>3, <1>4 DEF Socket, FadesSocket
<1> HIDE DEF v2
<1>7. /\ Fades(t1, t2) /\ t2.conns = t1.conns
      /\ t2.sockets[s] = v2 /\ \A x \in Sockets(t1) \ {s} : t2.sockets[x] = t1.sockets[x]
  BY <1>5, <1>6, SocketFades
<1> HIDE DEF t2
<1>8. /\ t2 \in Client /\ Objects(t2) /\ Sockets(t2) = Sockets(st) /\ Conns(t2) = Conns(st)
      /\ t2.conns[c] \in Connection
  BY <1>2, <1>5, <1>7, FadesObjects, ClientFacts DEF Fades, Conns
<1>9. u3 \in Connection /\ FadesConn(t2.conns[c], u3) /\ u3.alive = t2.conns[c].alive /\ u3.receive = 0
  BY <1>8 DEF Connection, FadesConn
<1> HIDE DEF u3
<1>10. /\ Fades(t2, t3) /\ t3.sockets = t2.sockets
       /\ t3.conns[c] = u3 /\ \A x \in Conns(t2) \ {c} : t3.conns[x] = t2.conns[x]
  BY <1>2, <1>8, <1>9, ConnFades
<1> HIDE DEF t3
<1>11. t3 \in Client /\ Objects(t3) /\ Sockets(t3) = Sockets(st) /\ Conns(t3) = Conns(st)
  BY <1>8, <1>10, FadesObjects DEF Fades
<1>12. /\ u4 \in Connection /\ FadesConn(t3.conns[c], u4) /\ u4.alive = t3.conns[c].alive
       /\ u4.receive = 0 /\ ~u4.connecting
  BY <1>9, <1>10 DEF Connection, FadesConn
<1> HIDE DEF u4
<1>13. /\ Fades(t3, t4) /\ t4.sockets = t3.sockets
       /\ t4.conns[c] = u4 /\ \A x \in Conns(t3) \ {c} : t4.conns[x] = t3.conns[x]
  BY <1>2, <1>11, <1>12, ConnFades
<1> HIDE DEF t4
<1>14. t4 \in Client /\ Objects(t4) /\ Sockets(t4) = Sockets(st) /\ Conns(t4) = Conns(st)
  BY <1>11, <1>13, FadesObjects DEF Fades
<1>15. /\ u5 \in Connection /\ FadesConn(t4.conns[c], u5) /\ u5.alive = t4.conns[c].alive
       /\ u5.receive = 0 /\ ~u5.connecting /\ u5.session
  BY <1>12, <1>13 DEF Connection, FadesConn
<1> HIDE DEF u5
<1>16. /\ Fades(t4, t5) /\ t5.sockets = t4.sockets
       /\ t5.conns[c] = u5 /\ \A x \in Conns(t4) \ {c} : t5.conns[x] = t4.conns[x]
  BY <1>2, <1>14, <1>15, ConnFades
<1> HIDE DEF t5
<1>17. Fades(st, t5)
  <2>1. Fades(st, t2)
    BY <1>4, <1>7, FadesAgain
  <2>2. Fades(st, t3)
    BY <2>1, <1>10, FadesAgain
  <2>3. Fades(st, t4)
    BY <2>2, <1>13, FadesAgain
  <2> QED BY <2>3, <1>16, FadesAgain
<1>18. /\ t5.sockets[s] = v2 /\ \A x \in Sockets(st) \ {s} : t5.sockets[x] = st.sockets[x]
  BY <1>4, <1>5, <1>7, <1>10, <1>13, <1>16
<1>19. \A x \in Conns(st) \ {c} : t5.conns[x] = st.conns[x]
  BY <1>4, <1>5, <1>7, <1>8, <1>10, <1>11, <1>13, <1>14, <1>16
<1>20. t5.conns[c].alive = st.conns[c].alive
  BY <1>4, <1>7, <1>9, <1>10, <1>12, <1>13, <1>15, <1>16
<1>21. Takes(st, t5, s)
  BY <1>6, <1>17, <1>18, <1>19, <1>20 DEF Takes, c
<1> QED BY <1>1, <1>6, <1>15, <1>16, <1>18, <1>21 DEF c

\* The login is answered, or has failed.
LEMMA LoginTaken ==
  ASSUME NEW st \in Client, Objects(st), NEW s \in Sockets(st), LogsIn(st, s),
         NEW t, Takes(st, t, s)
  PROVE  /\ t \in Client /\ Objects(t) /\ InHand(t) /\ t.current = st.current
         /\ Last(t) = Last(st) /\ Call(t) = Call(st) /\ Conn(t).loggedIn = Conn(st).loggedIn
         /\ LookupIsLast => NoneAsked(t)
<1>1. Fades(st, t) /\ Unanswered(st) /\ Last(st) > 0
  BY DEF Takes, LogsIn, Unanswered
<1>2. /\ t \in Client /\ Objects(t) /\ t.current = st.current /\ Sockets(t) = Sockets(st)
      /\ Last(t) = Last(st) /\ Call(t) = Call(st) /\ Conn(t).loggedIn = Conn(st).loggedIn
      /\ Unanswered(t) /\ NoImmediate(t) /\ NoOpening(t) /\ NoLookup(t)
  BY <1>1, FadesObjects, FadesKeeps DEF Fades, LogsIn
<1>3. NoLogin(t)
  BY <1>2 DEF NoLogin, Takes, LogsIn
<1>4. LookupIsLast => NoneAsked(t)
  BY <1>2 DEF NoneAsked, Takes, LogsIn, OnlyAsked, IsOpen
<1> QED BY <1>2, <1>3, <1>4 DEF InHand

\* So is the lookup.
LEMMA LookupTaken ==
  ASSUME NEW st \in Client, Objects(st), NEW s \in Sockets(st), NEW x \in Sockets(st), Looks(st, x),
         NEW t, Takes(st, t, s), st.sockets[s].conn = st.current, t.conns[st.current].receive = 0,
         LookupIsLast => s = x
  PROVE  /\ t \in Client /\ Objects(t) /\ InHand(t) /\ Left(t) /\ t.current = st.current
         /\ Last(t) = Last(st) /\ Call(t) = Call(st) /\ Tried(t) = Tried(st) /\ ~Conn(t).loggedIn
         /\ LookupIsLast => NoneAsked(t)
<1>1. Fades(st, t) /\ Unanswered(st) /\ Last(st) > 0
  BY DEF Takes, Looks, Unanswered
<1>2. /\ t \in Client /\ Objects(t) /\ t.current = st.current
      /\ Sockets(t) = Sockets(st) /\ Conns(t) = Conns(st)
      /\ Last(t) = Last(st) /\ Call(t) = Call(st) /\ Tried(t) = Tried(st) /\ ~Conn(t).loggedIn
      /\ Unanswered(t) /\ NoImmediate(t) /\ NoOpening(t) /\ NoLogin(t) /\ Left(t)
  BY <1>1, FadesObjects, FadesKeeps DEF Fades, Looks
<1>3. NoLookup(t)
  BY <1>2 DEF NoLookup, Takes, Looks
<1>4. LookupIsLast => NoneAsked(t)
  BY <1>2 DEF NoneAsked, Takes, Looks, OnlyAsked, IsOpen
<1> QED BY <1>2, <1>3, <1>4 DEF InHand

\* Which callback a socket is handed to.
LEMMA HandedStage ==
  ASSUME Objects(client), Stage(client), client \in Client, NEW s \in Sockets(client)
  PROVE  /\ Handed(s).login = client.sockets[s].login
         /\ Handed(s).login # 0 => LogsIn(client, s) /\ Handed(s).login = Last(client)
                                   /\ client.sockets[s].conn = client.current
         /\ Handed(s).lookup # 0 =>
              /\ Handed(s).lookup = Last(client) /\ client.sockets[s].conn = client.current
              /\ Conn(client).alive /\ Handed(s).login = 0
              /\ \E x \in Sockets(client) : Looks(client, x)
         /\ Handed(s).login = 0 /\ Handed(s).lookup = 0 /\ client.conns[client.sockets[s].conn].alive =>
              client.conns[client.sockets[s].conn].receive = 0
<1> DEFINE c == client.sockets[s].conn
<1>1. /\ c \in Conns(client) /\ client.sockets[s].login \in Nat /\ s # 0
  BY ClientFacts, SocketFacts DEF Objects, Shape, Sockets
<1>2. /\ Handed(s).login = client.sockets[s].login
      /\ Handed(s).lookup = IF client.sockets[s].login = 0 /\ client.conns[c].alive
                            THEN client.conns[c].receive ELSE 0
  BY DEF Handed
<1>3. ASSUME client.sockets[s].login # 0
      PROVE  /\ LogsIn(client, s) /\ client.sockets[s].login = Last(client)
             /\ c = client.current
  <2>1. ~NoLogin(client)
    BY <1>3 DEF NoLogin
  <2>2. PICK x \in Sockets(client) : LogsIn(client, x)
    BY <2>1 DEF Stage, Rests, Deferred, Lost, InHand, Opens, Looks
  <2>3. s = x /\ client.sockets[s].login = Last(client) /\ s = Conn(client).anchor
    BY <2>2, <1>3 DEF LogsIn
  <2>4. Conn(client) = client.conns[client.current] /\ client.current \in Conns(client)
    BY InUse
  <2>5. c = client.current
    BY <2>3, <2>4, <1>1 DEF Objects, Shape
  <2> QED BY <2>2, <2>3, <2>5
<1>4. ASSUME client.conns[c].receive # 0
      PROVE  /\ client.conns[c].receive = Last(client) /\ c = client.current
             /\ \E x \in Sockets(client) : Looks(client, x)
  <2>1. ~NoLookup(client)
    BY <1>1, <1>4 DEF NoLookup
  <2>2. PICK x \in Sockets(client) : Looks(client, x)
    BY <2>1 DEF Stage, Rests, Deferred, Lost, InHand, Opens, LogsIn
  <2> QED BY <2>2, <1>1, <1>4 DEF Looks
<1>5. client.current \in Conns(client) /\ Conn(client) = client.conns[client.current]
  BY InUse
<1> QED BY <1>2, <1>3, <1>4, <1>5

\* Everybody who waits is told, and the connection in use is logged in.
LEMMA LogsInTold ==
  ASSUME NEW st \in Client, Objects(st), InHand(st), LookupIsLast => NoneAsked(st),
         NEW s \in Sockets(st), Conn(st).anchor = s, IsOpen(st, s), Conn(st).alive, Conn(st).session,
         ~Conn(st).connecting,
         RedirectIsFollowed /\ Call(st).redirects > 0 =>
           st.sockets[s].host \in {scenario.target} \cup scenario.tenant
  PROVE  LET t == Told([st EXCEPT !.conns[st.current].loggedIn = TRUE], Last(st), "ok")
         IN Good(t) /\ Last(t) = Last(st) /\ Arrived(t)
<1> DEFINE c == st.current
           v == [st.conns[c] EXCEPT !.loggedIn = TRUE]
           u == [st EXCEPT !.conns[c] = v]
           t == Told(u, Last(u), "ok")
<1>1. /\ c \in Conns(st) /\ st.conns[c] \in Connection /\ Conn(st) = st.conns[c]
      /\ s \in Nat /\ s # 0
  BY InUse, ClientFacts DEF Sockets
<1>2. u = [st EXCEPT !.conns[st.current].loggedIn = TRUE]
  OBVIOUS
<1> HIDE DEF c
<1>3. /\ v \in Connection /\ v.loggedIn /\ v.anchor = s /\ v.alive /\ v.session /\ ~v.connecting
      /\ v.receive = st.conns[c].receive /\ v.waiting = st.conns[c].waiting
  BY <1>1 DEF Connection
<1> HIDE DEF v
<1>4. /\ u \in Client /\ DOMAIN u.conns = DOMAIN st.conns /\ Len(u.conns) = Len(st.conns)
      /\ u.current = st.current /\ u.host = st.host /\ u.sockets = st.sockets
      /\ u.attempts = st.attempts /\ u.immediates = st.immediates /\ u.crashed = st.crashed
      /\ u.conns[c] = v /\ \A x \in DOMAIN st.conns \ {c} : u.conns[x] = st.conns[x]
  BY <1>1, <1>3, PutConn DEF Conns
<1> HIDE DEF u
<1>5. /\ Sockets(u) = Sockets(st) /\ Conns(u) = Conns(st) /\ Conn(u) = v
      /\ Last(u) = Last(st) /\ Call(u) = Call(st)
      /\ \A x : IsOpen(u, x) <=> IsOpen(st, x)
      /\ \A x : IsOpening(u, x) <=> IsOpening(st, x)
      /\ \A x \in Conns(st) \ {c} : u.conns[x] = st.conns[x]
  BY <1>4 DEF Sockets, Conns, Conn, Last, Call, IsOpen, IsOpening, c
<1>6. ASSUME NEW x \in Conns(st)
      PROVE  /\ u.conns[x].anchor = st.conns[x].anchor
             /\ u.conns[x].alive = st.conns[x].alive
             /\ u.conns[x].waiting = st.conns[x].waiting
             /\ u.conns[x].receive = st.conns[x].receive
             /\ \/ u.conns[x] = st.conns[x]
                \/ u.conns[x].session /\ u.conns[x].anchor # 0
  <2>1. CASE x = c
    <3>1. u.conns[x] = v /\ st.conns[x] = Conn(st)
      BY <2>1, <1>1, <1>4
    <3>2. v.alive = Conn(st).alive /\ v.anchor = Conn(st).anchor /\ v.anchor # 0
      BY <1>1, <1>3
    <3> QED BY <3>1, <3>2, <2>1, <1>3
  <2>2. CASE x # c
    BY <2>2, <1>5
  <2> QED BY <2>1, <2>2
<1>7. Objects(u)
  <2>1. Shape(u)
    <3>1. Shape(st)
      BY DEF Objects
    <3>2. ASSUME NEW x \in Sockets(u)
          PROVE  /\ u.sockets[x].conn \in Conns(u)
                 /\ IsOpen(u, x) => u.conns[u.sockets[x].conn].anchor # 0
                 /\ u.sockets[x].purpose = "lookup" => Multi
      BY <3>1, <1>4, <1>5, <1>6 DEF Shape
    <3>3. ASSUME NEW x \in Conns(u)
          PROVE  /\ u.conns[x].anchor # 0 => /\ u.conns[x].anchor \in Sockets(u)
                                             /\ u.sockets[u.conns[x].anchor].conn = x
                                             /\ ~IsOpening(u, u.conns[x].anchor)
                 /\ u.conns[x].loggedIn => u.conns[x].session /\ u.conns[x].anchor # 0
                 /\ u.conns[x].waiting => Fault("tasks")
      BY <3>1, <1>4, <1>5, <1>6 DEF Shape
    <3> QED BY <3>1, <3>2, <3>3, <1>4, <1>5 DEF Shape
  <2>2. LookupIsLast => Anchored(u)
    <3> SUFFICES ASSUME LookupIsLast, NEW x \in Sockets(u)
                 PROVE  LET conn == u.conns[u.sockets[x].conn]
                        IN /\ u.sockets[x].listens => x = conn.anchor
                           /\ IsOpen(u, x) /\ x = conn.anchor => conn.alive
      BY DEF Anchored
    <3> DEFINE y == st.sockets[x].conn
    <3>1. /\ st.sockets[x].listens => x = st.conns[y].anchor
          /\ IsOpen(st, x) /\ x = st.conns[y].anchor => st.conns[y].alive
          /\ y \in Conns(st)
      BY <1>5 DEF Objects, Anchored, Shape
    <3>2. u.sockets[x] = st.sockets[x]
      BY <1>4
    <3> QED BY <3>1, <3>2, <1>5, <1>6
  <2>3. LookupIsLast /\ TasksStay => Single(u)
    BY <1>1, <1>3, <1>5 DEF Objects, Single
  <2> QED BY <2>1, <2>2, <2>3, <1>4 DEF Objects
<1>8. InHand(u) /\ (NoneAsked(st) => NoneAsked(u))
  <2>1. Unanswered(u) /\ NoImmediate(u)
    BY <1>4, <1>5 DEF InHand, Unanswered, Answered, NoImmediate
  <2>2. NoOpening(u) /\ NoLookup(u) /\ NoLogin(u)
    BY <1>4, <1>5, <1>6 DEF InHand, NoOpening, NoLookup, NoLogin
  <2>3. NoneAsked(st) => NoneAsked(u)
    BY <1>4, <1>5 DEF NoneAsked
  <2> QED BY <2>1, <2>2, <2>3 DEF InHand
<1>9. "ok" \in Outcomes
  BY DEF Outcomes
<1>10. Good(t) /\ Last(t) = Last(u)
  BY <1>4, <1>7, <1>8, <1>9, TellWorks
<1>11. SameObjects(u, t) /\ Call(t).redirects = Call(u).redirects
  BY <1>4, <1>8, <1>9, ToldFacts DEF InHand
<1> HIDE DEF t
<1>12. t.current = c /\ t.conns[c] = v /\ Anchor(t, c) = st.sockets[s]
  BY <1>3, <1>4, <1>11 DEF SameObjects, Anchor, c
<1>13. ReadyState(t, t.current) = "connected"
  BY <1>1, <1>3, <1>12 DEF ReadyState, IsOpen
<1>14. Arrived(t)
  BY <1>3, <1>5, <1>11, <1>12, <1>13 DEF Arrived
<1> QED BY <1>2, <1>5, <1>10, <1>14 DEF t

-----------------------------------------------------------------------------
(* A socket that is open *)

LEMMA LoginDoneKeeps ==
  ASSUME scenario \in Scenarios, NEW st \in Client, Objects(st), NEW s \in Sockets(st), LogsIn(st, s),
         IsOpen(st, s), st.sockets[s].conn = st.current, Conn(st).alive,
         NEW t \in LoginDone(Read(st, s), st.current, Last(st))
  PROVE  Good(t) /\ Tells(st, t)
<1> DEFINE r == Read(st, s)
<1>1. /\ Takes(st, r, s) /\ r.sockets[s].state = st.sockets[s].state
      /\ ~r.conns[st.current].connecting /\ r.conns[st.current].session
  BY ReadTakes
<1>2. t \in LoginDone(r, st.current, Last(st))
  OBVIOUS
<1> HIDE DEF r
<1>3. /\ r \in Client /\ Objects(r) /\ InHand(r) /\ r.current = st.current
      /\ Last(r) = Last(st) /\ Call(r) = Call(st)
      /\ LookupIsLast => NoneAsked(r)
  BY <1>1, LoginTaken
<1>4. /\ Sockets(r) = Sockets(st) /\ st.current \in Conns(st)
      /\ FadesSocket(st.sockets[s], r.sockets[s])
      /\ Conn(st) = st.conns[st.current] /\ Conn(r) = r.conns[st.current]
      /\ FadesConn(Conn(st), Conn(r)) /\ Conn(r).alive
  BY <1>1, <1>3, InUse DEF Takes, Fades, Conn
<1>5. /\ Unanswered(st) /\ s = Conn(st).anchor
      /\ RedirectIsFollowed /\ Call(st).redirects > 0 =>
           st.sockets[s].host \in {scenario.target} \cup scenario.tenant
  BY DEF LogsIn
<1>6. CASE t = Told([r EXCEPT !.conns[st.current].loggedIn = TRUE], Last(st), "ok")
  <2>1. Conn(r).anchor = s /\ IsOpen(r, s) /\ Conn(r).session /\ ~Conn(r).connecting
    BY <1>1, <1>4, <1>5, ZenonT(40) DEF FadesConn, IsOpen
  <2>2. RedirectIsFollowed /\ Call(r).redirects > 0 =>
          r.sockets[s].host \in {scenario.target} \cup scenario.tenant
    BY <1>3, <1>4, <1>5, ZenonT(40) DEF FadesSocket
  <2>3. t = Told([r EXCEPT !.conns[r.current].loggedIn = TRUE], Last(r), "ok")
    BY <1>3, <1>6
  <2>4. Good(t) /\ Last(t) = Last(st) /\ Arrived(t)
    BY <2>1, <2>2, <2>3, <1>3, <1>4, LogsInTold
  <2>5. Answered(st, Last(t) - 1) /\ Last(t) > 0
    BY <2>4, <1>5 DEF Unanswered
  <2> QED BY <2>4, <2>5, ArrivedTells
<1>7. CASE t = Told(r, Last(st), "refused")
  <2>1. "refused" \in Outcomes
    BY DEF Outcomes
  <2>2. Good(t) /\ Last(t) = Last(r) /\ Call(t).outcome = "refused"
    BY <2>1, <1>3, <1>7, TellWorks
  <2>3. Works(r, t)
    BY <2>2 DEF Works
  <2> QED BY <2>3, <1>3, <1>5, WorksInHand
<1>8. CASE MayRedirect(r) /\ t = Redirect(r, Last(st))
  <2>1. scenario.target # None
    BY <1>8 DEF MayRedirect
  <2>2. Works(r, Redirect(r, Last(r)))
    BY <2>1, <1>3, <1>4, <1>8, RedirectWorks
  <2> QED BY <2>2, <1>3, <1>5, <1>8, WorksInHand
<1> QED BY <1>2, <1>6, <1>7, <1>8 DEF LoginDone

LEMMA LookupDoneKeeps ==
  ASSUME scenario \in Scenarios, NEW st \in Client, Objects(st), NEW s \in Sockets(st),
         NEW x \in Sockets(st), Looks(st, x), LookupIsLast => s = x,
         IsOpen(st, s), st.sockets[s].conn = st.current, Conn(st).alive,
         NEW t \in LookupDone(Read(st, s), st.current, Last(st))
  PROVE  Good(t) /\ Tells(st, t)
<1> DEFINE r == Read(st, s)
<1>1. /\ Takes(st, r, s) /\ r.sockets[s].state = st.sockets[s].state
      /\ r.conns[st.current].receive = 0
  BY ReadTakes
<1>2. t \in LookupDone(r, st.current, Last(st))
  OBVIOUS
<1> HIDE DEF r
<1>3. /\ r \in Client /\ Objects(r) /\ InHand(r) /\ Left(r) /\ r.current = st.current
      /\ Last(r) = Last(st) /\ Call(r) = Call(st) /\ Tried(r) = Tried(st) /\ ~Conn(r).loggedIn
      /\ LookupIsLast => NoneAsked(r)
  BY <1>1, LookupTaken
<1>4. /\ Sockets(r) = Sockets(st) /\ st.current \in Conns(st)
      /\ Conn(st) = st.conns[st.current] /\ Conn(r) = r.conns[st.current]
      /\ FadesConn(Conn(st), Conn(r)) /\ Conn(r).alive
  BY <1>1, <1>3, InUse DEF Takes, Fades, Conn
<1>5. /\ Unanswered(st) /\ x = Conn(st).anchor /\ st.sockets[x].purpose = "lookup"
      /\ Len(Call(r).left) < Len(scenario.hosts)
      /\ ~LookupMayFail => \A i \in 1..Tried(r) - 1 : Failed(i)
  BY <1>3 DEF Looks, Reaches
<1>6. Conn(r).anchor = x /\ x # 0 /\ (LookupIsLast => IsOpen(r, x))
  BY <1>1, <1>4, <1>5, ClientFacts DEF FadesConn, IsOpen, Sockets
<1>7. Anchor(r, st.current) = r.sockets[x] /\ Conn(r).anchor = x
  BY <1>4, <1>6 DEF Anchor
<1>8. Works(r, t)
  <2>1. ASSUME NEW h \in scenario.tenant, t = RedirectToTenant(r, st.current, Last(st), h)
        PROVE  Works(r, t)
    <3>1. Works(r, RedirectToTenant(r, r.current, Last(r), h))
      BY <1>3, <1>4, <1>5, RedirectToTenantWorks
    <3> QED BY <3>1, <2>1, <1>3
  <2>2. CASE Anchor(r, st.current).host \in scenario.tenant /\ t \in Login(r, Last(st))
    <3>1. Followed(r)
      BY <2>2, <1>7 DEF Followed
    <3>2. \A u \in Login(r, Last(r)) : Works(r, u)
      BY <3>1, <1>3, <1>4, <1>6, LoginWorks
    <3> QED BY <3>2, <2>2, <1>3
  <2>3. CASE Fault("lookup") /\ t = HandleError(r, st.current, Last(st))
    <3>1. Multi /\ LookupMayFail
      BY <2>3, <1>5 DEF Objects, Shape, LookupMayFail
    <3>2. LookupIsLast => Call(r).left = <<>>
      <4>1. /\ Call(r).left \in Seq(Hosts) /\ Len(scenario.hosts) \in Nat
            /\ Len(Call(r).left) \in Nat
        BY <1>3, InHandFacts, AttemptFacts, ScenarioFacts, LenProperties DEF InHand
      <4>2. Call(r).left = <<>> <=> Len(Call(r).left) = 0
        BY <4>1, EmptySeq
      <4>3. ASSUME LookupIsLast
            PROVE  Len(Call(r).left) = 0
        <5>1. Len(scenario.hosts) = 1
          BY <4>3, <3>1 DEF LookupIsLast
        <5> QED BY <5>1, <4>1, <1>5
      <4> QED BY <4>2, <4>3
    <3>3. Works(r, HandleError(r, r.current, Last(r)))
      BY <3>1, <3>2, <1>3, HandleErrorWorks
    <3> QED BY <3>3, <2>3, <1>3
  <2> QED BY <1>2, <2>1, <2>2, <2>3 DEF LookupDone
<1> QED BY <1>3, <1>5, <1>8, WorksInHand

LEMMA ReplyKeeps ==
  ASSUME Inv, ~client.crashed, NEW s \in DOMAIN client.sockets, Reply(s)
  PROVE  Good(client') /\ Tells(client, client')
<1> DEFINE c == client.sockets[s].conn
           r == Read(client, s)
<1>1. /\ scenario \in Scenarios /\ client \in Client /\ Objects(client) /\ Stage(client)
      /\ s \in Sockets(client) /\ IsOpen(client, s) /\ client.sockets[s].asked
  BY DEF Inv, Good, Reply, Sockets, IsOpen
<1>2. client' \in IF ~client.conns[c].alive THEN {[client EXCEPT !.crashed = TRUE]}
                  ELSE IF Handed(s).login # 0 THEN LoginDone(r, c, Handed(s).login)
                  ELSE IF Handed(s).lookup # 0 THEN LookupDone(r, c, Handed(s).lookup)
                  ELSE {r}
  BY Zenon DEF Reply, Read
<1> HIDE DEF r
<1>3. client.current \in Conns(client) /\ Conn(client) = client.conns[client.current]
      /\ c \in Conns(client)
  BY <1>1, InUse DEF Objects, Shape
<1>4. LookupIsLast => c = client.current /\ client.conns[c].alive
  BY <1>1, <1>3, AskedHandled
<1>5. CASE ~client.conns[c].alive
  <2>1. client' = [client EXCEPT !.crashed = TRUE]
    BY <1>2, <1>5
  <2>2. Unanswered(client) \/ Answered(client, Last(client))
    BY GoodCalls DEF Inv
  <2>3. Good(client') /\ client'.attempts = client.attempts
    BY <2>1, <2>2, <1>1, <1>4, <1>5, CrashWorks
  <2> QED BY <2>3, TellsSame
<1>6. CASE client.conns[c].alive /\ Handed(s).login # 0
  <2>1. LogsIn(client, s) /\ Handed(s).login = Last(client) /\ c = client.current
    BY <1>1, <1>6, HandedStage
  <2>2. client' \in LoginDone(Read(client, s), client.current, Last(client))
    BY <2>1, <1>2, <1>6 DEF r
  <2> QED BY <2>1, <2>2, <1>1, <1>3, <1>6, LoginDoneKeeps
<1>7. CASE client.conns[c].alive /\ Handed(s).login = 0 /\ Handed(s).lookup # 0
  <2>1. /\ Handed(s).lookup = Last(client) /\ c = client.current
        /\ \E x \in Sockets(client) : Looks(client, x)
    BY <1>1, <1>7, HandedStage
  <2>2. PICK x \in Sockets(client) : Looks(client, x)
    BY <2>1
  <2>3. LookupIsLast => s = x
    BY <2>2, <1>1 DEF Looks, OnlyAsked
  <2>4. client' \in LookupDone(Read(client, s), client.current, Last(client))
    BY <2>1, <1>2, <1>7 DEF r
  <2> QED BY <2>1, <2>2, <2>3, <2>4, <1>1, <1>3, <1>7, LookupDoneKeeps
<1>8. CASE client.conns[c].alive /\ Handed(s).login = 0 /\ Handed(s).lookup = 0
  <2>1. client' = r
    BY <1>2, <1>8
  <2>2. Takes(client, r, s) /\ r.sockets[s].state = client.sockets[s].state /\ r.conns[c].receive = 0
    BY <1>1, ReadTakes DEF r
  <2>3. client.sockets[s].login = 0 /\ client.conns[c].receive = 0
    BY <1>1, <1>8, HandedStage
  <2>4. ~LookupIsLast
    <3> SUFFICES ASSUME LookupIsLast PROVE FALSE
      OBVIOUS
    <3>1. Looks(client, s) \/ LogsIn(client, s)
      BY <1>1, AskedHandled
    <3>2. Last(client) > 0
      BY <3>1 DEF Looks, LogsIn, Unanswered
    <3> QED BY <3>1, <3>2, <2>3, <1>1, <1>3, <1>4 DEF Looks, LogsIn
  <2>5. Steady(client, r)
    <3>1. ASSUME NEW x \in Sockets(client)
          PROVE  /\ r.sockets[x].login = client.sockets[x].login
                 /\ IsOpening(client, x) => IsOpening(r, x)
      <4>1. CASE x = s
        BY <4>1, <2>2, <2>3 DEF Takes, IsOpening
      <4>2. CASE x # s
        BY <4>2, <2>2 DEF Takes, IsOpening
      <4> QED BY <4>1, <4>2
    <3>2. ASSUME NEW x \in Conns(client)
          PROVE  r.conns[x].receive = client.conns[x].receive
      BY <2>2, <2>3 DEF Takes
    <3> QED BY <3>1, <3>2, <2>4 DEF Steady
  <2>6. Good(r) /\ r.attempts = client.attempts
    BY <2>2, <2>5, <1>1, SteadyKeeps DEF Takes, Fades
  <2> QED BY <2>1, <2>6, TellsSame
<1> QED BY <1>5, <1>6, <1>7, <1>8

\* Nothing is handed to a callback, and nothing that a connect() waits for is lost.
LEMMA NothingTaken ==
  ASSUME NEW st \in Client, Objects(st), Stage(st), NEW s \in Sockets(st), IsOpen(st, s),
         NEW t, Takes(st, t, s), LookupIsLast => ~st.sockets[s].asked,
         st.sockets[s].login = 0,
         st.conns[st.sockets[s].conn].receive = t.conns[st.sockets[s].conn].receive
  PROVE  Good(t) /\ Tells(st, t)
<1>1. Steady(st, t)
  <2>1. ASSUME NEW x \in Sockets(st)
        PROVE  /\ t.sockets[x].login = st.sockets[x].login
               /\ IsOpening(st, x) => IsOpening(t, x)
               /\ LookupIsLast /\ IsOpen(st, x) /\ st.sockets[x].asked =>
                    IsOpen(t, x) /\ t.sockets[x].asked
    <3>1. CASE x = s
      BY <3>1 DEF Takes, IsOpening, IsOpen
    <3>2. CASE x # s
      BY <3>2 DEF Takes, IsOpening, IsOpen
    <3> QED BY <3>1, <3>2
  <2>2. ASSUME NEW x \in Conns(st)
        PROVE  t.conns[x].receive = st.conns[x].receive
    BY DEF Takes
  <2> QED BY <2>1, <2>2 DEF Steady
<1> QED BY <1>1, SteadyKeeps, TellsSame DEF Takes, Fades

\* The state in which the callback of a socket that ends is called.
Ended(st, s, receives) ==
  [st EXCEPT !.sockets[s].state = "destroyed", !.sockets[s].asked = FALSE, !.sockets[s].login = 0,
             !.conns[st.sockets[s].conn].receive = IF receives THEN @ ELSE 0]

Cleared(st, c) ==
  [st EXCEPT !.conns[c].queue = FALSE, !.conns[c].waiting = FALSE, !.conns[c].closeOnDrain = FALSE]

LEMMA EndedTakes ==
  ASSUME NEW st \in Client, Objects(st), NEW s \in Sockets(st),
         NEW receives \in BOOLEAN,
         NEW t \in {Ended(st, s, receives), Cleared(Ended(st, s, receives), st.sockets[s].conn)}
  PROVE  LET c == st.sockets[s].conn
         IN Takes(st, t, s) /\ t.conns[c].receive = IF receives THEN st.conns[c].receive ELSE 0
<1> DEFINE c == st.sockets[s].conn
           v1 == [st.sockets[s] EXCEPT !.state = "destroyed"]
           t1 == [st EXCEPT !.sockets[s] = v1]
           v2 == [t1.sockets[s] EXCEPT !.asked = FALSE]
           t2 == [t1 EXCEPT !.sockets[s] = v2]
           v3 == [t2.sockets[s] EXCEPT !.login = 0]
           t3 == [t2 EXCEPT !.sockets[s] = v3]
           u4 == [t3.conns[c] EXCEPT !.receive = IF receives THEN @ ELSE 0]
           t4 == [t3 EXCEPT !.conns[c] = u4]
           u5 == [t4.conns[c] EXCEPT !.queue = FALSE]
           t5 == [t4 EXCEPT !.conns[c] = u5]
           u6 == [t5.conns[c] EXCEPT !.waiting = FALSE]
           t6 == [t5 EXCEPT !.conns[c] = u6]
           u7 == [t6.conns[c] EXCEPT !.closeOnDrain = FALSE]
           t7 == [t6 EXCEPT !.conns[c] = u7]
           n == IF receives THEN st.conns[c].receive ELSE 0
<1>1. t \in {t4, t7}
  <2>1. t4 = Ended(st, s, receives)
    BY ZenonT(40) DEF Ended
  <2> HIDE DEF t4
  <2>2. t7 = Cleared(t4, c)
    BY Zenon DEF Cleared
  <2> QED BY <2>1, <2>2, Zenon
<1>2. st.sockets[s] \in Socket /\ c \in Conns(st)
  BY ClientFacts DEF Sockets, Objects, Shape
<1> HIDE DEF c
<1>3. v1 \in Socket /\ FadesSocket(st.sockets[s], v1)
  BY <1>2 DEF Socket, FadesSocket
<1> HIDE DEF v1
<1>4. /\ Fades(st, t1) /\ t1.conns = st.conns
      /\ t1.sockets[s] = v1 /\ \A x \in Sockets(st) \ {s} : t1.sockets[x] = st.sockets[x]
  BY <1>3, SocketFades
<1> HIDE DEF t1
<1>5. t1 \in Client /\ Objects(t1) /\ Sockets(t1) = Sockets(st) /\ Conns(t1) = Conns(st)
  BY <1>4, FadesObjects DEF Fades
<1>6. v2 \in Socket /\ FadesSocket(t1.sockets[s], v2) /\ ~v2.asked
  BY <1>3, <1>4 DEF Socket, FadesSocket
<1> HIDE DEF v2
<1>7. /\ Fades(t1, t2) /\ t2.conns = t1.conns
      /\ t2.sockets[s] = v2 /\ \A x \in Sockets(t1) \ {s} : t2.sockets[x] = t1.sockets[x]
  BY <1>5, <1>6, SocketFades
<1> HIDE DEF t2
<1>8. t2 \in Client /\ Objects(t2) /\ Sockets(t2) = Sockets(st) /\ Conns(t2) = Conns(st)
  BY <1>5, <1>7, FadesObjects DEF Fades
<1>9. v3 \in Socket /\ FadesSocket(t2.sockets[s], v3) /\ ~v3.asked /\ v3.login = 0
  BY <1>6, <1>7 DEF Socket, FadesSocket
<1> HIDE DEF v3
<1>10. /\ Fades(t2, t3) /\ t3.conns = t2.conns
       /\ t3.sockets[s] = v3 /\ \A x \in Sockets(t2) \ {s} : t3.sockets[x] = t2.sockets[x]
  BY <1>8, <1>9, SocketFades
<1> HIDE DEF t3
<1>11. /\ t3 \in Client /\ Objects(t3) /\ Sockets(t3) = Sockets(st) /\ Conns(t3) = Conns(st)
       /\ t3.conns = st.conns /\ t3.conns[c] \in Connection
  BY <1>2, <1>4, <1>7, <1>8, <1>10, FadesObjects, ClientFacts DEF Fades, Conns
<1>12. /\ u4 \in Connection /\ FadesConn(t3.conns[c], u4) /\ u4.alive = t3.conns[c].alive
       /\ u4.receive = n
  BY <1>11 DEF Connection, FadesConn
<1> HIDE DEF u4, n
<1>13. /\ Fades(t3, t4) /\ t4.sockets = t3.sockets
       /\ t4.conns[c] = u4 /\ \A x \in Conns(t3) \ {c} : t4.conns[x] = t3.conns[x]
  BY <1>2, <1>11, <1>12, ConnFades
<1> HIDE DEF t4
<1>14. t4 \in Client /\ Objects(t4) /\ Sockets(t4) = Sockets(st) /\ Conns(t4) = Conns(st)
  BY <1>11, <1>13, FadesObjects DEF Fades
<1>15. /\ u5 \in Connection /\ FadesConn(t4.conns[c], u5) /\ u5.alive = t4.conns[c].alive
       /\ u5.receive = n
  BY <1>12, <1>13 DEF Connection, FadesConn
<1> HIDE DEF u5
<1>16. /\ Fades(t4, t5) /\ t5.sockets = t4.sockets
       /\ t5.conns[c] = u5 /\ \A x \in Conns(t4) \ {c} : t5.conns[x] = t4.conns[x]
  BY <1>2, <1>14, <1>15, ConnFades
<1> HIDE DEF t5
<1>17. t5 \in Client /\ Objects(t5) /\ Sockets(t5) = Sockets(st) /\ Conns(t5) = Conns(st)
  BY <1>14, <1>16, FadesObjects DEF Fades
<1>18. /\ u6 \in Connection /\ FadesConn(t5.conns[c], u6) /\ u6.alive = t5.conns[c].alive
       /\ u6.receive = n
  BY <1>15, <1>16 DEF Connection, FadesConn
<1> HIDE DEF u6
<1>19. /\ Fades(t5, t6) /\ t6.sockets = t5.sockets
       /\ t6.conns[c] = u6 /\ \A x \in Conns(t5) \ {c} : t6.conns[x] = t5.conns[x]
  BY <1>2, <1>17, <1>18, ConnFades
<1> HIDE DEF t6
<1>20. t6 \in Client /\ Objects(t6) /\ Sockets(t6) = Sockets(st) /\ Conns(t6) = Conns(st)
  BY <1>17, <1>19, FadesObjects DEF Fades
<1>21. /\ u7 \in Connection /\ FadesConn(t6.conns[c], u7) /\ u7.alive = t6.conns[c].alive
       /\ u7.receive = n
  BY <1>18, <1>19 DEF Connection, FadesConn
<1> HIDE DEF u7
<1>22. /\ Fades(t6, t7) /\ t7.sockets = t6.sockets
       /\ t7.conns[c] = u7 /\ \A x \in Conns(t6) \ {c} : t7.conns[x] = t6.conns[x]
  BY <1>2, <1>20, <1>21, ConnFades
<1> HIDE DEF t7
<1>23. Fades(st, t4)
  <2>1. Fades(st, t2)
    BY <1>4, <1>7, FadesAgain
  <2>2. Fades(st, t3)
    BY <2>1, <1>10, FadesAgain
  <2> QED BY <2>2, <1>13, FadesAgain
<1>24. Fades(st, t7)
  <2>1. Fades(st, t5)
    BY <1>23, <1>16, FadesAgain
  <2>2. Fades(st, t6)
    BY <2>1, <1>19, FadesAgain
  <2> QED BY <2>2, <1>22, FadesAgain
<1>25. /\ t4.sockets = t3.sockets /\ t7.sockets = t3.sockets
       /\ t3.sockets[s] = v3 /\ \A x \in Sockets(st) \ {s} : t3.sockets[x] = st.sockets[x]
  BY <1>4, <1>5, <1>7, <1>8, <1>10, <1>13, <1>16, <1>19, <1>22
<1>26. \A x \in Conns(st) \ {c} : t4.conns[x] = st.conns[x]
  BY <1>11, <1>13
<1>27. \A x \in Conns(st) \ {c} : t7.conns[x] = st.conns[x]
  BY <1>14, <1>16, <1>17, <1>19, <1>20, <1>22, <1>26
<1>28. /\ t4.conns[c].alive = st.conns[c].alive /\ t7.conns[c].alive = st.conns[c].alive
       /\ t4.conns[c].receive = n /\ t7.conns[c].receive = n
  BY <1>11, <1>12, <1>13, <1>15, <1>16, <1>18, <1>19, <1>21, <1>22
<1>29. Takes(st, t4, s) /\ t4.conns[c].receive = n
  BY <1>9, <1>23, <1>25, <1>26, <1>28 DEF Takes, c
<1>30. Takes(st, t7, s) /\ t7.conns[c].receive = n
  BY <1>9, <1>24, <1>25, <1>27, <1>28 DEF Takes, c
<1> QED BY <1>1, <1>29, <1>30 DEF c, n

LEMMA BreakKeeps ==
  ASSUME Inv, ~client.crashed, NEW s \in DOMAIN client.sockets, Break(s)
  PROVE  Good(client') /\ Tells(client, client')
<1> DEFINE c == client.sockets[s].conn
           receives == Handed(s).login # 0
           ended == Ended(client, s, receives)
<1>1. /\ scenario \in Scenarios /\ client \in Client /\ Objects(client) /\ Stage(client)
      /\ s \in Sockets(client) /\ IsOpen(client, s) /\ Fault("break")
  BY ZenonT(40) DEF Inv, Good, Break, Sockets, IsOpen
<1>2. PICK t \in {ended, Cleared(ended, c)} :
        client' = IF Handed(s).login # 0 THEN Told(t, Handed(s).login, "broken")
                  ELSE IF Handed(s).lookup # 0 THEN HandleError(t, c, Handed(s).lookup)
                  ELSE t
  <2> DEFINE st(clears) == IF clears THEN Cleared(ended, c) ELSE ended
             then(t) == IF Handed(s).login # 0 THEN Told(t, Handed(s).login, "broken")
                        ELSE IF Handed(s).lookup # 0 THEN HandleError(t, c, Handed(s).lookup)
                        ELSE t
  <2>1. PICK clears \in BOOLEAN : client' = then(st(clears))
    BY Zenon DEF Break, Ended, Cleared
  <2>2. st(clears) \in {ended, Cleared(ended, c)}
    OBVIOUS
  <2> HIDE DEF st
  <2> QED BY <2>1, <2>2
<1>3. /\ Takes(client, t, s)
      /\ t.conns[c].receive = IF receives THEN client.conns[c].receive ELSE 0
  BY <1>1, EndedTakes
<1> HIDE DEF ended
<1>4. /\ client.current \in Conns(client) /\ Conn(client) = client.conns[client.current]
      /\ c \in Conns(client)
  BY <1>1, InUse DEF Objects, Shape
<1>5. CASE Handed(s).login # 0
  <2>1. LogsIn(client, s) /\ Handed(s).login = Last(client) /\ Unanswered(client)
    BY <1>1, <1>5, HandedStage DEF LogsIn
  <2>2. /\ t \in Client /\ Objects(t) /\ InHand(t) /\ Last(t) = Last(client)
        /\ LookupIsLast => NoneAsked(t)
    BY <2>1, <1>1, <1>3, LoginTaken
  <2>3. client' = Told(t, Last(t), "broken") /\ "broken" \in Outcomes
    BY <2>1, <2>2, <1>2, <1>5 DEF Outcomes
  <2>4. Good(client') /\ Last(client') = Last(t) /\ Call(client').outcome = "broken"
    BY <2>2, <2>3, TellWorks
  <2>5. Works(t, client')
    BY <2>4 DEF Works
  <2> QED BY <2>1, <2>2, <2>5, <1>1, WorksInHand
<1>6. CASE Handed(s).login = 0 /\ Handed(s).lookup # 0
  <2>1. /\ Handed(s).lookup = Last(client) /\ c = client.current
        /\ \E x \in Sockets(client) : Looks(client, x)
    BY <1>1, <1>6, HandedStage
  <2>2. PICK x \in Sockets(client) : Looks(client, x)
    BY <2>1
  <2>3. Multi /\ LookupMayFail
    BY <2>2, <1>1 DEF Looks, Objects, Shape, LookupMayFail
  <2>4. LookupIsLast => s = x
    BY <2>1, <2>2, <2>3, <1>1 DEF Looks
  <2>5. t.conns[client.current].receive = 0
    BY <2>1, <1>3, <1>6
  <2>6. /\ t \in Client /\ Objects(t) /\ InHand(t) /\ Left(t) /\ t.current = client.current
        /\ Last(t) = Last(client) /\ Call(t) = Call(client) /\ ~Conn(t).loggedIn
        /\ LookupIsLast => NoneAsked(t)
    BY <2>1, <2>2, <2>4, <2>5, <1>1, <1>3, LookupTaken
  <2>7. LookupIsLast => Call(t).left = <<>>
    <3>1. /\ Call(t).left \in Seq(Hosts) /\ Len(scenario.hosts) \in Nat
          /\ Len(Call(t).left) \in Nat
      BY <2>6, <1>1, InHandFacts, AttemptFacts, ScenarioFacts, LenProperties DEF InHand
    <3>2. Call(t).left = <<>> <=> Len(Call(t).left) = 0
      BY <3>1, EmptySeq
    <3>3. Len(Call(t).left) < Len(scenario.hosts)
      BY <2>2, <2>6 DEF Looks, Reaches
    <3>4. ASSUME LookupIsLast
          PROVE  Len(Call(t).left) = 0
      <4>1. Len(scenario.hosts) = 1
        BY <3>4, <2>3 DEF LookupIsLast
      <4> QED BY <4>1, <3>1, <3>3
    <3> QED BY <3>2, <3>4
  <2>8. client' = HandleError(t, t.current, Last(t))
    BY <2>1, <2>6, <1>2, <1>6
  <2>9. Works(t, client')
    BY <2>3, <2>6, <2>7, <2>8, <1>1, HandleErrorWorks
  <2>10. Unanswered(client)
    BY <2>2 DEF Looks
  <2> QED BY <2>6, <2>9, <2>10, <1>1, WorksInHand
<1>7. CASE Handed(s).login = 0 /\ Handed(s).lookup = 0
  <2>1. client' = t /\ t.conns[c].receive = 0 /\ client.sockets[s].login = 0
    BY <1>1, <1>2, <1>3, <1>7, HandedStage
  <2>2. CASE client.conns[c].receive = 0
    <3>1. LookupIsLast => ~client.sockets[s].asked
      <4> SUFFICES ASSUME LookupIsLast, client.sockets[s].asked PROVE FALSE
        OBVIOUS
      <4>1. (Looks(client, s) \/ LogsIn(client, s)) /\ c = client.current
        BY <1>1, AskedHandled
      <4>2. Last(client) > 0
        BY <4>1 DEF Looks, LogsIn, Unanswered
      <4> QED BY <4>1, <4>2, <2>1, <2>2, <1>1, <1>4 DEF Looks, LogsIn
    <3> QED BY <3>1, <2>1, <2>2, <1>1, <1>3, NothingTaken
  <2>3. CASE client.conns[c].receive # 0
    <3>1. ~client.conns[c].alive
      BY <2>3, <1>1, <1>7, HandedStage
    <3>2. PICK x \in Sockets(client) : Looks(client, x)
      <4>1. ~NoLookup(client)
        BY <2>3, <1>4 DEF NoLookup
      <4> QED BY <4>1, <1>1 DEF Stage, Rests, Deferred, Lost, InHand, Opens, LogsIn
    <3>3. c = client.current
      BY <2>3, <3>2, <1>4 DEF Looks
    <3>4. ~LookupIsLast
      <4> SUFFICES ASSUME LookupIsLast PROVE FALSE
        OBVIOUS
      <4>1. IsOpen(client, x) /\ client.sockets[x].asked
        BY <3>2 DEF Looks, OnlyAsked
      <4>2. Conn(client).alive
        BY <4>1, <1>1, AskedHandled
      <4> QED BY <4>2, <3>1, <3>3, <1>4
    <3>5. /\ t \in Client /\ Objects(t) /\ InHand(t) /\ Last(t) = Last(client)
          /\ t.attempts = client.attempts
      <4>1. t.conns[client.current].receive = 0
        BY <2>1, <3>3
      <4> QED BY <3>2, <3>3, <3>4, <4>1, <1>1, <1>3, LookupTaken DEF Takes, Fades
    <3>6. Good(t)
      BY <3>4, <3>5 DEF Good, Stage, Lost
    <3> QED BY <3>5, <3>6, <2>1, TellsSame
  <2> QED BY <2>2, <2>3
<1> QED BY <1>5, <1>6, <1>7

\* The socket is closed, and with it the Connection if it listens.
LEMMA SocketClosedKeeps ==
  ASSUME Inv, ~client.crashed, NEW s \in DOMAIN client.sockets, SocketClosed(s)
  PROVE  Good(client') /\ Tells(client, client')
<1> DEFINE c == client.sockets[s].conn
           v == [client.sockets[s] EXCEPT !.state = "closed"]
           t1 == [client EXCEPT !.sockets[s] = v]
           u2 == [t1.conns[c] EXCEPT !.alive = FALSE]
           t2 == [t1 EXCEPT !.conns[c] = u2]
           u3 == [t2.conns[c] EXCEPT !.queue = FALSE]
           t3 == [t2 EXCEPT !.conns[c] = u3]
           u4 == [t3.conns[c] EXCEPT !.waiting = FALSE]
           t4 == [t3 EXCEPT !.conns[c] = u4]
           u5 == [t4.conns[c] EXCEPT !.closeOnDrain = FALSE]
           t5 == [t4 EXCEPT !.conns[c] = u5]
<1>1. /\ client \in Client /\ Objects(client) /\ Stage(client)
      /\ s \in Sockets(client) /\ client.sockets[s].state = "destroyed"
  BY DEF Inv, Good, SocketClosed, Sockets
<1>2. client' = IF client.sockets[s].listens THEN t5 ELSE t1
  <2>1. client' = IF client.sockets[s].listens
                  THEN [t1 EXCEPT !.conns[c].alive = FALSE, !.conns[c].queue = FALSE,
                                  !.conns[c].waiting = FALSE, !.conns[c].closeOnDrain = FALSE]
                  ELSE t1
    BY Zenon DEF SocketClosed
  <2> HIDE DEF t1, c
  <2>2. t5 = [t1 EXCEPT !.conns[c].alive = FALSE, !.conns[c].queue = FALSE,
                        !.conns[c].waiting = FALSE, !.conns[c].closeOnDrain = FALSE]
    BY Zenon
  <2> HIDE DEF t5
  <2> QED BY <2>1, <2>2
<1>3. /\ client.sockets[s] \in Socket /\ c \in Conns(client) /\ s # 0
      /\ LookupIsLast /\ client.sockets[s].listens => client.conns[c].anchor = s
  BY <1>1, ClientFacts DEF Sockets, Objects, Shape, Anchored
<1> HIDE DEF c
<1>4. v \in Socket /\ FadesSocket(client.sockets[s], v) /\ v.state = "closed"
      /\ v.login = client.sockets[s].login
  BY <1>1, <1>3 DEF Socket, FadesSocket
<1> HIDE DEF v
<1>5. /\ Fades(client, t1) /\ t1.conns = client.conns
      /\ t1.sockets[s] = v /\ \A x \in Sockets(client) \ {s} : t1.sockets[x] = client.sockets[x]
  BY <1>1, <1>4, SocketFades
<1> HIDE DEF t1
<1>6. /\ t1 \in Client /\ Objects(t1) /\ Sockets(t1) = Sockets(client) /\ Conns(t1) = Conns(client)
      /\ t1.conns[c] \in Connection
  BY <1>1, <1>3, <1>5, FadesObjects, ClientFacts DEF Fades, Conns
<1>7. /\ u2 \in Connection /\ FadesConn(t1.conns[c], u2) /\ u2.receive = client.conns[c].receive
  BY <1>5, <1>6 DEF Connection, FadesConn
<1> HIDE DEF u2
<1>8. /\ t2 \in Client /\ DOMAIN t2.conns = DOMAIN t1.conns /\ Len(t2.conns) = Len(t1.conns)
      /\ t2.current = t1.current /\ t2.host = t1.host /\ t2.sockets = t1.sockets
      /\ t2.attempts = t1.attempts /\ t2.immediates = t1.immediates /\ t2.crashed = t1.crashed
      /\ t2.conns[c] = u2 /\ \A x \in DOMAIN t1.conns \ {c} : t2.conns[x] = t1.conns[x]
  BY <1>3, <1>6, <1>7, PutConn DEF Conns
<1> HIDE DEF t2
<1>9. ASSUME client.sockets[s].listens
      PROVE  Fades(t1, t2)
  <2>1. \A x \in Sockets(t1) : FadesSocket(t1.sockets[x], t2.sockets[x])
    BY <1>8 DEF FadesSocket
  <2>2. \A x \in Conns(t1) : FadesConn(t1.conns[x], t2.conns[x])
    BY <1>7, <1>8 DEF FadesConn, Conns
  <2>3. Lives(t1, t2)
    <3>1. ASSUME LookupIsLast, NEW x \in Conns(t1), t1.conns[x].alive, ~t2.conns[x].alive
          PROVE  x = c
      BY <3>1, <1>8 DEF Conns
    <3>2. LookupIsLast => t1.conns[c].anchor = s
      BY <1>3, <1>5, <1>9
    <3>3. ~IsOpen(t2, s)
      BY <1>4, <1>5, <1>8 DEF IsOpen
    <3>4. t1.sockets[s].listens = client.sockets[s].listens
      BY <1>3, <1>5 DEF v, Socket
    <3> QED BY <3>1, <3>2, <3>3, <3>4, <1>3, <1>9 DEF Lives
  <2> QED BY <2>1, <2>2, <2>3, <1>8 DEF Fades, Sockets, Conns
<1>10. ASSUME client.sockets[s].listens
       PROVE  /\ Fades(client, t5) /\ t5.sockets = t1.sockets
              /\ \A x \in Conns(client) : t5.conns[x].receive = client.conns[x].receive
  <2>1. Fades(client, t2) /\ Fades(t1, t2)
    BY <1>1, <1>5, <1>9, <1>10, FadesAgain
  <2>2. t2 \in Client /\ Objects(t2) /\ Sockets(t2) = Sockets(client) /\ Conns(t2) = Conns(client)
    BY <2>1, <1>1, FadesObjects DEF Fades
  <2>3. /\ u3 \in Connection /\ FadesConn(t2.conns[c], u3) /\ u3.alive = t2.conns[c].alive
        /\ u3.receive = client.conns[c].receive
    BY <1>7, <1>8 DEF Connection, FadesConn
  <2> HIDE DEF u3
  <2>4. /\ Fades(t2, t3) /\ t3.sockets = t2.sockets
        /\ t3.conns[c] = u3 /\ \A x \in Conns(t2) \ {c} : t3.conns[x] = t2.conns[x]
    BY <1>3, <2>2, <2>3, ConnFades
  <2> HIDE DEF t3
  <2>5. t3 \in Client /\ Objects(t3) /\ Conns(t3) = Conns(client)
    BY <2>2, <2>4, FadesObjects DEF Fades
  <2>6. /\ u4 \in Connection /\ FadesConn(t3.conns[c], u4) /\ u4.alive = t3.conns[c].alive
        /\ u4.receive = client.conns[c].receive
    BY <2>3, <2>4 DEF Connection, FadesConn
  <2> HIDE DEF u4
  <2>7. /\ Fades(t3, t4) /\ t4.sockets = t3.sockets
        /\ t4.conns[c] = u4 /\ \A x \in Conns(t3) \ {c} : t4.conns[x] = t3.conns[x]
    BY <1>3, <2>5, <2>6, ConnFades
  <2> HIDE DEF t4
  <2>8. t4 \in Client /\ Objects(t4) /\ Conns(t4) = Conns(client)
    BY <2>5, <2>7, FadesObjects DEF Fades
  <2>9. /\ u5 \in Connection /\ FadesConn(t4.conns[c], u5) /\ u5.alive = t4.conns[c].alive
        /\ u5.receive = client.conns[c].receive
    BY <2>6, <2>7 DEF Connection, FadesConn
  <2> HIDE DEF u5
  <2>10. /\ Fades(t4, t5) /\ t5.sockets = t4.sockets
         /\ t5.conns[c] = u5 /\ \A x \in Conns(t4) \ {c} : t5.conns[x] = t4.conns[x]
    BY <1>3, <2>8, <2>9, ConnFades
  <2> HIDE DEF t5
  <2>11. Fades(client, t5)
    <3>1. Fades(client, t3)
      BY <2>1, <2>4, <1>1, FadesAgain
    <3>2. Fades(client, t4)
      BY <3>1, <2>7, <1>1, FadesAgain
    <3> QED BY <3>2, <2>10, <1>1, FadesAgain
  <2>12. t5.sockets = t1.sockets
    BY <2>4, <2>7, <2>10, <1>8
  <2>13. \A x \in Conns(client) : t5.conns[x].receive = client.conns[x].receive
    <3>1. \A x \in Conns(client) \ {c} : t5.conns[x] = client.conns[x]
      BY <2>2, <2>4, <2>5, <2>7, <2>8, <2>10, <1>5, <1>6, <1>8 DEF Conns
    <3> QED BY <3>1, <2>9, <2>10
  <2> QED BY <2>11, <2>12, <2>13
<1> HIDE DEF t5
<1>11. /\ Fades(client, client') /\ client'.sockets = t1.sockets
       /\ \A x \in Conns(client) : client'.conns[x].receive = client.conns[x].receive
  BY <1>2, <1>5, <1>10
<1>12. Steady(client, client')
  <2>1. ASSUME NEW x \in Sockets(client)
        PROVE  /\ client'.sockets[x].login = client.sockets[x].login
               /\ IsOpening(client, x) => IsOpening(client', x)
               /\ IsOpen(client, x) /\ client.sockets[x].asked =>
                    IsOpen(client', x) /\ client'.sockets[x].asked
    <3>1. CASE x = s
      BY <3>1, <1>1, <1>4, <1>5, <1>11 DEF IsOpening, IsOpen
    <3>2. CASE x # s
      BY <3>2, <1>5, <1>11 DEF IsOpening, IsOpen
    <3> QED BY <3>1, <3>2
  <2> QED BY <2>1, <1>11 DEF Steady
<1> QED BY <1>1, <1>11, <1>12, SteadyKeeps, TellsSame DEF Fades

-----------------------------------------------------------------------------
(* The invariant *)

LEMMA InitGood ==
  ASSUME Init
  PROVE  Inv
<1> DEFINE conn == NewConnection("none")
<1>1. /\ scenario \in Scenarios /\ scenario.hosts # <<>> /\ Head(scenario.hosts) \in Hosts
  BY ScenarioFacts DEF Init
<1>2. /\ client.current = 1 /\ client.host = Head(scenario.hosts) /\ client.used = FALSE
      /\ client.conns = <<conn>> /\ client.sockets = <<>> /\ client.attempts = <<>>
      /\ client.immediates = <<>> /\ client.crashed = FALSE
  BY DEF Init
<1>3. /\ conn \in Connection /\ conn.anchor = 0 /\ conn.receive = 0 /\ ~conn.loggedIn /\ ~conn.waiting
  BY DEF NewConnection, Connection
<1> HIDE DEF conn
<1>4. client \in Client
  <2>1. <<conn>> \in Seq(Connection)
    BY <1>3
  <2> QED BY <2>1, <1>1, <1>2 DEF Init, Client, conn
<1>5. /\ Conns(client) = {1} /\ client.conns[1] = conn /\ Len(client.conns) = 1
      /\ Sockets(client) = {} /\ DOMAIN client.attempts = {} /\ Last(client) = 0
  BY <1>2 DEF Conns, Sockets, Last
<1>6. Shape(client)
  BY <1>2, <1>3, <1>5 DEF Shape
<1>7. Objects(client)
  BY <1>2, <1>5, <1>6 DEF Objects, Anchored, Single
<1>8. Rests(client)
  BY <1>2, <1>3, <1>5
     DEF Rests, Answered, NoImmediate, NoOpening, NoLookup, NoLogin, NoneAsked, NoneOpen
<1> QED BY <1>1, <1>4, <1>7, <1>8 DEF Inv, Good, Stage

LEMMA NextKeeps ==
  ASSUME Inv, Patient, Next
  PROVE  Good(client') /\ Tells(client, client') /\ scenario' = scenario
<1>1. ~client.crashed
  BY DEF Next
<1>2. CASE UserConnect
  BY <1>1, <1>2, UserConnectKeeps DEF UserConnect
<1>3. CASE UserClose
  BY <1>1, <1>3, UserCloseKeeps DEF UserClose
<1>4. CASE UserEnqueue
  BY <1>1, <1>4, UserEnqueueKeeps DEF UserEnqueue
<1>5. CASE Immediate
  BY <1>1, <1>5, ImmediateKeeps DEF Immediate
<1>6. ASSUME NEW c \in DOMAIN client.conns, Drain(c)
      PROVE  Good(client') /\ Tells(client, client') /\ scenario' = scenario
  BY <1>1, <1>6, DrainKeeps, ZenonT(40) DEF Drain
<1>7. ASSUME NEW s \in DOMAIN client.sockets, SocketStep(s)
      PROVE  Good(client') /\ Tells(client, client') /\ scenario' = scenario
  <2>1. CASE TcpConnected(s)
    BY <1>1, <2>1, TcpConnectedKeeps DEF TcpConnected
  <2>2. CASE TcpFailed(s) \/ InitInvalid(s) \/ InitFailed(s)
    BY <1>1, <2>2, OpenFailedKeeps DEF TcpFailed, InitInvalid, InitFailed
  <2>3. CASE InitReply(s)
    BY <1>1, <2>3, InitReplyKeeps DEF InitReply
  <2>4. CASE Reply(s)
    BY <1>1, <2>4, ReplyKeeps, ZenonT(40) DEF Reply
  <2>5. CASE SocketClosed(s)
    BY <1>1, <2>5, SocketClosedKeeps, ZenonT(40) DEF SocketClosed
  <2> QED BY <1>7, <2>1, <2>2, <2>3, <2>4, <2>5 DEF SocketStep
<1>8. ASSUME NEW s \in DOMAIN client.sockets, Break(s)
      PROVE  Good(client') /\ Tells(client, client') /\ scenario' = scenario
  BY <1>1, <1>8, BreakKeeps, ZenonT(40) DEF Break
<1> QED BY <1>2, <1>3, <1>4, <1>5, <1>6, <1>7, <1>8 DEF Next, EventStep

\* The scenario stays what it is, and with it what Good says of the objects.
LEMMA SameScenario ==
  ASSUME NEW st, scenario' = scenario
  PROVE  Good(st)' <=> Good(st)
BY DEF Good, Objects, Stage, Shape, Anchored, Single, AllDown, ElsewhereDown, LookupIsLast,
       LookupMayFail, TasksStay, RedirectIsFollowed, Rests, Deferred, Lost, Opens, Looks, LogsIn,
       InHand, Left, Reaches, Failed, Tried, Up, Fault, Multi, Fresh, Ready, NoneOpen, NoneAsked,
       OnlyAsked, Unanswered, Answered, NoImmediate, NoOpening, NoLookup, NoLogin, Last, Call, Conn,
       IsOpen, IsOpening, Sockets, Conns

LEMMA StepKeeps ==
  ASSUME Inv, Patient, [Next]_vars
  PROVE  Inv' /\ [Tells(client, client')]_vars
<1>1. CASE Next
  <2>1. Good(client') /\ Tells(client, client') /\ scenario' = scenario
    BY <1>1, NextKeeps
  <2>2. \A st : Good(st)' <=> Good(st)
    BY <2>1, SameScenario
  <2>3. Good(client)'
    BY <2>1, <2>2
  <2> QED BY <2>1, <2>3 DEF Inv
<1>2. CASE UNCHANGED vars
  <2>1. client' = client /\ scenario' = scenario
    BY <1>2 DEF vars
  <2>2. \A st : Good(st)' <=> Good(st)
    BY <2>1, SameScenario
  <2>3. Good(client')
    BY <2>1 DEF Inv
  <2>4. Good(client)'
    BY <2>2, <2>3
  <2> QED BY <1>2, <2>1, <2>4 DEF Inv
<1> QED BY <1>1, <1>2

LEMMA Invariance ==
  ASSUME Patient
  PROVE  Spec => []Inv
<1>1. Init => Inv
  BY InitGood
<1>2. Inv /\ [Next]_vars => Inv'
  BY StepKeeps
<1> QED BY <1>1, <1>2, PTL DEF Spec

\* The objects, the calls and what the variables of the code hold have their types.
THEOREM TypeCorrect ==
  ASSUME Patient
  PROVE  Spec => []TypeOK
<1>1. Inv => TypeOK
  BY DEF Inv, Good, TypeOK
<1> QED BY <1>1, Invariance, PTL

\* README.md:201: a connect() tells that it could not open a connection only when every host of the
\* list is down, or one that it was sent to, unless the server asked for the tenant may fail.
THEOREM FirstHost ==
  ASSUME Patient
  PROVE  Spec => []FirstAvailable
<1>1. Inv => FirstAvailable
  BY DEF Inv, Good, Objects, FirstAvailable, LookupIsLast, AllDown, ElsewhereDown
<1> QED BY <1>1, Invariance, PTL

\* connect() calls back at most once, and only for the connection that is in use; told of success,
\* the client is connected and logged in, and on the host that a redirect has named unless the
\* option hosts has come before it.
THEOREM AnswersOnce ==
  ASSUME Patient
  PROVE  Spec => [][Tells(client, client')]_vars
<1>1. Inv /\ [Next]_vars => [Tells(client, client')]_vars
  BY StepKeeps
<1> QED BY <1>1, Invariance, PTL DEF Spec

\* Without the option hosts, or without a redirect, that is all that connect() promises.
THEOREM AnswersWhereRedirected ==
  ASSUME Patient, \A s \in Scenarios : s.isList => s.target = None
  PROVE  Spec => ConnectAnswers
<1>1. Inv => RedirectIsFollowed
  BY DEF Inv, RedirectIsFollowed
<1>2. ASSUME Inv, [Next]_vars
      PROVE  [\A a \in DOMAIN client'.attempts :
                LET was == IF a \in DOMAIN client.attempts THEN client.attempts[a].calls ELSE 0
                    now == client'.attempts[a]
                IN now.calls # was =>
                     /\ was = 0 /\ now.calls = 1
                     /\ now.outcome = "ok" =>
                          /\ ReadyState(client', client'.current) = "connected"
                          /\ client'.conns[client'.current].loggedIn
                          /\ now.redirects > 0 => Anchor(client', client'.current).host \in
                                                    {scenario.target} \cup scenario.tenant]_vars
  BY <1>1, <1>2, StepKeeps DEF Tells
<1> QED BY <1>2, Invariance, PTL DEF Spec, ConnectAnswers

\* When every connect() has been answered, no socket is open but the anchor of the connection in
\* use, and none when the last one could not open it: unless a failed lookup leaves hosts to try, or
\* a task waits on a socket that is left for another host.
THEOREM OneSocketLeft ==
  ASSUME Patient
  PROVE  Spec => [](LookupIsLast /\ TasksStay => OneSocket)
<1>1. ASSUME Inv, LookupIsLast, TasksStay
      PROVE  OneSocket
  <2> SUFFICES ASSUME Pending(client) = {}, NEW s \in DOMAIN client.sockets,
                      client.sockets[s].state \in {"connecting", "negotiating", "open"}
               PROVE  /\ s = client.conns[client.current].anchor
                      /\ client.attempts[Len(client.attempts)].outcome # "unopened"
    BY DEF OneSocket
  <2>1. client \in Client /\ Objects(client) /\ Stage(client) /\ s \in Sockets(client)
    BY <1>1 DEF Inv, Good, Sockets
  <2>2. Rests(client)
    BY <2>1, RestsWhenAnswered
  <2>3. IsOpen(client, s)
    BY <2>1, <2>2 DEF Rests, NoOpening, IsOpening, IsOpen
  <2>4. s = Conn(client).anchor
    BY <2>1, <2>3, <1>1 DEF Objects, Single
  <2>5. Call(client).outcome # "unopened"
    BY <2>1, <2>2, <2>3, <1>1 DEF Rests, NoneOpen
  <2> QED BY <2>4, <2>5 DEF Conn, Call, Last
<1>2. Inv => (LookupIsLast /\ TasksStay => OneSocket)
  BY <1>1
<1> QED BY <1>2, Invariance, PTL

\* No handler dereferences a state or an anchor that is gone, unless a failed lookup leaves hosts
\* to try.
THEOREM NeverThrows ==
  ASSUME Patient
  PROVE  Spec => [](LookupIsLast => NeverCrashes)
<1>1. Inv => (LookupIsLast => NeverCrashes)
  BY DEF Inv, Good, Objects, NeverCrashes
<1> QED BY <1>1, Invariance, PTL
=============================================================================
