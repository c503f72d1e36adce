# Verification of node-hdb, the SAP HANA client for Node.js

TLA+ models of the client in `src/lib`, the TLC runs that check them on small
instances, and TLAPS proofs of what the connection guarantees for any number of
tasks. Line numbers are those of the sources beside this directory.

## 1. The system

JavaScript runs one callback at a time. The hard part of the client is not
parallelism but the order of callbacks: user code may call the client from inside any
of its callbacks, the server may answer or close at any moment, and several parts
defer their work with `process.nextTick`, `setImmediate`, streams or crypto callbacks.

| Component | State | Operations | Correct when |
|---|---|---|---|
| **Connection** (`protocol/Connection.js`) | `_state` (messageType, sessionId, receive), `_queue` | open, connect, enqueue, send, receive, disconnect, close, destroy, `_cleanup` | every task is answered once, in order; replies meet their requests; nothing is sent before login |
| **Queue** (`util/Queue.js`) | tasks, busy, running, drain listeners | push, resume, dequeue, abort | one task at a time; never busy without a task in hand; drain only when empty |
| **PhysicalConnection** (`protocol/PhysicalConnection.js`) | socket, `_handshakeReceive`, packet count | open, authenticate, send, destroy | open calls back once; authenticate then connect, in order |
| **ConnectionManager** (`protocol/ConnectionManager.js`) | candidate hosts | openConnection, multi-DB lookup | each host tried once, in order, until one opens |
| **Client** (`Client.js`) | current Connection, settings | connect (open, login, redirect), disconnect, exec, prepare | one answer per connect(); the redirect happens at most once |
| **ExecuteTask + Writer** (`protocol/ExecuteTask.js`, `protocol/Writer.js`) | rows left, LOBs being written, transaction flag | execute, write LOB, commit, rollback | every row sent once, LOBs complete before the next row, all or nothing under auto-commit, and the caller told which unless the connection breaks |
| **ResultSet** (`protocol/ResultSet.js`) | running, finished, closed, buffered packet | pause, resume, close, fetch | rows in order, one fetch outstanding, 'end' then 'close' once, closed on the server |
| **Lob** (`protocol/Lob.js`) | offset, running, finished | read, pause, resume | bytes in order, one request outstanding |
| **Result, Statement** (`protocol/Result.js`, `protocol/Statement.js`) | | turn a reply into callback arguments | every result set fetched before the callback |
| **MessageBuffer** (`protocol/MessageBuffer.js`, `PhysicalConnection._addListeners`) | chunks, header | push, isReady, getData | a packet is delivered whole, once, whatever the chunks |
| **Authentication** (`protocol/auth/*`) | method, challenge, proofs | initialData, initialize, finalData, finalize | the method the server chose, proofs checked |
| **Proxy** (`protocol/Proxy.js`) | SOCKS5 handshake state | greeting, auth, connect | calls back once |
| **Topology, sets** (`protocol/ConnectionTopology.js`, `PhysicalConnectionSet`) | locations, volumes | update, lookup | indexes agree with each other |
| **Codecs** (`Reader`, `Writer`, `Parser`, `data/*`, `part/*`, `request/*`, `reply/*`, `util/bignum`, `util/calendar`) | none | encode, decode | decode inverts encode on the domain of the type |

Interactions: `Client` calls `ConnectionManager`, which calls `Connection.open`, which
opens a `PhysicalConnection`. Requests become tasks of the connection's `Queue`; a task
writes with `Connection.send`, which remembers one callback; `onData` hands it the
reply; the task then calls `next()`. `ResultSet` and `Lob` are event emitters whose
fetch and read requests go through the same queue.

Hard behaviours: callbacks that call the client again (re-entrancy), a server or network
that closes between any two callbacks, work deferred to a later event that finds the
connection gone, errors of one part of a joint operation, LOB streams that deliver in any
pieces, requests that are split over packets. PROJECT.json lists each at its line under
"hazards", with the properties that watch it.

## 2. Modules

| Module | Models | Composes / is mapped to |
|---|---|---|
| `Opening` | Client.connect to its callback: hosts in order, tenant databases, redirects, timeouts, late 'close' events | |
| `Connection` | Connection.js, Queue.js, PhysicalConnection.js from open() to 'close' | |
| `RequestService` | abstract: requests answered in order, once, also on a break | |
| `ConnectionService` | refinement of RequestService by Connection | `Service!Spec` is `ImplementsService` |
| `Packets` | headers, segments, parts, MessageBuffer, compression | |
| `Tunnel` | tcp.js, Proxy.js, TLS, the initialization | extends Packets |
| `Login` | authentication methods, login, compressed and split packets | extends Tunnel |
| `Topology` | ConnectionTopology.js and the updates of Connection | |
| `Session` | session variables, statement context, transactions, on both sides | extends Topology |
| `Results` | exec, prepare, commit: Client.js, Statement.js, Result.js | extends Session |
| `ResultSet` | ResultSet.js and the stream of util/index.js | |
| `ResultSetFetch` | fetch(cb), ResultSetTransform.js | extends ResultSet with the collector |
| `AtomicBatch` | abstract: a batch is stored whole or not at all, and the caller told which unless the connection breaks | |
| `ExecuteTask` | ExecuteTask.js and Writer.js | `Batch!Spec` is `AllOrNothing` |
| `Lob` | Lob.js | |
| `Bignum`, `Decimal`, `Calendar` | arithmetic of bignum.js, zeropad.js, calendar.js; decimals of Writer.js | |
| `Columns` | types: Writer.js and Reader.js | extends Decimal, Calendar |
| `Values` | a row from the parameters to the parsed object: Writer.js, Parser.js | extends Columns |
| `OpeningProofs`, `ConnectionProofs`, `LobProofs` | theorems (section 5) | |
| `ResultSetProofs` | theorems about the stream, and about fetch(cb) on top of them | extends ResultSetFetch |
| `ConnectionServiceProofs` | theorems: the refinement of RequestService, step by step | extends ConnectionService, ConnectionProofs |
| `ResultsProofs` | theorems about the topology, calls, the session and transactions | extends Results |
| `ValuesProofs` | theorems about the calendar, the columns of days and times, and what the Writer refuses | extends Values |
| `ExecuteTaskProofs` | theorems about batches: the refinement of AtomicBatch and the invariants | extends ExecuteTask |
| `MC*` | constants of the runs | |

Everything above the connection (`Results`, `ResultSet`, `Lob`, `ExecuteTask`) sees it as what `RequestService`
says it is, a queue that answers one request at a time, in order, and fails what is left when a FIN breaks it,
but for what `Connection` shows of the other ways to break. `ConnectionService` shows that `Connection` keeps
the promise where the code does. When the socket is reset, or a reply is fatal, onError fails the request in
flight, next() sends the one that waits on the destroyed socket, and _cleanup drops its receive
(Connection.js:219-233, 268-281): that one request is never answered. Each module above has this loss, as the
next section says. Below it, `Login` has the packets of one login and of requests one after the other; which of
several tasks may send them is the matter of `Connection`. `Opening` begins earlier and ends with the login;
what may happen on one socket on the way is refined by `Tunnel` and `Login`.

What could follow: proofs about `Login` and about numerals, streams of arrays and objects, and `execute()` with
result sets that user code reads.

## 3. How the models correspond to the code

**A step** is one callback of the event loop, one call of the API by user code, or the part of
a handler between two callbacks that it makes synchronously. Where user code runs inside a
handler, the rest of the handler is state: `due` (the callback about to be made), `emitting`
(drain listeners left to run), `stack` (user callbacks, each of which returns to the queue's
`next()`). process.nextTick callbacks are in `ticks` and run before other events. Many modules
take a set of scenarios (`Batches`, `FaultSets`, `Scenarios`, `Statements`), each of which
says what is asked for and what may go wrong; an initial state picks one, so that one run has
several questions with small state spaces instead of one with their product.

**Opening.** connect() calls, Connections and sockets are sequences in the record `client`, and the
functions that call each other before they return to the event loop are operators on it.
AUTHENTICATE and CONNECT are one exchange here.

**Connection.** `alive`, `msgType`, `session`, `receive` are `_state`; `hsReceive` is
`_handshakeReceive`; `queue`, `busy`, `running`, `drain` are the Queue; `wire` holds the packets
the server has not answered. `calls` counts how often each task's callback was called, `auth` is
the progress of connect(). An ExecuteTask is a task with several round trips (at most
`MaxRounds`) and gaps between them in which it holds the queue without a packet on the wire.
Faults: FIN (`fin`), reset, SQL errors in replies, fatal transaction errors, failed
authentication, a wrong server proof, parameters that cannot be written; `TooLarge` and
`Unwritable` requests fail in send(). With `Orderly`, user code enqueues nothing after disconnect().

**Packets, Tunnel, Login.** A packet is a sequence of cells, one for each field of a header that somebody reads
again and one for each unit of data; lengths count cells. The header of a packet has five such fields, that of a
segment two, of a part four, data are aligned to two cells, and argument counts and packet sizes have small
limits (`MaxInt16`, `PacketSizeLimit`, `MIN_COMPRESS_PKT_LEN`). `GetReply` puts the parts of a reply together as
Reply.add does, also those that come more than once and those whose value is an array. TCP delivers chunks: of
each of the sizes in `Chunks`, or all the rest. With chunks of one cell every boundary is met; those of five and
seven end with and behind a header. lz4 is a code of runs, which makes long data shorter and can be undone;
cryptographic values are records that match or do not. Length indicators that Fields.js:50 refuses are not sent.
The server, the proxies and TLS are external and modelled from what the client reads.

**Topology, Session, Results.** An address is what the parsing of its text finds (brackets, colons, port); a
volume id has its low bits (up to `INVALID_VOLUME_ID`) and a site, as in the code. The list of locations is a
set, since nothing depends on its order. A record without a port (`NoPort`) takes that of its text; when there
is none either, the record is valid, since validateAndUpdate tests only the range, and its location has no port.
Session has both ends: what the client keeps of variables, transaction and autoCommit, and what the server has
of them (external). `Break` is a FIN, which fails what waits, or a reset; after a reset or a fatal reply
`losing` is the place in the queue of the task that next() will send on the destroyed socket, `Lose` drops its
callback, and `lost` remembers it. Which place it is depends on the tasks ahead of it: behind a fatal reply one
more is told by onError, and a packet that is too large is told by send() and passes the dead socket on to the
next (`LosingAfter`).

**ResultSet, ResultSetFetch.** Rows travel in packets 1..Last. `running`, `finished`, `closed`,
`data`, `connected` are the fields of the result set; `frames` the handleData() calls whose
listeners run; `buffer`, `reading` the read stream. The collector of fetch() takes the rows of a
packet, reads their LOBs one by one, and shares the request queue with the stream. `Impatient`
user code pauses from anywhere, also while a FETCH is outstanding; patient code only in a
listener of 'data', after which no FETCH is sent. `Break` is a FIN (`FinFails`: what waits is failed, then what is
in flight) or stands for a reset and for a fatal reply (`ResetLoses`: of the requests of the result set any one, or none,
is lost; which one, depends on the other requests in the queue). `lost` remembers it.

**ExecuteTask.** The functions of ExecuteTask and Writer call each other up to the next event, so they are
operators on one record `task`; its fields are those of the two objects, the streams, `setImmediate` callbacks
and unanswered requests. Data is counted in units: a row has a fixed size and LOBs with lengths, a packet holds
`PacketSizeLimit` units. Each unit is a token <<row, lob, unit>>; `Tokens` are those of the batch and `Precedes`
is the order in which they must arrive. `tx` and `durable` are what the server has uncommitted and committed.
`link` is the connection. When it breaks under a request (`Break`), the server has carried the request out or
has not, and gives up what is uncommitted; the task gets the same error for both. After a FIN, or a fatal reply,
the next request, a ROLLBACK, fails with the error of the write; after a reset it is lost, since _cleanup drops
its receive, and the task never calls back. When nothing is outstanding, the task is left reading its
parameters, and its next send() throws (LateExecuteCrashes).

**Lob.** Bytes are numbered; `received` is what the listener has got. A chunk is any part of
what follows, up to `ReadSize`, with or without LAST_DATA at the end.

**Bignum to Values.** The algorithms are those of the code with smaller radices: limbs of two
decimal digits instead of seven (`BASE`), halves of 24 values instead of 2^16, and the other
constants chosen so that the same relations hold (MCValues lists them): how many halves a power of
the base has, where the last exact double lies between the bounds of the types, how many limbs a
64-bit number takes. Exactness of doubles is part of the model (`Double`). The calendar has its real
numbers; the day of the newer date types has fewer hours, minutes and seconds. What a type can hold, `Fits`, is
stated without the Writer's checks: the numbers that its bytes stand for (`FitsInt64`, `FitsDecimal`), the days
and times that a stored number is read as (`HasDay`, `HasTime`), a time on the clock, a float that is not infinite.

## 4. Runs

Model values and bounds are in the .cfg files.

| Run | Question | Bounds, and why they are enough |
|---|---|---|
| opening | two connect() in turn: the first available host is used, one socket is kept, every connect() calls back once, and success means logged in where a redirect led | three hosts: one that fails, one to go on with, one as a target; six settings, each with its faults |
| connection_safety | all operations, all faults, requests that are too large or cannot be serialised: replies reach their requests, nothing before login, no stalled queue | two requests, one execute, one disconnect, one close: every pair of operations meets, one waits while another is in flight and user code runs in its callback |
| connection_service | the server may send FIN: the connection implements RequestService, no callback is lost or called twice, close() closes | three requests: one in flight, one waiting, one made later |
| connection_orderly | a server that does not close: no exception reaches the event loop, disconnect(cb) calls back | three requests, two executes of three round trips |
| destroy_loses_task | (violation) "outstanding tasks must fail" when a socket closes | |
| wire | proxies, TLS, every method, compression and its negotiation, chunks: what is sent is what arrives, what was agreed is answered, exchanges end | each kind of proxy with each method, address and refusal; three requests: a compressed one, one that is refused, a small one; two logins from the same settings |
| session | variables, autoCommit, transactions, result sets, LOBs, statements, topology: client and server agree, commits as asked, exec() calls back and leaves nothing open, also after a FIN, a reset or a fatal reply | up to three calls of different kinds, two result sets, two volumes and a second site |
| result_set_stream | the stream: order, backpressure, one FETCH, orderly end, close() at any time, FIN and resets, pause() in a 'data' listener and resume() later | four packets make a first, a middle, an empty and a last one |
| fetch | fetch(cb), with failing FETCH, FIN and resets, and with LOBs whose reading fails: one callback, complete rows, closed before it | the same, two LOBs |
| execute | batches with LOBs in pieces; failing requests, COMMITs, ROLLBACKs and streams, FIN and resets under each; a transaction of the user: all or nothing, in order, the caller is told which unless the connection breaks | packets of six units and LOBs of up to four: a LOB that fits, fills its packet to the unit, is cut once and cut twice |
| lob_read | bytes in order under pauses and errors | eight bytes in chunks of one to three: every position of a pause |
| values | values of every type come back as they were written, no value is refused that fits, and misfits are refused but for the types that the Writer leaves to the server | the bounds of each type, of the limbs and of exact doubles, with neighbours on both sides; days, months and clock times that do not exist |

The passing runs leave out, by a constant, only what the code is known to get wrong: the faults
and user calls in each cfg say which. The following were run by hand, with
`tlc -config <cfg> <MC module>` or with a copy of the cfg of a run in which the constants named are
changed and the property is the one named; TLC finds the property violated in each.

| Name | Configuration | Property | What the code does |
|---|---|---|---|
| DestroyLosesTask | DestroyLosesTask.cfg, the run destroy_loses_task | ClosedTasksHaveFailed | after destroy(), the callback of the task in flight is never called (Connection.js:268-273) |
| LateExecuteCrashes | LateExecuteCrashes.cfg (MCConnection) | ClosedTasksHaveFailed | an ExecuteTask that collects parameters when the connection closes throws in the event loop (Connection.js:299-301) |
| QueuedExecuteCrashes | QueuedExecuteCrashes.cfg (MCConnection) | NoTaskLeftQueued | Queue.abort calls `receive` of an ExecuteTask, which has none (Queue.js:67) |
| FailedLogin | FailedLogin.cfg (MCConnection) | FailedLoginDisconnects | after a failed login the state is 'connected'; README.md:150 says 'disconnect' (Connection.js:157) |
| DisconnectCloses | DisconnectCloses.cfg (MCConnection) | DisconnectKeepsSocket | disconnect() destroys the socket that README.md:160 says can be used again (Connection.js:541-545) |
| LookupFailure, LookupCrash, LookupHangs | Opening.cfg with `Scenarios <- LookupFails` | OneSocket, NeverCrashes, ConnectSettles | when the lookup of a tenant database fails, the late 'close' of that socket meets the next host's; connect() may throw or never call back (ConnectionManager.js:74-83) |
| RedirectIgnored | Opening.cfg with `Scenarios <- RedirectWithHosts` | ConnectAnswers | the option hosts, when given, comes before the target of a redirect: connect() succeeds elsewhere (Client.js:147-152) |
| RedirectLosesToken | Opening.cfg with `Scenarios <- TokenBeforeRedirect` | RedirectKeepsToken | the second login of a redirect has no token any more (Client.js:139) |
| InvalidReply | Opening.cfg with `Scenarios <- ShortReply` | NoneIgnored | a socket whose initialization reply is too short stays open (PhysicalConnection.js:117-121) |
| EarlyTask | Opening.cfg with `Scenarios <- TaskBeforeRedirect` | OneSocket | a task waiting when a redirect closes the connection keeps its socket open (Client.js:139) |
| OverlappingConnects, OverlappingCrash | Opening.cfg with `Impatient = TRUE`; `Scenarios <- Plain`, `ToTenant` | OneSocket, NeverCrashes | a second connect() before the first has called back (Connection.js:141) |
| CloseLosesConnect | Opening.cfg with `Impatient = TRUE`, `Scenarios <- Plain` | ConnectSettles | close() during connect(): the callback is never called |
| ProxyReset | Wire.cfg with `Scenarios <- ResetScenarios` | AnsweredAsAgreed | an error of the proxy's socket calls back, and its 'close' event again (Proxy.js:115-118) |
| ProxyTrickle | Wire.cfg with `Scenarios <- TrickleScenarios`, `Chunks = {1}` | AnsweredAsAgreed | a reply of the proxy in chunks of one byte is refused (Proxy.js:185) |
| ServerProof | Wire.cfg with `Scenarios <- ProofScenarios` | AnsweredAsAgreed | a wrong proof of the server throws out of the socket's listener (SCRAMSHA256.js:82-92, PhysicalConnection.js:209) |
| ManyRows | Wire.cfg with `Scenarios <- ManyRowsScenarios` | AnsweredAsAgreed | more arguments than an Int16 holds throw in send() (request/Part.js:40) |
| TwoChallenges | Wire.cfg with `Scenarios <- TwoChallengesScenarios` | AnsweredAsAgreed | two methods whose challenges are wrong call back twice (auth/Manager.js:99-111) |
| CookieGrows | Wire.cfg with `Scenarios <- CookieScenarios`, `MaxLogins = 3` | AnsweredAsAgreed | the cookie of a later login ends with the terminal id twice (SessionCookie.js:25) |
| OldServer | Wire.cfg with `Scenarios <- OldServerScenarios` | PacketsArriveWhole | without the option in the reply, the client keeps compressing (PhysicalConnection.js:202-208) |
| RepeatedContext | Wire.cfg with `Scenarios <- RepeatedScenarios` | PacketsArriveWhole | a part whose value is an array (of options) and that comes again is pushed among the elements of the first one (reply/Segment.js:196-203, data/Options.js:28-35) |
| LostVariables | Session.cfg with `Scenarios <- TooLarge` | MirrorsServer | session variables of a packet that is not sent are forgotten (Connection.js:283-305) |
| LobErrorLeaks | Session.cfg with `Scenarios <- LobFails` | ExecSettles | after an error of an output LOB the result sets stay open on the server (Result.js:150-157) |
| ResultSetPauses | ResultSetPauses.cfg (MCResultSet) | RowsInOrder | pause and resume during a FETCH ask for a second packet, which may overwrite the first (ResultSet.js:346) |
| FetchErrorLost | FetchErrorLost.cfg (MCResultSetFetch) | FailureIsReported | a break with a FETCH and a READ LOB outstanding throws before fetch() calls back (ResultSet.js:202-204) |
| BatchLeftOpen | Execute.cfg with `Batches <- TooLarge` | LeavesTransactions | a row larger than a packet, after others were sent, ends the task without ROLLBACK (ExecuteTask.js:194-196) |
| StreamErrorSendsTwice | Execute.cfg with `Batches <- TwoLobs` | OneRequest | a stream that failed before its turn: the callback gets the error, and the packet is sent too (Writer.js:279-284) |
| StreamErrorHangs | Execute.cfg with `Batches <- TwoLobs` | Settles | the second stream fails while the first is read: its stored error is never looked at (Writer.js:234-252) |
| LobResumes | LobResumes.cfg (MCLob) | BytesInOrder | pause and resume during a READ LOB deliver the bytes twice (Lob.js:91) |
| SignedZero, LargeZero, NoDigits | Values.cfg with `Kinds = {"signedZeros"}`, `{"largeZeros"}`, `{"noDigits"}` | RefusesMisfits | "-0" and "0e20" are refused for FIXED columns, "-" is taken for a number (Writer.js:614-634, 583, 1031) |
| LargeExponent | Values.cfg with `Kinds = {"largeExponents"}`, `ExpRange = 16`, `EXP_BIAS = 6` | ReadsWhatWasWritten | an exponent beyond the format wraps around (bignum.js:167-178) |
| TrailingZeros | Values.cfg with `Kinds = {"hundreds"}`, `Normalises = FALSE` | ReadsWhatWasWritten | zeros at the end of a mantissa that the server keeps (bignum.js:326-328) |
| SkippedDays | Values.cfg with `Kinds = {"skippedDays"}` | RefusesMisfits | 1582-10-05 to 14 are taken for valid days, which no number stands for (calendar.js:24-62, 101) |
| LeapDays | Values.cfg with `Kinds = {"leapDays"}` | RefusesMisfits | the leap days of Julian centuries, such as 1500-02-29, are refused, although DAYDATE and DATE know them (calendar.js:101-116) |
| NestedRows | Values.cfg with `Kinds = {"interleavedRows"}` | ReadsWhatWasWritten | nested rows of tables whose columns are not beside each other (Parser.js:232-258; README.md:394) |

Five properties have the one exception that a break makes necessary, and no other: after a reset or a fatal
reply one request is lost, so one close(cb) of `CloseSettles`, the stream or fetch() of `StreamEnds` and
`FetchSettles`, and one exec() of `ExecSettles` may stay without an answer. The task of `Settles` may, when its
request is the one, or its ROLLBACK is sent on the dead socket. Everything else that waits must be told.
`AllOrNothing` has no exception but a weaker promise: when the connection broke before the callback, an error
leaves open whether the batch is stored; the code cannot know, and does not say. Before a break, an error means
that nothing is.

`RefusesMisfits` leaves out misfits of `Unchecked` types: the Writer does not look at the range of BIGINT, REAL,
DOUBLE, DATE, TIME and TIMESTAMP (Writer.js:525-553, 721-795). The run has such values: 2^63 wraps to -2^63, a
REAL that is too large becomes infinite, day 45 of month 13 and 23:59:65 are sent as they are. No value of these
types that fits is refused either.

Two more are known from runs with other constants: an oversized request and a FIN call the
callback twice (`AtMostOnce` with `TooLarge` and `fin`), and a request queued behind DISCONNECT is
written to the destroyed socket and never answered (`ImplementsService` with `Disconnects`).

CHECK_DEADLOCK is off: user code may stop calling, and every model comes to rest when its
connection is closed, its stream has ended or its row has been read.

**Fairness.** Handlers run to completion and the event loop serves every event that has
happened: weak fairness of the handler actions, of `NextTick`, of replies (the server answers
what it has received) and of 'close' after a socket is destroyed. connect() is fair because
Client calls it in the callback of open(). In `Opening` every event that has happened is served and
a host that is down is noticed, by its error or by the timeout. In `Login` the client runs, bytes
that were sent arrive and the server reads what has arrived; nobody who stays silent is assumed to speak.
In `Results` the client and the server go on. The stream consumer and the LOB reader are assumed to
go on reading, user code to resume a result set it has paused, a LOB stream to end or fail. No
fairness is assumed of other calls of user code, of FIN, resets and other faults. Weak fairness
is enough: what disables one of these actions for good (a break, a resume by the stream) does
its work or ends the wait for it. What a dead socket has been handed is answered by nobody: no fairness is assumed of it.

## 5. Proofs

**Opening** (`OpeningProofs`), for any hosts, tenant databases, targets of redirects, faults and number of calls:
`TypeCorrect`, `FirstHost` (`FirstAvailable`), `AnswersOnce`, `AnswersWhereRedirected` (`ConnectAnswers`),
`OneSocketLeft` (`OneSocket`) and `NeverThrows` (`NeverCrashes`). All assume `Patient`: user code does not call
connect() or close() while a connect() is unanswered (OverlappingConnects, OverlappingCrash and CloseLosesConnect in
section 4). Three more hypotheses are conditions inside the theorems, each the complement of what a scenario of
section 4 shows the code to get wrong:
- `LookupIsLast`, for `OneSocketLeft` and `NeverThrows`: when the server that is asked for the tenant database may fail,
  there is no second host to go on with (LookupFailure, LookupCrash);
- `TasksStay`, for `OneSocketLeft`: no task waits on a connection that a redirect or a tenant database may leave (EarlyTask);
- for `AnswersWhereRedirected`, no setting with the option hosts is redirected (RedirectIgnored). `AnswersOnce` is
  without it: there the last part of what success means is conditional.

None of the properties is inductive. The code has no object for a connect(): it is whatever closure some
socket, some tick or some field of a Connection still holds. The invariant `Inv` says that the unanswered one is
in one place at a time: the tick of a connect() that fails at once (`Deferred`), a socket that is being
opened (`Opens`) or asked for the tenant database (`Looks`), a login that is being answered (`LogsIn`), nowhere, after a
failed lookup that left hosts to try (`Lost`), or there is none (`Rests`). Each place says
what is known there of the hosts that were tried (`Left`, `Reaches`, `Failed`), from which `FirstHost` follows. With the
place goes `Objects`: sockets, Connections and calls refer to each other (`Shape`); of the sockets only an anchor may end
its Connection (`Anchored`), which is what the late 'close' of an abandoned socket must not do; and only the anchor of the
connection in use is open (`Single`). The two latter need the hypotheses above, and carry them. Most steps, and most calls
inside them, only take away: sockets get destroyed, Connections end. `Fades` says so, `FadesObjects` that this keeps
`Objects`, and `SteadyKeeps` when it keeps the place. Each function of the code has lemmas that say which
place it ends in (`...Works`), each step of Next one that it keeps the invariant and tells no call twice (`...Keeps`).

**Connection** (`ConnectionProofs`), for any sets of tasks, faults and bounds: `TypeCorrect`,
`RepliesMatch` (`ReplyMatchesRequest`), `LoginFirst` (`NoRequestBeforeSession`) and `NoStall`
(`QueueNeverStalls`), from `TaskAssumption`, `BoundAssumption` and `FaultAssumption`. None of the three is
inductive. The protocol has no request identifiers, so that one packet is outstanding is a matter of
who may send: the argument is that at any moment at most one thing holds the right to send. The
inductive invariant says which: the handshake (`auth` on its way, the queue paused), or the task in
hand (`busy`: in its gap, on the wire, its callback due or on the stack), or nobody. With it go
the phases of the login (nothing of a session before `auth` is "ok") and that the queue runs only
after the login. Each lemma treats the helper operators (`Enqueue`, `Dequeue`, `Run`, `ClearQueue`,
`Settle`) once; each step of Next is one step of the proof. `SendableOnce` and `CalledAtMostOnce`
(`AtMostOnce`) rest on a second invariant, which holds on closed connections too: a task whose packet
fits and can be written is in one place at a time (queued, behind 'drain', collecting parameters,
expecting a reply, about to be called back), and in none once it has been called back. The first
needs no assumption beyond the three; the second adds `TooLarge = {}` and `Unwritable = {}`, and
section 4 says how a request that is not sent breaks it.

`NoCrash` (`NeverCrashes`, same module) adds `Careful`. An exception reaches the event loop when Queue.abort meets
an ExecuteTask, when an ExecuteTask or the callback of manager.initialize sends without a connection, and when the
server's proof is wrong. So: no wrong proof; if there are ExecuteTasks, nothing ends the connection but
close() and disconnect(), and no task is enqueued behind a disconnect(); if the proof is computed in the background,
nothing ends the connection but disconnect(). TLC finds the exception as soon as one of these is
dropped (section 4 has the ones that the repository's own words exclude), but for a fatal error in the reply to
the first packet of the login. The invariant: ExecuteTasks are never behind a disconnect() in the queue, and none
is left once the connection has been left or is about to be (`Leaving`: the socket is gone, listeners of 'drain' run, or
a disconnect() has been sent or is being answered); and a connection that has been left has its login behind it.
That a disconnect() finds no ExecuteTask in its gap is the right to send again.

**The service of a connection** (`ConnectionServiceProofs`), for any tasks, each with any number of round trips:
`ServesInOrder`, the safety part of `ImplementsService`, that is, `Connection` starts as `RequestService` and
each of its steps is one of it or a stutter; and `ClosedTasksFail` (`ClosedTasksHaveFailed`). Both assume
`Reliable`: FIN and errors of the server in replies and in the login may happen, but no reset or fatal error, no
disconnect() or destroy() by user code, every packet can be sent, and no ExecuteTask meets a FIN. Each of these
breaks the promise in the code (section 4), and the hypothesis excludes no more: tasks made in callbacks,
ExecuteTasks on a server that stays, close() at any time, failed logins and a wrong proof are all within it. The
mapping takes the one task that has left the queue and was not called back, followed by the queue. That it is
one task, and that the task that calls back is the one that is served, is what the right to send and "in one
place at a time" above say of an open socket. `Calm` says it of a closed one: nothing is queued or expected any
more, only the callback that is due is still to be made. Every step of Next has a lemma "...Served", which says
which of Submit, Answer, Refuse, Break and the stutter it is; the callback of a task that enqueues another comes
down to the same four. For `ClosedTasksFail` the simulation is used: a step of RequestService loses no request
(`MovesKeep`), so a task that user code has enqueued is settled, served or queued (`Accounted`), and on a closed
socket the last two are empty.

**Lob** (`LobProofs`), for any length and read size and as long as nobody resumes a LOB whose
READ LOB is outstanding (`~Impatient`; LobResumes.cfg shows that the assumption is needed):
`TypeCorrect`, `InOrder`, `CompleteAtEnd`, `OneAtATime`. The invariant is that `received` is
exactly the bytes before `offset`, that what is kept or asked for starts at `offset`, and that a LOB
has finished exactly when `offset` is behind the last byte. The step that appends a chunk is the
lemma `HandleDataAppends`.

**Topology** (`ResultsProofs`), for all addresses, ports, volume ids and lists of records, from
`TopologyAssumption`: `TypeCorrect` and `FollowsServer` (`LocationsFollowServer`). The code changes a list
record by record while it walks through the reply, and gives up in the middle when a record cannot
be used; the invariant is that after each update the locations are exactly those of the last complete
list, one per volume, or the topology is ignored for good.

**A session** (`ResultsProofs`), for any number of calls, result sets, LOBs and variables and all
faults. Four invariants, each for one question, and each on top of the ones before:
- `CallsInv`, where a call is: a call that has not called back has one request or one tick of its
  own, which says at which of its result sets and LOBs it is; requests fit the calls they were made for. `OneCallback`,
  `ResultsTypeCorrect` and the types of all messages follow. The requests that close result
  sets after the callback are the ones that may be many.
- `TopologyNext`: receive() is the only step that touches the locations, so Results implements `TopologySpec`
  (`SessionTopology`), and `FollowsServer` above is `SessionLocations` (`LocationsFollowServer`).
- `MirrorInv`, what client and server know of each other, by the stage of the packet: before it is
  served the client is right about the transaction and the context; in between the reply says what has changed;
  and the server will be right about each variable that is not flagged once it has read what the packet carries.
  `SessionMirrored` (`MirrorsServer`) follows; on the variables it assumes `Lossless`, that no packet was refused that may
  have carried one, because send() forgets them then (LostVariables in section 4).
- `WritesInv`, what is committed: the first requests of the calls are queued, sent and served in the
  order of the calls (`OrderInv`); whatever a queued or sent request will commit, user code has asked for
  (`AllowedInv`); and what a reply or a callback says of a write, a commit or a rollback is what has become of it
  (`OutcomeInv`). `WritesCommitted` (`CommitsAsAsked`) follows from the three. None is inductive alone: that a commit
  covers the writes ahead of it rests on the order, and the order on one request per call.
A fifth, `LossInv`, gives `AtMostOneLost` (`LosesOne`, part of `ExecSettles`): however the connection ends and
however many requests wait, at most one is never answered, since the place `losing` only comes nearer and is used up by `Lose`.

The lemma `ServeEffect` says once what the server does, `StepCases` and the `...Moved` lemmas what the
client does: each step takes requests from one place to another and changes the outcome of one call.

**ResultSet** (`ResultSetProofs`), for any number of packets, any of them empty, any size of the stream's
buffer, any number of calls and all faults, when user code pauses only in a listener of 'data' (`~Impatient`;
ResultSetPauses.cfg shows that the assumption is needed): `TypeCorrect`, `InOrder` (`RowsInOrder`),
`BoundedBuffer` (`Backpressure`), `OneFetchAtATime` (`OneFetch`) and `EndsOnce` (`EndThenClose`). The invariant
`Core` has five parts, which hold whoever closes the result set. `Flow`: `running` is "yes" only while the
buffer has room, and a FETCH is outstanding or due only while it is "yes" or the result set has finished.
`Position`: a packet is in one place, kept in `data`, being handled, or still to be fetched. `Closing`: CLOSE is
sent or due only once the result set has finished, and no FETCH is behind it. `Order`: what has been pushed are
exactly the packets up to the one that was handled last. `Ending`: 'end' has been emitted or is due exactly when
the result set has finished, 'close' only behind it. `EndsByItself` adds that a result set which user code does
not close finishes when its last packet has been handled. A break that loses a request takes it out of the list,
which keeps the order of the others (`BreakFails`, `BreakStep`). The lemma `HandleDataFacts` treats the three
ways of a packet into the stream, `ResumeStep` the two callers of resume(), and each other step of Next is a
lemma of its own.

**fetch(cb)** (`ResultSetProofs` too), for any number of packets and LOBs, any sizes of the buffers and all
faults, without a further hypothesis: `FetchAnswersOnce` (`FetchCallsBackOnce`) and `FetchCollectsAll`
(`FetchIsComplete`). The requests and events of the collector share the queues of the stream and leave
`Core` alone (`OtherwiseSame`, `FetchCore`); three parts are added to it. `Callback`: done() is called once, and from then
on exactly one thing calls back or has done so, the close() that is due, its outstanding CLOSE, or the callback
itself. `Released`: the server holds no result set that the client takes for closed, none whose last packet went out with
the attribute that closes it, and none without a connection; so the callback comes when the server has let go of it,
unless CLOSE itself has failed. `Collected`: without an error the result set finishes by its last
packet, and done() is called when buffer and collector are empty and all that was delivered has been collected. Most
steps do not touch the callback: `QuietStep` says what such a step may do, once for all of them.

**ExecuteTask** (`ExecuteTaskProofs`), for any batches of any rows, with any number of LOBs of any length, any packet
sizes with `SizeAssumption`, and failures of requests, COMMIT, ROLLBACK and the stream that is read: `TypeCorrect`,
`ReceivedInOrder` (`RowsInOrder`), `CompleteWhenDone` (`SuccessIsComplete`), `PacketsFit` (`PacketFits`),
`NoTransactionLeft` (`LeavesTransactions`) and `ImplementsBatch` (`AllOrNothing`, the refinement of AtomicBatch).
All assume `FailsInTurn`: no stream fails while another one is read. In the code such a failure lets the task
go on after it has called back (StreamErrorSendsTwice in section 4); TLC then finds `SuccessIsComplete` and
`LeavesTransactions` violated and, on small batches, the others still true, but the invariant that proves them
is not. `NoTransactionLeft` assumes `RowsFit` too, and BatchLeftOpen shows why. The invariant `Inv`:
- where the data is: the server's tokens, then those of the request under way, then those that are packed are in
  order, and are all tokens before `Position`, the next one the Writer will pack (`UpTo`); the LOBs that are left
  are the last ones of the row, and nothing has been read of a LOB behind the position.
- who acts next: the task has not started (`Starts`), reads a stream (`Reading`), has one deferred call (`Defers`),
  waits for one reply (`Waits`) or has called back (`Ends`), and never two of these. So a reply meets the callback
  of its request, and the callback of the task is called once.
- what is open: until the task ends nothing is committed, and under auto-commit the server holds nothing
  until the task has taken the transaction over (`Uncommitted`).
- sizes: what is packed fits up to each LOB unit (`Fits`), and `room` is what is left of `PacketSize`.
- after a break (`CutOff`): nothing is uncommitted, what is committed is the batch or nothing and stays so, and the
  callback says no success. The task goes on as before with what it believes the server to have, which is no
  longer so; the invariant of the task holds of some data `d` and `x` in place of `durable` and `tx`.

`ImplementsBatch` therefore covers the lost reply of a COMMIT, or of an auto-commit EXECUTE, that the server has
carried out: that step is `Break` of AtomicBatch, which stores the batch and may tell the caller an error.

Each function of the code has a lemma that says which of these states it ends in (`...Works`), each step of Next one
that it keeps `Inv` (`...Keeps`). Under them are lemmas about `Precedes` and `Position` (a unit, LAST_DATA or a row that is
packed is the next token) and about `SizeUpTo`, whose sums exist for sequences of any length (`SumsExist`; the
induction is over a set of numbers, `SetInduction`, since the library's rule takes an operator).

**Values** (`ValuesProofs`). Three questions:
- *The calendar*, with its real numbers. `DaysComeBack`: DATE finds the day that DAYDATE has counted; `DaysInRange`: no
  day has the number that stands for NULL; `NumbersComeBack`: every number in the range is that of a day. "Days" are
  those that isValidDay accepts, without the ten that the calendar leaves out (SkippedDays in section 4), and with
  the leap days of the Julian centuries, such as 1500-02-29, which are read but not accepted when they are written
  (calendar.js:101-116). TLC has a few hundred days, these are all 3652061. The argument counts years
  from March (`MarchDay`), so that the leap day is the last one. The days from 1582-10-15 on have the numbers from
  GREGORIAN on (`ErasAgree`); the century that DATE finds is then that of the year (`Centuries`), so the correction that
  DAYDATE has added is taken off again (`ShiftedNumber`), and quotients with 365.25 and 30.6001 find year and month
  (`YearOf`, `MonthOf`). The other direction finds a year and a month for every number (`JulianDayExists`,
  `GregorianDayExists`).
- *Columns of days and times*: `DayDatesKept`, `SecondTimesKept`, `SecondDatesKept`, `LongDatesKept`: a valid value
  is not refused, is not taken for NULL, and is read back, whatever `HOURS`, `MINUTES`, `SECONDS` and `TICKS` are (the run
  has 2, 3, 4 and 10). The days are those of the calendar but the ten; the last one assumes that the parts of a second are
  fewer than `TICKS`, which the digits they are cut from ensure.
- *What the Writer refuses*, for any statements and the types but FIXED and DECIMAL: `MisfitsRefused`
  (`RefusesMisfits`). One lemma for each family of types compares the Writer's checks with what the type can
  hold, which is stated apart from them: that isValidDay accepts only days which some number in the range is
  read as, and refuses only days that none is, is `ValidDays`, from the theorems about the calendar;
  `ValidTimes` finds the number of each valid time and shows that the others have none. Of `Unchecked` types the
  theorem says that nothing that fits is refused. The invariant `ValuesInv` adds that a value is left while the
  Writer writes. The hypothesis `StatementsExpected` says what columns get: integers that were converted, times
  and lengths made of digits, no skipped day and no Julian leap day (SkippedDays, LeapDays in section 4). FIXED
  and DECIMAL are left to the run, and so are two facts about digits that are hypotheses in it: the first three
  are below 1000, and a fraction is none exactly when its digits are zero.

**Only model-checked**: liveness (the prover does not reason about ENABLED and fairness), with it
the fairness of `ImplementsService`; `ReadsWhatWasWritten`, where strings of digits become limbs and a row is a
sequence of cells of any length; and what is stated about Login. The folds in these modules compute over sequences of
any length; facts about them need induction over data.

## 6. Not modelled

- The cryptography of the authentication methods and of TLS, certificates and the contents of tokens: values
  match or they do not. The format of lz4; length indicators of fields that the client refuses (Fields.js:50).
- Encodings of text (CESU-8, hexadecimal), the inside of spatial and vector values, parts made of options
  beyond the options that decide something, Stringifier: conversions that no other state depends on.
- Parsing of the options `hosts` and `databaseName` into lists; options of sockets; the trust store.
- `execute()` in Client and Statement, whose result sets user code reads itself: module `ResultSet` has
  these; streams of arrays and objects, which pipe the same stream; Lob.createReadStream likewise.
- isValid() and the client's ping, `getAvailableSize` of client info, locator identifiers, rows affected.
- PhysicalConnectionSet: it holds one connection in this version of the code.
- Constants, environment and traces: tables, input and output without behaviour over time.
