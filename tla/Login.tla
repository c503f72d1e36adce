-------------------------------- MODULE Login --------------------------------
(***************************************************************************)
(* The login and the requests after it, packet by packet                   *)
(* (PhysicalConnection.js send, _addListeners and authenticate,            *)
(* auth/Manager.js and its methods), on a socket that Tunnel opens.  One   *)
(* request at a time, as RequestService has it.  A socket that breaks      *)
(* after it has been opened is in modules Opening and Connection.  The     *)
(* server is external.                                                     *)
(***************************************************************************)
EXTENDS Tunnel

CONSTANTS
  PacketSizeLimit,  \* cells in a packet
  MaxLogins         \* bound on the connections that one client opens in turn

\* secrets: what the settings hold for a login; compress: the option compress; enabled: whether the server
\* compresses by default; methods: how many methods the server answers with; requests: sent after the
\* login, one after the other; replies: what they may be answered with.
ASSUME LoginAssumption ==
  /\ PacketSizeLimit \in Nat /\ MaxLogins \in Nat \ {0}
  /\ \A s \in Scenarios :
       /\ s.secrets \subseteq {"assertion", "token", "cookie", "password", "x509"}
       /\ s.compress \in {"default", "yes", "no"} /\ s.enabled \in BOOLEAN /\ s.methods \in 0..2

VARIABLES
  settings,  \* what Client keeps from one connection to the next
  client,    \* Connection, PhysicalConnection and Manager
  toServer,  \* packets that the server has not read
  server     \* the session on the server

vars == <<scenario, link, settings, client, toServer, server>>

SAML == 1
JWT == 2
SessionCookie == 3
LDAP == 4
SCRAMPBKDF2SHA256 == 5
SCRAMSHA256 == 6
X509 == 7
Asynchronous == {SCRAMPBKDF2SHA256, X509}

LZ4Supported == 1
LZ4Enabled == 2
Flags == {LZ4Supported, LZ4Enabled}

\* A session cookie is that of the server, followed by the id of the terminal.
Cookie == <<8>>
TermId == <<9>>

User == <<7>>

REPLY == 2
ERROR == 5

-----------------------------------------------------------------------------
(* Manager *)

\* The constructor: methods in order; a certificate that is invalid is left out.
Methods ==
  (IF "assertion" \in settings.secrets THEN <<SAML>> ELSE <<>>)
    \o (IF "token" \in settings.secrets THEN <<JWT>> ELSE <<>>)
    \o (IF settings.cookie # <<>> THEN <<SessionCookie>> ELSE <<>>)
    \o (IF "password" \in settings.secrets THEN <<LDAP, SCRAMPBKDF2SHA256, SCRAMSHA256>> ELSE <<>>)
    \o (IF "x509" \in settings.secrets /\ ~Fault("certificate") THEN <<X509>> ELSE <<>>)

\* initialData of the methods; LDAP nests fields.
InitialDataOf(m) ==
  CASE m = SAML -> <<1, 1, 1>> [] m = JWT -> <<1, 1>> [] m = SessionCookie -> settings.cookie \o TermId
    [] m = LDAP -> WriteFields(<<<<1>>, <<1, 1>>>>) [] m = X509 -> <<>> [] OTHER -> <<m>>

InitialData(methods) == <<User>> \o FlattenSeq([i \in DOMAIN methods |-> <<<<methods[i]>>, InitialDataOf(methods[i])>>])

\* The challenge of a method, which LDAP and X509 check, and the proof that answers it
Challenge(m, ok) == IF ok THEN <<m, m>> ELSE <<0>>
Proof(m) == IF m \in {SAML, JWT, SessionCookie} THEN <<>> ELSE <<m, m, m>>
FinalData(m) == <<User, <<m>>, Proof(m)>>

-----------------------------------------------------------------------------
(* PhysicalConnection *)

NewClient ==
  [phase |-> "new",       \* then initializing (methods), waiting (for a reply), ready or failed
   sessionId |-> 0, packetCount |-> -1, compression |-> FALSE, inbox |-> EmptyBuffer,
   handshake |-> None,    \* _handshakeReceive
   methods |-> <<>>,      \* _authMethods
   pairs |-> 0,           \* uninitializedMethods
   pending |-> {},        \* of these, the ones that have not called back
   last |-> None,         \* the variable method after forEach
   initialized |-> <<>>,  \* initializedMethods
   chosen |-> None,       \* _authMethod
   calls |-> 0, outcome |-> None,              \* of the callback of connect
   sent |-> <<>>, got |-> <<>>,                \* messages and replies so far
   asked |-> 0, answers |-> <<>>,              \* requests of user code, outcomes of their callbacks
   crashed |-> FALSE]

\* send
Send(message) ==
  LET segment == RequestCells(message)
      packet  == Packet(client.sessionId, client.packetCount + 1, segment)
      written == IF message.type \notin {AUTHENTICATE, CONNECT} /\ client.compression /\ Len(packet) > MIN_COMPRESS_PKT_LEN
                 THEN Compress(packet) ELSE packet
  IN toServer' = Append(toServer, written)
Sent(c, message) == [c EXCEPT !.packetCount = @ + 1, !.sent = Append(@, message), !.phase = "waiting"]
TooLarge(message) == Len(RequestCells(message)) > PacketSizeLimit - PACKET_HEADER_LENGTH

AuthenticationPart(fields) == [kind |-> AUTHENTICATION, count |-> 1, data |-> WriteFields(fields)]
AuthenticateMessage(methods) ==
  [type |-> AUTHENTICATE, parts |-> <<AuthenticationPart(InitialData(methods))>>]

\* determineCompressionFlags: the option of connectOptions, if there is one
CompressionFlags ==
  CASE scenario.compress = "default" -> {LZ4Supported} [] scenario.compress = "yes" -> Flags [] OTHER -> {}
FlagCells(flags) == IF flags = {} THEN <<>> ELSE <<IF flags = Flags THEN 3 ELSE 1>>
FlagsOf(cells) == IF cells = <<3>> THEN Flags ELSE {LZ4Supported}

ConnectMessage(m) ==
  [type |-> CONNECT,
   parts |-> <<AuthenticationPart(FinalData(m)), [kind |-> CONNECT_OPTIONS, count |-> 1, data |-> FlagCells(CompressionFlags)]>>]

\* The callback of connect
Told(c, outcome) == [c EXCEPT !.calls = @ + 1, !.outcome = outcome, !.phase = IF outcome = "ok" THEN "ready" ELSE "failed"]

\* Connection.connect, once the socket is open
Authenticate ==
  /\ link.outcome = "ok" /\ client.phase = "new"
  /\ IF Methods = <<>>
     THEN /\ client' = Told(client, "error")
          /\ link' = [link EXCEPT !.refused = TRUE]
          /\ UNCHANGED toServer
     ELSE /\ client' = [Sent(client, AuthenticateMessage(Methods)) EXCEPT !.handshake = AUTHENTICATE, !.methods = Methods]
          /\ Send(AuthenticateMessage(Methods))
          /\ UNCHANGED link
  /\ UNCHANGED <<scenario, settings, server>>

\* The connection that cannot be opened is an error of connect.
OpenFails ==
  /\ link.outcome = "error" /\ client.calls < link.calls
  /\ client' = Told(client, "error")
  /\ UNCHANGED <<scenario, link, settings, toServer, server>>

-----------------------------------------------------------------------------
(* Replies *)

\* The callback of a method: when all have called back, the first one is the method.
Initialized(c, m) ==
  LET done == Append(c.initialized, m)
  IN [c EXCEPT !.initialized = done, !.chosen = IF Len(done) = c.pairs THEN Head(done) ELSE None]

\* Manager.prototype.initialize: methods that fail call back with an error, each of them.
PairsOf(fields, methods) ==
  LET pairs == [i \in 1..(Len(fields) \div 2) |-> [method |-> fields[2 * i - 1][1], data |-> fields[2 * i]]]
  IN SelectSeq(pairs, LAMBDA p : p.method \in Range(methods))

Initialize(c, fields) ==
  LET pairs == PairsOf(fields, c.methods)
      good  == SelectSeq(pairs, LAMBDA p : p.data = Challenge(p.method, TRUE))
      later == {m \in Asynchronous : \E i \in DOMAIN good : good[i].method = m}
      now   == SelectSeq(good, LAMBDA p : p.method \notin Asynchronous)
      done  == [c EXCEPT !.phase = "initializing", !.pairs = Len(pairs), !.pending = later,
                         !.last = Last(pairs).method, !.initialized = [i \in DOMAIN now |-> now[i].method]]
  IN IF pairs = <<>> THEN Told(c, "error")
     ELSE IF Len(good) < Len(pairs)
     THEN [Told(done, "error") EXCEPT !.calls = client.calls + Len(pairs) - Len(good)]
     ELSE [done EXCEPT !.chosen = IF later = {} THEN now[1].method ELSE None]

\* The rest of authReceive, when a method has been chosen: CONNECT is sent.
Continue(c) ==
  IF c.chosen # None /\ client.chosen = None
  THEN /\ client' = [Sent(c, ConnectMessage(c.chosen)) EXCEPT !.handshake = CONNECT]
       /\ toServer' = Append(toServer, Packet(c.sessionId, c.packetCount + 1, RequestCells(ConnectMessage(c.chosen))))
  ELSE client' = c /\ UNCHANGED toServer

\* A method that is asynchronous calls back: forEach has set the variable method to the last one.
MethodInitialized ==
  \E m \in client.pending :
    /\ Continue(Initialized([client EXCEPT !.pending = @ \ {m}], client.last))
    /\ UNCHANGED <<scenario, link, settings, server>>

\* connReceive: connectOptions keeps what the reply does not have.
Negotiated(reply) ==
  (IF CONNECT_OPTIONS \in DOMAIN reply.values THEN FlagsOf(reply.values[CONNECT_OPTIONS].data)
   ELSE CompressionFlags) = Flags

\* sessionCookie of the method, which finalize has set to the buffer of the server, or its own
CookieOf(m, field) ==
  CASE m \in {SAML, JWT, X509} -> field [] m = SessionCookie -> settings.cookie \o TermId [] OTHER -> settings.cookie

ConnReceive(c, reply) ==
  LET fields == ReadFields(reply.values[AUTHENTICATION].data)
  IN IF c.chosen = SCRAMPBKDF2SHA256 /\ fields[2] # Proof(c.chosen)
     THEN /\ client' = [c EXCEPT !.crashed = TRUE]    \* finalize throws
          /\ UNCHANGED settings
     ELSE /\ client' = [Told(c, "ok") EXCEPT !.compression = Negotiated(reply)]
          /\ settings' = [settings EXCEPT !.cookie = CookieOf(c.chosen, fields[2])]

\* Connection.receive: the reply goes to the callback of the handshake, or to that of the request.
Receive(c, reply) ==
  CASE reply.kind = ERROR /\ c.handshake # None ->
         client' = Told([c EXCEPT !.handshake = None], "error") /\ UNCHANGED <<toServer, settings>>
    [] reply.kind = REPLY /\ c.handshake = AUTHENTICATE ->
         Continue(Initialize([c EXCEPT !.handshake = None], ReadFields(reply.values[AUTHENTICATION].data))) /\ UNCHANGED settings
    [] reply.kind = REPLY /\ c.handshake = CONNECT ->
         ConnReceive([c EXCEPT !.handshake = None], reply) /\ UNCHANGED toServer
    [] c.handshake = None ->
         /\ client' = [c EXCEPT !.phase = "ready", !.answers = Append(@, IF reply.kind = ERROR THEN "error" ELSE "ok")]
         /\ UNCHANGED <<toServer, settings>>

\* ondataHandler: what the chunk completes, unless decompress throws
Complete(inbox) ==
  LET header == inbox.header
      zipped == client.compression /\ header.packetOptions = PACKET_OPTION_IS_COMPRESSED
  IN IF ~zipped THEN {GetReply(inbox.data)}
     ELSE IF MayDecompress(inbox.data, header.compressionVarpartLength) THEN {GetReply(Decompress(inbox.data))}
     ELSE {}

PacketArrives ==
  /\ link.step = "open" /\ link.stream # <<>> /\ ~client.crashed
  /\ \E n \in Sizes(link.stream) : link' = Arrives(n)

PacketChunk ==
  /\ PacketArrives
  /\ \E n \in Sizes(link.stream) : \E inbox \in {Push(client.inbox, SubSeq(link.stream, 1, n))} :
       /\ link' = Arrives(n)
       /\ \/ /\ ~IsReady(inbox)
             /\ client' = [client EXCEPT !.inbox = inbox] /\ UNCHANGED <<toServer, settings>>
          \/ /\ IsReady(inbox)
             /\ \E reply \in Complete(inbox) :
                  Receive([client EXCEPT !.inbox = EmptyBuffer, !.sessionId = inbox.header.sessionId,
                                         !.got = Append(@, reply)], reply)
          \/ /\ IsReady(inbox) /\ Complete(inbox) = {}
             /\ client' = [client EXCEPT !.crashed = TRUE] /\ UNCHANGED <<toServer, settings>>
  /\ UNCHANGED <<scenario, server>>

-----------------------------------------------------------------------------
(* User code *)

\* A request, when the one before has been answered. One that cannot be serialised throws.
UserRequest ==
  /\ client.phase = "ready" /\ client.asked < Len(scenario.requests) /\ ~client.crashed
  /\ LET message == scenario.requests[client.asked + 1]
         asked   == [client EXCEPT !.asked = @ + 1]
     IN CASE ~CanBeWritten(message) -> client' = [asked EXCEPT !.crashed = TRUE] /\ UNCHANGED toServer
          [] CanBeWritten(message) /\ TooLarge(message) ->
               client' = [asked EXCEPT !.answers = Append(@, "toolarge")] /\ UNCHANGED toServer
          [] OTHER -> client' = Sent(asked, message) /\ Send(message)
  /\ UNCHANGED <<scenario, link, settings, server>>

\* Everything that has been asked is answered.
Done == client.calls > 0 /\ (client.outcome = "ok" => Len(client.answers) = Len(scenario.requests))

NewServer == [read |-> <<>>, sent |-> <<>>, session |-> 0, method |-> None, compression |-> FALSE]

\* connect() again, on another Connection: what can be used once is gone.
Reconnect ==
  /\ Done /\ client.outcome = "ok" /\ settings.logins < MaxLogins
  /\ settings' = [settings EXCEPT !.secrets = @ \ {"assertion", "token"}, !.logins = @ + 1]
  /\ link' = NewLink /\ client' = NewClient /\ server' = NewServer
  /\ UNCHANGED <<scenario, toServer>>

-----------------------------------------------------------------------------
(* The server, which is external *)

Session == 4
ErrorReply == [kind |-> ERROR, resultSets |-> <<>>, values |-> NoValues]
Fields(fields) == <<[count |-> 1, data |-> WriteFields(fields)]>>

\* The methods that it knows what to do with: of a session cookie it has issued, say.
Acceptable(fields) ==
  {m \in SAML..X509 : \E i \in 1..(Len(fields) \div 2) :
     fields[2 * i] = <<m>> /\ (m = SessionCookie => fields[2 * i + 1] = Cookie \o TermId)}

Chosen(methods) ==
  LET n == IF scenario.methods < Cardinality(methods) THEN scenario.methods ELSE Cardinality(methods)
  IN {s \in [1..n -> methods] : IsInjective(s)}

Challenges(s, bad) ==
  [kind |-> REPLY, resultSets |-> <<>>,
   values |-> [k \in {AUTHENTICATION} |->
     Fields(FlattenSeq([i \in DOMAIN s |-> <<<<s[i]>>, Challenge(s[i], s[i] \notin bad)>>]))]]

\* Answers: a reply, the session after it, and whether it is a refusal.
AuthenticateReplies(fields) ==
  LET methods == Acceptable(fields)
      refusal == [reply |-> ErrorReply, server |-> server, refused |-> TRUE]
  IN IF methods = {} THEN {[refusal EXCEPT !.refused = FALSE]}
     ELSE {[reply |-> Challenges(s, {}), server |-> server, refused |-> s = <<>>] : s \in Chosen(methods)}
       \cup (IF Fault("login") THEN {refusal} ELSE {})
       \cup (IF Fault("challenge")
             THEN {[reply |-> Challenges(s, {LDAP, X509}), server |-> server, refused |-> TRUE] :
                     s \in {t \in Chosen(methods) : Range(t) \cap {LDAP, X509} # {}}}
             ELSE {})

ConnectReplies(fields, clientFlags) ==
  LET m       == fields[2][1]
      flags   == {LZ4Supported} \cup (IF scenario.enabled THEN {LZ4Enabled} ELSE {}) \cup (clientFlags \cap Flags)
      options == clientFlags # {} /\ ~Fault("oldserver")
      final   == CASE m \in {SAML, JWT, X509} -> Cookie [] m = SCRAMPBKDF2SHA256 -> Proof(m) [] OTHER -> <<>>
      reply(f) == [kind |-> REPLY, resultSets |-> <<>>,
                   values |-> [k \in {AUTHENTICATION} \cup (IF options THEN {CONNECT_OPTIONS} ELSE {}) |->
                     IF k = AUTHENTICATION THEN Fields(<<<<m>>, f>>) ELSE <<[count |-> 1, data |-> FlagCells(flags)]>>]]
      accepted == [server EXCEPT !.method = m, !.compression = options /\ flags = Flags]
  IN IF fields[3] # Proof(m) THEN {[reply |-> ErrorReply, server |-> server, refused |-> FALSE]}
     ELSE {[reply |-> reply(final), server |-> accepted, refused |-> FALSE]}
       \cup (IF Fault("login") THEN {[reply |-> ErrorReply, server |-> server, refused |-> TRUE]} ELSE {})
       \cup (IF Fault("proof") THEN {[reply |-> reply(<<0>>), server |-> accepted, refused |-> TRUE]} ELSE {})

RequestReplies ==
  {[reply |-> r, server |-> server, refused |-> FALSE] :
     r \in scenario.replies \cup (IF Fault("sql") THEN {ErrorReply} ELSE {})}

Replies(message) ==
  CASE message = None -> {[reply |-> ErrorReply, server |-> server, refused |-> FALSE]}
    [] message # None /\ message.type = AUTHENTICATE -> AuthenticateReplies(ReadFields(message.parts[1].data))
    [] message # None /\ message.type = CONNECT ->
         ConnectReplies(ReadFields(message.parts[1].data),
                        IF message.parts[2].data = <<>> THEN {} ELSE FlagsOf(message.parts[2].data))
    [] OTHER -> RequestReplies

ReplyPacket(a, packetCount) ==
  LET packet == Packet(Session, packetCount, ReplyCells(a.reply))
  IN IF server.compression /\ Len(packet) > MIN_COMPRESS_PKT_LEN THEN Compress(packet) ELSE packet

\* The server reads a packet and answers it, compressed if that has been agreed on.
ServerReads == toServer # <<>> /\ toServer' = Tail(toServer)
ServerAnswers ==
  /\ ServerReads
  /\ \E request \in {ReadRequest(Head(toServer), server.compression)} : \E a \in Replies(request.message) :
       /\ link' = [link EXCEPT !.stream = @ \o ReplyPacket(a, request.packetCount), !.refused = @ \/ a.refused]
       /\ server' = [a.server EXCEPT !.read = Append(@, request), !.sent = Append(@, a.reply), !.session = Session]
  /\ UNCHANGED <<scenario, settings, client>>

-----------------------------------------------------------------------------

Init ==
  /\ TunnelInit
  /\ settings = [secrets |-> scenario.secrets, cookie |-> <<>>, logins |-> 1]
  /\ client = NewClient /\ toServer = <<>> /\ server = NewServer

ClientStep == Authenticate \/ OpenFails \/ MethodInitialized \/ UserRequest
Opening == TunnelNext /\ UNCHANGED <<settings, client, toServer, server>>

Next == Opening \/ ClientStep \/ PacketChunk \/ ServerAnswers \/ Reconnect

Spec == Init /\ [][Next]_vars

\* Node delivers what has arrived, user code asks what it has to ask, the peers answer.
FairSpec ==
  /\ Spec /\ WF_vars(Opening) /\ WF_vars(ClientStep)
  /\ WF_link(PacketArrives) /\ WF_toServer(ServerReads)

-----------------------------------------------------------------------------
(* Properties *)

TypeOK ==
  /\ client.phase \in {"new", "initializing", "waiting", "ready", "failed"}
  /\ link.step \in {"connecting", "greeting", "auth", "request", "tls", "init", "open", "failed"}
  /\ Len(toServer) <= 1 /\ settings.logins \in 1..MaxLogins

\* What a reply says: of each kind of part its value, or a list of the values of all of them.
Meant(reply) ==
  [reply EXCEPT !.values = [k \in DOMAIN reply.values |->
     LET values == [i \in DOMAIN reply.values[k] |-> ReadValue([kind |-> k] @@ reply.values[k][i])]
     IN IF Len(values) = 1 THEN values[1] ELSE ListOf(values)]]

\* PhysicalConnection.send, ondataHandler: however the packets are cut, and compressed or not, the
\* server reads what was sent, numbered without a gap and in its session, and the client gets what
\* the server answered, each once and in order, with no part lost or mixed with another.
PacketsArriveWhole ==
  /\ Len(server.read) + Len(toServer) = Len(client.sent)
  /\ \A i \in DOMAIN server.read :
       /\ server.read[i].message = client.sent[i] /\ server.read[i].packetCount = i - 1
       /\ server.read[i].sessionId = IF i = 1 THEN 0 ELSE Session
  /\ IsPrefix(client.got, [i \in DOMAIN server.sent |-> Meant(server.sent[i])])

\* README "Proxy Support", "Authentication mechanisms": connect calls back once, and with success if
\* neither a proxy nor the server has refused or broken, and with an error if one has; on success the
\* method is the one that the server has accepted. Every request is answered once, and nothing throws.
AnsweredAsAgreed ==
  /\ ~client.crashed
  /\ client.calls <= 1 /\ link.calls <= 1
  /\ client.calls = 1 => (client.outcome = "ok" <=> ~link.refused)
  /\ client.outcome = "ok" => client.chosen = server.method
  /\ Len(client.answers) = client.asked - (IF client.phase = "waiting" /\ client.calls = 1 THEN 1 ELSE 0)

\* connect calls back, and so does every request after it.
ExchangesSettle == []<>Done
===============================================================================
