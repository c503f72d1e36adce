-------------------------------- MODULE Tunnel --------------------------------
(***************************************************************************)
(* From the first socket to the one that packets go through: tcp.js        *)
(* (connect, upgradeSocketToTLS), Proxy.js (HTTP CONNECT and SOCKS5) and   *)
(* the initialization of PhysicalConnection.open.  What a peer answers     *)
(* arrives in chunks of any size.  The proxies and TLS are external.       *)
(***************************************************************************)
EXTENDS Packets

CONSTANTS
  Scenarios,  \* settings and what goes wrong, see TunnelAssumption and Login
  Chunks      \* sizes of the chunks that arrive before the rest does

\* proxy: the kind of proxy; tls: whether TLS is used; method: what the SOCKS5 proxy asks for (0 nothing,
\* 2 user and password, 128 a SAP Cloud token, 255 nothing that the client has); address: the type of the
\* address in its reply; smallest: what an answer that is read in one piece at least begins with.
ASSUME TunnelAssumption ==
  /\ Chunks \subseteq Nat \ {0}
  /\ \A s \in Scenarios :
       /\ s.proxy \in {"none", "http", "socks"} /\ s.tls \in BOOLEAN /\ s.method \in {0, 2, 128, 255}
       /\ s.address \in {1, 3, 4, 9} /\ s.smallest \in {1, 2}

VARIABLES scenario, link

Fault(f) == f \in scenario.faults

\* step: what the client waits for, connecting, greeting, auth, request (the SOCKS5 answers), tls, init,
\* or open or failed; asked: the peer has not answered yet; stream: its cells that have not arrived;
\* gathered: the chunks of the reader; calls, outcome: of the callback; refused: a peer refused or broke.
NewLink == [step |-> "connecting", asked |-> FALSE, stream |-> <<>>, gathered |-> <<>>, reads |-> FALSE,
            socket |-> "open", calls |-> 0, outcome |-> None, refused |-> FALSE]

TunnelInit == scenario \in Scenarios /\ link = NewLink

\* cb
Called(l, outcome) ==
  [l EXCEPT !.calls = @ + 1, !.outcome = outcome, !.step = IF outcome = "ok" THEN "open" ELSE "failed",
            !.reads = FALSE, !.asked = FALSE]

\* The catch of _connectSocks5Proxy, and every other place that gives the socket up
Fail(l) == [Called(l, "error") EXCEPT !.socket = "destroyed"]
Refuse(l) == Fail([l EXCEPT !.refused = TRUE])

\* A request is written, and its answer is read.
Ask(l, step) == [l EXCEPT !.step = step, !.asked = TRUE, !.gathered = <<>>, !.reads = TRUE]

\* connectListener of PhysicalConnection.open, once there is a socket
Connected(l) == Ask(l, "init")

\* The callback of client.connect in tcp.js: over an HTTP proxy TLS is the default.
TunnelMade(l) ==
  IF scenario.tls THEN [Ask(l, "tls") EXCEPT !.reads = FALSE]
  ELSE Connected(l)

\* _sendConnectRequest
SendConnectRequest(l) == IF Fault("longhost") THEN Refuse(l) ELSE Ask(l, "request")

\* _doAuthentication, _doProxyUserPassAuthentication and _doProxySAPCloudAuthentication
DoAuthentication(l, method) ==
  CASE method = 0 -> SendConnectRequest(l)
    [] method \in {2, 128} -> IF Fault("longsecret") THEN Refuse(l) ELSE Ask(l, "auth")
    [] OTHER -> Fail(l)

\* _doHandshake
Greeted(l, data) == IF data[1] # 5 THEN Fail(l) ELSE DoAuthentication(l, data[2])

\* Faulty variant: the version is checked, the status is not.
AuthenticatedAnyway(l, data) == IF data[1] = 1 THEN SendConnectRequest(l) ELSE Fail(l)

\* _checkProxyAuthenticationResult
Authenticated(l, data) == IF data = <<1, 0>> THEN SendConnectRequest(l) ELSE Fail(l)

\* The length of a reply of the proxy, by the type of its address
ReplyLength(data) ==
  CASE data[4] = 1 -> 4 + 4 + 2 [] data[4] = 3 -> 4 + 1 + data[5] + 2 [] data[4] = 4 -> 4 + 16 + 2

\* _readConnectReply
ConnectReply(l, data) ==
  IF Len(data) < 2 \/ data[1] # 5 \/ data[2] # 0 THEN Fail(l)
  ELSE IF Len(data) < 6 THEN l
  ELSE IF data[4] \notin {1, 3, 4} THEN Fail(l)
  ELSE IF Len(data) >= ReplyLength(data) THEN TunnelMade(l) ELSE l

\* ondata of open: the reply must come in one chunk.
INIT_LENGTH == 2
InitReply(l, data) == IF Len(data) < INIT_LENGTH THEN Called(l, "error") ELSE Called(l, "ok")

\* The listeners of 'data'
OnData(l, chunk) ==
  LET data == l.gathered \o chunk
      got  == [l EXCEPT !.gathered = data]
  IN CASE l.step \in {"greeting", "auth"} /\ Len(data) < 2 -> got
       [] l.step = "greeting" /\ Len(data) >= 2 -> Greeted(got, data)
       [] l.step = "auth" /\ Len(data) >= 2 -> Authenticated(got, data)
       [] l.step = "request" -> ConnectReply(got, data)
       [] l.step = "init" -> InitReply(got, chunk)

-----------------------------------------------------------------------------
(* Events *)

\* The socket is connected; over SOCKS5 the greeting is sent.
SocketConnects ==
  /\ link.step = "connecting" /\ link.calls = 0 /\ ~link.asked
  /\ link' = CASE scenario.proxy = "none" -> Connected(link)
               [] scenario.proxy = "socks" -> Ask(link, "greeting")
               [] scenario.proxy = "http" -> [link EXCEPT !.asked = TRUE]
  /\ UNCHANGED scenario

\* The socket cannot be connected, or not with TLS: onError
SocketFails ==
  /\ Fault("refused") /\ link.step \in {"connecting", "tls"}
  /\ link' = Refuse(link)
  /\ UNCHANGED scenario

\* The proxy answers the CONNECT request of HTTP.
HttpAnswers ==
  /\ link.step = "connecting" /\ link.asked
  /\ \/ link' = TunnelMade(link)
     \/ Fault("denied") /\ link' = Refuse(link)
  /\ UNCHANGED scenario

\* TLS is negotiated over the tunnel.
TlsConnects ==
  /\ link.step = "tls"
  /\ link' = Connected(link)
  /\ UNCHANGED scenario

Says(l, cells, refuses) ==
  [l EXCEPT !.asked = FALSE, !.stream = @ \o cells, !.refused = @ \/ refuses]

Address == CASE scenario.address = 1 -> Zeros(4) [] scenario.address = 3 -> <<2, 0, 0>> [] OTHER -> Zeros(16)

\* What a proxy or the server answers; it has a reason to refuse.
PeerAnswers ==
  /\ link.reads /\ link.asked
  /\ link' \in CASE link.step = "greeting" ->
                      {Says(link, <<5, scenario.method>>, scenario.method = 255)}
                        \cup (IF Fault("notsocks") THEN {Says(link, <<4, 0>>, TRUE)} ELSE {})
               [] link.step = "auth" ->
                      {Says(link, <<1, 0>>, FALSE)}
                        \cup (IF Fault("denied") THEN {Says(link, <<1, 1>>, TRUE)} ELSE {})
               [] link.step = "request" ->
                      {Says(link, <<5, 0, 0, scenario.address>> \o Address \o <<0, 0>>, scenario.address = 9)}
                        \cup (IF Fault("denied") THEN {Says(link, <<5, 2>>, TRUE)} ELSE {})
               [] link.step = "init" -> {Says(link, Zeros(INIT_LENGTH), FALSE)}
  /\ UNCHANGED scenario

\* A chunk arrives: one of Chunks, or all that is left.
Sizes(cells) == {n \in Chunks : n < Len(cells)} \cup {Len(cells)}
Arrives(n) == [link EXCEPT !.stream = SubSeq(@, n + 1, Len(@))]

TunnelChunk ==
  /\ link.reads /\ link.socket = "open" /\ link.stream # <<>>
  /\ \E n \in Sizes(link.stream) :
       /\ link.step \in {"request", "init"} /\ link.gathered = <<>> => n >= scenario.smallest
       /\ link' = OnData(Arrives(n), SubSeq(link.stream, 1, n))
  /\ UNCHANGED scenario

\* The proxy closes the socket: the reader is rejected, an HTTP request fails.
PeerCloses ==
  /\ Fault("closed")
  /\ link.step \in {"greeting", "auth", "request"} \/ (link.step = "connecting" /\ link.asked)
  /\ link' = Refuse(link)
  /\ UNCHANGED scenario

\* The socket to a SOCKS5 proxy breaks: onError; the reader still listens to 'close'.
SocketBreaks ==
  /\ Fault("reset") /\ link.step \in {"greeting", "auth", "request"} /\ link.socket = "open"
  /\ link' = [Refuse(link) EXCEPT !.reads = TRUE]
  /\ UNCHANGED scenario

\* 'close' after that rejects the reader, whose catch calls back.
SocketCloses ==
  /\ link.socket = "destroyed" /\ link.reads
  /\ link' = [Fail(link) EXCEPT !.socket = "closed"]
  /\ UNCHANGED scenario

\* The timer of open: the server has not answered.
InitTimeout ==
  /\ Fault("silent") /\ link.step = "init" /\ link.asked
  /\ link' = Refuse(link)
  /\ UNCHANGED scenario

TunnelNext ==
  \/ SocketConnects \/ HttpAnswers \/ TlsConnects \/ PeerAnswers \/ TunnelChunk
  \/ SocketFails \/ PeerCloses \/ SocketBreaks \/ SocketCloses \/ InitTimeout
===============================================================================
