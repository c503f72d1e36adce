----------------------------- MODULE ResultsProofs -----------------------------
(***************************************************************************)
(* Theorems about Results and the session that it runs in, for every value *)
(* of the constants: the topology, the calls of user code, what the client *)
(* knows of the server between two requests, which writes are committed,   *)
(* and how many requests are lost when the connection ends.                *)
(*                                                                         *)
(* The inductive invariants come first, one for each of the questions they *)
(* answer; then what the operators do to them; then the steps.             *)
(***************************************************************************)
EXTENDS Results, TLAPS, SequenceTheorems, FiniteSetTheorems

-----------------------------------------------------------------------------
(* The topology, on its own.  What a location has to have is what a record *)
(* of an update that is used has (LocationTyped); an update is used when   *)
(* it is Usable, whatever order the checks are in (UsableIsUsed).          *)

TopologyInv == TopologyTypeOK /\ LocationsFollowServer

\* The records that have a volume id, as locations
Named(A) == {Location(r) : r \in {a \in A : Volume(a) # NoVolume}}

-----------------------------------------------------------------------------

\* Volume ids lose their site: what is left is at most INVALID_VOLUME_ID.
LEMMA VolumeRange ==
  ASSUME NEW r \in Records, Volume(r) # NoVolume
  PROVE  Volume(r) \in 0..INVALID_VOLUME_ID
<1>1. r.volumeId \in VolumeIds /\ r.volumeId # NoVolume
  BY DEF Records, Volume
<1>2. r.volumeId \in Nat /\ INVALID_VOLUME_ID \in Nat
  BY <1>1, TopologyAssumption
<1>3. Volume(r) = r.volumeId % (INVALID_VOLUME_ID + 1)
  BY <1>1 DEF Volume
<1> QED
  BY <1>2, <1>3

\* The location of a record that can be used is well typed.
LEMMA LocationTyped ==
  ASSUME NEW r \in Records, Addressable(r), Volume(r) # NoVolume, Volume(r) # INVALID_VOLUME_ID
  PROVE  LET l == Location(r) IN
         /\ l.volumeId \in 0..(INVALID_VOLUME_ID - 1)
         /\ l.port \in (1..MaxPort) \cup {NoPort} /\ l.role \in Roles
<1>1. Volume(r) \in 0..(INVALID_VOLUME_ID - 1)
  BY VolumeRange, TopologyAssumption
<1>2. r.role \in Roles
  BY DEF Records
<1>3. RecordPort(r) \in (1..MaxPort) \cup {NoPort}
  BY DEF Addressable
<1> QED
  BY <1>1, <1>2, <1>3 DEF Location

-----------------------------------------------------------------------------

\* The checks of validateAndUpdate and addOrUpdateTopology let pass the updates that are usable.
LEMMA UsableIsUsed ==
  ASSUME NEW records \in UpdateLists
  PROVE  Usable(records) <=> Failing(records) = {} /\ ~BadTopology(records)
<1>1. \A r : FailureReason(r) = "NOT IGNORING" <=> Addressable(r) /\ ~Forwarded(r)
  BY DEF FailureReason
<1>2. Failing(records) = {} <=>
        \A i \in DOMAIN records : Addressable(records[i]) /\ ~Forwarded(records[i])
  BY <1>1 DEF Failing
<1>3. \A i \in DOMAIN records : records[i].isOwn \in BOOLEAN
  BY DEF UpdateLists, Records
<1> QED
  BY <1>2, <1>3 DEF Usable, BadTopology

\* After an update that is used, the locations are those of its records.
LEMMA UsedUpdate ==
  ASSUME NEW records \in UpdateLists, TopologyInv, ~BadTopology(records), addOrUpdateTopology(records)
  PROVE  locations' = Named({records[i] : i \in DOMAIN records})
<1>1. locations' = Replaced(records) \cup Inserted(records)
  BY DEF addOrUpdateTopology
<1>2. \A l \in locations : l.volumeId # NoVolume
  <2>1. \A l \in locations : l.volumeId \in Nat
    <3>1. \A l \in locations : l.volumeId \in 0..(INVALID_VOLUME_ID - 1)
      BY DEF TopologyInv, TopologyTypeOK
    <3> QED
      BY <3>1, TopologyAssumption
  <2> QED
    BY <2>1, TopologyAssumption
<1>3. Replaced(records) = {Location(records[i]) : i \in {k \in DOMAIN records :
                             \E l \in locations : Volume(records[k]) = l.volumeId}}
  BY DEF Replaced, RecordsOf
<1>4. Inserted(records) = {Location(records[i]) : i \in {k \in DOMAIN records :
                             Volume(records[k]) # NoVolume /\ \A l \in locations : l.volumeId # Volume(records[k])}}
  BY DEF Inserted
<1>5. Named({records[i] : i \in DOMAIN records})
        = {Location(records[i]) : i \in {k \in DOMAIN records : Volume(records[k]) # NoVolume}}
  BY DEF Named
<1> QED
  BY <1>1, <1>2, <1>3, <1>4, <1>5

-----------------------------------------------------------------------------

LEMMA TopologyInitInv == TopologyInit => TopologyInv
BY DEF TopologyInit, TopologyInv, TopologyTypeOK, LocationsFollowServer, Reasons

LEMMA TopologyStep == TopologyInv /\ [TopologyNext]_topologyVars => TopologyInv'
<1> SUFFICES ASSUME TopologyInv, [TopologyNext]_topologyVars PROVE TopologyInv'
  OBVIOUS
<1> USE DEF TopologyInv
<1>1. CASE UNCHANGED topologyVars
  BY <1>1 DEF topologyVars, TopologyTypeOK, LocationsFollowServer
<1>2. CASE TopologyNext
  <2>1. PICK records \in UpdateLists : UpdateTopology(records)
    BY <1>2 DEF TopologyNext
  <2>2. CASE records = <<>> \/ ignoreTopology # "NOT IGNORING"
    BY <2>1, <2>2, <1>1 DEF UpdateTopology
  <2>3. CASE Usable(records) /\ records # <<>> /\ ignoreTopology = "NOT IGNORING"
    <3> DEFINE all == {records[i] : i \in DOMAIN records}
    <3>1. Failing(records) = {} /\ ~BadTopology(records)
      BY <2>3, UsableIsUsed
    <3>2. /\ announced' = all /\ ignoreTopology' = "NOT IGNORING"
          /\ addOrUpdateTopology(records)
      BY <2>1, <2>3, <3>1 DEF UpdateTopology
    <3>3. locations' = Named(all)
      BY <3>1, <3>2, UsedUpdate
    <3>4. all \subseteq Records
      BY DEF UpdateLists
    <3>5. \A r \in all : Addressable(r) /\ Volume(r) # INVALID_VOLUME_ID
      BY <2>3 DEF Usable
    <3>6. TopologyTypeOK'
      <4>1. \A l \in locations' : /\ l.volumeId \in 0..(INVALID_VOLUME_ID - 1)
                                  /\ l.port \in (1..MaxPort) \cup {NoPort} /\ l.role \in Roles
        BY <3>3, <3>4, <3>5, LocationTyped DEF Named
      <4> QED
        BY <3>2, <3>4, <4>1 DEF TopologyTypeOK
    <3>7. \A l, m \in locations' : l.volumeId = m.volumeId => l = m
      <4>1. \A i, j \in DOMAIN records : Volume(records[i]) = Volume(records[j]) => i = j
        BY <2>3 DEF Usable
      <4>2. \A r \in all : Location(r).volumeId = Volume(r)
        BY DEF Location
      <4> QED
        BY <3>3, <4>1, <4>2 DEF Named
    <3>8. LocationsFollowServer'
      <4>1. locations' = {Location(r) : r \in {a \in announced' : Volume(a) # NoVolume}}
        BY <3>2, <3>3 DEF Named
      <4> QED
        BY <3>7, <4>1 DEF LocationsFollowServer
    <3> QED
      BY <3>6, <3>8
  <2>4. CASE ~Usable(records) /\ records # <<>> /\ ignoreTopology = "NOT IGNORING"
    <3>1. Failing(records) # {} \/ BadTopology(records)
      BY <2>4, UsableIsUsed
    <3>2. announced' = announced
      BY <2>1, <2>4 DEF UpdateTopology
    <3>3. locations' \in {{}, locations}
      BY <2>1, <2>4, <3>1 DEF UpdateTopology, addOrUpdateTopology
    <3>4. ignoreTopology' \in Reasons
      <4>1. \A i \in Failing(records) : FailureReason(records[i]) \in Reasons
        <5>1. \A r : FailureReason(r) \in Reasons \cup {"NOT IGNORING"}
          BY DEF FailureReason, Reasons
        <5> QED
          BY <5>1 DEF Failing
      <4> QED
        BY <2>1, <2>4, <3>1, <4>1 DEF UpdateTopology, Reasons
    <3>5. ignoreTopology' # "NOT IGNORING"
      BY <3>4 DEF Reasons
    <3> QED
      BY <3>2, <3>3, <3>4, <3>5 DEF TopologyTypeOK, LocationsFollowServer
  <2> QED
    BY <2>2, <2>3, <2>4
<1> QED
  BY <1>1, <1>2

\* _updateTopology: volume ids, ports and roles of the locations are those that a record may have.
THEOREM TypeCorrect == TopologySpec => []TopologyTypeOK
<1>1. TopologyInit => TopologyInv
  BY TopologyInitInv
<1>2. TopologyInv /\ [TopologyNext]_topologyVars => TopologyInv'
  BY TopologyStep
<1>3. TopologyInv => TopologyTypeOK
  BY DEF TopologyInv
<1> QED
  BY <1>1, <1>2, <1>3, PTL DEF TopologySpec

\* addOrUpdateTopology: however many updates come, and whichever of them cannot be used, the locations
\* are those of the last update that could, one for each volume, or none after the topology is ignored.
THEOREM FollowsServer == TopologySpec => []LocationsFollowServer
<1>1. TopologyInit => TopologyInv
  BY TopologyInitInv
<1>2. TopologyInv /\ [TopologyNext]_topologyVars => TopologyInv'
  BY TopologyStep
<1>3. TopologyInv => LocationsFollowServer
  BY DEF TopologyInv
<1> QED
  BY <1>1, <1>2, <1>3, PTL DEF TopologySpec

-----------------------------------------------------------------------------
(* Types *)

Flags == {"read", "write", "committed", "rolledBack", "unconfirmed", "closing"}
TxKinds == {"none", "read", "write"}
Settings == Values \cup {Unset}

RequestSet == [type : MessageTypes, call : Calls, i : Nat, commit : BOOLEAN]
Infos == UNION {[D -> Settings] : D \in SUBSET Keys}

SentPackets == [stage : {"sent"}, request : RequestSet, context : 0..2, info : Infos]
RefusedPackets == [stage : {"refused"}, request : RequestSet]
Replies ==
  [stage : {"answered"}, request : RequestSet, error : {"none", "sql", "fatal"},
   flags : SUBSET Flags, context : 0..2, results : Seq(Served1)]

Sessions ==
  [vars : [Keys -> Settings], context : 0..2, txn : TxKinds, uncommitted : SUBSET Calls,
   committed : SUBSET Calls, prepared : BOOLEAN, open : SUBSET (Calls \X Nat)]

Ticks == [do : {"unbound", "next", "sendClose"}, call : Calls, i : Nat]
Places == [at : {"idle", "fetch", "wait", "failed", "lob"}, i : Nat, n : Nat]
Knowledge == [left : Int, state : {"none", "open", "closed", "gone"}]
Made == [kind : Kinds, auto : BOOLEAN]

SessionTyped ==
  /\ scenario \in Scenarios /\ settings \in Nat
  /\ properties \in [Keys -> Settings] /\ updated \subseteq Keys
  /\ context \in 0..2 /\ txKind \in TxKinds
  /\ autoCommit \in BOOLEAN /\ busy \in BOOLEAN /\ closed \in BOOLEAN
  /\ server \in Sessions

TransportTyped ==
  /\ queue \in Seq(RequestSet)
  /\ wire \in {NoPacket} \cup SentPackets \cup RefusedPackets \cup Replies

CallsTyped ==
  /\ made \in Seq(Made) /\ Len(made) <= MaxCalls
  /\ told \in [Calls -> {"none", "ok", "error", "twice"}]
  /\ work \in [Calls -> Places]
  /\ sets \in [ResultIds -> Knowledge]
  /\ ticks \in Seq(Ticks)

WellTyped == SessionTyped /\ TransportTyped /\ CallsTyped

-----------------------------------------------------------------------------
(* Requests and the calls they belong to *)

Primary == {"EXECUTE_DIRECT", "EXECUTE", "PREPARE", "DROP_STATEMENT_ID", "COMMIT", "ROLLBACK", "CLIENT_PING"}
HasRows == {"select", "procedure"}

OnWire == IF wire = NoPacket THEN {} ELSE {wire.request}
Unserved == IF wire.stage = "sent" THEN {wire.request} ELSE {}
Answered == IF wire.stage = "answered" THEN {wire.request} ELSE {}
Requests == Range(queue) \cup OnWire

\* The first request of a call is of the type of the call; only calls with rows make more.
RequestFits(r, calls) ==
  /\ r.call \in DOMAIN calls
  /\ r.type \in Primary =>
       /\ r.type = TypeOf(calls[r.call].kind)
       /\ r.type \in {"EXECUTE", "EXECUTE_DIRECT"} => r.commit = calls[r.call].auto
  /\ r.type \notin Primary => calls[r.call].kind \in HasRows

TickFits(t, calls) ==
  t.call \in DOMAIN calls /\ (t.do # "unbound" => calls[t.call].kind \in HasRows)

WriteCalls == {w \in DOMAIN made : made[w].kind \in Writes}

FitInv ==
  /\ \A r \in Requests : RequestFits(r, made)
  /\ \A t \in Range(ticks) : TickFits(t, made)
  /\ \A c \in Calls : work[c].at # "idle" => c \in DOMAIN made /\ made[c].kind \in HasRows
  /\ \A c \in Calls : told[c] # "none" => c \in DOMAIN made
  /\ server.committed \cup server.uncommitted \subseteq WriteCalls

-----------------------------------------------------------------------------
(* A call that has not called back yet has at most one request or tick that is its own. *)

\* Two of one call are only on their way when the call has called back.
Apart(c, d, outcomes) == c = d => outcomes[c] # "none"
ApartFrom(c, S, outcomes) == \A e \in S : Apart(c, e.call, outcomes)
Sparse(q, outcomes) == \A i, j \in DOMAIN q : i # j => Apart(q[i].call, q[j].call, outcomes)

\* Where a call is while a request of it is on its way, or a tick.
RequestPlace(r, outcomes, places) ==
  /\ r.type \in Primary => outcomes[r.call] = "none" /\ places[r.call].at = "idle"
  /\ r.type = "FETCH_NEXT" => places[r.call].at = "wait"
  /\ r.type = "READ_LOB" => places[r.call].at = "lob"
  /\ r.type = "CLOSE_RESULT_SET" => outcomes[r.call] # "none" \/ places[r.call].at \in {"wait", "failed"}

TickPlace(t, outcomes, places) ==
  /\ t.do = "unbound" => outcomes[t.call] = "none" /\ places[t.call].at = "idle"
  /\ t.do = "next" => places[t.call].at \in {"wait", "lob"}
  /\ t.do = "sendClose" => outcomes[t.call] # "none" \/ places[t.call].at \in {"wait", "failed"}

\* A queue q, the requests S on the wire, ticks t, and where the calls are.
Once(q, S, t, outcomes, places) ==
  /\ \A c \in Calls : outcomes[c] # "twice" /\ (outcomes[c] # "none" => places[c].at = "idle")
  /\ \A r \in Range(q) \cup S : RequestPlace(r, outcomes, places)
  /\ \A e \in Range(t) : TickPlace(e, outcomes, places)
  /\ Sparse(q, outcomes) /\ Sparse(t, outcomes)
  /\ \A r \in S : ApartFrom(r.call, Range(q), outcomes)
  /\ \A r \in Range(q) \cup S : ApartFrom(r.call, Range(t), outcomes)

OnceEach == Once(queue, OnWire, ticks, told, work)

\* A packet is under way only while the queue is busy, and only on a connection that has not ended.
OneOnWire ==
  /\ wire # NoPacket => busy
  /\ wire.stage \in {"sent", "answered"} => ~closed

OnceInv == OnceEach /\ OneOnWire

-----------------------------------------------------------------------------
(* What client and server know of each other *)

\* A packet that is too large loses the session variables that it was to carry.  None has been
\* lost when no packet can be too large, or no variable has been set.
Lossless == "toolarge" \in scenario.faults => settings = 0

MirrorInv ==
  /\ settings = 0 => updated = {}
  /\ wire.stage # "sent" /\ ~closed /\ Lossless =>
       \A k \in Keys \ updated : server.vars[k] = properties[k]
  /\ wire.stage # "answered" /\ ~closed => txKind = server.txn /\ context = server.context
  /\ wire.stage = "sent" /\ Lossless =>
       \A k \in Keys \ updated :
         properties[k] = IF k \in DOMAIN wire.info THEN wire.info[k] ELSE server.vars[k]
  /\ wire.stage = "answered" =>
       /\ wire.context = server.context
       /\ ErrorOf(wire) # "fatal" => KindAfter(wire.flags) = server.txn

-----------------------------------------------------------------------------
(* What is committed *)

Commits(r) == r.commit \/ r.type = "COMMIT"
IsWrite(r, W) == r.type \in Primary /\ r.call \in W

\* The requests of a queue that are the first of their call are in the order of the calls.
Ascending(q) ==
  \A i, j \in DOMAIN q :
    i < j /\ q[i].type \in Primary /\ q[j].type \in Primary => q[i].call < q[j].call

\* The requests in S that are the first of their call belong to later calls than c.
Later(S, c) == \A r \in S : r.type \in Primary => r.call > c

OrderInv ==
  /\ Ascending(queue)
  /\ \A r \in OnWire : r.type \in Primary => Later(Range(queue), r.call)
  /\ \A w \in server.committed \cup server.uncommitted : Later(Range(queue) \cup Unserved, w)
  /\ \A c \in DOMAIN made : told[c] = "ok" /\ made[c].kind \notin HasRows => Later(Requests, c)

\* A request that commits, and the writes ahead of it.
Covered(q, W, A) ==
  \A i \in DOMAIN q : Commits(q[i]) => \A j \in 1..i : IsWrite(q[j], W) => q[j].call \in A
WritesIn(S, W) == {r.call : r \in {e \in S : IsWrite(e, W)}}

AllowedInv ==
  /\ server.committed \subseteq allowed
  /\ Covered(queue, WriteCalls, allowed)
  /\ \A r \in Unserved : Commits(r) =>
       server.uncommitted \cup WritesIn({r}, WriteCalls) \subseteq allowed
  /\ \A r \in Range(queue) : Commits(r) =>
       server.uncommitted \cup WritesIn(Unserved, WriteCalls) \subseteq allowed

\* A rollback after w has been served, and is reported or is about to be.
RolledBackFor(w) ==
  \E d \in DOMAIN made :
    /\ made[d].kind = "rollback" /\ d > w
    /\ Later(Range(queue) \cup Unserved, d) /\ Later(Answered, d - 1)

\* The session on the server has ended, or ends with the reply that is under way.
Over == closed \/ (wire.stage = "answered" /\ ErrorOf(wire) = "fatal")

Kept(w) == w \in server.committed \cup server.uncommitted \/ RolledBackFor(w) \/ Over

Good == wire.stage = "answered" /\ ErrorOf(wire) = "none"

\* What becomes of a write that is reported, and of the writes before a commit or a rollback.
WriteOutcome(c) == Kept(c) /\ (made[c].auto => c \in server.committed)
EndOutcome(c) == WritesBefore(c) \cap server.uncommitted = {}

OutcomeInv ==
  /\ \A c \in DOMAIN made : told[c] = "ok" =>
       /\ made[c].kind \in Writes => WriteOutcome(c)
       /\ made[c].kind \in {"commit", "rollback"} => EndOutcome(c)
       /\ made[c].kind = "commit" => \A w \in WritesBefore(c) : told[w] = "ok" =>
            \/ w \in server.committed
            \/ \E d \in 1..c : made[d].kind = "rollback" /\ d > w
  /\ Good /\ IsWrite(wire.request, WriteCalls) => WriteOutcome(wire.request.call)
  /\ Good /\ wire.request.type \in {"COMMIT", "ROLLBACK"} /\ ~Unconfirmed(wire.request.type, wire) =>
       EndOutcome(wire.request.call)

-----------------------------------------------------------------------------
(* Sequences *)

\* What is in a sequence is its head or in its tail.
LEMMA TailRange ==
  ASSUME NEW S, NEW q \in Seq(S), q # <<>>
  PROVE  Head(q) \in S /\ Tail(q) \in Seq(S) /\ Range(q) = {Head(q)} \cup Range(Tail(q))
<1>1. /\ Head(q) \in S /\ Tail(q) \in Seq(S) /\ Len(Tail(q)) = Len(q) - 1
      /\ \A i \in 1..Len(Tail(q)) : Tail(q)[i] = q[i+1]
  BY HeadTailProperties
<1>2. Range(q) = {q[i] : i \in 1..Len(q)} /\ Range(Tail(q)) = {Tail(q)[i] : i \in 1..Len(Tail(q))}
  BY <1>1, RangeEquality
<1>3. Len(q) \in Nat \ {0} /\ Head(q) = q[1]
  BY EmptySeq, LenProperties
<1>4. Range(Tail(q)) = {q[i] : i \in 2..Len(q)}
  <2>1. \A i \in 2..Len(q) : i - 1 \in 1..Len(Tail(q)) /\ q[i] = Tail(q)[i - 1]
    BY <1>1, <1>3
  <2>2. \A i \in 1..Len(Tail(q)) : i + 1 \in 2..Len(q) /\ q[i + 1] = Tail(q)[i]
    BY <1>1, <1>3
  <2>3. Range(Tail(q)) \subseteq {q[i] : i \in 2..Len(q)}
    BY <1>2, <2>2
  <2>4. {q[i] : i \in 2..Len(q)} \subseteq Range(Tail(q))
    BY <1>2, <2>1
  <2> QED
    BY <2>3, <2>4
<1>5. 1..Len(q) = {1} \cup 2..Len(q)
  BY <1>3
<1> QED
  BY <1>1, <1>2, <1>3, <1>4, <1>5

\* Append puts one element behind the others.
LEMMA AppendRange ==
  ASSUME NEW S, NEW q \in Seq(S), NEW e \in S
  PROVE  Append(q, e) \in Seq(S) /\ Range(Append(q, e)) = Range(q) \cup {e}
<1>1. /\ Append(q, e) \in Seq(S) /\ Len(Append(q, e)) = Len(q) + 1
      /\ \A i \in 1..Len(q) : Append(q, e)[i] = q[i]
      /\ Append(q, e)[Len(q) + 1] = e
  BY AppendProperties
<1>2. /\ Range(q) = {q[i] : i \in 1..Len(q)}
      /\ Range(Append(q, e)) = {Append(q, e)[i] : i \in 1..Len(Append(q, e))}
  BY <1>1, RangeEquality
<1>3. Len(q) \in Nat /\ 1..(Len(q) + 1) = 1..Len(q) \cup {Len(q) + 1}
  BY LenProperties
<1> QED
  BY <1>1, <1>2, <1>3

\* A sequence without its head keeps its elements in order.
LEMMA TailIndex ==
  ASSUME NEW S, NEW q \in Seq(S), q # <<>>
  PROVE  /\ DOMAIN Tail(q) = 1..(Len(q) - 1) /\ DOMAIN q = 1..Len(q) /\ Len(q) \in Nat \ {0}
         /\ Head(q) = q[1] /\ \A i \in DOMAIN Tail(q) : Tail(q)[i] = q[i + 1]
<1>1. /\ Tail(q) \in Seq(S) /\ Len(Tail(q)) = Len(q) - 1
      /\ \A i \in 1..Len(Tail(q)) : Tail(q)[i] = q[i+1]
  BY HeadTailProperties
<1> QED
  BY <1>1, EmptySeq, LenProperties

\* A sequence with one element behind keeps the others where they are.
LEMMA AppendIndex ==
  ASSUME NEW S, NEW q \in Seq(S), NEW e \in S
  PROVE  /\ DOMAIN Append(q, e) = 1..(Len(q) + 1) /\ DOMAIN q = 1..Len(q) /\ Len(q) \in Nat
         /\ Append(q, e)[Len(q) + 1] = e /\ \A i \in DOMAIN q : Append(q, e)[i] = q[i]
<1>1. /\ Append(q, e) \in Seq(S) /\ Len(Append(q, e)) = Len(q) + 1
      /\ \A i \in 1..Len(q) : Append(q, e)[i] = q[i]
      /\ Append(q, e)[Len(q) + 1] = e
  BY AppendProperties
<1> QED
  BY <1>1, LenProperties

\* What is in a sequence is at one of its indices.
LEMMA InRange ==
  ASSUME NEW q
  PROVE  /\ \A i \in DOMAIN q : q[i] \in Range(q)
         /\ \A e \in Range(q) : \E i \in DOMAIN q : q[i] = e
BY DEF Range

\* What holds of the requests of a queue holds of the requests behind the first one.
LEMMA SparseTail ==
  ASSUME NEW S, NEW q \in Seq(S), q # <<>>, NEW T, Sparse(q, T)
  PROVE  Sparse(Tail(q), T) /\ ApartFrom(Head(q).call, Range(Tail(q)), T)
<1>1. Sparse(Tail(q), T)
  BY TailIndex DEF Sparse
<1>2. \A i \in DOMAIN Tail(q) : Apart(Head(q).call, Tail(q)[i].call, T)
  BY TailIndex DEF Sparse
<1>3. \A e \in Range(Tail(q)) : \E i \in DOMAIN Tail(q) : Tail(q)[i] = e
  BY InRange
<1>4. \A e \in Range(Tail(q)) : Apart(Head(q).call, e.call, T)
  BY <1>2, <1>3
<1> QED
  BY <1>1, <1>4 DEF ApartFrom

\* One more element that is apart from the others keeps a sequence sparse.
LEMMA SparseAppend ==
  ASSUME NEW S, NEW q \in Seq(S), NEW e \in S, NEW T, Sparse(q, T), ApartFrom(e.call, Range(q), T)
  PROVE  Sparse(Append(q, e), T)
<1>1. \A i \in DOMAIN q : Apart(e.call, q[i].call, T) /\ Apart(q[i].call, e.call, T)
  BY InRange DEF ApartFrom, Apart
<1> QED
  BY <1>1, AppendIndex DEF Sparse

\* Elements of calls that have called back may stand behind a sparse sequence.
LEMMA SparseConcat ==
  ASSUME NEW S, NEW p \in Seq(S), NEW q \in Seq(S), NEW T, Sparse(p, T),
         \A e \in Range(q) : T[e.call] # "none"
  PROVE  Sparse(p \o q, T)
<1>1. /\ p \o q \in Seq(S) /\ Len(p \o q) = Len(p) + Len(q)
      /\ \A i \in 1..(Len(p) + Len(q)) : (p \o q)[i] = IF i <= Len(p) THEN p[i] ELSE q[i - Len(p)]
  BY ConcatProperties
<1>2. /\ DOMAIN (p \o q) = 1..(Len(p) + Len(q)) /\ DOMAIN p = 1..Len(p) /\ DOMAIN q = 1..Len(q)
      /\ Len(p) \in Nat /\ Len(q) \in Nat
  BY <1>1, LenProperties
<1>3. \A i \in DOMAIN q : T[q[i].call] # "none"
  BY InRange
<1>4. SUFFICES ASSUME NEW i \in DOMAIN (p \o q), NEW j \in DOMAIN (p \o q), i # j
               PROVE  Apart((p \o q)[i].call, (p \o q)[j].call, T)
  BY DEF Sparse
<1>5. CASE i <= Len(p) /\ j <= Len(p)
  BY <1>1, <1>2, <1>4, <1>5 DEF Sparse
<1>6. CASE i > Len(p)
  <2>1. i - Len(p) \in DOMAIN q /\ (p \o q)[i] = q[i - Len(p)]
    BY <1>1, <1>2, <1>6
  <2> QED
    BY <2>1, <1>3 DEF Apart
<1>7. CASE j > Len(p)
  <2>1. j - Len(p) \in DOMAIN q /\ (p \o q)[j] = q[j - Len(p)]
    BY <1>1, <1>2, <1>7
  <2> QED
    BY <2>1, <1>3 DEF Apart
<1> QED
  BY <1>2, <1>5, <1>6, <1>7

\* A call that has called back does not become one that has not.
LEMMA SparseTold ==
  ASSUME NEW q, NEW T, NEW U, Sparse(q, T), \A e \in Range(q) : T[e.call] # "none" => U[e.call] # "none"
  PROVE  Sparse(q, U)
BY InRange DEF Sparse, Apart

\* Without its head a queue is still in order, and its head comes first.
LEMMA AscendingTail ==
  ASSUME NEW S, NEW q \in Seq(S), q # <<>>, Ascending(q)
  PROVE  Ascending(Tail(q)) /\ (Head(q).type \in Primary => Later(Range(Tail(q)), Head(q).call))
<1> USE TailIndex
<1>1. Ascending(Tail(q))
  BY DEF Ascending
<1>2. \A i \in DOMAIN Tail(q) :
        Head(q).type \in Primary /\ Tail(q)[i].type \in Primary => Tail(q)[i].call > Head(q).call
  <2>1. SUFFICES ASSUME NEW i \in DOMAIN Tail(q), Head(q).type \in Primary, Tail(q)[i].type \in Primary
                 PROVE  Head(q).call < Tail(q)[i].call
    OBVIOUS
  <2> QED BY <2>1 DEF Ascending
<1> QED
  BY <1>1, <1>2, InRange DEF Later

\* A request of a later call, or one that is not the first of its call, goes behind the others.
LEMMA AscendingAppend ==
  ASSUME NEW S, NEW q \in Seq(S), NEW e \in S, Ascending(q),
         e.type \in Primary => \A r \in Range(q) : r.type \in Primary => r.call < e.call
  PROVE  Ascending(Append(q, e))
<1>1. \A i \in DOMAIN q : e.type \in Primary /\ q[i].type \in Primary => q[i].call < e.call
  BY InRange
<1> QED
  BY <1>1, AppendIndex DEF Ascending

\* Without its head a queue is still covered; what its head writes is allowed once a request
\* of the queue commits.
LEMMA CoveredTail ==
  ASSUME NEW S, NEW q \in Seq(S), q # <<>>, NEW W, NEW A, Covered(q, W, A)
  PROVE  /\ Covered(Tail(q), W, A)
         /\ \A r \in Range(q) : Commits(r) => WritesIn({Head(q)}, W) \subseteq A
<1> USE TailIndex DEF Covered
<1>1. Covered(Tail(q), W, A)
  OBVIOUS
<1>2. \A i \in DOMAIN q : Commits(q[i]) => (IsWrite(Head(q), W) => Head(q).call \in A)
  OBVIOUS
<1> QED
  BY <1>1, <1>2, InRange DEF WritesIn

\* A request that commits is covered when the writes ahead of it and its own are allowed.
LEMMA CoveredAppend ==
  ASSUME NEW S, NEW q \in Seq(S), NEW e \in S, NEW W, NEW A, Covered(q, W, A),
         Commits(e) => WritesIn(Range(q) \cup {e}, W) \subseteq A
  PROVE  Covered(Append(q, e), W, A)
<1>1. Commits(e) => \A i \in DOMAIN q : IsWrite(q[i], W) => q[i].call \in A
  BY InRange DEF WritesIn
<1>2. Commits(e) => (IsWrite(e, W) => e.call \in A)
  BY DEF WritesIn
<1> QED
  BY <1>1, <1>2, AppendIndex DEF Covered

\* More writes are allowed, and the requests of the queue are the same writes as before.
LEMMA CoveredMore ==
  ASSUME NEW q, NEW W, NEW A, NEW V, NEW B, Covered(q, W, A), A \subseteq B,
         \A r \in Range(q) : IsWrite(r, V) <=> IsWrite(r, W), DOMAIN q \subseteq Nat,
         \A i \in DOMAIN q : 1..i \subseteq DOMAIN q
  PROVE  Covered(q, V, B)
BY InRange DEF Covered

-----------------------------------------------------------------------------
(* What the server does with a request *)

\* Served takes the variables and the context, and leaves the transaction alone.
LEMMA ServedFields ==
  ASSUME NEW s \in Sessions, NEW p \in SentPackets
  PROVE  /\ Served(s, p) \in Sessions
         /\ Served(s, p).vars = [k \in Keys |-> IF k \in DOMAIN p.info THEN p.info[k] ELSE s.vars[k]]
         /\ Served(s, p).txn = s.txn /\ Served(s, p).open = s.open
         /\ Served(s, p).committed = s.committed /\ Served(s, p).uncommitted = s.uncommitted
<1> DEFINE taken == [k \in Keys |-> IF k \in DOMAIN p.info THEN p.info[k] ELSE s.vars[k]]
           ctx == IF p.request.type \in Executing THEN (s.context % 2) + 1 ELSE 0
<1>1. taken \in [Keys -> Settings]
  <2>1. PICK D \in SUBSET Keys : p.info \in [D -> Settings]
    BY DEF SentPackets, Infos
  <2>2. s.vars \in [Keys -> Settings]
    BY DEF Sessions
  <2> QED
    BY <2>1, <2>2
<1>2. ctx \in 0..2
  BY DEF Sessions
<1>3. Served(s, p) = [s EXCEPT !.vars = taken, !.context = ctx]
  BY DEF Served, Sessions
<1> HIDE DEF taken, ctx
<1> QED
  BY <1>1, <1>2, <1>3 DEF Sessions, taken

\* A write joins the transaction, and ends it when the request commits.
LEMMA WriteFields ==
  ASSUME NEW s \in Sessions, NEW r \in RequestSet
  PROVE  LET e == Executed(s, r, TRUE) IN
         /\ e \in Sessions /\ e.vars = s.vars /\ e.context = s.context
         /\ r.commit => /\ e.txn = "none" /\ e.uncommitted = {}
                        /\ e.committed = s.committed \cup s.uncommitted \cup {r.call}
         /\ ~r.commit => /\ e.txn = "write" /\ e.uncommitted = s.uncommitted \cup {r.call}
                         /\ e.committed = s.committed
<1> DEFINE begun == [s EXCEPT !.txn = "write", !.uncommitted = s.uncommitted \cup {r.call}]
<1>1. begun \in Sessions /\ begun.vars = s.vars /\ begun.context = s.context
      /\ begun.txn = "write" /\ begun.uncommitted = s.uncommitted \cup {r.call} /\ begun.committed = s.committed
  BY DEF Sessions, RequestSet, TxKinds
<1>2. Executed(s, r, TRUE) = IF r.commit THEN Committed(begun) ELSE begun
  BY DEF Executed, Sessions
<1> HIDE DEF begun
<1>3. /\ Committed(begun) \in Sessions /\ Committed(begun).vars = s.vars /\ Committed(begun).context = s.context
      /\ Committed(begun).txn = "none" /\ Committed(begun).uncommitted = {}
      /\ Committed(begun).committed = s.committed \cup s.uncommitted \cup {r.call}
  BY <1>1 DEF Committed, Sessions, TxKinds
<1>4. CASE r.commit
  BY <1>2, <1>3, <1>4
<1>5. CASE ~r.commit
  BY <1>1, <1>2, <1>5
<1> QED
  BY <1>4, <1>5

\* A read begins a transaction, and ends it when the request commits.
LEMMA ReadFields ==
  ASSUME NEW s \in Sessions, NEW r \in RequestSet
  PROVE  LET e == Executed(s, r, FALSE) IN
         /\ e \in Sessions /\ e.vars = s.vars /\ e.context = s.context
         /\ r.commit => /\ e.txn = "none" /\ e.uncommitted = {}
                        /\ e.committed = s.committed \cup s.uncommitted
         /\ ~r.commit => /\ e.txn = IF s.txn = "none" THEN "read" ELSE s.txn
                         /\ e.uncommitted = s.uncommitted /\ e.committed = s.committed
<1> DEFINE txn == IF s.txn = "none" THEN "read" ELSE s.txn
           begun == [s EXCEPT !.txn = txn, !.uncommitted = s.uncommitted]
<1>1. begun \in Sessions /\ begun.vars = s.vars /\ begun.context = s.context
      /\ begun.txn = txn /\ begun.uncommitted = s.uncommitted /\ begun.committed = s.committed
  BY DEF Sessions, TxKinds
<1>2. Executed(s, r, FALSE) = IF r.commit THEN Committed(begun) ELSE begun
  BY DEF Executed, Sessions
<1> HIDE DEF begun
<1>3. /\ Committed(begun) \in Sessions /\ Committed(begun).vars = s.vars /\ Committed(begun).context = s.context
      /\ Committed(begun).txn = "none" /\ Committed(begun).uncommitted = {}
      /\ Committed(begun).committed = s.committed \cup s.uncommitted
  BY <1>1 DEF Committed, Sessions, TxKinds
<1>4. CASE r.commit
  BY <1>2, <1>3, <1>4
<1>5. CASE ~r.commit
  <2>1. Executed(s, r, FALSE) = begun
    BY <1>2, <1>5
  <2> QED
    BY <1>1, <1>5, <2>1
<1> QED
  BY <1>4, <1>5

\* The end of a transaction, without a statement.
LEMMA EndFields ==
  ASSUME NEW s \in Sessions
  PROVE  /\ Committed(s) \in Sessions /\ Committed(s).vars = s.vars /\ Committed(s).context = s.context
         /\ Committed(s).txn = "none" /\ Committed(s).uncommitted = {}
         /\ Committed(s).committed = s.committed \cup s.uncommitted
         /\ RolledBack(s) \in Sessions /\ RolledBack(s).vars = s.vars /\ RolledBack(s).context = s.context
         /\ RolledBack(s).txn = "none" /\ RolledBack(s).uncommitted = {}
         /\ RolledBack(s).committed = s.committed
BY DEF Committed, RolledBack, Sessions, TxKinds

\* The writes that a request leaves open, or commits, and what its reply says of them.
Untouched == server'.committed = server.committed /\ server'.uncommitted = server.uncommitted
Dropped == server'.committed = server.committed /\ server'.uncommitted = {}
CommittedWith(W) == server'.committed = server.committed \cup server.uncommitted \cup W /\ server'.uncommitted = {}
Joined(W) == server'.committed = server.committed /\ server'.uncommitted = server.uncommitted \cup W

WritesAfter(r) ==
  \/ /\ Untouched
     /\ ErrorOf(wire') = "none" => ~IsWrite(r, WriteCalls)
     /\ r.type \in {"COMMIT", "ROLLBACK"} /\ ErrorOf(wire') = "none" => Unconfirmed(r.type, wire')
  \/ Dropped /\ ErrorOf(wire') = "fatal"
  \/ Dropped /\ r.type = "ROLLBACK"
  \/ CommittedWith({}) /\ Commits(r) /\ ~IsWrite(r, WriteCalls) /\ r.type # "ROLLBACK"
  \/ CommittedWith({r.call}) /\ r.commit /\ IsWrite(r, WriteCalls)
  \/ Joined({r.call}) /\ ~r.commit /\ IsWrite(r, WriteCalls)

\* A step of the server: a reply, with the context and what has become of the transaction.
Replied ==
  /\ wire' \in Replies /\ wire'.request = wire.request /\ wire'.context = server'.context
  /\ server' \in Sessions
  /\ server'.vars = [k \in Keys |-> IF k \in DOMAIN wire.info THEN wire.info[k] ELSE server.vars[k]]
  /\ (txKind = server.txn /\ ErrorOf(wire') # "fatal") => KindAfter(wire'.flags) = server'.txn
  /\ WritesAfter(wire.request)

\* A reply is well typed.
LEMMA ReplyTyped ==
  ASSUME server' \in Sessions, NEW r \in RequestSet, NEW error \in {"none", "sql", "fatal"},
         NEW flags \in SUBSET Flags, NEW results \in Seq(Served1), wire' = Reply(r, error, flags, results)
  PROVE  /\ wire' \in Replies /\ wire'.request = r /\ wire'.context = server'.context
         /\ wire'.flags = flags /\ wire'.stage = "answered" /\ wire'.error = error
BY DEF Reply, Replies, Sessions

\* The packet that the server is to serve.
LEMMA SentTyped ==
  ASSUME TransportTyped, wire.stage = "sent"
  PROVE  wire \in SentPackets /\ wire.request \in RequestSet
BY DEF TransportTyped, NoPacket, SentPackets, RefusedPackets, Replies

\* An error of the server, or the end of the session, is a reply.
LEMMA ServeErrorEffect ==
  ASSUME WellTyped, FitInv, ServeError
  PROVE  Replied
<1> DEFINE r == wire.request
           s == Served(server, wire)
<1>1. wire \in SentPackets /\ r \in RequestSet /\ server \in Sessions
  BY SentTyped DEF ServeError, WellTyped, SessionTyped
<1>2. /\ s \in Sessions
      /\ s.vars = [k \in Keys |-> IF k \in DOMAIN wire.info THEN wire.info[k] ELSE server.vars[k]]
      /\ s.txn = server.txn /\ s.committed = server.committed /\ s.uncommitted = server.uncommitted
  BY <1>1, ServedFields
<1>3. /\ RolledBack(s) \in Sessions /\ RolledBack(s).vars = s.vars
      /\ RolledBack(s).committed = s.committed /\ RolledBack(s).uncommitted = {}
  BY <1>2, EndFields
<1>4. <<>> \in Seq(Served1) /\ {} \in SUBSET Flags /\ {"closing"} \in SUBSET Flags
  BY EmptySeq DEF Flags
<1> HIDE DEF s, r
<1>5. CASE server' = s /\ wire' = Reply(r, "sql", {}, <<>>)
  <2>1. /\ wire' \in Replies /\ wire'.request = r /\ wire'.context = server'.context
        /\ wire'.flags = {} /\ wire'.error = "sql"
    BY <1>1, <1>2, <1>4, <1>5, ReplyTyped
  <2>2. ErrorOf(wire') = "sql" /\ KindAfter(wire'.flags) = txKind
    BY <2>1 DEF ErrorOf, KindAfter
  <2> QED
    BY <1>2, <1>5, <2>1, <2>2 DEF Replied, WritesAfter, Untouched, r
<1>6. CASE server' = RolledBack(s) /\ wire' = Reply(r, "fatal", {}, <<>>)
  <2>1. /\ wire' \in Replies /\ wire'.request = r /\ wire'.context = server'.context /\ wire'.error = "fatal"
    BY <1>1, <1>3, <1>4, <1>6, ReplyTyped
  <2>2. ErrorOf(wire') = "fatal"
    BY <2>1 DEF ErrorOf
  <2> QED
    BY <1>2, <1>3, <1>6, <2>1, <2>2 DEF Replied, WritesAfter, Dropped, r
<1>7. CASE server' = RolledBack(s) /\ wire' = Reply(r, "none", {"closing"}, <<>>)
  <2>1. /\ wire' \in Replies /\ wire'.request = r /\ wire'.context = server'.context
        /\ wire'.error = "none" /\ wire'.flags = {"closing"}
    BY <1>1, <1>3, <1>4, <1>7, ReplyTyped
  <2>2. ErrorOf(wire') = "fatal"
    BY <2>1 DEF ErrorOf
  <2> QED
    BY <1>2, <1>3, <1>7, <2>1, <2>2 DEF Replied, WritesAfter, Dropped, r
<1> QED
  BY <1>5, <1>6, <1>7 DEF ServeError, s, r

\* COMMIT and ROLLBACK, and a reply that does not confirm them.
LEMMA ServeCommitEffect ==
  ASSUME WellTyped, FitInv, ServeCommit
  PROVE  Replied
<1> DEFINE r == wire.request
           s == Served(server, wire)
<1>1. wire \in SentPackets /\ r \in RequestSet /\ server \in Sessions /\ r.type \in {"COMMIT", "ROLLBACK"}
  BY SentTyped DEF ServeCommit, WellTyped, SessionTyped
<1>2. /\ s \in Sessions
      /\ s.vars = [k \in Keys |-> IF k \in DOMAIN wire.info THEN wire.info[k] ELSE server.vars[k]]
      /\ s.txn = server.txn /\ s.committed = server.committed /\ s.uncommitted = server.uncommitted
  BY <1>1, ServedFields
<1>3. ~IsWrite(r, WriteCalls)
  <2>1. RequestFits(r, made)
    BY <1>1 DEF FitInv, Requests, OnWire, NoPacket, SentPackets
  <2>2. r.type = TypeOf(made[r.call].kind)
    BY <1>1, <2>1 DEF RequestFits, Primary
  <2> QED
    BY <1>1, <2>2 DEF IsWrite, WriteCalls, Writes, TypeOf
<1>4. /\ <<>> \in Seq(Served1)
      /\ EndFlags(s, "committed") \in SUBSET Flags /\ EndFlags(s, "rolledBack") \in SUBSET Flags
      /\ {"unconfirmed"} \in SUBSET Flags
  BY EmptySeq DEF Flags, EndFlags
<1> HIDE DEF s, r
<1>5. CASE r.type = "COMMIT" /\ server' = Committed(s) /\ wire' = Reply(r, "none", EndFlags(s, "committed"), <<>>)
  <2>1. /\ server' \in Sessions /\ server'.vars = s.vars /\ server'.txn = "none" /\ server'.uncommitted = {}
        /\ server'.committed = s.committed \cup s.uncommitted
    BY <1>2, <1>5, EndFields
  <2>2. /\ wire' \in Replies /\ wire'.request = r /\ wire'.context = server'.context
        /\ wire'.flags = EndFlags(s, "committed") /\ wire'.error = "none"
    BY <1>1, <1>4, <1>5, <2>1, ReplyTyped
  <2>3. txKind = server.txn => KindAfter(wire'.flags) = "none"
    BY <1>2, <2>2 DEF KindAfter, EndFlags
  <2> QED
    BY <1>2, <1>3, <1>5, <2>1, <2>2, <2>3 DEF Replied, WritesAfter, CommittedWith, Commits, r
<1>6. CASE r.type = "ROLLBACK" /\ server' = RolledBack(s) /\ wire' = Reply(r, "none", EndFlags(s, "rolledBack"), <<>>)
  <2>1. /\ server' \in Sessions /\ server'.vars = s.vars /\ server'.txn = "none" /\ server'.uncommitted = {}
        /\ server'.committed = s.committed
    BY <1>2, <1>6, EndFields
  <2>2. /\ wire' \in Replies /\ wire'.request = r /\ wire'.context = server'.context
        /\ wire'.flags = EndFlags(s, "rolledBack") /\ wire'.error = "none"
    BY <1>1, <1>4, <1>6, <2>1, ReplyTyped
  <2>3. txKind = server.txn => KindAfter(wire'.flags) = "none"
    BY <1>2, <2>2 DEF KindAfter, EndFlags
  <2> QED
    BY <1>2, <1>6, <2>1, <2>2, <2>3 DEF Replied, WritesAfter, Dropped, r
<1>7. CASE server' = s /\ wire' = Reply(r, "none", {"unconfirmed"}, <<>>)
  <2>1. /\ wire' \in Replies /\ wire'.request = r /\ wire'.context = server'.context
        /\ wire'.flags = {"unconfirmed"} /\ wire'.error = "none"
    BY <1>1, <1>2, <1>4, <1>7, ReplyTyped
  <2>2. KindAfter(wire'.flags) = txKind /\ Unconfirmed(r.type, wire')
    BY <2>1 DEF KindAfter, Unconfirmed
  <2> QED
    BY <1>2, <1>3, <1>7, <2>1, <2>2 DEF Replied, WritesAfter, Untouched, r
<1> QED
  BY <1>1, <1>5, <1>6, <1>7 DEF ServeCommit, s, r

\* A write that is executed: what its flags say is what becomes of the transaction.
LEMMA WriteReply ==
  ASSUME WellTyped, wire \in SentPackets, NEW s \in Sessions, NEW o \in Sessions,
         s.vars = [k \in Keys |-> IF k \in DOMAIN wire.info THEN wire.info[k] ELSE server.vars[k]],
         s.txn = server.txn, s.committed = server.committed, s.uncommitted = server.uncommitted,
         o.vars = s.vars, o.txn = s.txn, o.committed = s.committed, o.uncommitted = s.uncommitted,
         IsWrite(wire.request, WriteCalls), wire.request.type \notin {"COMMIT", "ROLLBACK"},
         NEW results \in Seq(Served1),
         server' = Executed(o, wire.request, TRUE),
         wire' = Reply(wire.request, "none", ExecutedFlags(s, wire.request, TRUE), results)
  PROVE  Replied
<1> DEFINE r == wire.request
<1>1. r \in RequestSet /\ r.commit \in BOOLEAN /\ s.txn \in TxKinds
  BY DEF SentPackets, RequestSet, Sessions
<1>2. /\ server' \in Sessions /\ server'.vars = s.vars
      /\ r.commit => server'.txn = "none" /\ CommittedWith({r.call})
      /\ ~r.commit => server'.txn = "write" /\ Joined({r.call})
  <2> DEFINE e == Executed(o, r, TRUE)
  <2>1. /\ e \in Sessions /\ e.vars = o.vars /\ e.context = o.context
        /\ r.commit => /\ e.txn = "none" /\ e.uncommitted = {}
                       /\ e.committed = o.committed \cup o.uncommitted \cup {r.call}
        /\ ~r.commit => /\ e.txn = "write" /\ e.uncommitted = o.uncommitted \cup {r.call}
                        /\ e.committed = o.committed
    BY <1>1, WriteFields, ZenonT(40)
  <2>2. server' = e
    OBVIOUS
  <2> HIDE DEF e
  <2> QED
    BY <2>1, <2>2 DEF CommittedWith, Joined
<1>3. ExecutedFlags(s, r, TRUE) \in SUBSET Flags
  BY DEF ExecutedFlags, Flags
<1>4. /\ wire' \in Replies /\ wire'.request = r /\ wire'.context = server'.context
      /\ wire'.flags = ExecutedFlags(s, r, TRUE) /\ wire'.error = "none"
  BY <1>1, <1>2, <1>3, ReplyTyped
<1>5. txKind = server.txn => KindAfter(wire'.flags) = server'.txn
  BY <1>1, <1>2, <1>4 DEF KindAfter, ExecutedFlags, TxKinds
<1>6. WritesAfter(r)
  BY <1>1, <1>2 DEF WritesAfter
<1> QED
  BY <1>2, <1>4, <1>5, <1>6 DEF Replied

\* So it is with a read.
LEMMA ReadReply ==
  ASSUME WellTyped, wire \in SentPackets, NEW s \in Sessions, NEW o \in Sessions,
         s.vars = [k \in Keys |-> IF k \in DOMAIN wire.info THEN wire.info[k] ELSE server.vars[k]],
         s.txn = server.txn, s.committed = server.committed, s.uncommitted = server.uncommitted,
         o.vars = s.vars, o.txn = s.txn, o.committed = s.committed, o.uncommitted = s.uncommitted,
         ~IsWrite(wire.request, WriteCalls), wire.request.type \notin {"COMMIT", "ROLLBACK"},
         NEW results \in Seq(Served1),
         server' = Executed(o, wire.request, FALSE),
         wire' = Reply(wire.request, "none", ExecutedFlags(s, wire.request, FALSE), results)
  PROVE  Replied
<1> DEFINE r == wire.request
<1>1. r \in RequestSet /\ r.commit \in BOOLEAN /\ s.txn \in TxKinds
  BY DEF SentPackets, RequestSet, Sessions
<1>2. /\ server' \in Sessions /\ server'.vars = s.vars
      /\ r.commit => server'.txn = "none" /\ CommittedWith({})
      /\ ~r.commit => server'.txn = (IF s.txn = "none" THEN "read" ELSE s.txn) /\ Untouched
  <2> DEFINE e == Executed(o, r, FALSE)
  <2>1. /\ e \in Sessions /\ e.vars = o.vars /\ e.context = o.context
        /\ r.commit => /\ e.txn = "none" /\ e.uncommitted = {}
                       /\ e.committed = o.committed \cup o.uncommitted
        /\ ~r.commit => /\ e.txn = IF o.txn = "none" THEN "read" ELSE o.txn
                        /\ e.uncommitted = o.uncommitted /\ e.committed = o.committed
    BY <1>1, ReadFields, ZenonT(40)
  <2>2. server' = e
    OBVIOUS
  <2> HIDE DEF e
  <2> QED
    BY <2>1, <2>2 DEF CommittedWith, Untouched
<1>3. ExecutedFlags(s, r, FALSE) \in SUBSET Flags
  BY DEF ExecutedFlags, Flags
<1>4. /\ wire' \in Replies /\ wire'.request = r /\ wire'.context = server'.context
      /\ wire'.flags = ExecutedFlags(s, r, FALSE) /\ wire'.error = "none"
  BY <1>1, <1>2, <1>3, ReplyTyped
<1>5. txKind = server.txn => KindAfter(wire'.flags) = server'.txn
  BY <1>1, <1>2, <1>4 DEF KindAfter, ExecutedFlags, TxKinds
<1>6. WritesAfter(r)
  BY <1>1, <1>2 DEF WritesAfter, Commits
<1> QED
  BY <1>2, <1>4, <1>5, <1>6 DEF Replied

\* The type of the first request of a call, by its kind.
LEMMA TypesOfCalls ==
  ASSUME WellTyped, NEW r \in RequestSet, RequestFits(r, made)
  PROVE  /\ r.type \in {"EXECUTE", "EXECUTE_DIRECT"} /\ made[r.call].kind \in Writes => IsWrite(r, WriteCalls)
         /\ IsWrite(r, WriteCalls) => r.type \in {"EXECUTE", "EXECUTE_DIRECT"} /\ made[r.call].kind \in Writes
         /\ r.type = "EXECUTE" => made[r.call].kind = "run"
         /\ r.type = "EXECUTE_DIRECT" => made[r.call].kind \in {"select", "update", "procedure"}
         /\ r.type = "COMMIT" => made[r.call].kind = "commit"
         /\ r.type = "ROLLBACK" => made[r.call].kind = "rollback"
         /\ r.type \in {"PREPARE", "DROP_STATEMENT_ID", "CLIENT_PING"} => made[r.call].kind \in {"prepare", "drop", "ping"}
         /\ r.type \in Primary /\ made[r.call].kind = "rollback" => r.type = "ROLLBACK"
<1>1. r.call \in DOMAIN made /\ made[r.call].kind \in Kinds
  <2>1. r.call \in DOMAIN made
    BY DEF RequestFits
  <2>2. made[r.call] \in Made
    BY <2>1, LenProperties, ElementOfSeq DEF WellTyped, CallsTyped
  <2> QED
    BY <2>1, <2>2 DEF Made
<1>2. made[r.call].kind \in {"select", "update", "procedure", "prepare", "run", "drop", "commit", "rollback", "ping"}
  BY <1>1, CallAssumption
<1>3. r.type \in Primary => r.type = TypeOf(made[r.call].kind)
  BY DEF RequestFits
<1> QED
  BY <1>1, <1>2, <1>3 DEF Primary, TypeOf, IsWrite, WriteCalls, Writes

\* Every other request is served as a write, as a read, or without touching the transaction.
LEMMA ServeEffect ==
  ASSUME WellTyped, FitInv, Serve
  PROVE  Replied
<1> DEFINE r == wire.request
           s == Served(server, wire)
           kind == made[r.call].kind
           opened(results) == [s EXCEPT !.open = @ \cup OpenSets(r.call, results)]
<1>1. wire \in SentPackets /\ r \in RequestSet /\ server \in Sessions /\ scenario \in Scenarios
  BY SentTyped DEF Serve, WellTyped, SessionTyped
<1>2. /\ s \in Sessions
      /\ s.vars = [k \in Keys |-> IF k \in DOMAIN wire.info THEN wire.info[k] ELSE server.vars[k]]
      /\ s.txn = server.txn /\ s.committed = server.committed /\ s.uncommitted = server.uncommitted
  BY <1>1, ServedFields
<1>3. RequestFits(r, made)
  BY <1>1 DEF FitInv, Requests, OnWire, NoPacket, SentPackets
<1>4. /\ r.type \in {"EXECUTE", "EXECUTE_DIRECT"} /\ kind \in Writes <=> IsWrite(r, WriteCalls)
      /\ r.type \notin {"COMMIT", "ROLLBACK"}
  BY <1>1, <1>3, TypesOfCalls DEF Serve
<1>5. <<>> \in Seq(Served1)
  BY EmptySeq
<1>6. r.call \in Calls /\ r.i \in Nat
  BY <1>1 DEF RequestSet
<1>7. /\ r.type \in {"EXECUTE_DIRECT", "EXECUTE"} /\ kind \in Writes
      /\ server' = Executed(s, r, TRUE)
      /\ wire' = Reply(r, "none", ExecutedFlags(s, r, TRUE), <<>>)
      => Replied
  BY <1>1, <1>2, <1>4, <1>5, WriteReply
<1>8. ASSUME r.type = "EXECUTE_DIRECT", kind \in {"select", "procedure"},
             NEW n \in (IF kind = "select" THEN {1} ELSE 0..scenario.results), NEW results \in [1..n -> Served1],
             server' = Executed(opened(results), r, FALSE),
             wire' = Reply(r, "none", ExecutedFlags(s, r, FALSE), results)
      PROVE  Replied
  <2>1. n \in Nat
    BY <1>1, <1>8, SessionAssumption DEF ScenarioOK
  <2>2. results \in Seq(Served1)
    BY <2>1
  <2>3. OpenSets(r.call, results) \subseteq Calls \X Nat
    BY <1>6, <2>1 DEF OpenSets
  <2>4. /\ opened(results) \in Sessions /\ opened(results).vars = s.vars /\ opened(results).txn = s.txn
        /\ opened(results).committed = s.committed /\ opened(results).uncommitted = s.uncommitted
    <3> HIDE DEF s
    <3> QED
      BY <1>2, <2>3 DEF Sessions
  <2>5. ~IsWrite(r, WriteCalls)
    BY <1>4, <1>8 DEF Writes
  <2> HIDE DEF opened, s
  <2> QED
    BY <1>1, <1>2, <1>4, <1>8, <2>2, <2>4, <2>5, ReadReply
<1>9. ASSUME r.type = "FETCH_NEXT", NEW closes \in BOOLEAN,
             server' = Executed([s EXCEPT !.open = IF closes THEN @ \ {<<r.call, r.i>>} ELSE @], r, FALSE),
             wire' = Reply(r, "none", ExecutedFlags(s, r, FALSE), <<[left |-> 0, closes |-> closes]>>)
      PROVE  Replied
  <2> DEFINE o == [s EXCEPT !.open = IF closes THEN @ \ {<<r.call, r.i>>} ELSE @]
  <2>1. /\ o \in Sessions /\ o.vars = s.vars /\ o.txn = s.txn
        /\ o.committed = s.committed /\ o.uncommitted = s.uncommitted
    <3> HIDE DEF s
    <3> QED
      BY <1>2 DEF Sessions
  <2>2. <<[left |-> 0, closes |-> closes]>> \in Seq(Served1)
    BY CallAssumption DEF Served1
  <2>3. ~IsWrite(r, WriteCalls)
    BY <1>9 DEF IsWrite, Primary
  <2>4. server' = Executed(o, r, FALSE)
    BY <1>9
  <2> HIDE DEF o, s
  <2> QED
    BY <1>1, <1>2, <1>4, <1>9, <2>1, <2>2, <2>3, <2>4, ReadReply
<1>10. ASSUME wire' = Reply(r, "none", {}, <<>>), server' \in Sessions, server'.vars = s.vars, server'.txn = s.txn,
              server'.committed = s.committed, server'.uncommitted = s.uncommitted, ~IsWrite(r, WriteCalls)
       PROVE  Replied
  <2>1. /\ wire' \in Replies /\ wire'.request = r /\ wire'.context = server'.context
        /\ wire'.flags = {} /\ wire'.error = "none"
    BY <1>1, <1>5, <1>10, ReplyTyped
  <2>2. KindAfter(wire'.flags) = txKind
    BY <2>1 DEF KindAfter
  <2> QED
    BY <1>2, <1>4, <1>10, <2>1, <2>2 DEF Replied, WritesAfter, Untouched
<1>11. CASE /\ r.type = "CLOSE_RESULT_SET"
            /\ server' = [s EXCEPT !.open = @ \ {<<r.call, r.i>>}]
            /\ wire' = Reply(r, "none", {}, <<>>)
  <2>1. /\ server' \in Sessions /\ server'.vars = s.vars /\ server'.txn = s.txn
        /\ server'.committed = s.committed /\ server'.uncommitted = s.uncommitted
    <3> HIDE DEF s
    <3> QED
      BY <1>2, <1>11 DEF Sessions
  <2> QED
    BY <1>10, <1>11, <2>1 DEF IsWrite, Primary
<1>12. CASE /\ r.type \in {"PREPARE", "DROP_STATEMENT_ID"}
            /\ server' = [s EXCEPT !.prepared = (r.type = "PREPARE")]
            /\ wire' = Reply(r, "none", {}, <<>>)
  <2>1. /\ server' \in Sessions /\ server'.vars = s.vars /\ server'.txn = s.txn
        /\ server'.committed = s.committed /\ server'.uncommitted = s.uncommitted
    <3> HIDE DEF s
    <3> QED
      BY <1>2, <1>12 DEF Sessions
  <2> QED
    BY <1>4, <1>10, <1>12, <2>1
<1>13. CASE /\ r.type \in {"READ_LOB", "CLIENT_PING"}
            /\ server' = IF r.commit THEN Committed(s) ELSE s
            /\ wire' = Reply(r, "none", IF r.commit THEN EndFlags(s, "committed") ELSE {}, <<>>)
  <2>1. ~IsWrite(r, WriteCalls)
    BY <1>4, <1>13
  <2>2. CASE ~r.commit
    BY <1>2, <1>10, <1>13, <2>1, <2>2
  <2>3. CASE r.commit
    <3>1. /\ server' \in Sessions /\ server'.vars = s.vars /\ server'.txn = "none" /\ server'.uncommitted = {}
          /\ server'.committed = s.committed \cup s.uncommitted
      BY <1>2, <1>13, <2>3, EndFields
    <3>2. EndFlags(s, "committed") \in SUBSET Flags
      BY DEF EndFlags, Flags
    <3>3. /\ wire' \in Replies /\ wire'.request = r /\ wire'.context = server'.context
          /\ wire'.flags = EndFlags(s, "committed") /\ wire'.error = "none"
      BY <1>1, <1>5, <1>13, <2>3, <3>1, <3>2, ReplyTyped
    <3> HIDE DEF s
    <3>4. txKind = server.txn => KindAfter(wire'.flags) = "none"
      BY <1>2, <3>3 DEF KindAfter, EndFlags
    <3> QED
      BY <1>2, <1>4, <1>13, <2>1, <2>3, <3>1, <3>3, <3>4 DEF Replied, WritesAfter, CommittedWith, Commits
  <2> QED
    BY <1>1, <2>2, <2>3 DEF RequestSet
<1>14. \/ /\ r.type \in {"EXECUTE_DIRECT", "EXECUTE"} /\ kind \in Writes
          /\ server' = Executed(s, r, TRUE)
          /\ wire' = Reply(r, "none", ExecutedFlags(s, r, TRUE), <<>>)
       \/ /\ r.type = "EXECUTE_DIRECT" /\ kind \in {"select", "procedure"}
          /\ \E n \in (IF kind = "select" THEN {1} ELSE 0..scenario.results) : \E results \in [1..n -> Served1] :
               /\ server' = Executed(opened(results), r, FALSE)
               /\ wire' = Reply(r, "none", ExecutedFlags(s, r, FALSE), results)
       \/ /\ r.type = "FETCH_NEXT"
          /\ \E closes \in BOOLEAN :
               /\ server' = Executed([s EXCEPT !.open = IF closes THEN @ \ {<<r.call, r.i>>} ELSE @], r, FALSE)
               /\ wire' = Reply(r, "none", ExecutedFlags(s, r, FALSE), <<[left |-> 0, closes |-> closes]>>)
       \/ /\ r.type = "CLOSE_RESULT_SET"
          /\ server' = [s EXCEPT !.open = @ \ {<<r.call, r.i>>}]
          /\ wire' = Reply(r, "none", {}, <<>>)
       \/ /\ r.type \in {"PREPARE", "DROP_STATEMENT_ID"}
          /\ server' = [s EXCEPT !.prepared = (r.type = "PREPARE")]
          /\ wire' = Reply(r, "none", {}, <<>>)
       \/ /\ r.type \in {"READ_LOB", "CLIENT_PING"}
          /\ server' = IF r.commit THEN Committed(s) ELSE s
          /\ wire' = Reply(r, "none", IF r.commit THEN EndFlags(s, "committed") ELSE {}, <<>>)
  <2> HIDE DEF s
  <2> QED
    BY DEF Serve, s
<1> QED
  BY <1>7, <1>8, <1>9, <1>11, <1>12, <1>13, <1>14

-----------------------------------------------------------------------------
(* A call goes on *)

\* Call c has nothing on its way among q, S and t, or has called back.
Alone(c, q, S, t) == ApartFrom(c, Range(q) \cup S \cup Range(t), told)

CallsBack(c, q, t) ==
  /\ told[c] = "none" /\ told'[c] \in {"ok", "error"} /\ queue' = q /\ allowed' = allowed
  /\ \/ ticks' = t
     \/ /\ made[c].kind \in HasRows
        /\ \E closes \in Seq(Ticks) :
             ticks' = t \o closes /\ \A e \in Range(closes) : e.call = c /\ e.do = "sendClose"
NextTick(c, q, t) ==
  /\ told'[c] = told[c] /\ queue' = q /\ allowed' = allowed
  /\ \E e \in Ticks : e.call = c /\ e.do # "unbound" /\ ticks' = Append(t, e) /\ TickPlace(e, told', work')
NextRequest(c, q, t) ==
  /\ told'[c] = told[c] /\ ticks' = t
  /\ \E e \in RequestSet :
       /\ e.call = c /\ e.type \notin Primary /\ queue' = Append(q, e) /\ RequestPlace(e, told', work')
       /\ allowed \subseteq allowed' /\ (e.commit => WriteCalls \subseteq allowed')
Rests(c, q, t) ==
  told'[c] = told[c] /\ queue' = q /\ ticks' = t /\ allowed' = allowed

\* What a step does with a call, when q and t are what is left of the queue and the ticks.
Moved(c, q, t) ==
  /\ made' = made
  /\ told' \in [Calls -> {"none", "ok", "error", "twice"}] /\ work' \in [Calls -> Places]
  /\ \A d \in Calls \ {c} : told'[d] = told[d] /\ work'[d] = work[d]
  /\ told'[c] # "none" => work'[c].at = "idle"
  /\ work'[c].at # "idle" => made[c].kind \in HasRows
  /\ \/ CallsBack(c, q, t)
     \/ (NextTick(c, q, t) \/ NextRequest(c, q, t)) /\ made[c].kind \in HasRows
     \/ Rests(c, q, t)

\* A step with a call keeps the types of the queue and the ticks.
LEMMA MovedTyped ==
  ASSUME CallsTyped, NEW c \in Calls, NEW q \in Seq(RequestSet), NEW t \in Seq(Ticks), Moved(c, q, t),
         sets' \in [ResultIds -> Knowledge]
  PROVE  queue' \in Seq(RequestSet) /\ CallsTyped'
<1>1. queue' \in Seq(RequestSet)
  BY AppendRange DEF Moved, CallsBack, NextTick, NextRequest, Rests
<1>2. ticks' \in Seq(Ticks)
  <2>1. \A e \in Ticks : Append(t, e) \in Seq(Ticks)
    BY AppendRange
  <2>2. \A closes \in Seq(Ticks) : t \o closes \in Seq(Ticks)
    BY ConcatProperties
  <2> QED
    BY <2>1, <2>2 DEF Moved, CallsBack, NextTick, NextRequest, Rests
<1>3. made' = made
  BY DEF Moved
<1> QED
  BY <1>1, <1>2, <1>3 DEF Moved, CallsTyped

\* A call has called back, and what is on its way is none of it, or only closes result sets.
LEMMA KeepsPlaces ==
  ASSUME NEW c \in Calls, NEW q \in Seq(RequestSet), NEW S \in SUBSET RequestSet, NEW t \in Seq(Ticks),
         Once(q, S, t, told, work), Alone(c, q, S, t),
         told' \in [Calls -> {"none", "ok", "error", "twice"}],
         \A d \in Calls \ {c} : told'[d] = told[d] /\ work'[d] = work[d],
         told'[c] # "none" => work'[c].at = "idle",
         told[c] # "none" => told'[c] = told[c], told'[c] # "twice"
  PROVE  Once(q, S, t, told', work')
<1>1. \A r \in Range(q) \cup S : r.call \in Calls
  <2>1. Range(q) \subseteq RequestSet
    BY RangeOfSeq
  <2> QED
    BY <2>1 DEF RequestSet
<1>2. \A e \in Range(t) : e.call \in Calls
  <2>1. Range(t) \subseteq Ticks
    BY RangeOfSeq
  <2> QED
    BY <2>1 DEF Ticks
<1>3. \A e \in Range(q) \cup S \cup Range(t) : e.call = c => told[c] # "none"
  BY DEF Alone, ApartFrom, Apart
<1>4. \A d \in Calls : told[d] # "none" => told'[d] # "none"
  BY DEF Once
<1>5. \A d \in Calls : told'[d] # "twice" /\ (told'[d] # "none" => work'[d].at = "idle")
  BY DEF Once
<1>6. \A r \in Range(q) \cup S : RequestPlace(r, told', work')
  <2>1. SUFFICES ASSUME NEW r \in Range(q) \cup S PROVE RequestPlace(r, told', work')
    OBVIOUS
  <2>2. RequestPlace(r, told, work) /\ r.call \in Calls
    BY <1>1 DEF Once
  <2>3. CASE r.call # c
    BY <2>2, <2>3 DEF RequestPlace
  <2>4. CASE r.call = c
    <3>1. told[c] # "none" /\ told'[c] # "none" /\ work[c].at = "idle" /\ work'[c].at = "idle"
      BY <1>3, <2>4 DEF Once
    <3> QED
      BY <2>2, <2>4, <3>1 DEF RequestPlace
  <2> QED
    BY <2>3, <2>4
<1>7. \A e \in Range(t) : TickPlace(e, told', work')
  <2>1. SUFFICES ASSUME NEW e \in Range(t) PROVE TickPlace(e, told', work')
    OBVIOUS
  <2>2. TickPlace(e, told, work) /\ e.call \in Calls
    BY <1>2 DEF Once
  <2>3. CASE e.call # c
    BY <2>2, <2>3 DEF TickPlace
  <2>4. CASE e.call = c
    <3>1. told[c] # "none" /\ told'[c] # "none" /\ work[c].at = "idle" /\ work'[c].at = "idle"
      BY <1>3, <2>4 DEF Once
    <3> QED
      BY <2>2, <2>4, <3>1 DEF TickPlace
  <2> QED
    BY <2>3, <2>4
<1>8. Sparse(q, told') /\ Sparse(t, told')
  BY <1>1, <1>2, <1>4, SparseTold DEF Once
<1>9. /\ \A r \in S : ApartFrom(r.call, Range(q), told')
      /\ \A r \in Range(q) \cup S : ApartFrom(r.call, Range(t), told')
  BY <1>1, <1>4 DEF Once, ApartFrom, Apart
<1> QED
  BY <1>5, <1>6, <1>7, <1>8, <1>9 DEF Once

\* One more tick of a call that is alone, or one more request.
LEMMA OnceTick ==
  ASSUME NEW q, NEW S, NEW t \in Seq(Ticks), NEW T, NEW W, Once(q, S, t, T, W),
         NEW e \in Ticks, ApartFrom(e.call, Range(q) \cup S \cup Range(t), T), TickPlace(e, T, W)
  PROVE  Once(q, S, Append(t, e), T, W)
<1>1. Range(Append(t, e)) = Range(t) \cup {e}
  BY AppendRange
<1>2. Sparse(Append(t, e), T)
  <2>1. ApartFrom(e.call, Range(t), T)
    BY DEF ApartFrom
  <2> QED
    BY <2>1, SparseAppend DEF Once
<1>3. \A r \in Range(q) \cup S : ApartFrom(r.call, {e}, T)
  BY DEF ApartFrom, Apart
<1> QED
  BY <1>1, <1>2, <1>3 DEF Once, ApartFrom

\* One more request of a call that is alone.
LEMMA OnceRequest ==
  ASSUME NEW q \in Seq(RequestSet), NEW S, NEW t, NEW T, NEW W, Once(q, S, t, T, W),
         NEW e \in RequestSet, ApartFrom(e.call, Range(q) \cup S \cup Range(t), T), RequestPlace(e, T, W)
  PROVE  Once(Append(q, e), S, t, T, W)
<1>1. Range(Append(q, e)) = Range(q) \cup {e}
  BY AppendRange
<1>2. Sparse(Append(q, e), T)
  <2>1. ApartFrom(e.call, Range(q), T)
    BY DEF ApartFrom
  <2> QED
    BY <2>1, SparseAppend DEF Once
<1>3. \A r \in S : ApartFrom(r.call, {e}, T)
  BY DEF ApartFrom, Apart
<1>4. ApartFrom(e.call, Range(t), T)
  BY DEF ApartFrom
<1> QED
  BY <1>1, <1>2, <1>3, <1>4 DEF Once, ApartFrom

\* A step with a call that was alone keeps to one request or tick for each call.
LEMMA OnceMoved ==
  ASSUME NEW c \in Calls, NEW q \in Seq(RequestSet), NEW S \in SUBSET RequestSet, NEW t \in Seq(Ticks),
         Once(q, S, t, told, work), Alone(c, q, S, t), Moved(c, q, t)
  PROVE  Once(queue', S, ticks', told', work')
<1>1. told'[c] # "twice"
  BY DEF Moved, CallsBack, NextTick, NextRequest, Rests, Once
<1>2. Once(q, S, t, told', work')
  BY <1>1, KeepsPlaces DEF Moved, CallsBack, NextTick, NextRequest, Rests
<1>3. \A e \in Range(q) \cup S \cup Range(t) : Apart(c, e.call, told') /\ Apart(e.call, c, told')
  BY DEF Alone, ApartFrom, Apart, Moved, CallsBack, NextTick, NextRequest, Rests
<1>4. CASE queue' = q /\ ticks' = t
  BY <1>2, <1>4
<1>5. ASSUME queue' = q, NEW closes \in Seq(Ticks), ticks' = t \o closes, told'[c] # "none",
             \A e \in Range(closes) : e.call = c /\ e.do = "sendClose"
      PROVE  Once(queue', S, ticks', told', work')
  <2>1. Range(ticks') = Range(t) \cup Range(closes)
    BY <1>5, RangeConcatenation
  <2>2. Sparse(ticks', told')
    BY <1>2, <1>5, SparseConcat DEF Once
  <2>3. \A e \in Range(closes) : TickPlace(e, told', work')
    BY <1>5 DEF TickPlace
  <2>4. \A r \in Range(q) \cup S : ApartFrom(r.call, Range(closes), told')
    BY <1>5 DEF ApartFrom, Apart
  <2> QED
    BY <1>2, <1>5, <2>1, <2>2, <2>3, <2>4 DEF Once, ApartFrom
<1>6. ApartFrom(c, Range(q) \cup S \cup Range(t), told')
  BY <1>3 DEF ApartFrom
<1>7. \A e \in Ticks : e.call = c /\ TickPlace(e, told', work') => Once(q, S, Append(t, e), told', work')
  BY <1>2, <1>6, OnceTick
<1>8. \A e \in RequestSet : e.call = c /\ RequestPlace(e, told', work') => Once(Append(q, e), S, t, told', work')
  BY <1>2, <1>6, OnceRequest
<1> QED
  BY <1>4, <1>5, <1>7, <1>8 DEF Moved, CallsBack, NextTick, NextRequest, Rests

\* Taking the reply, the first task or the first tick leaves the call that it belongs to alone.
LEMMA AloneReply ==
  ASSUME NEW q, NEW r, NEW t, Once(q, {r}, t, told, work)
  PROVE  Once(q, {}, t, told, work) /\ Alone(r.call, q, {}, t) /\ RequestPlace(r, told, work)
BY DEF Once, Alone, ApartFrom

\* Taking the first task leaves its call alone.
LEMMA AloneTask ==
  ASSUME NEW q \in Seq(RequestSet), q # <<>>, NEW t, Once(q, {}, t, told, work)
  PROVE  /\ Once(Tail(q), {}, t, told, work) /\ Alone(Head(q).call, Tail(q), {}, t)
         /\ RequestPlace(Head(q), told, work) /\ Once(Tail(q), {Head(q)}, t, told, work)
<1>1. Range(q) = {Head(q)} \cup Range(Tail(q))
  BY TailRange
<1>2. Sparse(Tail(q), told) /\ ApartFrom(Head(q).call, Range(Tail(q)), told)
  BY SparseTail DEF Once
<1> QED
  BY <1>1, <1>2 DEF Once, Alone, ApartFrom

\* Taking the first tick leaves its call alone.
LEMMA AloneTick ==
  ASSUME NEW q, NEW S, NEW t \in Seq(Ticks), t # <<>>, Once(q, S, t, told, work)
  PROVE  /\ Once(q, S, Tail(t), told, work) /\ Alone(Head(t).call, q, S, Tail(t))
         /\ TickPlace(Head(t), told, work)
<1>1. Range(t) = {Head(t)} \cup Range(Tail(t))
  BY TailRange
<1>2. Sparse(Tail(t), told) /\ ApartFrom(Head(t).call, Range(Tail(t)), told)
  BY SparseTail DEF Once
<1>3. \A r \in Range(q) \cup S : Apart(Head(t).call, r.call, told)
  BY <1>1 DEF Once, ApartFrom, Apart
<1> QED
  BY <1>1, <1>2, <1>3 DEF Once, Alone, ApartFrom

-----------------------------------------------------------------------------
(* What becomes of a call *)

\* fetchAll has called back, and the result sets that are open are to be closed.
LEMMA FetchAllDoneEffect ==
  ASSUME CallsTyped, NEW c \in Calls, NEW outcome \in {"ok", "error"}, NEW due \in Seq(Ticks),
         told[c] = "none", FetchAllDone(c, outcome, due)
  PROVE  /\ told' \in [Calls -> {"none", "ok", "error", "twice"}] /\ told'[c] = outcome
         /\ work' \in [Calls -> Places] /\ work'[c].at = "idle"
         /\ \A d \in Calls \ {c} : told'[d] = told[d] /\ work'[d] = work[d]
         /\ \E closes \in Seq(Ticks) :
              ticks' = due \o closes /\ \A e \in Range(closes) : e.call = c /\ e.do = "sendClose"
<1> DEFINE I == {s[2] : s \in LeftOpen(c, outcome)}
<1>1. PICK order \in InOrder(I) : ticks' = due \o [k \in DOMAIN order |-> Tick("sendClose", c, order[k])]
  BY DEF FetchAllDone
<1>2. I \subseteq 1..MaxResults
  BY DEF LeftOpen, ResultIds
<1>3. Cardinality(I) \in Nat
  <2> HIDE DEF I
  <2>1. IsFiniteSet(1..MaxResults)
    BY SessionAssumption, FS_Interval
  <2> QED
    BY <1>2, <2>1, FS_Subset, FS_CardinalityType
<1>4. order \in [1..Cardinality(I) -> I]
  BY <1>1 DEF InOrder
<1> HIDE DEF I
<1> DEFINE closes == [k \in 1..Cardinality(I) |-> Tick("sendClose", c, order[k])]
<1>5. \A k \in 1..Cardinality(I) : Tick("sendClose", c, order[k]) \in Ticks
  <2>1. \A k \in 1..Cardinality(I) : order[k] \in Nat
    <3>1. \A k \in 1..Cardinality(I) : order[k] \in I
      BY <1>4
    <3>2. I \subseteq Nat
      BY <1>2, SessionAssumption
    <3> QED
      BY <3>1, <3>2
  <2> QED
    BY <2>1 DEF Tick, Ticks
<1>6. closes \in Seq(Ticks)
  BY <1>3, <1>5
<1>7. \A e \in Range(closes) : e.call = c /\ e.do = "sendClose"
  BY DEF Range, Tick
<1>8. ticks' = due \o closes
  BY <1>1, <1>4
<1>9. told' = [told EXCEPT ![c] = outcome] /\ work' = [work EXCEPT ![c] = Idle]
  BY DEF FetchAllDone, Told
<1>10. Idle \in Places /\ Idle.at = "idle"
  BY DEF Idle, Places
<1> HIDE DEF closes
<1>11. /\ told' \in [Calls -> {"none", "ok", "error", "twice"}] /\ told'[c] = outcome
       /\ \A d \in Calls \ {c} : told'[d] = told[d]
  BY <1>9 DEF CallsTyped
<1>12. /\ work' \in [Calls -> Places] /\ work'[c].at = "idle"
       /\ \A d \in Calls \ {c} : work'[d] = work[d]
  BY <1>9, <1>10 DEF CallsTyped
<1> QED
  BY <1>6, <1>7, <1>8, <1>11, <1>12

\* The callback of close(): fetch() goes on or calls back, or nobody waits for it.
LEMMA AfterCloseMoved ==
  ASSUME CallsTyped, NEW c \in Calls, NEW i \in Nat, NEW q, NEW due \in Seq(Ticks), AfterClose(c, i, due),
         queue' = q, allowed' = allowed, made' = made, made[c].kind \in HasRows,
         told[c] # "none" => work[c].at = "idle"
  PROVE  Moved(c, q, due)
<1>1. CASE work[c].at = "wait"
  <2>1. ticks' = Append(due, Tick("next", c, i)) /\ UNCHANGED <<told, work>>
    BY <1>1 DEF AfterClose
  <2>2. Tick("next", c, i) \in Ticks /\ Tick("next", c, i).call = c /\ Tick("next", c, i).do = "next"
    BY DEF Tick, Ticks
  <2>3. TickPlace(Tick("next", c, i), told', work')
    BY <1>1, <2>1, <2>2 DEF TickPlace
  <2>4. NextTick(c, q, due)
    BY <2>1, <2>2, <2>3 DEF NextTick
  <2> QED
    BY <2>1, <2>4 DEF Moved, CallsTyped
<1>2. CASE work[c].at = "failed"
  <2>1. FetchAllDone(c, "error", due) /\ told[c] = "none"
    <3>1. told[c] = "none"
      BY <1>2
    <3>2. FetchAllDone(c, "error", due)
      BY <1>2 DEF AfterClose
    <3> QED
      BY <3>1, <3>2
  <2>2. /\ told' \in [Calls -> {"none", "ok", "error", "twice"}] /\ told'[c] = "error"
        /\ work' \in [Calls -> Places] /\ work'[c].at = "idle"
        /\ \A d \in Calls \ {c} : told'[d] = told[d] /\ work'[d] = work[d]
        /\ \E closes \in Seq(Ticks) :
              ticks' = due \o closes /\ \A e \in Range(closes) : e.call = c /\ e.do = "sendClose"
    BY <2>1, FetchAllDoneEffect
  <2>3. CallsBack(c, q, due)
    BY <2>1, <2>2 DEF CallsBack
  <2> QED
    BY <2>2, <2>3 DEF Moved
<1>3. CASE work[c].at \notin {"wait", "failed"}
  <2>1. ticks' = due /\ UNCHANGED <<told, work>>
    BY <1>3 DEF AfterClose
  <2>2. Rests(c, q, due)
    BY <2>1 DEF Rests
  <2> QED
    BY <2>1, <2>2 DEF Moved, CallsTyped
<1> QED
  BY <1>1, <1>2, <1>3

\* A request of the given type is made for call c and put behind the requests q.
Asks(type, c, q) ==
  \E e \in RequestSet :
    /\ e.call = c /\ e.type = type /\ e.type \notin Primary /\ queue' = Append(q, e)
    /\ allowed \subseteq allowed' /\ (e.commit => WriteCalls \subseteq allowed')

\* A request that is made for a call that goes on: it commits what user code may expect it to.
LEMMA GoesOnEffect ==
  ASSUME CallsTyped, autoCommit \in BOOLEAN, NEW c \in Calls, NEW i \in Nat, NEW q \in Seq(RequestSet),
         NEW type \in {"READ_LOB", "FETCH_NEXT", "CLOSE_RESULT_SET"}, GoesOn(type, c, i, q)
  PROVE  Asks(type, c, q)
<1> DEFINE e == Request(type, c, i)
<1>1. e \in RequestSet /\ e.call = c /\ e.type = type /\ (e.commit => autoCommit)
  BY DEF Request, RequestSet, CommitImmediately, MessageTypes, Executing
<1>2. type \notin Primary
  BY DEF Primary
<1>3. queue' = Append(q, e)
  BY DEF GoesOn
<1>4. allowed \subseteq allowed' /\ (autoCommit => WriteCalls \subseteq allowed')
  <2>1. DOMAIN made = 1..Len(made)
    BY LenProperties DEF CallsTyped
  <2> QED
    BY <2>1 DEF GoesOn, WriteCalls
<1> QED
  BY <1>1, <1>2, <1>3, <1>4 DEF Asks

\* The first callback of a call, or its only one.
LEMMA ToldMoved ==
  ASSUME CallsTyped, NEW c \in Calls, NEW outcome \in {"ok", "error"}, NEW q, NEW t,
         told[c] = "none", told' = Told(c, outcome), made' = made, queue' = q, ticks' = t, allowed' = allowed,
         work' = work \/ work' = [work EXCEPT ![c] = Idle], work'[c].at = "idle"
  PROVE  Moved(c, q, t) /\ told'[c] = outcome
<1>1. /\ told' \in [Calls -> {"none", "ok", "error", "twice"}] /\ told'[c] = outcome
      /\ \A d \in Calls \ {c} : told'[d] = told[d]
  BY DEF CallsTyped, Told
<1>2. work' \in [Calls -> Places] /\ \A d \in Calls \ {c} : work'[d] = work[d]
  <2>1. Idle \in Places
    BY DEF Idle, Places
  <2>2. CASE work' = work
    BY <2>2 DEF CallsTyped
  <2>3. CASE work' = [work EXCEPT ![c] = Idle]
    BY <2>1, <2>3 DEF CallsTyped
  <2> QED
    BY <2>2, <2>3
<1>3. CallsBack(c, q, t)
  BY <1>1 DEF CallsBack
<1> QED
  BY <1>1, <1>2, <1>3 DEF Moved

\* What the callback of a request may rely on.
CanSettle(r) ==
  /\ r \in RequestSet /\ RequestFits(r, made) /\ RequestPlace(r, told, work)
  /\ told[r.call] # "none" => work[r.call].at = "idle"

\* A call that is told "ok" without rows has been told so by the reply to its own request.
ToldByReply(r, failed, reply) ==
  \A c \in Calls : told'[c] = "ok" /\ told[c] # "ok" /\ made[c].kind \notin HasRows =>
    /\ c = r.call /\ r.type \in Primary /\ ~failed
    /\ r.type \in {"COMMIT", "ROLLBACK"} => ~Unconfirmed(r.type, reply)

\* handleQuery and handleDBCall: the call is told, or its rows are read, or its LOBs.
LEMMA ResultMoved ==
  ASSUME WellTyped, NEW c \in Calls, NEW results \in Seq(Served1), NEW q \in Seq(RequestSet),
         told[c] = "none", work[c].at = "idle", made[c].kind \in HasRows, made' = made, ticks' = ticks,
         HandleResult(c, results, q)
  PROVE  Moved(c, q, ticks) /\ sets' \in [ResultIds -> Knowledge] /\ \A d \in Calls \ {c} : told'[d] = told[d]
<1> DEFINE n == Len(results)
<1>1. n \in Nat /\ DOMAIN results = 1..n /\ \A k \in 1..n : results[k] \in Served1
  BY LenProperties, ElementOfSeq
<1>2. sets' \in [ResultIds -> Knowledge]
  <2>1. \A s \in ResultIds : s[2] \in 1..n =>
          [left  |-> results[s[2]].left,
           state |-> IF results[s[2]].left = 0 /\ results[s[2]].closes THEN "closed" ELSE "open"] \in Knowledge
    BY <1>1, CallAssumption DEF Served1, Knowledge
  <2>2. sets \in [ResultIds -> Knowledge]
    BY DEF WellTyped, CallsTyped
  <2> HIDE DEF n
  <2>3. sets' = [s \in ResultIds |->
          IF s[1] = c /\ s[2] \in 1..n
          THEN [left  |-> results[s[2]].left,
                state |-> IF results[s[2]].left = 0 /\ results[s[2]].closes THEN "closed" ELSE "open"]
          ELSE sets[s]]
    BY DEF HandleResult, n
  <2> QED
    BY <2>1, <2>2, <2>3
<1>3. CASE told' = Told(c, "ok") /\ queue' = q /\ UNCHANGED <<allowed, work>>
  <2>1. Moved(c, q, ticks)
    BY <1>3, ToldMoved DEF WellTyped
  <2> QED
    BY <1>2, <2>1 DEF Moved
<1>4. CASE /\ work' = [work EXCEPT ![c] = [at |-> "fetch", i |-> 1, n |-> n]]
           /\ queue' = q /\ UNCHANGED <<allowed, told>>
  <2>1. /\ work' \in [Calls -> Places] /\ work'[c].at = "fetch" /\ \A d \in Calls \ {c} : work'[d] = work[d]
    BY <1>1, <1>4 DEF WellTyped, CallsTyped, Places
  <2>2. Rests(c, q, ticks)
    BY <1>4 DEF Rests
  <2> QED
    BY <1>2, <1>4, <2>1, <2>2 DEF Moved, WellTyped, CallsTyped
<1>5. CASE /\ GoesOn("READ_LOB", c, 0, q)
           /\ work' = [work EXCEPT ![c] = [at |-> "lob", i |-> 0, n |-> n]]
           /\ UNCHANGED told
  <2>1. /\ work' \in [Calls -> Places] /\ work'[c].at = "lob" /\ \A d \in Calls \ {c} : work'[d] = work[d]
    BY <1>1, <1>5 DEF WellTyped, CallsTyped, Places
  <2>2. PICK e \in RequestSet :
           /\ e.call = c /\ e.type = "READ_LOB" /\ e.type \notin Primary /\ queue' = Append(q, e)
           /\ allowed \subseteq allowed' /\ (e.commit => WriteCalls \subseteq allowed')
    <3>1. CallsTyped /\ autoCommit \in BOOLEAN /\ 0 \in Nat
      BY DEF WellTyped, SessionTyped
    <3>2. "READ_LOB" \in {"READ_LOB", "FETCH_NEXT", "CLOSE_RESULT_SET"}
      OBVIOUS
    <3>3. Asks("READ_LOB", c, q)
      BY <1>5, <3>1, <3>2, GoesOnEffect
    <3> QED
      BY <3>3 DEF Asks
  <2>3. RequestPlace(e, told', work')
    BY <2>1, <2>2 DEF RequestPlace
  <2>4. NextRequest(c, q, ticks)
    BY <1>5, <2>2, <2>3 DEF NextRequest
  <2> QED
    BY <1>2, <1>5, <2>1, <2>4 DEF Moved, WellTyped, CallsTyped
<1> QED
  BY <1>3, <1>4, <1>5 DEF HandleResult

\* The callback of a request moves its call on, and tells it what the reply says.
LEMMA SettleMoved ==
  ASSUME WellTyped, NEW r, CanSettle(r), NEW failed \in BOOLEAN, NEW reply,
         ~failed => reply.results \in Seq(Served1), NEW q \in Seq(RequestSet),
         made' = made, Settle(r, failed, reply, q)
  PROVE  Moved(r.call, q, ticks) /\ sets' \in [ResultIds -> Knowledge] /\ ToldByReply(r, failed, reply)
<1> DEFINE c == r.call
<1>1. /\ r \in RequestSet /\ c \in Calls /\ r.i \in Nat /\ c \in DOMAIN made
      /\ (r.type \notin Primary => made[c].kind \in HasRows) /\ RequestPlace(r, told, work)
      /\ (told[c] # "none" => work[c].at = "idle")
  BY DEF CanSettle, RequestSet, RequestFits
<1>2. sets \in [ResultIds -> Knowledge] /\ CallsTyped
  BY DEF WellTyped, CallsTyped
<1>3. made[c].kind \in HasRows /\ (\A d \in Calls \ {c} : told'[d] = told[d]) => ToldByReply(r, failed, reply)
  BY DEF ToldByReply
<1>4. CASE /\ r.type \in {"EXECUTE", "EXECUTE_DIRECT"} /\ ~failed /\ made[c].kind \notin Writes
           /\ HandleResult(c, reply.results, q)
           /\ UNCHANGED <<ticks, statement>>
  <2>1. made[c].kind \in HasRows
    BY <1>1, <1>4, TypesOfCalls DEF CanSettle, HasRows, Writes
  <2>2. told[c] = "none" /\ work[c].at = "idle"
    BY <1>1, <1>4 DEF RequestPlace, Primary
  <2>3. /\ Moved(c, q, ticks) /\ sets' \in [ResultIds -> Knowledge]
        /\ \A d \in Calls \ {c} : told'[d] = told[d]
    BY <1>1, <1>4, <2>1, <2>2, ResultMoved
  <2> QED
    BY <1>3, <2>1, <2>3
<1>5. CASE /\ \/ r.type \in {"EXECUTE", "EXECUTE_DIRECT"} /\ (failed \/ made[c].kind \in Writes)
              \/ r.type \in {"PREPARE", "DROP_STATEMENT_ID", "COMMIT", "ROLLBACK", "CLIENT_PING"}
           /\ told' = Told(c, IF failed \/ (r.type \in {"COMMIT", "ROLLBACK"} /\ Unconfirmed(r.type, reply))
                              THEN "error" ELSE "ok")
           /\ queue' = q /\ UNCHANGED <<ticks, work, sets, allowed>>
  <2> DEFINE bad == failed \/ (r.type \in {"COMMIT", "ROLLBACK"} /\ Unconfirmed(r.type, reply))
             outcome == IF bad THEN "error" ELSE "ok"
  <2>1. r.type \in Primary
    BY <1>5 DEF Primary
  <2>2. told[c] = "none" /\ work[c].at = "idle"
    BY <1>1, <2>1 DEF RequestPlace
  <2>3. outcome \in {"ok", "error"} /\ (outcome = "ok" => ~bad)
    OBVIOUS
  <2>4. told' = Told(c, outcome) /\ queue' = q /\ ticks' = ticks /\ allowed' = allowed /\ work' = work /\ sets' = sets
    BY <1>5
  <2> HIDE DEF outcome
  <2>5. Moved(c, q, ticks) /\ told'[c] = outcome
    BY <1>1, <1>2, <2>2, <2>3, <2>4, ToldMoved
  <2>6. \A d \in Calls \ {c} : told'[d] = told[d]
    BY <2>5 DEF Moved
  <2> QED
    BY <1>2, <2>1, <2>3, <2>4, <2>5, <2>6 DEF ToldByReply
<1>6. CASE r.type = "READ_LOB" /\ queue' = q /\ UNCHANGED <<sets, allowed>>
           /\ told' = Told(c, "error") /\ work' = [work EXCEPT ![c] = Idle] /\ UNCHANGED ticks
  <2>1. made[c].kind \in HasRows /\ told[c] = "none"
    BY <1>1, <1>6 DEF RequestPlace, Primary
  <2>2. work'[c].at = "idle"
    BY <1>1, <1>2, <1>6 DEF CallsTyped, Idle
  <2>3. Moved(c, q, ticks)
    BY <1>1, <1>2, <1>6, <2>1, <2>2, ToldMoved
  <2> QED
    BY <1>2, <1>3, <1>6, <2>1, <2>3 DEF Moved
<1>7. CASE r.type = "READ_LOB" /\ queue' = q /\ UNCHANGED <<sets, allowed>>
           /\ ticks' = Append(ticks, Tick("next", c, 0)) /\ UNCHANGED <<told, work>>
  <2>1. made[c].kind \in HasRows /\ work[c].at = "lob"
    BY <1>1, <1>7 DEF RequestPlace, Primary
  <2>2. Tick("next", c, 0) \in Ticks /\ Tick("next", c, 0).call = c /\ Tick("next", c, 0).do = "next"
    BY <1>1 DEF Tick, Ticks
  <2>3. TickPlace(Tick("next", c, 0), told', work')
    BY <1>7, <2>1, <2>2 DEF TickPlace
  <2>4. NextTick(c, q, ticks)
    BY <1>7, <2>2, <2>3 DEF NextTick
  <2>5. Moved(c, q, ticks)
    BY <1>1, <1>2, <1>7, <2>1, <2>4 DEF Moved, CallsTyped
  <2> QED
    BY <1>2, <1>3, <1>7, <2>1, <2>5
<1>8. CASE r.type = "FETCH_NEXT" /\ queue' = q /\ UNCHANGED <<told, allowed>>
           /\ work' = [work EXCEPT ![c].at = "failed"] /\ UNCHANGED sets
           /\ ticks' = Append(ticks, Tick("sendClose", c, r.i))
  <2>1. made[c].kind \in HasRows /\ work[c].at = "wait"
    BY <1>1, <1>8 DEF RequestPlace, Primary
  <2>2. Tick("sendClose", c, r.i) \in Ticks /\ Tick("sendClose", c, r.i).call = c
        /\ Tick("sendClose", c, r.i).do = "sendClose"
    BY <1>1 DEF Tick, Ticks
  <2>3. work' \in [Calls -> Places] /\ work'[c].at = "failed" /\ \A d \in Calls \ {c} : work'[d] = work[d]
    BY <1>1, <1>2, <1>8 DEF CallsTyped, Places
  <2>4. TickPlace(Tick("sendClose", c, r.i), told', work')
    BY <2>2, <2>3 DEF TickPlace
  <2>5. NextTick(c, q, ticks)
    BY <1>8, <2>2, <2>4 DEF NextTick
  <2>6. told[c] = "none"
    BY <1>1, <2>1
  <2>7. Moved(c, q, ticks)
    BY <1>1, <1>2, <1>8, <2>1, <2>3, <2>5, <2>6 DEF Moved, CallsTyped
  <2> QED
    BY <1>2, <1>3, <1>8, <2>1, <2>7
<1>9. CASE r.type = "FETCH_NEXT" /\ queue' = q /\ UNCHANGED <<told, allowed>>
           /\ work' = [work EXCEPT ![c].at = "fetch"] /\ UNCHANGED ticks
           /\ sets' = [sets EXCEPT ![<<c, r.i>>] =
                [left |-> @.left - 1, state |-> IF reply.results[1].closes THEN "closed" ELSE "open"]]
  <2>1. made[c].kind \in HasRows /\ work[c].at = "wait"
    BY <1>1, <1>9 DEF RequestPlace, Primary
  <2>2. work' \in [Calls -> Places] /\ work'[c].at = "fetch" /\ \A d \in Calls \ {c} : work'[d] = work[d]
    BY <1>1, <1>2, <1>9 DEF CallsTyped, Places
  <2>3. told[c] = "none"
    BY <1>1, <2>1
  <2>4. Rests(c, q, ticks)
    BY <1>9 DEF Rests
  <2>5. Moved(c, q, ticks)
    BY <1>1, <1>2, <1>9, <2>1, <2>2, <2>3, <2>4 DEF Moved, CallsTyped
  <2>6. sets' \in [ResultIds -> Knowledge]
    <3>1. CASE <<c, r.i>> \notin ResultIds
      BY <1>2, <1>9, <3>1
    <3>2. CASE <<c, r.i>> \in ResultIds
      <4>1. sets[<<c, r.i>>].left - 1 \in Int
        BY <1>2, <3>2 DEF Knowledge
      <4>2. [left |-> sets[<<c, r.i>>].left - 1,
             state |-> IF reply.results[1].closes THEN "closed" ELSE "open"] \in Knowledge
        BY <4>1 DEF Knowledge
      <4> QED
        BY <1>2, <1>9, <4>2
    <3> QED
      BY <3>1, <3>2
  <2> QED
    BY <1>3, <1>9, <2>1, <2>5, <2>6
<1>10. CASE r.type = "CLOSE_RESULT_SET" /\ queue' = q
            /\ sets' = [sets EXCEPT ![<<c, r.i>>].state = IF failed THEN "gone" ELSE "closed"]
            /\ AfterClose(c, r.i, ticks)
            /\ UNCHANGED <<statement, allowed>>
  <2>1. made[c].kind \in HasRows
    BY <1>1, <1>10 DEF Primary
  <2>2. ticks \in Seq(Ticks)
    BY <1>2 DEF CallsTyped
  <2>3. Moved(c, q, ticks)
    BY <1>1, <1>2, <1>10, <2>1, <2>2, AfterCloseMoved
  <2>4. sets' \in [ResultIds -> Knowledge]
    BY <1>2, <1>10 DEF Knowledge
  <2> QED
    BY <1>3, <2>1, <2>3, <2>4 DEF Moved
<1> QED
  BY <1>4, <1>5, <1>6, <1>7, <1>8, <1>9, <1>10 DEF Settle

\* process.nextTick: the call that the first tick belongs to goes on.
LEMMA TickMoved ==
  ASSUME WellTyped, FitInv, OnceInv, RunTick
  PROVE  /\ ticks # <<>> /\ Head(ticks) \in Ticks /\ Moved(Head(ticks).call, queue, Tail(ticks)) /\ sets' = sets
         /\ \A c \in Calls : told'[c] = "ok" /\ told[c] # "ok" => made[c].kind \in HasRows
<1> DEFINE t == Head(ticks)
           c == t.call
           due == Tail(ticks)
<1>1. ticks # <<>> /\ sets' = sets /\ made' = made
  BY DEF RunTick
<1>2. t \in Ticks /\ due \in Seq(Ticks) /\ c \in Calls /\ t.i \in Nat /\ t.i + 1 \in Nat
  <2>1. t \in Ticks /\ due \in Seq(Ticks)
    BY <1>1, TailRange DEF WellTyped, CallsTyped
  <2> QED
    BY <2>1 DEF Ticks
<1>3. t \in Range(ticks)
  BY <1>1, TailRange DEF WellTyped, CallsTyped
<1>4. TickPlace(t, told, work) /\ TickFits(t, made) /\ (told[c] # "none" => work[c].at = "idle")
  BY <1>2, <1>3 DEF OnceInv, OnceEach, Once, FitInv
<1>5. queue \in Seq(RequestSet) /\ autoCommit \in BOOLEAN /\ CallsTyped
  BY DEF WellTyped, TransportTyped, SessionTyped
<1>6. Moved(c, queue, due) /\ made[c].kind \in HasRows =>
        \A d \in Calls : told'[d] = "ok" /\ told[d] # "ok" => made[d].kind \in HasRows
  BY DEF Moved
<1> HIDE DEF t, due, c
<1>7. CASE /\ t.do = "unbound" /\ told' = Told(c, "error") /\ ticks' = due
           /\ UNCHANGED <<queue, allowed, work>>
  <2>1. told[c] = "none" /\ work[c].at = "idle"
    BY <1>4, <1>7 DEF TickPlace, c
  <2>2. Moved(c, queue, due) /\ told'[c] = "error"
    BY <1>1, <1>2, <1>5, <1>7, <2>1, ToldMoved
  <2> QED
    BY <1>1, <1>2, <2>2 DEF Moved, t, due, c
<1>8. CASE t.do # "unbound"
  <2>1. made[c].kind \in HasRows
    BY <1>4, <1>8 DEF TickFits, c
  <2>2. SUFFICES Moved(c, queue, due)
    BY <1>1, <1>2, <1>6, <2>1 DEF t, due, c
  <2>3. CASE /\ t.do = "next" /\ UNCHANGED <<queue, allowed>>
             /\ work' = [work EXCEPT ![c].at = "fetch", ![c].i = t.i + 1]
             /\ ticks' = due /\ UNCHANGED told
    <3>1. told[c] = "none"
      BY <1>4, <2>3 DEF TickPlace, c
    <3>2. work' \in [Calls -> Places] /\ work'[c].at = "fetch" /\ \A d \in Calls \ {c} : work'[d] = work[d]
      BY <1>2, <1>5, <2>3 DEF CallsTyped, Places
    <3>3. Rests(c, queue, due)
      BY <2>3 DEF Rests
    <3> QED
      BY <1>1, <1>5, <2>1, <2>3, <3>1, <3>2, <3>3 DEF Moved, CallsTyped
  <2>4. CASE t.do = "next" /\ UNCHANGED <<queue, allowed>> /\ FetchAllDone(c, "ok", due)
    <3>1. told[c] = "none"
      BY <1>4, <2>4 DEF TickPlace, c
    <3>2. /\ told' \in [Calls -> {"none", "ok", "error", "twice"}] /\ told'[c] = "ok"
          /\ work' \in [Calls -> Places] /\ work'[c].at = "idle"
          /\ \A d \in Calls \ {c} : told'[d] = told[d] /\ work'[d] = work[d]
          /\ \E closes \in Seq(Ticks) :
               ticks' = due \o closes /\ \A e \in Range(closes) : e.call = c /\ e.do = "sendClose"
      BY <1>2, <1>5, <2>4, <3>1, FetchAllDoneEffect
    <3>3. CallsBack(c, queue, due)
      BY <2>1, <2>4, <3>1, <3>2 DEF CallsBack
    <3> QED
      BY <1>1, <3>2, <3>3 DEF Moved
  <2>5. CASE t.do = "sendClose" /\ AfterClose(c, t.i, due) /\ UNCHANGED <<queue, allowed>>
    BY <1>1, <1>2, <1>4, <1>5, <2>1, <2>5, AfterCloseMoved
  <2>6. CASE t.do = "sendClose" /\ GoesOn("CLOSE_RESULT_SET", c, t.i, queue) /\ ticks' = due /\ UNCHANGED <<told, work>>
    <3>1. PICK e \in RequestSet :
             /\ e.call = c /\ e.type = "CLOSE_RESULT_SET" /\ e.type \notin Primary /\ queue' = Append(queue, e)
             /\ allowed \subseteq allowed' /\ (e.commit => WriteCalls \subseteq allowed')
      <4>1. Asks("CLOSE_RESULT_SET", c, queue)
        BY <1>2, <1>5, <2>6, GoesOnEffect
      <4> QED
        BY <4>1 DEF Asks
    <3>2. RequestPlace(e, told', work')
      BY <1>4, <2>6, <3>1 DEF TickPlace, RequestPlace, c
    <3>3. NextRequest(c, queue, due)
      BY <2>6, <3>1, <3>2 DEF NextRequest
    <3> QED
      BY <1>1, <1>4, <1>5, <2>1, <2>6, <3>3 DEF Moved, CallsTyped
  <2> QED
    BY <1>8, <2>3, <2>4, <2>5, <2>6 DEF RunTick, t, due, c
<1> QED
  BY <1>7, <1>8 DEF RunTick, t, due, c

\* ResultSet.fetch: the call whose rows are read asks for more of them, or for the next result set.
LEMMA FetchMoved ==
  ASSUME WellTyped, FitInv, OnceInv, NEW c \in Calls, FetchOn(c)
  PROVE  Moved(c, queue, ticks) /\ sets' = sets /\ told' = told /\ Alone(c, queue, OnWire, ticks)
<1>1. work[c].at = "fetch" /\ made[c].kind \in HasRows /\ told[c] = "none"
  BY DEF FetchOn, FitInv, OnceInv, OnceEach, Once
<1>2. /\ queue \in Seq(RequestSet) /\ autoCommit \in BOOLEAN /\ CallsTyped
      /\ made' = made /\ sets' = sets /\ told' = told
  BY DEF WellTyped, TransportTyped, SessionTyped, FetchOn
<1>3. work[c].i \in Nat
  BY <1>2 DEF CallsTyped, Places
<1>4. work' \in [Calls -> Places] /\ work'[c].at = "wait" /\ \A d \in Calls \ {c} : work'[d] = work[d]
  <2>1. work' = [work EXCEPT ![c].at = "wait"]
    BY DEF FetchOn
  <2> QED
    BY <1>2, <2>1 DEF CallsTyped, Places
<1>5. NextTick(c, queue, ticks) \/ NextRequest(c, queue, ticks) => Moved(c, queue, ticks)
  BY <1>1, <1>2, <1>4 DEF Moved, CallsTyped
<1>6. ASSUME GoesOn("FETCH_NEXT", c, work[c].i, queue), UNCHANGED ticks
      PROVE  Moved(c, queue, ticks)
  <2>1. PICK e \in RequestSet :
           /\ e.call = c /\ e.type = "FETCH_NEXT" /\ e.type \notin Primary /\ queue' = Append(queue, e)
           /\ allowed \subseteq allowed' /\ (e.commit => WriteCalls \subseteq allowed')
    <3>1. Asks("FETCH_NEXT", c, queue)
      BY <1>2, <1>3, <1>6, GoesOnEffect
    <3> QED
      BY <3>1 DEF Asks
  <2>2. RequestPlace(e, told', work')
    BY <1>4, <2>1 DEF RequestPlace
  <2>3. NextRequest(c, queue, ticks)
    BY <1>2, <1>6, <2>1, <2>2 DEF NextRequest
  <2> QED
    BY <1>5, <2>3
<1>7. ASSUME UNCHANGED <<queue, allowed>>, NEW do \in {"next", "sendClose"},
              ticks' = Append(ticks, Tick(do, c, work[c].i))
       PROVE  Moved(c, queue, ticks)
  <2>1. Tick(do, c, work[c].i) \in Ticks /\ Tick(do, c, work[c].i).call = c /\ Tick(do, c, work[c].i).do = do
    BY <1>3 DEF Tick, Ticks
  <2>2. TickPlace(Tick(do, c, work[c].i), told', work')
    BY <1>4, <1>7, <2>1 DEF TickPlace
  <2>3. NextTick(c, queue, ticks)
    BY <1>2, <1>7, <2>1, <2>2 DEF NextTick
  <2> QED
    BY <1>5, <2>3
<1>8. Alone(c, queue, OnWire, ticks)
  <2>1. \A r \in Range(queue) \cup OnWire : r.call # c
    <3>1. Range(queue) \cup OnWire \subseteq RequestSet
      <4>1. Range(queue) \subseteq RequestSet
        BY <1>2, RangeOfSeq
      <4>2. OnWire \subseteq RequestSet
        BY DEF OnWire, WellTyped, TransportTyped, SentPackets, RefusedPackets, Replies
      <4> QED
        BY <4>1, <4>2
    <3>2. \A r \in Range(queue) \cup OnWire : RequestPlace(r, told, work) /\ r.type \in MessageTypes
      BY <3>1 DEF OnceInv, OnceEach, Once, RequestSet
    <3> QED
      BY <1>1, <3>2 DEF RequestPlace, MessageTypes, Executing, Primary
  <2>2. \A e \in Range(ticks) : e.call # c
    <3>1. Range(ticks) \subseteq Ticks
      BY <1>2, RangeOfSeq DEF CallsTyped
    <3>2. \A e \in Range(ticks) : TickPlace(e, told, work) /\ e.do \in {"unbound", "next", "sendClose"}
      BY <3>1 DEF OnceInv, OnceEach, Once, Ticks
    <3> QED
      BY <1>1, <3>2 DEF TickPlace
  <2> QED
    BY <2>1, <2>2 DEF Alone, ApartFrom, Apart
<1>9. Moved(c, queue, ticks)
  <2>1. \/ GoesOn("FETCH_NEXT", c, work[c].i, queue) /\ UNCHANGED ticks
        \/ /\ UNCHANGED <<queue, allowed>>
           /\ ticks' = Append(ticks, IF sets[<<c, work[c].i>>].state = "closed"
                                     THEN Tick("next", c, work[c].i) ELSE Tick("sendClose", c, work[c].i))
    BY DEF FetchOn
  <2> QED
    BY <1>6, <1>7, <2>1
<1> QED
  BY <1>2, <1>8, <1>9

-----------------------------------------------------------------------------
(* The steps, as far as the calls and the queue are concerned *)

\* What is on the wire, by its stage.
LEMMA WireCases ==
  ASSUME TransportTyped
  PROVE  /\ wire = NoPacket \/ wire \in SentPackets \/ wire \in RefusedPackets \/ wire \in Replies
         /\ wire = NoPacket <=> wire.stage = "none"
         /\ wire \in SentPackets <=> wire.stage = "sent"
         /\ wire \in RefusedPackets <=> wire.stage = "refused"
         /\ wire \in Replies <=> wire.stage = "answered"
         /\ wire # NoPacket => wire.request \in RequestSet
BY DEF TransportTyped, NoPacket, SentPackets, RefusedPackets, Replies

\* The requests that have not called back are well typed.
LEMMA RequestsTyped ==
  ASSUME TransportTyped
  PROVE  Requests \subseteq RequestSet /\ OnWire \subseteq RequestSet /\ Range(queue) \subseteq RequestSet
         /\ Unserved \subseteq OnWire /\ Answered \subseteq OnWire
<1>1. Range(queue) \subseteq RequestSet
  BY RangeOfSeq DEF TransportTyped
<1>2. OnWire \subseteq RequestSet /\ Unserved \subseteq OnWire /\ Answered \subseteq OnWire
  BY WireCases DEF OnWire, Unserved, Answered, NoPacket
<1> QED
  BY <1>1, <1>2 DEF Requests

\* A request that has not called back can settle.
LEMMA CallsCanSettle ==
  ASSUME WellTyped, FitInv, OnceInv, NEW r \in Requests
  PROVE  CanSettle(r)
<1>1. r \in RequestSet
  BY RequestsTyped DEF WellTyped
<1>2. r.call \in Calls
  BY <1>1 DEF RequestSet
<1> QED
  BY <1>1, <1>2 DEF CanSettle, FitInv, OnceInv, OnceEach, Once, Requests

\* A reply moves the call of its request on.
LEMMA AnswerEffect ==
  ASSUME WellTyped, FitInv, OnceInv, Answer
  PROVE  /\ wire \in Replies /\ wire.stage = "answered" /\ OnWire = {wire.request} /\ wire.request \in RequestSet
         /\ CanSettle(wire.request) /\ wire' = NoPacket /\ made' = made /\ server' = server
         /\ Moved(wire.request.call, queue, ticks) /\ sets' \in [ResultIds -> Knowledge]
         /\ ToldByReply(wire.request, ErrorOf(wire) # "none", wire)
<1> DEFINE r == wire.request
           failed == ErrorOf(wire) # "none"
<1>1. /\ wire.stage = "answered" /\ wire' = NoPacket /\ made' = made /\ server' = server
      /\ Settle(r, failed, wire, queue)
  BY DEF Answer
<1>2. wire \in Replies /\ r \in RequestSet /\ OnWire = {r}
  BY <1>1, WireCases DEF WellTyped, OnWire, NoPacket
<1>3. r \in Requests
  BY <1>2 DEF Requests
<1>4. CanSettle(r)
  BY <1>3, CallsCanSettle
<1>5. wire.results \in Seq(Served1) /\ queue \in Seq(RequestSet) /\ failed \in BOOLEAN
  BY <1>2 DEF Replies, WellTyped, TransportTyped
<1> HIDE DEF r, failed
<1>6. Moved(r.call, queue, ticks) /\ sets' \in [ResultIds -> Knowledge] /\ ToldByReply(r, failed, wire)
  BY <1>1, <1>4, <1>5, SettleMoved
<1> QED
  BY <1>1, <1>2, <1>4, <1>6 DEF r, failed

\* The task that fails is the one whose packet was refused, or the first of the queue.
Fails(r, q) ==
  \/ wire.stage = "refused" /\ r = wire.request /\ q = queue /\ OnWire = {r}
  \/ wire = NoPacket /\ closed /\ queue # <<>> /\ r = Head(queue) /\ q = Tail(queue) /\ OnWire = {}

\* A task that fails without a reply moves its call on, and tells no write or commit that it is done.
LEMMA FailEffect ==
  ASSUME WellTyped, FitInv, OnceInv, Fail
  PROVE  \E r \in RequestSet, q \in Seq(RequestSet) :
           /\ Fails(r, q) /\ CanSettle(r) /\ Moved(r.call, q, ticks) /\ sets' \in [ResultIds -> Knowledge]
           /\ \A c \in Calls : told'[c] = "ok" /\ told[c] # "ok" => made[c].kind \in HasRows
<1>1. made' = made /\ queue \in Seq(RequestSet)
  BY DEF Fail, WellTyped, TransportTyped
<1>2. ASSUME NEW r \in RequestSet, NEW q \in Seq(RequestSet), CanSettle(r), Settle(r, TRUE, wire, q)
      PROVE  /\ Moved(r.call, q, ticks) /\ sets' \in [ResultIds -> Knowledge]
             /\ \A c \in Calls : told'[c] = "ok" /\ told[c] # "ok" => made[c].kind \in HasRows
  BY <1>1, <1>2, SettleMoved DEF ToldByReply
<1>3. CASE wire.stage = "refused" /\ Settle(wire.request, TRUE, wire, queue)
  <2>1. wire.request \in RequestSet /\ OnWire = {wire.request}
    BY <1>3, WireCases DEF WellTyped, OnWire, NoPacket
  <2>2. CanSettle(wire.request)
    BY <2>1, CallsCanSettle DEF Requests
  <2>3. Fails(wire.request, queue)
    BY <1>3, <2>1 DEF Fails
  <2> QED
    BY <1>1, <1>2, <1>3, <2>1, <2>2, <2>3
<1>4. CASE wire = NoPacket /\ closed /\ queue # <<>> /\ Settle(Head(queue), TRUE, wire, Tail(queue))
  <2>1. Head(queue) \in RequestSet /\ Tail(queue) \in Seq(RequestSet) /\ Head(queue) \in Range(queue)
    BY <1>1, <1>4, TailRange
  <2>2. CanSettle(Head(queue))
    BY <2>1, CallsCanSettle DEF Requests
  <2>3. Fails(Head(queue), Tail(queue))
    BY <1>4 DEF Fails, OnWire
  <2> QED
    BY <1>2, <1>4, <2>1, <2>2, <2>3
<1> QED
  BY <1>3, <1>4 DEF Fail, Leaves

\* What a call of user code puts into the queue, or the tick it makes instead.
NewRequest(kind) == Request(TypeOf(kind), Len(made) + 1, 0)

\* A call is one more in made, with a first request or a tick of its own.
LEMMA CallEffect ==
  ASSUME WellTyped, NEW kind \in Kinds, Call(kind)
  PROVE  LET c == Len(made) + 1
             r == NewRequest(kind)
             t == [do |-> "unbound", call |-> c, i |-> 0]
         IN  /\ c \in Calls /\ c \notin DOMAIN made /\ DOMAIN made = 1..Len(made) /\ Len(made) \in Nat
             /\ made' = Append(made, [kind |-> kind, auto |-> autoCommit])
             /\ made' \in Seq(Made) /\ Len(made') <= MaxCalls
             /\ DOMAIN made' = DOMAIN made \cup {c} /\ made'[c] = [kind |-> kind, auto |-> autoCommit]
             /\ \A d \in DOMAIN made : made'[d] = made[d]
             /\ r \in RequestSet /\ r.call = c /\ r.type = TypeOf(kind) /\ r.type \in Primary
             /\ r.type \in {"EXECUTE", "EXECUTE_DIRECT"} => r.commit = autoCommit
             /\ r.commit => autoCommit
             /\ t \in Ticks
             /\ \/ queue' = Append(queue, r) /\ ticks' = ticks
                \/ queue' = queue /\ ticks' = Append(ticks, t) /\ allowed' = allowed
<1> DEFINE c == Len(made) + 1
           r == NewRequest(kind)
           t == [do |-> "unbound", call |-> c, i |-> 0]
           m == [kind |-> kind, auto |-> autoCommit]
<1>1. made \in Seq(Made) /\ Len(made) \in Nat /\ DOMAIN made = 1..Len(made) /\ autoCommit \in BOOLEAN
  BY LenProperties DEF WellTyped, CallsTyped, SessionTyped
<1>2. m \in Made
  BY <1>1 DEF Made
<1>3. c \in Calls /\ c <= MaxCalls
  <2>1. Len(made) < scenario.calls /\ scenario.calls \in 0..MaxCalls
    BY SessionAssumption DEF Call, WellTyped, SessionTyped, ScenarioOK
  <2> QED
    BY <1>1, <2>1, SessionAssumption DEF Calls
<1>4. made' = Append(made, m)
  BY DEF Call
<1> HIDE DEF m
<1>5. /\ made' \in Seq(Made) /\ DOMAIN made' = DOMAIN made \cup {c} /\ made'[c] = m /\ Len(made') = c
      /\ \A d \in DOMAIN made : made'[d] = made[d]
  <2>1. /\ Append(made, m) \in Seq(Made) /\ Len(Append(made, m)) = Len(made) + 1
        /\ \A i \in 1..Len(made) : Append(made, m)[i] = made[i]
        /\ Append(made, m)[Len(made) + 1] = m
    BY <1>1, <1>2, AppendProperties
  <2>2. DOMAIN Append(made, m) = 1..(Len(made) + 1)
    BY <2>1, LenProperties
  <2> QED
    BY <1>1, <1>4, <2>1, <2>2
<1>6. TypeOf(kind) \in Primary /\ TypeOf(kind) \in MessageTypes
  BY CallAssumption DEF TypeOf, Primary, MessageTypes, Executing
<1>7. /\ r \in RequestSet /\ r.call = c /\ r.type = TypeOf(kind)
      /\ r.type \in {"EXECUTE", "EXECUTE_DIRECT"} => r.commit = autoCommit
      /\ r.commit => autoCommit
  BY <1>1, <1>3, <1>6 DEF NewRequest, Request, RequestSet, CommitImmediately
<1>8. t \in Ticks
  BY <1>3 DEF Ticks
<1>9. \/ queue' = Append(queue, r) /\ ticks' = ticks
      \/ queue' = queue /\ ticks' = Append(ticks, t) /\ allowed' = allowed
  BY DEF Call, NewRequest
<1> QED
  BY <1>1, <1>3, <1>4, <1>5, <1>6, <1>7, <1>8, <1>9 DEF m

-----------------------------------------------------------------------------
(* Types *)

\* A step of the server changes nothing that the client has.
ServerOnly == UNCHANGED <<sessionVars, queue, busy, closed, resultVars>>

\* The server answers the packet that has been sent, and changes nothing else.
LEMMA ServerEffect ==
  ASSUME WellTyped, FitInv, ServerStep
  PROVE  wire.stage = "sent" /\ Replied /\ ServerOnly
<1>1. CASE ServeError /\ UNCHANGED resultVars
  BY <1>1, ServeErrorEffect DEF ServeError, ServerOnly
<1>2. CASE ServeCommit /\ UNCHANGED resultVars
  BY <1>2, ServeCommitEffect DEF ServeCommit, ServerOnly
<1>3. CASE Serve
  BY <1>3, ServeEffect DEF Serve, ServerOnly
<1> QED
  BY <1>1, <1>2, <1>3 DEF ServerStep

\* The packet of the first task, or the refusal of one that is too large.
LEMMA SendEffect ==
  ASSUME WellTyped, Send
  PROVE  /\ queue # <<>> /\ queue' = Tail(queue) /\ wire'.request = Head(queue)
         /\ wire' \in SentPackets \cup RefusedPackets
         /\ wire'.stage = "refused" => "toolarge" \in scenario.faults
         /\ wire'.stage = "sent" =>
              /\ wire'.context = context
              /\ wire'.info = IF ShouldSend(Head(queue).type) THEN [k \in updated |-> properties[k]]
                              ELSE [k \in {} |-> Unset]
<1> DEFINE r == Head(queue)
           info == IF ShouldSend(r.type) THEN [k \in updated |-> properties[k]] ELSE [k \in {} |-> Unset]
           packet == [stage |-> "sent", request |-> r, context |-> context, info |-> info]
           refused == [stage |-> "refused", request |-> r]
<1>1. queue # <<>> /\ queue' = Tail(queue)
  BY DEF Send, MustSend
<1>2. r \in RequestSet
  BY <1>1, TailRange DEF WellTyped, TransportTyped
<1>3. info \in Infos
  <2>1. [k \in updated |-> properties[k]] \in [updated -> Settings] /\ updated \in SUBSET Keys
    BY DEF WellTyped, SessionTyped
  <2>2. [k \in {} |-> Unset] \in [{} -> Settings] /\ {} \in SUBSET Keys
    BY DEF Settings
  <2> QED
    BY <2>1, <2>2 DEF Infos
<1>4. wire' = packet \/ (wire' = refused /\ "toolarge" \in scenario.faults)
  BY DEF Send, MayBeLarge
<1> HIDE DEF info
<1>5. packet \in SentPackets /\ packet.request = r /\ packet.stage = "sent" /\ packet.context = context /\ packet.info = info
  BY <1>2, <1>3 DEF SentPackets, WellTyped, SessionTyped
<1>6. refused \in RefusedPackets /\ refused.request = r /\ refused.stage = "refused"
  BY <1>2 DEF RefusedPackets
<1> HIDE DEF r, packet, refused
<1> QED
  BY <1>1, <1>4, <1>5, <1>6 DEF info, r

\* The first state is well typed.
LEMMA TypedInit ==
  Init => WellTyped
<1> SUFFICES ASSUME Init PROVE WellTyped
  OBVIOUS
<1> DEFINE none == [k \in Keys |-> Unset]
<1>0. none \in [Keys -> Settings]
  BY DEF Settings
<1>1. SessionTyped
  <2>1. properties = none /\ server.vars = none
    BY DEF Init, SessionInit
  <2> HIDE DEF none
  <2>2. server \in Sessions
    BY <1>0, <2>1 DEF Init, SessionInit, Sessions, TxKinds
  <2> QED
    <3>1. /\ scenario \in Scenarios /\ settings = 0 /\ updated = {} /\ context = 0
          /\ txKind = "none" /\ autoCommit = TRUE /\ busy = FALSE /\ closed = FALSE
      BY DEF Init, SessionInit
    <3>2. autoCommit \in BOOLEAN /\ busy \in BOOLEAN /\ closed \in BOOLEAN
      BY <3>1, Zenon
    <3>3. settings \in Nat /\ updated \subseteq Keys /\ context \in 0..2 /\ txKind \in TxKinds
      BY <3>1, SMT DEF TxKinds
    <3>4. properties \in [Keys -> Settings]
      BY <1>0, <2>1
    <3> QED
      BY <2>2, <3>1, <3>2, <3>3, <3>4, Zenon DEF SessionTyped
<1>2. TransportTyped
  BY EmptySeq DEF Init, SessionInit, TransportTyped
<1>3. Idle \in Places
  BY DEF Idle, Places
<1>4. <<>> \in Seq(Made) /\ Len(<<>>) = 0 /\ <<>> \in Seq(Ticks)
  BY EmptySeq
<1>5. CallsTyped
  BY <1>3, <1>4, SessionAssumption DEF Init, CallsTyped, Knowledge
<1> QED
  BY <1>1, <1>2, <1>5 DEF WellTyped

\* Every step keeps the types.
LEMMA TypedStep ==
  ASSUME WellTyped, FitInv, OnceInv, [Next]_vars
  PROVE  WellTyped'
<1> USE DEF WellTyped
<1>1. CASE UNCHANGED vars
  BY <1>1 DEF vars, sessionVars, transportVars, resultVars, SessionTyped, TransportTyped, CallsTyped
<1>2. ASSUME UNCHANGED resultVars, UNCHANGED transportVars, UNCHANGED server,
             NEW k \in Keys, NEW v \in Values, SetClientInfo(k, v)
      PROVE  WellTyped'
  <2>1. SessionTyped'
    <3>1. properties' \in [Keys -> Settings]
      BY <1>2 DEF SetClientInfo, SessionTyped, Settings
    <3>2. updated' \subseteq Keys /\ settings' \in Nat
      BY <1>2 DEF SetClientInfo, SessionTyped, Flagged
    <3> QED
      BY <1>2, <3>1, <3>2 DEF SetClientInfo, SessionTyped, transportVars
  <2> QED
    BY <1>2, <2>1 DEF resultVars, transportVars, TransportTyped, CallsTyped
<1>3. ASSUME UNCHANGED resultVars, NEW b \in BOOLEAN, SetAutoCommit(b)
      PROVE  WellTyped'
  <2>1. SessionTyped'
    BY <1>3 DEF SetAutoCommit, SessionTyped, transportVars
  <2> QED
    BY <1>3, <2>1 DEF SetAutoCommit, resultVars, transportVars, TransportTyped, CallsTyped
<1>4. ASSUME NEW kind \in scenario.kinds, Call(kind)
      PROVE  WellTyped'
  <2>1. kind \in Kinds
    BY SessionAssumption DEF SessionTyped, ScenarioOK
  <2>2. /\ made' \in Seq(Made) /\ Len(made') <= MaxCalls
        /\ queue' \in Seq(RequestSet) /\ ticks' \in Seq(Ticks)
    <3> DEFINE r == NewRequest(kind)
               t == [do |-> "unbound", call |-> Len(made) + 1, i |-> 0]
    <3>1. /\ made' \in Seq(Made) /\ Len(made') <= MaxCalls /\ r \in RequestSet /\ t \in Ticks
          /\ \/ queue' = Append(queue, r) /\ ticks' = ticks
             \/ queue' = queue /\ ticks' = Append(ticks, t)
      BY <1>4, <2>1, CallEffect
    <3> HIDE DEF r, t
    <3>2. Append(queue, r) \in Seq(RequestSet) /\ Append(ticks, t) \in Seq(Ticks)
      BY <3>1, AppendRange DEF TransportTyped, CallsTyped
    <3> QED
      BY <3>1, <3>2 DEF TransportTyped, CallsTyped
  <2>3. UNCHANGED <<sessionVars, busy, wire, closed, server, told, work, sets>>
    BY <1>4 DEF Call
  <2> QED
    BY <2>2, <2>3 DEF sessionVars, SessionTyped, TransportTyped, CallsTyped
<1>5. CASE Send /\ UNCHANGED resultVars
  <2>1. queue' \in Seq(RequestSet) /\ wire' \in SentPackets \cup RefusedPackets
    BY <1>5, SendEffect, TailRange DEF TransportTyped
  <2>2. SessionTyped'
    BY <1>5 DEF Send, SessionTyped, ShouldSend
  <2> QED
    BY <1>5, <2>1, <2>2 DEF TransportTyped, CallsTyped, resultVars
<1>6. CASE QueueNext /\ UNCHANGED resultVars
  BY <1>6 DEF QueueNext, sessionVars, resultVars, SessionTyped, TransportTyped, CallsTyped
<1>7. CASE RunTick
  <2>1. /\ ticks # <<>> /\ Head(ticks) \in Ticks /\ Moved(Head(ticks).call, queue, Tail(ticks)) /\ sets' = sets
    BY <1>7, TickMoved
  <2>2. Head(ticks).call \in Calls /\ Tail(ticks) \in Seq(Ticks)
    BY <2>1, TailRange DEF CallsTyped, Ticks
  <2>3. queue' \in Seq(RequestSet) /\ CallsTyped'
    BY <2>1, <2>2, MovedTyped DEF TransportTyped, CallsTyped
  <2> QED
    BY <1>7, <2>3 DEF RunTick, sessionVars, SessionTyped, TransportTyped
<1>8. CASE Answer
  <2>1. /\ wire \in Replies /\ wire.request \in RequestSet /\ wire' = NoPacket /\ server' = server
        /\ Moved(wire.request.call, queue, ticks) /\ sets' \in [ResultIds -> Knowledge]
    BY <1>8, AnswerEffect
  <2>2. queue' \in Seq(RequestSet) /\ CallsTyped'
    BY <2>1, MovedTyped DEF TransportTyped, CallsTyped, RequestSet
  <2>3. wire.context \in 0..2 /\ KindAfter(wire.flags) \in TxKinds
    BY <2>1 DEF Replies, KindAfter, SessionTyped, TxKinds
  <2>4. SessionTyped'
    BY <1>8, <2>1, <2>3 DEF Answer, Receive, SessionTyped
  <2> QED
    BY <2>1, <2>2, <2>4 DEF TransportTyped
<1>9. CASE Fail
  <2>1. PICK r \in RequestSet, q \in Seq(RequestSet) :
           Moved(r.call, q, ticks) /\ sets' \in [ResultIds -> Knowledge]
    BY <1>9, FailEffect
  <2>2. queue' \in Seq(RequestSet) /\ CallsTyped'
    BY <2>1, MovedTyped DEF CallsTyped, RequestSet
  <2> QED
    BY <1>9, <2>2 DEF Fail, sessionVars, SessionTyped, TransportTyped
<1>10. ASSUME NEW c \in Calls, FetchOn(c)
       PROVE  WellTyped'
  <2>1. Moved(c, queue, ticks) /\ sets' = sets
    BY <1>10, FetchMoved
  <2>2. queue' \in Seq(RequestSet) /\ CallsTyped'
    BY <2>1, MovedTyped DEF TransportTyped, CallsTyped
  <2> QED
    BY <1>10, <2>2 DEF FetchOn, sessionVars, SessionTyped, TransportTyped
<1>11. CASE ServerStep
  <2>1. Replied /\ ServerOnly
    BY <1>11, ServerEffect
  <2> QED
    BY <2>1 DEF Replied, ServerOnly, sessionVars, resultVars, SessionTyped, TransportTyped, CallsTyped
<1>12. CASE Break /\ UNCHANGED resultVars
  <2>1. server' \in Sessions
    BY <1>12, EndFields DEF Break, SessionTyped
  <2>2. wire' = NoPacket \/ wire' \in RefusedPackets
    BY <1>12, WireCases DEF Break, RefusedPackets
  <2> QED
    BY <1>12, <2>1, <2>2 DEF Break, sessionVars, resultVars, SessionTyped, TransportTyped, CallsTyped
<1>13. CASE Lose /\ UNCHANGED resultVars
  <2>1. queue' \in Seq(RequestSet)
    BY <1>13, TailRange DEF Lose, Leaves, TransportTyped
  <2> QED
    BY <1>13, <2>1 DEF Lose, sessionVars, resultVars, SessionTyped, TransportTyped, CallsTyped
<1> QED
  <2>1. \A k \in Keys, v \in Values : SetClientInfo(k, v) => UNCHANGED transportVars /\ UNCHANGED server
    BY DEF SetClientInfo
  <2> QED
    BY <1>1, <1>2, <1>3, <1>4, <1>5, <1>6, <1>7, <1>8, <1>9, <1>10, <1>11, <1>12, <1>13, <2>1
       DEF Next, UserStep, ClientStep

-----------------------------------------------------------------------------
(* Requests fit their calls, one at a time *)

\* What a step of the server, of send() or a break does to the wire.
LEMMA WireKept ==
  ASSUME WellTyped, wire # NoPacket, wire' # NoPacket, wire'.request = wire.request
  PROVE  OnWire' = OnWire
BY DEF OnWire

\* A step with a call makes no request or tick that does not fit it.
LEMMA FitMoved ==
  ASSUME WellTyped, FitInv, NEW c \in Calls, c \in DOMAIN made, NEW q \in Seq(RequestSet), NEW t \in Seq(Ticks),
         Range(q) \subseteq Range(queue), Range(t) \subseteq Range(ticks), OnWire' \subseteq OnWire,
         Moved(c, q, t), server' = server
  PROVE  FitInv'
<1>1. made' = made /\ WriteCalls' = WriteCalls
  BY DEF Moved, WriteCalls
<1>2. \A r \in Range(queue') : RequestFits(r, made)
  <2>1. \A r \in Range(q) : RequestFits(r, made)
    BY DEF FitInv, Requests
  <2>2. ASSUME NextRequest(c, q, t), made[c].kind \in HasRows
        PROVE  \A r \in Range(queue') : RequestFits(r, made)
    <3>1. PICK e \in RequestSet : e.call = c /\ e.type \notin Primary /\ queue' = Append(q, e)
      BY <2>2 DEF NextRequest
    <3>2. RequestFits(e, made)
      BY <2>2, <3>1 DEF RequestFits
    <3>3. Range(queue') = Range(q) \cup {e}
      BY <3>1, AppendRange
    <3> QED
      BY <2>1, <3>2, <3>3
  <2> QED
    BY <2>1, <2>2 DEF Moved, CallsBack, NextTick, Rests
<1>3. \A e \in Range(ticks') : TickFits(e, made)
  <2>1. \A e \in Range(t) : TickFits(e, made)
    BY DEF FitInv
  <2>2. ASSUME made[c].kind \in HasRows, NEW e \in Ticks, e.call = c, ticks' = Append(t, e)
        PROVE  \A x \in Range(ticks') : TickFits(x, made)
    BY <2>1, <2>2, AppendRange DEF TickFits
  <2>3. ASSUME NEW closes \in Seq(Ticks), ticks' = t \o closes, made[c].kind \in HasRows,
               \A e \in Range(closes) : e.call = c /\ e.do = "sendClose"
        PROVE  \A x \in Range(ticks') : TickFits(x, made)
    <3>1. Range(ticks') = Range(t) \cup Range(closes)
      BY <2>3, RangeConcatenation
    <3> QED
      BY <2>1, <2>3, <3>1 DEF TickFits
  <2>4. CASE ticks' = t
    BY <2>1, <2>4
  <2> QED
    BY <2>2, <2>3, <2>4 DEF Moved, CallsBack, NextTick, NextRequest, Rests
<1>4. \A r \in OnWire' : RequestFits(r, made)
  BY DEF FitInv, Requests
<1>5. \A d \in Calls : work'[d].at # "idle" => d \in DOMAIN made /\ made[d].kind \in HasRows
  BY DEF Moved, FitInv
<1>6. \A d \in Calls : told'[d] # "none" => d \in DOMAIN made
  BY DEF Moved, FitInv
<1>7. server'.committed \cup server'.uncommitted \subseteq WriteCalls
  BY DEF FitInv
<1> QED
  BY <1>1, <1>2, <1>3, <1>4, <1>5, <1>6, <1>7 DEF FitInv, Requests


\* The step of a call takes its request or its tick, and those that are left stay.
LEMMA FitStep ==
  ASSUME WellTyped, FitInv, OnceInv, [Next]_vars
  PROVE  FitInv'
<1>1. CASE UNCHANGED vars
  BY <1>1 DEF vars, sessionVars, transportVars, resultVars, FitInv, WriteCalls, Requests, OnWire
<1>2. ASSUME UNCHANGED resultVars, UNCHANGED transportVars, UNCHANGED server
      PROVE  FitInv'
  BY <1>2 DEF resultVars, transportVars, FitInv, WriteCalls, Requests, OnWire
<1>3. ASSUME NEW kind \in scenario.kinds, Call(kind)
      PROVE  FitInv'
  <2>1. kind \in Kinds
    BY SessionAssumption DEF WellTyped, SessionTyped, ScenarioOK
  <2> DEFINE c == Len(made) + 1
             r == NewRequest(kind)
             t == [do |-> "unbound", call |-> c, i |-> 0]
  <2>2. /\ DOMAIN made' = DOMAIN made \cup {c} /\ made'[c] = [kind |-> kind, auto |-> autoCommit]
        /\ \A d \in DOMAIN made : made'[d] = made[d]
        /\ r \in RequestSet /\ r.call = c /\ r.type = TypeOf(kind) /\ r.type \in Primary
        /\ r.type \in {"EXECUTE", "EXECUTE_DIRECT"} => r.commit = autoCommit
        /\ t \in Ticks
        /\ \/ queue' = Append(queue, r) /\ ticks' = ticks
           \/ queue' = queue /\ ticks' = Append(ticks, t)
    BY <1>3, <2>1, CallEffect
  <2>3. t.call = c /\ t.do = "unbound"
    OBVIOUS
  <2>4. UNCHANGED <<wire, server, told, work>>
    BY <1>3 DEF Call
  <2> HIDE DEF r, t, c
  <2>5. queue \in Seq(RequestSet) /\ ticks \in Seq(Ticks)
    BY DEF WellTyped, TransportTyped, CallsTyped
  <2>6. Requests' \subseteq Requests \cup {r} /\ Range(ticks') \subseteq Range(ticks) \cup {t}
    <3>1. Range(Append(queue, r)) = Range(queue) \cup {r} /\ Range(Append(ticks, t)) = Range(ticks) \cup {t}
      BY <2>2, <2>5, AppendRange
    <3>2. OnWire' = OnWire
      BY <2>4 DEF OnWire
    <3>3. Requests' = Range(queue') \cup OnWire'
      BY DEF Requests
    <3> QED
      BY <2>2, <3>1, <3>2, <3>3 DEF Requests
  <2>7. RequestFits(r, made')
    BY <2>2 DEF RequestFits
  <2>8. \A e \in Requests : RequestFits(e, made')
    <3>1. SUFFICES ASSUME NEW e \in Requests PROVE RequestFits(e, made')
      OBVIOUS
    <3>2. RequestFits(e, made)
      BY DEF FitInv
    <3>3. made'[e.call] = made[e.call] /\ e.call \in DOMAIN made'
      BY <2>2, <3>2 DEF RequestFits
    <3> QED
      BY <3>2, <3>3 DEF RequestFits
  <2>9. \A e \in Range(ticks) \cup {t} : TickFits(e, made')
    BY <2>2, <2>3 DEF TickFits, FitInv
  <2>10. WriteCalls \subseteq WriteCalls'
    BY <2>2 DEF WriteCalls
  <2>11. \A d \in Calls : work'[d].at # "idle" => d \in DOMAIN made' /\ made'[d].kind \in HasRows
    BY <2>2, <2>4 DEF FitInv
  <2>12. \A d \in Calls : told'[d] # "none" => d \in DOMAIN made'
    BY <2>2, <2>4 DEF FitInv
  <2>13. server'.committed \cup server'.uncommitted \subseteq WriteCalls'
    BY <2>4, <2>10 DEF FitInv
  <2>14. \A e \in Requests' : RequestFits(e, made')
    BY <2>6, <2>7, <2>8
  <2>15. \A e \in Range(ticks') : TickFits(e, made')
    BY <2>6, <2>9
  <2> QED
    BY <2>11, <2>12, <2>13, <2>14, <2>15 DEF FitInv
<1>4. CASE Send /\ UNCHANGED resultVars
  <2>1. queue # <<>> /\ queue' = Tail(queue) /\ wire' # NoPacket /\ wire'.request = Head(queue)
    BY <1>4, SendEffect DEF NoPacket, SentPackets, RefusedPackets
  <2>2. Range(queue) = {Head(queue)} \cup Range(Tail(queue))
    BY <2>1, TailRange DEF WellTyped, TransportTyped
  <2>3. Requests' \subseteq Requests
    BY <2>1, <2>2 DEF Requests, OnWire
  <2>4. server' = server
    BY <1>4 DEF Send
  <2> QED
    BY <1>4, <2>3, <2>4 DEF FitInv, resultVars, WriteCalls
<1>5. CASE QueueNext /\ UNCHANGED resultVars
  BY <1>5 DEF QueueNext, resultVars, FitInv, WriteCalls, Requests, OnWire
<1>6. CASE RunTick
  <2>1. /\ ticks # <<>> /\ Head(ticks) \in Ticks /\ Moved(Head(ticks).call, queue, Tail(ticks))
    BY <1>6, TickMoved
  <2>2. Head(ticks).call \in Calls /\ Tail(ticks) \in Seq(Ticks) /\ Range(ticks) = {Head(ticks)} \cup Range(Tail(ticks))
    BY <2>1, TailRange DEF WellTyped, CallsTyped, Ticks
  <2>3. Head(ticks).call \in DOMAIN made
    BY <2>2 DEF FitInv, TickFits
  <2>4. OnWire' = OnWire /\ server' = server
    BY <1>6 DEF RunTick, OnWire
  <2> QED
    BY <2>1, <2>2, <2>3, <2>4, FitMoved DEF WellTyped, TransportTyped
<1>7. CASE Answer
  <2>1. /\ wire.request \in RequestSet /\ wire' = NoPacket /\ server' = server
        /\ CanSettle(wire.request) /\ Moved(wire.request.call, queue, ticks)
    BY <1>7, AnswerEffect
  <2>2. wire.request.call \in Calls /\ wire.request.call \in DOMAIN made /\ OnWire' = {}
    BY <2>1 DEF CanSettle, RequestFits, RequestSet, OnWire
  <2> QED
    BY <2>1, <2>2, FitMoved DEF WellTyped, TransportTyped, CallsTyped
<1>8. CASE Fail
  <2>1. PICK r \in RequestSet, q \in Seq(RequestSet) :
           Fails(r, q) /\ CanSettle(r) /\ Moved(r.call, q, ticks)
    BY <1>8, FailEffect
  <2>2. r.call \in Calls /\ r.call \in DOMAIN made
    BY <2>1 DEF CanSettle, RequestFits, RequestSet
  <2>3. Range(q) \subseteq Range(queue)
    BY <2>1, TailRange DEF Fails, WellTyped, TransportTyped
  <2>4. OnWire' = {} /\ server' = server
    BY <1>8 DEF Fail, OnWire
  <2> QED
    BY <2>1, <2>2, <2>3, <2>4, FitMoved DEF WellTyped, CallsTyped
<1>9. ASSUME NEW c \in Calls, FetchOn(c)
      PROVE  FitInv'
  <2>1. Moved(c, queue, ticks)
    BY <1>9, FetchMoved
  <2>2. c \in DOMAIN made
    BY <1>9 DEF FetchOn, FitInv
  <2>3. OnWire' = OnWire /\ server' = server
    BY <1>9 DEF FetchOn, OnWire
  <2> QED
    BY <2>1, <2>2, <2>3, FitMoved DEF WellTyped, TransportTyped, CallsTyped
<1>10. CASE ServerStep
  <2>1. wire.stage = "sent" /\ Replied /\ ServerOnly
    BY <1>10, ServerEffect
  <2>2. OnWire' = OnWire
    BY <2>1, WireKept DEF Replied, Replies, NoPacket
  <2>3. Requests' = Requests /\ WriteCalls' = WriteCalls
    BY <2>1, <2>2 DEF Requests, ServerOnly, WriteCalls, resultVars
  <2>4. server'.committed \cup server'.uncommitted \subseteq WriteCalls
    <3>1. server.committed \cup server.uncommitted \subseteq WriteCalls
      BY DEF FitInv
    <3>2. IsWrite(wire.request, WriteCalls) => wire.request.call \in WriteCalls
      BY DEF IsWrite
    <3> QED
      BY <2>1, <3>1, <3>2 DEF Replied, WritesAfter, Untouched, Dropped, CommittedWith, Joined
  <2> QED
    BY <2>1, <2>3, <2>4 DEF FitInv, ServerOnly, resultVars
<1>11. CASE Break /\ UNCHANGED resultVars
  <2>1. OnWire' = OnWire /\ queue' = queue
    BY <1>11 DEF Break, OnWire, NoPacket
  <2>2. server'.committed \cup server'.uncommitted \subseteq server.committed \cup server.uncommitted
    BY <1>11, EndFields DEF Break, WellTyped, SessionTyped
  <2> QED
    BY <1>11, <2>1, <2>2 DEF FitInv, resultVars, WriteCalls, Requests
<1>12. CASE Lose /\ UNCHANGED resultVars
  <2>1. Range(queue') \subseteq Range(queue) /\ OnWire' = OnWire /\ server' = server
    BY <1>12, TailRange DEF Lose, Leaves, WellTyped, TransportTyped, OnWire
  <2> QED
    BY <1>12, <2>1 DEF FitInv, resultVars, WriteCalls, Requests
<1> QED
  <2>1. \A k \in Keys, v \in Values : SetClientInfo(k, v) => UNCHANGED transportVars /\ UNCHANGED server
    BY DEF SetClientInfo
  <2>2. \A b \in BOOLEAN : SetAutoCommit(b) => UNCHANGED transportVars /\ UNCHANGED server
    BY DEF SetAutoCommit
  <2> QED
    BY <1>1, <1>2, <1>3, <1>4, <1>5, <1>6, <1>7, <1>8, <1>9, <1>10, <1>11, <1>12, <2>1, <2>2
       DEF Next, UserStep, ClientStep

\* A step that leaves the queue, the wire, the ticks and the calls alone.
LEMMA OnceKept ==
  ASSUME OnceEach, UNCHANGED <<queue, ticks, told, work>>, OnWire' = OnWire
  PROVE  OnceEach'
BY DEF OnceEach

\* Before the first call nothing is on its way.
LEMMA OnceInit ==
  Init => OnceInv
<1> SUFFICES ASSUME Init PROVE OnceInv
  OBVIOUS
<1>1. queue = <<>> /\ ticks = <<>> /\ OnWire = {} /\ \A c \in Calls : told[c] = "none" /\ work[c].at = "idle"
  BY DEF Init, SessionInit, OnWire, Idle
<1>2. Range(queue) = {} /\ Range(ticks) = {} /\ DOMAIN queue = {} /\ DOMAIN ticks = {}
  <2>1. DOMAIN queue = 1..0 /\ DOMAIN ticks = 1..0
    BY <1>1
  <2> QED
    BY <2>1 DEF Range
<1> QED
  BY <1>1, <1>2 DEF Init, SessionInit, NoPacket, OnceInv, OnceEach, OneOnWire, Once, Sparse, ApartFrom

\* The next packet is sent when the reply to the last one has been taken.
LEMMA OneOnWireStep ==
  ASSUME WellTyped, FitInv, OnceInv, [Next]_vars
  PROVE  OneOnWire'
<1>1. (wire # NoPacket => busy) /\ (wire.stage \in {"sent", "answered"} => ~closed)
  BY DEF OnceInv, OneOnWire
<1>2. CASE ServerStep
  <2>1. wire.stage = "sent" /\ ServerOnly
    BY <1>2, ServerEffect
  <2>2. wire # NoPacket /\ UNCHANGED <<busy, closed>>
    BY <2>1 DEF NoPacket, ServerOnly
  <2> QED
    BY <1>1, <2>1, <2>2 DEF OneOnWire
<1>3. CASE UNCHANGED <<wire, busy, closed>>
  BY <1>1, <1>3 DEF OneOnWire
<1>4. CASE wire' = NoPacket
  BY <1>4 DEF OneOnWire, NoPacket
<1>5. CASE Send
  <2>1. busy' = TRUE /\ ~closed /\ closed' = closed
    BY <1>5 DEF Send
  <2> QED
    BY <2>1 DEF OneOnWire
<1>6. CASE Break
  <2>1. wire' = IF wire = NoPacket THEN wire ELSE [stage |-> "refused", request |-> wire.request]
    BY <1>6 DEF Break
  <2>2. busy' = busy /\ wire'.stage \notin {"sent", "answered"}
    BY <1>6, <2>1 DEF Break, NoPacket
  <2> QED
    BY <1>1, <2>1, <2>2 DEF OneOnWire
<1>7. UNCHANGED vars \/ UserStep => UNCHANGED <<wire, busy, closed>>
  <2>1. (\E k \in Keys, v \in Values : SetClientInfo(k, v)) \/ (\E b \in BOOLEAN : SetAutoCommit(b)) =>
          UNCHANGED <<wire, busy, closed>>
    BY DEF SetClientInfo, SetAutoCommit, transportVars
  <2>2. (\E kind \in scenario.kinds : Call(kind)) => UNCHANGED <<wire, busy, closed>>
    BY DEF Call
  <2> QED
    BY <2>1, <2>2 DEF vars, transportVars, UserStep
<1>8. ClientStep => UNCHANGED <<wire, busy, closed>> \/ wire' = NoPacket \/ Send
  <2>1. QueueNext \/ Answer \/ Fail => wire' = NoPacket
    BY DEF QueueNext, Answer, Fail
  <2>2. Lose \/ RunTick \/ (\E c \in Calls : FetchOn(c)) => UNCHANGED <<wire, busy, closed>>
    BY DEF Lose, RunTick, FetchOn
  <2> QED
    BY <2>1, <2>2 DEF ClientStep
<1> QED
  BY <1>2, <1>3, <1>4, <1>5, <1>6, <1>7, <1>8 DEF Next

\* No step puts a second request or tick of a call on its way before the call has called back.
LEMMA OnceStep ==
  ASSUME WellTyped, FitInv, OnceInv, [Next]_vars
  PROVE  OnceInv'
<1>0. OneOnWire'
  BY OneOnWireStep
<1>13. SUFFICES OnceEach'
  BY <1>0 DEF OnceInv
<1>14. OnceEach
  BY DEF OnceInv
<1>1. queue \in Seq(RequestSet) /\ ticks \in Seq(Ticks) /\ OnWire \in SUBSET RequestSet
  BY RequestsTyped DEF WellTyped, TransportTyped, CallsTyped
<1>2. CASE UNCHANGED vars
  BY <1>2, <1>14, OnceKept DEF vars, sessionVars, transportVars, resultVars, OnWire
<1>3. ASSUME UNCHANGED resultVars, UNCHANGED transportVars, UNCHANGED server
      PROVE  OnceEach'
  BY <1>3, <1>14, OnceKept DEF resultVars, transportVars, OnWire
<1>4. ASSUME NEW kind \in scenario.kinds, Call(kind)
      PROVE  OnceEach'
  <2>1. kind \in Kinds
    BY SessionAssumption DEF WellTyped, SessionTyped, ScenarioOK
  <2> DEFINE c == Len(made) + 1
             r == NewRequest(kind)
             t == [do |-> "unbound", call |-> c, i |-> 0]
  <2>2. /\ c \in Calls /\ c \notin DOMAIN made
        /\ r \in RequestSet /\ r.call = c /\ r.type \in Primary /\ t \in Ticks
        /\ \/ queue' = Append(queue, r) /\ ticks' = ticks
           \/ queue' = queue /\ ticks' = Append(ticks, t)
    BY <1>4, <2>1, CallEffect
  <2>3. t.call = c /\ t.do = "unbound"
    OBVIOUS
  <2>4. UNCHANGED <<told, work>> /\ OnWire' = OnWire
    BY <1>4 DEF Call, OnWire
  <2> HIDE DEF r, t, c
  <2>5. told[c] = "none" /\ work[c].at = "idle"
    BY <2>2 DEF FitInv
  <2>6. ApartFrom(c, Range(queue) \cup OnWire \cup Range(ticks), told)
    BY <2>2 DEF FitInv, Requests, RequestFits, TickFits, ApartFrom, Apart
  <2>7. r.type \notin {"FETCH_NEXT", "READ_LOB", "CLOSE_RESULT_SET"}
    BY <2>2 DEF Primary
  <2>8. RequestPlace(r, told, work) /\ TickPlace(t, told, work)
    BY <2>2, <2>3, <2>5, <2>7 DEF RequestPlace, TickPlace
  <2>9. Once(Append(queue, r), OnWire, ticks, told, work)
    BY <1>1, <2>2, <2>6, <2>8, OnceRequest DEF OnceInv, OnceEach
  <2>10. Once(queue, OnWire, Append(ticks, t), told, work)
    BY <1>1, <2>2, <2>3, <2>6, <2>8, OnceTick DEF OnceInv, OnceEach
  <2> QED
    BY <2>2, <2>4, <2>9, <2>10 DEF OnceInv, OnceEach
<1>5. CASE Send /\ UNCHANGED resultVars
  <2>1. /\ queue # <<>> /\ queue' = Tail(queue) /\ wire' # NoPacket /\ wire'.request = Head(queue)
        /\ UNCHANGED <<ticks, told, work>>
    BY <1>5, SendEffect DEF NoPacket, SentPackets, RefusedPackets, resultVars
  <2>2. OnWire = {} /\ OnWire' = {Head(queue)}
    BY <1>5, <2>1 DEF OnWire, Send, MustSend, OnceInv, OneOnWire, NoPacket
  <2> QED
    BY <1>1, <2>1, <2>2, AloneTask DEF OnceInv, OnceEach
<1>6. CASE QueueNext /\ UNCHANGED resultVars
  BY <1>6, <1>14, OnceKept DEF QueueNext, resultVars, OnWire
<1>7. CASE RunTick
  <2>1. /\ ticks # <<>> /\ Head(ticks) \in Ticks /\ Moved(Head(ticks).call, queue, Tail(ticks))
    BY <1>7, TickMoved
  <2>2. Head(ticks).call \in Calls /\ Tail(ticks) \in Seq(Ticks)
    BY <1>1, <2>1, TailRange DEF Ticks
  <2>3. OnWire' = OnWire
    BY <1>7 DEF RunTick, OnWire
  <2>4. Once(queue, OnWire, Tail(ticks), told, work) /\ Alone(Head(ticks).call, queue, OnWire, Tail(ticks))
    BY <1>1, <2>1, AloneTick DEF OnceInv, OnceEach
  <2> QED
    BY <1>1, <2>1, <2>2, <2>3, <2>4, OnceMoved DEF OnceInv, OnceEach
<1>8. CASE Answer
  <2>1. /\ wire.request \in RequestSet /\ OnWire = {wire.request} /\ wire' = NoPacket
        /\ Moved(wire.request.call, queue, ticks)
    BY <1>8, AnswerEffect
  <2>2. OnWire' = {} /\ wire.request.call \in Calls
    BY <2>1 DEF OnWire, RequestSet
  <2>3. Once(queue, {}, ticks, told, work) /\ Alone(wire.request.call, queue, {}, ticks)
    BY <2>1, AloneReply DEF OnceInv, OnceEach
  <2> QED
    BY <1>1, <2>1, <2>2, <2>3, OnceMoved DEF OnceInv, OnceEach
<1>9. CASE Fail
  <2>1. PICK r \in RequestSet, q \in Seq(RequestSet) : Fails(r, q) /\ Moved(r.call, q, ticks)
    BY <1>9, FailEffect
  <2>2. OnWire' = {} /\ r.call \in Calls
    BY <1>9 DEF Fail, OnWire, RequestSet
  <2>3. Once(q, {}, ticks, told, work) /\ Alone(r.call, q, {}, ticks)
    BY <1>1, <2>1, AloneReply, AloneTask DEF OnceInv, OnceEach, Fails
  <2> QED
    BY <1>1, <2>1, <2>2, <2>3, OnceMoved DEF OnceInv, OnceEach
<1>10. ASSUME NEW c \in Calls, FetchOn(c)
      PROVE  OnceEach'
  <2>1. Moved(c, queue, ticks) /\ Alone(c, queue, OnWire, ticks)
    BY <1>10, FetchMoved
  <2>2. OnWire' = OnWire
    BY <1>10 DEF FetchOn, OnWire
  <2> QED
    BY <1>1, <2>1, <2>2, OnceMoved DEF OnceInv, OnceEach
<1>11. CASE ServerStep
  <2>1. wire.stage = "sent" /\ Replied /\ ServerOnly
    BY <1>11, ServerEffect
  <2>2. OnWire' = OnWire
    BY <2>1, WireKept DEF Replied, Replies, NoPacket
  <2> QED
    BY <2>1, <2>2, <1>14, OnceKept DEF ServerOnly, resultVars
<1>12. CASE Break /\ UNCHANGED resultVars
  <2>1. OnWire' = OnWire /\ queue' = queue
    BY <1>12 DEF Break, OnWire, NoPacket
  <2> QED
    BY <1>12, <2>1, <1>14, OnceKept DEF resultVars
<1>15. CASE Lose /\ UNCHANGED resultVars
  <2>1. /\ queue # <<>> /\ queue' = Tail(queue) /\ OnWire = {} /\ OnWire' = {}
        /\ UNCHANGED <<ticks, told, work>>
    BY <1>15 DEF Lose, Leaves, OnWire, resultVars
  <2> QED
    BY <1>1, <1>14, <2>1, AloneTask DEF OnceEach
<1> QED
  <2>1. \A k \in Keys, v \in Values : SetClientInfo(k, v) => UNCHANGED transportVars /\ UNCHANGED server
    BY DEF SetClientInfo
  <2>2. \A b \in BOOLEAN : SetAutoCommit(b) => UNCHANGED transportVars /\ UNCHANGED server
    BY DEF SetAutoCommit
  <2> QED
    BY <1>2, <1>3, <1>4, <1>5, <1>6, <1>7, <1>8, <1>9, <1>10, <1>11, <1>12, <1>15, <2>1, <2>2
       DEF Next, UserStep, ClientStep

-----------------------------------------------------------------------------
(* Client and server agree *)

\* Everything that MirrorInv is about.
Mirrored == <<scenario, settings, properties, updated, context, txKind, wire, closed, server>>

\* At first the server has no session variables and no transaction.
LEMMA MirrorInit ==
  Init => MirrorInv
BY DEF Init, SessionInit, MirrorInv, NoPacket

\* User code sets a session variable: the client flags it, and its settings are one more.
LEMMA MirrorSet ==
  ASSUME WellTyped, MirrorInv, settings < scenario.settings, settings' = settings + 1,
         UNCHANGED <<scenario, context, txKind, wire, closed, server>>,
         \/ UNCHANGED <<properties, updated>>
         \/ \E k \in Keys, v \in Values : properties' = [properties EXCEPT ![k] = v] /\ updated' = updated \cup {k}
  PROVE  MirrorInv'
<1>1. settings \in Nat /\ scenario \in Scenarios /\ properties \in [Keys -> Settings]
  BY DEF WellTyped, SessionTyped
<1>2. (Lossless' => Lossless) /\ settings' # 0
  BY <1>1 DEF Lossless
<1>3. /\ \A k \in Keys \ updated' : k \in Keys \ updated /\ properties'[k] = properties[k]
  BY <1>1
<1>4. wire' = wire /\ closed' = closed /\ server' = server /\ context' = context /\ txKind' = txKind /\ scenario' = scenario
  OBVIOUS
<1>5. KindAfter(wire.flags)' = KindAfter(wire.flags) /\ ErrorOf(wire)' = ErrorOf(wire)
  BY <1>4 DEF KindAfter, ErrorOf
<1> QED
  BY <1>2, <1>3, <1>4, <1>5 DEF MirrorInv

\* A packet takes along the session variables that the server does not have yet.
LEMMA MirrorSend ==
  ASSUME WellTyped, OnceInv, MirrorInv, Send
  PROVE  MirrorInv'
<1> DEFINE r == Head(queue)
<1>1. wire = NoPacket /\ ~closed /\ UNCHANGED <<scenario, settings, properties, context, txKind, closed, server>>
  BY DEF Send, MustSend, OnceInv, OneOnWire
<1>2. /\ Lossless => \A k \in Keys \ updated : server.vars[k] = properties[k]
      /\ txKind = server.txn /\ context = server.context
      /\ Lossless' <=> Lossless
  BY <1>1 DEF MirrorInv, NoPacket, Lossless
<1>3. updated' = IF ShouldSend(r.type) THEN {} ELSE updated
  BY DEF Send
<1>4. /\ wire' \in SentPackets \cup RefusedPackets
      /\ wire'.stage = "refused" => "toolarge" \in scenario.faults
      /\ wire'.stage = "sent" =>
              /\ wire'.context = context
              /\ wire'.info = IF ShouldSend(r.type) THEN [k \in updated |-> properties[k]]
                              ELSE [k \in {} |-> Unset]
  BY SendEffect
<1>5. wire'.stage = "sent" \/ wire'.stage = "refused"
  BY <1>4 DEF SentPackets, RefusedPackets
<1>6. settings = 0 => updated' = {}
  BY <1>3 DEF MirrorInv
<1>7. CASE wire'.stage = "refused"
  <2>1. Lossless => updated = {} /\ updated' = {}
    BY <1>3, <1>4, <1>7 DEF MirrorInv, Lossless
  <2> QED
    BY <1>1, <1>2, <1>6, <1>7, <2>1 DEF MirrorInv
<1>8. CASE wire'.stage = "sent"
  <2>1. ASSUME Lossless
        PROVE  \A k \in Keys \ updated' :
                 properties[k] = IF k \in DOMAIN wire'.info THEN wire'.info[k] ELSE server.vars[k]
    <3>1. CASE ShouldSend(r.type)
      BY <1>2, <1>4, <1>8, <2>1, <3>1
    <3>2. CASE ~ShouldSend(r.type)
      BY <1>2, <1>3, <1>4, <1>8, <2>1, <3>2
    <3> QED
      BY <3>1, <3>2
  <2> QED
    BY <1>1, <1>2, <1>6, <1>8, <2>1 DEF MirrorInv
<1> QED
  BY <1>5, <1>7, <1>8

\* The server takes the session variables; its reply says what has become of the transaction.
LEMMA MirrorServe ==
  ASSUME WellTyped, OnceInv, MirrorInv, wire.stage = "sent", Replied, ServerOnly
  PROVE  MirrorInv'
<1>1. UNCHANGED <<scenario, settings, properties, updated, context, txKind, closed>> /\ wire'.stage = "answered"
  BY DEF ServerOnly, sessionVars, Replied, Replies
<1>2. ~closed
  BY DEF OnceInv, OneOnWire
<1>3. Lossless' => \A k \in Keys \ updated : server'.vars[k] = properties[k]
  BY <1>1 DEF MirrorInv, Replied, Lossless
<1>4. wire'.context = server'.context /\ (ErrorOf(wire)' # "fatal" => KindAfter(wire.flags)' = server'.txn)
  <2>1. KindAfter(wire.flags)' = KindAfter(wire'.flags) /\ ErrorOf(wire)' = ErrorOf(wire')
    BY <1>1 DEF KindAfter, ErrorOf
  <2>2. wire'.context = server'.context
    BY DEF Replied
  <2>3. ErrorOf(wire') # "fatal" => KindAfter(wire'.flags) = server'.txn
    <3>1. txKind = server.txn
      BY <1>2 DEF MirrorInv
    <3> QED
      BY <3>1 DEF Replied
  <2> QED
    BY <2>1, <2>2, <2>3
<1> QED
  BY <1>1, <1>2, <1>3, <1>4 DEF MirrorInv

\* What the client learns from a reply is what the server knows.
LEMMA MirrorAnswer ==
  ASSUME WellTyped, MirrorInv, Answer
  PROVE  MirrorInv'
<1>1. /\ wire.stage = "answered" /\ wire' = NoPacket /\ server' = server
      /\ UNCHANGED <<scenario, settings, properties, updated>>
      /\ context' = wire.context /\ txKind' = KindAfter(wire.flags)
      /\ closed' = (closed \/ ErrorOf(wire) = "fatal")
  BY DEF Answer, Receive
<1>2. wire'.stage = "none"
  BY <1>1 DEF NoPacket
<1>3. ~closed' => txKind' = server.txn /\ context' = server.context
  BY <1>1 DEF MirrorInv
<1> QED
  BY <1>1, <1>2, <1>3 DEF MirrorInv, Lossless

\* Client and server agree after every step.
LEMMA MirrorStep ==
  ASSUME WellTyped, FitInv, OnceInv, MirrorInv, [Next]_vars
  PROVE  MirrorInv'
<1>1. CASE UNCHANGED Mirrored
  BY <1>1 DEF Mirrored, MirrorInv, Lossless, KindAfter, ErrorOf
<1>2. ASSUME NEW k \in Keys, NEW v \in Values, SetClientInfo(k, v)
      PROVE  MirrorInv'
  BY <1>2, MirrorSet DEF SetClientInfo, Flagged, transportVars
<1>3. ASSUME NEW b \in BOOLEAN, SetAutoCommit(b)
      PROVE  MirrorInv'
  BY <1>3, MirrorSet DEF SetAutoCommit, transportVars
<1>4. CASE Fail
  <2>1. UNCHANGED <<scenario, settings, properties, updated, context, txKind, closed, server>> /\ wire' = NoPacket
    BY <1>4 DEF Fail, sessionVars
  <2>2. wire.stage \notin {"sent", "answered"}
    <3>1. wire.stage = "refused" \/ wire = NoPacket
      BY <1>4 DEF Fail, Leaves
    <3> QED
      BY <3>1 DEF NoPacket
  <2> QED
    BY <2>1, <2>2 DEF MirrorInv, Lossless, NoPacket
<1>5. CASE Break
  <2>1. /\ UNCHANGED <<scenario, settings, properties, updated, context, txKind>> /\ closed'
        /\ wire' = IF wire = NoPacket THEN wire ELSE [stage |-> "refused", request |-> wire.request]
    BY <1>5 DEF Break, sessionVars
  <2>2. wire'.stage \in {"none", "refused"}
    BY <2>1 DEF NoPacket
  <2> QED
    BY <2>1, <2>2 DEF MirrorInv
<1>6. CASE ServerStep
  BY <1>6, ServerEffect, MirrorServe
<1>7. UNCHANGED vars \/ (\E kind \in scenario.kinds : Call(kind)) \/ QueueNext \/ Lose \/ RunTick
        \/ (\E c \in Calls : FetchOn(c)) => UNCHANGED Mirrored
  BY DEF vars, sessionVars, transportVars, Call, QueueNext, Lose, Leaves, RunTick, FetchOn, Mirrored
<1> QED
  BY <1>1, <1>2, <1>3, <1>4, <1>5, <1>6, <1>7, MirrorSend, MirrorAnswer DEF Next, UserStep, ClientStep

-----------------------------------------------------------------------------
(* The steps, as far as the order of requests and the writes are concerned *)

\* A step with call c, when q is what is left of the queue.  A call that is told "ok" without
\* rows is told so by its reply, which is off the wire then.
Progress(c, q, t) ==
  /\ c \in Calls /\ c \in DOMAIN made /\ q \in Seq(RequestSet) /\ Moved(c, q, t) /\ server' = server
  /\ q = queue \/ (queue # <<>> /\ q = Tail(queue))
  /\ wire' = wire \/ wire' = NoPacket
  /\ Over => Over'
  /\ \A d \in Calls : told'[d] = "ok" /\ told[d] # "ok" /\ made[d].kind \notin HasRows =>
       /\ wire.stage = "answered" /\ wire' = NoPacket /\ wire.request.call = d
       /\ wire.request.type \in Primary /\ ErrorOf(wire) = "none"
       /\ wire.request.type \in {"COMMIT", "ROLLBACK"} => ~Unconfirmed(wire.request.type, wire)

\* A step that is about none of these.
Elsewhere == UNCHANGED <<queue, wire, server, made, told, allowed, closed>>

\* The taking of a reply.
LEMMA AnswerProgress ==
  ASSUME WellTyped, FitInv, OnceInv, Answer
  PROVE  Progress(wire.request.call, queue, ticks)
<1>1. /\ wire.stage = "answered" /\ wire.request \in RequestSet /\ wire' = NoPacket /\ made' = made /\ server' = server
      /\ CanSettle(wire.request) /\ Moved(wire.request.call, queue, ticks)
      /\ ToldByReply(wire.request, ErrorOf(wire) # "none", wire)
  BY AnswerEffect
<1>2. wire.request.call \in Calls /\ wire.request.call \in DOMAIN made
  BY <1>1 DEF CanSettle, RequestFits, RequestSet
<1>3. Over => Over'
  BY DEF Answer, Receive, Over
<1> QED
  BY <1>1, <1>2, <1>3 DEF Progress, ToldByReply, WellTyped, TransportTyped

\* The failure of a task without a reply.
LEMMA FailProgress ==
  ASSUME WellTyped, FitInv, OnceInv, Fail
  PROVE  \E c \in Calls, q \in Seq(RequestSet) : Progress(c, q, ticks)
<1>1. PICK r \in RequestSet, q \in Seq(RequestSet) :
         /\ Fails(r, q) /\ CanSettle(r) /\ Moved(r.call, q, ticks)
         /\ \A c \in Calls : told'[c] = "ok" /\ told[c] # "ok" => made[c].kind \in HasRows
  BY FailEffect
<1>2. r.call \in Calls /\ r.call \in DOMAIN made
  BY <1>1 DEF CanSettle, RequestFits, RequestSet
<1>3. wire' = NoPacket /\ server' = server /\ closed' = closed
  BY DEF Fail
<1>4. wire.stage \in {"refused", "none"}
  BY <1>1 DEF Fails, NoPacket
<1>5. Over => Over'
  BY <1>3, <1>4 DEF Over
<1>6. q = queue \/ (queue # <<>> /\ q = Tail(queue))
  BY <1>1 DEF Fails
<1> QED
  BY <1>1, <1>2, <1>3, <1>5, <1>6 DEF Progress

\* A tick, or the reading of rows, goes on without a reply.
LEMMA OwnProgress ==
  ASSUME WellTyped, FitInv, NEW c \in Calls, NEW t, c \in DOMAIN made, Moved(c, queue, t),
         UNCHANGED <<server, wire, closed>>,
         \A d \in Calls : told'[d] = "ok" /\ told[d] # "ok" => made[d].kind \in HasRows
  PROVE  Progress(c, queue, t)
<1>1. Over => Over'
  BY DEF Over, ErrorOf
<1> QED
  BY <1>1 DEF Progress, WellTyped, TransportTyped

\* Every step is one of these.
LEMMA StepCases ==
  ASSUME WellTyped, FitInv, OnceInv, [Next]_vars
  PROVE  \/ Elsewhere
         \/ \E kind \in Kinds : Call(kind)
         \/ Send /\ UNCHANGED resultVars
         \/ \E c \in Calls, q \in Seq(RequestSet), t \in Seq(Ticks) : Progress(c, q, t)
         \/ ServerStep
         \/ Break /\ UNCHANGED resultVars
         \/ Lose /\ UNCHANGED resultVars
<1>1. \A kind \in scenario.kinds : kind \in Kinds
  BY SessionAssumption DEF WellTyped, SessionTyped, ScenarioOK
<1>2. UNCHANGED vars \/ (QueueNext /\ UNCHANGED resultVars) => Elsewhere
  BY DEF vars, transportVars, resultVars, sessionVars, QueueNext, Elsewhere
<1>3. /\ \A k \in Keys, v \in Values : SetClientInfo(k, v) /\ UNCHANGED resultVars => Elsewhere
      /\ \A b \in BOOLEAN : SetAutoCommit(b) /\ UNCHANGED resultVars => Elsewhere
  BY DEF SetClientInfo, SetAutoCommit, transportVars, resultVars, Elsewhere
<1>4. queue \in Seq(RequestSet) /\ ticks \in Seq(Ticks)
  BY DEF WellTyped, TransportTyped, CallsTyped
<1>5. ASSUME RunTick PROVE \E c \in Calls, t \in Seq(Ticks) : Progress(c, queue, t)
  <2>1. /\ ticks # <<>> /\ Head(ticks) \in Ticks /\ Moved(Head(ticks).call, queue, Tail(ticks))
        /\ \A c \in Calls : told'[c] = "ok" /\ told[c] # "ok" => made[c].kind \in HasRows
    BY <1>5, TickMoved
  <2>2. /\ Head(ticks).call \in Calls /\ Tail(ticks) \in Seq(Ticks) /\ Head(ticks) \in Range(ticks)
    BY <1>4, <2>1, TailRange DEF Ticks
  <2>3. Head(ticks).call \in DOMAIN made
    BY <2>2 DEF FitInv, TickFits
  <2>4. UNCHANGED <<server, wire, closed>>
    BY <1>5 DEF RunTick
  <2>5. Progress(Head(ticks).call, queue, Tail(ticks))
    BY <2>1, <2>2, <2>3, <2>4, OwnProgress
  <2> QED
    BY <2>2, <2>5
<1>6. ASSUME NEW c \in Calls, FetchOn(c) PROVE Progress(c, queue, ticks)
  <2>1. Moved(c, queue, ticks) /\ told' = told
    BY <1>6, FetchMoved
  <2>2. c \in DOMAIN made /\ UNCHANGED <<server, wire, closed>>
    BY <1>6 DEF FetchOn, FitInv
  <2> QED
    BY <2>1, <2>2, OwnProgress
<1>7. ASSUME Answer PROVE \E c \in Calls : Progress(c, queue, ticks)
  BY <1>7, AnswerProgress DEF Progress
<1> QED
  BY <1>1, <1>2, <1>3, <1>4, <1>5, <1>6, <1>7, FailProgress DEF Next, UserStep, ClientStep

\* What is on the wire, and whether it is a request or a reply, by the kind of step.
LEMMA WireOf ==
  ASSUME WellTyped, OnceInv
  PROVE  /\ \A c, q, t : Progress(c, q, t) => /\ OnWire' \subseteq OnWire /\ Unserved' \subseteq Unserved
                                              /\ Answered' \subseteq Answered /\ (Good' => Good /\ wire' = wire)
         /\ Send => /\ OnWire = {} /\ Unserved = {} /\ Answered = {} /\ OnWire' = {Head(queue)}
                    /\ Unserved' \subseteq {Head(queue)} /\ Answered' = {} /\ ~Good'
         /\ wire.stage = "sent" /\ Replied => /\ OnWire = {wire.request} /\ Unserved = {wire.request} /\ Answered = {}
                       /\ OnWire' = {wire.request} /\ Unserved' = {} /\ Answered' = {wire.request}
         /\ Break => /\ OnWire' = OnWire /\ Unserved' = {} /\ Answered' = {} /\ ~Good'
         /\ Lose => /\ OnWire' = {} /\ Unserved' = {} /\ Answered = {} /\ Answered' = {} /\ ~Good'
<1>1. ASSUME NEW c, NEW q, NEW t, Progress(c, q, t)
      PROVE  /\ OnWire' \subseteq OnWire /\ Unserved' \subseteq Unserved
             /\ Answered' \subseteq Answered /\ (Good' => Good /\ wire' = wire)
  <2>1. CASE wire' = wire
    BY <2>1 DEF OnWire, Unserved, Answered, Good, ErrorOf
  <2>2. CASE wire' = NoPacket
    BY <2>2 DEF OnWire, Unserved, Answered, Good, NoPacket
  <2> QED
    BY <1>1, <2>1, <2>2 DEF Progress
<1>2. ASSUME Send
      PROVE  /\ OnWire = {} /\ Unserved = {} /\ Answered = {} /\ OnWire' = {Head(queue)}
             /\ Unserved' \subseteq {Head(queue)} /\ Answered' = {} /\ ~Good'
  <2>1. wire = NoPacket
    BY <1>2 DEF Send, MustSend, OnceInv, OneOnWire
  <2>2. wire' \in SentPackets \cup RefusedPackets /\ wire'.request = Head(queue)
    BY <1>2, SendEffect
  <2>3. wire'.stage \in {"sent", "refused"} /\ wire' # NoPacket
    BY <2>2 DEF SentPackets, RefusedPackets, NoPacket
  <2> QED
    BY <2>1, <2>2, <2>3 DEF OnWire, Unserved, Answered, Good, NoPacket
<1>3. ASSUME wire.stage = "sent", Replied
      PROVE  /\ OnWire = {wire.request} /\ Unserved = {wire.request} /\ Answered = {}
             /\ OnWire' = {wire.request} /\ Unserved' = {} /\ Answered' = {wire.request}
  <2>1. wire # NoPacket /\ wire' # NoPacket /\ wire'.stage = "answered" /\ wire'.request = wire.request
    BY <1>3 DEF NoPacket, Replied, Replies
  <2> QED
    BY <1>3, <2>1 DEF OnWire, Unserved, Answered
<1>4. ASSUME Break
      PROVE  OnWire' = OnWire /\ Unserved' = {} /\ Answered' = {} /\ ~Good'
  <2>1. wire' = IF wire = NoPacket THEN wire ELSE [stage |-> "refused", request |-> wire.request]
    BY <1>4 DEF Break
  <2> QED
    BY <2>1 DEF OnWire, Unserved, Answered, Good, NoPacket
<1>5. ASSUME Lose
      PROVE  OnWire' = {} /\ Unserved' = {} /\ Answered = {} /\ Answered' = {} /\ ~Good'
  BY <1>5 DEF Lose, Leaves, OnWire, Unserved, Answered, Good, NoPacket
<1> QED
  BY <1>1, <1>2, <1>3, <1>4, <1>5

\* A step with a call puts no request behind the others that is the first of its call.
LEMMA QueueAfter ==
  ASSUME WellTyped, NEW c, NEW q, NEW t, Progress(c, q, t)
  PROVE  /\ q \in Seq(RequestSet) /\ Range(q) \subseteq Range(queue)
         /\ allowed \subseteq allowed'
         /\ \/ queue' = q
            \/ \E e \in RequestSet : /\ e.type \notin Primary /\ queue' = Append(q, e)
                                     /\ e.commit => WriteCalls \subseteq allowed'
<1>1. q \in Seq(RequestSet) /\ (q = queue \/ (queue # <<>> /\ q = Tail(queue))) /\ Moved(c, q, t)
  BY DEF Progress
<1>2. Range(q) \subseteq Range(queue)
  BY <1>1, TailRange DEF WellTyped, TransportTyped
<1> QED
  BY <1>1, <1>2 DEF Moved, CallsBack, NextTick, NextRequest, Rests

-----------------------------------------------------------------------------
(* The order of requests *)

\* Before the first call nothing is on its way and nothing is written.
LEMMA OrderInit ==
  Init => OrderInv
<1> SUFFICES ASSUME Init PROVE OrderInv
  OBVIOUS
<1>1. /\ queue = <<>> /\ OnWire = {} /\ server.committed = {} /\ server.uncommitted = {}
      /\ \A c \in Calls : told[c] = "none"
  BY DEF Init, SessionInit, OnWire
<1>2. DOMAIN queue = {} /\ DOMAIN made = {}
  <2>1. DOMAIN queue = 1..0 /\ DOMAIN made = 1..0
    BY <1>1 DEF Init
  <2> QED
    BY <2>1
<1> QED
  BY <1>1, <1>2 DEF OrderInv, Ascending

\* One more request, which is not the first of its call, is no obstacle.
LEMMA LaterAppend ==
  ASSUME NEW q \in Seq(RequestSet), NEW e \in RequestSet, e.type \notin Primary
  PROVE  /\ Ascending(q) => Ascending(Append(q, e))
         /\ \A c, S : Later(Range(q) \cup S, c) => Later(Range(Append(q, e)) \cup S, c)
<1>1. Ascending(q) => Ascending(Append(q, e))
  BY AscendingAppend
<1>2. Range(Append(q, e)) = Range(q) \cup {e}
  BY AppendRange
<1> QED
  BY <1>1, <1>2 DEF Later

\* A request that a call makes when it is called comes after all that were made before.
LEMMA NewIsLater ==
  ASSUME WellTyped, FitInv, NEW kind \in Kinds, Call(kind)
  PROVE  /\ \A r \in Requests : r.call \in DOMAIN made /\ r.call < Len(made) + 1
         /\ \A d \in DOMAIN made : d \in Calls /\ d < Len(made) + 1
<1>1. DOMAIN made = 1..Len(made) /\ Len(made) \in Nat /\ Len(made) + 1 \in Calls
  BY CallEffect
<1>2. \A d \in DOMAIN made : d \in Calls /\ d < Len(made) + 1
  BY <1>1, SessionAssumption DEF Calls
<1> QED
  BY <1>1, <1>2 DEF FitInv, RequestFits

\* Requests stay in the order of the calls they are the first ones of.
LEMMA OrderStep ==
  ASSUME WellTyped, FitInv, OnceInv, OrderInv, [Next]_vars
  PROVE  OrderInv'
<1>1. queue \in Seq(RequestSet) /\ Requests = Range(queue) \cup OnWire
  BY DEF WellTyped, TransportTyped, Requests
<1>2. CASE Elsewhere
  BY <1>2 DEF Elsewhere, OrderInv, OnWire, Unserved, Requests
<1>3. ASSUME NEW kind \in Kinds, Call(kind)
      PROVE  OrderInv'
  <2> DEFINE c == Len(made) + 1
             r == NewRequest(kind)
  <2>1. /\ c \in Calls /\ c \notin DOMAIN made /\ DOMAIN made' = DOMAIN made \cup {c}
        /\ \A d \in DOMAIN made : made'[d] = made[d]
        /\ r \in RequestSet /\ r.call = c
        /\ queue' = Append(queue, r) \/ queue' = queue
    BY <1>3, CallEffect
  <2>2. \A e \in Requests : e.call \in DOMAIN made /\ e.call < c
    BY <1>3, NewIsLater
  <2>3. \A d \in DOMAIN made : d \in Calls /\ d < c
    BY <1>3, NewIsLater
  <2>4. UNCHANGED <<wire, server, told>> /\ OnWire' = OnWire /\ Unserved' = Unserved
    BY <1>3 DEF Call, OnWire, Unserved
  <2> HIDE DEF c, r
  <2>5. told[c] # "ok"
    BY <2>1 DEF FitInv
  <2>6. Range(Append(queue, r)) = Range(queue) \cup {r}
    BY <1>1, <2>1, AppendRange
  <2>7. Range(queue') \subseteq Range(queue) \cup {r} /\ Requests' \subseteq Requests \cup {r}
    BY <1>1, <2>1, <2>4, <2>6 DEF Requests
  <2>8. Ascending(queue')
    <3>1. Ascending(Append(queue, r))
      BY <1>1, <2>1, <2>2, AscendingAppend DEF OrderInv
    <3> QED
      BY <2>1, <3>1 DEF OrderInv
  <2>9. \A e \in OnWire' : e.type \in Primary => Later(Range(queue'), e.call)
    BY <1>1, <2>1, <2>2, <2>4, <2>7 DEF OrderInv, Later
  <2>10. \A w \in server'.committed \cup server'.uncommitted : Later(Range(queue') \cup Unserved', w)
    <3>1. \A w \in server.committed \cup server.uncommitted : w < c
      BY <2>3 DEF FitInv, WriteCalls
    <3> QED
      BY <2>1, <2>4, <2>7, <3>1 DEF OrderInv, Later
  <2>11. \A d \in DOMAIN made' : told'[d] = "ok" /\ made'[d].kind \notin HasRows => Later(Requests', d)
    BY <2>1, <2>3, <2>4, <2>5, <2>7 DEF OrderInv, Later
  <2> QED
    BY <2>8, <2>9, <2>10, <2>11 DEF OrderInv
<1>4. CASE Send /\ UNCHANGED resultVars
  <2>1. queue # <<>> /\ queue' = Tail(queue) /\ server' = server
    BY <1>4, SendEffect DEF Send
  <2>2. OnWire = {} /\ OnWire' = {Head(queue)} /\ Unserved' \subseteq {Head(queue)}
    BY <1>4, WireOf
  <2>3. Range(queue) = {Head(queue)} \cup Range(Tail(queue))
    BY <1>1, <2>1, TailRange
  <2>4. Ascending(Tail(queue)) /\ (Head(queue).type \in Primary => Later(Range(Tail(queue)), Head(queue).call))
    BY <1>1, <2>1, AscendingTail DEF OrderInv
  <2>5. Requests' \subseteq Requests /\ Range(queue') \cup Unserved' \subseteq Range(queue)
    BY <1>1, <2>1, <2>2, <2>3 DEF Requests
  <2>6. \A w \in server.committed \cup server.uncommitted : Later(Range(queue') \cup Unserved', w)
    BY <2>5 DEF OrderInv, Later
  <2>7. \A c \in DOMAIN made : told[c] = "ok" /\ made[c].kind \notin HasRows => Later(Requests', c)
    BY <2>5 DEF OrderInv, Later
  <2> QED
    BY <1>4, <2>1, <2>2, <2>4, <2>6, <2>7 DEF OrderInv, resultVars
<1>5. ASSUME NEW c \in Calls, NEW q \in Seq(RequestSet), NEW t \in Seq(Ticks), Progress(c, q, t)
      PROVE  OrderInv'
  <2>1. OnWire' \subseteq OnWire /\ Unserved' \subseteq Unserved
    BY <1>5, WireOf
  <2>2. /\ Range(q) \subseteq Range(queue) /\ server' = server /\ made' = made
        /\ \/ queue' = q
           \/ \E e \in RequestSet : e.type \notin Primary /\ queue' = Append(q, e)
    BY <1>5, QueueAfter DEF Progress, Moved
  <2>3. Ascending(q)
    BY <1>1, <1>5, AscendingTail DEF OrderInv, Progress
  <2>4. /\ Ascending(queue')
        /\ \A d, S : Later(Range(q) \cup S, d) => Later(Range(queue') \cup S, d)
    BY <2>2, <2>3, LaterAppend
  <2>5. \A e \in OnWire' : e.type \in Primary => Later(Range(queue'), e.call)
    <3>1. \A e \in OnWire' : e.type \in Primary => Later(Range(q) \cup {}, e.call)
      BY <2>1, <2>2 DEF OrderInv, Later
    <3>2. \A e \in OnWire' : e.type \in Primary => Later(Range(queue') \cup {}, e.call)
      BY <2>4, <3>1
    <3> QED
      BY <3>2 DEF Later
  <2>6. \A w \in server.committed \cup server.uncommitted : Later(Range(queue') \cup Unserved', w)
    <3>1. \A w \in server.committed \cup server.uncommitted : Later(Range(q) \cup Unserved', w)
      BY <2>1, <2>2 DEF OrderInv, Later
    <3> QED
      BY <2>4, <3>1
  <2>7. \A d \in DOMAIN made : told'[d] = "ok" /\ made[d].kind \notin HasRows => Later(Requests', d)
    <3>1. SUFFICES ASSUME NEW d \in DOMAIN made, told'[d] = "ok", made[d].kind \notin HasRows
                   PROVE  Later(Range(q) \cup OnWire', d)
      BY <2>4 DEF Requests
    <3>2. CASE told[d] = "ok"
      BY <1>1, <2>1, <2>2, <3>1, <3>2 DEF OrderInv, Later
    <3>3. CASE told[d] # "ok"
      <4>1. d \in Calls
        BY LenProperties, SessionAssumption DEF WellTyped, CallsTyped, Calls
      <4>2. /\ wire.stage = "answered" /\ wire' = NoPacket /\ wire.request.call = d
            /\ wire.request.type \in Primary
        BY <1>5, <3>1, <3>3, <4>1 DEF Progress
      <4>3. OnWire' = {} /\ wire.request \in OnWire
        BY <4>2 DEF OnWire, NoPacket
      <4> QED
        BY <2>2, <4>2, <4>3 DEF OrderInv, Later
    <3> QED
      BY <3>2, <3>3
  <2> QED
    BY <2>2, <2>4, <2>5, <2>6, <2>7 DEF OrderInv
<1>6. CASE ServerStep
  <2>1. wire.stage = "sent" /\ Replied /\ ServerOnly
    BY <1>6, ServerEffect
  <2>2. OnWire = {wire.request} /\ OnWire' = OnWire /\ Unserved' = {}
    BY <2>1, WireOf
  <2>3. server'.committed \cup server'.uncommitted \subseteq
          server.committed \cup server.uncommitted \cup WritesIn({wire.request}, WriteCalls)
    BY <2>1 DEF Replied, WritesAfter, Untouched, Dropped, CommittedWith, Joined, WritesIn
  <2>4. \A w \in server'.committed \cup server'.uncommitted : Later(Range(queue), w)
    <3>1. \A w \in server.committed \cup server.uncommitted : Later(Range(queue), w)
      BY DEF OrderInv, Later
    <3>2. \A w \in WritesIn({wire.request}, WriteCalls) : Later(Range(queue), w)
      BY <2>2 DEF OrderInv, WritesIn, IsWrite
    <3> QED
      BY <2>3, <3>1, <3>2
  <2>5. UNCHANGED <<queue, made, told>> /\ Requests' = Requests
    BY <1>1, <2>1, <2>2 DEF ServerOnly, resultVars, Requests
  <2>6. \A w \in server'.committed \cup server'.uncommitted : Later(Range(queue') \cup Unserved', w)
    BY <2>2, <2>4, <2>5 DEF Later
  <2> QED
    BY <2>2, <2>5, <2>6 DEF OrderInv
<1>7. CASE Break /\ UNCHANGED resultVars
  <2>1. OnWire' = OnWire /\ Unserved' = {} /\ queue' = queue
    BY <1>7, WireOf DEF Break
  <2>2. server'.committed \cup server'.uncommitted \subseteq server.committed \cup server.uncommitted
    BY <1>7, EndFields DEF Break, WellTyped, SessionTyped
  <2>3. \A w \in server'.committed \cup server'.uncommitted : Later(Range(queue') \cup Unserved', w)
    BY <2>1, <2>2 DEF OrderInv, Later
  <2>4. made' = made /\ told' = told /\ Requests' = Requests
    BY <1>7, <2>1 DEF resultVars, Requests
  <2> QED
    BY <2>1, <2>3, <2>4 DEF OrderInv
<1>8. CASE Lose /\ UNCHANGED resultVars
  <2>1. queue # <<>> /\ queue' = Tail(queue) /\ server' = server /\ OnWire' = {} /\ Unserved' = {}
    BY <1>8, WireOf DEF Lose, Leaves
  <2>2. Range(queue') \subseteq Range(queue) /\ Requests' \subseteq Requests /\ Ascending(queue')
    BY <1>1, <2>1, TailRange, AscendingTail DEF OrderInv, Requests
  <2> QED
    BY <1>8, <2>1, <2>2 DEF OrderInv, Later, resultVars
<1> QED
  BY <1>2, <1>3, <1>4, <1>5, <1>6, <1>7, <1>8, StepCases

-----------------------------------------------------------------------------
(* What user code has asked to commit *)

\* At first nothing is asked for and nothing is written.
LEMMA AllowedInit ==
  Init => AllowedInv
<1> SUFFICES ASSUME Init PROVE AllowedInv
  OBVIOUS
<1>1. queue = <<>> /\ Unserved = {} /\ server.committed = {}
  BY DEF Init, SessionInit, Unserved, NoPacket
<1>2. DOMAIN queue = {} /\ Range(queue) = {}
  <2>1. DOMAIN queue = 1..0
    BY <1>1
  <2> QED
    BY <2>1 DEF Range
<1> QED
  BY <1>1, <1>2 DEF AllowedInv, Covered

\* The writes among some requests are calls that write.
LEMMA WritesInCalls ==
  ASSUME NEW S, NEW W
  PROVE  WritesIn(S, W) \subseteq W
BY DEF WritesIn, IsWrite

\* A request of a call that goes on finds the writes ahead of it allowed when it commits.
LEMMA AllowedMoved ==
  ASSUME WellTyped, FitInv, OnceInv, AllowedInv,
         NEW c \in Calls, NEW q \in Seq(RequestSet), NEW t \in Seq(Ticks), Progress(c, q, t)
  PROVE  AllowedInv'
<1>1. Unserved' \subseteq Unserved
  BY WireOf
<1>2. /\ Range(q) \subseteq Range(queue) /\ server' = server /\ WriteCalls' = WriteCalls /\ allowed \subseteq allowed'
      /\ \/ queue' = q
         \/ \E e \in RequestSet : /\ e.type \notin Primary /\ queue' = Append(q, e)
                                  /\ e.commit => WriteCalls \subseteq allowed'
  BY QueueAfter DEF Progress, Moved, WriteCalls
<1>3. Covered(q, WriteCalls, allowed')
  <2>1. Covered(q, WriteCalls, allowed)
    <3>1. queue \in Seq(RequestSet) /\ Covered(queue, WriteCalls, allowed)
      BY DEF AllowedInv, WellTyped, TransportTyped
    <3>2. q = queue \/ (queue # <<>> /\ q = Tail(queue))
      BY DEF Progress
    <3> QED
      BY <3>1, <3>2, CoveredTail
  <2> QED
    BY <1>2, <2>1 DEF Covered
<1>4. \A r \in Range(q) : Commits(r) => server.uncommitted \cup WritesIn(Unserved', WriteCalls) \subseteq allowed'
  BY <1>1, <1>2 DEF AllowedInv, WritesIn
<1>5. \A r \in Unserved' : Commits(r) => server.uncommitted \cup WritesIn({r}, WriteCalls) \subseteq allowed'
  BY <1>1, <1>2 DEF AllowedInv
<1>6. server.committed \subseteq allowed'
  BY <1>2 DEF AllowedInv
<1>7. CASE queue' = q
  BY <1>2, <1>3, <1>4, <1>5, <1>6, <1>7 DEF AllowedInv
<1>8. ASSUME NEW e \in RequestSet, e.type \notin Primary, queue' = Append(q, e),
             e.commit => WriteCalls \subseteq allowed'
      PROVE  AllowedInv'
  <2>1. Commits(e) => WriteCalls \subseteq allowed'
    BY <1>8 DEF Commits, Primary
  <2>2. Covered(Append(q, e), WriteCalls, allowed')
    BY <1>3, <2>1, CoveredAppend, WritesInCalls
  <2>3. Range(queue') = Range(q) \cup {e}
    BY <1>8, AppendRange
  <2>4. Commits(e) => server.uncommitted \cup WritesIn(Unserved', WriteCalls) \subseteq allowed'
    BY <2>1, WritesInCalls DEF FitInv
  <2>5. \A r \in Range(queue') :
          Commits(r) => server.uncommitted \cup WritesIn(Unserved', WriteCalls) \subseteq allowed'
    BY <1>4, <2>3, <2>4
  <2> QED
    BY <1>2, <1>5, <1>6, <1>8, <2>2, <2>5 DEF AllowedInv
<1> QED
  BY <1>2, <1>7, <1>8

\* A call asks for the commit of what it commits, and of the writes before it.
LEMMA CallAllows ==
  ASSUME WellTyped, NEW kind \in Kinds, Call(kind)
  PROVE  LET c == Len(made) + 1
             r == NewRequest(kind)
         IN  /\ allowed \subseteq allowed'
             /\ WriteCalls' = WriteCalls \cup (IF kind \in Writes THEN {c} ELSE {})
             /\ \/ queue' = queue
                \/ queue' = Append(queue, r) /\ (Commits(r) => WriteCalls' \subseteq allowed')
<1> DEFINE c == Len(made) + 1
           r == NewRequest(kind)
<1>1. /\ c \notin DOMAIN made /\ DOMAIN made = 1..Len(made) /\ Len(made) \in Nat
      /\ DOMAIN made' = DOMAIN made \cup {c} /\ made'[c] = [kind |-> kind, auto |-> autoCommit]
      /\ \A d \in DOMAIN made : made'[d] = made[d]
      /\ r.type = TypeOf(kind) /\ (r.commit => autoCommit)
  BY CallEffect
<1>2. WriteCalls' = WriteCalls \cup (IF kind \in Writes THEN {c} ELSE {})
  BY <1>1 DEF WriteCalls
<1>3. WritesBefore(c) = WriteCalls
  <2>1. 1..(c - 1) = DOMAIN made
    BY <1>1
  <2> QED
    BY <2>1 DEF WritesBefore, WriteCalls
<1>4. \/ queue' = queue /\ allowed' = allowed
      \/ /\ queue' = Append(queue, r)
         /\ allowed' = allowed \cup
              (IF kind = "commit" THEN WritesBefore(c)
               ELSE IF autoCommit THEN WritesBefore(c) \cup {c} ELSE {})
  BY DEF Call, NewRequest
<1>5. Commits(r) => kind = "commit" \/ autoCommit
  BY <1>1, CallAssumption DEF Commits, TypeOf
<1>6. kind = "commit" => kind \notin Writes
  BY DEF Writes
<1> HIDE DEF c, r
<1>7. queue' # queue => (Commits(r) => WriteCalls' \subseteq allowed')
  BY <1>2, <1>3, <1>4, <1>5, <1>6
<1>8. allowed \subseteq allowed'
  BY <1>4
<1> QED
  BY <1>2, <1>4, <1>7, <1>8 DEF c, r

\* What is committed has been asked for, and so has what the next requests commit.
LEMMA AllowedStep ==
  ASSUME WellTyped, FitInv, OnceInv, AllowedInv, [Next]_vars
  PROVE  AllowedInv'
<1>1. queue \in Seq(RequestSet) /\ Requests = Range(queue) \cup OnWire /\ Unserved \subseteq OnWire
  BY RequestsTyped DEF WellTyped, TransportTyped, Requests
<1>2. CASE Elsewhere
  BY <1>2 DEF Elsewhere, AllowedInv, WriteCalls, Unserved
<1>3. ASSUME NEW kind \in Kinds, Call(kind)
      PROVE  AllowedInv'
  <2> DEFINE c == Len(made) + 1
             r == NewRequest(kind)
  <2>1. /\ c \notin DOMAIN made /\ r \in RequestSet /\ r.call = c
    BY <1>3, CallEffect
  <2>2. /\ allowed \subseteq allowed'
        /\ WriteCalls' = WriteCalls \cup (IF kind \in Writes THEN {c} ELSE {})
        /\ \/ queue' = queue
           \/ queue' = Append(queue, r) /\ (Commits(r) => WriteCalls' \subseteq allowed')
    BY <1>3, CallAllows
  <2>3. UNCHANGED <<wire, server>> /\ Unserved' = Unserved
    BY <1>3 DEF Call, Unserved
  <2> HIDE DEF c, r
  <2>4. \A e \in Requests : IsWrite(e, WriteCalls') <=> IsWrite(e, WriteCalls)
    BY <2>1, <2>2 DEF FitInv, RequestFits, IsWrite
  <2>5. \A S \in SUBSET Requests : WritesIn(S, WriteCalls') = WritesIn(S, WriteCalls)
    BY <2>4 DEF WritesIn
  <2>6. WritesIn(Unserved, WriteCalls') = WritesIn(Unserved, WriteCalls)
    BY <1>1, <2>5
  <2>7. \A e \in Unserved : WritesIn({e}, WriteCalls') = WritesIn({e}, WriteCalls)
    BY <1>1, <2>5
  <2>8. Covered(queue, WriteCalls', allowed')
    <3>1. \A e \in Range(queue) : IsWrite(e, WriteCalls') <=> IsWrite(e, WriteCalls)
      BY <1>1, <2>4
    <3>2. DOMAIN queue \subseteq Nat /\ \A i \in DOMAIN queue : 1..i \subseteq DOMAIN queue
      BY <1>1, LenProperties
    <3> QED
      BY <2>2, <3>1, <3>2, CoveredMore DEF AllowedInv
  <2>9. server.committed \subseteq allowed' /\ server.uncommitted \subseteq WriteCalls'
    BY <2>2 DEF AllowedInv, FitInv
  <2>10. \A e \in Unserved : Commits(e) => server.uncommitted \cup WritesIn({e}, WriteCalls') \subseteq allowed'
    BY <2>2, <2>7 DEF AllowedInv
  <2>11. \A e \in Range(queue) :
           Commits(e) => server.uncommitted \cup WritesIn(Unserved, WriteCalls') \subseteq allowed'
    BY <2>2, <2>6 DEF AllowedInv
  <2>12. CASE queue' = queue
    BY <2>3, <2>8, <2>9, <2>10, <2>11, <2>12 DEF AllowedInv
  <2>13. CASE queue' = Append(queue, r) /\ (Commits(r) => WriteCalls' \subseteq allowed')
    <3>1. Covered(Append(queue, r), WriteCalls', allowed')
      BY <1>1, <2>1, <2>8, <2>13, CoveredAppend, WritesInCalls
    <3>2. Range(queue') = Range(queue) \cup {r}
      BY <1>1, <2>1, <2>13, AppendRange
    <3>3. \A e \in Range(queue') :
             Commits(e) => server.uncommitted \cup WritesIn(Unserved, WriteCalls') \subseteq allowed'
      BY <2>9, <2>11, <2>13, <3>2, WritesInCalls
    <3> QED
      BY <2>3, <2>9, <2>10, <2>13, <3>1, <3>3 DEF AllowedInv
  <2> QED
    BY <2>2, <2>12, <2>13
<1>4. CASE Send /\ UNCHANGED resultVars
  <2>1. queue # <<>> /\ queue' = Tail(queue) /\ server' = server
    BY <1>4, SendEffect DEF Send
  <2>2. Unserved' \subseteq {Head(queue)}
    BY <1>4, WireOf
  <2>3. Range(queue) = {Head(queue)} \cup Range(Tail(queue))
    BY <1>1, <2>1, TailRange
  <2>4. /\ Covered(Tail(queue), WriteCalls, allowed)
        /\ \A r \in Range(queue) : Commits(r) => WritesIn({Head(queue)}, WriteCalls) \subseteq allowed
    BY <1>1, <2>1, CoveredTail DEF AllowedInv
  <2>5. \A r \in Range(queue) : Commits(r) => server.uncommitted \subseteq allowed
    BY DEF AllowedInv
  <2>6. WritesIn(Unserved', WriteCalls) \subseteq WritesIn({Head(queue)}, WriteCalls)
    BY <2>2 DEF WritesIn
  <2>7. allowed' = allowed /\ WriteCalls' = WriteCalls
    BY <1>4 DEF resultVars, WriteCalls
  <2>8. \A r \in Unserved' : Commits(r) => server.uncommitted \cup WritesIn({r}, WriteCalls) \subseteq allowed
    BY <2>2, <2>3, <2>4, <2>5
  <2>9. \A r \in Range(Tail(queue)) :
          Commits(r) => server.uncommitted \cup WritesIn(Unserved', WriteCalls) \subseteq allowed
    BY <2>3, <2>4, <2>5, <2>6
  <2> QED
    BY <2>1, <2>4, <2>7, <2>8, <2>9 DEF AllowedInv
<1>5. ASSUME NEW c \in Calls, NEW q \in Seq(RequestSet), NEW t \in Seq(Ticks), Progress(c, q, t)
      PROVE  AllowedInv'
  BY <1>5, AllowedMoved
<1>6. CASE ServerStep
  <2>1. wire.stage = "sent" /\ Replied /\ ServerOnly
    BY <1>6, ServerEffect
  <2> DEFINE r == wire.request
  <2>2. Unserved = {r} /\ Unserved' = {}
    BY <2>1, WireOf
  <2>3. UNCHANGED <<queue, allowed>> /\ WriteCalls' = WriteCalls /\ WritesAfter(r)
    BY <2>1 DEF ServerOnly, resultVars, WriteCalls, Replied
  <2>4. IsWrite(r, WriteCalls) => WritesIn(Unserved, WriteCalls) = {r.call} /\ WritesIn({r}, WriteCalls) = {r.call}
    BY <2>2 DEF WritesIn
  <2> HIDE DEF r
  <2>5. Commits(r) => server.uncommitted \subseteq allowed /\ (IsWrite(r, WriteCalls) => r.call \in allowed)
    BY <2>2, <2>4 DEF AllowedInv
  <2>6. server'.committed \subseteq allowed
    <3>1. r.commit => Commits(r)
      BY DEF Commits
    <3>2. server.committed \subseteq allowed
      BY DEF AllowedInv
    <3> QED
      BY <2>3, <2>5, <3>1, <3>2 DEF WritesAfter, Untouched, Dropped, CommittedWith, Joined
  <2>7. server'.uncommitted \subseteq server.uncommitted \cup WritesIn(Unserved, WriteCalls)
    BY <2>3, <2>4 DEF WritesAfter, Untouched, Dropped, CommittedWith, Joined
  <2>8. \A e \in Range(queue) : Commits(e) => server'.uncommitted \subseteq allowed
    BY <2>7 DEF AllowedInv
  <2>9. WritesIn({}, WriteCalls) = {}
    BY DEF WritesIn
  <2> QED
    BY <2>2, <2>3, <2>6, <2>8, <2>9 DEF AllowedInv
<1>7. CASE Break /\ UNCHANGED resultVars
  <2>1. Unserved' = {} /\ queue' = queue
    BY <1>7, WireOf DEF Break
  <2>2. server'.committed = server.committed /\ server'.uncommitted = {}
    BY <1>7, EndFields DEF Break, WellTyped, SessionTyped
  <2>3. allowed' = allowed /\ WriteCalls' = WriteCalls /\ WritesIn({}, WriteCalls) = {}
    BY <1>7 DEF resultVars, WriteCalls, WritesIn
  <2> QED
    BY <2>1, <2>2, <2>3 DEF AllowedInv
<1>8. CASE Lose /\ UNCHANGED resultVars
  <2>1. queue # <<>> /\ queue' = Tail(queue) /\ server' = server /\ Unserved' = {}
    BY <1>8, WireOf DEF Lose, Leaves
  <2>2. Range(queue') \subseteq Range(queue) /\ Covered(queue', WriteCalls, allowed)
    BY <1>1, <2>1, TailRange, CoveredTail DEF AllowedInv
  <2>3. allowed' = allowed /\ WriteCalls' = WriteCalls /\ WritesIn({}, WriteCalls) = {}
    BY <1>8 DEF resultVars, WriteCalls, WritesIn
  <2> QED
    BY <2>1, <2>2, <2>3 DEF AllowedInv
<1> QED
  BY <1>2, <1>3, <1>4, <1>5, <1>6, <1>7, <1>8, StepCases

-----------------------------------------------------------------------------
(* What the calls are told *)

\* At first no call has been told anything.
LEMMA OutcomeInit ==
  Init => OutcomeInv
<1> SUFFICES ASSUME Init PROVE OutcomeInv
  OBVIOUS
<1>1. ~Good
  BY DEF Init, SessionInit, Good, NoPacket
<1>2. DOMAIN made = {}
  <2>1. DOMAIN made = 1..0
    BY DEF Init
  <2> QED
    BY <2>1
<1> QED
  BY <1>1, <1>2 DEF OutcomeInv

\* A rollback that w has been rolled back by stays one when what is on its way is as late.
LEMMA RolledBackKept ==
  ASSUME NEW w, RolledBackFor(w), DOMAIN made \subseteq DOMAIN made',
         \A d \in DOMAIN made : made'[d] = made[d],
         \A d \in DOMAIN made : Later(Range(queue) \cup Unserved, d) => Later(Range(queue') \cup Unserved', d),
         \A d \in DOMAIN made : Later(Range(queue) \cup Unserved, d) /\ Later(Answered, d - 1) => Later(Answered', d - 1)
  PROVE  RolledBackFor(w)'
<1>1. PICK d \in DOMAIN made :
         /\ made[d].kind = "rollback" /\ d > w
         /\ Later(Range(queue) \cup Unserved, d) /\ Later(Answered, d - 1)
  BY DEF RolledBackFor
<1>2. /\ d \in DOMAIN made' /\ made'[d].kind = "rollback"
      /\ Later(Range(queue') \cup Unserved', d) /\ Later(Answered', d - 1)
  BY <1>1
<1> QED
  BY <1>1, <1>2 DEF RolledBackFor

\* Outcomes stay what they are while the writes on the server stay.
LEMMA OutcomeKept ==
  ASSUME WellTyped, NEW c \in DOMAIN made, made'[c] = made[c], WritesBefore(c)' = WritesBefore(c),
         server'.committed = server.committed, server'.uncommitted \subseteq server.uncommitted,
         \A w : w \in server.uncommitted => Kept(w)',
         \A w : RolledBackFor(w) => RolledBackFor(w)', Over => Over'
  PROVE  /\ WriteOutcome(c) => WriteOutcome(c)'
         /\ EndOutcome(c) => EndOutcome(c)'
<1>1. Kept(c) => Kept(c)'
  BY DEF Kept
<1> QED
  BY <1>1 DEF WriteOutcome, EndOutcome

\* A step of the server: a write that is reported later is committed or belongs to the
\* transaction, and a rollback ends the transaction of the writes before it.
LEMMA KeptServed ==
  ASSUME WellTyped, FitInv, OrderInv, wire.stage = "sent", OnceInv, Replied, ServerOnly
  PROVE  /\ \A w : Kept(w) => Kept(w)'
         /\ server.committed \subseteq server'.committed
         /\ made' = made /\ told' = told /\ WriteCalls' = WriteCalls
<1> DEFINE r == wire.request
<1>1. /\ OnWire = {r} /\ Unserved = {r} /\ Answered = {} /\ Unserved' = {} /\ Answered' = {r}
  BY WireOf
<1>2. made' = made /\ told' = told /\ queue' = queue /\ closed' = closed /\ WriteCalls' = WriteCalls
  BY DEF ServerOnly, resultVars, WriteCalls
<1>3. r \in RequestSet /\ RequestFits(r, made) /\ WritesAfter(r)
  BY SentTyped DEF FitInv, Requests, OnWire, Replied, WellTyped, NoPacket
<1>4. server.committed \subseteq server'.committed
  BY <1>3 DEF WritesAfter, Untouched, Dropped, CommittedWith, Joined
<1>5. \A d \in DOMAIN made : d \in Nat
  BY LenProperties DEF WellTyped, CallsTyped
<1>6. \A w : RolledBackFor(w) => RolledBackFor(w)'
  <2>1. \A d \in DOMAIN made : Later(Range(queue) \cup {r}, d) => Later(Range(queue') \cup {}, d)
    BY <1>2 DEF Later
  <2>2. \A d \in DOMAIN made : Later(Range(queue) \cup {r}, d) => Later({r}, d - 1)
    BY <1>3, <1>5 DEF Later, RequestSet, Calls
  <2> QED
    BY <1>1, <1>2, <2>1, <2>2, RolledBackKept
<1>7. Over => Over'
  BY <1>2 DEF Over
<1>8. ASSUME NEW w \in server.uncommitted, w \notin server'.committed \cup server'.uncommitted
      PROVE  RolledBackFor(w)' \/ Over'
  <2>1. (Dropped /\ ErrorOf(wire') = "fatal") \/ (Dropped /\ r.type = "ROLLBACK")
    BY <1>3, <1>8 DEF WritesAfter, Untouched, CommittedWith, Joined
  <2>2. CASE Dropped /\ ErrorOf(wire') = "fatal"
    <3>1. wire'.stage = "answered"
      BY DEF Replied, Replies
    <3> QED
      BY <2>2, <3>1 DEF Over, ErrorOf
  <2>3. CASE r.type = "ROLLBACK"
    <3> DEFINE d == r.call
    <3>1. r.type \in Primary /\ made[d].kind = "rollback" /\ d \in DOMAIN made
      BY <1>3, <2>3, TypesOfCalls DEF Primary, RequestFits
    <3>2. d > w
      BY <1>1, <3>1 DEF OrderInv, Later
    <3>3. Later(Range(queue), d)
      BY <1>1, <3>1 DEF OrderInv
    <3>4. Later({r}, d - 1)
      BY <1>5, <3>1 DEF Later
    <3> HIDE DEF d, r
    <3> QED
      BY <1>1, <1>2, <3>1, <3>2, <3>3, <3>4 DEF RolledBackFor
  <2> QED
    BY <2>1, <2>2, <2>3
<1>9. ASSUME NEW w, Kept(w)
      PROVE  Kept(w)'
  BY <1>4, <1>6, <1>7, <1>8, <1>9 DEF Kept
<1> QED
  BY <1>2, <1>4, <1>9

\* What a good reply says has become of its request.
LEMMA ReplySays ==
  ASSUME WellTyped, FitInv, wire.stage = "sent", Replied, ServerOnly, OnceInv, Good'
  PROVE  LET r == wire.request IN
         /\ IsWrite(r, WriteCalls) => WriteOutcome(r.call)'
         /\ r.type \in {"COMMIT", "ROLLBACK"} /\ ~Unconfirmed(r.type, wire') => server'.uncommitted = {}
<1> DEFINE r == wire.request
<1>1. r \in RequestSet /\ RequestFits(r, made) /\ WritesAfter(r)
  BY SentTyped DEF FitInv, Requests, OnWire, Replied, WellTyped, NoPacket
<1>2. ErrorOf(wire') = "none"
  BY DEF Good, ErrorOf
<1>3. made' = made
  BY DEF ServerOnly, resultVars
<1>6. r' = r
  BY DEF Replied
<1> HIDE DEF r
<1>4. ASSUME IsWrite(r, WriteCalls)
      PROVE  WriteOutcome(r.call)'
  <2>1. r.type \in {"EXECUTE", "EXECUTE_DIRECT"}
    BY <1>1, <1>4, TypesOfCalls
  <2>2. r.commit = made[r.call].auto
    BY <1>1, <2>1 DEF RequestFits, Primary
  <2>3. CommittedWith({r.call}) \/ (Joined({r.call}) /\ ~r.commit)
    BY <1>1, <1>2, <1>4, <2>1 DEF WritesAfter
  <2>4. Kept(r.call)'
    BY <1>6, <2>3 DEF CommittedWith, Joined, Kept
  <2>5. made[r.call].auto => r.call \in server'.committed
    BY <2>2, <2>3 DEF CommittedWith
  <2> QED
    BY <1>3, <1>6, <2>4, <2>5 DEF WriteOutcome
<1>5. ASSUME r.type \in {"COMMIT", "ROLLBACK"}, ~Unconfirmed(r.type, wire')
      PROVE  server'.uncommitted = {}
  <2>1. ~IsWrite(r, WriteCalls)
    BY <1>1, <1>5, TypesOfCalls
  <2> QED
    BY <1>1, <1>2, <1>5, <2>1 DEF WritesAfter, Dropped, CommittedWith
<1> QED
  BY <1>4, <1>5 DEF r

\* A step with a call: the reports that it makes are those of a good reply.
LEMMA OutcomeMoved ==
  ASSUME WellTyped, FitInv, OnceInv, OrderInv, OutcomeInv,
         NEW c \in Calls, NEW q \in Seq(RequestSet), NEW t \in Seq(Ticks), Progress(c, q, t)
  PROVE  OutcomeInv'
<1>1. /\ OnWire' \subseteq OnWire /\ Unserved' \subseteq Unserved
      /\ Answered' \subseteq Answered /\ (Good' => Good /\ wire' = wire)
  BY WireOf
<1>2. /\ Range(q) \subseteq Range(queue) /\ server' = server /\ made' = made /\ WriteCalls' = WriteCalls
      /\ (Over => Over')
      /\ \/ queue' = q
         \/ \E e \in RequestSet : e.type \notin Primary /\ queue' = Append(q, e)
  BY QueueAfter DEF Progress, Moved, WriteCalls
<1>3. \A d \in DOMAIN made : d \in Calls
  BY LenProperties, SessionAssumption DEF WellTyped, CallsTyped, Calls
<1>4. \A d, S : Later(Range(q) \cup S, d) => Later(Range(queue') \cup S, d)
  BY <1>2, LaterAppend
<1>5. \A w : RolledBackFor(w) => RolledBackFor(w)'
  <2>1. \A d \in DOMAIN made : Later(Range(queue) \cup Unserved, d) => Later(Range(queue') \cup Unserved', d)
    <3>1. \A d \in DOMAIN made : Later(Range(queue) \cup Unserved, d) => Later(Range(q) \cup Unserved', d)
      BY <1>1, <1>2 DEF Later
    <3> QED
      BY <1>4, <3>1
  <2>2. \A d \in DOMAIN made : Later(Answered, d - 1) => Later(Answered', d - 1)
    BY <1>1 DEF Later
  <2> QED
    BY <1>2, <2>1, <2>2, RolledBackKept
<1>6. \A w : Kept(w) => Kept(w)'
  BY <1>2, <1>5 DEF Kept
<1>7. \A d : WritesBefore(d)' = WritesBefore(d)
  BY <1>2 DEF WritesBefore
<1>8. \A d : (WriteOutcome(d) => WriteOutcome(d)') /\ (EndOutcome(d) => EndOutcome(d)')
  BY <1>2, <1>6, <1>7 DEF WriteOutcome, EndOutcome
<1>9. ASSUME NEW d \in DOMAIN made, told'[d] = "ok", told[d] # "ok", made[d].kind \notin HasRows
      PROVE  /\ Good /\ ~closed /\ wire.request \in Requests /\ wire.request \in Answered
             /\ wire.request.call = d /\ wire.request \in RequestSet
             /\ wire.request.type \in Primary /\ RequestFits(wire.request, made)
             /\ wire.request.type \in {"COMMIT", "ROLLBACK"} => ~Unconfirmed(wire.request.type, wire)
  <2>1. /\ wire.stage = "answered" /\ wire.request.call = d
        /\ wire.request.type \in Primary /\ ErrorOf(wire) = "none"
        /\ wire.request.type \in {"COMMIT", "ROLLBACK"} => ~Unconfirmed(wire.request.type, wire)
    BY <1>3, <1>9 DEF Progress
  <2>2. Good /\ wire.request \in Answered /\ ~closed
    BY <2>1 DEF Good, Answered, OnceInv, OneOnWire
  <2>3. wire.request \in Requests /\ wire.request \in RequestSet
    BY <2>2, RequestsTyped DEF Requests, WellTyped
  <2> QED
    BY <2>1, <2>2, <2>3 DEF FitInv
<1>10. \A d \in DOMAIN made : made[d].kind \in Writes \cup {"commit", "rollback"} => made[d].kind \notin HasRows
  BY DEF Writes, HasRows
<1>11. ASSUME NEW d \in DOMAIN made, told'[d] = "ok", made[d].kind \in Writes
       PROVE  WriteOutcome(d)
  <2>1. CASE told[d] = "ok"
    BY <1>11, <2>1 DEF OutcomeInv
  <2>2. CASE told[d] # "ok"
    <3>1. /\ Good /\ wire.request.call = d /\ wire.request.type \in Primary
      BY <1>9, <1>10, <1>11, <2>2
    <3>2. IsWrite(wire.request, WriteCalls)
      BY <1>11, <3>1 DEF IsWrite, WriteCalls
    <3> QED
      BY <3>1, <3>2 DEF OutcomeInv
  <2> QED
    BY <2>1, <2>2
<1>12. ASSUME NEW d \in DOMAIN made, told'[d] = "ok", told[d] # "ok", made[d].kind \in {"commit", "rollback"}
       PROVE  EndOutcome(d)
  <2>1. /\ Good /\ wire.request.call = d /\ wire.request.type \in Primary /\ RequestFits(wire.request, made)
        /\ wire.request.type \in {"COMMIT", "ROLLBACK"} => ~Unconfirmed(wire.request.type, wire)
    BY <1>9, <1>10, <1>12
  <2>2. wire.request.type \in {"COMMIT", "ROLLBACK"}
    BY <1>12, <2>1 DEF RequestFits, TypeOf
  <2> QED
    BY <2>1, <2>2 DEF OutcomeInv
<1>13. ASSUME NEW d \in DOMAIN made, told'[d] = "ok", made[d].kind \in {"commit", "rollback"}
       PROVE  EndOutcome(d)
  <2>1. CASE told[d] = "ok"
    BY <1>13, <2>1 DEF OutcomeInv
  <2> QED
    BY <1>12, <1>13, <2>1
<1>14. ASSUME NEW d \in DOMAIN made, told'[d] = "ok", made[d].kind = "commit",
              NEW w \in WritesBefore(d), told'[w] = "ok"
       PROVE  \/ w \in server.committed
              \/ \E e \in 1..d : made[e].kind = "rollback" /\ e > w
  <2>1. w \in DOMAIN made /\ w < d /\ made[w].kind \in Writes /\ d \in Nat
    BY LenProperties DEF WritesBefore, WellTyped, CallsTyped
  <2>2. CASE told[d] = "ok" /\ told[w] = "ok"
    BY <1>14, <2>2 DEF OutcomeInv
  <2>3. CASE told[w] # "ok"
    <3>1. wire.request \in Requests /\ wire.request.call = w /\ wire.request.type \in Primary
      BY <1>9, <1>10, <1>14, <2>1, <2>3
    <3>2. told[d] = "ok"
      BY <1>9, <1>10, <1>14, <2>1, <3>1
    <3>3. Later(Requests, d)
      BY <1>10, <1>14, <3>2 DEF OrderInv
    <3>4. w > d
      BY <3>1, <3>3 DEF Later
    <3> QED
      BY <2>1, <3>4, <1>3 DEF Calls
  <2>4. CASE told[d] # "ok" /\ told[w] = "ok"
    <3>1. /\ Good /\ ~closed /\ wire.request \in Answered /\ wire.request.call = d /\ wire.request.type \in Primary
      BY <1>9, <1>10, <1>14, <2>4
    <3>2. EndOutcome(d) /\ WriteOutcome(w)
      BY <1>11, <1>12, <1>14, <2>1, <2>4
    <3>3. ~Over
      BY <3>1 DEF Over, Good
    <3>4. w \in server.committed \/ RolledBackFor(w)
      BY <1>14, <3>2, <3>3 DEF EndOutcome, WriteOutcome, Kept
    <3>5. ASSUME RolledBackFor(w)
          PROVE  \E e \in 1..d : made[e].kind = "rollback" /\ e > w
      <4>1. PICK e \in DOMAIN made : made[e].kind = "rollback" /\ e > w /\ Later(Answered, e - 1)
        BY <3>5 DEF RolledBackFor
      <4>2. e \in Nat /\ e >= 1
        BY LenProperties DEF WellTyped, CallsTyped
      <4>3. d > e - 1
        BY <3>1, <4>1 DEF Later
      <4>4. e \in 1..d
        BY <2>1, <4>2, <4>3
      <4> QED
        BY <4>1, <4>4
    <3> QED
      BY <3>4, <3>5
  <2> QED
    BY <2>2, <2>3, <2>4
<1>15. ASSUME Good', IsWrite(wire.request, WriteCalls)'
       PROVE  WriteOutcome(wire.request.call)'
  <2>1. Good /\ wire' = wire /\ IsWrite(wire.request, WriteCalls)
    BY <1>1, <1>2, <1>15 DEF IsWrite
  <2>2. WriteOutcome(wire.request.call)
    BY <2>1 DEF OutcomeInv
  <2> QED
    BY <1>2, <1>6, <2>1, <2>2 DEF WriteOutcome, Kept, RolledBackFor
<1>16. ASSUME Good', wire'.request.type \in {"COMMIT", "ROLLBACK"}, ~Unconfirmed(wire'.request.type, wire')
       PROVE  EndOutcome(wire.request.call)'
  <2>1. Good /\ wire' = wire
    BY <1>1, <1>16
  <2>2. EndOutcome(wire.request.call)
    BY <1>16, <2>1 DEF OutcomeInv
  <2> QED
    BY <1>2, <2>1, <2>2 DEF EndOutcome, WritesBefore
<1>17. \A d \in DOMAIN made' : told'[d] = "ok" =>
         /\ made'[d].kind \in Writes => WriteOutcome(d)'
         /\ made'[d].kind \in {"commit", "rollback"} => EndOutcome(d)'
         /\ made'[d].kind = "commit" => \A w \in WritesBefore(d)' : told'[w] = "ok" =>
              \/ w \in server'.committed
              \/ \E e \in 1..d : made'[e].kind = "rollback" /\ e > w
  BY <1>2, <1>7, <1>8, <1>11, <1>13, <1>14
<1> QED
  BY <1>15, <1>16, <1>17 DEF OutcomeInv

\* What calls are told is what has become of their writes, whatever the step.
LEMMA OutcomeStep ==
  ASSUME WellTyped, FitInv, OnceInv, OrderInv, OutcomeInv, [Next]_vars
  PROVE  OutcomeInv'
<1>1. \A d \in DOMAIN made : d \in Calls
  BY LenProperties, SessionAssumption DEF WellTyped, CallsTyped, Calls
<1>2. CASE Elsewhere
  BY <1>2 DEF Elsewhere, OutcomeInv, WriteOutcome, EndOutcome, Kept, RolledBackFor, Over, Good, ErrorOf,
              Unserved, Answered, WritesBefore, WriteCalls, IsWrite, Unconfirmed
<1>3. ASSUME NEW kind \in Kinds, Call(kind)
      PROVE  OutcomeInv'
  <2> DEFINE c == Len(made) + 1
             r == NewRequest(kind)
  <2>1. /\ c \in Calls /\ c \notin DOMAIN made /\ DOMAIN made' = DOMAIN made \cup {c}
        /\ \A d \in DOMAIN made : made'[d] = made[d]
        /\ DOMAIN made = 1..Len(made) /\ Len(made) \in Nat
        /\ r \in RequestSet /\ r.call = c
        /\ queue' = Append(queue, r) \/ queue' = queue
    BY <1>3, CallEffect
  <2>2. \A d \in DOMAIN made : d \in Calls /\ d < c
    BY <1>3, NewIsLater
  <2>3. UNCHANGED <<wire, server, told, closed>>
    BY <1>3 DEF Call
  <2>4. Unserved' = Unserved /\ Answered' = Answered /\ (Over => Over') /\ (Good' <=> Good)
    BY <2>3 DEF Unserved, Answered, Over, Good, ErrorOf
  <2>5. Range(queue') \subseteq Range(queue) \cup {r}
    <3> HIDE DEF c, r
    <3>1. Range(Append(queue, r)) = Range(queue) \cup {r}
      BY <2>1, AppendRange DEF WellTyped, TransportTyped
    <3> QED
      BY <2>1, <3>1
  <2>6. \A d \in DOMAIN made : WritesBefore(d)' = WritesBefore(d)
    <3>1. \A d \in DOMAIN made : 1..(d - 1) \subseteq DOMAIN made
      BY <2>1
    <3> QED
      BY <2>1, <3>1 DEF WritesBefore
  <2> HIDE DEF c, r
  <2>7. told[c] # "ok"
    BY <2>1 DEF FitInv
  <2>8. \A w : RolledBackFor(w) => RolledBackFor(w)'
    <3>1. \A d \in DOMAIN made : Later(Range(queue) \cup Unserved, d) => Later(Range(queue') \cup Unserved', d)
      BY <2>1, <2>2, <2>4, <2>5 DEF Later
    <3> QED
      BY <2>1, <2>4, <3>1, RolledBackKept
  <2>9. \A w : Kept(w) => Kept(w)'
    BY <2>3, <2>4, <2>8 DEF Kept
  <2>10. \A d \in DOMAIN made : (WriteOutcome(d) => WriteOutcome(d)') /\ (EndOutcome(d) => EndOutcome(d)')
    BY <2>1, <2>3, <2>6, <2>9 DEF WriteOutcome, EndOutcome
  <2>11. \A d \in DOMAIN made' : told'[d] = "ok" =>
           /\ made'[d].kind \in Writes => WriteOutcome(d)'
           /\ made'[d].kind \in {"commit", "rollback"} => EndOutcome(d)'
           /\ made'[d].kind = "commit" => \A w \in WritesBefore(d)' : told'[w] = "ok" =>
                \/ w \in server'.committed
                \/ \E e \in 1..d : made'[e].kind = "rollback" /\ e > w
    <3>1. SUFFICES ASSUME NEW d \in DOMAIN made', told'[d] = "ok"
                   PROVE  /\ made'[d].kind \in Writes => WriteOutcome(d)'
                          /\ made'[d].kind \in {"commit", "rollback"} => EndOutcome(d)'
                          /\ made'[d].kind = "commit" => \A w \in WritesBefore(d)' : told'[w] = "ok" =>
                               \/ w \in server'.committed
                               \/ \E e \in 1..d : made'[e].kind = "rollback" /\ e > w
      OBVIOUS
    <3>2. d \in DOMAIN made /\ told[d] = "ok" /\ made'[d] = made[d]
      BY <2>1, <2>3, <2>7, <3>1
    <3>3. 1..d \subseteq DOMAIN made
      BY <2>1, <3>2
    <3>4. /\ made[d].kind \in Writes => WriteOutcome(d)
          /\ made[d].kind \in {"commit", "rollback"} => EndOutcome(d)
          /\ made[d].kind = "commit" => \A w \in WritesBefore(d) : told[w] = "ok" =>
               \/ w \in server.committed
               \/ \E e \in 1..d : made[e].kind = "rollback" /\ e > w
      BY <3>2 DEF OutcomeInv
    <3> QED
      BY <2>1, <2>3, <2>6, <2>10, <3>2, <3>3, <3>4
  <2>12. Good => /\ wire.request.call \in DOMAIN made
                 /\ IsWrite(wire.request, WriteCalls') => IsWrite(wire.request, WriteCalls)
    <3>1. Good => wire.request \in Requests
      BY RequestsTyped DEF Good, Answered, Requests, WellTyped
    <3>2. Good => wire.request.call \in DOMAIN made
      BY <3>1 DEF FitInv, RequestFits
    <3> QED
      BY <2>1, <3>2 DEF IsWrite, WriteCalls
  <2>13. Good' /\ IsWrite(wire.request, WriteCalls)' => WriteOutcome(wire.request.call)'
    <3>1. SUFFICES ASSUME Good, IsWrite(wire.request, WriteCalls) PROVE WriteOutcome(wire.request.call)'
      BY <2>3, <2>4, <2>12
    <3> DEFINE w == wire.request.call
    <3>2. WriteOutcome(w) /\ w \in DOMAIN made /\ w' = w
      BY <2>3, <2>12, <3>1 DEF OutcomeInv
    <3> HIDE DEF w
    <3>3. WriteOutcome(w)'
      BY <2>1, <2>3, <2>9, <3>2 DEF WriteOutcome, Kept, RolledBackFor
    <3> QED
      BY <3>3 DEF w
  <2>14. Good' /\ wire'.request.type \in {"COMMIT", "ROLLBACK"} /\ ~Unconfirmed(wire'.request.type, wire') =>
           EndOutcome(wire.request.call)'
    <3>1. SUFFICES ASSUME Good, wire.request.type \in {"COMMIT", "ROLLBACK"}, ~Unconfirmed(wire.request.type, wire)
                   PROVE  EndOutcome(wire.request.call)'
      BY <2>3, <2>4
    <3>2. EndOutcome(wire.request.call) /\ wire.request.call \in DOMAIN made
      BY <2>12, <3>1 DEF OutcomeInv
    <3>3. WritesBefore(wire.request.call)' = WritesBefore(wire.request.call)
      <4>1. 1..(wire.request.call - 1) \subseteq DOMAIN made
        BY <2>1, <3>2
      <4> QED
        BY <2>1, <2>3, <4>1 DEF WritesBefore
    <3> QED
      BY <2>3, <3>2, <3>3 DEF EndOutcome
  <2> QED
    BY <2>11, <2>13, <2>14 DEF OutcomeInv
<1>4. ASSUME UNCHANGED <<made, told>>, ~Good', server'.committed = server.committed,
             server'.uncommitted \subseteq server.uncommitted,
             \A w : Kept(w) => Kept(w)'
      PROVE  OutcomeInv'
  <2>1. \A d : WritesBefore(d)' = WritesBefore(d)
    BY <1>4 DEF WritesBefore
  <2>2. \A d : (WriteOutcome(d) => WriteOutcome(d)') /\ (EndOutcome(d) => EndOutcome(d)')
    BY <1>4, <2>1 DEF WriteOutcome, EndOutcome
  <2> QED
    BY <1>4, <2>1, <2>2 DEF OutcomeInv
<1>5. CASE Send /\ UNCHANGED resultVars
  <2>1. queue # <<>> /\ queue' = Tail(queue) /\ server' = server /\ closed' = closed
    BY <1>5, SendEffect DEF Send
  <2>2. /\ OnWire = {} /\ Unserved = {} /\ Answered = {} /\ Unserved' \subseteq {Head(queue)}
        /\ Answered' = {} /\ ~Good'
    BY <1>5, WireOf
  <2>3. Range(queue) = {Head(queue)} \cup Range(Tail(queue))
    BY <2>1, TailRange DEF WellTyped, TransportTyped
  <2>4. made' = made /\ told' = told
    BY <1>5 DEF resultVars
  <2>5. Over => Over'
    <3>1. wire.stage # "answered"
      BY <2>2 DEF Answered
    <3> QED
      BY <2>1, <3>1 DEF Over
  <2>6. \A w : RolledBackFor(w) => RolledBackFor(w)'
    <3>1. \A d \in DOMAIN made : Later(Range(queue) \cup Unserved, d) => Later(Range(queue') \cup Unserved', d)
      BY <2>1, <2>2, <2>3 DEF Later
    <3> QED
      BY <2>2, <2>4, <3>1, RolledBackKept
  <2>7. \A w : Kept(w) => Kept(w)'
    BY <2>1, <2>5, <2>6 DEF Kept
  <2> QED
    BY <1>4, <2>1, <2>2, <2>4, <2>7
<1>6. ASSUME NEW c \in Calls, NEW q \in Seq(RequestSet), NEW t \in Seq(Ticks), Progress(c, q, t)
      PROVE  OutcomeInv'
  BY <1>6, OutcomeMoved
<1>7. CASE ServerStep
  <2>1. wire.stage = "sent" /\ Replied /\ ServerOnly
    BY <1>7, ServerEffect
  <2> DEFINE r == wire.request
  <2>2. /\ \A w : Kept(w) => Kept(w)'
        /\ server.committed \subseteq server'.committed
        /\ made' = made /\ told' = told /\ WriteCalls' = WriteCalls
    BY <2>1, KeptServed
  <2>3. OnWire = {r} /\ r' = r /\ r \in Requests
    BY <2>1, WireOf DEF Replied, Requests
  <2>4. Good' => /\ IsWrite(r, WriteCalls) => WriteOutcome(r.call)'
                 /\ r.type \in {"COMMIT", "ROLLBACK"} /\ ~Unconfirmed(r.type, wire') => server'.uncommitted = {}
    BY <2>1, ReplySays
  <2>5. \A d : WritesBefore(d)' = WritesBefore(d)
    BY <2>2 DEF WritesBefore
  <2>6. \A d : WriteOutcome(d) => WriteOutcome(d)'
    BY <2>2 DEF WriteOutcome
  <2>7. \A d \in DOMAIN made : told[d] = "ok" /\ made[d].kind \in {"commit", "rollback"} => EndOutcome(d)'
    <3>1. SUFFICES ASSUME NEW d \in DOMAIN made, told[d] = "ok", made[d].kind \in {"commit", "rollback"}
                   PROVE  EndOutcome(d)'
      OBVIOUS
    <3>2. EndOutcome(d)
      BY <3>1 DEF OutcomeInv
    <3>3. made[d].kind \notin HasRows
      BY <3>1 DEF HasRows
    <3>4. Later(Requests, d)
      BY <3>1, <3>3 DEF OrderInv
    <3>5. IsWrite(r, WriteCalls) => r.call > d
      BY <2>3, <3>4 DEF Later, IsWrite
    <3>6. IsWrite(r, WriteCalls) => r.call \notin WritesBefore(d)
      <4>1. d \in Nat /\ \A w \in WritesBefore(d) : w \in Nat /\ w < d
        BY <1>1 DEF Calls, WritesBefore
      <4>2. IsWrite(r, WriteCalls) => r.call \in Nat
        BY <1>1 DEF IsWrite, WriteCalls, Calls
      <4> QED
        BY <3>5, <4>1, <4>2
    <3>7. server'.uncommitted \subseteq
            server.uncommitted \cup (IF IsWrite(r, WriteCalls) THEN {r.call} ELSE {})
      BY <2>1 DEF Replied, WritesAfter, Untouched, Dropped, CommittedWith, Joined
    <3> HIDE DEF r
    <3> QED
      BY <2>5, <3>2, <3>6, <3>7 DEF EndOutcome
  <2>8. \A d \in DOMAIN made' : told'[d] = "ok" =>
           /\ made'[d].kind \in Writes => WriteOutcome(d)'
           /\ made'[d].kind \in {"commit", "rollback"} => EndOutcome(d)'
           /\ made'[d].kind = "commit" => \A w \in WritesBefore(d)' : told'[w] = "ok" =>
                \/ w \in server'.committed
                \/ \E e \in 1..d : made'[e].kind = "rollback" /\ e > w
    BY <2>2, <2>5, <2>6, <2>7 DEF OutcomeInv
  <2>9. Good' /\ IsWrite(r, WriteCalls)' => WriteOutcome(r.call)'
    <3>1. IsWrite(r, WriteCalls)' => IsWrite(r, WriteCalls)
      BY <2>2, <2>3 DEF IsWrite
    <3> QED
      BY <2>4, <3>1
  <2>10. Good' /\ r'.type \in {"COMMIT", "ROLLBACK"} /\ ~Unconfirmed(r'.type, wire') => EndOutcome(r.call)'
    BY <2>3, <2>4 DEF EndOutcome
  <2> QED
    BY <2>8, <2>9, <2>10 DEF OutcomeInv
<1>8. CASE Break /\ UNCHANGED resultVars
  <2>1. ~Good' /\ closed' /\ made' = made /\ told' = told
    BY <1>8, WireOf DEF Break, resultVars
  <2>2. server'.committed = server.committed /\ server'.uncommitted \subseteq server.uncommitted
    BY <1>8, EndFields DEF Break, WellTyped, SessionTyped
  <2>3. \A w : Kept(w)'
    BY <2>1 DEF Kept, Over
  <2> QED
    BY <1>4, <2>1, <2>2, <2>3
<1>9. CASE Lose /\ UNCHANGED resultVars
  <2>1. closed /\ closed' = closed /\ server' = server /\ ~Good' /\ made' = made /\ told' = told
    BY <1>9, WireOf DEF Lose, Leaves, resultVars
  <2>2. \A w : Kept(w)'
    BY <2>1 DEF Kept, Over
  <2> QED
    BY <1>4, <2>1, <2>2
<1> QED
  BY <1>2, <1>3, <1>5, <1>6, <1>7, <1>8, <1>9, StepCases

-----------------------------------------------------------------------------
(* The theorems *)

\* At first every request fits, as there is none.
LEMMA FitInit ==
  Init => FitInv
<1> SUFFICES ASSUME Init PROVE FitInv
  OBVIOUS
<1>1. /\ queue = <<>> /\ OnWire = {} /\ ticks = <<>> /\ server.committed = {} /\ server.uncommitted = {}
      /\ \A c \in Calls : told[c] = "none" /\ work[c].at = "idle"
  BY DEF Init, SessionInit, OnWire, Idle
<1>2. Range(queue) = {} /\ Range(ticks) = {}
  <2>1. DOMAIN queue = 1..0 /\ DOMAIN ticks = 1..0
    BY <1>1
  <2> QED
    BY <2>1 DEF Range
<1> QED
  BY <1>1, <1>2 DEF FitInv, Requests

\* The client's calls: their types, their requests and ticks.
CallsInv == WellTyped /\ FitInv /\ OnceInv

\* A call has one request or tick on its way until it has called back.
LEMMA CallsAlways ==
  Spec => []CallsInv
<1>1. Init => CallsInv
  BY TypedInit, FitInit, OnceInit DEF CallsInv
<1>2. CallsInv /\ [Next]_vars => CallsInv'
  BY TypedStep, FitStep, OnceStep DEF CallsInv
<1> QED
  BY <1>1, <1>2, PTL DEF Spec

\* The order of requests, what they commit and what is told of it.
WritesInv == OrderInv /\ AllowedInv /\ OutcomeInv

\* Requests are in order, and nothing is committed or reported that should not be.
LEMMA WritesAlways ==
  Spec => []WritesInv
<1>1. Init => WritesInv
  BY OrderInit, AllowedInit, OutcomeInit DEF WritesInv
<1>2. CallsInv /\ WritesInv /\ [Next]_vars => WritesInv'
  BY OrderStep, AllowedStep, OutcomeStep DEF CallsInv, WritesInv
<1> QED
  BY <1>1, <1>2, CallsAlways, PTL DEF Spec

\* The task that is lost is chosen when the connection ends, and is lost once.
LossInv ==
  /\ losing \in Nat /\ (~closed => losing = 0)
  /\ ~closed \/ losing # 0 => lost = {}
  /\ lost = {} \/ \E r \in RequestSet : lost = {r}

\* No step loses a second task.
LEMMA LossStep ==
  ASSUME WellTyped, OnceInv, LossInv, [Next]_vars
  PROVE  LossInv'
<1>1. CASE UNCHANGED <<closed, losing, lost>>
  BY <1>1 DEF LossInv
<1>2. \A n : LosingAfter(n) \subseteq Nat
  <2>1. Len(queue) \in Nat
    BY DEF WellTyped, TransportTyped
  <2> QED
    BY <2>1 DEF LosingAfter
<1>3. CASE Answer
  <2>1. ~closed /\ lost' = lost
    BY <1>3 DEF Answer, Receive, OnceInv, OneOnWire
  <2>2. closed' = (closed \/ ErrorOf(wire) = "fatal")
        /\ losing' \in IF ErrorOf(wire) = "fatal" THEN LosingAfter(1) ELSE {losing}
    BY <1>3 DEF Answer, Receive
  <2> QED
    BY <1>2, <2>1, <2>2 DEF LossInv
<1>4. CASE Break
  <2>1. ~closed /\ closed' = TRUE /\ lost' = lost /\ (losing' = 0 \/ losing' \in LosingAfter(0))
    BY <1>4 DEF Break
  <2> QED
    BY <1>2, <2>1 DEF LossInv
<1>5. CASE Lose
  <2>1. /\ losing = 1 /\ losing' = losing - 1 /\ closed' = closed /\ closed
        /\ queue # <<>> /\ lost' = lost \cup {Head(queue)}
    BY <1>5 DEF Lose, Leaves
  <2>2. lost = {} /\ Head(queue) \in RequestSet
    BY <2>1, TailRange DEF LossInv, WellTyped, TransportTyped
  <2> QED
    BY <2>1, <2>2 DEF LossInv
<1>6. CASE Fail
  <2>1. closed' = closed /\ lost' = lost
    BY <1>6 DEF Fail
  <2>2. losing' = losing \/ (closed /\ losing' = (IF losing = 0 THEN 0 ELSE losing - 1))
    BY <1>6 DEF Fail, Leaves
  <2>3. losing' \in Nat /\ (losing = 0 => losing' = 0)
    BY <2>2 DEF LossInv
  <2> QED
    BY <2>1, <2>3 DEF LossInv
<1>7. UNCHANGED vars \/ UserStep => UNCHANGED <<closed, losing, lost>>
  <2>1. (\E k \in Keys, v \in Values : SetClientInfo(k, v)) \/ (\E b \in BOOLEAN : SetAutoCommit(b)) =>
          UNCHANGED <<closed, losing, lost>>
    BY DEF SetClientInfo, SetAutoCommit, transportVars, lossVars
  <2>2. (\E kind \in scenario.kinds : Call(kind)) => UNCHANGED <<closed, losing, lost>>
    BY DEF Call, lossVars
  <2> QED
    BY <2>1, <2>2 DEF vars, transportVars, lossVars, UserStep
<1>8. Send \/ QueueNext \/ RunTick \/ (\E c \in Calls : FetchOn(c)) => UNCHANGED <<closed, losing, lost>>
  BY DEF Send, QueueNext, RunTick, FetchOn, lossVars
<1>9. ServerStep => UNCHANGED <<closed, losing, lost>>
  BY DEF ServerStep, ServeError, ServeCommit, Serve, lossVars
<1> QED
  BY <1>1, <1>3, <1>4, <1>5, <1>6, <1>7, <1>8, <1>9 DEF Next, ClientStep

\* However the connection ends, and however many requests wait: at most one of them is never answered.
THEOREM AtMostOneLost == Spec => []LosesOne
<1>1. Init => LossInv
  BY DEF Init, SessionInit, LossInv
<1>2. CallsInv /\ LossInv /\ [Next]_vars => LossInv'
  BY LossStep DEF CallsInv
<1>3. LossInv => LosesOne
  <2>1. ASSUME NEW r, lost = {r} PROVE Cardinality(lost) = 1
    BY <2>1, FS_Singleton, Zenon
  <2>2. lost = {} => Cardinality(lost) = 0
    BY FS_EmptySet
  <2>3. LossInv => Cardinality(lost) \in {0, 1}
    BY <2>1, <2>2 DEF LossInv
  <2> QED
    BY <2>3, SMT DEF LosesOne
<1> QED
  BY <1>1, <1>2, <1>3, CallsAlways, PTL DEF Spec

\* Every step of a session is one of the topology, or leaves it alone.
LEMMA TopologySteps ==
  ASSUME WellTyped, [Next]_vars
  PROVE  [TopologyNext]_topologyVars
<1>1. scenario.updates \subseteq UpdateLists
  BY SessionAssumption DEF WellTyped, SessionTyped, ScenarioOK
<1>2. Answer => TopologyNext
  BY <1>1 DEF Answer, Receive, TopologyNext
<1>3. UNCHANGED vars \/ UserStep \/ Break => UNCHANGED topologyVars
  <2>1. (\E k \in Keys, v \in Values : SetClientInfo(k, v)) \/ (\E b \in BOOLEAN : SetAutoCommit(b)) =>
          UNCHANGED topologyVars
    BY DEF SetClientInfo, SetAutoCommit
  <2>2. (\E kind \in scenario.kinds : Call(kind)) => UNCHANGED topologyVars
    BY DEF Call, sessionVars
  <2> QED
    BY <2>1, <2>2 DEF vars, sessionVars, UserStep, Break
<1>4. Send \/ QueueNext \/ Lose \/ RunTick \/ Fail \/ (\E c \in Calls : FetchOn(c)) => UNCHANGED topologyVars
  BY DEF Send, QueueNext, Lose, RunTick, Fail, FetchOn, sessionVars
<1>5. ServerStep => UNCHANGED topologyVars
  BY DEF ServerStep, ServeError, ServeCommit, Serve, sessionVars
<1> QED
  BY <1>2, <1>3, <1>4, <1>5 DEF Next, ClientStep

\* A session keeps the topology as module Topology says: receive() is the only one to update it,
\* with what a reply carries.
THEOREM SessionTopology == Spec => TopologySpec
<1>1. Init => TopologyInit
  BY DEF Init, SessionInit
<1>2. CallsInv /\ [Next]_vars => [TopologyNext]_topologyVars
  BY TopologySteps DEF CallsInv
<1> QED
  BY <1>1, <1>2, CallsAlways, PTL DEF Spec, TopologySpec

\* addOrUpdateTopology, among the replies of a session: the locations are those of the last
\* update that could be used.
THEOREM SessionLocations == Spec => []LocationsFollowServer
BY SessionTopology, FollowsServer, PTL

\* The variables of the client are well typed, whatever is called and whatever the server
\* answers, and no callback is called twice.
THEOREM ResultsTypeCorrect == Spec => []TypeOK
<1>1. CallsInv /\ TopologyTypeOK => TypeOK
  <2>1. SUFFICES ASSUME CallsInv, TopologyTypeOK PROVE TypeOK
    OBVIOUS
  <2>2. told \in [Calls -> {"none", "ok", "error"}]
    <3>1. told \in [Calls -> {"none", "ok", "error", "twice"}] /\ \A c \in Calls : told[c] # "twice"
      BY <2>1 DEF CallsInv, WellTyped, CallsTyped, OnceInv, OnceEach, Once
    <3> QED
      BY <3>1
  <2>3. \A i \in DOMAIN queue : queue[i].type \in MessageTypes
    <3>1. queue \in Seq(RequestSet)
      BY <2>1 DEF CallsInv, WellTyped, TransportTyped
    <3>2. \A i \in DOMAIN queue : queue[i] \in RequestSet
      BY <3>1, ElementOfSeq, LenProperties
    <3> QED
      BY <3>2 DEF RequestSet
  <2>4. SessionTyped
    BY <2>1 DEF CallsInv, WellTyped
  <2> QED
    BY <2>1, <2>2, <2>3, <2>4 DEF TypeOK, SessionTyped, Settings, TxKinds
<1>2. Spec => []TopologyTypeOK
  BY SessionTopology, TypeCorrect, PTL
<1> QED
  BY <1>1, <1>2, CallsAlways, PTL

\* Result.js, Client.js: the callback of a call is called at most once, however its requests,
\* its ticks and the closing of its result sets interleave with those of the other calls, and
\* whatever fails.
THEOREM OneCallback == Spec => [](\A c \in Calls : told[c] # "twice")
<1>1. CallsInv => \A c \in Calls : told[c] # "twice"
  BY DEF CallsInv, OnceInv, OnceEach, Once
<1> QED
  BY <1>1, CallsAlways, PTL

\* ClientInfo.js, Connection.send and receive: between two requests client and server agree on
\* the transaction and the context, and on the session variables that are not flagged.  A packet
\* that is refused as too large loses the variables that it was to carry: that is the one way in
\* which they differ.
THEOREM SessionMirrored ==
  /\ Spec => [](Lossless => MirrorsServer)
  /\ Spec => [](wire = NoPacket /\ ~closed => txKind = server.txn /\ context = server.context)
<1>1. Init => MirrorInv
  BY MirrorInit
<1>2. CallsInv /\ MirrorInv /\ [Next]_vars => MirrorInv'
  BY MirrorStep DEF CallsInv
<1>3. MirrorInv => (Lossless => MirrorsServer)
  BY DEF MirrorInv, MirrorsServer, NoPacket
<1>4. MirrorInv => (wire = NoPacket /\ ~closed => txKind = server.txn /\ context = server.context)
  BY DEF MirrorInv, NoPacket
<1> QED
  BY <1>1, <1>2, <1>3, <1>4, CallsAlways, PTL DEF Spec

\* Client.commit, rollback and setAutoCommit: a write is committed only when user code has asked
\* for it, and what the callbacks of writes, of commit() and of rollback() report is what has
\* become of the writes, for any number of calls.
THEOREM WritesCommitted == Spec => []CommitsAsAsked
<1>1. CallsInv /\ WritesInv => CommitsAsAsked
  <2>1. SUFFICES ASSUME CallsInv, WritesInv PROVE CommitsAsAsked
    OBVIOUS
  <2>2. DOMAIN made = 1..Len(made)
    BY <2>1, LenProperties DEF CallsInv, WellTyped, CallsTyped
  <2>3. server.committed \subseteq allowed
    BY <2>1 DEF WritesInv, AllowedInv
  <2>4. \A c \in DOMAIN made : told[c] = "ok" =>
          /\ made[c].kind \in Writes /\ made[c].auto => c \in server.committed
          /\ made[c].kind \in {"commit", "rollback"} => WritesBefore(c) \cap server.uncommitted = {}
          /\ made[c].kind = "commit" => \A w \in WritesBefore(c) : told[w] = "ok" =>
               \/ w \in server.committed
               \/ \E d \in 1..c : made[d].kind = "rollback" /\ d > w
    BY <2>1 DEF WritesInv, OutcomeInv, WriteOutcome, EndOutcome
  <2> QED
    BY <2>2, <2>3, <2>4 DEF CommitsAsAsked
<1> QED
  BY <1>1, CallsAlways, WritesAlways, PTL
===============================================================================
