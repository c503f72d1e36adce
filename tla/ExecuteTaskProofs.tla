-------------------------- MODULE ExecuteTaskProofs --------------------------
(***************************************************************************)
(* Theorems about the execution of a prepared statement, for any rows,     *)
(* LOBs and packet sizes.  They rest on one invariant: what the server has *)
(* received, what is under way and what is packed, put together, are the   *)
(* first tokens of the batch, up to the position of the Writer.  After a   *)
(* break the task is followed as if the server still held what it has lost *)
(* track of; what is stored is then nothing or everything.                 *)
(***************************************************************************)
EXTENDS ExecuteTask, SequenceTheorems, FiniteSetTheorems, WellFoundedInduction, TLAPS

\* The hypotheses.  A stream that fails while another one is read lets the task go on after it has
\* called back or rolled back; a row larger than a packet ends the task without a ROLLBACK.
FailsInTurn == \A b \in Batches : "other" \notin b.faults
RowsFit == \A b \in Batches : \A r \in DOMAIN b.rows : b.rows[r].size <= PacketSizeLimit

-----------------------------------------------------------------------------
(* The inductive invariant *)

\* The sequence q is in order.
Ordered(q) == \A i, j \in DOMAIN q : i < j => Precedes(q[i], q[j])

\* It holds the tokens before p, in order.
UpTo(q, p) == Ordered(q) /\ Range(q) = {y \in Tokens : Precedes(y, p)}

\* It holds the tokens up to one of its own.
Orderly(q) ==
  /\ Ordered(q)
  /\ \A i \in DOMAIN q : \A y \in Tokens : Precedes(y, q[i]) => y \in Range(q)

\* What the Writer packs next.
Position(t) ==
  IF t.lobs = <<>> THEN RowToken(t.row + 1) ELSE Data(Lob(t), UnitsRead(t, Lob(t)) + 1)

\* The LOBs that are left are the last ones of the row.
LastLobs(t) ==
  t.lobs # <<>> =>
    /\ t.row > 0 /\ Len(t.lobs) <= Len(Rows[t.row].lobs)
    /\ \A i \in DOMAIN t.lobs : t.lobs[i] = Len(Rows[t.row].lobs) - Len(t.lobs) + i

\* A stream has no more than its LOB, and nothing was read of one behind the position.
StreamInv(t) ==
  \A k \in LobIds : /\ t.streams[k].ended => t.streams[k].left = 0
                    /\ t.streams[k].left + t.streams[k].buffered <= Length(k)
                    /\ Precedes(Position(t), Data(k, 1)) => UnitsRead(t, k) = 0

Turns(t) ==
  /\ t \in Task
  /\ t.next = t.row + 1 /\ t.row <= Len(Rows)
  /\ LastLobs(t) /\ StreamInv(t)

NoneFailed(t) == \A k \in LobIds : ~t.streams[k].errored

\* The transaction before the task ends: nothing is committed; under auto-commit nothing is in the
\* server's transaction until the task has opened one of its own.
Uncommitted(t, d, x) ==
  /\ d = <<>>
  /\ t.autoCommit => AutoCommit /\ x = <<>>
  /\ t.needFinalize => AutoCommit /\ ~t.autoCommit
  /\ AutoCommit => t.autoCommit \/ t.needFinalize

\* The tokens fit into n bytes, those of LOBs into a packet of PacketSize.
Fits(q, n) ==
  /\ SizeUpTo(q)[Len(q)] <= n
  /\ \A i \in DOMAIN q : IsData(q[i]) => SizeUpTo(q)[i] <= PacketSize

\* What is in the packet that is being made.
Kept(t, mode) == IF mode = "parameters" THEN t.args \o t.buffers ELSE t.buffers
KeptBytes(t, mode) == IF mode = "parameters" THEN t.argBytes + t.bytes ELSE t.bytes

Limit(type) == IF type = "writelob" THEN PacketSize ELSE PacketSizeLimit

\* A packet is being made for LOB data of the row in hand.
Packing(t, s, mode) ==
  /\ NoneFailed(t) /\ (t.params <=> mode = "parameters")
  /\ t.params => t.row > 0 /\ t.buffers # <<>>
  /\ mode = "writelob" => ~t.autoCommit
  /\ UpTo(s \o Kept(t, mode), Position(t))
  /\ t.room + KeptBytes(t, mode) = PacketSize
  /\ KeptBytes(t, mode) <= Limit(mode)
  /\ Fits(Kept(t, mode), KeptBytes(t, mode))

\* Nothing of the task is pending.
NoCall(t) == t.attached = "none" /\ t.immediates = <<>>
NoRequest(t) == t.requests = <<>> /\ t.receive = "none"
NotCalled(t) == t.started /\ t.calls = 0 /\ t.outcome = "none"

\* The Writer holds a row or nothing, when a packet has been sent or is begun.
RowInHand(t) ==
  /\ NoneFailed(t)
  /\ t.params => /\ t.row > 0 /\ t.buffers # <<>>
                 /\ t.bytes = Rows[t.row].size /\ Fits(t.buffers, t.bytes)
  /\ ~t.params => t.buffers = <<>> /\ (t.lobs # <<>> => ~t.autoCommit)

Starts(t, s) ==
  /\ ~t.started /\ t.calls = 0 /\ t.outcome = "none" /\ NoCall(t) /\ NoRequest(t)
  /\ ~t.params /\ t.row = 0 /\ t.lobs = <<>> /\ t.buffers = <<>> /\ NoneFailed(t) /\ s = <<>>

Reading(t, s) ==
  /\ NotCalled(t) /\ NoRequest(t) /\ t.immediates = <<>>
  /\ t.attached \in Modes /\ t.lobs # <<>> /\ t.room > 0 /\ Packing(t, s, t.attached)

Defers(t, s) ==
  /\ NotCalled(t) /\ NoRequest(t) /\ t.attached = "none"
  /\ \E c \in Call : /\ t.immediates = <<c>>
                     /\ IF c.step = "fail" THEN Orderly(s) ELSE Packing(t, s, c.mode)

\* A request that ends the transaction, and one with rows or LOB data.
Finishing(t, s, r) ==
  /\ r.type \in {"commit", "rollback"}
  /\ t.needFinalize /\ Orderly(s) /\ (r.type = "commit" => Range(s) = Tokens)
  /\ ~r.autoCommit /\ r.data = <<>> /\ r.size = 0

Sending(t, s, r) ==
  /\ r.type \in {"execute", "writelob"}
  /\ RowInHand(t) /\ UpTo(s \o r.data \o t.buffers, Position(t))
  /\ r.size <= Limit(r.type) /\ Fits(r.data, r.size)
  /\ r.autoCommit = t.autoCommit
  /\ r.autoCommit => /\ r.type = "execute" /\ ~t.params /\ t.lobs = <<>> /\ t.row = Len(Rows)

Waits(t, s) ==
  /\ NotCalled(t) /\ NoCall(t)
  /\ \E r \in Range(t.requests) : /\ t.requests = <<r>> /\ t.receive = r.type
                                  /\ Finishing(t, s, r) \/ Sending(t, s, r)

Ends(t, d, x) ==
  /\ t.started /\ t.calls = 1 /\ NoCall(t) /\ NoRequest(t)
  /\ Orderly(d \o x) /\ t.outcome \in {"ok", "error"}
  /\ t.outcome = "ok" => Range(d \o x) = Tokens
  /\ t.outcome = "error" \/ ~AutoCommit => d = <<>>
  /\ t.outcome = "ok" /\ AutoCommit => x = <<>>
  /\ "finalize" \notin Faults /\ RowsFit /\ AutoCommit => x = <<>>

TaskInv(t, d, x) ==
  /\ Turns(t)
  /\ \/ /\ Uncommitted(t, d, x)
        /\ Starts(t, d \o x) \/ Reading(t, d \o x) \/ Defers(t, d \o x) \/ Waits(t, d \o x)
     \/ Ends(t, d, x)

\* The task, if the server holds d and x.
InvAt(d, x) == batch \in Batches /\ d \in Seq(Tokens) /\ x \in Seq(Tokens) /\ TaskInv(task, d, x)

\* What is stored when the connection has broken: nothing or everything.
Settled(d) == d = <<>> \/ (AutoCommit /\ Orderly(d) /\ Range(d) = Tokens)

\* After a break the task goes on as if the server still held what it has given up, but it never
\* tells of a success.
CutOff ==
  /\ tx = <<>> /\ Settled(durable) /\ task.outcome # "ok"
  /\ \E d, x \in Seq(Tokens) : TaskInv(task, d, x)

Inv ==
  /\ batch \in Batches /\ durable \in Seq(Tokens) /\ tx \in Seq(Tokens)
  /\ link \in {"up", "ended", "dead"}
  /\ IF link = "up" THEN TaskInv(task, durable, tx) ELSE CutOff

-----------------------------------------------------------------------------
(* The tokens and their order *)

LEMMA BatchFacts ==
  ASSUME batch \in Batches
  PROVE  /\ Rows \in Seq([size : Nat \ {0}, lobs : Seq(Nat)]) /\ RowIds = 1..Len(Rows)
         /\ Len(Rows) \in Nat /\ BadRows \subseteq RowIds
         /\ AutoCommit \in BOOLEAN /\ Faults \subseteq {"request", "finalize", "reading", "other", "fin", "reset"}
         /\ \A r \in RowIds : /\ Rows[r].size \in Nat /\ Rows[r].size > 0
                              /\ Rows[r].lobs \in Seq(Nat) /\ Len(Rows[r].lobs) \in Nat
                              /\ DOMAIN Rows[r].lobs = 1..Len(Rows[r].lobs)
<1>1. /\ Rows \in Seq([size : Nat \ {0}, lobs : Seq(Nat)]) /\ BadRows \subseteq RowIds
      /\ AutoCommit \in BOOLEAN /\ Faults \subseteq {"request", "finalize", "reading", "other", "fin", "reset"}
  BY BatchAssumption DEF Rows, BadRows, RowIds, AutoCommit, Faults
<1>2. RowIds = 1..Len(Rows) /\ Len(Rows) \in Nat
  BY <1>1 DEF RowIds
<1>3. \A r \in RowIds : Rows[r] \in [size : Nat \ {0}, lobs : Seq(Nat)]
  <2> DEFINE R == [size : Nat \ {0}, lobs : Seq(Nat)]
  <2>1. Rows \in Seq(R)
    BY <1>1
  <2> HIDE DEF R
  <2>2. \A r \in RowIds : Rows[r] \in R
    BY <2>1, <1>2, ElementOfSeq
  <2> QED BY <2>2 DEF R
<1>4. ASSUME NEW r \in RowIds
      PROVE  Rows[r].size \in Nat /\ Rows[r].size > 0 /\ Rows[r].lobs \in Seq(Nat)
  <2>1. Rows[r].size \in Nat \ {0} /\ Rows[r].lobs \in Seq(Nat)
    BY <1>3
  <2> QED BY <2>1
<1> QED BY <1>1, <1>2, <1>4

LEMMA RowFacts ==
  ASSUME batch \in Batches, NEW r \in Nat, r > 0, r <= Len(Rows)
  PROVE  r \in RowIds /\ Len(Rows[r].lobs) \in Nat
<1>1. RowIds = 1..Len(Rows) /\ Len(Rows) \in Nat
  BY BatchFacts
<1>2. r \in RowIds
  BY <1>1
<1> QED BY <1>2, BatchFacts

\* The LOBs of the batch.
LEMMA LobFacts ==
  ASSUME batch \in Batches
  PROVE  /\ \A k \in LobIds : /\ k = <<k[1], k[2]>> /\ k[1] \in RowIds /\ k[1] \in Nat
                              /\ k[2] \in 1..Len(Rows[k[1]].lobs) /\ k[2] \in Nat
                              /\ Length(k) \in Nat
         /\ \A r \in RowIds : \A l \in 1..Len(Rows[r].lobs) : <<r, l>> \in LobIds
<1>1. \A r \in RowIds : \A l \in DOMAIN Rows[r].lobs : <<r, l>> \in LobIds
  BY DEF LobIds
<1>2. ASSUME NEW k \in LobIds
      PROVE  \E r \in RowIds : \E l \in DOMAIN Rows[r].lobs : k = <<r, l>>
  BY DEF LobIds
<1>3. ASSUME NEW r \in RowIds, NEW l \in DOMAIN Rows[r].lobs
      PROVE  r \in Nat /\ l \in Nat /\ l \in 1..Len(Rows[r].lobs) /\ Rows[r].lobs[l] \in Nat
  <2>1. /\ RowIds = 1..Len(Rows) /\ Len(Rows) \in Nat /\ Rows[r].lobs \in Seq(Nat)
        /\ DOMAIN Rows[r].lobs = 1..Len(Rows[r].lobs) /\ Len(Rows[r].lobs) \in Nat
    BY BatchFacts
  <2> QED BY <2>1, ElementOfSeq
<1>4. ASSUME NEW k \in LobIds
      PROVE  /\ k = <<k[1], k[2]>> /\ k[1] \in RowIds /\ k[1] \in Nat
             /\ k[2] \in 1..Len(Rows[k[1]].lobs) /\ k[2] \in Nat /\ Length(k) \in Nat
  <2>1. PICK r \in RowIds : \E l \in DOMAIN Rows[r].lobs : k = <<r, l>>
    BY <1>2
  <2>2. PICK l \in DOMAIN Rows[r].lobs : k = <<r, l>>
    BY <2>1
  <2>3. k[1] = r /\ k[2] = l
    BY <2>2
  <2> QED BY <2>2, <2>3, <1>3 DEF Length
<1> QED BY <1>1, <1>4, BatchFacts

\* The tokens are a row, a unit of a LOB or its LAST_DATA.
LEMMA TokenFacts ==
  ASSUME batch \in Batches
  PROVE  /\ \A r \in RowIds : RowToken(r) \in Tokens
         /\ \A k \in LobIds : \A i \in 1..Length(k) + 1 : Data(k, i) \in Tokens
         /\ \A y \in Tokens :
              \/ \E r \in RowIds : y = RowToken(r)
              \/ \E k \in LobIds : \E i \in 1..Length(k) + 1 : y = Data(k, i)
<1>1. \A r \in RowIds : RowToken(r) \in Tokens
  BY DEF Tokens
<1>2. ASSUME NEW k \in LobIds, NEW i \in 1..Length(k) + 1
      PROVE  Data(k, i) \in Tokens
  <2>1. Data(k, i) \in {Data(k, j) : j \in 1..Length(k)} \cup {LastData(k)}
    BY LobFacts DEF LastData
  <2> QED BY <2>1 DEF Tokens
<1>3. ASSUME NEW y \in Tokens
      PROVE  \/ \E r \in RowIds : y = RowToken(r)
             \/ \E k \in LobIds : \E i \in 1..Length(k) + 1 : y = Data(k, i)
  <2>1. \/ \E r \in RowIds : y = RowToken(r)
        \/ \E k \in LobIds : y \in {Data(k, j) : j \in 1..Length(k)} \cup {LastData(k)}
    BY DEF Tokens
  <2>2. ASSUME NEW k \in LobIds, y \in {Data(k, j) : j \in 1..Length(k)} \cup {LastData(k)}
        PROVE  \E i \in 1..Length(k) + 1 : y = Data(k, i)
    BY <2>2, LobFacts DEF LastData
  <2> QED BY <2>1, <2>2
<1> QED BY <1>1, <1>2, <1>3

Triples == Nat \X Nat \X Nat

\* The parts of a token.
LEMMA TokenParts ==
  ASSUME batch \in Batches
  PROVE  /\ \A r : RowToken(r)[1] = r /\ RowToken(r)[2] = 0 /\ RowToken(r)[3] = 0
         /\ \A k, i : Data(k, i)[1] = k[1] /\ Data(k, i)[2] = k[2] /\ Data(k, i)[3] = i
         /\ \A y \in Tokens :
              /\ y[1] \in Nat /\ y[2] \in Nat /\ y[3] \in Nat /\ y = <<y[1], y[2], y[3]>>
              /\ y[1] \in RowIds
              /\ \/ y[2] = 0 /\ y[3] = 0
                 \/ /\ <<y[1], y[2]>> \in LobIds /\ y[2] > 0 /\ y[2] <= Len(Rows[y[1]].lobs)
                    /\ y[3] > 0 /\ y[3] <= Length(<<y[1], y[2]>>) + 1
<1>1. /\ \A r : RowToken(r)[1] = r /\ RowToken(r)[2] = 0 /\ RowToken(r)[3] = 0
      /\ \A k, i : Data(k, i)[1] = k[1] /\ Data(k, i)[2] = k[2] /\ Data(k, i)[3] = i
  BY DEF RowToken, Data
<1>2. ASSUME NEW r \in RowIds
      PROVE  RowToken(r) = <<r, 0, 0>> /\ r \in Nat
  BY BatchFacts DEF RowToken
<1>3. ASSUME NEW k \in LobIds, NEW i \in 1..Length(k) + 1
      PROVE  /\ Data(k, i) = <<k[1], k[2], i>> /\ <<k[1], k[2]>> = k /\ k[1] \in RowIds
             /\ k[1] \in Nat /\ k[2] \in Nat /\ i \in Nat /\ i > 0 /\ i <= Length(k) + 1
             /\ k[2] > 0 /\ k[2] <= Len(Rows[k[1]].lobs)
  <2>1. k = <<k[1], k[2]>> /\ k[1] \in RowIds /\ k[1] \in Nat /\ k[2] \in 1..Len(Rows[k[1]].lobs)
    BY LobFacts
  <2>2. Length(k) \in Nat /\ Len(Rows[k[1]].lobs) \in Nat
    BY <2>1, LobFacts, BatchFacts
  <2> QED BY <2>1, <2>2 DEF Data
<1>4. ASSUME NEW y \in Tokens
      PROVE  /\ y[1] \in Nat /\ y[2] \in Nat /\ y[3] \in Nat /\ y = <<y[1], y[2], y[3]>>
             /\ y[1] \in RowIds
             /\ \/ y[2] = 0 /\ y[3] = 0
                \/ /\ <<y[1], y[2]>> \in LobIds /\ y[2] > 0 /\ y[2] <= Len(Rows[y[1]].lobs)
                   /\ y[3] > 0 /\ y[3] <= Length(<<y[1], y[2]>>) + 1
  <2>1. CASE \E r \in RowIds : y = RowToken(r)
    BY <2>1, <1>2
  <2>2. CASE \E k \in LobIds : \E i \in 1..Length(k) + 1 : y = Data(k, i)
    <3>1. PICK k \in LobIds : \E i \in 1..Length(k) + 1 : y = Data(k, i)
      BY <2>2
    <3>2. PICK i \in 1..Length(k) + 1 : y = Data(k, i)
      BY <3>1
    <3>3. y[1] = k[1] /\ y[2] = k[2] /\ y[3] = i /\ <<y[1], y[2]>> = k
      BY <3>2, <1>3
    <3> QED BY <3>2, <3>3, <1>3
  <2> QED BY <2>1, <2>2, TokenFacts
<1> QED BY <1>1, <1>4

LEMMA TokensAreTriples ==
  ASSUME batch \in Batches
  PROVE  Tokens \subseteq Triples
<1>1. \A i, j, l \in Nat : <<i, j, l>> \in Triples
  BY DEF Triples
<1>2. \A y \in Tokens : y[1] \in Nat /\ y[2] \in Nat /\ y[3] \in Nat /\ y = <<y[1], y[2], y[3]>>
  BY TokenParts
<1> QED BY <1>1, <1>2

\* Tokens with the same parts are equal.
LEMMA SameParts ==
  ASSUME NEW y \in Triples, NEW z \in Triples, y[1] = z[1], y[2] = z[2], y[3] = z[3]
  PROVE  y = z
BY DEF Triples

\* Precedes is a strict total order.
LEMMA OrderFacts ==
  /\ \A y \in Triples : ~Precedes(y, y)
  /\ \A y, z \in Triples : Precedes(y, z) \/ y = z \/ Precedes(z, y)
  /\ \A y, z \in Triples : Precedes(y, z) => ~Precedes(z, y)
  /\ \A w, y, z \in Triples : Precedes(w, y) /\ Precedes(y, z) => Precedes(w, z)
<1>1. \A y \in Triples : y[1] \in Nat /\ y[2] \in Nat /\ y[3] \in Nat
  BY DEF Triples
<1> QED BY <1>1, SameParts DEF Precedes

\* What lies between two positions in a LOB.
LEMMA Between ==
  ASSUME NEW y \in Triples, NEW p \in Triples, NEW p2 \in Triples, p[1] = p2[1], p[2] = p2[2],
         Precedes(y, p2), ~Precedes(y, p)
  PROVE  y[1] = p[1] /\ y[2] = p[2] /\ p[3] <= y[3] /\ y[3] < p2[3]
<1>1. \A z \in Triples : z[1] \in Nat /\ z[2] \in Nat /\ z[3] \in Nat
  BY DEF Triples
<1> QED BY <1>1 DEF Precedes

\* What precedes the next LOB, and the next row.
LEMMA FollowingLob ==
  ASSUME NEW y \in Triples, NEW p \in Triples, NEW p2 \in Triples,
         p2[1] = p[1], p2[2] = p[2] + 1, p2[3] = 1,
         (y[2] = 0 /\ y[3] = 0) \/ (y[2] > 0 /\ y[3] > 0),
         y[1] = p[1] /\ y[2] = p[2] => y[3] <= p[3]
  PROVE  Precedes(y, p2) <=> Precedes(y, p) \/ y = p
<1>1. \A z \in Triples : z[1] \in Nat /\ z[2] \in Nat /\ z[3] \in Nat
  BY DEF Triples
<1>2. y = p <=> y[1] = p[1] /\ y[2] = p[2] /\ y[3] = p[3]
  BY SameParts
<1> QED BY <1>1, <1>2 DEF Precedes

LEMMA FollowingRow ==
  ASSUME NEW y \in Triples, NEW p \in Triples, NEW p2 \in Triples,
         p2[1] = p[1] + 1, p2[2] = 0, p2[3] = 0,
         y[1] = p[1] => y[2] <= p[2],
         y[1] = p[1] /\ y[2] = p[2] => y[3] <= p[3]
  PROVE  Precedes(y, p2) <=> Precedes(y, p) \/ y = p
<1>1. \A z \in Triples : z[1] \in Nat /\ z[2] \in Nat /\ z[3] \in Nat
  BY DEF Triples
<1>2. y = p <=> y[1] = p[1] /\ y[2] = p[2] /\ y[3] = p[3]
  BY SameParts
<1> QED BY <1>1, <1>2 DEF Precedes

-----------------------------------------------------------------------------
(* Sequences in order *)

LEMMA ConcatFacts ==
  ASSUME NEW S, NEW q \in Seq(S), NEW b \in Seq(S)
  PROVE  /\ q \o b \in Seq(S) /\ Range(q \o b) = Range(q) \cup Range(b)
         /\ DOMAIN (q \o b) = 1..(Len(q) + Len(b))
         /\ \A i \in DOMAIN q : i \in DOMAIN (q \o b) /\ (q \o b)[i] = q[i]
         /\ \A i \in DOMAIN b : Len(q) + i \in DOMAIN (q \o b) /\ (q \o b)[Len(q) + i] = b[i]
         /\ \A i \in DOMAIN (q \o b) : i \in DOMAIN q \/ (i - Len(q) \in DOMAIN b /\ i > Len(q))
<1>1. Len(q) \in Nat /\ Len(b) \in Nat /\ DOMAIN q = 1..Len(q) /\ DOMAIN b = 1..Len(b)
  OBVIOUS
<1>2. /\ q \o b \in Seq(S) /\ Len(q \o b) = Len(q) + Len(b)
      /\ \A i \in 1..Len(q) + Len(b) : (q \o b)[i] = IF i <= Len(q) THEN q[i] ELSE b[i - Len(q)]
  BY ConcatProperties
<1>3. DOMAIN (q \o b) = 1..(Len(q) + Len(b))
  BY <1>2
<1>4. Range(q \o b) = Range(q) \cup Range(b)
  BY RangeConcatenation
<1>5. \A i \in DOMAIN q : i \in DOMAIN (q \o b) /\ (q \o b)[i] = q[i]
  BY <1>1, <1>2, <1>3
<1>6. ASSUME NEW i \in DOMAIN b
      PROVE  Len(q) + i \in DOMAIN (q \o b) /\ (q \o b)[Len(q) + i] = b[i]
  <2>1. i \in Nat /\ i > 0 /\ Len(q) + i \in 1..Len(q) + Len(b) /\ ~(Len(q) + i <= Len(q))
    BY <1>1
  <2>2. Len(q) + i - Len(q) = i
    BY <2>1, <1>1
  <2>3. (q \o b)[Len(q) + i] = b[Len(q) + i - Len(q)]
    BY <2>1, <1>2
  <2> QED BY <2>1, <2>2, <2>3, <1>3
<1>7. \A i \in DOMAIN (q \o b) : i \in DOMAIN q \/ (i - Len(q) \in DOMAIN b /\ i > Len(q))
  BY <1>1, <1>3
<1> QED BY <1>2, <1>3, <1>4, <1>5, <1>6, <1>7

\* A sequence in order up to p, followed by the tokens from p to p2 in order.
LEMMA Continue ==
  ASSUME batch \in Batches, NEW q \in Seq(Tokens), NEW b \in Seq(Tokens),
         NEW p \in Triples, NEW p2 \in Triples, p = p2 \/ Precedes(p, p2),
         UpTo(q, p), Ordered(b),
         Range(b) = {y \in Tokens : Precedes(y, p2) /\ ~Precedes(y, p)}
  PROVE  UpTo(q \o b, p2)
<1>1. \A y \in Tokens : Precedes(y, p) => Precedes(y, p2)
  BY OrderFacts, TokensAreTriples
<1>2. Range(q \o b) = {y \in Tokens : Precedes(y, p2)}
  BY <1>1, ConcatFacts DEF UpTo
<1>3. ASSUME NEW i \in DOMAIN (q \o b), NEW j \in DOMAIN (q \o b), i < j
      PROVE  Precedes((q \o b)[i], (q \o b)[j])
  <2> DEFINE n == Len(q)
  <2>1. n \in Nat /\ i \in Nat /\ j \in Nat /\ DOMAIN q = 1..n
    BY ConcatFacts
  <2>2. CASE i \in DOMAIN q /\ j \in DOMAIN q
    BY <2>2, <1>3, ConcatFacts DEF UpTo, Ordered
  <2>3. CASE i - n \in DOMAIN b /\ j - n \in DOMAIN b
    <3>1. (q \o b)[n + (i - n)] = b[i - n] /\ (q \o b)[n + (j - n)] = b[j - n]
      BY <2>3, ConcatFacts
    <3>2. n + (i - n) = i /\ n + (j - n) = j /\ i - n < j - n
      BY <2>1, <1>3
    <3> QED BY <3>1, <3>2, <2>3 DEF Ordered
  <2>4. CASE i \in DOMAIN q /\ j - n \in DOMAIN b
    <3>0. n + (j - n) = j
      BY <2>1
    <3>1. (q \o b)[i] = q[i] /\ (q \o b)[n + (j - n)] = b[j - n]
      BY <2>4, ConcatFacts
    <3>2. q[i] \in Range(q) /\ b[j - n] \in Range(b)
      BY <2>4 DEF Range
    <3>3. Precedes(q[i], p) /\ ~Precedes(b[j - n], p) /\ q[i] \in Triples /\ b[j - n] \in Triples
      BY <3>2, TokensAreTriples DEF UpTo
    <3> QED BY <3>0, <3>1, <3>3, OrderFacts
  <2>5. i \in DOMAIN q \/ j - n \in DOMAIN b
    BY <2>1, <1>3, ConcatFacts
  <2>6. CASE i - n \in DOMAIN b /\ i > n /\ j \in DOMAIN q
    BY <2>6, <2>1, <1>3
  <2> QED BY <2>1, <2>2, <2>3, <2>4, <2>5, <2>6, ConcatFacts
<1> QED BY <1>2, <1>3 DEF UpTo, Ordered

\* What comes before in a sequence in order is in order.
LEMMA Beginning ==
  ASSUME batch \in Batches, NEW q \in Seq(Tokens), NEW b \in Seq(Tokens), Orderly(q \o b)
  PROVE  Orderly(q)
<1>1. \A i \in DOMAIN q : q[i] \in Tokens /\ i \in Nat
  OBVIOUS
<1>2. Ordered(q)
  BY ConcatFacts DEF Orderly, Ordered
<1>3. ASSUME NEW i \in DOMAIN q, NEW y \in Tokens, Precedes(y, q[i])
      PROVE  y \in Range(q)
  <2>1. y \in Range(q) \/ y \in Range(b)
    BY <1>3, ConcatFacts DEF Orderly
  <2>2. CASE y \in Range(b)
    <3>1. PICK j \in DOMAIN b : y = b[j]
      BY <2>2 DEF Range
    <3>2. (q \o b)[i] = q[i] /\ (q \o b)[Len(q) + j] = y /\ i < Len(q) + j
      <4>1. i <= Len(q) /\ j > 0 /\ j \in Nat /\ i \in Nat /\ Len(q) \in Nat
        OBVIOUS
      <4>2. (q \o b)[i] = q[i] /\ (q \o b)[Len(q) + j] = y
        BY <3>1, ConcatFacts
      <4>3. i < Len(q) + j
        BY <4>1
      <4> QED BY <4>2, <4>3
    <3>3. Precedes(q[i], y)
      BY <3>2, ConcatFacts DEF Orderly, Ordered
    <3> QED BY <3>3, <1>3, <1>1, OrderFacts, TokensAreTriples
  <2> QED BY <2>1, <2>2
<1> QED BY <1>2, <1>3 DEF Orderly

LEMMA UpToIsOrderly ==
  ASSUME batch \in Batches, NEW q \in Seq(Tokens), NEW p \in Triples, UpTo(q, p)
  PROVE  Orderly(q)
<1>1. ASSUME NEW i \in DOMAIN q, NEW y \in Tokens, Precedes(y, q[i])
      PROVE  y \in Range(q)
  <2>1. q[i] \in Tokens /\ Precedes(q[i], p)
    BY DEF UpTo, Range
  <2>2. Precedes(y, p)
    BY <1>1, <2>1, OrderFacts, TokensAreTriples
  <2> QED BY <2>2 DEF UpTo
<1> QED BY <1>1 DEF Orderly, UpTo

-----------------------------------------------------------------------------
(* The position moves on *)

\* A token is appended.
LEMMA ContinueByOne ==
  ASSUME batch \in Batches, NEW q \in Seq(Tokens), NEW p \in Tokens, NEW p2 \in Triples, UpTo(q, p),
         \A y \in Tokens : Precedes(y, p2) <=> Precedes(y, p) \/ y = p
  PROVE  UpTo(Append(q, p), p2)
<1>1. <<p>> \in Seq(Tokens) /\ Range(<<p>>) = {p} /\ DOMAIN <<p>> = {1}
  BY DEF Range
<1>2. p \in Triples /\ Precedes(p, p2) /\ ~Precedes(p, p)
  BY TokensAreTriples, OrderFacts
<1>3. Ordered(<<p>>)
  BY <1>1 DEF Ordered
<1>4. \A y \in Tokens : y = p <=> Precedes(y, p2) /\ ~Precedes(y, p)
  BY <1>2
<1>5. Range(<<p>>) = {y \in Tokens : Precedes(y, p2) /\ ~Precedes(y, p)}
  BY <1>1, <1>4
<1>6. UpTo(q \o <<p>>, p2)
  BY <1>1, <1>2, <1>3, <1>5, Continue
<1> QED BY <1>6, AppendIsConcat

\* Units of a LOB are appended.
LEMMA ReadsOn ==
  ASSUME batch \in Batches, NEW q \in Seq(Tokens), NEW k \in LobIds, NEW u \in Nat, NEW n \in Nat,
         u + n <= Length(k), UpTo(q, Data(k, u + 1))
  PROVE  /\ [i \in 1..n |-> Data(k, u + i)] \in Seq(Tokens)
         /\ UpTo(q \o [i \in 1..n |-> Data(k, u + i)], Data(k, u + n + 1))
<1> DEFINE b  == [i \in 1..n |-> Data(k, u + i)]
           p  == Data(k, u + 1)
           p2 == Data(k, u + n + 1)
<1>0. Length(k) \in Nat /\ k[1] \in Nat /\ k[2] \in Nat
  BY LobFacts
<1>1. \A i \in 1..n : u + i \in 1..Length(k) + 1 /\ b[i] = Data(k, u + i) /\ b[i] \in Tokens
  BY <1>0, TokenFacts
<1>2. b \in Seq(Tokens)
  BY <1>1
<1>9. p[1] = k[1] /\ p[2] = k[2] /\ p[3] = u + 1 /\ p2[1] = k[1] /\ p2[2] = k[2] /\ p2[3] = u + n + 1
  BY TokenParts
<1>3. p \in Triples /\ p2 \in Triples /\ (p = p2 \/ Precedes(p, p2))
  <2>1. p \in Triples /\ p2 \in Triples
    BY <1>0 DEF Data, Triples
  <2>2. CASE n = 0
    <3>1. p[1] = p2[1] /\ p[2] = p2[2] /\ p[3] = p2[3]
      BY <1>9, <2>2
    <3> HIDE DEF p, p2
    <3> QED BY <3>1, <2>1, SameParts
  <2>3. CASE n > 0
    <3>1. p[3] < p2[3]
      BY <1>9, <2>3
    <3> HIDE DEF p, p2
    <3> QED BY <3>1, <2>1, <1>9 DEF Precedes
  <2> QED BY <2>1, <2>2, <2>3
<1>4. Ordered(b)
  BY <1>0, <1>1 DEF Ordered, Data, Precedes
<1>5. ASSUME NEW y \in Tokens, Precedes(y, p2), ~Precedes(y, p)
      PROVE  y \in Range(b)
  <2>0. y = <<y[1], y[2], y[3]>>
    BY TokenParts
  <2>1. y[1] \in Nat /\ y[2] \in Nat /\ y[3] \in Nat
    BY TokenParts
  <2>2. y[1] = k[1] /\ y[2] = k[2] /\ u + 1 <= y[3] /\ y[3] <= u + n
    <3> HIDE DEF p, p2
    <3>1. y[1] = p[1] /\ y[2] = p[2] /\ p[3] <= y[3] /\ y[3] < p2[3]
      BY <1>3, <1>5, <1>9, TokensAreTriples, Between
    <3>2. p[1] = k[1] /\ p[2] = k[2] /\ p[3] = u + 1 /\ p2[3] = u + n + 1
      BY <1>9
    <3> QED BY <3>1, <3>2, <2>1
  <2>3. y[3] - u \in 1..n /\ u + (y[3] - u) = y[3]
    <3>1. \A i, j, l \in Nat : j + 1 <= i /\ i <= j + l => i - j \in 1..l /\ j + (i - j) = i
      OBVIOUS
    <3> QED BY <3>1, <2>1, <2>2
  <2>4. b[y[3] - u] = y
    BY <2>0, <2>2, <2>3 DEF Data
  <2> QED BY <2>3, <2>4 DEF Range
<1>6. ASSUME NEW i \in 1..n
      PROVE  Precedes(b[i], p2) /\ ~Precedes(b[i], p)
  BY <1>0, <1>1 DEF Data, Precedes
<1>7. Range(b) = {y \in Tokens : Precedes(y, p2) /\ ~Precedes(y, p)}
  BY <1>1, <1>5, <1>6 DEF Range
<1> HIDE DEF b, p, p2
<1>8. UpTo(q, p)
  BY DEF p
<1>10. UpTo(q \o b, p2)
  BY <1>2, <1>3, <1>4, <1>7, <1>8, Continue
<1> QED BY <1>2, <1>10 DEF b, p2

\* Where the Writer goes on behind a LOB, and behind the fixed part of a row.
BehindLob(k) ==
  IF k[2] = Len(Rows[k[1]].lobs) THEN RowToken(k[1] + 1) ELSE Data(<<k[1], k[2] + 1>>, 1)

BehindRow(r) == IF Rows[r].lobs = <<>> THEN RowToken(r + 1) ELSE Data(<<r, 1>>, 1)

LEMMA FinishesLob ==
  ASSUME batch \in Batches, NEW q \in Seq(Tokens), NEW k \in LobIds, UpTo(q, LastData(k))
  PROVE  /\ LastData(k) \in Tokens /\ BehindLob(k) \in Triples /\ Precedes(LastData(k), BehindLob(k))
         /\ UpTo(Append(q, LastData(k)), BehindLob(k))
<1> DEFINE p == LastData(k)
           p2 == BehindLob(k)
           n == Len(Rows[k[1]].lobs)
<1>0. /\ Length(k) \in Nat /\ k[1] \in Nat /\ k[2] \in Nat /\ k = <<k[1], k[2]>>
      /\ k[2] > 0 /\ n \in Nat /\ k[2] <= n
  BY LobFacts, BatchFacts
<1>1. p \in Tokens /\ p \in Triples /\ p2 \in Triples
  <2>1. p \in Tokens
    BY <1>0, TokenFacts DEF LastData
  <2>2. p2 \in Triples
    <3>1. p2 = <<k[1], k[2] + 1, 1>> \/ p2 = <<k[1] + 1, 0, 0>>
      BY DEF BehindLob, Data, RowToken
    <3>2. \A i, j, l \in Nat : <<i, j, l>> \in Triples
      BY DEF Triples
    <3>3. k[1] + 1 \in Nat /\ k[2] + 1 \in Nat /\ 0 \in Nat /\ 1 \in Nat /\ k[1] \in Nat
      BY <1>0
    <3> HIDE DEF p2
    <3> QED BY <3>1, <3>2, <3>3
  <2> HIDE DEF p, p2
  <2> QED BY <2>1, <2>2, TokensAreTriples
<1>2. p[1] = k[1] /\ p[2] = k[2] /\ p[3] = Length(k) + 1
  BY TokenParts DEF LastData
<1>3. \/ k[2] < n /\ p2[1] = k[1] /\ p2[2] = k[2] + 1 /\ p2[3] = 1
      \/ k[2] = n /\ p2[1] = k[1] + 1 /\ p2[2] = 0 /\ p2[3] = 0
  BY <1>0, TokenParts DEF BehindLob
<1> HIDE DEF p, p2
<1>4. ASSUME NEW y \in Tokens
      PROVE  Precedes(y, p2) <=> Precedes(y, p) \/ y = p
  <2>1. /\ y[1] \in Nat /\ y[2] \in Nat /\ y[3] \in Nat
        /\ \/ y[2] = 0 /\ y[3] = 0
           \/ /\ y[2] > 0 /\ y[2] <= Len(Rows[y[1]].lobs)
              /\ y[3] > 0 /\ y[3] <= Length(<<y[1], y[2]>>) + 1
    BY TokenParts
  <2>2. ASSUME y[1] = p[1], y[2] = p[2]
        PROVE  y[3] <= p[3]
    <3>1. <<y[1], y[2]>> = k
      BY <2>2, <1>0, <1>2
    <3>2. y[2] # 0
      BY <2>2, <1>0, <1>2
    <3>3. y[3] <= Length(<<y[1], y[2]>>) + 1
      BY <3>2, <2>1
    <3> QED BY <3>1, <3>3, <1>2
  <2>3. (y[2] = 0 /\ y[3] = 0) \/ (y[2] > 0 /\ y[3] > 0)
    BY <2>1
  <2>4. y \in Triples
    BY TokensAreTriples
  <2>5. CASE p2[1] = p[1] /\ p2[2] = p[2] + 1 /\ p2[3] = 1
    BY <2>2, <2>3, <2>4, <2>5, <1>1, FollowingLob
  <2>6. CASE k[2] = n /\ p2[1] = p[1] + 1 /\ p2[2] = 0 /\ p2[3] = 0
    <3>1. y[1] = p[1] => y[2] <= p[2]
      BY <2>1, <2>6, <1>0, <1>2
    <3> QED BY <3>1, <2>2, <2>4, <2>6, <1>1, FollowingRow
  <2> QED BY <2>5, <2>6, <1>2, <1>3
<1>5. UpTo(q, p)
  BY DEF p
<1>6. UpTo(Append(q, p), p2)
  BY <1>1, <1>4, <1>5, ContinueByOne
<1>7. Precedes(p, p2)
  BY <1>1, <1>4
<1> QED BY <1>1, <1>6, <1>7 DEF p, p2

LEMMA TakesRow ==
  ASSUME batch \in Batches, NEW q \in Seq(Tokens), NEW r \in RowIds, UpTo(q, RowToken(r))
  PROVE  /\ RowToken(r) \in Tokens /\ BehindRow(r) \in Triples /\ Precedes(RowToken(r), BehindRow(r))
         /\ UpTo(Append(q, RowToken(r)), BehindRow(r))
<1> DEFINE p == RowToken(r)
           p2 == BehindRow(r)
<1>0. r \in Nat /\ Rows[r].lobs \in Seq(Nat) /\ Len(Rows[r].lobs) \in Nat
  BY BatchFacts
<1>1. p \in Tokens /\ p \in Triples /\ p2 \in Triples
  <2>1. p \in Tokens
    BY <1>0, TokenFacts
  <2>2. p2 \in Triples
    BY <1>0 DEF BehindRow, Data, RowToken, Triples
  <2> HIDE DEF p, p2
  <2> QED BY <2>1, <2>2, TokensAreTriples
<1>2. p[1] = r /\ p[2] = 0 /\ p[3] = 0
  BY TokenParts
<1>3. \/ p2[1] = r /\ p2[2] = 1 /\ p2[3] = 1
      \/ Len(Rows[r].lobs) = 0 /\ p2[1] = r + 1 /\ p2[2] = 0 /\ p2[3] = 0
  BY <1>0, TokenParts DEF BehindRow, Data
<1> HIDE DEF p, p2
<1>4. ASSUME NEW y \in Tokens
      PROVE  Precedes(y, p2) <=> Precedes(y, p) \/ y = p
  <2>1. /\ y[1] \in Nat /\ y[2] \in Nat /\ y[3] \in Nat
        /\ \/ y[2] = 0 /\ y[3] = 0
           \/ y[2] > 0 /\ y[2] <= Len(Rows[y[1]].lobs) /\ y[3] > 0
    BY TokenParts
  <2>2. (y[2] = 0 /\ y[3] = 0) \/ (y[2] > 0 /\ y[3] > 0)
    BY <2>1
  <2>3. y[1] = p[1] /\ y[2] = p[2] => y[3] <= p[3]
    BY <2>1, <1>2
  <2>4. y \in Triples
    BY TokensAreTriples
  <2>5. CASE p2[1] = p[1] /\ p2[2] = p[2] + 1 /\ p2[3] = 1
    BY <2>2, <2>3, <2>4, <2>5, <1>1, FollowingLob
  <2>6. CASE Len(Rows[r].lobs) = 0 /\ p2[1] = p[1] + 1 /\ p2[2] = 0 /\ p2[3] = 0
    <3>1. y[1] = p[1] => y[2] <= p[2]
      BY <2>1, <2>6, <1>2
    <3> QED BY <3>1, <2>3, <2>4, <2>6, <1>1, FollowingRow
  <2> QED BY <2>5, <2>6, <1>2, <1>3
<1>5. UpTo(q, p)
  BY DEF p
<1>6. UpTo(Append(q, p), p2)
  BY <1>1, <1>4, <1>5, ContinueByOne
<1>7. Precedes(p, p2)
  BY <1>1, <1>4
<1> QED BY <1>1, <1>6, <1>7 DEF p, p2

\* Nothing precedes the first row; behind the last one everything is there.
LEMMA BeginningAndEnd ==
  ASSUME batch \in Batches
  PROVE  /\ UpTo(<<>>, RowToken(1))
         /\ \A q : UpTo(q, RowToken(Len(Rows) + 1)) => Range(q) = Tokens
<1>1. ASSUME NEW y \in Tokens
      PROVE  ~Precedes(y, RowToken(1)) /\ Precedes(y, RowToken(Len(Rows) + 1))
  <2>1. y[1] \in Nat /\ y[2] \in Nat /\ y[3] \in Nat
    BY TokensAreTriples DEF Triples
  <2>2. y[1] \in 1..Len(Rows) /\ Len(Rows) \in Nat /\ (y[2] = 0 \/ y[2] > 0)
    BY TokenParts, BatchFacts
  <2>3. y[1] = 1 => ~(y[2] < 0) /\ ~(y[3] < 0)
    BY <2>1
  <2> QED BY <2>1, <2>2, <2>3, TokenParts DEF Precedes
<1>2. Range(<<>>) = {} /\ DOMAIN <<>> = {}
  BY DEF Range
<1> QED BY <1>1, <1>2 DEF UpTo, Ordered

-----------------------------------------------------------------------------
(* The bytes of a packet *)

LEMMA SetInduction ==
  ASSUME NEW S, 0 \in S, \A n \in Nat : n \in S => n + 1 \in S
  PROVE  Nat \subseteq S
<1> DEFINE T == Nat \ S
<1> SUFFICES ASSUME T # {} PROVE FALSE
  OBVIOUS
<1>1. \E y \in T : \A z \in T : ~(<<z, y>> \in OpToRel(<, Nat))
  <2>1. T \subseteq Nat
    OBVIOUS
  <2> HIDE DEF T
  <2> QED BY <2>1, NatLessThanWellFounded, WFMin
<1>2. PICK y \in T : \A z \in T : ~(<<z, y>> \in OpToRel(<, Nat))
  BY <1>1
<1>3. y \in Nat /\ y # 0 /\ y - 1 \in Nat
  OBVIOUS
<1>4. <<y - 1, y>> \in OpToRel(<, Nat)
  BY <1>3 DEF OpToRel
<1>5. (y - 1) + 1 \in S
  BY <1>2, <1>3, <1>4
<1> QED BY <1>3, <1>5

\* The bytes of a token.
Size(y) == IF y[2] = 0 THEN Rows[y[1]].size ELSE IF IsData(y) THEN 1 ELSE 0

Sums(q, f, n) ==
  f = [i \in 0..n |-> IF i = 0 THEN 0 ELSE f[i - 1] + Size(q[i])]

\* A sum is continued by the next token.
LEMMA SumsExist ==
  ASSUME NEW q
  PROVE  \A n \in Nat : \E f : Sums(q, f, n)
<1> DEFINE S == {n \in Nat : \E f : Sums(q, f, n)}
<1>1. 0 \in S
  <2>1. Sums(q, [i \in 0..0 |-> 0], 0)
    BY DEF Sums
  <2> QED BY <2>1
<1>2. ASSUME NEW n \in Nat, n \in S
      PROVE  n + 1 \in S
  <2>1. PICK f : Sums(q, f, n)
    BY <1>2
  <2> DEFINE g == [i \in 0..n + 1 |-> IF i = n + 1 THEN f[n] + Size(q[n + 1]) ELSE f[i]]
  <2>2. \A i \in 0..n : g[i] = f[i] /\ i # n + 1
    OBVIOUS
  <2>3. ASSUME NEW i \in 0..n + 1
        PROVE  g[i] = IF i = 0 THEN 0 ELSE g[i - 1] + Size(q[i])
    <3>1. CASE i = n + 1
      <4>1. i - 1 = n /\ n \in 0..n /\ i # 0
        BY <3>1
      <4>2. g[i] = f[n] + Size(q[i])
        BY <3>1
      <4>3. g[n] = f[n]
        BY <2>2, <4>1
      <4> QED BY <4>1, <4>2, <4>3
    <3>2. CASE i \in 0..n
      <4>1. g[i] = f[i]
        BY <2>2, <3>2
      <4>2. f[i] = IF i = 0 THEN 0 ELSE f[i - 1] + Size(q[i])
        BY <2>1, <3>2 DEF Sums
      <4>3. i # 0 => i - 1 \in 0..n
        BY <3>2
      <4>4. i # 0 => g[i - 1] = f[i - 1]
        BY <2>2, <4>3
      <4> QED BY <4>1, <4>2, <4>4
    <3> QED BY <3>1, <3>2
  <2>4. g = [i \in 0..n + 1 |-> IF i = 0 THEN 0 ELSE g[i - 1] + Size(q[i])]
    <3>1. g = [i \in 0..n + 1 |-> g[i]]
      OBVIOUS
    <3> HIDE DEF g
    <3> QED BY <3>1, <2>3
  <2> HIDE DEF g
  <2> QED BY <2>4 DEF Sums
<1> HIDE DEF S
<1>3. Nat \subseteq S
  BY <1>1, <1>2, SetInduction
<1> QED BY <1>3 DEF S

LEMMA SizeUpToDef ==
  ASSUME NEW q \in Seq(Tokens)
  PROVE  Sums(q, SizeUpTo(q), Len(q))
<1>1. \E f : Sums(q, f, Len(q))
  <2>1. Len(q) \in Nat
    OBVIOUS
  <2> QED BY <2>1, SumsExist
<1>2. SizeUpTo(q) = CHOOSE f : Sums(q, f, Len(q))
  BY DEF SizeUpTo, Sums, Size
<1> QED BY <1>1, <1>2

LEMMA TokenSizes ==
  ASSUME batch \in Batches
  PROVE  /\ \A r \in RowIds : Size(RowToken(r)) = Rows[r].size /\ ~IsData(RowToken(r))
         /\ \A k \in LobIds : /\ \A i \in 1..Length(k) : Size(Data(k, i)) = 1 /\ IsData(Data(k, i))
                              /\ Size(LastData(k)) = 0 /\ ~IsData(LastData(k))
         /\ \A y \in Tokens : Size(y) \in Nat
<1>1. \A r \in RowIds : Size(RowToken(r)) = Rows[r].size /\ ~IsData(RowToken(r))
  BY TokenParts DEF Size, IsData
<1>2. ASSUME NEW k \in LobIds, NEW i
      PROVE  /\ Length(Data(k, i)) = Length(k) /\ Data(k, i)[2] = k[2] /\ Data(k, i)[3] = i
             /\ k[2] \in Nat /\ k[2] > 0 /\ Length(k) \in Nat
  <2>1. Length(Data(k, i)) = Length(k)
    BY DEF Length, Data
  <2>2. k[1] \in RowIds /\ k[2] \in 1..Len(Rows[k[1]].lobs) /\ k[2] \in Nat /\ Length(k) \in Nat
    BY LobFacts
  <2> QED BY <2>1, <2>2, TokenParts, BatchFacts
<1>3. ASSUME NEW k \in LobIds, NEW i \in 1..Length(k)
      PROVE  Size(Data(k, i)) = 1 /\ IsData(Data(k, i))
  BY <1>2 DEF Size, IsData
<1>4. ASSUME NEW k \in LobIds
      PROVE  Size(LastData(k)) = 0 /\ ~IsData(LastData(k))
  BY <1>2 DEF Size, IsData, LastData
<1>5. ASSUME NEW y \in Tokens
      PROVE  Size(y) \in Nat
  <2>1. y[1] \in RowIds
    BY TokenParts
  <2>2. Rows[y[1]].size \in Nat
    BY <2>1, BatchFacts
  <2> QED BY <2>2 DEF Size
<1> QED BY <1>1, <1>3, <1>4, <1>5

LEMMA SizeUpToFacts ==
  ASSUME batch \in Batches, NEW q \in Seq(Tokens)
  PROVE  /\ SizeUpTo(q)[0] = 0
         /\ \A i \in 1..Len(q) : SizeUpTo(q)[i] = SizeUpTo(q)[i - 1] + Size(q[i])
         /\ \A i \in 0..Len(q) : SizeUpTo(q)[i] \in Nat
<1> DEFINE f == SizeUpTo(q)
<1>1. Sums(q, f, Len(q)) /\ Len(q) \in Nat
  BY SizeUpToDef
<1> HIDE DEF f
<1>2. f[0] = 0
  BY <1>1 DEF Sums
<1>3. ASSUME NEW i \in 1..Len(q)
      PROVE  f[i] = f[i - 1] + Size(q[i])
  <2>1. i \in 0..Len(q) /\ i # 0
    BY <1>1
  <2> QED BY <1>1, <2>1 DEF Sums
<1> DEFINE S == {n \in Nat : n <= Len(q) => f[n] \in Nat}
<1>4. 0 \in S
  BY <1>2
<1>5. ASSUME NEW n \in Nat, n \in S
      PROVE  n + 1 \in S
  <2> SUFFICES ASSUME n + 1 <= Len(q)
               PROVE  f[n + 1] \in Nat
    OBVIOUS
  <2>1. n + 1 \in 1..Len(q) /\ n + 1 - 1 = n /\ n <= Len(q)
    BY <1>1
  <2>2. f[n + 1] = f[n] + Size(q[n + 1])
    BY <1>3, <2>1
  <2>3. q[n + 1] \in Tokens
    BY <2>1, ElementOfSeq
  <2> QED BY <1>5, <2>1, <2>2, <2>3, TokenSizes
<1> HIDE DEF S
<1>6. Nat \subseteq S
  BY <1>4, <1>5, SetInduction
<1>7. \A i \in 0..Len(q) : f[i] \in Nat
  BY <1>1, <1>6 DEF S
<1> QED BY <1>2, <1>3, <1>7 DEF f

LEMMA SizeOfBeginning ==
  ASSUME batch \in Batches, NEW q \in Seq(Tokens), NEW b \in Seq(Tokens)
  PROVE  \A i \in 0..Len(q) : SizeUpTo(q \o b)[i] = SizeUpTo(q)[i]
<1> DEFINE f == SizeUpTo(q \o b)
           g == SizeUpTo(q)
<1>1. Len(q) \in Nat /\ Len(b) \in Nat /\ Len(q \o b) = Len(q) + Len(b) /\ q \o b \in Seq(Tokens)
  BY ConcatProperties
<1>2. f[0] = 0 /\ g[0] = 0
  BY <1>1, SizeUpToFacts
<1>3. \A i \in 1..Len(q) : f[i] = f[i - 1] + Size(q[i]) /\ g[i] = g[i - 1] + Size(q[i])
  <2>1. \A i \in 1..Len(q) : g[i] = g[i - 1] + Size(q[i])
    BY SizeUpToFacts
  <2>2. \A i \in 1..Len(q) : i \in 1..Len(q \o b) /\ (q \o b)[i] = q[i]
    BY <1>1, ConcatProperties
  <2>3. \A i \in 1..Len(q \o b) : f[i] = f[i - 1] + Size((q \o b)[i])
    BY <1>1, SizeUpToFacts
  <2> HIDE DEF f, g
  <2> QED BY <2>1, <2>2, <2>3
<1> HIDE DEF f, g
<1> DEFINE S == {n \in Nat : n <= Len(q) => f[n] = g[n]}
<1>4. 0 \in S
  BY <1>2
<1>5. ASSUME NEW n \in Nat, n \in S
      PROVE  n + 1 \in S
  <2> SUFFICES ASSUME n + 1 <= Len(q)
               PROVE  f[n + 1] = g[n + 1]
    OBVIOUS
  <2>1. n + 1 \in 1..Len(q) /\ n + 1 - 1 = n /\ n <= Len(q)
    BY <1>1
  <2>2. f[n + 1] = f[n] + Size(q[n + 1]) /\ g[n + 1] = g[n] + Size(q[n + 1])
    BY <1>3, <2>1
  <2> QED BY <1>5, <2>1, <2>2
<1> HIDE DEF S
<1>6. Nat \subseteq S
  BY <1>4, <1>5, SetInduction
<1>7. \A i \in 0..Len(q) : f[i] = g[i]
  BY <1>1, <1>6 DEF S
<1> QED BY <1>7 DEF f, g

\* Tokens that fill a packet no further than PacketSize when one of them is data.
LEMMA FitsMore ==
  ASSUME batch \in Batches, NEW q \in Seq(Tokens), NEW y \in Tokens, NEW m \in Nat, NEW n \in Nat,
         Fits(q, m), m + Size(y) <= n, IsData(y) => n <= PacketSize
  PROVE  Fits(Append(q, y), n)
<1> DEFINE a == Append(q, y)
           f == SizeUpTo(a)
           g == SizeUpTo(q)
<1>1. /\ a \in Seq(Tokens) /\ Len(a) = Len(q) + 1 /\ Len(q) \in Nat /\ a[Len(q) + 1] = y
      /\ \A i \in 1..Len(q) : a[i] = q[i]
  BY AppendProperties
<1>2. \A i \in 0..Len(q) : f[i] = g[i]
  <2>1. a = q \o <<y>> /\ <<y>> \in Seq(Tokens)
    BY AppendIsConcat
  <2> QED BY <2>1, SizeOfBeginning
<1>3. f[Len(q) + 1] = f[Len(q) + 1 - 1] + Size(y)
  <2>1. \A i \in 1..Len(a) : f[i] = f[i - 1] + Size(a[i])
    <3> HIDE DEF a
    <3> QED BY <1>1, SizeUpToFacts
  <2>2. Len(q) + 1 \in 1..Len(a)
    BY <1>1
  <2> HIDE DEF f, a
  <2> QED BY <2>1, <2>2, <1>1
<1>4. g[Len(q)] \in Nat /\ PacketSize \in Nat
  BY SizeUpToFacts, SizeAssumption
<1>5. g[Len(q)] <= m /\ \A i \in DOMAIN q : IsData(q[i]) => g[i] <= PacketSize
  BY DEF Fits
<1> HIDE DEF f, g, a
<1>6. f[Len(q) + 1] = g[Len(q)] + Size(y)
  BY <1>1, <1>2, <1>3
<1>7. f[Len(q) + 1] <= n
  BY <1>4, <1>5, <1>6, TokenSizes
<1>8. ASSUME NEW i \in DOMAIN a, IsData(a[i])
      PROVE  f[i] <= PacketSize
  <2>1. CASE i = Len(q) + 1
    <3>1. n <= PacketSize
      BY <2>1, <1>1, <1>8
    <3> QED BY <2>1, <3>1, <1>4, <1>6, <1>7, TokenSizes
  <2>2. CASE i \in 1..Len(q)
    BY <2>2, <1>1, <1>2, <1>5, <1>8
  <2> QED BY <1>1, <2>1, <2>2
<1>9. f[Len(a)] <= n
  BY <1>1, <1>7
<1> QED BY <1>8, <1>9 DEF Fits, f, a

LEMMA FitsBlock ==
  ASSUME batch \in Batches, NEW q \in Seq(Tokens), NEW k \in LobIds, NEW u \in Nat, NEW n \in Nat,
         u + n <= Length(k), NEW m \in Nat, Fits(q, m), n = 0 \/ m + n <= PacketSize
  PROVE  Fits(q \o [i \in 1..n |-> Data(k, u + i)], m + n)
<1> DEFINE b(j) == [i \in 1..j |-> Data(k, u + i)]
           S == {j \in Nat : j <= n => Fits(q \o b(j), m + j)}
<1>0. Length(k) \in Nat /\ PacketSize \in Nat
  BY LobFacts, SizeAssumption
<1>1. \A j \in 1..n : Data(k, u + j) \in Tokens /\ Size(Data(k, u + j)) = 1
  BY <1>0, TokenFacts, TokenSizes
<1>2. ASSUME NEW j \in Nat, j <= n
      PROVE  b(j) \in Seq(Tokens) /\ Len(b(j)) = j
  <2>1. \A i \in 1..j : Data(k, u + i) \in Tokens
    <3>1. \A i \in 1..j : i \in 1..n
      BY <1>2
    <3> QED BY <1>1, <3>1
  <2>2. b(j) \in [1..j -> Tokens]
    BY <2>1
  <2> HIDE DEF b
  <2> QED BY <2>2
<1>3. 0 \in S
  <2>1. b(0) = <<>> /\ m + 0 = m
    OBVIOUS
  <2>2. q \o <<>> = q
    BY ConcatEmptySeq
  <2>3. Fits(q \o b(0), m + 0)
    BY <2>1, <2>2
  <2> HIDE DEF b
  <2> QED BY <2>3
<1>4. ASSUME NEW j \in Nat, j \in S, j + 1 <= n
      PROVE  Fits(q \o b(j + 1), m + (j + 1))
  <2>1. j <= n /\ j + 1 \in 1..n /\ m + j \in Nat /\ m + (j + 1) \in Nat /\ n # 0
    BY <1>4
  <2> DEFINE y == Data(k, u + (j + 1))
  <2>2. b(j + 1) = Append(b(j), y)
    <3>1. b(j) \in Seq(Tokens) /\ b(j + 1) \in Seq(Tokens) /\ Len(b(j)) = j /\ Len(b(j + 1)) = j + 1
      <4>1. j + 1 \in Nat /\ j + 1 <= n
        BY <1>4
      <4> HIDE DEF b
      <4> QED BY <2>1, <4>1, <1>2
    <3>2. y \in Tokens
      BY <2>1, <1>1
    <3>3. /\ Append(b(j), y) \in Seq(Tokens) /\ Len(Append(b(j), y)) = j + 1
          /\ \A i \in 1..j : Append(b(j), y)[i] = b(j)[i]
          /\ Append(b(j), y)[j + 1] = y
      <4> HIDE DEF b, y
      <4>1. Len(b(j)) = j /\ b(j) \in Seq(Tokens)
        BY <3>1
      <4>2. /\ Append(b(j), y) \in Seq(Tokens) /\ Len(Append(b(j), y)) = Len(b(j)) + 1
            /\ \A i \in 1..Len(b(j)) : Append(b(j), y)[i] = b(j)[i]
            /\ Append(b(j), y)[Len(b(j)) + 1] = y
        BY <3>2, <4>1, AppendProperties
      <4> QED BY <4>1, <4>2
    <3>4. \A i \in 1..j + 1 : b(j + 1)[i] = IF i \in 1..j THEN b(j)[i] ELSE y
      OBVIOUS
    <3> HIDE DEF b, y
    <3>5. \A i \in 1..j + 1 : b(j + 1)[i] = Append(b(j), y)[i]
      BY <3>3, <3>4
    <3> QED BY <3>1, <3>3, <3>5, SeqEqual
  <2>3. Fits(q \o b(j), m + j)
    BY <1>4, <2>1
  <2>4. b(j) \in Seq(Tokens) /\ y \in Tokens /\ Size(y) = 1
    BY <2>1, <1>1, <1>2
  <2>5. m + (j + 1) <= PacketSize
    BY <2>1, <1>0, <1>4
  <2> HIDE DEF b, y
  <2>6. q \o b(j) \in Seq(Tokens)
    BY <2>4, ConcatProperties
  <2>7. Fits(Append(q \o b(j), y), m + (j + 1))
    <3>1. m + j + Size(y) <= m + (j + 1)
      BY <2>4
    <3> QED BY <2>1, <2>3, <2>4, <2>5, <2>6, <3>1, FitsMore
  <2>8. Append(q \o b(j), y) = q \o Append(b(j), y)
    <3>1. <<y>> \in Seq(Tokens)
      BY <2>4
    <3>2. Append(q \o b(j), y) = (q \o b(j)) \o <<y>>
      BY <2>4, <2>6, AppendIsConcat
    <3>3. Append(b(j), y) = b(j) \o <<y>>
      BY <2>4, AppendIsConcat
    <3>4. (q \o b(j)) \o <<y>> = q \o (b(j) \o <<y>>)
      BY <2>4, <3>1, ConcatAssociative, SMTT(30)
    <3> QED BY <3>2, <3>3, <3>4
  <2> QED BY <2>2, <2>7, <2>8
<1>5. \A j \in Nat : j \in S => j + 1 \in S
  <2> HIDE DEF b
  <2> QED BY <1>4
<1> HIDE DEF S
<1>6. Nat \subseteq S
  BY <1>3, <1>5, SetInduction
<1>7. n \in S
  BY <1>6
<1> QED BY <1>7 DEF S

LEMMA FitsNothing ==
  ASSUME batch \in Batches, NEW n \in Nat
  PROVE  Fits(<<>>, n)
<1>1. <<>> \in Seq(Tokens) /\ Len(<<>>) = 0 /\ DOMAIN <<>> = {}
  OBVIOUS
<1>2. SizeUpTo(<<>>)[0] = 0
  BY <1>1, SizeUpToFacts
<1> QED BY <1>1, <1>2 DEF Fits

-----------------------------------------------------------------------------
(* The task and its Writer *)

LEMMA TaskTypes ==
  ASSUME NEW t \in Task
  PROVE  /\ t.started \in BOOLEAN /\ t.next \in Nat /\ t.autoCommit \in BOOLEAN
         /\ t.needFinalize \in BOOLEAN /\ t.params \in BOOLEAN /\ t.row \in Nat
         /\ t.lobs \in Seq(Nat) /\ t.buffers \in Seq(Tokens) /\ t.bytes \in Nat
         /\ t.args \in Seq(Tokens) /\ t.argBytes \in Nat /\ t.attached \in Modes \cup {"none"}
         /\ t.room \in Int /\ t.streams \in [LobIds -> Stream] /\ t.immediates \in Seq(Call)
         /\ t.requests \in Seq(Request) /\ t.receive \in Requests \cup {"none"}
         /\ t.calls \in Nat /\ t.outcome \in {"none", "ok", "error"}
BY DEF Task

LEMMA StreamFacts ==
  ASSUME batch \in Batches, NEW t, Turns(t), NEW k \in LobIds
  PROVE  /\ t.streams[k] \in Stream
         /\ t.streams[k].buffered \in Nat /\ t.streams[k].left \in Nat
         /\ t.streams[k].ended \in BOOLEAN /\ t.streams[k].errored \in BOOLEAN
         /\ UnitsRead(t, k) \in Nat /\ Length(k) \in Nat
         /\ UnitsRead(t, k) + t.streams[k].left + t.streams[k].buffered = Length(k)
<1>1. t.streams[k] \in Stream
  BY TaskTypes DEF Turns
<1>2. /\ t.streams[k].buffered \in Nat /\ t.streams[k].left \in Nat
      /\ t.streams[k].ended \in BOOLEAN /\ t.streams[k].errored \in BOOLEAN
  BY <1>1 DEF Stream
<1>3. t.streams[k].left + t.streams[k].buffered <= Length(k) /\ Length(k) \in Nat
  BY LobFacts DEF Turns, StreamInv
<1> QED BY <1>1, <1>2, <1>3 DEF UnitsRead

\* The LOB in hand, and the one behind it.
LEMMA LobInHand ==
  ASSUME batch \in Batches, NEW t, Turns(t), t.lobs # <<>>
  PROVE  /\ Lob(t) \in LobIds /\ Lob(t)[1] = t.row /\ t.row \in RowIds
         /\ Lob(t)[2] = Len(Rows[t.row].lobs) - Len(t.lobs) + 1
         /\ Len(Rows[t.row].lobs) \in Nat /\ Len(t.lobs) \in Nat /\ Len(t.lobs) > 0
         /\ Lob(t)[2] <= Len(Rows[t.row].lobs)
<1>1. /\ t.row \in Nat /\ t.lobs \in Seq(Nat) /\ t.row <= Len(Rows)
      /\ t.row > 0 /\ Len(t.lobs) <= Len(Rows[t.row].lobs)
      /\ \A i \in DOMAIN t.lobs : t.lobs[i] = Len(Rows[t.row].lobs) - Len(t.lobs) + i
  BY TaskTypes DEF Turns, LastLobs
<1>2. t.row \in RowIds /\ Len(Rows[t.row].lobs) \in Nat
  BY <1>1, RowFacts
<1>3. Len(t.lobs) \in Nat /\ Len(t.lobs) > 0 /\ 1 \in DOMAIN t.lobs /\ Head(t.lobs) = t.lobs[1]
  BY <1>1
<1>4. Head(t.lobs) = Len(Rows[t.row].lobs) - Len(t.lobs) + 1
  BY <1>1, <1>3
<1>5. Head(t.lobs) \in 1..Len(Rows[t.row].lobs)
  <2>1. Len(t.lobs) <= Len(Rows[t.row].lobs)
    BY <1>1, <1>3
  <2>2. \A i, j \in Nat : 0 < i /\ i <= j => j - i + 1 \in 1..j
    OBVIOUS
  <2> QED BY <2>1, <2>2, <1>2, <1>3, <1>4
<1>6. <<t.row, Head(t.lobs)>> \in LobIds
  BY <1>2, <1>5, LobFacts
<1>7. Lob(t) = <<t.row, Head(t.lobs)>> /\ Lob(t)[1] = t.row /\ Lob(t)[2] = Head(t.lobs)
  BY DEF Lob
<1>8. Head(t.lobs) <= Len(Rows[t.row].lobs)
  BY <1>2, <1>5
<1> QED BY <1>2, <1>3, <1>4, <1>6, <1>7, <1>8

LEMMA PositionFacts ==
  ASSUME batch \in Batches, NEW t, Turns(t)
  PROVE  /\ Position(t) \in Triples
         /\ t.lobs = <<>> => Position(t) = RowToken(t.row + 1)
         /\ t.lobs # <<>> => Position(t) = Data(Lob(t), UnitsRead(t, Lob(t)) + 1)
<1>1. \A i, j, l \in Nat : <<i, j, l>> \in Triples
  BY DEF Triples
<1>2. t.row + 1 \in Nat
  BY TaskTypes DEF Turns
<1>3. CASE t.lobs = <<>>
  BY <1>1, <1>2, <1>3 DEF Position, RowToken
<1>4. CASE t.lobs # <<>>
  <2>1. Lob(t) \in LobIds
    BY <1>4, LobInHand
  <2>2. Lob(t)[1] \in Nat /\ Lob(t)[2] \in Nat /\ UnitsRead(t, Lob(t)) + 1 \in Nat
    BY <2>1, LobFacts, StreamFacts
  <2>3. Position(t) = Data(Lob(t), UnitsRead(t, Lob(t)) + 1)
    BY <1>4 DEF Position
  <2>4. Position(t) = <<Lob(t)[1], Lob(t)[2], UnitsRead(t, Lob(t)) + 1>>
    BY <2>3 DEF Data
  <2> QED BY <1>1, <1>4, <2>2, <2>3, <2>4
<1> QED BY <1>3, <1>4

\* Nothing that the Writer packs has changed.
SameWriter(t, u) ==
  /\ u.next = t.next /\ u.params = t.params /\ u.row = t.row /\ u.lobs = t.lobs
  /\ u.buffers = t.buffers /\ u.bytes = t.bytes /\ u.args = t.args /\ u.argBytes = t.argBytes
  /\ u.room = t.room /\ u.streams = t.streams /\ (u.autoCommit => t.autoCommit)

LEMMA SameWriterFacts ==
  ASSUME NEW t, NEW u, SameWriter(t, u)
  PROVE  /\ Position(u) = Position(t)
         /\ u \in Task /\ Turns(t) => Turns(u)
         /\ NoneFailed(t) => NoneFailed(u)
         /\ \A s, mode : Packing(t, s, mode) => Packing(u, s, mode)
         /\ RowInHand(t) => RowInHand(u)
<1>1. /\ u.next = t.next /\ u.params = t.params /\ u.row = t.row /\ u.lobs = t.lobs
      /\ u.buffers = t.buffers /\ u.bytes = t.bytes /\ u.args = t.args /\ u.argBytes = t.argBytes
      /\ u.room = t.room /\ u.streams = t.streams /\ (u.autoCommit => t.autoCommit)
  BY DEF SameWriter
<1>2. Lob(u) = Lob(t) /\ \A k : UnitsRead(u, k) = UnitsRead(t, k)
  BY <1>1 DEF Lob, UnitsRead
<1>3. Position(u) = Position(t)
  BY <1>1, <1>2 DEF Position
<1>4. u \in Task /\ Turns(t) => Turns(u)
  <2>1. LastLobs(t) => LastLobs(u)
    BY <1>1 DEF LastLobs
  <2>2. StreamInv(t) => StreamInv(u)
    BY <1>1, <1>2, <1>3 DEF StreamInv
  <2> QED BY <1>1, <2>1, <2>2 DEF Turns
<1>5. NoneFailed(t) => NoneFailed(u)
  BY <1>1 DEF NoneFailed
<1>6. ASSUME NEW s, NEW mode, Packing(t, s, mode)
      PROVE  Packing(u, s, mode)
  <2>1. Kept(u, mode) = Kept(t, mode) /\ KeptBytes(u, mode) = KeptBytes(t, mode)
    BY <1>1 DEF Kept, KeptBytes
  <2> QED BY <1>1, <1>3, <1>5, <1>6, <2>1 DEF Packing
<1>7. RowInHand(t) => RowInHand(u)
  BY <1>1, <1>5 DEF RowInHand
<1> QED BY <1>3, <1>4, <1>5, <1>6, <1>7

\* The task is at work and waits for no reply.
Working(t, d, x) == Turns(t) /\ Uncommitted(t, d, x) /\ NotCalled(t) /\ NoRequest(t)

\* The Writer has packed or dropped what it held; the task is where it was.
SamePlace(t, u) ==
  /\ u \in Task /\ u.next = t.next /\ u.row = t.row /\ u.lobs = t.lobs /\ u.streams = t.streams
  /\ u.autoCommit = t.autoCommit /\ u.needFinalize = t.needFinalize
  /\ u.started = t.started /\ u.calls = t.calls /\ u.outcome = t.outcome
  /\ u.attached = t.attached /\ u.immediates = t.immediates
  /\ u.requests = t.requests /\ u.receive = t.receive

LEMMA SamePlaceFacts ==
  ASSUME NEW t, NEW u, SamePlace(t, u)
  PROVE  /\ Position(u) = Position(t) /\ (NoneFailed(t) => NoneFailed(u)) /\ (NoCall(t) => NoCall(u))
         /\ \A d, x : Working(t, d, x) => Working(u, d, x)
<1>1. Lob(u) = Lob(t) /\ \A k : UnitsRead(u, k) = UnitsRead(t, k)
  BY DEF SamePlace, Lob, UnitsRead
<1>2. Position(u) = Position(t)
  BY <1>1 DEF SamePlace, Position
<1>3. (NoneFailed(t) => NoneFailed(u)) /\ (NoCall(t) => NoCall(u))
  BY DEF SamePlace, NoneFailed, NoCall
<1>4. (LastLobs(t) => LastLobs(u)) /\ (StreamInv(t) => StreamInv(u))
  BY <1>1, <1>2 DEF SamePlace, LastLobs, StreamInv
<1>5. ASSUME NEW d, NEW x, Working(t, d, x)
      PROVE  Working(u, d, x)
  BY <1>4, <1>5 DEF SamePlace, Working, Turns, Uncommitted, NotCalled, NoRequest
<1> QED BY <1>2, <1>3, <1>5

\* The streams are as before, and the Writer goes on behind its position.
LEMMA StreamsStay ==
  ASSUME batch \in Batches, NEW t, NEW u, Turns(t), u.streams = t.streams,
         Position(u) \in Triples, Precedes(Position(t), Position(u))
  PROVE  StreamInv(u)
<1>1. \A k : UnitsRead(u, k) = UnitsRead(t, k)
  BY DEF UnitsRead
<1>2. ASSUME NEW k \in LobIds, Precedes(Position(u), Data(k, 1))
      PROVE  UnitsRead(u, k) = 0
  <2>1. Data(k, 1) \in Triples
    <3>1. k[1] \in Nat /\ k[2] \in Nat
      BY LobFacts
    <3> QED BY <3>1 DEF Data, Triples
  <2>2. Precedes(Position(t), Data(k, 1))
    BY <2>1, <1>2, PositionFacts, OrderFacts
  <2> QED BY <2>2, <1>1 DEF Turns, StreamInv
<1> QED BY <1>2 DEF Turns, StreamInv

-----------------------------------------------------------------------------
(* Reading a LOB *)

LEMMA Associative ==
  ASSUME NEW a \in Seq(Tokens), NEW b \in Seq(Tokens), NEW c \in Seq(Tokens)
  PROVE  a \o b \in Seq(Tokens) /\ (a \o b) \o c = a \o (b \o c)
<1>1. a \o b \in Seq(Tokens)
  BY ConcatProperties
<1>2. (a \o b) \o c = a \o (b \o c)
  BY ConcatAssociative
<1> QED BY <1>1, <1>2

LEMMA AppendLast ==
  ASSUME NEW a \in Seq(Tokens), NEW b \in Seq(Tokens), NEW y \in Tokens
  PROVE  a \o Append(b, y) = Append(a \o b, y)
<1>1. <<y>> \in Seq(Tokens) /\ a \o b \in Seq(Tokens)
  BY Associative
<1>2. Append(b, y) = b \o <<y>> /\ Append(a \o b, y) = (a \o b) \o <<y>>
  BY <1>1, AppendIsConcat
<1>3. (a \o b) \o <<y>> = a \o (b \o <<y>>)
  BY <1>1, Associative
<1> QED BY <1>2, <1>3

\* A token has been added to the buffers.
Appended(t, u, y) == u.args = t.args /\ u.buffers = Append(t.buffers, y)

LEMMA KeptAppends ==
  ASSUME NEW t \in Task, NEW u, NEW y \in Tokens, Appended(t, u, y), NEW s \in Seq(Tokens), NEW mode
  PROVE  /\ Kept(t, mode) \in Seq(Tokens) /\ s \o Kept(t, mode) \in Seq(Tokens)
         /\ Kept(u, mode) = Append(Kept(t, mode), y)
         /\ s \o Kept(u, mode) = Append(s \o Kept(t, mode), y)
<1>1. t.args \in Seq(Tokens) /\ t.buffers \in Seq(Tokens)
  BY TaskTypes
<1>2. Kept(t, mode) \in Seq(Tokens)
  BY <1>1, Associative DEF Kept
<1>3. t.args \o Append(t.buffers, y) = Append(t.args \o t.buffers, y)
  BY <1>1, AppendLast
<1>4. Kept(u, mode) = Append(Kept(t, mode), y)
  BY <1>3 DEF Kept, Appended
<1>5. s \o Kept(t, mode) \in Seq(Tokens)
  BY <1>2, Associative
<1>6. s \o Append(Kept(t, mode), y) = Append(s \o Kept(t, mode), y)
  BY <1>2, AppendLast
<1> QED BY <1>2, <1>4, <1>5, <1>6

LEMMA ArgsThenBuffers ==
  ASSUME NEW t, NEW b \in Seq(Tokens), t.args \in Seq(Tokens), t.buffers \in Seq(Tokens)
  PROVE  (t.args \o t.buffers) \o b = t.args \o (t.buffers \o b)
BY Associative, Zenon

LEMMA PackingTypes ==
  ASSUME batch \in Batches, NEW t \in Task, NEW mode \in Modes
  PROVE  /\ Kept(t, mode) \in Seq(Tokens) /\ KeptBytes(t, mode) \in Nat /\ Limit(mode) \in Nat
         /\ PacketSize \in Nat /\ PacketSize <= Limit(mode)
         /\ LobHeader \in Nat /\ LobHeader < PacketSize
<1>1. /\ t.args \in Seq(Tokens) /\ t.buffers \in Seq(Tokens) /\ t.bytes \in Nat /\ t.argBytes \in Nat
  BY TaskTypes
<1>2. Kept(t, mode) \in Seq(Tokens)
  BY <1>1, ConcatProperties DEF Kept
<1> QED BY <1>1, <1>2, SizeAssumption DEF KeptBytes, Limit

LEMMA NotTheLast ==
  ASSUME NEW n \in Nat, NEW l \in Nat, NEW i, i = n - l + 1, l - 1 > 0, l <= n
  PROVE  i \in Nat /\ i # n /\ i + 1 \in 1..n /\ i + 1 = n - (l - 1) + 1
OBVIOUS

LEMMA FinalizeLobPacks ==
  ASSUME batch \in Batches, NEW t, Turns(t), NEW s \in Seq(Tokens), NEW mode \in Modes,
         t.lobs # <<>>, Packing(t, s, mode), Complete(t.streams[Lob(t)])
  PROVE  Turns(FinalizeLob(t)) /\ Packing(FinalizeLob(t), s, mode)
<1> DEFINE k == Lob(t)
           u == FinalizeLob(t)
           y == LastData(k)
           n == Len(Rows[t.row].lobs)
<1>1. t \in Task
  BY DEF Turns
<1>2. /\ k \in LobIds /\ k[1] = t.row /\ t.row \in RowIds /\ k[2] = n - Len(t.lobs) + 1
      /\ n \in Nat /\ Len(t.lobs) \in Nat /\ Len(t.lobs) > 0 /\ k[2] <= n
  BY LobInHand
<1>3. UnitsRead(t, k) = Length(k) /\ Length(k) \in Nat
  <2>1. /\ t.streams[k].buffered = 0 /\ t.streams[k].left = 0
    BY <1>2 DEF Turns, StreamInv, Complete
  <2> HIDE DEF k
  <2> QED BY <1>2, <2>1, StreamFacts
<1>4. Position(t) = y
  BY <1>3, PositionFacts DEF LastData
<1>5. u = [t EXCEPT !.buffers = Append(@, y), !.lobs = Tail(@)]
  BY DEF FinalizeLob
<1> HIDE DEF u, y, n
<1>6. y \in Tokens /\ t.buffers \in Seq(Tokens) /\ t.lobs \in Seq(Nat)
  <2>1. Length(k) + 1 \in 1..Length(k) + 1
    BY <1>3
  <2>2. LastData(k) \in Tokens
    BY <1>2, <2>1, TokenFacts DEF LastData
  <2> QED BY <1>1, <2>2, TaskTypes DEF y
<1>7. u \in Task
  <2>1. Append(t.buffers, y) \in Seq(Tokens) /\ Tail(t.lobs) \in Seq(Nat)
    BY <1>6
  <2> QED BY <1>1, <1>5, <2>1 DEF Task
<1>8. /\ u.next = t.next /\ u.row = t.row /\ u.streams = t.streams /\ u.params = t.params
      /\ u.autoCommit = t.autoCommit /\ u.args = t.args /\ u.argBytes = t.argBytes
      /\ u.bytes = t.bytes /\ u.room = t.room
      /\ u.buffers = Append(t.buffers, y) /\ u.lobs = Tail(t.lobs)
  BY <1>1, <1>5 DEF Task
<1>10. /\ Len(u.lobs) = Len(t.lobs) - 1 /\ Len(u.lobs) \in Nat /\ u.lobs \in Seq(Nat)
       /\ \A i \in DOMAIN u.lobs : /\ u.lobs[i] = t.lobs[i + 1] /\ i \in Nat /\ i > 0
                                   /\ i + 1 \in DOMAIN t.lobs
  <2>1. /\ Len(Tail(t.lobs)) = Len(t.lobs) - 1 /\ Tail(t.lobs) \in Seq(Nat)
        /\ \A i \in 1..Len(Tail(t.lobs)) : Tail(t.lobs)[i] = t.lobs[i + 1]
    BY <1>6, HeadTailProperties
  <2>2. DOMAIN Tail(t.lobs) = 1..Len(Tail(t.lobs)) /\ DOMAIN t.lobs = 1..Len(t.lobs)
    BY <1>6, <2>1
  <2>3. \A i \in 1..Len(Tail(t.lobs)) : i \in Nat /\ i > 0 /\ i + 1 \in 1..Len(t.lobs)
    BY <2>1, <1>2
  <2>4. /\ Len(Tail(t.lobs)) \in Nat
        /\ \A i \in DOMAIN Tail(t.lobs) : /\ Tail(t.lobs)[i] = t.lobs[i + 1] /\ i \in Nat /\ i > 0
                                         /\ i + 1 \in DOMAIN t.lobs
    BY <2>1, <2>2, <2>3
  <2>5. u.lobs = Tail(t.lobs)
    BY <1>8
  <2> QED BY <2>1, <2>4, <2>5
<1>11. LastLobs(u)
  <2> SUFFICES ASSUME u.lobs # <<>>
               PROVE  /\ u.row > 0 /\ Len(u.lobs) <= n
                      /\ \A i \in DOMAIN u.lobs : u.lobs[i] = n - Len(u.lobs) + i
    BY <1>8 DEF LastLobs, n
  <2>1. t.row > 0 /\ Len(t.lobs) <= n /\ \A i \in DOMAIN t.lobs : t.lobs[i] = n - Len(t.lobs) + i
    BY DEF Turns, LastLobs, n
  <2>2. ASSUME NEW i \in DOMAIN u.lobs
        PROVE  u.lobs[i] = n - Len(u.lobs) + i
    <3>1. u.lobs[i] = n - Len(t.lobs) + (i + 1) /\ i \in Nat
      BY <1>10, <2>1
    <3>2. Len(u.lobs) = Len(t.lobs) - 1
      BY <1>10
    <3>3. \A j \in Nat : n - Len(t.lobs) + (j + 1) = n - (Len(t.lobs) - 1) + j
      BY <1>2
    <3> QED BY <3>1, <3>2, <3>3
  <2>3. Len(u.lobs) <= n
    <3>1. Len(u.lobs) = Len(t.lobs) - 1 /\ Len(t.lobs) \in Nat /\ Len(t.lobs) <= n /\ n \in Nat
      BY <1>2, <1>10, <2>1
    <3> QED BY <3>1
  <2> QED BY <1>8, <2>1, <2>2, <2>3
<1>12. UpTo(s \o Kept(t, mode), y)
  BY <1>4 DEF Packing
<1>13. /\ Kept(t, mode) \in Seq(Tokens) /\ s \o Kept(t, mode) \in Seq(Tokens)
       /\ Kept(u, mode) = Append(Kept(t, mode), y)
       /\ s \o Kept(u, mode) = Append(s \o Kept(t, mode), y)
  <2>1. Appended(t, u, y)
    BY <1>8 DEF Appended
  <2> QED BY <1>1, <1>6, <2>1, KeptAppends, SMTT(30)
<1>14. /\ BehindLob(k) \in Triples /\ Precedes(y, BehindLob(k))
       /\ UpTo(Append(s \o Kept(t, mode), y), BehindLob(k))
  <2> HIDE DEF k
  <2> QED BY <1>2, <1>12, <1>13, FinishesLob DEF y
<1>15. Position(u) = BehindLob(k)
  <2>1. CASE u.lobs = <<>>
    <3>0. Len(u.lobs) = 0 /\ Len(t.lobs) = 1
      BY <2>1, <1>2, <1>10
    <3>1. k[2] = n
      BY <3>0, <1>2
    <3>2. Position(u) = RowToken(t.row + 1)
      BY <2>1, <1>8 DEF Position
    <3>3. BehindLob(k) = RowToken(t.row + 1)
      <4>1. k[1] = t.row /\ k[2] = Len(Rows[t.row].lobs)
        BY <3>1, <1>2 DEF n
      <4> HIDE DEF k
      <4> QED BY <4>1, Zenon DEF BehindLob
    <3> QED BY <3>2, <3>3
  <2>2. CASE u.lobs # <<>>
    <3> DEFINE j == <<k[1], k[2] + 1>>
    <3>1. Len(u.lobs) > 0 /\ 1 \in DOMAIN u.lobs /\ Head(u.lobs) = u.lobs[1]
      BY <2>2, <1>10
    <3>2. Len(u.lobs) \in Nat /\ Head(u.lobs) = n - Len(u.lobs) + 1 /\ Len(u.lobs) <= n
      <4>1. Len(u.lobs) <= n /\ \A i \in DOMAIN u.lobs : u.lobs[i] = n - Len(u.lobs) + i
        BY <2>2, <1>8, <1>11 DEF LastLobs, n
      <4> QED BY <3>1, <4>1, <1>10
    <3>3. k[2] + 1 = Head(u.lobs) /\ k[2] # n /\ k[2] + 1 \in 1..n
      <4>1. Len(t.lobs) - 1 > 0 /\ Len(u.lobs) = Len(t.lobs) - 1
        BY <3>1, <1>10
      <4>2. n \in Nat /\ Len(t.lobs) \in Nat /\ k[2] = n - Len(t.lobs) + 1 /\ Len(t.lobs) <= n
        BY <1>2 DEF Turns, LastLobs, n
      <4> HIDE DEF k
      <4>3. k[2] # n /\ k[2] + 1 \in 1..n /\ k[2] + 1 = n - (Len(t.lobs) - 1) + 1
        BY <4>1, <4>2, NotTheLast, Zenon
      <4> QED BY <3>2, <4>1, <4>3, Zenon
    <3>4. Lob(u) = j /\ j \in LobIds
      BY <3>3, <1>2, <1>8, LobFacts DEF Lob, n
    <3>5. Precedes(y, Data(j, 1))
      BY <3>3, <1>2, <1>14 DEF BehindLob, n
    <3>6. UnitsRead(t, j) = 0
      BY <3>4, <3>5, <1>4 DEF Turns, StreamInv
    <3>7. UnitsRead(u, j) = 0
      BY <3>6, <1>8 DEF UnitsRead
    <3>8. Position(u) = Data(j, 0 + 1)
      BY <2>2, <3>4, <3>7 DEF Position
    <3> QED BY <3>3, <3>8, <1>2 DEF BehindLob, n
  <2> QED BY <2>1, <2>2
<1>16. StreamInv(u)
  BY <1>4, <1>8, <1>14, <1>15, StreamsStay
<1>17. Turns(u)
  BY <1>7, <1>8, <1>11, <1>16 DEF Turns
<1>18. NoneFailed(u)
  BY <1>8 DEF Packing, NoneFailed
<1>19. KeptBytes(u, mode) = KeptBytes(t, mode)
  BY <1>8 DEF KeptBytes
<1>20. Fits(Kept(u, mode), KeptBytes(u, mode))
  <2>1. KeptBytes(t, mode) \in Nat /\ Fits(Kept(t, mode), KeptBytes(t, mode))
    BY <1>1, PackingTypes DEF Packing
  <2>2. Size(y) = 0 /\ ~IsData(y)
    BY <1>2, TokenSizes DEF y
  <2>3. KeptBytes(t, mode) + Size(y) <= KeptBytes(t, mode)
    BY <2>1, <2>2
  <2> QED BY <1>6, <1>13, <1>19, <2>1, <2>2, <2>3, FitsMore
<1>21. u.buffers # <<>>
  BY <1>6, <1>8, AppendProperties, SMTT(30)
<1>22. Packing(u, s, mode)
  BY <1>8, <1>13, <1>14, <1>15, <1>18, <1>19, <1>20, <1>21 DEF Packing
<1> QED BY <1>17, <1>22 DEF u

\* The part of onreadable that reads n units.
ReadUnits(t, n) ==
  [t EXCEPT !.streams[Lob(t)].buffered = @ - n, !.bytes = @ + n, !.room = @ - n,
            !.buffers = @ \o [i \in 1..n |-> Data(Lob(t), UnitsRead(t, Lob(t)) + i)]]

LEMMA StreamRead ==
  ASSUME NEW st \in Stream, NEW n \in Nat, n <= st.buffered
  PROVE  [st EXCEPT !.buffered = @ - n] \in Stream
BY DEF Stream

LEMMA UnitsAddUp ==
  ASSUME NEW len \in Nat, NEW left \in Nat, NEW buffered \in Nat, NEW n \in Nat, n <= buffered,
         left + buffered <= len
  PROVE  /\ len - left - (buffered - n) = (len - left - buffered) + n
         /\ (len - left - buffered) + n <= len /\ left + (buffered - n) <= len
OBVIOUS

LEMMA ReadUnitsPacks ==
  ASSUME batch \in Batches, NEW t, Turns(t), NEW s \in Seq(Tokens), NEW mode \in Modes,
         t.lobs # <<>>, Packing(t, s, mode),
         NEW n \in Nat, n <= t.streams[Lob(t)].buffered, n <= t.room
  PROVE  Turns(ReadUnits(t, n)) /\ Packing(ReadUnits(t, n), s, mode)
<1> DEFINE k == Lob(t)
           r == UnitsRead(t, k)
           b == [i \in 1..n |-> Data(k, r + i)]
           u == ReadUnits(t, n)
<1>1. t \in Task /\ k \in LobIds
  BY LobInHand DEF Turns
<1>2. /\ t.streams \in [LobIds -> Stream] /\ t.streams[k] \in Stream
      /\ t.streams[k].buffered \in Nat /\ t.streams[k].left \in Nat
      /\ r \in Nat /\ Length(k) \in Nat /\ r + t.streams[k].left + t.streams[k].buffered = Length(k)
  <2> HIDE DEF k
  <2> QED BY <1>1, StreamFacts, TaskTypes
<1>30. n <= t.streams[k].buffered
  OBVIOUS
<1>3. Position(t) = Data(k, r + 1)
  BY PositionFacts
<1>4. t.bytes \in Nat /\ t.room \in Int /\ t.buffers \in Seq(Tokens)
  BY <1>1, TaskTypes
<1>5. /\ u.next = t.next /\ u.row = t.row /\ u.lobs = t.lobs /\ u.params = t.params
      /\ u.autoCommit = t.autoCommit /\ u.args = t.args /\ u.argBytes = t.argBytes
      /\ u.bytes = t.bytes + n /\ u.room = t.room - n /\ u.buffers = t.buffers \o b
  BY <1>1 DEF ReadUnits, Task
<1>6. u.streams = [t.streams EXCEPT ![k].buffered = @ - n]
  BY <1>1 DEF ReadUnits, Task
<1>7. /\ r = Length(k) - t.streams[k].left - t.streams[k].buffered /\ r + n <= Length(k)
      /\ Length(k) - t.streams[k].left - (t.streams[k].buffered - n) = r + n
      /\ t.streams[k].left + (t.streams[k].buffered - n) <= Length(k)
  <2>1. r = Length(k) - t.streams[k].left - t.streams[k].buffered
    BY DEF UnitsRead
  <2>2. t.streams[k].left + t.streams[k].buffered <= Length(k)
    BY <1>1 DEF Turns, StreamInv
  <2> DEFINE len == Length(k)
             left == t.streams[k].left
             buffered == t.streams[k].buffered
  <2>3. /\ len \in Nat /\ left \in Nat /\ buffered \in Nat /\ n <= buffered
        /\ left + buffered <= len /\ r = len - left - buffered
    BY <1>2, <1>30, <2>1, <2>2
  <2> HIDE DEF len, left, buffered, k, r
  <2>4. /\ len - left - (buffered - n) = r + n /\ r + n <= len /\ left + (buffered - n) <= len
    BY <2>3, UnitsAddUp
  <2> QED BY <2>3, <2>4 DEF len, left, buffered
<1>8. UpTo(s \o Kept(t, mode), Data(k, r + 1))
  BY <1>3 DEF Packing
<1>9. Kept(t, mode) \in Seq(Tokens) /\ KeptBytes(t, mode) \in Nat /\ s \o Kept(t, mode) \in Seq(Tokens)
  BY <1>1, PackingTypes, Associative
<1> HIDE DEF k, r
<1>10. b \in Seq(Tokens) /\ UpTo((s \o Kept(t, mode)) \o b, Data(k, r + n + 1))
  <2>1. r + n <= Length(k) /\ r \in Nat /\ s \o Kept(t, mode) \in Seq(Tokens)
    BY <1>2, <1>7, <1>9
  <2> QED BY <1>1, <1>8, <2>1, ReadsOn DEF b
<1>11. /\ t.buffers \o b \in Seq(Tokens)
       /\ [t.streams EXCEPT ![k].buffered = @ - n] \in [LobIds -> Stream]
  <2>1. [t.streams[k] EXCEPT !.buffered = @ - n] \in Stream
    BY <1>2, <1>30, StreamRead
  <2>2. t.buffers \o b \in Seq(Tokens)
    <3> HIDE DEF b
    <3> QED BY <1>4, <1>10, Associative
  <2> QED BY <1>1, <1>2, <2>1, <2>2
<1>12. u \in Task
  <2>1. u = [t EXCEPT !.streams = [t.streams EXCEPT ![k].buffered = @ - n], !.bytes = t.bytes + n,
                      !.room = t.room - n, !.buffers = t.buffers \o b]
    BY DEF ReadUnits, k, r
  <2>2. t.bytes + n \in Nat /\ t.room - n \in Int
    BY <1>4
  <2> HIDE DEF u, b
  <2> QED BY <1>1, <1>11, <2>1, <2>2 DEF Task
<1> HIDE DEF b, u
<1>14. /\ Kept(u, mode) = Kept(t, mode) \o b
       /\ s \o Kept(u, mode) = (s \o Kept(t, mode)) \o b
  <2>1. t \in Task /\ b \in Seq(Tokens)
    BY <1>1, <1>10
  <2>2. Kept(u, mode) = Kept(t, mode) \o b
    <3>1. u.args = t.args /\ u.buffers = t.buffers \o b
      BY <1>5
    <3>2. t.args \in Seq(Tokens) /\ t.buffers \in Seq(Tokens)
      BY <2>1, TaskTypes
    <3>3. (t.args \o t.buffers) \o b = t.args \o (t.buffers \o b)
      BY <2>1, <3>2, ArgsThenBuffers, Zenon
    <3>4. CASE mode = "parameters"
      BY <3>1, <3>3, <3>4, Zenon DEF Kept
    <3>5. CASE mode # "parameters"
      BY <3>1, <3>5, Zenon DEF Kept
    <3> QED BY <3>4, <3>5
  <2>3. s \o (Kept(t, mode) \o b) = (s \o Kept(t, mode)) \o b
    BY <2>1, <1>9, Associative, Zenon
  <2> QED BY <2>2, <2>3
<1>15. Lob(u) = k /\ u.lobs # <<>>
  BY <1>5 DEF Lob, k
<1>16. /\ u.streams[k].buffered = t.streams[k].buffered - n /\ u.streams[k].left = t.streams[k].left
       /\ u.streams[k].ended = t.streams[k].ended /\ u.streams[k].errored = t.streams[k].errored
       /\ \A j \in LobIds : j # k => u.streams[j] = t.streams[j]
  BY <1>1, <1>2, <1>6 DEF Stream
<1>17. UnitsRead(u, k) = r + n /\ \A j \in LobIds : j # k => UnitsRead(u, j) = UnitsRead(t, j)
  <2>1. UnitsRead(u, k) = r + n
    <3>1. UnitsRead(u, k) = Length(k) - t.streams[k].left - (t.streams[k].buffered - n)
      BY <1>16 DEF UnitsRead
    <3> QED BY <1>7, <3>1
  <2> QED BY <2>1, <1>16 DEF UnitsRead
<1>18. Position(u) = Data(k, r + n + 1)
  BY <1>15, <1>17 DEF Position
<1>19. \A j \in LobIds : Data(j, 1) \in Triples /\ j[1] \in Nat /\ j[2] \in Nat
  BY LobFacts DEF Data, Triples
<1>20. StreamInv(u)
  <2>1. ASSUME NEW j \in LobIds, j # k
        PROVE  /\ u.streams[j].ended => u.streams[j].left = 0
               /\ u.streams[j].left + u.streams[j].buffered <= Length(j)
               /\ Precedes(Position(u), Data(j, 1)) => UnitsRead(u, j) = 0
    <3>1. /\ t.streams[j].ended => t.streams[j].left = 0
          /\ t.streams[j].left + t.streams[j].buffered <= Length(j)
          /\ Precedes(Position(t), Data(j, 1)) => UnitsRead(t, j) = 0
      BY DEF Turns, StreamInv
    <3>2. Precedes(Data(k, r + n + 1), Data(j, 1)) => Precedes(Data(k, r + 1), Data(j, 1))
      <4>1. /\ Data(k, r + n + 1)[1] = Data(k, r + 1)[1] /\ Data(k, r + n + 1)[2] = Data(k, r + 1)[2]
            /\ Data(k, r + n + 1)[3] = r + n + 1 /\ Data(k, r + 1)[3] = r + 1 /\ Data(j, 1)[3] = 1
        BY TokenParts
      <4>2. ~(r + n + 1 < 1)
        BY <1>2
      <4> QED BY <4>1, <4>2 DEF Precedes
    <3> QED BY <2>1, <3>1, <3>2, <1>3, <1>16, <1>17, <1>18
  <2>2. /\ u.streams[k].ended => u.streams[k].left = 0
        /\ u.streams[k].left + u.streams[k].buffered <= Length(k)
    <3>1. t.streams[k].ended => t.streams[k].left = 0
      BY <1>1 DEF Turns, StreamInv
    <3> QED BY <3>1, <1>7, <1>16
  <2>3. ~Precedes(Position(u), Data(k, 1))
    <3>1. /\ Data(k, r + n + 1)[1] = Data(k, 1)[1] /\ Data(k, r + n + 1)[2] = Data(k, 1)[2]
          /\ Data(k, r + n + 1)[3] = r + n + 1 /\ Data(k, 1)[3] = 1
          /\ Data(k, 1)[1] = k[1] /\ Data(k, 1)[2] = k[2]
      BY TokenParts
    <3>2. ~(r + n + 1 < 1) /\ ~(k[1] < k[1]) /\ ~(k[2] < k[2])
      BY <1>1, <1>2, <1>19
    <3> QED BY <3>1, <3>2, <1>18 DEF Precedes
  <2> QED BY <2>1, <2>2, <2>3, <1>1 DEF StreamInv
<1>21. LastLobs(u)
  BY <1>5 DEF Turns, LastLobs
<1>22. Turns(u)
  BY <1>5, <1>12, <1>20, <1>21 DEF Turns
<1>23. NoneFailed(u)
  BY <1>1, <1>16 DEF Packing, NoneFailed
<1>24. KeptBytes(u, mode) = KeptBytes(t, mode) + n
  <2>1. t.argBytes \in Nat
    BY <1>1, TaskTypes
  <2> QED BY <2>1, <1>4, <1>5 DEF KeptBytes
<1>25. /\ t.room + KeptBytes(t, mode) = PacketSize /\ KeptBytes(t, mode) <= Limit(mode)
       /\ Fits(Kept(t, mode), KeptBytes(t, mode))
  BY DEF Packing
<1>26. /\ u.room + KeptBytes(u, mode) = PacketSize /\ KeptBytes(u, mode) <= Limit(mode)
       /\ (n = 0 \/ KeptBytes(t, mode) + n <= PacketSize)
  <2>1. PacketSize \in Nat /\ Limit(mode) \in Nat /\ PacketSize <= Limit(mode)
    BY <1>1, PackingTypes
  <2> QED BY <2>1, <1>4, <1>5, <1>9, <1>24, <1>25, SMTT(30)
<1>27. Fits(Kept(u, mode), KeptBytes(u, mode))
  <2>1. Fits(Kept(t, mode) \o b, KeptBytes(t, mode) + n)
    BY <1>1, <1>2, <1>7, <1>9, <1>25, <1>26, FitsBlock DEF b
  <2> QED BY <2>1, <1>14, <1>24
<1>28. t.buffers # <<>> => u.buffers # <<>>
  <2>1. Len(u.buffers) = Len(t.buffers) + Len(b) /\ Len(b) \in Nat /\ Len(t.buffers) \in Nat
    BY <1>4, <1>5, <1>10, ConcatProperties
  <2> QED BY <2>1, <1>4
<1>29. Packing(u, s, mode)
  <2>1. UpTo(s \o Kept(u, mode), Position(u))
    BY <1>10, <1>14, <1>18
  <2> QED BY <2>1, <1>5, <1>23, <1>26, <1>27, <1>28 DEF Packing
<1> QED BY <1>22, <1>29 DEF u

LEMMA Deferred ==
  ASSUME NEW t, NEW d, NEW x, Working(t, d, x), NoCall(t), NEW mode \in Modes,
         NEW step \in {"next", "done", "fail"},
         IF step = "fail" THEN Orderly(d \o x) ELSE Packing(t, d \o x, mode)
  PROVE  TaskInv(Defer(t, step, mode), d, x)
<1> DEFINE u == Defer(t, step, mode)
           c == [step |-> step, mode |-> mode]
<1>1. t \in Task
  BY DEF Working, Turns
<1>2. c \in Call /\ c.step = step /\ c.mode = mode
  BY DEF Call
<1>3. Append(t.immediates, c) = <<c>> /\ <<c>> \in Seq(Call)
  BY <1>2 DEF NoCall
<1>4. u = [t EXCEPT !.immediates = <<c>>]
  BY <1>3 DEF Defer
<1> HIDE DEF u, c
<1>5. /\ u \in Task /\ SameWriter(t, u)
      /\ u.started = t.started /\ u.needFinalize = t.needFinalize /\ u.attached = t.attached
      /\ u.requests = t.requests /\ u.receive = t.receive /\ u.calls = t.calls
      /\ u.outcome = t.outcome /\ u.autoCommit = t.autoCommit /\ u.immediates = <<c>>
  BY <1>1, <1>3, <1>4 DEF Task, SameWriter
<1>6. Turns(u) /\ (Packing(t, d \o x, mode) => Packing(u, d \o x, mode))
  BY <1>5, SameWriterFacts DEF Working
<1>7. Uncommitted(u, d, x) /\ NotCalled(u) /\ NoRequest(u) /\ u.attached = "none"
  BY <1>5 DEF Working, Uncommitted, NotCalled, NoRequest, NoCall
<1>8. IF c.step = "fail" THEN Orderly(d \o x) ELSE Packing(u, d \o x, c.mode)
  BY <1>2, <1>6
<1>9. Defers(u, d \o x)
  BY <1>2, <1>5, <1>7, <1>8 DEF Defers
<1> QED BY <1>6, <1>7, <1>9 DEF TaskInv, u

\* What onreadable leaves of a stream is read later, or in another packet.
LEMMA OnReadableWorks ==
  ASSUME batch \in Batches, NEW d \in Seq(Tokens), NEW x \in Seq(Tokens), NEW t, Working(t, d, x),
         t.immediates = <<>>, NEW mode \in Modes, t.attached = mode, t.lobs # <<>>, t.room > 0,
         Packing(t, d \o x, mode)
  PROVE  TaskInv(OnReadable(t, mode), d, x)
<1> DEFINE k == Lob(t)
           n == IF t.streams[k].buffered < t.room THEN t.streams[k].buffered ELSE t.room
           s == d \o x
           read == ReadUnits(t, n)
           full == [read EXCEPT !.attached = "none"]
<1>1. t \in Task /\ Turns(t) /\ k \in LobIds /\ s \in Seq(Tokens)
  BY LobInHand, Associative DEF Working, Turns
<1>2. t.streams[k].buffered \in Nat /\ t.room \in Int
  <2> HIDE DEF k
  <2> QED BY <1>1, StreamFacts, TaskTypes
<1>3. n \in Nat /\ n <= t.streams[k].buffered /\ n <= t.room
  <2> HIDE DEF k
  <2> QED BY <1>2
<1>4. OnReadable(t, mode) =
        IF n = 0 THEN t
        ELSE IF read.room > 0 THEN read
        ELSE Defer(IF Complete(read.streams[k]) THEN FinalizeLob(full) ELSE full, "done", mode)
  BY DEF OnReadable, ReadUnits
<1> HIDE DEF n
<1>5. Turns(read) /\ Packing(read, s, mode)
  <2> HIDE DEF read, s
  <2>1. n <= t.streams[Lob(t)].buffered
    BY <1>3
  <2> QED BY <1>1, <1>3, <2>1, ReadUnitsPacks DEF read, s
<1>6. /\ read.started = t.started /\ read.needFinalize = t.needFinalize /\ read.attached = t.attached
      /\ read.requests = t.requests /\ read.receive = t.receive /\ read.calls = t.calls
      /\ read.outcome = t.outcome /\ read.autoCommit = t.autoCommit /\ read.immediates = t.immediates
      /\ read.lobs = t.lobs /\ read.row = t.row
  BY <1>1 DEF ReadUnits, Task
<1> HIDE DEF read
<1>7. Working(read, d, x)
  BY <1>5, <1>6 DEF Working, Uncommitted, NotCalled, NoRequest
<1>8. CASE n = 0
  <2>1. Reading(t, d \o x)
    BY DEF Reading, Working
  <2> QED BY <1>4, <1>8, <2>1 DEF TaskInv, Working
<1>9. CASE n # 0 /\ read.room > 0
  <2>1. Reading(read, d \o x)
    BY <1>5, <1>6, <1>7, <1>9 DEF Reading, Working
  <2> QED BY <1>4, <1>7, <1>9, <2>1 DEF TaskInv, Working
<1>10. CASE n # 0 /\ ~(read.room > 0)
  <2>1. /\ full \in Task /\ SameWriter(read, full) /\ full.attached = "none"
        /\ full.started = t.started /\ full.needFinalize = t.needFinalize
        /\ full.requests = t.requests /\ full.receive = t.receive /\ full.calls = t.calls
        /\ full.outcome = t.outcome /\ full.autoCommit = t.autoCommit /\ full.immediates = <<>>
        /\ full.lobs = t.lobs /\ full.row = t.row /\ full.streams = read.streams
    <3>1. read \in Task
      BY <1>5 DEF Turns
    <3> QED BY <3>1, <1>6 DEF Task, SameWriter
  <2> HIDE DEF full, s
  <2>2. Turns(full) /\ Packing(full, s, mode)
    BY <1>5, <2>1, SameWriterFacts
  <2>3. Working(full, d, x) /\ NoCall(full)
    BY <2>1, <2>2, <1>7 DEF Working, Uncommitted, NotCalled, NoRequest, NoCall
  <2>4. CASE Complete(read.streams[k])
    <3> DEFINE last == FinalizeLob(full)
    <3>1. Lob(full) = k /\ full.lobs # <<>>
      BY <2>1 DEF Lob
    <3>2. Turns(last) /\ Packing(last, s, mode)
      BY <1>1, <2>1, <2>2, <2>4, <3>1, FinalizeLobPacks
    <3>3. /\ last.attached = "none" /\ last.started = full.started
          /\ last.needFinalize = full.needFinalize /\ last.requests = full.requests
          /\ last.receive = full.receive /\ last.calls = full.calls /\ last.outcome = full.outcome
          /\ last.autoCommit = full.autoCommit /\ last.immediates = <<>>
      BY <2>1 DEF FinalizeLob, Task
    <3> HIDE DEF last
    <3>4. Working(last, d, x) /\ NoCall(last)
      BY <2>3, <3>2, <3>3 DEF Working, Uncommitted, NotCalled, NoRequest, NoCall
    <3>5. TaskInv(Defer(last, "done", mode), d, x)
      BY <3>2, <3>4, Deferred DEF s
    <3> QED BY <1>4, <1>10, <2>4, <3>5 DEF last
  <2>5. CASE ~Complete(read.streams[k])
    <3>1. TaskInv(Defer(full, "done", mode), d, x)
      BY <2>2, <2>3, Deferred DEF s
    <3> QED BY <1>4, <1>10, <2>5, <3>1
  <2> QED BY <2>4, <2>5
<1> QED BY <1>8, <1>9, <1>10

\* A packet is begun, or the next LOB of the row.
LEMMA ReadLobWorks ==
  ASSUME batch \in Batches, NEW d \in Seq(Tokens), NEW x \in Seq(Tokens), NEW t, Working(t, d, x),
         NoCall(t), NEW mode \in Modes, Packing(t, d \o x, mode)
  PROVE  TaskInv(ReadLob(t, mode), d, x)
<1> DEFINE header == IF mode = "writelob" THEN LobHeader ELSE 0
           s == d \o x
           u == [t EXCEPT !.attached = mode, !.bytes = @ + header, !.room = @ - header]
<1>1. t \in Task /\ Turns(t) /\ t.immediates = <<>> /\ t.room \in Int /\ t.bytes \in Nat
  BY TaskTypes DEF Working, Turns, NoCall
<1>2. header \in Nat /\ PacketSize \in Nat /\ LobHeader \in Nat
  BY SizeAssumption
<1>3. ReadLob(t, mode) =
        IF t.lobs = <<>> \/ t.room <= header THEN Defer(t, "done", mode) ELSE OnReadable(u, mode)
  BY DEF ReadLob
<1> HIDE DEF header, s
<1>4. CASE t.lobs = <<>> \/ t.room <= header
  <2>1. TaskInv(Defer(t, "done", mode), d, x)
    BY Deferred
  <2> QED BY <1>3, <1>4, <2>1
<1>5. CASE ~(t.lobs = <<>> \/ t.room <= header)
  <2>1. t.room - header \in Int /\ t.bytes + header \in Nat /\ t.room - header > 0
    BY <1>1, <1>2, <1>5
  <2>2. /\ u \in Task /\ u.next = t.next /\ u.params = t.params /\ u.row = t.row /\ u.lobs = t.lobs
        /\ u.buffers = t.buffers /\ u.args = t.args /\ u.argBytes = t.argBytes
        /\ u.streams = t.streams /\ u.autoCommit = t.autoCommit
        /\ u.attached = mode /\ u.bytes = t.bytes + header /\ u.room = t.room - header
        /\ u.started = t.started /\ u.needFinalize = t.needFinalize /\ u.immediates = t.immediates
        /\ u.requests = t.requests /\ u.receive = t.receive /\ u.calls = t.calls
        /\ u.outcome = t.outcome
    BY <1>1, <2>1 DEF Task
  <2> HIDE DEF u
  <2>3. Position(u) = Position(t) /\ Lob(u) = Lob(t) /\ \A k : UnitsRead(u, k) = UnitsRead(t, k)
    BY <2>2 DEF Position, Lob, UnitsRead
  <2>4. LastLobs(u) /\ StreamInv(u) /\ NoneFailed(u)
    BY <1>1, <2>2, <2>3, ZenonT(60) DEF Turns, LastLobs, StreamInv, Packing, NoneFailed
  <2>5. Turns(u)
    BY <1>1, <2>2, <2>4 DEF Turns
  <2>6. Working(u, d, x)
    BY <2>2, <2>5 DEF Working, Uncommitted, NotCalled, NoRequest
  <2>7. Kept(u, mode) = Kept(t, mode) /\ Kept(t, mode) \in Seq(Tokens)
    BY <1>1, <2>2, PackingTypes DEF Kept
  <2>8. KeptBytes(u, mode) = KeptBytes(t, mode) + header
    <3>1. t.argBytes \in Nat
      BY <1>1, TaskTypes
    <3> QED BY <3>1, <1>1, <1>2, <2>2 DEF KeptBytes
  <2>9. /\ t.room + KeptBytes(t, mode) = PacketSize /\ Fits(Kept(t, mode), KeptBytes(t, mode))
        /\ UpTo(s \o Kept(t, mode), Position(t))
    BY DEF Packing, s
  <2>10. KeptBytes(t, mode) \in Nat /\ PacketSize <= Limit(mode) /\ Limit(mode) \in Nat
    BY <1>1, PackingTypes
  <2>11. u.room + KeptBytes(u, mode) = PacketSize /\ KeptBytes(u, mode) <= Limit(mode)
    <3>1. u.room = t.room - header
      BY <2>2
    <3> DEFINE kept == KeptBytes(t, mode)
               limit == Limit(mode)
               room == t.room
    <3>2. /\ kept \in Nat /\ limit \in Nat /\ room \in Int /\ room + kept = PacketSize
          /\ PacketSize <= limit /\ room - header > 0
      BY <1>1, <2>1, <2>9, <2>10
    <3> HIDE DEF kept, limit, room
    <3>3. (room - header) + (kept + header) = PacketSize /\ kept + header <= limit
      BY <3>2, <1>2
    <3> QED BY <3>1, <3>3, <2>8 DEF kept, limit, room
  <2>12. Fits(Kept(u, mode), KeptBytes(u, mode))
    <3>1. SizeUpTo(Kept(t, mode))[Len(Kept(t, mode))] \in Nat
      BY <2>7, SizeUpToFacts
    <3> QED BY <3>1, <1>2, <2>7, <2>8, <2>9, <2>10 DEF Fits
  <2>13. Packing(u, s, mode)
    BY <2>2, <2>3, <2>4, <2>7, <2>9, <2>11, <2>12 DEF Packing, s
  <2>14. u.immediates = <<>> /\ u.attached = mode /\ u.lobs # <<>> /\ u.room > 0
    BY <1>1, <1>5, <2>1, <2>2
  <2>15. TaskInv(OnReadable(u, mode), d, x)
    BY <2>6, <2>13, <2>14, OnReadableWorks DEF s
  <2> QED BY <1>3, <1>5, <2>15 DEF u
<1> QED BY <1>4, <1>5

\* No stream of the row has failed.
LEMMA ReadLobsWorks ==
  ASSUME batch \in Batches, NEW d \in Seq(Tokens), NEW x \in Seq(Tokens), NEW t, Working(t, d, x),
         NoCall(t), NEW mode \in Modes, Packing(t, d \o x, mode)
  PROVE  TaskInv(ReadLobs(t, mode), d, x)
<1> DEFINE failed == {i \in DOMAIN t.lobs : t.streams[<<t.row, t.lobs[i]>>].errored}
           calls == [i \in 1..Cardinality(failed) |-> [step |-> "fail", mode |-> mode]]
           u == [t EXCEPT !.immediates = @ \o calls]
<1>1. t \in Task /\ Turns(t) /\ t.immediates = <<>>
  BY DEF Working, Turns, NoCall
<1>2. ReadLobs(t, mode) = ReadLob(u, mode)
  BY DEF ReadLobs
<1>3. failed = {}
  <2>1. SUFFICES ASSUME NEW i \in DOMAIN t.lobs
                 PROVE  ~t.streams[<<t.row, t.lobs[i]>>].errored
    OBVIOUS
  <2>2. /\ t.row > 0 /\ t.row <= Len(Rows) /\ t.row \in Nat
        /\ Len(t.lobs) <= Len(Rows[t.row].lobs) /\ i \in 1..Len(t.lobs) /\ Len(t.lobs) \in Nat
        /\ t.lobs[i] = Len(Rows[t.row].lobs) - Len(t.lobs) + i
    <3>1. t.lobs \in Seq(Nat) /\ t.row \in Nat
      BY <1>1, TaskTypes
    <3>2. t.lobs # <<>> /\ i \in 1..Len(t.lobs) /\ Len(t.lobs) \in Nat
      BY <3>1
    <3>3. t.row <= Len(Rows) /\ LastLobs(t)
      BY <1>1 DEF Turns
    <3> QED BY <3>1, <3>2, <3>3 DEF LastLobs
  <2>3. t.row \in RowIds /\ Len(Rows[t.row].lobs) \in Nat
    BY <2>2, RowFacts
  <2>4. \A n, l, j \in Nat : j \in 1..l /\ l <= n => n - l + j \in 1..n
    OBVIOUS
  <2>5. t.lobs[i] \in 1..Len(Rows[t.row].lobs)
    <3>1. i \in Nat
      BY <2>2
    <3> QED BY <2>2, <2>3, <2>4, <3>1
  <2>6. <<t.row, t.lobs[i]>> \in LobIds
    BY <2>3, <2>5, LobFacts
  <2> QED BY <2>6 DEF Packing, NoneFailed
<1>4. calls = <<>>
  <2>1. Cardinality(failed) = 0
    BY <1>3, FS_EmptySet
  <2> DEFINE n == Cardinality(failed)
  <2>2. calls = [i \in 1..n |-> [step |-> "fail", mode |-> mode]]
    OBVIOUS
  <2> HIDE DEF n, calls, failed
  <2>3. 1..n = {}
    BY <2>1 DEF n
  <2> QED BY <2>2, <2>3
<1>5. t.immediates \o calls = <<>>
  BY <1>1, <1>4
<1>6. u = t
  BY <1>1, <1>5 DEF Task
<1>7. TaskInv(ReadLob(t, mode), d, x)
  BY ReadLobWorks
<1> QED BY <1>2, <1>6, <1>7

\* finalize: the task ends, or asks the server to commit or to roll back.
LEMMA FinalizeWorks ==
  ASSUME batch \in Batches, NEW d \in Seq(Tokens), NEW x \in Seq(Tokens), NEW t, Working(t, d, x),
         NoCall(t), NEW outcome \in {"ok", "error"}, Orderly(d \o x),
         outcome = "ok" => Range(d \o x) = Tokens
  PROVE  TaskInv(Finalize(t, outcome), d, x)
<1>1. t \in Task /\ Turns(t) /\ t.calls = 0 /\ t.requests = <<>>
  BY DEF Working, Turns, NotCalled, NoRequest
<1>2. /\ d = <<>> /\ (t.autoCommit => AutoCommit /\ x = <<>>)
      /\ (t.needFinalize => AutoCommit /\ ~t.autoCommit)
      /\ (AutoCommit => t.autoCommit \/ t.needFinalize)
  BY DEF Working, Uncommitted
<1>3. CASE ~t.needFinalize
  <2> DEFINE u == Ended(t, outcome)
  <2>1. Finalize(t, outcome) = u
    BY <1>3 DEF Finalize
  <2>2. /\ u \in Task /\ SameWriter(t, u) /\ u.calls = 1 /\ u.outcome = outcome
        /\ u.started = t.started /\ u.attached = t.attached /\ u.immediates = t.immediates
        /\ u.requests = t.requests /\ u.receive = t.receive
    <3>1. t.calls + 1 = 1 /\ 1 \in Nat
      BY <1>1
    <3>2. u = [t EXCEPT !.calls = 1, !.outcome = outcome]
      BY <1>1, <3>1 DEF Ended, Task
    <3> HIDE DEF u
    <3> QED BY <1>1, <3>1, <3>2 DEF Task, SameWriter
  <2> HIDE DEF u
  <2>3. Turns(u)
    BY <1>1, <2>2, SameWriterFacts
  <2>4. AutoCommit => x = <<>>
    BY <1>2, <1>3
  <2>5. u.started /\ NoCall(u) /\ NoRequest(u)
    BY <2>2 DEF Working, NoCall, NoRequest, NotCalled
  <2>6. Ends(u, d, x)
    BY <1>2, <2>2, <2>4, <2>5 DEF Ends
  <2> QED BY <2>1, <2>3, <2>6 DEF TaskInv
<1>4. CASE t.needFinalize
  <2> DEFINE type == IF outcome = "error" THEN "rollback" ELSE "commit"
             r == [type |-> type, autoCommit |-> t.autoCommit, data |-> <<>>, size |-> 0]
             u == [t EXCEPT !.requests = <<r>>, !.receive = type]
  <2>1. Send(t, type) = u
    <3>1. Append(t.requests, r) = <<r>>
      BY <1>1
    <3>2. Send(t, type) = [t EXCEPT !.requests = Append(@, r), !.receive = type]
      BY DEF Send
    <3> QED BY <3>1, <3>2, <1>1 DEF Task
  <2>2. Finalize(t, outcome) = u
    BY <1>4, <2>1 DEF Finalize
  <2>3. r \in Request /\ <<r>> \in Seq(Request) /\ type \in Requests /\ r \in Range(<<r>>)
    <3>1. type \in Requests /\ <<>> \in Seq(Tokens) /\ 0 \in Nat /\ t.autoCommit \in BOOLEAN
      BY <1>1, TaskTypes DEF Requests
    <3>2. r \in Request
      BY <3>1 DEF Request
    <3>3. 1 \in DOMAIN <<r>> /\ <<r>>[1] = r
      OBVIOUS
    <3> QED BY <3>1, <3>2, <3>3 DEF Range
  <2>4. /\ u \in Task /\ SameWriter(t, u) /\ u.calls = t.calls /\ u.outcome = t.outcome
        /\ u.started = t.started /\ u.attached = t.attached /\ u.immediates = t.immediates
        /\ u.requests = <<r>> /\ u.receive = type /\ u.needFinalize = t.needFinalize
        /\ u.autoCommit = t.autoCommit
    BY <1>1, <2>3, ZenonT(60) DEF Task, SameWriter
  <2>5. r.type = type /\ r.autoCommit = t.autoCommit /\ r.data = <<>> /\ r.size = 0
    OBVIOUS
  <2>6. type \in {"commit", "rollback"} /\ (type = "commit" => outcome = "ok")
    OBVIOUS
  <2> HIDE DEF u, r, type
  <2>7. Turns(u)
    BY <1>1, <2>4, SameWriterFacts
  <2>8. Uncommitted(u, d, x) /\ NotCalled(u) /\ NoCall(u)
    BY <2>4 DEF Working, Uncommitted, NotCalled, NoCall
  <2>9. Finishing(u, d \o x, r)
    BY <1>2, <1>4, <2>4, <2>5, <2>6 DEF Finishing
  <2>10. Waits(u, d \o x)
    BY <2>3, <2>4, <2>5, <2>8, <2>9 DEF Waits
  <2> QED BY <2>2, <2>7, <2>8, <2>10 DEF TaskInv
<1> QED BY <1>3, <1>4

-----------------------------------------------------------------------------
(* Packets *)

\* A request with rows or LOB data is sent.
LEMMA Sent ==
  ASSUME NEW d, NEW x, NEW t, Working(t, d, x), NoCall(t), NEW r \in Request, Sending(t, d \o x, r)
  PROVE  TaskInv([t EXCEPT !.requests = <<r>>, !.receive = r.type], d, x)
<1> DEFINE u == [t EXCEPT !.requests = <<r>>, !.receive = r.type]
<1>1. t \in Task /\ Turns(t)
  BY DEF Working, Turns
<1>2. <<r>> \in Seq(Request) /\ r.type \in Requests /\ r \in Range(<<r>>)
  <2>1. 1 \in DOMAIN <<r>> /\ <<r>>[1] = r
    OBVIOUS
  <2>2. r.type \in Requests
    BY DEF Request
  <2> QED BY <2>1, <2>2 DEF Range
<1>3. /\ u \in Task /\ SameWriter(t, u) /\ u.calls = t.calls /\ u.outcome = t.outcome
      /\ u.started = t.started /\ u.attached = t.attached /\ u.immediates = t.immediates
      /\ u.requests = <<r>> /\ u.receive = r.type /\ u.needFinalize = t.needFinalize
      /\ u.autoCommit = t.autoCommit
  BY <1>1, <1>2 DEF Task, SameWriter
<1> HIDE DEF u
<1>4. Turns(u) /\ Position(u) = Position(t) /\ (RowInHand(t) => RowInHand(u))
  BY <1>1, <1>3, SameWriterFacts
<1>5. Uncommitted(u, d, x) /\ NotCalled(u) /\ NoCall(u)
  BY <1>3 DEF Working, Uncommitted, NotCalled, NoCall
<1>6. Sending(u, d \o x, r)
  BY <1>3, <1>4 DEF Sending, SameWriter
<1>7. Waits(u, d \o x)
  BY <1>2, <1>3, <1>5, <1>6 DEF Waits
<1> QED BY <1>4, <1>5, <1>7 DEF TaskInv, u

LEMMA SentThenPacked ==
  ASSUME NEW s \in Seq(Tokens), NEW a \in Seq(Tokens), NEW b \in Seq(Tokens)
  PROVE  (s \o a) \o b = s \o (a \o b)
BY ConcatAssociative

\* An EXECUTE packet.
LEMMA SendWorks ==
  ASSUME batch \in Batches, NEW d \in Seq(Tokens), NEW x \in Seq(Tokens), NEW t, Working(t, d, x),
         NoCall(t), RowInHand(t), UpTo((d \o x) \o (t.args \o t.buffers), Position(t)),
         Fits(t.args, t.argBytes), t.argBytes <= PacketSizeLimit,
         t.autoCommit => ~t.params /\ t.lobs = <<>> /\ t.row = Len(Rows)
  PROVE  TaskInv(Send(t, "execute"), d, x)
<1> DEFINE s == d \o x
           r == [type |-> "execute", autoCommit |-> t.autoCommit, data |-> t.args, size |-> t.argBytes]
<1>1. t \in Task /\ t.requests = <<>> /\ s \in Seq(Tokens)
  BY Associative DEF Working, Turns, NoRequest
<1>2. /\ t.args \in Seq(Tokens) /\ t.buffers \in Seq(Tokens) /\ t.argBytes \in Nat
      /\ t.autoCommit \in BOOLEAN
  BY <1>1, TaskTypes
<1>3. r \in Request /\ r.type = "execute" /\ r.data = t.args /\ r.size = t.argBytes
      /\ r.autoCommit = t.autoCommit
  BY <1>2 DEF Request, Requests
<1>4. Send(t, "execute") = [t EXCEPT !.requests = <<r>>, !.receive = r.type]
  <2>1. Append(t.requests, r) = <<r>>
    BY <1>1
  <2>2. Send(t, "execute") = [t EXCEPT !.requests = Append(@, r), !.receive = "execute"]
    BY DEF Send
  <2> QED BY <2>1, <2>2, <1>1 DEF Task
<1> HIDE DEF r, s
<1>5. (s \o t.args) \o t.buffers = s \o (t.args \o t.buffers)
  <2>1. s \in Seq(Tokens)
    BY <1>1
  <2>2. t.args \in Seq(Tokens)
    BY <1>2
  <2>3. t.buffers \in Seq(Tokens)
    BY <1>2
  <2> QED BY <2>1, <2>2, <2>3, SentThenPacked, ZenonT(30)
<1>6. UpTo((s \o r.data) \o t.buffers, Position(t))
  BY <1>3, <1>5 DEF s
<1>7. Sending(t, d \o x, r)
  BY <1>3, <1>6 DEF Sending, Limit, s
<1>8. TaskInv([t EXCEPT !.requests = <<r>>, !.receive = r.type], d, x)
  BY <1>3, <1>7, Sent, Zenon
<1> QED BY <1>4, <1>8

\* A transaction is opened for the packets that are to come.
LEMMA OpensTransaction ==
  ASSUME NEW d, NEW x, NEW t, Working(t, d, x), NoCall(t)
  PROVE  /\ Working(OpenTransaction(t), d, x) /\ NoCall(OpenTransaction(t))
         /\ SameWriter(t, OpenTransaction(t)) /\ ~OpenTransaction(t).autoCommit
<1>1. t \in Task /\ Turns(t)
  BY DEF Working, Turns
<1>2. CASE ~t.autoCommit
  BY <1>2 DEF OpenTransaction, SameWriter
<1>3. CASE t.autoCommit
  <2> DEFINE u == [t EXCEPT !.needFinalize = TRUE, !.autoCommit = FALSE]
  <2>1. OpenTransaction(t) = u
    BY <1>3 DEF OpenTransaction
  <2>2. /\ u \in Task /\ SameWriter(t, u) /\ u.calls = t.calls /\ u.outcome = t.outcome
        /\ u.started = t.started /\ u.attached = t.attached /\ u.immediates = t.immediates
        /\ u.requests = t.requests /\ u.receive = t.receive /\ u.needFinalize /\ ~u.autoCommit
    BY <1>1 DEF Task, SameWriter
  <2> HIDE DEF u
  <2>3. Turns(u)
    BY <1>1, <2>2, SameWriterFacts
  <2>4. Uncommitted(u, d, x)
    BY <1>3, <2>2 DEF Working, Uncommitted
  <2>5. NotCalled(u) /\ NoRequest(u) /\ NoCall(u)
    BY <2>2 DEF Working, NotCalled, NoRequest, NoCall
  <2> QED BY <2>1, <2>2, <2>3, <2>4, <2>5 DEF Working
<1> QED BY <1>2, <1>3

\* What is packed so far, when the task goes on to the next row.
Packed(t) ==
  /\ NoneFailed(t) /\ Fits(t.args, t.argBytes)
  /\ t.argBytes <= PacketSizeLimit /\ (t.args = <<>> => t.argBytes = 0)

\* The Writer holds a row, of which no LOB data is packed yet.
RowTaken(t) ==
  /\ Packed(t) /\ t.params /\ t.row > 0 /\ t.buffers # <<>> /\ t.bytes = Rows[t.row].size
  /\ Fits(t.buffers, t.bytes) /\ Fits(t.args \o t.buffers, t.argBytes + t.bytes)

\* The part of NextRow that decides where the row goes.
PackRow(t) ==
  IF t.bytes <= PacketSizeLimit - t.argBytes
  THEN ReadLobs([t EXCEPT !.room = RoomForLobs(t)], "parameters")
  ELSE IF t.args = <<>>
  THEN Finalize([OpenTransaction(t) EXCEPT !.needFinalize = FALSE], "error")
  ELSE Send(OpenTransaction(t), "execute")

LEMMA PackRowWorks ==
  ASSUME batch \in Batches, NEW d \in Seq(Tokens), NEW x \in Seq(Tokens), NEW t, Working(t, d, x),
         NoCall(t), RowTaken(t), Orderly(d \o x),
         UpTo((d \o x) \o (t.args \o t.buffers), Position(t))
  PROVE  TaskInv(PackRow(t), d, x)
<1> DEFINE s == d \o x
<1>1. t \in Task /\ Turns(t)
  BY DEF Working, Turns
<1>2. /\ t.args \in Seq(Tokens) /\ t.buffers \in Seq(Tokens) /\ t.argBytes \in Nat /\ t.bytes \in Nat
      /\ t.row \in Nat /\ t.calls \in Nat
  BY <1>1, TaskTypes
<1>3. PacketSize \in Nat /\ PacketSizeLimit \in Nat /\ PacketSize <= PacketSizeLimit
  BY SizeAssumption
<1>4. CASE t.bytes <= PacketSizeLimit - t.argBytes
  <2> DEFINE u == [t EXCEPT !.room = RoomForLobs(t)]
  <2>1. RoomForLobs(t) = PacketSize - t.argBytes - t.bytes /\ RoomForLobs(t) \in Int
    BY <1>2, <1>3 DEF RoomForLobs
  <2>2. /\ SamePlace(t, u) /\ u.room = RoomForLobs(t) /\ u.params = t.params
        /\ u.args = t.args /\ u.buffers = t.buffers /\ u.argBytes = t.argBytes /\ u.bytes = t.bytes
    BY <1>1, <2>1 DEF Task, SamePlace
  <2>3. PackRow(t) = ReadLobs(u, "parameters")
    BY <1>4 DEF PackRow
  <2> HIDE DEF u
  <2>4. Position(u) = Position(t) /\ NoneFailed(u) /\ NoCall(u) /\ Working(u, d, x)
    BY <2>2, SamePlaceFacts DEF RowTaken, Packed
  <2>5. t.row > 0 /\ t.buffers # <<>> /\ u.row = t.row /\ Fits(t.args \o t.buffers, t.argBytes + t.bytes)
    BY <2>2 DEF RowTaken, SamePlace
  <2>6. Kept(u, "parameters") = t.args \o t.buffers /\ KeptBytes(u, "parameters") = t.argBytes + t.bytes
    BY <2>2 DEF Kept, KeptBytes
  <2>7. u.room + (t.argBytes + t.bytes) = PacketSize /\ t.argBytes + t.bytes <= PacketSizeLimit
    <3>1. u.room = PacketSize - t.argBytes - t.bytes
      BY <2>1, <2>2
    <3> QED BY <1>2, <1>3, <1>4, <3>1
  <2>8. u.params
    BY <2>2 DEF RowTaken
  <2>9. Packing(u, d \o x, "parameters")
    BY <2>2, <2>4, <2>5, <2>6, <2>7, <2>8 DEF Packing, Limit
  <2> QED BY <1>1, <2>3, <2>4, <2>9, ReadLobsWorks DEF Modes
<1>5. CASE ~(t.bytes <= PacketSizeLimit - t.argBytes)
  <2> DEFINE o == OpenTransaction(t)
  <2>1. Working(o, d, x) /\ NoCall(o) /\ SameWriter(t, o) /\ ~o.autoCommit
    BY OpensTransaction
  <2> HIDE DEF o
  <2>2. CASE t.args = <<>>
    <3> DEFINE v == [o EXCEPT !.needFinalize = FALSE]
               u == Ended(v, "error")
    <3>1. o \in Task /\ o.calls = 0 /\ Turns(o)
      BY <2>1 DEF Working, Turns, NotCalled
    <3>2. v \in Task /\ ~v.needFinalize
      BY <3>1 DEF Task
    <3>3. PackRow(t) = u
      BY <1>5, <2>2, <3>2 DEF PackRow, Finalize, o
    <3>4. u = [o EXCEPT !.needFinalize = FALSE, !.calls = 1, !.outcome = "error"]
      <4>1. o.calls + 1 = 1
        BY <3>1
      <4> QED BY <3>1, <4>1 DEF Ended, Task
    <3> HIDE DEF u
    <3>5. /\ u \in Task /\ SameWriter(o, u) /\ u.calls = 1 /\ u.outcome = "error"
          /\ u.started = o.started /\ u.attached = o.attached /\ u.immediates = o.immediates
          /\ u.requests = o.requests /\ u.receive = o.receive
      BY <3>1, <3>4 DEF Task, SameWriter
    <3>6. Turns(u)
      BY <3>1, <3>5, SameWriterFacts
    <3>7. u.started /\ NoCall(u) /\ NoRequest(u)
      BY <2>1, <3>5 DEF Working, NoCall, NoRequest, NotCalled
    <3>8. ~RowsFit
      <4>1. t.argBytes = 0 /\ t.bytes = Rows[t.row].size /\ t.row > 0
        BY <2>2 DEF RowTaken, Packed
      <4>2. t.row \in RowIds
        BY <1>1, <1>2, <4>1, BatchFacts DEF Turns
      <4>3. ~(Rows[t.row].size <= PacketSizeLimit)
        BY <1>2, <1>3, <1>5, <4>1
      <4> QED BY <4>2, <4>3 DEF RowsFit, Rows, RowIds
    <3>9. d = <<>>
      BY DEF Working, Uncommitted
    <3>10. Ends(u, d, x)
      BY <3>5, <3>7, <3>8, <3>9 DEF Ends
    <3> QED BY <3>3, <3>6, <3>10 DEF TaskInv
  <2>3. CASE t.args # <<>>
    <3>1. PackRow(t) = Send(o, "execute")
      BY <1>5, <2>3 DEF PackRow, o
    <3>2. RowInHand(t)
      BY DEF RowInHand, RowTaken, Packed
    <3>3. RowInHand(o) /\ Position(o) = Position(t)
      BY <2>1, <3>2, SameWriterFacts
    <3>4. o.args = t.args /\ o.buffers = t.buffers /\ o.argBytes = t.argBytes
      BY <2>1 DEF SameWriter
    <3>5. Fits(o.args, o.argBytes) /\ o.argBytes <= PacketSizeLimit
      BY <3>4 DEF RowTaken, Packed
    <3>6. UpTo((d \o x) \o (o.args \o o.buffers), Position(o))
      BY <3>3, <3>4
    <3> QED BY <2>1, <3>1, <3>3, <3>5, <3>6, SendWorks
  <2> QED BY <2>2, <2>3
<1> QED BY <1>4, <1>5

\* The next row is taken.
LEMMA SetValuesWorks ==
  ASSUME batch \in Batches, NEW d \in Seq(Tokens), NEW x \in Seq(Tokens), NEW t, Working(t, d, x),
         NoCall(t), Packed(t), ~t.params, t.lobs = <<>>, t.next <= Len(Rows),
         UpTo((d \o x) \o t.args, Position(t))
  PROVE  LET u == SetValues(t)
         IN /\ Working(u, d, x) /\ NoCall(u) /\ (u.params => RowTaken(u))
            /\ u.args = t.args /\ u.argBytes = t.argBytes
            /\ UpTo((d \o x) \o (u.args \o u.buffers), Position(u))
<1> DEFINE s == d \o x
           r == t.next
           y == RowToken(r)
           u == SetValues(t)
           lobs == [l \in DOMAIN Rows[r].lobs |-> l]
           params == r \notin BadRows
<1>1. t \in Task /\ Turns(t) /\ s \in Seq(Tokens)
  BY Associative DEF Working, Turns
<1>2. /\ t.args \in Seq(Tokens) /\ t.argBytes \in Nat /\ t.row \in Nat /\ t.row + 1 = r /\ r \in Nat
      /\ r <= Len(Rows) /\ r > 0
  <2>1. t.args \in Seq(Tokens) /\ t.argBytes \in Nat /\ t.row \in Nat /\ r = t.row + 1
    BY <1>1, TaskTypes DEF Turns
  <2> QED BY <2>1
<1>3. r \in RowIds /\ Rows[r].size \in Nat /\ Len(Rows[r].lobs) \in Nat
      /\ DOMAIN Rows[r].lobs = 1..Len(Rows[r].lobs) /\ Rows[r].lobs \in Seq(Nat)
  <2>1. r \in RowIds
    BY <1>2, BatchFacts
  <2> QED BY <2>1, BatchFacts
<1>4. y \in Tokens /\ <<y>> \in Seq(Tokens) /\ <<y>> # <<>>
  <2>1. y \in Tokens
    BY <1>3, TokenFacts
  <2> QED BY <2>1
<1>5. lobs \in Seq(Nat) /\ Len(lobs) = Len(Rows[r].lobs) /\ \A i \in DOMAIN lobs : lobs[i] = i
  <2> DEFINE n == Len(Rows[r].lobs)
  <2>1. n \in Nat /\ lobs = [l \in 1..n |-> l]
    BY <1>3
  <2> HIDE DEF n, lobs
  <2>2. lobs \in Seq(Nat) /\ Len(lobs) = n /\ DOMAIN lobs = 1..n
    BY <2>1
  <2> QED BY <2>1, <2>2 DEF n
<1>6. u = [t EXCEPT !.params = params, !.row = r, !.next = r + 1, !.lobs = lobs, !.buffers = <<y>>,
                    !.bytes = Rows[r].size]
  BY DEF SetValues
<1>7. params \in BOOLEAN /\ r + 1 \in Nat
  BY <1>2
<1> HIDE DEF params, lobs, u, y
<1>8. /\ u \in Task /\ u.next = r + 1 /\ u.params = params /\ u.row = r /\ u.lobs = lobs
      /\ u.buffers = <<y>> /\ u.args = t.args /\ u.argBytes = t.argBytes /\ u.bytes = Rows[r].size
      /\ u.streams = t.streams /\ u.autoCommit = t.autoCommit /\ u.attached = t.attached
      /\ u.started = t.started /\ u.needFinalize = t.needFinalize /\ u.immediates = t.immediates
      /\ u.requests = t.requests /\ u.receive = t.receive /\ u.calls = t.calls
      /\ u.outcome = t.outcome
  <2> HIDE DEF r
  <2>1. u \in Task
    BY <1>1, <1>2, <1>3, <1>4, <1>5, <1>6, <1>7, ZenonT(60) DEF Task
  <2> QED BY <1>1, <1>6, <2>1 DEF Task
<1>9. Position(t) = RowToken(r)
  BY <1>2 DEF Position
<1>10. /\ BehindRow(r) \in Triples /\ Precedes(y, BehindRow(r))
       /\ UpTo(Append(s \o t.args, y), BehindRow(r))
  <2>1. s \o t.args \in Seq(Tokens)
    BY <1>1, <1>2, Associative
  <2> QED BY <1>3, <1>9, <2>1, TakesRow DEF y
<1>11. s \o (u.args \o u.buffers) = Append(s \o t.args, y)
  <2>1. t.args \o <<y>> = Append(t.args, y)
    BY <1>2, <1>4, AppendIsConcat
  <2>2. s \o Append(t.args, y) = Append(s \o t.args, y)
    BY <1>1, <1>2, <1>4, AppendLast
  <2> QED BY <1>8, <2>1, <2>2
<1>12. Position(u) = BehindRow(r)
  <2>1. CASE Rows[r].lobs = <<>>
    <3>1. lobs = <<>>
      BY <2>1, <1>3, <1>5
    <3> QED BY <3>1, <2>1, <1>8 DEF Position, BehindRow
  <2>2. CASE Rows[r].lobs # <<>>
    <3>1. Len(Rows[r].lobs) > 0 /\ 1 \in 1..Len(Rows[r].lobs)
      BY <2>2, <1>3
    <3>2. lobs # <<>> /\ Head(lobs) = 1
      BY <3>1, <1>5
    <3>3. <<r, 1>> \in LobIds
      BY <3>1, <1>3, LobFacts
    <3>4. Precedes(RowToken(r), Data(<<r, 1>>, 1))
      BY <1>2 DEF Precedes, RowToken, Data
    <3>5. UnitsRead(t, <<r, 1>>) = 0
      BY <1>1, <1>9, <3>3, <3>4 DEF Turns, StreamInv
    <3>6. UnitsRead(u, <<r, 1>>) = 0 /\ Lob(u) = <<r, 1>>
      BY <1>8, <3>2, <3>5 DEF UnitsRead, Lob
    <3>7. UnitsRead(u, <<r, 1>>) + 1 = 1
      BY <3>6
    <3> QED BY <2>2, <1>8, <3>2, <3>6, <3>7 DEF Position, BehindRow
  <2> QED BY <2>1, <2>2
<1>13. StreamInv(u)
  BY <1>1, <1>8, <1>9, <1>10, <1>12, StreamsStay DEF y
<1>14. LastLobs(u)
  <2>1. Len(lobs) \in Nat /\ \A i \in DOMAIN lobs : i \in Nat /\ lobs[i] = i
    BY <1>3, <1>5
  <2>2. \A n, i \in Nat : i = n - n + i
    OBVIOUS
  <2>3. \A i \in DOMAIN lobs : lobs[i] = Len(lobs) - Len(lobs) + i
    BY <2>1, <2>2
  <2>4. u.row > 0 /\ u.lobs = lobs /\ Len(lobs) = Len(Rows[u.row].lobs) /\ Len(lobs) \in Nat
    BY <1>2, <1>5, <1>8, <2>1
  <2>5. Len(lobs) <= Len(Rows[u.row].lobs)
    BY <2>4
  <2> QED BY <2>3, <2>4, <2>5 DEF LastLobs
<1>15. Turns(u)
  BY <1>2, <1>8, <1>13, <1>14 DEF Turns
<1>16. Working(u, d, x) /\ NoCall(u)
  BY <1>8, <1>15 DEF Working, Uncommitted, NotCalled, NoRequest, NoCall
<1>17. UpTo(s \o (u.args \o u.buffers), Position(u))
  BY <1>10, <1>11, <1>12
<1>18. Size(y) = Rows[r].size /\ ~IsData(y)
  BY <1>3, TokenSizes DEF y
<1>19. Fits(<<y>>, Rows[r].size)
  <2>1. Fits(<<>>, 0) /\ <<>> \in Seq(Tokens) /\ 0 \in Nat /\ Append(<<>>, y) = <<y>>
    BY FitsNothing
  <2>2. 0 + Size(y) <= Rows[r].size
    BY <1>3, <1>18
  <2>3. Fits(Append(<<>>, y), Rows[r].size)
    BY <2>1, <2>2, <1>3, <1>4, <1>18, FitsMore
  <2> QED BY <2>1, <2>3
<1>20. Fits(u.args \o u.buffers, u.argBytes + u.bytes)
  <2>1. t.args \o <<y>> = Append(t.args, y)
    BY <1>2, <1>4, AppendIsConcat
  <2>2. t.argBytes + Rows[r].size \in Nat /\ t.argBytes + Size(y) <= t.argBytes + Rows[r].size
    <3>1. t.argBytes + Rows[r].size \in Nat
      BY <1>2, <1>3
    <3> QED BY <1>18, <3>1
  <2>3. Fits(Append(t.args, y), t.argBytes + Rows[r].size)
    BY <2>2, <1>2, <1>4, <1>18, FitsMore DEF Packed
  <2> QED BY <1>8, <2>1, <2>3
<1>21. Packed(u) /\ u.row > 0 /\ u.buffers # <<>> /\ u.bytes = Rows[u.row].size
       /\ Fits(u.buffers, u.bytes)
  BY <1>2, <1>4, <1>8, <1>19 DEF Packed, NoneFailed
<1> QED BY <1>8, <1>16, <1>17, <1>20, <1>21 DEF RowTaken, u

LEMMA NextRowWorks ==
  ASSUME batch \in Batches, NEW d \in Seq(Tokens), NEW x \in Seq(Tokens), NEW t, Working(t, d, x),
         NoCall(t), Packed(t), t.params => RowTaken(t), ~t.params => t.buffers = <<>> /\ t.lobs = <<>>,
         UpTo((d \o x) \o (t.args \o t.buffers), Position(t))
  PROVE  TaskInv(NextRow(t), d, x)
<1> DEFINE s == d \o x
<1>1. t \in Task /\ Turns(t) /\ s \in Seq(Tokens)
  BY Associative DEF Working, Turns
<1>2. /\ t.args \in Seq(Tokens) /\ t.buffers \in Seq(Tokens) /\ t.row \in Nat /\ t.next = t.row + 1
      /\ Len(Rows) \in Nat /\ t.row <= Len(Rows)
  BY <1>1, TaskTypes, BatchFacts DEF Turns
<1>3. Orderly(s)
  <2>1. t.args \o t.buffers \in Seq(Tokens)
    BY <1>2, Associative
  <2>2. s \o (t.args \o t.buffers) \in Seq(Tokens)
    BY <1>1, <2>1, Associative
  <2>3. Position(t) \in Triples
    BY <1>1, PositionFacts
  <2>4. Orderly(s \o (t.args \o t.buffers))
    BY <2>2, <2>3, UpToIsOrderly
  <2> QED BY <1>1, <2>1, <2>4, Beginning
<1>5. CASE t.params
  <2>1. NextRow(t) = PackRow(t)
    BY <1>5 DEF NextRow, PackRow
  <2>2. TaskInv(PackRow(t), d, x)
    BY <1>3, <1>5, PackRowWorks
  <2> QED BY <2>1, <2>2
<1>6. CASE ~t.params /\ t.next > Len(Rows)
  <2>1. RowInHand(t)
    BY <1>6 DEF RowInHand, Packed
  <2>2. t.row = Len(Rows)
    BY <1>2, <1>6
  <2>3. TaskInv(Send(t, "execute"), d, x)
    BY <1>6, <2>1, <2>2, SendWorks DEF Packed
  <2>4. NextRow(t) = Send(t, "execute")
    BY <1>6 DEF NextRow
  <2> QED BY <2>3, <2>4
<1>7. CASE ~t.params /\ t.next <= Len(Rows)
  <2> DEFINE u == SetValues(t)
  <2>1. ~(t.next > Len(Rows))
    BY <1>2, <1>7
  <2>2. t.args \o t.buffers = t.args
    <3>1. t.args \o <<>> = t.args
      BY <1>2, ConcatEmptySeq
    <3> QED BY <1>7, <3>1
  <2>3. /\ Working(u, d, x) /\ NoCall(u) /\ (u.params => RowTaken(u))
        /\ UpTo(s \o (u.args \o u.buffers), Position(u))
        /\ u.args = t.args /\ u.argBytes = t.argBytes
    BY <1>7, <2>2, SetValuesWorks
  <2> HIDE DEF u
  <2>4. NextRow(t) = IF ~u.params THEN Finalize(u, "error") ELSE PackRow(u)
    BY <1>7, <2>1, <2>3 DEF NextRow, PackRow, u
  <2>5. CASE u.params
    <3>1. TaskInv(PackRow(u), d, x)
      BY <1>3, <2>3, <2>5, PackRowWorks
    <3> QED BY <2>4, <2>5, <3>1
  <2>6. CASE ~u.params
    <3>1. TaskInv(Finalize(u, "error"), d, x)
      BY <1>3, <2>3, FinalizeWorks
    <3> QED BY <2>4, <2>6, <3>1
  <2> QED BY <2>5, <2>6
<1> QED BY <1>2, <1>5, <1>6, <1>7

\* handleParameters: what is in the buffers joins the packet.
LEMMA HandleParametersWorks ==
  ASSUME batch \in Batches, NEW d \in Seq(Tokens), NEW x \in Seq(Tokens), NEW t, Working(t, d, x),
         NoCall(t), Packing(t, d \o x, "parameters")
  PROVE  TaskInv(HandleParameters(t), d, x)
<1> DEFINE args == t.args \o t.buffers
           size == t.argBytes + t.bytes
           u == Cleared([t EXCEPT !.args = @ \o t.buffers, !.argBytes = @ + t.bytes])
<1>1. t \in Task
  BY DEF Working, Turns
<1>2. /\ t.args \in Seq(Tokens) /\ t.buffers \in Seq(Tokens) /\ t.argBytes \in Nat /\ t.bytes \in Nat
      /\ args \in Seq(Tokens) /\ size \in Nat
  BY <1>1, TaskTypes, Associative
<1>3. args # <<>>
  <2>1. t.buffers # <<>>
    BY DEF Packing
  <2> QED BY <1>2, <2>1
<1>4. u = [t EXCEPT !.args = args, !.argBytes = size, !.params = FALSE, !.buffers = <<>>, !.bytes = 0]
  BY <1>1 DEF Cleared, Task
<1>5. HandleParameters(t) = IF u.lobs # <<>> THEN Send(OpenTransaction(u), "execute") ELSE NextRow(u)
  <2>1. u.lobs = t.lobs
    BY <1>1, <1>4 DEF Task
  <2> HIDE DEF u
  <2> QED BY <2>1 DEF HandleParameters, u
<1> HIDE DEF u, args, size
<1>6. SamePlace(t, u) /\ ~u.params /\ u.args = args /\ u.argBytes = size /\ u.buffers = <<>>
  <2>1. <<>> \in Seq(Tokens) /\ 0 \in Nat
    OBVIOUS
  <2> QED BY <1>1, <1>2, <1>4, <2>1 DEF Task, SamePlace
<1>7. /\ Position(u) = Position(t) /\ NoneFailed(u) /\ NoCall(u) /\ Working(u, d, x)
  BY <1>6, SamePlaceFacts DEF Packing
<1>8. /\ UpTo((d \o x) \o args, Position(t)) /\ Fits(args, size) /\ size <= PacketSizeLimit
  BY DEF Packing, Kept, KeptBytes, Limit, args, size
<1>9. u.args \o u.buffers = args
  BY <1>2, <1>6, ConcatEmptySeq
<1>10. UpTo((d \o x) \o (u.args \o u.buffers), Position(u))
  BY <1>7, <1>8, <1>9
<1>11. Packed(u)
  BY <1>3, <1>6, <1>7, <1>8 DEF Packed
<1>12. CASE u.lobs # <<>>
  <2> DEFINE o == OpenTransaction(u)
  <2>1. Working(o, d, x) /\ NoCall(o) /\ SameWriter(u, o) /\ ~o.autoCommit
    BY <1>7, OpensTransaction
  <2> HIDE DEF o
  <2>2. Position(o) = Position(u) /\ NoneFailed(o)
    BY <1>7, <2>1, SameWriterFacts
  <2>3. /\ o.args = u.args /\ o.buffers = u.buffers /\ o.argBytes = u.argBytes /\ o.params = u.params
    BY <2>1 DEF SameWriter
  <2>4. RowInHand(o)
    BY <1>6, <2>1, <2>2, <2>3 DEF RowInHand
  <2>5. Fits(o.args, o.argBytes) /\ o.argBytes <= PacketSizeLimit
    BY <1>11, <2>3 DEF Packed
  <2>6. UpTo((d \o x) \o (o.args \o o.buffers), Position(o))
    BY <1>10, <2>2, <2>3
  <2>7. TaskInv(Send(o, "execute"), d, x)
    BY <2>1, <2>4, <2>5, <2>6, SendWorks
  <2> QED BY <1>5, <1>12, <2>7 DEF o
<1>13. CASE u.lobs = <<>>
  <2>1. TaskInv(NextRow(u), d, x)
    BY <1>6, <1>7, <1>10, <1>11, <1>13, NextRowWorks
  <2> QED BY <1>5, <1>13, <2>1
<1> QED BY <1>12, <1>13

\* execute: the next packet of rows, or the end.
LEMMA ExecuteWorks ==
  ASSUME batch \in Batches, NEW d \in Seq(Tokens), NEW x \in Seq(Tokens), NEW t, Working(t, d, x),
         NoCall(t), RowInHand(t), UpTo((d \o x) \o t.buffers, Position(t)),
         ~t.params => t.lobs = <<>>
  PROVE  TaskInv(Execute(t), d, x)
<1> DEFINE s == d \o x
           u == [t EXCEPT !.args = <<>>, !.argBytes = 0]
<1>1. t \in Task /\ Turns(t) /\ s \in Seq(Tokens)
  BY Associative DEF Working, Turns
<1>2. /\ t.buffers \in Seq(Tokens) /\ t.bytes \in Nat /\ t.row \in Nat /\ t.next = t.row + 1
      /\ Len(Rows) \in Nat /\ t.row <= Len(Rows)
  BY <1>1, TaskTypes, BatchFacts DEF Turns
<1>3. CASE t.next > Len(Rows) /\ ~t.params
  <2>1. Execute(t) = Finalize(t, "ok")
    BY <1>3 DEF Execute
  <2>2. t.buffers = <<>> /\ t.lobs = <<>> /\ t.row = Len(Rows)
    BY <1>2, <1>3 DEF RowInHand
  <2>3. s \o t.buffers = s
    BY <1>1, <2>2, ConcatEmptySeq
  <2>4. Position(t) = RowToken(Len(Rows) + 1) /\ Position(t) \in Triples
    BY <1>1, <2>2, PositionFacts
  <2>5. UpTo(s, Position(t))
    BY <2>3
  <2>6. Orderly(s) /\ Range(s) = Tokens
    BY <1>1, <2>4, <2>5, UpToIsOrderly, BeginningAndEnd
  <2> QED BY <2>1, <2>6, FinalizeWorks
<1>4. CASE ~(t.next > Len(Rows) /\ ~t.params)
  <2>1. Execute(t) = NextRow(u)
    BY <1>4 DEF Execute
  <2>2. /\ SamePlace(t, u) /\ u.args = <<>> /\ u.argBytes = 0 /\ u.buffers = t.buffers
        /\ u.bytes = t.bytes /\ u.params = t.params
    <3>1. <<>> \in Seq(Tokens) /\ 0 \in Nat
      OBVIOUS
    <3> QED BY <1>1, <3>1 DEF Task, SamePlace
  <2> HIDE DEF u
  <2>3. /\ Position(u) = Position(t) /\ NoneFailed(u) /\ NoCall(u) /\ Working(u, d, x)
    BY <2>2, SamePlaceFacts DEF RowInHand
  <2>4. u.args \o u.buffers = t.buffers
    BY <1>2, <2>2, ConcatEmptySeq
  <2>5. Fits(u.args, u.argBytes) /\ u.argBytes <= PacketSizeLimit
    BY <2>2, FitsNothing, SizeAssumption
  <2>6. Packed(u)
    BY <2>2, <2>3, <2>5 DEF Packed
  <2>7. ASSUME u.params
        PROVE  RowTaken(u)
    <3>1. u.argBytes + u.bytes = t.bytes
      BY <1>2, <2>2
    <3>2. /\ t.row > 0 /\ t.buffers # <<>> /\ t.bytes = Rows[t.row].size /\ Fits(t.buffers, t.bytes)
      BY <2>2, <2>7 DEF RowInHand
    <3>3. u.row = t.row
      BY <2>2 DEF SamePlace
    <3> QED BY <2>2, <2>4, <2>6, <2>7, <3>1, <3>2, <3>3 DEF RowTaken
  <2>8. ~u.params => u.buffers = <<>> /\ u.lobs = <<>>
    BY <2>2 DEF RowInHand, SamePlace
  <2>9. UpTo((d \o x) \o (u.args \o u.buffers), Position(u))
    BY <2>3, <2>4
  <2>10. TaskInv(NextRow(u), d, x)
    BY <2>3, <2>6, <2>7, <2>8, <2>9, NextRowWorks
  <2> QED BY <2>1, <2>10
<1> QED BY <1>3, <1>4

\* writeLob: LOBs are continued, or the next rows follow.
LEMMA WriteLobWorks ==
  ASSUME batch \in Batches, NEW d \in Seq(Tokens), NEW x \in Seq(Tokens), NEW t, Working(t, d, x),
         NoCall(t), RowInHand(t), UpTo((d \o x) \o t.buffers, Position(t))
  PROVE  TaskInv(WriteLob(t), d, x)
<1>1. t \in Task /\ t.buffers \in Seq(Tokens)
  BY TaskTypes DEF Working, Turns
<1>2. CASE t.params \/ (t.lobs = <<>> /\ t.buffers = <<>>)
  <2>1. WriteLob(t) = Execute(t)
    BY <1>2 DEF WriteLob
  <2>2. ~t.params => t.lobs = <<>>
    BY <1>2
  <2> QED BY <2>1, <2>2, ExecuteWorks
<1>3. CASE ~(t.params \/ (t.lobs = <<>> /\ t.buffers = <<>>))
  <2> DEFINE u == [Cleared(t) EXCEPT !.room = PacketSize]
  <2>1. WriteLob(t) = ReadLobs(u, "writelob")
    BY <1>3 DEF WriteLob
  <2>2. t.buffers = <<>> /\ t.lobs # <<>> /\ ~t.autoCommit /\ NoneFailed(t)
    BY <1>3 DEF RowInHand
  <2>3. PacketSize \in Nat /\ PacketSize \in Int
    BY SizeAssumption
  <2>4. u = [t EXCEPT !.params = FALSE, !.buffers = <<>>, !.bytes = 0, !.room = PacketSize]
    BY <1>1 DEF Cleared, Task
  <2> HIDE DEF u
  <2>5. SamePlace(t, u) /\ ~u.params /\ u.buffers = <<>> /\ u.bytes = 0 /\ u.room = PacketSize
    <3>1. <<>> \in Seq(Tokens) /\ 0 \in Nat
      OBVIOUS
    <3> QED BY <1>1, <2>3, <2>4, <3>1 DEF Task, SamePlace
  <2>6. Position(u) = Position(t) /\ NoneFailed(u) /\ NoCall(u) /\ Working(u, d, x)
    BY <2>2, <2>5, SamePlaceFacts
  <2>7. Kept(u, "writelob") = t.buffers /\ KeptBytes(u, "writelob") = 0
    BY <2>2, <2>5 DEF Kept, KeptBytes
  <2>8. Fits(t.buffers, 0)
    BY <2>2, FitsNothing
  <2>9. ~u.autoCommit
    BY <2>2, <2>5 DEF SamePlace
  <2>10. u.room + 0 = PacketSize /\ 0 <= PacketSize
    BY <2>3, <2>5
  <2>11. Packing(u, d \o x, "writelob")
    BY <2>5, <2>6, <2>7, <2>8, <2>9, <2>10 DEF Packing, Limit
  <2> QED BY <2>1, <2>6, <2>11, ReadLobsWorks DEF Modes
<1> QED BY <1>2, <1>3

\* sendWriteLobRequest: a WRITE_LOB packet.
LEMMA SendLobWorks ==
  ASSUME batch \in Batches, NEW d \in Seq(Tokens), NEW x \in Seq(Tokens), NEW t, Working(t, d, x),
         NoCall(t), Packing(t, d \o x, "writelob")
  PROVE  TaskInv(Cleared(Send(t, "writelob")), d, x)
<1> DEFINE r == [type |-> "writelob", autoCommit |-> t.autoCommit, data |-> t.buffers, size |-> t.bytes]
           u == Cleared(t)
<1>1. t \in Task /\ t.requests = <<>> /\ d \o x \in Seq(Tokens)
  BY Associative DEF Working, Turns, NoRequest
<1>2. t.buffers \in Seq(Tokens) /\ t.bytes \in Nat /\ t.autoCommit \in BOOLEAN
  BY <1>1, TaskTypes
<1>3. ~t.params /\ ~t.autoCommit /\ NoneFailed(t)
  BY DEF Packing
<1>4. r \in Request /\ r.type = "writelob" /\ r.data = t.buffers /\ r.size = t.bytes
      /\ ~r.autoCommit /\ r.autoCommit = t.autoCommit
  BY <1>2, <1>3 DEF Request, Requests
<1>5. Cleared(Send(t, "writelob")) = [u EXCEPT !.requests = <<r>>, !.receive = r.type]
  <2>1. Append(t.requests, r) = <<r>>
    BY <1>1
  <2>2. Send(t, "writelob") = [t EXCEPT !.requests = Append(@, r), !.receive = "writelob"]
    BY DEF Send
  <2>3. Send(t, "writelob") = [t EXCEPT !.requests = <<r>>, !.receive = "writelob"]
    BY <1>1, <2>1, <2>2 DEF Task
  <2> QED BY <1>1, <2>3 DEF Cleared, Task
<1>6. SamePlace(t, u) /\ ~u.params /\ u.buffers = <<>> /\ u.bytes = 0
  <2>1. <<>> \in Seq(Tokens) /\ 0 \in Nat
    OBVIOUS
  <2> QED BY <1>1, <2>1 DEF Cleared, Task, SamePlace
<1> HIDE DEF r, u
<1>7. Position(u) = Position(t) /\ NoneFailed(u) /\ NoCall(u) /\ Working(u, d, x)
  BY <1>3, <1>6, SamePlaceFacts
<1>8. RowInHand(u)
  BY <1>3, <1>6, <1>7 DEF RowInHand, SamePlace
<1>9. /\ UpTo((d \o x) \o t.buffers, Position(t)) /\ Fits(t.buffers, t.bytes) /\ t.bytes <= PacketSize
  BY DEF Packing, Kept, KeptBytes, Limit
<1>10. ((d \o x) \o t.buffers) \o u.buffers = (d \o x) \o t.buffers
  <2>1. (d \o x) \o t.buffers \in Seq(Tokens)
    BY <1>1, <1>2, Associative
  <2> QED BY <1>6, <2>1, ConcatEmptySeq
<1>11. UpTo(((d \o x) \o r.data) \o u.buffers, Position(u))
  BY <1>4, <1>7, <1>9, <1>10
<1>12. Sending(u, d \o x, r)
  <2>1. r.autoCommit = u.autoCommit
    BY <1>4, <1>6 DEF SamePlace
  <2> QED BY <1>4, <1>8, <1>9, <1>11, <2>1 DEF Sending, Limit
<1>13. TaskInv([u EXCEPT !.requests = <<r>>, !.receive = r.type], d, x)
  BY <1>4, <1>7, <1>12, Sent, Zenon
<1> QED BY <1>5, <1>13

-----------------------------------------------------------------------------
(* What the server has received *)

LEMMA Received ==
  ASSUME batch \in Batches, NEW d \in Seq(Tokens), NEW x \in Seq(Tokens), NEW t, TaskInv(t, d, x)
  PROVE  Orderly(d \o x)
<1> DEFINE s == d \o x
<1>1. s \in Seq(Tokens) /\ t \in Task /\ Turns(t)
  BY Associative DEF TaskInv, Turns
<1>2. Position(t) \in Triples
  BY <1>1, PositionFacts
<1>3. ASSUME NEW b \in Seq(Tokens), UpTo(s \o b, Position(t))
      PROVE  Orderly(s)
  <2>1. s \o b \in Seq(Tokens)
    BY <1>1, Associative
  <2>2. Orderly(s \o b)
    BY <1>2, <1>3, <2>1, UpToIsOrderly
  <2> QED BY <1>1, <2>2, Beginning
<1>4. ASSUME NEW mode \in Modes, Packing(t, s, mode)
      PROVE  Orderly(s)
  <2>1. Kept(t, mode) \in Seq(Tokens)
    BY <1>1, PackingTypes
  <2> QED BY <1>3, <1>4, <2>1 DEF Packing
<1>5. CASE Starts(t, s)
  <2>1. s = <<>>
    BY <1>5 DEF Starts
  <2> HIDE DEF s
  <2>2. DOMAIN s = {}
    BY <2>1
  <2> QED BY <2>2 DEF Orderly, Ordered, s
<1>6. CASE Reading(t, s)
  BY <1>4, <1>6 DEF Reading
<1>7. CASE Defers(t, s)
  <2>1. PICK c \in Call : IF c.step = "fail" THEN Orderly(s) ELSE Packing(t, s, c.mode)
    BY <1>7 DEF Defers
  <2>2. c.mode \in Modes
    BY DEF Call
  <2> QED BY <1>4, <2>1, <2>2
<1>8. CASE Waits(t, s)
  <2>1. PICK r \in Range(t.requests) : t.requests = <<r>> /\ (Finishing(t, s, r) \/ Sending(t, s, r))
    BY <1>8 DEF Waits
  <2>2. CASE Finishing(t, s, r)
    BY <2>2 DEF Finishing
  <2>3. CASE Sending(t, s, r)
    <3>1. r \in Request
      <4>1. t.requests \in Seq(Request)
        BY <1>1, TaskTypes
      <4> QED BY <2>1, <4>1
    <3>2. r.data \in Seq(Tokens) /\ t.buffers \in Seq(Tokens)
      BY <1>1, <3>1, TaskTypes DEF Request
    <3>3. r.data \o t.buffers \in Seq(Tokens)
      BY <3>2, Associative
    <3>4. (s \o r.data) \o t.buffers = s \o (r.data \o t.buffers)
      <4>1. s \in Seq(Tokens)
        BY <1>1
      <4>2. r.data \in Seq(Tokens)
        BY <3>2
      <4>3. t.buffers \in Seq(Tokens)
        BY <3>2
      <4> HIDE DEF s
      <4> QED BY <4>1, <4>2, <4>3, SentThenPacked, ZenonT(30)
    <3>5. UpTo(s \o (r.data \o t.buffers), Position(t))
      BY <2>3, <3>4 DEF Sending
    <3> QED BY <1>3, <3>3, <3>5
  <2> QED BY <2>1, <2>2, <2>3
<1>9. CASE Ends(t, d, x)
  BY <1>9 DEF Ends
<1> QED BY <1>5, <1>6, <1>7, <1>8, <1>9 DEF TaskInv

-----------------------------------------------------------------------------
(* The steps of the task *)

LEMMA InvFacts ==
  ASSUME NEW d, NEW x, InvAt(d, x)
  PROVE  /\ batch \in Batches /\ d \in Seq(Tokens) /\ x \in Seq(Tokens)
         /\ TaskInv(task, d, x) /\ task \in Task /\ Turns(task)
         /\ d \o x \in Seq(Tokens) /\ Orderly(d \o x)
<1>1. batch \in Batches /\ d \in Seq(Tokens) /\ x \in Seq(Tokens) /\ TaskInv(task, d, x)
  BY DEF InvAt
<1> QED BY <1>1, Associative, Received DEF TaskInv, Turns

LEMMA RunKeeps ==
  ASSUME NEW d, NEW x, InvAt(d, x), Run
  PROVE  TaskInv(task', d, x)
<1> DEFINE s == d \o x
           u == [task EXCEPT !.started = TRUE]
<1>1. /\ batch \in Batches /\ d \in Seq(Tokens) /\ x \in Seq(Tokens) /\ task \in Task
      /\ Turns(task) /\ s \in Seq(Tokens)
  BY InvFacts
<1>2. Uncommitted(task, d, x) /\ Starts(task, s)
  BY InvFacts DEF Run, TaskInv, Reading, Defers, Waits, NotCalled, Ends
<1>3. /\ u \in Task /\ SameWriter(task, u) /\ u.started /\ u.calls = task.calls
      /\ u.outcome = task.outcome /\ u.attached = task.attached /\ u.immediates = task.immediates
      /\ u.requests = task.requests /\ u.receive = task.receive /\ u.autoCommit = task.autoCommit
      /\ u.needFinalize = task.needFinalize
  BY <1>1 DEF Task, SameWriter
<1>4. task' = Ended(u, "error") \/ task' = Execute(u)
  BY DEF Run
<1> HIDE DEF u
<1>5. Turns(u) /\ Position(u) = Position(task) /\ (NoneFailed(task) => NoneFailed(u))
  BY <1>1, <1>3, SameWriterFacts
<1>6. Working(u, d, x) /\ NoCall(u)
  BY <1>2, <1>3, <1>5 DEF Working, Uncommitted, NotCalled, NoRequest, NoCall, Starts
<1>7. CASE task' = Ended(u, "error")
  <2> DEFINE v == Ended(u, "error")
  <2>1. u.calls = 0 /\ u.calls + 1 = 1
    BY <1>6 DEF Working, NotCalled
  <2>2. v = [u EXCEPT !.calls = 1, !.outcome = "error"]
    BY <1>3, <2>1 DEF Ended, Task
  <2> HIDE DEF v
  <2>3. /\ v \in Task /\ SameWriter(u, v) /\ v.calls = 1 /\ v.outcome = "error"
        /\ v.started = u.started /\ v.attached = u.attached /\ v.immediates = u.immediates
        /\ v.requests = u.requests /\ v.receive = u.receive
    BY <1>3, <2>2 DEF Task, SameWriter
  <2>4. Turns(v)
    BY <1>5, <2>3, SameWriterFacts
  <2>5. v.started /\ NoCall(v) /\ NoRequest(v)
    BY <1>3, <1>6, <2>3 DEF Working, NoCall, NoRequest
  <2>6. d = <<>> /\ s = <<>>
    BY <1>2 DEF Uncommitted, Starts
  <2>7. x = <<>>
    <3>1. <<>> \o x = x
      BY <1>1, ConcatEmptySeq
    <3> QED BY <2>6, <3>1
  <2>8. Ends(v, d, x)
    BY <2>3, <2>5, <2>6, <2>7, InvFacts DEF Ends
  <2> QED BY <1>7, <2>4, <2>8 DEF TaskInv, v
<1>8. CASE task' = Execute(u)
  <2>1. /\ ~task.params /\ task.row = 0 /\ task.lobs = <<>> /\ task.buffers = <<>>
        /\ NoneFailed(task) /\ s = <<>>
    BY <1>2 DEF Starts
  <2>2. ~u.params /\ u.row = 0 /\ u.lobs = <<>> /\ u.buffers = <<>> /\ NoneFailed(u)
    BY <1>3, <1>5, <2>1 DEF SameWriter
  <2>3. RowInHand(u)
    BY <2>2 DEF RowInHand
  <2>4. s \o u.buffers = <<>>
    <3>1. s \o <<>> = s
      BY <1>1, ConcatEmptySeq
    <3> QED BY <2>1, <2>2, <3>1
  <2>5. Position(u) = RowToken(1)
    BY <2>2 DEF Position
  <2>6. UpTo(s \o u.buffers, Position(u))
    BY <1>1, <2>4, <2>5, BeginningAndEnd
  <2>7. TaskInv(Execute(u), d, x)
    BY <1>1, <1>6, <2>2, <2>3, <2>6, ExecuteWorks
  <2> QED BY <1>8, <2>7
<1> QED BY <1>4, <1>7, <1>8

LEMMA ImmediateKeeps ==
  ASSUME NEW d, NEW x, InvAt(d, x), Immediate
  PROVE  TaskInv(task', d, x)
<1> DEFINE s == d \o x
           u == [task EXCEPT !.immediates = Tail(@)]
<1>1. /\ batch \in Batches /\ d \in Seq(Tokens) /\ x \in Seq(Tokens) /\ task \in Task
      /\ Turns(task) /\ s \in Seq(Tokens) /\ Orderly(s)
  BY InvFacts
<1>2. task.immediates # <<>>
  BY DEF Immediate
<1>3. Uncommitted(task, d, x) /\ Defers(task, s)
  BY <1>2, InvFacts DEF TaskInv, Starts, Reading, Waits, Ends, NoCall
<1>4. PICK c \in Call : /\ task.immediates = <<c>>
                        /\ IF c.step = "fail" THEN Orderly(s) ELSE Packing(task, s, c.mode)
  BY <1>3 DEF Defers
<1>5. c.step \in {"next", "done", "fail"} /\ c.mode \in Modes
  BY DEF Call
<1>6. Head(task.immediates) = c /\ Tail(task.immediates) = <<>> /\ <<>> \in Seq(Call)
  BY <1>4
<1>7. /\ u \in Task /\ SameWriter(task, u) /\ u.started = task.started /\ u.calls = task.calls
      /\ u.outcome = task.outcome /\ u.attached = task.attached /\ u.immediates = <<>>
      /\ u.requests = task.requests /\ u.receive = task.receive /\ u.autoCommit = task.autoCommit
      /\ u.needFinalize = task.needFinalize
  BY <1>1, <1>6 DEF Task, SameWriter
<1>8. task' = CASE c.step = "next" -> ReadLob(u, c.mode)
                [] c.step = "fail" -> Finalize(u, "error")
                [] c.step = "done" /\ c.mode = "parameters" -> HandleParameters(u)
                [] c.step = "done" /\ c.mode = "writelob" -> Cleared(Send(u, "writelob"))
  BY <1>6 DEF Immediate
<1> HIDE DEF u, s
<1>9. Turns(u) /\ (Packing(task, s, c.mode) => Packing(u, s, c.mode))
  BY <1>1, <1>7, SameWriterFacts
<1>10. Working(u, d, x) /\ NoCall(u)
  BY <1>3, <1>7, <1>9 DEF Working, Uncommitted, NotCalled, NoRequest, NoCall, Defers
<1>11. CASE c.step = "next"
  <2>1. TaskInv(ReadLob(u, c.mode), d, x)
    BY <1>1, <1>4, <1>5, <1>9, <1>10, <1>11, ReadLobWorks DEF s
  <2> QED BY <1>8, <1>11, <2>1
<1>12. CASE c.step = "fail"
  <2>1. TaskInv(Finalize(u, "error"), d, x)
    BY <1>1, <1>10, FinalizeWorks DEF s
  <2> QED BY <1>8, <1>12, <2>1
<1>13. CASE c.step = "done" /\ c.mode = "parameters"
  <2>1. TaskInv(HandleParameters(u), d, x)
    BY <1>1, <1>4, <1>9, <1>10, <1>13, HandleParametersWorks DEF s
  <2> QED BY <1>8, <1>13, <2>1
<1>14. CASE c.step = "done" /\ c.mode = "writelob"
  <2>1. TaskInv(Cleared(Send(u, "writelob")), d, x)
    BY <1>1, <1>4, <1>9, <1>10, <1>14, SendLobWorks DEF s
  <2> QED BY <1>8, <1>14, <2>1
<1> QED BY <1>5, <1>11, <1>12, <1>13, <1>14 DEF Modes

LEMMA ReadsFacts ==
  ASSUME NEW d, NEW x, InvAt(d, x), Attached
  PROVE  /\ Reading(task, d \o x) /\ Working(task, d, x) /\ task.attached \in Modes
         /\ task.lobs # <<>> /\ task.immediates = <<>> /\ task.room > 0
         /\ Packing(task, d \o x, task.attached)
<1>1. Reading(task, d \o x) /\ Uncommitted(task, d, x) /\ Turns(task)
  BY InvFacts DEF Attached, TaskInv, Starts, Defers, Waits, Ends, NoCall
<1> QED BY <1>1 DEF Reading, Working

LEMMA ReadableKeeps ==
  ASSUME NEW d, NEW x, InvAt(d, x), ReadableEvent
  PROVE  TaskInv(task', d, x)
<1>1. Attached /\ task' = OnReadable(task, task.attached)
  BY DEF ReadableEvent
<1> QED BY <1>1, InvFacts, ReadsFacts, OnReadableWorks

LEMMA EndKeeps ==
  ASSUME NEW d, NEW x, InvAt(d, x), EndEvent
  PROVE  TaskInv(task', d, x)
<1> DEFINE mode == task.attached
           last == FinalizeLob(task)
           u == [last EXCEPT !.attached = "none"]
<1>1. Attached /\ Complete(task.streams[Lob(task)]) /\ task' = Defer(u, "next", mode)
  BY DEF EndEvent
<1>2. /\ Working(task, d, x) /\ mode \in Modes /\ task.lobs # <<>> /\ task.immediates = <<>>
      /\ Packing(task, d \o x, mode)
  BY <1>1, ReadsFacts
<1>3. batch \in Batches /\ task \in Task /\ Turns(task) /\ d \o x \in Seq(Tokens)
  BY InvFacts
<1>4. Turns(last) /\ Packing(last, d \o x, mode)
  BY <1>1, <1>2, <1>3, FinalizeLobPacks
<1>5. /\ last.started = task.started /\ last.needFinalize = task.needFinalize
      /\ last.requests = task.requests /\ last.receive = task.receive /\ last.calls = task.calls
      /\ last.outcome = task.outcome /\ last.autoCommit = task.autoCommit
      /\ last.immediates = task.immediates
  BY <1>3 DEF FinalizeLob, Task
<1> HIDE DEF last
<1>6. /\ u \in Task /\ SameWriter(last, u) /\ u.attached = "none"
      /\ u.started = task.started /\ u.needFinalize = task.needFinalize
      /\ u.requests = task.requests /\ u.receive = task.receive /\ u.calls = task.calls
      /\ u.outcome = task.outcome /\ u.autoCommit = task.autoCommit
      /\ u.immediates = task.immediates
  BY <1>4, <1>5 DEF Turns, Task, SameWriter
<1> HIDE DEF u
<1>7. Turns(u) /\ Packing(u, d \o x, mode)
  BY <1>4, <1>6, SameWriterFacts
<1>8. Working(u, d, x) /\ NoCall(u)
  BY <1>2, <1>6, <1>7 DEF Working, Uncommitted, NotCalled, NoRequest, NoCall
<1> QED BY <1>1, <1>2, <1>7, <1>8, Deferred

\* The streams have moved, but nothing was read from them.
SameUnits(t, u) ==
  /\ u \in Task /\ u.next = t.next /\ u.params = t.params /\ u.row = t.row /\ u.lobs = t.lobs
  /\ u.buffers = t.buffers /\ u.bytes = t.bytes /\ u.args = t.args /\ u.argBytes = t.argBytes
  /\ u.room = t.room /\ u.autoCommit = t.autoCommit /\ u.needFinalize = t.needFinalize
  /\ u.started = t.started /\ u.calls = t.calls /\ u.outcome = t.outcome
  /\ u.attached = t.attached /\ u.immediates = t.immediates
  /\ u.requests = t.requests /\ u.receive = t.receive
  /\ \A k \in LobIds : /\ UnitsRead(u, k) = UnitsRead(t, k)
                       /\ u.streams[k].ended => u.streams[k].left = 0
                       /\ u.streams[k].left + u.streams[k].buffered <= Length(k)

LEMMA SameUnitsFacts ==
  ASSUME batch \in Batches, NEW t, NEW u, Turns(t), SameUnits(t, u)
  PROVE  /\ Position(u) = Position(t) /\ Turns(u)
         /\ \A d, x : Working(t, d, x) => Working(u, d, x)
<1>1. Lob(u) = Lob(t)
  BY DEF SameUnits, Lob
<1>2. Position(u) = Position(t)
  <2>1. CASE t.lobs = <<>>
    BY <2>1 DEF SameUnits, Position
  <2>2. CASE t.lobs # <<>>
    <3>1. Lob(t) \in LobIds
      BY <2>2, LobInHand
    <3>2. UnitsRead(u, Lob(t)) = UnitsRead(t, Lob(t))
      BY <3>1 DEF SameUnits
    <3>3. u.lobs = t.lobs
      BY DEF SameUnits
    <3> QED BY <1>1, <2>2, <3>2, <3>3 DEF Position
  <2> QED BY <2>1, <2>2
<1>3. LastLobs(u)
  BY DEF SameUnits, Turns, LastLobs
<1>4. StreamInv(u)
  BY <1>2 DEF SameUnits, Turns, StreamInv
<1>5. Turns(u)
  BY <1>3, <1>4 DEF SameUnits, Turns
<1>6. ASSUME NEW d, NEW x, Working(t, d, x)
      PROVE  Working(u, d, x)
  BY <1>5, <1>6 DEF SameUnits, Working, Uncommitted, NotCalled, NoRequest
<1> QED BY <1>2, <1>5, <1>6

\* The task does not notice what happens to its streams, unless they fail.
LEMMA SameUnitsKeeps ==
  ASSUME batch \in Batches, NEW d \in Seq(Tokens), NEW x \in Seq(Tokens), NEW t, NEW u,
         TaskInv(t, d, x), SameUnits(t, u), NoneFailed(t) => NoneFailed(u)
  PROVE  TaskInv(u, d, x)
<1> DEFINE s == d \o x
<1>1. Turns(t) /\ Turns(u) /\ Position(u) = Position(t)
  BY SameUnitsFacts DEF TaskInv
<1>2. /\ u.next = t.next /\ u.params = t.params /\ u.row = t.row /\ u.lobs = t.lobs
      /\ u.buffers = t.buffers /\ u.bytes = t.bytes /\ u.args = t.args /\ u.argBytes = t.argBytes
      /\ u.room = t.room /\ u.autoCommit = t.autoCommit /\ u.needFinalize = t.needFinalize
      /\ u.started = t.started /\ u.calls = t.calls /\ u.outcome = t.outcome
      /\ u.attached = t.attached /\ u.immediates = t.immediates
      /\ u.requests = t.requests /\ u.receive = t.receive
  BY DEF SameUnits
<1> HIDE DEF s
<1>3. Uncommitted(t, d, x) => Uncommitted(u, d, x)
  BY <1>2 DEF Uncommitted
<1>4. ASSUME NEW mode, Packing(t, s, mode)
      PROVE  Packing(u, s, mode)
  <2>1. Kept(u, mode) = Kept(t, mode) /\ KeptBytes(u, mode) = KeptBytes(t, mode)
    BY <1>2 DEF Kept, KeptBytes
  <2>2. NoneFailed(u)
    BY <1>4 DEF Packing
  <2> QED BY <1>1, <1>2, <1>4, <2>1, <2>2 DEF Packing
<1>5. RowInHand(t) => RowInHand(u)
  BY <1>2 DEF RowInHand
<1>6. Starts(t, s) => Starts(u, s)
  BY <1>2 DEF Starts, NoCall, NoRequest
<1>7. Reading(t, s) => Reading(u, s)
  BY <1>2, <1>4 DEF Reading, NotCalled, NoRequest
<1>8. Defers(t, s) => Defers(u, s)
  BY <1>2, <1>4 DEF Defers, NotCalled, NoRequest
<1>9. ASSUME NEW r, Sending(t, s, r)
      PROVE  Sending(u, s, r)
  BY <1>1, <1>2, <1>5, <1>9 DEF Sending
<1>10. ASSUME NEW r, Finishing(t, s, r)
       PROVE  Finishing(u, s, r)
  BY <1>2, <1>10 DEF Finishing
<1>11. Waits(t, s) => Waits(u, s)
  BY <1>2, <1>9, <1>10 DEF Waits, NotCalled, NoCall
<1>12. Ends(t, d, x) => Ends(u, d, x)
  BY <1>2 DEF Ends, NoCall, NoRequest
<1> QED BY <1>1, <1>3, <1>6, <1>7, <1>8, <1>11, <1>12 DEF TaskInv, s

LEMMA ArriveKeeps ==
  ASSUME NEW d, NEW x, InvAt(d, x), NEW k \in LobIds, Arrive(k)
  PROVE  TaskInv(task', d, x)
<1> DEFINE st == task.streams[k]
<1>1. /\ batch \in Batches /\ d \in Seq(Tokens) /\ x \in Seq(Tokens) /\ task \in Task
      /\ Turns(task) /\ TaskInv(task, d, x)
  BY InvFacts
<1>2. /\ st \in Stream /\ st.buffered \in Nat /\ st.left \in Nat /\ Length(k) \in Nat
      /\ ~st.ended /\ st.left + st.buffered <= Length(k)
  <2>1. st \in Stream /\ st.buffered \in Nat /\ st.left \in Nat /\ Length(k) \in Nat
    BY <1>1, StreamFacts
  <2> QED BY <1>1, <2>1 DEF Turns, StreamInv, Arrive
<1>3. PICK new \in Stream : /\ task' = [task EXCEPT !.streams[k] = new]
                            /\ new.left + new.buffered = st.left + st.buffered
                            /\ new.errored = st.errored /\ (new.ended => new.left = 0)
  <2>1. CASE \E n \in 1..st.left :
               task' = [task EXCEPT !.streams[k].left = @ - n, !.streams[k].buffered = @ + n]
    <3>1. PICK n \in 1..st.left :
            task' = [task EXCEPT !.streams[k].left = @ - n, !.streams[k].buffered = @ + n]
      BY <2>1
    <3> DEFINE new == [st EXCEPT !.left = @ - n, !.buffered = @ + n]
    <3>2. new \in Stream /\ new.left + new.buffered = st.left + st.buffered
          /\ new.errored = st.errored /\ new.ended = st.ended
      <4>1. st.left - n \in Nat /\ st.buffered + n \in Nat
            /\ (st.left - n) + (st.buffered + n) = st.left + st.buffered
        BY <1>2
      <4>2. /\ new \in Stream /\ new.left = st.left - n /\ new.buffered = st.buffered + n
            /\ new.errored = st.errored /\ new.ended = st.ended
        <5> HIDE DEF st
        <5> QED BY <1>2, <4>1 DEF Stream
      <4> QED BY <4>1, <4>2
    <3>3. task' = [task EXCEPT !.streams[k] = new]
      BY <3>1, <1>1, <1>2 DEF Task
    <3> QED BY <1>2, <3>2, <3>3
  <2>2. CASE st.left = 0 /\ task' = [task EXCEPT !.streams[k].ended = TRUE]
    <3> DEFINE new == [st EXCEPT !.ended = TRUE]
    <3>1. new \in Stream /\ new.left = st.left /\ new.buffered = st.buffered
          /\ new.errored = st.errored
      BY <1>2 DEF Stream
    <3>2. task' = [task EXCEPT !.streams[k] = new]
      BY <2>2, <1>1, <1>2 DEF Task
    <3> QED BY <1>2, <2>2, <3>1, <3>2
  <2> QED BY <2>1, <2>2 DEF Arrive
<1> DEFINE u == [task EXCEPT !.streams[k] = new]
<1>4. /\ u \in Task /\ u.streams = [task.streams EXCEPT ![k] = new]
      /\ u.next = task.next /\ u.params = task.params /\ u.row = task.row /\ u.lobs = task.lobs
      /\ u.buffers = task.buffers /\ u.bytes = task.bytes /\ u.args = task.args
      /\ u.argBytes = task.argBytes
      /\ u.room = task.room /\ u.autoCommit = task.autoCommit /\ u.needFinalize = task.needFinalize
      /\ u.started = task.started /\ u.calls = task.calls /\ u.outcome = task.outcome
      /\ u.attached = task.attached /\ u.immediates = task.immediates
      /\ u.requests = task.requests /\ u.receive = task.receive
  BY <1>1 DEF Task
<1> HIDE DEF u
<1>5. u.streams[k] = new /\ \A j \in LobIds : j # k => u.streams[j] = task.streams[j]
  <2>1. task.streams \in [LobIds -> Stream]
    BY <1>1, TaskTypes
  <2> QED BY <1>4, <2>1
<1>6. ASSUME NEW j \in LobIds
      PROVE  /\ UnitsRead(u, j) = UnitsRead(task, j)
             /\ u.streams[j].ended => u.streams[j].left = 0
             /\ u.streams[j].left + u.streams[j].buffered <= Length(j)
             /\ u.streams[j].errored = task.streams[j].errored
  <2>1. CASE j # k
    BY <2>1, <1>1, <1>5 DEF UnitsRead, Turns, StreamInv
  <2>2. CASE j = k
    <3>1. new.left \in Nat /\ new.buffered \in Nat
      BY DEF Stream
    <3>2. Length(k) - new.left - new.buffered = Length(k) - st.left - st.buffered
      BY <1>2, <1>3, <3>1
    <3> QED BY <1>2, <1>3, <1>5, <2>2, <3>2 DEF UnitsRead
  <2> QED BY <2>1, <2>2
<1>7. SameUnits(task, u)
  BY <1>4, <1>6 DEF SameUnits
<1>8. NoneFailed(task) => NoneFailed(u)
  BY <1>6 DEF NoneFailed
<1>9. TaskInv(u, d, x)
  BY <1>1, <1>7, <1>8, SameUnitsKeeps
<1> QED BY <1>3, <1>9 DEF u

\* The stream that is read fails.
LEMMA StreamErrorKeeps ==
  ASSUME NEW d, NEW x, InvAt(d, x), FailsInTurn, NEW k \in LobIds, StreamError(k)
  PROVE  TaskInv(task', d, x)
<1> DEFINE new == [task.streams[k] EXCEPT !.errored = TRUE]
           u == [task EXCEPT !.streams[k].errored = TRUE]
           v == [u EXCEPT !.attached = "none"]
<1>1. /\ batch \in Batches /\ d \in Seq(Tokens) /\ x \in Seq(Tokens) /\ task \in Task
      /\ Turns(task) /\ Orderly(d \o x)
  BY InvFacts
<1>2. Attached /\ task' = Defer(v, "fail", task.attached)
  BY <1>1 DEF StreamError, FailsInTurn, Faults, Reads
<1>3. Working(task, d, x) /\ task.attached \in Modes /\ task.immediates = <<>>
  BY <1>2, ReadsFacts
<1>4. task.streams[k] \in Stream /\ task.streams \in [LobIds -> Stream]
  BY <1>1, TaskTypes
<1>5. /\ new \in Stream /\ new.left = task.streams[k].left /\ new.buffered = task.streams[k].buffered
      /\ new.ended = task.streams[k].ended
  BY <1>4 DEF Stream
<1>6. u = [task EXCEPT !.streams[k] = new]
  BY <1>1, <1>4 DEF Task
<1> HIDE DEF new, u
<1>7. /\ u \in Task /\ u.streams = [task.streams EXCEPT ![k] = new]
      /\ u.next = task.next /\ u.params = task.params /\ u.row = task.row /\ u.lobs = task.lobs
      /\ u.buffers = task.buffers /\ u.bytes = task.bytes /\ u.args = task.args
      /\ u.argBytes = task.argBytes
      /\ u.room = task.room /\ u.autoCommit = task.autoCommit /\ u.needFinalize = task.needFinalize
      /\ u.started = task.started /\ u.calls = task.calls /\ u.outcome = task.outcome
      /\ u.attached = task.attached /\ u.immediates = task.immediates
      /\ u.requests = task.requests /\ u.receive = task.receive
  BY <1>1, <1>5, <1>6 DEF Task
<1>8. u.streams[k] = new /\ \A j \in LobIds : j # k => u.streams[j] = task.streams[j]
  BY <1>4, <1>7
<1>9. ASSUME NEW j \in LobIds
      PROVE  /\ UnitsRead(u, j) = UnitsRead(task, j)
             /\ u.streams[j].ended => u.streams[j].left = 0
             /\ u.streams[j].left + u.streams[j].buffered <= Length(j)
  <2>1. CASE j # k
    BY <2>1, <1>1, <1>8 DEF UnitsRead, Turns, StreamInv
  <2>2. CASE j = k
    BY <2>2, <1>1, <1>5, <1>8 DEF UnitsRead, Turns, StreamInv
  <2> QED BY <2>1, <2>2
<1>10. SameUnits(task, u)
  BY <1>7, <1>9 DEF SameUnits
<1>11. Working(u, d, x)
  BY <1>1, <1>3, <1>10, SameUnitsFacts
<1>12. /\ v \in Task /\ SameWriter(u, v) /\ v.attached = "none"
       /\ v.started = u.started /\ v.needFinalize = u.needFinalize
       /\ v.requests = u.requests /\ v.receive = u.receive /\ v.calls = u.calls
       /\ v.outcome = u.outcome /\ v.autoCommit = u.autoCommit /\ v.immediates = u.immediates
  BY <1>7 DEF Task, SameWriter
<1> HIDE DEF v
<1>13. Turns(v)
  BY <1>11, <1>12, SameWriterFacts DEF Working
<1>14. Working(v, d, x) /\ NoCall(v)
  BY <1>3, <1>7, <1>11, <1>12, <1>13 DEF Working, Uncommitted, NotCalled, NoRequest, NoCall
<1> QED BY <1>1, <1>2, <1>3, <1>14, Deferred

\* The requests of the task are served one at a time.
LEMMA ReplyFacts ==
  ASSUME NEW d, NEW x, InvAt(d, x), task.requests # <<>>
  PROVE  LET s == d \o x
             t == Answered(task)
         IN \E r \in Request :
              /\ Head(task.requests) = r /\ task.receive = r.type
              /\ Finishing(task, s, r) \/ Sending(task, s, r)
              /\ Working(t, d, x) /\ NoCall(t) /\ SameWriter(task, t)
              /\ t.autoCommit = task.autoCommit /\ t.needFinalize = task.needFinalize
<1> DEFINE s == d \o x
           t == Answered(task)
<1>1. task \in Task /\ Turns(task)
  BY InvFacts
<1>2. Uncommitted(task, d, x) /\ Waits(task, s)
  BY InvFacts DEF TaskInv, Starts, Reading, Defers, Ends, NoRequest
<1>3. PICK r \in Range(task.requests) : /\ task.requests = <<r>> /\ task.receive = r.type
                                        /\ Finishing(task, s, r) \/ Sending(task, s, r)
  BY <1>2 DEF Waits
<1>4. r \in Request
  <2>1. task.requests \in Seq(Request)
    BY <1>1, TaskTypes
  <2> QED BY <1>3, <2>1
<1>5. Head(task.requests) = r /\ Tail(task.requests) = <<>> /\ <<>> \in Seq(Request)
  BY <1>3
<1>6. /\ t \in Task /\ SameWriter(task, t) /\ t.started = task.started /\ t.calls = task.calls
      /\ t.outcome = task.outcome /\ t.attached = task.attached
      /\ t.immediates = task.immediates /\ t.requests = <<>> /\ t.receive = "none"
      /\ t.autoCommit = task.autoCommit /\ t.needFinalize = task.needFinalize
  BY <1>1, <1>5 DEF Task, SameWriter, Answered
<1> HIDE DEF t
<1>7. Turns(t)
  BY <1>1, <1>6, SameWriterFacts
<1>8. Working(t, d, x) /\ NoCall(t)
  BY <1>2, <1>6, <1>7 DEF Working, Uncommitted, NotCalled, NoRequest, NoCall, Waits
<1> QED BY <1>3, <1>4, <1>5, <1>6, <1>8 DEF t

\* The task ends with the reply to COMMIT or ROLLBACK.
LEMMA EndsWith ==
  ASSUME NEW d, NEW x, NEW d2, NEW x2, NEW t, Working(t, d, x), NoCall(t),
         NEW outcome \in {"ok", "error"}, Orderly(d2 \o x2),
         outcome = "ok" => Range(d2 \o x2) = Tokens, outcome = "error" \/ ~AutoCommit => d2 = <<>>,
         outcome = "ok" /\ AutoCommit => x2 = <<>>,
         "finalize" \notin Faults /\ RowsFit /\ AutoCommit => x2 = <<>>
  PROVE  TaskInv(Ended(t, outcome), d2, x2)
<1> DEFINE u == Ended(t, outcome)
<1>1. t \in Task /\ Turns(t)
  BY DEF Working, Turns
<1>2. t.calls + 1 = 1
  BY DEF Working, NotCalled
<1>3. u = [t EXCEPT !.calls = 1, !.outcome = outcome]
  BY <1>1, <1>2 DEF Ended, Task
<1> HIDE DEF u
<1>4. /\ u \in Task /\ SameWriter(t, u) /\ u.calls = 1 /\ u.outcome = outcome
      /\ u.started = t.started /\ u.attached = t.attached /\ u.immediates = t.immediates
      /\ u.requests = t.requests /\ u.receive = t.receive
  BY <1>1, <1>3 DEF Task, SameWriter
<1>5. Turns(u)
  BY <1>1, <1>4, SameWriterFacts
<1>6. u.started /\ NoCall(u) /\ NoRequest(u)
  BY <1>4 DEF Working, NoCall, NoRequest, NotCalled
<1>7. Ends(u, d2, x2)
  BY <1>4, <1>6 DEF Ends
<1> QED BY <1>5, <1>7 DEF TaskInv, u

\* COMMIT and ROLLBACK, and what they do to the transaction.
LEMMA FinishingKeeps ==
  ASSUME InvAt(durable, tx), Reply, Finishing(task, durable \o tx, Head(task.requests))
  PROVE  TaskInv(task', durable', tx')
<1> DEFINE s == durable \o tx
           t == Answered(task)
<1>1. /\ batch \in Batches /\ durable \in Seq(Tokens) /\ tx \in Seq(Tokens) /\ Orderly(s)
      /\ s \in Seq(Tokens)
  BY InvFacts
<1>2. task.requests # <<>>
  BY DEF Reply
<1>3. PICK r \in Request : /\ Head(task.requests) = r /\ task.receive = r.type
                           /\ Working(t, durable, tx) /\ NoCall(t)
                           /\ t.autoCommit = task.autoCommit /\ t.needFinalize = task.needFinalize
  BY <1>2, ReplyFacts
<1>4. Finishing(task, s, r)
  BY <1>3
<1>5. r.type \in {"commit", "rollback"} /\ (r.type = "commit" => Range(s) = Tokens)
  BY <1>4 DEF Finishing
<1>6. durable = <<>> /\ AutoCommit
  BY <1>3, <1>4 DEF Finishing, Working, Uncommitted
<1>7. \/ /\ Apply(r)
         /\ task' = CASE task.receive \in {"execute", "writelob"} -> WriteLob(t)
                      [] task.receive = "commit" -> Ended(t, "ok")
                      [] task.receive = "rollback" -> Ended(t, "error")
                      [] task.receive = "none" -> t
      \/ /\ MayFail(r.type)
         /\ task' = CASE task.receive \in {"execute", "writelob"} -> Finalize(t, "error")
                      [] task.receive \in {"commit", "rollback"} -> Ended(t, "error")
                      [] task.receive = "none" -> t
         /\ UNCHANGED <<tx, durable>>
  BY <1>3 DEF Reply, Failed
<1> HIDE DEF t, s
<1>8. CASE /\ Apply(r) /\ r.type = "commit" /\ task' = Ended(t, "ok")
  <2>1. durable' = s /\ tx' = <<>>
    BY <1>8 DEF Apply, s
  <2>2. s \o <<>> = s
    BY <1>1, ConcatEmptySeq
  <2>3. TaskInv(Ended(t, "ok"), s, <<>>)
    BY <1>1, <1>3, <1>5, <1>6, <1>8, <2>2, EndsWith
  <2> QED BY <1>8, <2>1, <2>3
<1>9. CASE /\ Apply(r) /\ r.type = "rollback" /\ task' = Ended(t, "error")
  <2>1. durable' = <<>> /\ tx' = <<>>
    BY <1>6, <1>9 DEF Apply
  <2>2. <<>> \o <<>> = <<>> /\ <<>> \in Seq(Tokens)
    OBVIOUS
  <2>3. Orderly(<<>>)
    BY DEF Orderly, Ordered
  <2>4. TaskInv(Ended(t, "error"), <<>>, <<>>)
    BY <1>3, <2>2, <2>3, EndsWith
  <2> QED BY <1>9, <2>1, <2>4
<1>10. CASE /\ MayFail(r.type) /\ task' = Ended(t, "error") /\ UNCHANGED <<tx, durable>>
  <2>1. "finalize" \in Faults
    BY <1>5, <1>10 DEF MayFail
  <2>2. TaskInv(Ended(t, "error"), durable, tx)
    BY <1>1, <1>3, <1>6, <2>1, EndsWith DEF s
  <2> QED BY <1>10, <2>2
<1> QED BY <1>3, <1>5, <1>7, <1>8, <1>9, <1>10

LEMMA ExecuteAlone ==
  ASSUME batch \in Batches, NEW t \in Task, t.next = t.row + 1, t.row = Len(Rows), ~t.params,
         t.lobs = <<>>, t.buffers = <<>>, ~t.needFinalize
  PROVE  WriteLob(t) = Ended(t, "ok")
<1>1. t.next > Len(Rows)
  BY BatchFacts
<1> QED BY <1>1 DEF WriteLob, Execute, Finalize

\* Rows and LOB data.
LEMMA SendingKeeps ==
  ASSUME InvAt(durable, tx), Reply, Sending(task, durable \o tx, Head(task.requests))
  PROVE  TaskInv(task', durable', tx')
<1> DEFINE s == durable \o tx
           t == Answered(task)
<1>1. /\ batch \in Batches /\ durable \in Seq(Tokens) /\ tx \in Seq(Tokens) /\ Orderly(s)
      /\ s \in Seq(Tokens) /\ task \in Task /\ Turns(task)
  BY InvFacts
<1>2. task.requests # <<>>
  BY DEF Reply
<1>3. PICK r \in Request : /\ Head(task.requests) = r /\ task.receive = r.type
                           /\ Working(t, durable, tx) /\ NoCall(t) /\ SameWriter(task, t)
                           /\ t.autoCommit = task.autoCommit /\ t.needFinalize = task.needFinalize
  BY <1>2, ReplyFacts
<1>4. Sending(task, s, r)
  BY <1>3
<1>5. /\ r.type \in {"execute", "writelob"} /\ RowInHand(task) /\ r.autoCommit = task.autoCommit
      /\ r.autoCommit => /\ r.type = "execute" /\ ~task.params /\ task.lobs = <<>>
                         /\ task.row = Len(Rows)
      /\ UpTo(s \o r.data \o task.buffers, Position(task))
  BY <1>4 DEF Sending
<1>6. durable = <<>> /\ (t.autoCommit => AutoCommit /\ tx = <<>> /\ ~t.needFinalize)
  BY <1>3 DEF Working, Uncommitted
<1>7. \/ /\ Apply(r) /\ task' = WriteLob(t)
      \/ /\ task' = Finalize(t, "error") /\ UNCHANGED <<tx, durable>>
  BY <1>3, <1>5 DEF Reply, Failed
<1> HIDE DEF t, s
<1>8. /\ RowInHand(t) /\ Position(t) = Position(task) /\ t \in Task /\ t.buffers = task.buffers
      /\ t.params = task.params /\ t.lobs = task.lobs /\ t.row = task.row /\ Turns(t)
  BY <1>3, <1>5, SameWriterFacts DEF SameWriter, Working, Turns
<1>9. /\ r.data \in Seq(Tokens) /\ t.buffers \in Seq(Tokens) /\ r.autoCommit \in BOOLEAN
      /\ Position(t) \in Triples
  BY <1>1, <1>8, TaskTypes, PositionFacts DEF Request
<1>10. UpTo((s \o r.data) \o t.buffers, Position(t))
  BY <1>5, <1>8
<1>11. s = tx /\ s \o r.data = tx \o r.data /\ tx \o r.data \in Seq(Tokens)
       /\ durable \o (tx \o r.data) = tx \o r.data
  <2>1. s = tx
    BY <1>1, <1>6, ConcatEmptySeq DEF s
  <2>2. tx \o r.data \in Seq(Tokens)
    BY <1>1, <1>9, Associative
  <2>3. durable \o (tx \o r.data) = tx \o r.data
    BY <1>6, <2>2, ConcatEmptySeq
  <2> QED BY <2>1, <2>2, <2>3
<1>12. CASE Apply(r) /\ task' = WriteLob(t) /\ r.autoCommit
  <2>1. t.buffers = <<>> /\ tx = <<>> /\ AutoCommit /\ ~t.needFinalize /\ t.row = Len(Rows)
    BY <1>3, <1>5, <1>6, <1>8, <1>12 DEF RowInHand
  <2>2. durable' = durable \o tx \o r.data /\ tx' = <<>>
    BY <1>5, <1>12 DEF Apply
  <2>3. durable' = tx \o r.data
    BY <1>11, <2>2 DEF s
  <2>4. (tx \o r.data) \o t.buffers = tx \o r.data /\ (tx \o r.data) \o <<>> = tx \o r.data
    BY <1>11, <2>1, ConcatEmptySeq
  <2>5. UpTo(tx \o r.data, Position(t))
    BY <1>10, <1>11, <2>4
  <2>6. Position(t) = RowToken(Len(Rows) + 1)
    BY <1>5, <1>8, <1>12, <2>1 DEF Position
  <2>7. Orderly(tx \o r.data) /\ Range(tx \o r.data) = Tokens
    BY <1>1, <1>9, <1>11, <2>5, <2>6, UpToIsOrderly, BeginningAndEnd
  <2>8. WriteLob(t) = Ended(t, "ok")
    BY <1>1, <1>5, <1>8, <1>12, <2>1, ExecuteAlone DEF Turns
  <2>9. Orderly((tx \o r.data) \o <<>>) /\ Range((tx \o r.data) \o <<>>) = Tokens
    BY <2>4, <2>7
  <2>10. TaskInv(Ended(t, "ok"), tx \o r.data, <<>>)
    BY <1>3, <2>1, <2>9, EndsWith
  <2> QED BY <1>12, <2>2, <2>3, <2>8, <2>10
<1>13. CASE Apply(r) /\ task' = WriteLob(t) /\ ~r.autoCommit
  <2>1. tx' = tx \o r.data /\ durable' = durable
    BY <1>5, <1>13 DEF Apply
  <2>2. Working(t, durable, tx \o r.data)
    BY <1>3, <1>5, <1>13 DEF Working, Uncommitted
  <2>3. UpTo((durable \o (tx \o r.data)) \o t.buffers, Position(t))
    BY <1>10, <1>11
  <2>4. TaskInv(WriteLob(t), durable, tx \o r.data)
    BY <1>1, <1>3, <1>8, <1>11, <2>2, <2>3, WriteLobWorks
  <2> QED BY <1>13, <2>1, <2>4
<1>14. CASE task' = Finalize(t, "error") /\ UNCHANGED <<tx, durable>>
  <2>1. TaskInv(Finalize(t, "error"), durable, tx)
    BY <1>1, <1>3, FinalizeWorks DEF s
  <2> QED BY <1>14, <2>1
<1> QED BY <1>7, <1>9, <1>12, <1>13, <1>14

LEMMA ReplyKeeps ==
  ASSUME InvAt(durable, tx), Reply
  PROVE  TaskInv(task', durable', tx')
<1>1. task.requests # <<>>
  BY DEF Reply
<1>2. \/ Finishing(task, durable \o tx, Head(task.requests))
      \/ Sending(task, durable \o tx, Head(task.requests))
  BY <1>1, ReplyFacts
<1> QED BY <1>2, FinishingKeeps, SendingKeeps

-----------------------------------------------------------------------------
(* The invariant *)

LEMMA SameTokens ==
  ASSUME batch' = batch
  PROVE  Tokens' = Tokens /\ LobIds' = LobIds /\ RowIds' = RowIds
<1>1. Rows' = Rows
  BY DEF Rows
<1>2. LobIds' = LobIds /\ RowIds' = RowIds
  BY <1>1 DEF LobIds, RowIds
<1>3. \A k : Length(k)' = Length(k)
  BY <1>1 DEF Length
<1>4. Tokens' = Tokens
  BY <1>2, <1>3, ZenonT(30) DEF Tokens, LastData, Data, RowToken
<1> QED BY <1>2, <1>4

\* What holds of a task under the same batch, holds in the next state.
LEMMA SameBatch ==
  ASSUME batch' = batch
  PROVE  \A t, d, x : TaskInv(t, d, x) => TaskInv(t, d, x)'
<1> SUFFICES ASSUME NEW t, NEW d, NEW x
             PROVE  TaskInv(t, d, x) => TaskInv(t, d, x)'
  OBVIOUS
<1>1. Rows' = Rows /\ Faults' = Faults /\ AutoCommit' = AutoCommit
  BY DEF Rows, Faults, AutoCommit
<1>2. LobIds' = LobIds /\ RowIds' = RowIds
  BY SameTokens
<1>3. Tokens' = Tokens
  BY SameTokens
<1>4. Task' = Task
  BY <1>1, <1>2, <1>3, Zenon DEF Task, Request, Call, Stream
<1>5. Position(t)' = Position(t)
  BY <1>1, <1>2 DEF Position, UnitsRead, Length, Lob, Data, RowToken
<1>6. Turns(t) => Turns(t)'
  <2>1. LastLobs(t) => LastLobs(t)'
    BY <1>1 DEF LastLobs
  <2>2. StreamInv(t) => StreamInv(t)'
    BY <1>1, <1>2, <1>5 DEF StreamInv, UnitsRead, Length, Data, Precedes
  <2> QED BY <1>1, <1>4, <2>1, <2>2 DEF Turns
<1>7. NoneFailed(t) => NoneFailed(t)'
  BY <1>2 DEF NoneFailed
<1>8. Uncommitted(t, d, x) => Uncommitted(t, d, x)'
  BY <1>1 DEF Uncommitted
<1>9. \A q, n : Fits(q, n) => Fits(q, n)'
  <2>1. \A q : SizeUpTo(q)' = SizeUpTo(q)
    BY <1>1 DEF SizeUpTo, IsData, Length
  <2>2. \A y : IsData(y)' <=> IsData(y)
    BY <1>1 DEF IsData, Length
  <2> QED BY <2>1, <2>2 DEF Fits
<1>10. \A q, p : UpTo(q, p) => UpTo(q, p)'
  BY <1>3 DEF UpTo, Ordered, Precedes
<1>11. \A q : Orderly(q) => Orderly(q)'
  BY <1>3 DEF Orderly, Ordered, Precedes
<1>12. ASSUME NEW mode, Packing(t, d \o x, mode)
       PROVE  Packing(t, d \o x, mode)'
  <2>1. Kept(t, mode)' = Kept(t, mode) /\ KeptBytes(t, mode)' = KeptBytes(t, mode)
    BY DEF Kept, KeptBytes
  <2>2. Limit(mode)' = Limit(mode)
    BY DEF Limit
  <2> QED BY <1>5, <1>7, <1>9, <1>10, <1>12, <2>1, <2>2 DEF Packing
<1>13. RowInHand(t) => RowInHand(t)'
  BY <1>1, <1>7, <1>9 DEF RowInHand
<1>14. Starts(t, d \o x) => Starts(t, d \o x)'
  BY <1>7 DEF Starts, NoCall, NoRequest
<1>15. Reading(t, d \o x) => Reading(t, d \o x)'
  BY <1>12 DEF Reading, NotCalled, NoRequest, Modes
<1>16. Defers(t, d \o x) => Defers(t, d \o x)'
  BY <1>11, <1>12 DEF Defers, NotCalled, NoRequest, Call, Modes
<1>17. ASSUME NEW r, Finishing(t, d \o x, r)
       PROVE  Finishing(t, d \o x, r)'
  BY <1>3, <1>11, <1>17 DEF Finishing
<1>18. ASSUME NEW r, Sending(t, d \o x, r)
       PROVE  Sending(t, d \o x, r)'
  BY <1>1, <1>5, <1>9, <1>10, <1>13, <1>18 DEF Sending, Limit
<1>19. Waits(t, d \o x) => Waits(t, d \o x)'
  BY <1>17, <1>18 DEF Waits, NotCalled, NoCall
<1>20. Ends(t, d, x) => Ends(t, d, x)'
  BY <1>1, <1>3, <1>11 DEF Ends, NoCall, NoRequest, RowsFit
<1> QED BY <1>6, <1>8, <1>14, <1>15, <1>16, <1>19, <1>20 DEF TaskInv

LEMMA InitInv ==
  ASSUME Init
  PROVE  Inv
<1> DEFINE streams == [k \in LobIds |-> [buffered |-> 0, left |-> Rows[k[1]].lobs[k[2]],
                                         ended |-> FALSE, errored |-> FALSE]]
<1>1. batch \in Batches /\ tx = <<>> /\ durable = <<>> /\ link = "up"
  BY DEF Init
<1>2. <<>> \in Seq(Tokens) /\ <<>> \in Seq(Nat) /\ <<>> \in Seq(Call) /\ <<>> \in Seq(Request)
      /\ <<>> \o <<>> = <<>>
  OBVIOUS
<1>3. AutoCommit \in BOOLEAN /\ Len(Rows) \in Nat
  BY <1>1, BatchFacts
<1>4. \A k \in LobIds : streams[k] \in Stream /\ streams[k].left = Length(k) /\ streams[k].buffered = 0
                        /\ ~streams[k].ended /\ ~streams[k].errored
  BY <1>1, LobFacts DEF Stream, Length
<1>5. streams \in [LobIds -> Stream]
  BY <1>4
<1> HIDE DEF streams
<1>6. task = [started |-> FALSE, next |-> 1, autoCommit |-> AutoCommit, needFinalize |-> FALSE,
             params |-> FALSE, row |-> 0, lobs |-> <<>>, buffers |-> <<>>, bytes |-> 0,
             args |-> <<>>, argBytes |-> 0, attached |-> "none", room |-> 0, streams |-> streams,
             immediates |-> <<>>, requests |-> <<>>, receive |-> "none",
             calls |-> 0, outcome |-> "none"]
  BY DEF Init, streams
<1>7. task \in Task
  BY <1>2, <1>3, <1>5, <1>6 DEF Task, Modes, Requests
<1>8. /\ ~task.started /\ task.next = 1 /\ task.autoCommit = AutoCommit /\ ~task.needFinalize
      /\ ~task.params /\ task.row = 0 /\ task.lobs = <<>> /\ task.buffers = <<>>
      /\ task.attached = "none" /\ task.streams = streams /\ task.immediates = <<>>
      /\ task.requests = <<>> /\ task.receive = "none" /\ task.calls = 0 /\ task.outcome = "none"
  BY <1>6
<1>9. \A k \in LobIds : UnitsRead(task, k) = 0 /\ Length(k) \in Nat
  BY <1>1, <1>4, <1>8, LobFacts DEF UnitsRead
<1>10. StreamInv(task)
  BY <1>4, <1>8, <1>9 DEF StreamInv
<1>11. Turns(task)
  BY <1>3, <1>7, <1>8, <1>10 DEF Turns, LastLobs
<1>12. NoneFailed(task)
  BY <1>4, <1>8 DEF NoneFailed
<1>13. Starts(task, durable \o tx) /\ Uncommitted(task, durable, tx)
  BY <1>1, <1>2, <1>3, <1>8, <1>12 DEF Starts, NoCall, NoRequest, Uncommitted
<1> QED BY <1>1, <1>2, <1>11, <1>13 DEF Inv, TaskInv

\* The steps of the task itself.
Local == Run \/ LoopStep \/ StreamStep \/ UNCHANGED vars

LEMMA LocalFrame ==
  ASSUME Local
  PROVE  UNCHANGED <<batch, tx, durable, link>>
<1>1. Run => UNCHANGED <<batch, tx, durable, link>>
  BY DEF Run
<1>2. LoopStep => UNCHANGED <<batch, tx, durable, link>>
  BY DEF LoopStep, Immediate, ReadableEvent, EndEvent
<1>3. StreamStep => UNCHANGED <<batch, tx, durable, link>>
  BY Zenon DEF StreamStep, Arrive, StreamError
<1> QED BY <1>1, <1>2, <1>3 DEF Local, vars

LEMMA ArriveStays ==
  ASSUME task \in Task, NEW k \in LobIds, Arrive(k)
  PROVE  task'.outcome = task.outcome /\ "outcome" \in DOMAIN task'
<1>1. CASE \E n \in 1..task.streams[k].left :
             task' = [task EXCEPT !.streams[k].left = @ - n, !.streams[k].buffered = @ + n]
  <2>1. PICK n \in 1..task.streams[k].left :
          task' = [task EXCEPT !.streams[k].left = @ - n, !.streams[k].buffered = @ + n]
    BY <1>1
  <2> DEFINE st == task.streams[k]
             new == [st EXCEPT !.left = @ - n, !.buffered = @ + n]
  <2>2. st \in Stream
    BY TaskTypes
  <2>3. task' = [task EXCEPT !.streams[k] = new]
    BY <2>1, <2>2 DEF Task
  <2> HIDE DEF new
  <2> QED BY <2>3 DEF Task
<1>2. CASE task' = [task EXCEPT !.streams[k].ended = TRUE]
  BY <1>2 DEF Task
<1> QED BY <1>1, <1>2, Zenon DEF Arrive

LEMMA LocalKeeps ==
  ASSUME FailsInTurn, NEW d, NEW x, InvAt(d, x), Local
  PROVE  TaskInv(task', d, x)
<1>1. CASE UNCHANGED vars
  BY <1>1, InvFacts DEF vars
<1>2. ASSUME NEW k \in LobIds, Arrive(k)
      PROVE  TaskInv(task', d, x)
  BY <1>2, ArriveKeeps
<1>3. ASSUME NEW k \in LobIds, StreamError(k)
      PROVE  TaskInv(task', d, x)
  BY <1>3, StreamErrorKeeps
<1> QED BY <1>1, <1>2, <1>3, RunKeeps, ImmediateKeeps, ReadableKeeps, EndKeeps
        DEF Local, LoopStep, StreamStep

\* What follows tells nobody of a success.
Silent(t, u) == "outcome" \in DOMAIN u /\ u.outcome \in {t.outcome, "error"}

LEMMA SilentParts ==
  ASSUME NEW t, "outcome" \in DOMAIN t
  PROVE  /\ \A step, mode : Silent(t, Defer(t, step, mode))
         /\ \A type : Silent(t, Send(t, type))
         /\ Silent(t, FinalizeLob(t)) /\ Silent(t, Cleared(t)) /\ Silent(t, SetValues(t))
         /\ Silent(t, Ended(t, "error")) /\ Silent(t, Finalize(t, "error"))
         /\ Silent(t, OpenTransaction(t))
<1>1. \A step, mode : Silent(t, Defer(t, step, mode))
  BY DEF Silent, Defer
<1>2. \A type : Silent(t, Send(t, type))
  BY DEF Silent, Send
<1>3. Silent(t, FinalizeLob(t)) /\ Silent(t, Cleared(t)) /\ Silent(t, SetValues(t))
  BY DEF Silent, FinalizeLob, Cleared, SetValues
<1>4. Silent(t, Ended(t, "error"))
  BY DEF Silent, Ended
<1>5. Silent(t, OpenTransaction(t))
  BY DEF Silent, OpenTransaction
<1>6. Silent(t, Finalize(t, "error"))
  BY <1>2, <1>4 DEF Finalize
<1> QED BY <1>1, <1>2, <1>3, <1>4, <1>5, <1>6

LEMMA SilentTwice ==
  ASSUME NEW t, NEW u, NEW v, Silent(t, u), Silent(u, v)
  PROVE  Silent(t, v)
BY DEF Silent

LEMMA OnReadableSilent ==
  ASSUME NEW t, "outcome" \in DOMAIN t, NEW mode
  PROVE  Silent(t, OnReadable(t, mode))
<1> DEFINE k == Lob(t)
           n == IF t.streams[k].buffered < t.room THEN t.streams[k].buffered ELSE t.room
           read == [t EXCEPT !.streams[k].buffered = @ - n, !.bytes = @ + n, !.room = @ - n,
                        !.buffers = @ \o [i \in 1..n |-> Data(k, UnitsRead(t, k) + i)]]
           full == [read EXCEPT !.attached = "none"]
           last == IF Complete(read.streams[k]) THEN FinalizeLob(full) ELSE full
<1>1. OnReadable(t, mode) = IF n = 0 THEN t ELSE IF read.room > 0 THEN read ELSE Defer(last, "done", mode)
  BY DEF OnReadable
<1>2. Silent(t, read)
  BY DEF Silent
<1> HIDE DEF read
<1>3. Silent(read, full) /\ "outcome" \in DOMAIN full
  BY <1>2 DEF Silent
<1> HIDE DEF full
<1>4. Silent(full, last) /\ "outcome" \in DOMAIN last
  BY <1>3, SilentParts DEF Silent
<1> HIDE DEF last
<1>5. Silent(last, Defer(last, "done", mode))
  BY <1>4, SilentParts
<1>6. Silent(t, Defer(last, "done", mode))
  BY <1>2, <1>3, <1>4, <1>5, SilentTwice
<1>7. Silent(t, t)
  BY DEF Silent
<1> HIDE DEF n
<1> QED BY <1>1, <1>2, <1>6, <1>7

LEMMA ReadLobSilent ==
  ASSUME NEW t, "outcome" \in DOMAIN t, NEW mode
  PROVE  Silent(t, ReadLob(t, mode))
<1> DEFINE header == IF mode = "writelob" THEN LobHeader ELSE 0
           u == [t EXCEPT !.attached = mode, !.bytes = @ + header, !.room = @ - header]
<1>1. ReadLob(t, mode) \in {Defer(t, "done", mode), OnReadable(u, mode)}
  BY DEF ReadLob
<1>2. Silent(t, u) /\ "outcome" \in DOMAIN u
  BY DEF Silent
<1> HIDE DEF u
<1>3. Silent(u, OnReadable(u, mode))
  BY <1>2, OnReadableSilent
<1> QED BY <1>1, <1>2, <1>3, SilentParts, SilentTwice

LEMMA ReadLobsSilent ==
  ASSUME NEW t, "outcome" \in DOMAIN t, NEW mode
  PROVE  Silent(t, ReadLobs(t, mode))
<1> DEFINE failed == {i \in DOMAIN t.lobs : t.streams[<<t.row, t.lobs[i]>>].errored}
           calls == [i \in 1..Cardinality(failed) |-> [step |-> "fail", mode |-> mode]]
           u == [t EXCEPT !.immediates = @ \o calls]
<1>1. ReadLobs(t, mode) = ReadLob(u, mode)
  BY DEF ReadLobs
<1> HIDE DEF calls
<1>2. Silent(t, u) /\ "outcome" \in DOMAIN u
  BY DEF Silent
<1> HIDE DEF u
<1>3. Silent(u, ReadLob(u, mode))
  BY <1>2, ReadLobSilent
<1> QED BY <1>1, <1>2, <1>3, SilentTwice

LEMMA NextRowSilent ==
  ASSUME NEW t, "outcome" \in DOMAIN t
  PROVE  Silent(t, NextRow(t))
<1> DEFINE taken == IF t.params THEN t ELSE SetValues(t)
           open == OpenTransaction(taken)
           room == [taken EXCEPT !.room = RoomForLobs(taken)]
           last == [open EXCEPT !.needFinalize = FALSE]
<1>1. NextRow(t) \in {Send(t, "execute"), Finalize(taken, "error"), ReadLobs(room, "parameters"),
                      Finalize(last, "error"), Send(open, "execute")}
  BY DEF NextRow
<1>2. Silent(t, taken) /\ "outcome" \in DOMAIN taken
  BY SilentParts DEF Silent
<1> HIDE DEF taken
<1>3. Silent(taken, open) /\ "outcome" \in DOMAIN open
  BY <1>2, SilentParts DEF Silent
<1> HIDE DEF open
<1>4. Silent(taken, room) /\ "outcome" \in DOMAIN room /\ Silent(open, last) /\ "outcome" \in DOMAIN last
  BY <1>2, <1>3 DEF Silent
<1> HIDE DEF room, last
<1>5. Silent(t, Send(t, "execute")) /\ Silent(taken, Finalize(taken, "error"))
      /\ Silent(room, ReadLobs(room, "parameters")) /\ Silent(last, Finalize(last, "error"))
      /\ Silent(open, Send(open, "execute"))
  BY <1>2, <1>3, <1>4, SilentParts, ReadLobsSilent
<1>6. Silent(t, open) /\ Silent(t, room)
  BY <1>2, <1>3, <1>4, SilentTwice
<1>7. Silent(t, last)
  BY <1>4, <1>6, SilentTwice
<1>8. Silent(t, Finalize(taken, "error")) /\ Silent(t, ReadLobs(room, "parameters"))
      /\ Silent(t, Finalize(last, "error")) /\ Silent(t, Send(open, "execute"))
  BY <1>2, <1>5, <1>6, <1>7, SilentTwice
<1> QED BY <1>1, <1>5, <1>8

LEMMA HandleParametersSilent ==
  ASSUME NEW t, "outcome" \in DOMAIN t
  PROVE  Silent(t, HandleParameters(t))
<1> DEFINE more == [t EXCEPT !.args = @ \o t.buffers, !.argBytes = @ + t.bytes]
           packed == Cleared(more)
           open == OpenTransaction(packed)
<1>1. HandleParameters(t) \in {Send(open, "execute"), NextRow(packed)}
  BY DEF HandleParameters
<1>2. Silent(t, more) /\ "outcome" \in DOMAIN more
  BY DEF Silent
<1> HIDE DEF more
<1>3. Silent(more, packed) /\ "outcome" \in DOMAIN packed
  BY <1>2, SilentParts DEF Silent
<1> HIDE DEF packed
<1>4. Silent(packed, open) /\ "outcome" \in DOMAIN open
  BY <1>3, SilentParts DEF Silent
<1> HIDE DEF open
<1>5. Silent(open, Send(open, "execute")) /\ Silent(packed, NextRow(packed)) /\ Silent(t, packed)
  BY <1>2, <1>3, <1>4, SilentParts, NextRowSilent, SilentTwice
<1>6. Silent(t, open)
  BY <1>4, <1>5, SilentTwice
<1> QED BY <1>1, <1>5, <1>6, SilentTwice

\* Only Run and the reply of the server tell of a success.
LEMMA LocalSilent ==
  ASSUME task \in Task, LoopStep \/ StreamStep \/ UNCHANGED vars
  PROVE  Silent(task, task')
<1>1. "outcome" \in DOMAIN task
  BY DEF Task
<1>2. CASE UNCHANGED vars
  BY <1>1, <1>2 DEF vars, Silent
<1>3. CASE Immediate
  <2> DEFINE call == Head(task.immediates)
             t == [task EXCEPT !.immediates = Tail(@)]
  <2>1. task' = CASE call.step = "next" -> ReadLob(t, call.mode)
                  [] call.step = "fail" -> Finalize(t, "error")
                  [] call.step = "done" /\ call.mode = "parameters" -> HandleParameters(t)
                  [] call.step = "done" /\ call.mode = "writelob" -> Cleared(Send(t, "writelob"))
    BY <1>3 DEF Immediate
  <2>2. call.step \in {"next", "done", "fail"} /\ call.mode \in Modes
    <3>1. task.immediates \in Seq(Call) /\ task.immediates # <<>>
      BY <1>3, TaskTypes DEF Immediate
    <3>2. call \in Call
      BY <3>1
    <3> QED BY <3>2 DEF Call
  <2>3. Silent(task, t) /\ "outcome" \in DOMAIN t
    BY <1>1 DEF Silent
  <2> HIDE DEF t, call
  <2>4. Silent(t, Send(t, "writelob"))
    BY <2>3, SilentParts
  <2>5. Silent(Send(t, "writelob"), Cleared(Send(t, "writelob")))
    BY <2>4, SilentParts DEF Silent
  <2>6. Silent(t, ReadLob(t, call.mode)) /\ Silent(t, Finalize(t, "error")) /\ Silent(t, HandleParameters(t))
        /\ Silent(t, Cleared(Send(t, "writelob")))
    BY <2>3, <2>4, <2>5, SilentParts, SilentTwice, ReadLobSilent, HandleParametersSilent
  <2>7. Silent(t, task')
    BY <2>1, <2>2, <2>6 DEF Modes
  <2> QED BY <2>3, <2>7, SilentTwice
<1>4. CASE ReadableEvent
  BY <1>1, <1>4, OnReadableSilent DEF ReadableEvent
<1>5. CASE EndEvent
  <2> DEFINE last == FinalizeLob(task)
             u == [last EXCEPT !.attached = "none"]
  <2>1. task' = Defer(u, "next", task.attached)
    BY <1>5 DEF EndEvent
  <2>2. Silent(task, last) /\ "outcome" \in DOMAIN last
    BY <1>1, SilentParts DEF Silent
  <2> HIDE DEF last
  <2>3. Silent(last, u) /\ "outcome" \in DOMAIN u
    BY <2>2 DEF Silent
  <2> HIDE DEF u
  <2>4. Silent(u, task') /\ Silent(task, u)
    BY <2>1, <2>2, <2>3, SilentParts, SilentTwice
  <2> QED BY <2>4, SilentTwice
<1>6. ASSUME NEW k \in LobIds, Arrive(k)
      PROVE  Silent(task, task')
  BY <1>1, <1>6, ArriveStays DEF Silent
<1>7. ASSUME NEW k \in LobIds, StreamError(k)
      PROVE  Silent(task, task')
  <2> DEFINE t == [task EXCEPT !.streams[k].errored = TRUE]
             u == [t EXCEPT !.attached = "none"]
  <2>1. task' \in {t, Defer(u, "fail", task.attached)}
    BY <1>7 DEF StreamError
  <2>2. Silent(task, t) /\ "outcome" \in DOMAIN t
    BY <1>1 DEF Silent
  <2> HIDE DEF t
  <2>3. Silent(t, u) /\ "outcome" \in DOMAIN u
    BY <2>2 DEF Silent
  <2> HIDE DEF u
  <2>4. Silent(u, Defer(u, "fail", task.attached)) /\ Silent(task, u)
    BY <2>2, <2>3, SilentParts, SilentTwice
  <2>5. Silent(task, Defer(u, "fail", task.attached))
    BY <2>4, SilentTwice
  <2> QED BY <2>1, <2>2, <2>5
<1> QED BY <1>2, <1>3, <1>4, <1>5, <1>6, <1>7 DEF LoopStep, StreamStep

-----------------------------------------------------------------------------
(* The connection breaks *)

\* The task gets the error of the socket instead of a reply.
LEMMA FailedKeeps ==
  ASSUME NEW d, NEW x, InvAt(d, x), task.requests # <<>>
  PROVE  /\ \E d2, x2 \in Seq(Tokens) : TaskInv(Failed(task), d2, x2)
         /\ Failed(task).outcome \in {"none", "error"}
<1> DEFINE s == d \o x
           t == Answered(task)
<1>1. /\ batch \in Batches /\ d \in Seq(Tokens) /\ x \in Seq(Tokens) /\ Orderly(s)
      /\ <<>> \in Seq(Tokens)
  BY InvFacts
<1>2. PICK r \in Request : /\ Head(task.requests) = r /\ task.receive = r.type
                           /\ Finishing(task, s, r) \/ Sending(task, s, r)
                           /\ Working(t, d, x) /\ NoCall(t)
  BY ReplyFacts
<1>3. Failed(task) = CASE task.receive \in {"execute", "writelob"} -> Finalize(t, "error")
                       [] task.receive \in {"commit", "rollback"} -> Ended(t, "error")
                       [] task.receive = "none" -> t
  BY DEF Failed
<1>4. t.outcome = "none" /\ "outcome" \in DOMAIN t
  BY <1>2 DEF Working, Turns, NotCalled, Task
<1> HIDE DEF t, s
<1>5. CASE Finishing(task, s, r)
  <2>1. Failed(task) = Ended(t, "error")
    BY <1>2, <1>3, <1>5 DEF Finishing
  <2>2. <<>> \o <<>> = <<>>
    OBVIOUS
  <2>3. Orderly(<<>>)
    BY DEF Orderly, Ordered
  <2>4. TaskInv(Ended(t, "error"), <<>>, <<>>)
    BY <1>2, <2>2, <2>3, EndsWith
  <2>5. Ended(t, "error").outcome \in {"none", "error"}
    BY <1>4, SilentParts DEF Silent
  <2> QED BY <1>1, <2>1, <2>4, <2>5
<1>6. CASE Sending(task, s, r)
  <2>1. Failed(task) = Finalize(t, "error")
    BY <1>2, <1>3, <1>6 DEF Sending
  <2>2. TaskInv(Finalize(t, "error"), d, x)
    BY <1>1, <1>2, FinalizeWorks DEF s
  <2>3. Finalize(t, "error").outcome \in {"none", "error"}
    BY <1>4, SilentParts DEF Silent
  <2> QED BY <1>1, <2>1, <2>2, <2>3
<1> QED BY <1>2, <1>5, <1>6

\* A request that commits stores the whole batch.
LEMMA StoresAll ==
  ASSUME InvAt(durable, tx), task.requests # <<>>, Commits(Head(task.requests))
  PROVE  LET all == durable \o tx \o Head(task.requests).data
         IN AutoCommit /\ all \in Seq(Tokens) /\ Orderly(all) /\ Range(all) = Tokens
<1> DEFINE s == durable \o tx
           t == Answered(task)
<1>1. /\ batch \in Batches /\ Orderly(s) /\ s \in Seq(Tokens) /\ task \in Task /\ Turns(task)
  BY InvFacts
<1>2. PICK r \in Request : /\ Head(task.requests) = r
                           /\ Finishing(task, s, r) \/ Sending(task, s, r)
                           /\ Working(t, durable, tx) /\ t.autoCommit = task.autoCommit
                           /\ t.needFinalize = task.needFinalize
  BY ReplyFacts
<1>3. r.type = "commit" \/ (r.type = "execute" /\ r.autoCommit)
  BY <1>2 DEF Commits
<1>4. /\ task.needFinalize => AutoCommit
      /\ task.autoCommit => AutoCommit
  BY <1>2 DEF Working, Uncommitted
<1> HIDE DEF s, t
<1>5. r.data \in Seq(Tokens)
  BY DEF Request
<1>6. s \o r.data \in Seq(Tokens)
  BY <1>1, <1>5, Associative
<1>7. CASE Finishing(task, s, r)
  <2>1. r.type = "commit" /\ task.needFinalize /\ Range(s) = Tokens /\ r.data = <<>>
    BY <1>3, <1>7 DEF Finishing
  <2>2. s \o r.data = s
    BY <1>1, <2>1, ConcatEmptySeq
  <2> QED BY <1>1, <1>2, <1>4, <2>1, <2>2 DEF s
<1>8. CASE Sending(task, s, r)
  <2>1. /\ task.autoCommit /\ ~task.params /\ task.lobs = <<>> /\ task.row = Len(Rows)
        /\ RowInHand(task) /\ UpTo(s \o r.data \o task.buffers, Position(task))
    BY <1>3, <1>8 DEF Sending
  <2>2. task.buffers = <<>>
    BY <2>1 DEF RowInHand
  <2>3. (s \o r.data) \o task.buffers = s \o r.data
    BY <1>6, <2>2, ConcatEmptySeq
  <2>4. Position(task) = RowToken(Len(Rows) + 1) /\ Position(task) \in Triples
    BY <1>1, <2>1, PositionFacts DEF Position
  <2>5. UpTo(s \o r.data, Position(task))
    BY <2>1, <2>3
  <2>6. Orderly(s \o r.data) /\ Range(s \o r.data) = Tokens
    BY <1>1, <1>6, <2>4, <2>5, UpToIsOrderly, BeginningAndEnd
  <2> QED BY <1>2, <1>4, <1>6, <2>1, <2>6 DEF s
<1> QED BY <1>2, <1>7, <1>8

-----------------------------------------------------------------------------
(* The steps *)

\* Whether or not the connection is up, the task is in a state of its invariant.
LEMMA Behind ==
  ASSUME Inv
  PROVE  \E d, x : InvAt(d, x) /\ (link = "up" => d = durable /\ x = tx)
<1>1. CASE link = "up"
  BY <1>1 DEF Inv, InvAt
<1>2. CASE link # "up"
  BY <1>2 DEF Inv, CutOff, InvAt
<1> QED BY <1>1, <1>2

LEMMA Carried ==
  ASSUME batch' = batch, batch \in Batches
  PROVE  /\ (batch \in Batches)' /\ Tokens' = Tokens
         /\ \A t, d, x : TaskInv(t, d, x) => TaskInv(t, d, x)'
         /\ \A d : Settled(d) => Settled(d)'
<1>1. Tokens' = Tokens
  BY SameTokens
<1>2. \A t, d, x : TaskInv(t, d, x) => TaskInv(t, d, x)'
  BY SameBatch
<1>3. \A d : Settled(d) => Settled(d)'
  BY <1>1 DEF Settled, Orderly, Ordered, Precedes, AutoCommit
<1> QED BY <1>1, <1>2, <1>3

\* A step of the task itself.
LEMMA LocalStep ==
  ASSUME FailsInTurn, Inv, Local
  PROVE  Inv'
<1>1. UNCHANGED <<batch, tx, durable, link>>
  BY LocalFrame
<1>2. /\ batch \in Batches /\ durable \in Seq(Tokens) /\ tx \in Seq(Tokens)
      /\ link \in {"up", "ended", "dead"}
  BY DEF Inv
<1>3. /\ (batch \in Batches)' /\ Tokens' = Tokens
      /\ (durable \in Seq(Tokens) /\ tx \in Seq(Tokens) /\ link \in {"up", "ended", "dead"})'
  BY <1>1, <1>2, Carried
<1>4. CASE link = "up"
  <2>1. InvAt(durable, tx)
    BY <1>4 DEF Inv, InvAt
  <2>2. TaskInv(task', durable, tx)
    BY <2>1, LocalKeeps
  <2>3. TaskInv(task, durable, tx)'
    BY <1>1, <1>2, <2>2, Carried
  <2> QED BY <1>1, <1>3, <1>4, <2>3 DEF Inv
<1>5. CASE link # "up"
  <2>1. CutOff
    BY <1>5 DEF Inv
  <2>2. PICK d \in Seq(Tokens), x \in Seq(Tokens) : TaskInv(task, d, x)
    BY <2>1 DEF CutOff
  <2>3. InvAt(d, x)
    BY <1>2, <2>2 DEF InvAt
  <2>4. TaskInv(task', d, x)
    BY <2>3, LocalKeeps
  <2>5. (\E e, y \in Seq(Tokens) : TaskInv(task, e, y))'
    BY <1>1, <1>2, <2>4, Carried
  <2>6. task'.outcome # "ok"
    <3>1. ~Run
      BY <1>5 DEF Run
    <3>2. Silent(task, task')
      BY <2>3, <3>1, InvFacts, LocalSilent DEF Local
    <3> QED BY <2>1, <3>2 DEF CutOff, Silent
  <2>7. (tx = <<>> /\ Settled(durable))'
    BY <1>1, <1>2, <2>1, Carried DEF CutOff
  <2>8. CutOff'
    BY <2>5, <2>6, <2>7 DEF CutOff
  <2> QED BY <1>1, <1>3, <1>5, <2>8 DEF Inv
<1> QED BY <1>4, <1>5

LEMMA ReplyStep ==
  ASSUME Inv, Reply
  PROVE  Inv'
<1>1. UNCHANGED <<batch, link>> /\ link = "up" /\ task.requests # <<>>
  BY DEF Reply
<1>2. batch \in Batches /\ durable \in Seq(Tokens) /\ tx \in Seq(Tokens) /\ InvAt(durable, tx)
  BY <1>1 DEF Inv, InvAt
<1>3. TaskInv(task', durable', tx')
  BY <1>2, ReplyKeeps
<1>4. TaskInv(task, durable, tx)'
  BY <1>1, <1>2, <1>3, Carried
<1>5. durable' \in Seq(Tokens) /\ tx' \in Seq(Tokens)
  <2>1. Head(task.requests) \in Request
    BY <1>1, <1>2, ReplyFacts
  <2>2. Head(task.requests).data \in Seq(Tokens) /\ Head(task.requests).type \in Requests
    BY <2>1 DEF Request
  <2>3. /\ durable \o tx \in Seq(Tokens) /\ tx \o Head(task.requests).data \in Seq(Tokens)
        /\ durable \o tx \o Head(task.requests).data \in Seq(Tokens) /\ <<>> \in Seq(Tokens)
    BY <1>2, <2>2, Associative
  <2>4. Apply(Head(task.requests)) \/ UNCHANGED <<tx, durable>>
    BY DEF Reply
  <2> QED BY <1>2, <2>2, <2>3, <2>4 DEF Apply, Requests
<1>6. Tokens' = Tokens /\ (batch \in Batches)'
  BY <1>1, <1>2, Carried
<1> QED BY <1>1, <1>4, <1>5, <1>6 DEF Inv

\* The connection breaks: what is stored is settled.
LEMMA BreakStep ==
  ASSUME Inv, Break
  PROVE  Inv'
<1>1. batch' = batch /\ link = "up" /\ link' \in {"ended", "dead"} /\ tx' = <<>> /\ task.calls = 0
  BY DEF Break, Broken
<1>2. batch \in Batches /\ durable \in Seq(Tokens) /\ InvAt(durable, tx)
  BY <1>1 DEF Inv, InvAt
<1>3. durable = <<>> /\ task.outcome = "none"
  BY <1>1, <1>2, InvFacts DEF TaskInv, Starts, Reading, Defers, Waits, Ends, NotCalled, Uncommitted
<1>4. durable' \in Seq(Tokens) /\ Settled(durable')
  <2>1. CASE durable' = durable
    BY <1>2, <1>3, <2>1 DEF Settled
  <2>2. CASE /\ task.requests # <<>> /\ Commits(Head(task.requests))
             /\ durable' = durable \o tx \o Head(task.requests).data
    BY <1>2, <2>2, StoresAll DEF Settled
  <2> QED BY <2>1, <2>2 DEF Break
<1>5. /\ \E d, x \in Seq(Tokens) : TaskInv(task', d, x)
      /\ task'.outcome # "ok"
  <2>1. CASE task.requests = <<>>
    <3>1. task' = task
      BY <2>1 DEF Break
    <3> QED BY <1>2, <1>3, <3>1, InvFacts
  <2>2. CASE task.requests # <<>>
    <3>1. task' = Failed(task)
      BY <2>2 DEF Break
    <3> QED BY <1>2, <2>2, <3>1, FailedKeeps
  <2> QED BY <2>1, <2>2
<1>6. /\ (batch \in Batches)' /\ Tokens' = Tokens /\ Settled(durable)'
      /\ (\E d, x \in Seq(Tokens) : TaskInv(task, d, x))'
  BY <1>1, <1>2, <1>4, <1>5, Carried
<1>7. CutOff'
  BY <1>1, <1>5, <1>6 DEF CutOff
<1>8. (durable \in Seq(Tokens) /\ tx \in Seq(Tokens))'
  BY <1>1, <1>4, <1>6
<1> QED BY <1>1, <1>6, <1>7, <1>8 DEF Inv

\* After the break.
LEMMA DeadStep ==
  ASSUME Inv, WriteFails \/ SocketCloses
  PROVE  Inv'
<1>1. /\ UNCHANGED <<batch, tx, durable>> /\ link = "ended" /\ link' = "dead"
      /\ task' = task \/ (task.requests # <<>> /\ task' = Failed(task))
  BY DEF WriteFails, SocketCloses
<1>2. batch \in Batches /\ durable \in Seq(Tokens) /\ tx \in Seq(Tokens) /\ CutOff
  BY <1>1 DEF Inv
<1>3. PICK d \in Seq(Tokens), x \in Seq(Tokens) : TaskInv(task, d, x)
  BY <1>2 DEF CutOff
<1>4. InvAt(d, x)
  BY <1>2, <1>3 DEF InvAt
<1>5. (\E e, y \in Seq(Tokens) : TaskInv(task', e, y)) /\ task'.outcome # "ok"
  <2>1. CASE task' = task
    BY <1>2, <1>3, <2>1 DEF CutOff
  <2>2. CASE task.requests # <<>> /\ task' = Failed(task)
    BY <1>4, <2>2, FailedKeeps
  <2> QED BY <1>1, <2>1, <2>2
<1>6. /\ (batch \in Batches)' /\ Tokens' = Tokens /\ Settled(durable)'
      /\ (\E e, y \in Seq(Tokens) : TaskInv(task, e, y))'
  BY <1>1, <1>2, <1>5, Carried DEF CutOff
<1>7. CutOff'
  BY <1>1, <1>2, <1>5, <1>6 DEF CutOff
<1> QED BY <1>1, <1>2, <1>6, <1>7 DEF Inv

LEMMA StepInv ==
  ASSUME FailsInTurn, Inv, [Next]_vars
  PROVE  Inv'
BY LocalStep, ReplyStep, BreakStep, DeadStep DEF Next, LinkStep, Local

\* The invariant holds as long as no stream fails out of turn.
LEMMA Invariant ==
  ASSUME FailsInTurn
  PROVE  Spec => []Inv
<1>1. Init => Inv
  BY InitInv
<1>2. Inv /\ [Next]_vars => Inv'
  BY StepInv
<1> QED BY <1>1, <1>2, PTL DEF Spec

-----------------------------------------------------------------------------
(* Theorems *)

\* ExecuteTask.js and Writer.js: the task, its Writer and what the server holds have their types.
THEOREM TypeCorrect == FailsInTurn => (Spec => []TypeOK)
<1> SUFFICES ASSUME FailsInTurn PROVE Spec => []TypeOK
  OBVIOUS
<1>1. Inv => TypeOK
  <2> SUFFICES ASSUME Inv PROVE TypeOK
    OBVIOUS
  <2>1. task \in Task
    BY Behind, InvFacts
  <2> QED BY <2>1 DEF TypeOK, Inv
<1> QED BY <1>1, Invariant, PTL

\* getParameters, handleParameters, writeLob and the Writer: the server receives the rows in order,
\* each once, and each LOB complete and closed before anything that follows it.
THEOREM ReceivedInOrder == FailsInTurn => (Spec => []RowsInOrder)
<1> SUFFICES ASSUME FailsInTurn PROVE Spec => []RowsInOrder
  OBVIOUS
<1>1. Inv => RowsInOrder
  <2> SUFFICES ASSUME Inv PROVE RowsInOrder
    OBVIOUS
  <2>1. Orderly(durable \o tx)
    <3>1. CASE link = "up"
      BY <3>1, InvFacts DEF Inv, InvAt
    <3>2. CASE link # "up"
      <4>1. tx = <<>> /\ Settled(durable) /\ durable \in Seq(Tokens)
        BY <3>2 DEF Inv, CutOff
      <4>2. durable \o tx = durable
        BY <4>1, ConcatEmptySeq
      <4>3. Orderly(<<>>)
        BY DEF Orderly, Ordered
      <4> QED BY <4>1, <4>2, <4>3 DEF Settled
    <3> QED BY <3>1, <3>2
  <2> QED BY <2>1 DEF RowsInOrder, Orderly, Ordered
<1> QED BY <1>1, Invariant, PTL

\* What the task has called back with, if the server holds d and x.
Callback(d, x) ==
  \/ task.calls = 0 /\ task.outcome = "none" /\ Uncommitted(task, d, x)
  \/ task.calls = 1 /\ task.outcome # "none" /\ Ends(task, d, x)

LEMMA CalledBack ==
  ASSUME NEW d, NEW x, InvAt(d, x)
  PROVE  Callback(d, x)
BY InvFacts DEF TaskInv, Starts, Reading, Defers, Waits, Ends, NotCalled, Callback

\* done(): the callback is called at most once, and without an error only when the server has
\* received every row and every LOB.
THEOREM CompleteWhenDone == FailsInTurn => (Spec => []SuccessIsComplete)
<1> SUFFICES ASSUME FailsInTurn PROVE Spec => []SuccessIsComplete
  OBVIOUS
<1>1. Inv => SuccessIsComplete
  <2> SUFFICES ASSUME Inv PROVE SuccessIsComplete
    OBVIOUS
  <2>1. task.calls <= 1
    BY Behind, CalledBack DEF Callback
  <2>2. task.outcome = "ok" => Range(durable \o tx) = Tokens
    <3>1. CASE link = "up"
      BY <3>1, CalledBack DEF Inv, InvAt, Callback, Ends
    <3>2. CASE link # "up"
      BY <3>2 DEF Inv, CutOff
    <3> QED BY <3>1, <3>2
  <2> QED BY <2>1, <2>2 DEF SuccessIsComplete
<1> QED BY <1>1, Invariant, PTL

\* The request that is under way, if there is one.
LEMMA UnderWay ==
  ASSUME NEW d, NEW x, InvAt(d, x), NEW i \in DOMAIN task.requests
  PROVE  /\ \/ Finishing(task, d \o x, task.requests[i])
            \/ Sending(task, d \o x, task.requests[i])
         /\ Uncommitted(task, d, x)
<1>1. task.requests \in Seq(Request)
  BY InvFacts, TaskTypes
<1>2. task.requests # <<>>
  BY <1>1
<1>3. Waits(task, d \o x) /\ Uncommitted(task, d, x)
  BY <1>2, InvFacts DEF TaskInv, Starts, Reading, Defers, Ends, NoRequest
<1>4. PICK r \in Range(task.requests) : /\ task.requests = <<r>>
                                        /\ \/ Finishing(task, d \o x, r)
                                           \/ Sending(task, d \o x, r)
  BY <1>3 DEF Waits
<1>5. i = 1 /\ task.requests[i] = r
  BY <1>4
<1> QED BY <1>3, <1>4, <1>5

\* README "Controlling the Maximum Packet Size": no packet is larger than packetSizeLimit, and LOB
\* data is put only where the packet is within packetSize.
THEOREM PacketsFit == FailsInTurn => (Spec => []PacketFits)
<1> SUFFICES ASSUME FailsInTurn PROVE Spec => []PacketFits
  OBVIOUS
<1>1. Inv => PacketFits
  <2> SUFFICES ASSUME Inv, NEW i \in DOMAIN task.requests
               PROVE  /\ task.requests[i].size <=
                           IF task.requests[i].type = "writelob" THEN PacketSize ELSE PacketSizeLimit
                      /\ \A j \in DOMAIN task.requests[i].data :
                           IsData(task.requests[i].data[j])
                             => SizeUpTo(task.requests[i].data)[j] <= PacketSize
    BY DEF PacketFits
  <2> DEFINE r == task.requests[i]
  <2>1. PICK d, x : InvAt(d, x)
    BY Behind
  <2>2. CASE Finishing(task, d \o x, r)
    <3>1. r.type # "writelob" /\ r.data = <<>> /\ r.size = 0
      BY <2>2 DEF Finishing
    <3> QED BY <3>1, SizeAssumption
  <2>3. CASE Sending(task, d \o x, r)
    BY <2>3 DEF Sending, Fits, Limit
  <2> QED BY <2>1, <2>2, <2>3, UnderWay
<1> QED BY <1>1, Invariant, PTL

\* finalize and the transaction that execute opens: without auto-commit the task commits nothing and
\* rolls nothing back; under auto-commit it leaves no transaction open behind it, if every row fits
\* into a packet.
THEOREM NoTransactionLeft == FailsInTurn /\ RowsFit => (Spec => []LeavesTransactions)
<1> SUFFICES ASSUME FailsInTurn, RowsFit PROVE Spec => []LeavesTransactions
  OBVIOUS
<1>1. Inv => LeavesTransactions
  <2> SUFFICES ASSUME Inv PROVE LeavesTransactions
    OBVIOUS
  <2>1. PICK d, x : InvAt(d, x)
    BY Behind
  <2>2. ASSUME ~AutoCommit, NEW i \in DOMAIN task.requests
        PROVE  /\ task.requests[i].type \notin {"commit", "rollback"}
               /\ ~task.requests[i].autoCommit
    BY <2>1, <2>2, UnderWay DEF Finishing, Sending, Uncommitted
  <2>3. ASSUME AutoCommit, "finalize" \notin Faults, task.calls > 0
        PROVE  tx = <<>>
    <3>1. CASE link = "up"
      BY <2>3, <3>1, CalledBack DEF Inv, InvAt, Callback, Ends
    <3>2. CASE link # "up"
      BY <3>2 DEF Inv, CutOff
    <3> QED BY <3>1, <3>2
  <2> QED BY <2>2, <2>3 DEF LeavesTransactions
<1> QED BY <1>1, Invariant, PTL

\* Once the task has called back, it does nothing more, and a break changes nothing.
LEMMA NothingAfter ==
  ASSUME FailsInTurn, Inv, [Next]_vars, task.outcome # "none"
  PROVE  task'.outcome = task.outcome /\ durable' = durable /\ (link' # "up" <=> link # "up")
<1>1. PICK d, x : InvAt(d, x)
  BY Behind
<1>2. Ends(task, d, x) /\ task \in Task
  BY <1>1, CalledBack, InvFacts DEF Callback
<1>3. /\ task.started /\ task.attached = "none" /\ task.immediates = <<>> /\ task.requests = <<>>
      /\ task.calls = 1
  BY <1>2 DEF Ends, NoCall, NoRequest
<1>4. ~Run /\ ~LoopStep /\ ~Reply /\ ~Break /\ ~WriteFails
  BY <1>3 DEF Run, LoopStep, Immediate, ReadableEvent, EndEvent, Attached, Reply, Break, WriteFails
<1>5. ASSUME NEW k \in LobIds, Arrive(k)
      PROVE  task'.outcome = task.outcome /\ durable' = durable /\ link' = link
  <2>1. task'.outcome = task.outcome
    BY <1>2, <1>5, ArriveStays
  <2>2. UNCHANGED <<batch, tx, durable, link>>
    BY <1>5, LocalFrame DEF Local, StreamStep
  <2> QED BY <2>1, <2>2
<1>6. ASSUME NEW k \in LobIds
      PROVE  ~StreamError(k)
  BY <1>3 DEF StreamError, Reads, Attached, FailsInTurn, Inv, Faults
<1>7. CASE UNCHANGED vars
  BY <1>7 DEF vars
<1>8. CASE SocketCloses
  BY <1>8 DEF SocketCloses
<1> QED BY <1>4, <1>5, <1>6, <1>7, <1>8 DEF Next, StreamStep, LinkStep

LEMMA CalledBackUp == Inv => (link = "up" => Callback(durable, tx))
BY CalledBack DEF Inv, InvAt

LEMMA CalledBackBehind == Inv => \E d, x : Callback(d, x)
BY Behind, CalledBack

LEMMA CalledBackNext ==
  ASSUME Inv'
  PROVE  /\ (link = "up" => Callback(durable, tx))'
         /\ (\E d, x : Callback(d, x))'
<1>1. Inv' => (link = "up" => Callback(durable, tx))'
  BY CalledBackUp, PTL
<1>2. Inv' => (\E d, x : Callback(d, x))'
  BY CalledBackBehind, PTL
<1> QED BY <1>1, <1>2

\* What a step does to the batch and to the link.
LEMMA LinkSteps ==
  ASSUME [Next]_vars
  PROVE  /\ batch' = batch
         /\ \/ link' = link
            \/ Break /\ link = "up" /\ link' # "up"
            \/ link # "up" /\ link' # "up" /\ UNCHANGED <<durable, tx>>
         /\ link # "up" => UNCHANGED durable
<1>1. Local => UNCHANGED <<batch, tx, durable, link>>
  BY LocalFrame
<1>2. Reply => batch' = batch /\ link' = link /\ link = "up"
  BY DEF Reply
<1>3. Break => batch' = batch /\ link = "up" /\ link' # "up"
  BY DEF Break, Broken
<1>4. WriteFails \/ SocketCloses => /\ UNCHANGED <<batch, tx, durable>>
                                    /\ link # "up" /\ link' # "up"
  BY DEF WriteFails, SocketCloses
<1> QED BY <1>1, <1>2, <1>3, <1>4 DEF Next, LinkStep, Local

\* Under auto-commit a batch is stored as a whole or not at all, however many packets it takes.  On a
\* connection that works the callback tells which; if the connection breaks first, whatever reply is
\* lost, the callback never tells of a success and nothing is stored later.  In a transaction of the
\* user the task stores nothing by itself.
THEOREM ImplementsBatch == FailsInTurn => (Spec => AllOrNothing)
<1> SUFFICES ASSUME FailsInTurn PROVE Spec => AllOrNothing
  OBVIOUS
<1> DEFINE whole == IF AutoCommit THEN Tokens ELSE {}
<1>1. Init => Batch!Init
  <2> SUFFICES ASSUME Init PROVE Batch!Init
    OBVIOUS
  <2>1. durable = <<>> /\ task.outcome = "none" /\ link = "up"
    BY DEF Init
  <2> QED BY <2>1 DEF Batch!Init, Range
<1>2. Inv /\ Inv' /\ [Next]_vars => [Batch!Next]_(Batch!batchVars)
  <2> SUFFICES ASSUME Inv, Inv', [Next]_vars
               PROVE  [Batch!Next]_(Batch!batchVars)
    OBVIOUS
  <2>1. whole' = whole /\ AutoCommit' = AutoCommit
    BY LinkSteps, SameTokens DEF AutoCommit
  <2>2. CASE task.outcome # "none"
    <3>1. task'.outcome = task.outcome /\ Range(durable)' = Range(durable)
          /\ (link' # "up" <=> link # "up")
      BY <2>2, NothingAfter
    <3> QED BY <2>1, <3>1 DEF Batch!batchVars
  <2>3. CASE task.outcome = "none" /\ link = "up" /\ link' = "up"
    <3>1. Callback(durable, tx)'
      BY <2>3, CalledBackNext
    <3>2. Range(durable) = {}
      <4>1. durable = <<>>
        BY <2>3, CalledBack DEF Inv, InvAt, Callback, Uncommitted
      <4> QED BY <4>1 DEF Range
    <3>3. CASE task'.outcome = "none"
      <4>1. durable' = <<>>
        BY <3>1, <3>3 DEF Callback, Uncommitted
      <4>2. Range(durable)' = {}
        BY <4>1 DEF Range
      <4> QED BY <2>1, <2>3, <3>2, <3>3, <4>2 DEF Batch!batchVars
    <3>4. CASE task'.outcome # "none"
      <4>1. Ends(task, durable, tx)'
        BY <3>1, <3>4 DEF Callback
      <4>2. CASE task'.outcome = "error"
        <5>1. Range(durable)' = {}
          BY <4>1, <4>2 DEF Ends, Range
        <5> QED BY <2>1, <2>3, <3>2, <4>2, <5>1 DEF Batch!Next, Batch!Fail
      <4>3. CASE task'.outcome = "ok"
        <5>1. Range(durable)' = whole'
          <6>1. CASE ~AutoCommit
            BY <4>1, <6>1, <2>1 DEF Ends, Range
          <6>2. CASE AutoCommit
            <7>1. (Range(durable \o tx) = Tokens /\ tx = <<>> /\ durable \in Seq(Tokens))'
              BY <4>1, <4>3, <6>2, <2>1 DEF Ends, Inv
            <7>2. (durable \o tx = durable)'
              BY <7>1, ConcatEmptySeq
            <7> QED BY <7>1, <7>2, <6>2, <2>1
          <6> QED BY <6>1, <6>2
        <5> QED BY <2>1, <2>3, <4>3, <5>1 DEF Batch!Next, Batch!Succeed
      <4> QED BY <4>1, <4>2, <4>3 DEF Ends
    <3> QED BY <3>3, <3>4
  <2>4. CASE task.outcome = "none" /\ link = "up" /\ link' # "up"
    <3>1. CutOff'
      BY <2>4 DEF Inv
    <3>2. task'.outcome \in {"none", "error"}
      <4>1. (\E d, x : Callback(d, x))'
        BY CalledBackNext
      <4> QED BY <3>1, <4>1 DEF CutOff, Callback, Ends
    <3>3. Range(durable) = {}
      <4>1. durable = <<>>
        BY <2>4, CalledBack DEF Inv, InvAt, Callback, Uncommitted
      <4> QED BY <4>1 DEF Range
    <3>4. Range(durable)' \in {{}, whole'}
      <4>1. CASE durable' = <<>>
        BY <4>1 DEF Range
      <4>2. CASE (AutoCommit /\ Range(durable) = Tokens)'
        BY <4>2
      <4> QED BY <3>1, <4>1, <4>2 DEF CutOff, Settled
    <3> QED BY <2>1, <2>4, <3>2, <3>3, <3>4 DEF Batch!Next, Batch!Break
  <2>5. CASE task.outcome = "none" /\ link # "up"
    <3>1. durable' = durable /\ link' # "up"
      BY <2>5, LinkSteps
    <3>2. CutOff'
      BY <3>1 DEF Inv
    <3>3. task'.outcome \in {"none", "error"}
      <4>1. (\E d, x : Callback(d, x))'
        BY CalledBackNext
      <4> QED BY <3>2, <4>1 DEF CutOff, Callback, Ends
    <3>4. Range(durable)' = Range(durable)
      BY <3>1
    <3> QED BY <2>1, <2>5, <3>1, <3>3, <3>4 DEF Batch!Next, Batch!Tell, Batch!batchVars
  <2> QED BY <2>2, <2>3, <2>4, <2>5
<1> QED BY <1>1, <1>2, Invariant, PTL DEF Spec, AllOrNothing, Batch!Spec
=============================================================================
