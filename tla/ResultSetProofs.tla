---------------------------- MODULE ResultSetProofs ----------------------------
(***************************************************************************)
(* Theorems about ResultSet and about ResultSet.fetch(cb), its consumer,   *)
(* for any number of packets and LOBs, any of them empty, any sizes of the *)
(* buffers and all faults.                                                 *)
(*                                                                         *)
(* First the stream alone, when user code pauses only in a listener of     *)
(* 'data'.  Then fetch(): what is proved of the stream holds there too,    *)
(* the parser is its consumer, done() closes the result set, and what the  *)
(* collector adds are requests and events of its own.                      *)
(***************************************************************************)
EXTENDS ResultSetFetch, SequenceTheorems, TLAPS

Due == Range(ticks)

\* What the flag _running says about the stream and the requests.
Flow ==
  /\ finished => running = "no"
  /\ Backpressure
  /\ running = "yes" => Len(buffer) < HighWaterMark
  /\ (Fetching \/ FetchDue) /\ ~finished => running = "yes"

\* A packet is in one place: kept, being handled, or still to be fetched.
Position ==
  /\ frames # <<>> => Len(frames) = 1 /\ frames[1].packet = cursor /\ (frames[1].stored <=> data # 0)
  /\ data # 0 => data = cursor
  /\ frames = <<>> /\ data = 0 /\ ~finished => cursor < Last
  /\ Fetching \/ FetchDue => data = 0

\* What CLOSE and the requests before it require.
Closing ==
  /\ OneFetch
  /\ Before(ticks, "fetch", "sendclose")
  /\ "close" \in Range(requests) => finished

\* Packets up to this one have been pushed.
Handled == IF frames = <<>> /\ data # 0 THEN data - 1 ELSE cursor

Order ==
  /\ Range(Pushed) = {k \in WithRows : k <= Handled}
  /\ \A i, j \in DOMAIN Pushed : i < j => Pushed[i] < Pushed[j]

\* Which events have been emitted, and which are due.
Ending ==
  /\ ~finished => /\ ends = 0 /\ ~closed /\ ~ended
                  /\ Due \cap {"end", "endclose", "close", "sendclose"} = {}
  /\ finished => IF ends = 0 THEN Due \cap {"end", "endclose"} # {}
                             ELSE ends = 1 /\ Due \cap {"end", "endclose"} = {}
  /\ Once(ticks, "end") /\ Once(ticks, "endclose") /\ Once(ticks, "emitclose")
  /\ ~({"end", "endclose"} \subseteq Due)
  /\ Before(ticks, "end", "close") /\ Before(ticks, "endclose", "close")
  /\ ~closed => closeEvents = 0 /\ "emitclose" \notin Due
  /\ "emitclose" \in Due => closeEvents = 0 /\ ends = 1
  /\ closeEvents <= ends

\* What holds whoever closes the result set.
Core == TypeOK /\ Flow /\ Position /\ Closing /\ Order /\ Ending

\* Every packet has been handled.
AllHandled == frames = <<>> /\ data = 0 /\ cursor = Last

\* A result set that user code does not close comes to its end by the last packet.
EndsByItself == finished /\ closes = 0 => AllHandled

IInv == Core /\ EndsByItself

-----------------------------------------------------------------------------
(* Sequences *)

\* Append adds one element, behind all others.
LEMMA AppendFacts ==
  ASSUME NEW S, NEW s \in Seq(S), NEW z \in S
  PROVE  /\ Append(s, z) \in Seq(S)
         /\ Len(Append(s, z)) = Len(s) + 1
         /\ Range(Append(s, z)) = Range(s) \cup {z}
         /\ \A x : Once(s, x) /\ (x = z => x \notin Range(s)) => Once(Append(s, z), x)
         /\ \A x, y : Before(s, x, y) /\ x # y /\ (x = z => y \notin Range(s)) => Before(Append(s, z), x, y)
<1> DEFINE t == Append(s, z)
<1>1. t \in Seq(S) /\ Len(t) = Len(s) + 1 /\ Len(s) \in Nat
  BY AppendProperties, LenProperties
<1>2. DOMAIN s = 1..Len(s) /\ DOMAIN t = 1..(Len(s) + 1)
  BY <1>1, LenProperties
<1>3. \A i \in DOMAIN s : i \in DOMAIN t /\ t[i] = s[i] /\ i < Len(s) + 1
  BY <1>1, <1>2, AppendProperties
<1>4. t[Len(s) + 1] = z /\ Len(s) + 1 \in DOMAIN t
  BY <1>1, <1>2, AppendProperties
<1>5. \A i \in DOMAIN t : i \in DOMAIN s \/ i = Len(s) + 1
  BY <1>1, <1>2
<1> HIDE DEF t
<1>6. Range(t) = Range(s) \cup {z}
  BY <1>3, <1>4, <1>5 DEF Range
<1>7. ASSUME NEW x, Once(s, x), x = z => x \notin Range(s)
      PROVE  Once(t, x)
  BY <1>3, <1>4, <1>5, <1>7 DEF Once, Range
<1>8. ASSUME NEW x, NEW y, Before(s, x, y), x # y, x = z => y \notin Range(s)
      PROVE  Before(t, x, y)
  <2> SUFFICES ASSUME NEW i \in DOMAIN t, NEW j \in DOMAIN t, t[i] = x, t[j] = y
               PROVE  i < j
    BY DEF Before
  <2>1. CASE i \in DOMAIN s /\ j \in DOMAIN s
    BY <2>1, <1>3, <1>8 DEF Before
  <2>2. CASE i \in DOMAIN s /\ j = Len(s) + 1
    BY <2>2, <1>3
  <2>3. CASE i = Len(s) + 1 /\ j \in DOMAIN s
    BY <2>3, <1>3, <1>4, <1>8 DEF Range
  <2>4. CASE i = Len(s) + 1 /\ j = Len(s) + 1
    BY <2>4, <1>8
  <2> QED BY <1>5, <2>1, <2>2, <2>3, <2>4
<1> QED BY <1>1, <1>6, <1>7, <1>8 DEF t

\* Tail drops the first element.
LEMMA TailFacts ==
  ASSUME NEW S, NEW s \in Seq(S), s # <<>>
  PROVE  /\ Tail(s) \in Seq(S) /\ Head(s) \in S
         /\ Range(s) = Range(Tail(s)) \cup {Head(s)}
         /\ \A x : Once(s, x) => Once(Tail(s), x) /\ (Head(s) = x => x \notin Range(Tail(s)))
         /\ \A x, y : Before(s, x, y) => Before(Tail(s), x, y) /\ (Head(s) = y => x \notin Range(s))
<1> DEFINE t == Tail(s)
<1>1. t \in Seq(S) /\ Len(t) = Len(s) - 1 /\ Len(s) \in Nat \ {0} /\ Head(s) \in S /\ Head(s) = s[1]
  BY HeadTailProperties, EmptySeq
<1>2. DOMAIN s = 1..Len(s) /\ DOMAIN t = 1..(Len(s) - 1)
  BY <1>1, LenProperties
<1>3. \A i \in DOMAIN t : i \in Nat /\ i + 1 \in DOMAIN s /\ t[i] = s[i + 1] /\ i + 1 # 1
  BY <1>1, <1>2, HeadTailProperties
<1>4. \A i \in DOMAIN s : i \in Nat /\ (i = 1 \/ (i - 1 \in DOMAIN t /\ s[i] = t[i - 1])) /\ 1 \in DOMAIN s
  <2> TAKE i \in DOMAIN s
  <2>1. i \in 1..Len(s) /\ 1 \in DOMAIN s
    BY <1>1, <1>2
  <2>2. CASE i # 1
    <3>1. i - 1 \in DOMAIN t /\ (i - 1) + 1 = i
      BY <2>1, <2>2, <1>1, <1>2
    <3> QED BY <3>1, <1>3, <2>1
  <2> QED BY <2>1, <2>2
<1> HIDE DEF t
<1>5. Range(s) = Range(t) \cup {Head(s)}
  <2>1. Range(t) \subseteq Range(s) /\ Head(s) \in Range(s)
    BY <1>1, <1>2, <1>3, <1>4 DEF Range
  <2>2. Range(s) \subseteq Range(t) \cup {Head(s)}
    BY <1>1, <1>4 DEF Range
  <2> QED BY <2>1, <2>2
<1>6. ASSUME NEW x, Once(s, x)
      PROVE  Once(t, x) /\ (Head(s) = x => x \notin Range(t))
  <2>1. Once(t, x)
    <3> SUFFICES ASSUME NEW i \in DOMAIN t, NEW j \in DOMAIN t, t[i] = x, t[j] = x
                 PROVE  i = j
      BY DEF Once
    <3>1. i + 1 = j + 1 /\ i \in Nat /\ j \in Nat
      BY <1>3, <1>6 DEF Once
    <3> QED BY <3>1
  <2>2. ASSUME Head(s) = x, NEW i \in DOMAIN t, t[i] = x PROVE FALSE
    <3>1. 1 \in DOMAIN s
      BY <1>3, <1>4
    <3> QED BY <1>1, <1>3, <1>6, <2>2, <3>1 DEF Once
  <2> QED BY <2>1, <2>2 DEF Range
<1>7. ASSUME NEW x, NEW y, Before(s, x, y)
      PROVE  Before(t, x, y) /\ (Head(s) = y => x \notin Range(s))
  <2>1. Before(t, x, y)
    <3> SUFFICES ASSUME NEW i \in DOMAIN t, NEW j \in DOMAIN t, t[i] = x, t[j] = y
                 PROVE  i < j
      BY DEF Before
    <3>1. i + 1 < j + 1 /\ i \in Nat /\ j \in Nat
      BY <1>3, <1>7 DEF Before
    <3> QED BY <3>1
  <2>2. ASSUME Head(s) = y, NEW i \in DOMAIN s, s[i] = x PROVE FALSE
    <3>1. 1 \in DOMAIN s /\ i \in 1..Len(s)
      BY <1>2, <1>4
    <3>2. i < 1
      BY <1>1, <1>7, <2>2, <3>1 DEF Before
    <3> QED BY <3>1, <3>2, <1>1
  <2> QED BY <2>1, <2>2 DEF Range
<1> QED BY <1>1, <1>5, <1>6, <1>7 DEF t

\* Without(i) drops the i-th request.
LEMMA WithoutFacts ==
  ASSUME NEW S, requests \in Seq(S), NEW i \in DOMAIN requests
  PROVE  /\ Without(i) \in Seq(S) /\ requests[i] \in S
         /\ Range(Without(i)) \subseteq Range(requests)
         /\ \A x : Once(requests, x) => Once(Without(i), x)
<1> DEFINE t == Without(i)
           At(j) == IF j < i THEN j ELSE j + 1
<1>1. Len(requests) \in Nat /\ DOMAIN requests = 1..Len(requests) /\ i \in 1..Len(requests)
  BY LenProperties
<1>2. DOMAIN t = 1..(Len(requests) - 1) /\ \A j \in DOMAIN t : t[j] = requests[At(j)]
  BY DEF Without
<1>3. \A j \in DOMAIN t : j \in Nat /\ At(j) \in DOMAIN requests
  BY <1>1, <1>2
<1>4. \A j, k \in DOMAIN t : At(j) = At(k) => j = k
  BY <1>1, <1>2
<1>5. t \in Seq(S)
  <2>1. \A k \in DOMAIN requests : requests[k] \in S
    BY ElementOfSeq, <1>1
  <2>2. \A j \in 1..(Len(requests) - 1) : requests[At(j)] \in S
    BY <2>1, <1>2, <1>3
  <2>3. Len(requests) - 1 \in Nat
    BY <1>1
  <2> QED BY <2>2, <2>3 DEF Without
<1> HIDE DEF t, At
<1>6. Range(t) \subseteq Range(requests)
  BY <1>2, <1>3 DEF Range
<1>7. ASSUME NEW x, Once(requests, x)
      PROVE  Once(t, x)
  BY <1>2, <1>3, <1>4, <1>7 DEF Once
<1>8. requests[i] \in S
  BY <1>1, ElementOfSeq
<1> QED BY <1>5, <1>6, <1>7, <1>8 DEF t

\* An empty sequence has no elements.
LEMMA EmptyFacts ==
  /\ Range(<<>>) = {}
  /\ \A x : Once(<<>>, x)
  /\ \A x, y : Before(<<>>, x, y)
BY DEF Range, Once, Before

-----------------------------------------------------------------------------
(* The helper operators of ResultSet *)

\* emitEnd defers one event at most.
LEMMA EndTicksFacts ==
  ASSUME TypeOK, NEW isClosed \in BOOLEAN
  PROVE  /\ ~finished => ticks \o EndTicks(isClosed) = Append(ticks, IF isClosed THEN "endclose" ELSE "end")
         /\ finished => ticks \o EndTicks(isClosed) = IF isClosed THEN Append(ticks, "close") ELSE ticks
         /\ ticks \o EndTicks(isClosed) \in Seq(TickNames)
<1>1. /\ ticks \in Seq(TickNames) /\ finished \in BOOLEAN
      /\ {"end", "endclose", "close", "sendclose"} \subseteq TickNames
  BY DEF TypeOK, TickNames
<1>2. \A s \in Seq(TickNames), x \in TickNames : s \o <<x>> = Append(s, x) /\ s \o <<>> = s
  BY AppendIsConcat, ConcatEmptySeq
<1>3. ~finished => ticks \o EndTicks(isClosed) = Append(ticks, IF isClosed THEN "endclose" ELSE "end")
  BY <1>1, <1>2 DEF EndTicks
<1>4. finished => ticks \o EndTicks(isClosed) = IF isClosed THEN Append(ticks, "close") ELSE ticks
  BY <1>1, <1>2 DEF EndTicks
<1>5. ticks \o EndTicks(isClosed) \in Seq(TickNames)
  <2>1. \A x \in TickNames : Append(ticks, x) \in Seq(TickNames)
    BY <1>1, AppendFacts
  <2>2. CASE finished
    BY <2>1, <2>2, <1>1, <1>4
  <2>3. CASE ~finished
    BY <2>1, <2>3, <1>1, <1>3
  <2> QED BY <2>2, <2>3
<1> QED BY <1>3, <1>4, <1>5

\* A packet goes behind all that has been pushed.
LEMMA PushedAppends ==
  ASSUME TypeOK, NEW k \in Packets,
         \/ buffer' = Append(buffer, k) /\ delivered' = delivered
         \/ buffer = <<>> /\ buffer' = <<>> /\ delivered' = Append(delivered, k)
  PROVE  Pushed \in Seq(Packets) /\ Pushed' = Append(Pushed, k)
<1>1. buffer \in Seq(Packets) /\ delivered \in Seq(Packets)
  BY DEF TypeOK
<1>2. Pushed \in Seq(Packets)
  BY <1>1, ConcatProperties DEF Pushed
<1>3. <<k>> \in Seq(Packets) /\ \A s \in Seq(Packets) : s \o <<k>> = Append(s, k) /\ s \o <<>> = s
  BY AppendIsConcat, ConcatEmptySeq
<1>4. CASE buffer' = Append(buffer, k) /\ delivered' = delivered
  <2>1. Pushed' = delivered \o (buffer \o <<k>>)
    BY <1>1, <1>3, <1>4 DEF Pushed
  <2>2. Pushed' = (delivered \o buffer) \o <<k>>
    BY <2>1, <1>1, <1>3, ConcatAssociative
  <2> QED BY <2>2, <1>2, <1>3 DEF Pushed
<1>5. CASE buffer = <<>> /\ buffer' = <<>> /\ delivered' = Append(delivered, k)
  <2>1. Append(delivered, k) \in Seq(Packets)
    BY <1>1, AppendFacts
  <2>2. Pushed = delivered /\ Pushed' = Append(delivered, k)
    BY <2>1, <1>1, <1>3, <1>5 DEF Pushed
  <2> QED BY <2>2, <1>2
<1> QED BY <1>4, <1>5

\* The consumer takes the first packet of those that the stream has.
LEMMA PushedStays ==
  ASSUME TypeOK, buffer # <<>>, delivered' = Append(delivered, Head(buffer)), buffer' = Tail(buffer)
  PROVE  Pushed' = Pushed
<1>1. buffer \in Seq(Packets) /\ delivered \in Seq(Packets)
  BY DEF TypeOK
<1> DEFINE h == Head(buffer)  t == Tail(buffer)
<1>2. h \in Packets /\ t \in Seq(Packets)
  BY <1>1, HeadTailProperties
<1>3. buffer = <<h>> \o t
  <2>1. <<h>> \in Seq(Packets) /\ Len(<<h>>) = 1 /\ <<h>>[1] = h
    BY <1>2
  <2>2. <<h>> \o t \in Seq(Packets) /\ Len(<<h>> \o t) = 1 + Len(t)
        /\ \A i \in 1..(1 + Len(t)) : (<<h>> \o t)[i] = IF i <= 1 THEN <<h>>[i] ELSE t[i - 1]
    BY <2>1, <1>2, ConcatProperties
  <2>3. /\ Len(buffer) \in Nat \ {0} /\ Len(t) = Len(buffer) - 1 /\ h = buffer[1]
        /\ \A i \in 1..Len(t) : t[i] = buffer[i + 1]
    BY <1>1, HeadTailProperties, EmptySeq
  <2>4. ASSUME NEW i \in 1..Len(buffer) PROVE buffer[i] = (<<h>> \o t)[i]
    <3>1. CASE i = 1
      BY <3>1, <2>1, <2>2, <2>3
    <3>2. CASE i # 1
      <4>1. i - 1 \in 1..Len(t) /\ (i - 1) + 1 = i /\ i \in 1..(1 + Len(t)) /\ ~(i <= 1)
        BY <3>2, <2>3
      <4> QED BY <4>1, <2>2, <2>3
    <3> QED BY <3>1, <3>2
  <2>5. Len(buffer) = Len(<<h>> \o t)
    BY <2>2, <2>3
  <2> HIDE DEF h, t
  <2> QED BY <2>2, <2>4, <2>5, <1>1, SeqEqual
<1>4. delivered' = delivered \o <<h>>
  BY <1>1, <1>2, AppendIsConcat
<1>5. <<h>> \in Seq(Packets)
  BY <1>2
<1>6. (delivered \o <<h>>) \o t = delivered \o (<<h>> \o t)
  BY <1>1, <1>2, <1>5, ConcatAssociative
<1>7. Pushed' = (delivered \o <<h>>) \o t
  BY <1>4 DEF Pushed
<1> HIDE DEF h, t
<1> QED BY <1>3, <1>6, <1>7 DEF Pushed

-----------------------------------------------------------------------------
(* What a step does to the requests and to the ticks *)

\* A request goes behind the others.
LEMMA RequestSent ==
  ASSUME TypeOK, NEW r \in {"fetch", "close", "lob"}, requests' = Append(requests, r)
  PROVE  /\ requests' \in Seq({"fetch", "close", "lob"})
         /\ Range(requests') = Range(requests) \cup {r}
         /\ Once(requests, "fetch") /\ (r = "fetch" => ~Fetching) => Once(requests', "fetch")
         /\ Before(requests, "fetch", "close") /\ (r = "fetch" => "close" \notin Range(requests))
              => Before(requests', "fetch", "close")
<1> DEFINE R == {"fetch", "close", "lob"}
<1>1. requests \in Seq(R) /\ r \in R
  BY DEF TypeOK
<1> HIDE DEF R
<1>2. /\ requests' \in Seq(R) /\ Range(requests') = Range(requests) \cup {r}
      /\ Once(requests, "fetch") /\ ("fetch" = r => "fetch" \notin Range(requests)) => Once(requests', "fetch")
      /\ Before(requests, "fetch", "close") /\ ("fetch" = r => "close" \notin Range(requests))
           => Before(requests', "fetch", "close")
  BY <1>1, AppendFacts
<1> QED BY <1>2 DEF R, Fetching

\* The first request is answered.
LEMMA RequestAnswered ==
  ASSUME TypeOK, requests # <<>>, requests' = Tail(requests)
  PROVE  /\ requests' \in Seq({"fetch", "close", "lob"})
         /\ Range(requests) = Range(requests') \cup {Head(requests)}
         /\ Once(requests, "fetch") => /\ Once(requests', "fetch")
                                       /\ Head(requests) = "fetch" => "fetch" \notin Range(requests')
         /\ Before(requests, "fetch", "close") => Before(requests', "fetch", "close")
<1> DEFINE R == {"fetch", "close", "lob"}
<1>1. requests \in Seq(R)
  BY DEF TypeOK
<1> HIDE DEF R
<1>2. /\ Tail(requests) \in Seq(R)
      /\ Range(requests) = Range(Tail(requests)) \cup {Head(requests)}
      /\ \A x : Once(requests, x) => /\ Once(Tail(requests), x)
                                     /\ Head(requests) = x => x \notin Range(Tail(requests))
      /\ \A x, y : Before(requests, x, y) => Before(Tail(requests), x, y)
  BY <1>1, TailFacts
<1> QED BY <1>2 DEF R

\* An event is deferred.
LEMMA TickDeferred ==
  ASSUME NEW s \in Seq(TickNames), NEW z \in TickNames
  PROVE  /\ Append(s, z) \in Seq(TickNames)
         /\ Range(Append(s, z)) = Range(s) \cup {z}
         /\ \A x : Once(s, x) /\ (x = z => x \notin Range(s)) => Once(Append(s, z), x)
         /\ \A x, y : Before(s, x, y) /\ x # y /\ (x = z => y \notin Range(s)) => Before(Append(s, z), x, y)
BY AppendFacts

\* The next callback of process.nextTick.
LEMMA TickTaken ==
  ASSUME TypeOK, ticks # <<>>
  PROVE  /\ Tail(ticks) \in Seq(TickNames)
         /\ Head(ticks) \in TickNames
         /\ Range(ticks) = Range(Tail(ticks)) \cup {Head(ticks)}
         /\ \A x : Once(ticks, x) => /\ Once(Tail(ticks), x)
                                     /\ Head(ticks) = x => x \notin Range(Tail(ticks))
         /\ \A x, y : Before(ticks, x, y) => /\ Before(Tail(ticks), x, y)
                                             /\ Head(ticks) = y => x \notin Range(ticks)
<1>1. ticks \in Seq(TickNames)
  BY DEF TypeOK
<1> HIDE DEF TickNames
<1> QED BY <1>1, TailFacts

-----------------------------------------------------------------------------
(* handleData *)

\* One packet is being handled, and it has been pushed unless it is empty.
LEMMA HandleDataFacts ==
  ASSUME TypeOK, frames = <<>>, ~ended, Len(buffer) < HighWaterMark,
         NEW k \in Packets, NEW stored \in BOOLEAN, NEW inRead \in BOOLEAN,
         HandleData(k, stored, inRead)
  PROVE  /\ frames' \in Seq([packet : Packets, stored : BOOLEAN])
         /\ frames' # <<>> /\ Len(frames') = 1 /\ frames'[1] = [packet |-> k, stored |-> stored]
         /\ running' \in {"yes", "no"} /\ reading' \in BOOLEAN
         /\ buffer' \in Seq(Packets) /\ delivered' \in Seq(Packets)
         /\ Len(buffer') <= HighWaterMark /\ (running' = "yes" => Len(buffer') < HighWaterMark)
         /\ \/ k \in Empty /\ Pushed' = Pushed
            \/ k \notin Empty /\ Pushed' = Append(Pushed, k)
<1> DEFINE f == [packet |-> k, stored |-> stored]
           F == [packet : Packets, stored : BOOLEAN]
<1>1. f \in F
  OBVIOUS
<1>2. frames' = <<f>> \o <<>>
  BY DEF HandleData
<1>3. /\ frames' \in Seq(F) /\ frames' # <<>> /\ Len(frames') = 1 /\ frames'[1] = f
  <2> HIDE DEF f, F
  <2>1. <<f>> \in Seq(F) /\ Len(<<f>>) = 1 /\ <<f>>[1] = f /\ <<f>> # <<>>
    BY <1>1
  <2>2. frames' = <<f>>
    BY <1>2, <2>1, ConcatEmptySeq
  <2> QED BY <2>1, <2>2
<1>4. /\ buffer \in Seq(Packets) /\ delivered \in Seq(Packets) /\ Len(buffer) \in Nat /\ HighWaterMark \in Nat \ {0}
      /\ reading \in BOOLEAN
  BY StreamAssumption, LenProperties DEF TypeOK
<1>5. Append(buffer, k) \in Seq(Packets) /\ Len(Append(buffer, k)) = Len(buffer) + 1 /\ Append(delivered, k) \in Seq(Packets)
  BY <1>4, AppendFacts
<1>6. CASE k \in Empty /\ buffer' = buffer /\ delivered' = delivered /\ running' = "yes" /\ reading' = (reading \/ inRead)
  BY <1>3, <1>4, <1>6 DEF Pushed
<1>7. CASE k \notin Empty /\ buffer' = Append(buffer, k) /\ delivered' = delivered
           /\ running' = AfterPush(Len(buffer) + 1) /\ reading' = FALSE
  <2>1. running' = IF Len(buffer) + 1 < HighWaterMark THEN "yes" ELSE "no"
    BY <1>7 DEF AfterPush
  <2>2. Pushed' = Append(Pushed, k)
    BY <1>7, PushedAppends
  <2>3. Len(buffer') = Len(buffer) + 1 /\ buffer' \in Seq(Packets) /\ delivered' \in Seq(Packets)
    BY <1>4, <1>5, <1>7
  <2>4. Len(buffer') <= HighWaterMark /\ (running' = "yes" => Len(buffer') < HighWaterMark)
    BY <1>4, <2>1, <2>3
  <2> HIDE DEF f, F
  <2> QED BY <1>3, <1>7, <2>1, <2>2, <2>3, <2>4 DEF F, f
<1>8. CASE k \notin Empty /\ buffer = <<>> /\ buffer' = buffer /\ delivered' = Append(delivered, k)
           /\ running' = "yes" /\ reading' = FALSE
  <2>1. Pushed' = Append(Pushed, k)
    BY <1>8, PushedAppends
  <2>2. buffer' \in Seq(Packets) /\ delivered' \in Seq(Packets) /\ Len(buffer') <= HighWaterMark
        /\ Len(buffer') < HighWaterMark
    BY <1>4, <1>5, <1>8
  <2> HIDE DEF f, F
  <2> QED BY <1>3, <1>8, <2>1, <2>2 DEF F, f
<1> QED BY <1>6, <1>7, <1>8 DEF HandleData

\* The packet behind those that have been handled keeps the order.
LEMMA NextInOrder ==
  ASSUME TypeOK, Order, NEW k \in Packets, Handled = k - 1, Handled' = k,
         \/ k \in Empty /\ Pushed' = Pushed
         \/ k \notin Empty /\ Pushed' = Append(Pushed, k)
  PROVE  Order'
<1>1. Packets \subseteq Nat /\ k \in Nat
  BY PacketAssumption DEF Packets
<1>2. {j \in WithRows : j <= k} = {j \in WithRows : j <= k - 1} \cup ({k} \ Empty)
  <2>1. \A j \in WithRows : j \in Nat
    BY <1>1 DEF WithRows
  <2>2. \A j \in WithRows : j <= k <=> j <= k - 1 \/ j = k
    BY <1>1, <2>1
  <2>3. {k} \ Empty = {j \in WithRows : j = k}
    BY DEF WithRows
  <2> QED BY <2>2, <2>3
<1>3. Pushed \in Seq(Packets)
  BY ConcatProperties DEF Pushed, TypeOK
<1>4. CASE k \in Empty /\ Pushed' = Pushed
  BY <1>2, <1>4 DEF Order
<1>5. CASE k \notin Empty /\ Pushed' = Append(Pushed, k)
  <2>1. Range(Append(Pushed, k)) = Range(Pushed) \cup {k}
    BY <1>3, AppendFacts
  <2>2. Range(Pushed)' = {j \in WithRows : j <= k}
    BY <1>2, <1>5, <2>1 DEF Order
  <2>3. /\ Len(Append(Pushed, k)) = Len(Pushed) + 1 /\ Len(Pushed) \in Nat
        /\ DOMAIN Pushed = 1..Len(Pushed) /\ DOMAIN Append(Pushed, k) = 1..(Len(Pushed) + 1)
        /\ \A i \in 1..Len(Pushed) : Append(Pushed, k)[i] = Pushed[i]
        /\ Append(Pushed, k)[Len(Pushed) + 1] = k
    BY <1>3, AppendProperties, LenProperties
  <2>4. \A i \in DOMAIN Pushed : Pushed[i] \in Nat /\ Pushed[i] < k
    <3>1. \A i \in DOMAIN Pushed : Pushed[i] \in Range(Pushed)
      BY DEF Range
    <3>2. ASSUME NEW x \in Range(Pushed) PROVE x \in Nat /\ x < k
      <4>1. x \in WithRows /\ x <= k - 1
        BY DEF Order
      <4> QED BY <4>1, <1>1 DEF WithRows
    <3> QED BY <3>1, <3>2
  <2>5. ASSUME NEW i \in DOMAIN Append(Pushed, k), NEW j \in DOMAIN Append(Pushed, k), i < j
        PROVE  Append(Pushed, k)[i] < Append(Pushed, k)[j]
    <3>1. i \in DOMAIN Pushed
      BY <2>3, <2>5
    <3>2. CASE j \in DOMAIN Pushed
      BY <3>1, <3>2, <2>3, <2>5 DEF Order
    <3>3. CASE j = Len(Pushed) + 1
      BY <3>1, <3>3, <2>3, <2>4
    <3> QED BY <2>3, <3>2, <3>3
  <2> QED BY <2>2, <2>5, <1>5 DEF Order
<1> QED BY <1>4, <1>5

-----------------------------------------------------------------------------
(* The inductive invariant *)

LEMMA InitIInv == Init => IInv
<1> SUFFICES ASSUME Init PROVE IInv
  OBVIOUS
<1>1. Last \in Nat \ {0} /\ HighWaterMark \in Nat \ {0} /\ Packets = 1..Last
  BY PacketAssumption, StreamAssumption DEF Packets
<1>2. /\ Range(ticks) = {} /\ Range(requests) = {} /\ Len(buffer) = 0
      /\ \A x : Once(ticks, x) /\ Once(requests, x)
      /\ \A x, y : Before(ticks, x, y) /\ Before(requests, x, y)
  BY EmptyFacts DEF Init
<1>3. TypeOK
  <2>1. \A S : <<>> \in Seq(S)
    OBVIOUS
  <2>2. data \in 0..Last /\ cursor \in 0..Last
    BY <1>1 DEF Init
  <2>3. serverOpen \in BOOLEAN
    BY DEF Init
  <2> QED BY <2>1, <2>2, <2>3 DEF Init, TypeOK
<1>4. Flow /\ Position
  BY <1>1, <1>2 DEF Init, Flow, Position, Backpressure, Fetching, FetchDue
<1>5. Closing
  BY <1>2 DEF Init, Closing, OneFetch, Fetching, FetchDue
<1>6. Order
  <2>1. Pushed = <<>>
    BY DEF Init, Pushed
  <2>2. {k \in WithRows : k <= Handled} = {}
    BY <1>1 DEF Init, Handled, WithRows
  <2> QED BY <2>1, <2>2, EmptyFacts DEF Order
<1>7. Ending
  BY <1>2 DEF Init, Ending, Due
<1>8. EndsByItself
  BY DEF Init, EndsByItself
<1> QED BY <1>3, <1>4, <1>5, <1>6, <1>7, <1>8 DEF IInv, Core

\* User code pauses the result set while a packet is handled: no FETCH is outstanding or due.
LEMMA UserPauseStep ==
  ASSUME Core, ~Impatient, UserPause
  PROVE  Core'
<1> USE DEF Core, UserPause, loopVars, serverVars, streamVars
<1>1. TypeOK'
  BY DEF TypeOK
<1>2. Flow'
  BY DEF Flow, Backpressure, Fetching, FetchDue, Closing, OneFetch
<1>3. Position' /\ Closing'
  BY DEF Position, Closing, OneFetch, Fetching, FetchDue
<1>4. Order'
  BY DEF Order, Pushed, Handled
<1>5. Ending'
  BY DEF Ending, Due
<1> QED BY <1>1, <1>2, <1>3, <1>4, <1>5

\* The consumer takes a packet from the stream.
LEMMA ConsumeStep ==
  ASSUME Core, Consume
  PROVE  Core'
<1> USE DEF Core
<1>1. /\ Tail(buffer) \in Seq(Packets) /\ Len(Tail(buffer)) = Len(buffer) - 1 /\ Len(buffer) \in Nat
      /\ Append(delivered, Head(buffer)) \in Seq(Packets)
  <2>1. buffer \in Seq(Packets) /\ buffer # <<>> /\ delivered \in Seq(Packets)
    BY DEF TypeOK, Consume
  <2>2. Head(buffer) \in Packets
    BY <2>1, HeadTailProperties
  <2> QED BY <2>1, <2>2, HeadTailProperties, LenProperties, AppendProperties
<1>2. Pushed' = Pushed
  BY PushedStays DEF Consume
<1>3. TypeOK'
  BY <1>1 DEF Consume, TypeOK, rsVars, loopVars, serverVars, userVars
<1>4. Flow'
  BY <1>1, StreamAssumption DEF Consume, Flow, Backpressure, Fetching, FetchDue, rsVars, loopVars, serverVars
<1>5. Position' /\ Closing'
  BY DEF Consume, Position, Closing, OneFetch, Fetching, FetchDue, rsVars, loopVars, serverVars
<1>6. Order'
  BY <1>2 DEF Consume, Order, Handled, rsVars, loopVars, serverVars
<1>7. Ending'
  BY DEF Consume, Ending, Due, rsVars, loopVars, serverVars, userVars
<1> QED BY <1>3, <1>4, <1>5, <1>6, <1>7

\* An error is passed on.
LEMMA ErrorListenerStep ==
  ASSUME Core, ErrorListener
  PROVE  Core'
<1> USE DEF Core, ErrorListener, rsVars, serverVars, streamVars, userVars
<1>1. TypeOK'
  BY DEF TypeOK
<1>2. Flow'
  BY DEF Flow, Backpressure, Fetching, FetchDue
<1>3. Position' /\ Closing'
  BY DEF Position, Closing, OneFetch, Fetching, FetchDue
<1>4. Order'
  BY DEF Order, Pushed, Handled
<1>5. Ending'
  BY DEF Ending, Due
<1> QED BY <1>1, <1>2, <1>3, <1>4, <1>5

\* resume(), with room in the stream: a packet that was kept is handled, or one is fetched.
LEMMA ResumeStep ==
  ASSUME Core, frames = <<>>, Len(buffer) < HighWaterMark, NEW inRead \in BOOLEAN, Resume(inRead),
         UNCHANGED <<finished, closed, data, connected, ticks, up, cursor, serverOpen, autoClose, lost, ended, userVars>>
  PROVE  Core'
<1> USE DEF Core
<1>1. Ending'
  <2>1. ~MayResume => frames' = frames
    BY DEF Resume
  <2>2. MayResume => ~finished
    BY DEF MayResume
  <2> QED BY <2>1, <2>2 DEF Ending, Due, userVars
<1>2. CASE /\ ~MayResume /\ reading' = (reading \/ inRead)
           /\ UNCHANGED <<running, frames, event, requests, buffer, delivered>>
  <2>1. TypeOK'
    BY <1>2 DEF TypeOK, userVars
  <2>2. Flow' /\ Position' /\ Closing'
    BY <1>2 DEF Flow, Backpressure, Position, Closing, OneFetch, Fetching, FetchDue
  <2>3. Order'
    BY <1>2 DEF Order, Pushed, Handled
  <2> QED BY <1>1, <2>1, <2>2, <2>3
<1>3. CASE MayResume /\ data # 0 /\ HandleData(data, TRUE, inRead) /\ UNCHANGED <<event, requests>>
  <2>1. ~finished /\ ~ended /\ ~Fetching /\ ~FetchDue /\ data = cursor
    BY <1>3 DEF MayResume, Ending, Flow, Position
  <2>2. data \in Packets /\ cursor \in Nat
    BY <1>3, PacketAssumption DEF TypeOK, Packets
  <2>3. /\ frames' \in Seq([packet : Packets, stored : BOOLEAN])
        /\ frames' # <<>> /\ Len(frames') = 1 /\ frames'[1] = [packet |-> data, stored |-> TRUE]
        /\ running' \in {"yes", "no"} /\ reading' \in BOOLEAN
        /\ buffer' \in Seq(Packets) /\ delivered' \in Seq(Packets)
        /\ Len(buffer') <= HighWaterMark /\ (running' = "yes" => Len(buffer') < HighWaterMark)
        /\ \/ data \in Empty /\ Pushed' = Pushed
           \/ data \notin Empty /\ Pushed' = Append(Pushed, data)
    BY <1>3, <2>1, <2>2, HandleDataFacts
  <2>4. TypeOK'
    BY <1>3, <2>3 DEF TypeOK, userVars
  <2>5. Flow'
    BY <1>3, <2>1, <2>3 DEF Flow, Backpressure, Fetching, FetchDue
  <2>6. Position'
    BY <1>3, <2>1, <2>3 DEF Position, Fetching, FetchDue
  <2>7. Closing'
    BY <1>3, <2>1 DEF Closing, OneFetch, Fetching, FetchDue
  <2>8. Order'
    <3>1. Handled = data - 1 /\ Handled' = data
      BY <1>3, <2>1, <2>3 DEF Handled
    <3> QED BY <3>1, <2>2, <2>3, NextInOrder
  <2> QED BY <1>1, <2>4, <2>5, <2>6, <2>7, <2>8
<1>4. CASE /\ MayResume /\ data = 0 /\ SendFetch("yes") /\ reading' = (reading \/ inRead)
           /\ UNCHANGED <<frames, buffer, delivered>>
  <2>1. ~finished /\ ~Fetching /\ ~FetchDue /\ cursor < Last /\ "close" \notin Range(requests)
    BY <1>4 DEF MayResume, Flow, Position, Closing
  <2>2. Order'
    BY <1>4 DEF Order, Pushed, Handled
  <2>3. CASE up /\ requests' = Append(requests, "fetch") /\ running' = "yes" /\ UNCHANGED event
    <3>1. /\ requests' \in Seq({"fetch", "close", "lob"}) /\ Range(requests') = Range(requests) \cup {"fetch"}
          /\ Once(requests, "fetch") => Once(requests', "fetch")
          /\ Before(requests, "fetch", "close") => Before(requests', "fetch", "close")
      BY <2>1, <2>3, RequestSent
    <3>2. TypeOK'
      BY <1>4, <2>3, <3>1 DEF TypeOK, userVars
    <3>3. Flow'
      BY <1>4, <2>1, <2>3 DEF Flow, Backpressure
    <3>4. Position'
      BY <1>4, <2>1 DEF Position
    <3>5. Closing'
      BY <1>4, <2>1, <3>1 DEF Closing, OneFetch, Fetching, FetchDue
    <3> QED BY <1>1, <2>2, <3>2, <3>3, <3>4, <3>5
  <2>4. CASE ~up /\ running' = "no" /\ event' = "error" /\ UNCHANGED requests
    <3>1. TypeOK'
      BY <1>4, <2>4 DEF TypeOK, userVars
    <3>2. Flow' /\ Position' /\ Closing'
      BY <1>4, <2>1, <2>4 DEF Flow, Backpressure, Position, Closing, OneFetch, Fetching, FetchDue
    <3> QED BY <1>1, <2>2, <3>1, <3>2
  <2> QED BY <1>4, <2>3, <2>4 DEF SendFetch
<1> QED BY <1>2, <1>3, <1>4 DEF Resume

LEMMA UserResumeStep ==
  ASSUME Core, ~Impatient, UserResume
  PROVE  Core'
BY ResumeStep DEF UserResume, Calm

LEMMA StreamReadsStep ==
  ASSUME Core, StreamReads
  PROVE  Core'
BY ResumeStep DEF StreamReads, Calm

\* What close() defers, behind a queue of events.
LEMMA CloseTicksFacts ==
  ASSUME NEW t \in Seq(TickNames)
  PROVE  /\ t \o CloseTicks \in Seq(TickNames)
         /\ Range(t \o CloseTicks) = Range(t) \cup {"sendclose"} \cup (IF finished THEN {} ELSE {"end"})
         /\ \A x : Once(t, x) /\ x # "sendclose" /\ (x = "end" => finished \/ x \notin Range(t))
                     => Once(t \o CloseTicks, x)
         /\ \A x, y : Before(t, x, y) /\ x # y /\ x \notin {"end", "sendclose"} => Before(t \o CloseTicks, x, y)
         /\ Before(t, "end", "close") /\ (finished \/ "close" \notin Range(t)) => Before(t \o CloseTicks, "end", "close")
         /\ "sendclose" \notin Range(t) => Once(t \o CloseTicks, "sendclose")
<1> DEFINE s == IF finished THEN t ELSE Append(t, "end")
<1>1. {"end", "sendclose"} \subseteq TickNames
  BY DEF TickNames
<1>2. /\ s \in Seq(TickNames)
      /\ Range(s) = Range(t) \cup (IF finished THEN {} ELSE {"end"})
      /\ \A x : Once(t, x) /\ (x = "end" => finished \/ x \notin Range(t)) => Once(s, x)
      /\ \A x, y : Before(t, x, y) /\ x # y /\ (x = "end" => finished \/ y \notin Range(t)) => Before(s, x, y)
  <2>1. CASE finished
    BY <2>1
  <2>2. CASE ~finished
    BY <2>2, <1>1, TickDeferred
  <2> QED BY <2>1, <2>2
<1>3. t \o CloseTicks = Append(s, "sendclose")
  <2>1. \A u \in Seq(TickNames), x \in TickNames : u \o <<x>> = Append(u, x) /\ <<x>> \in Seq(TickNames)
    BY AppendIsConcat
  <2>2. CASE finished
    <3>1. CloseTicks = <<>> \o <<"sendclose">>
      BY <2>2 DEF CloseTicks, EndTicks
    <3>2. CloseTicks = <<"sendclose">>
      BY <3>1, <2>1, <1>1, ConcatEmptySeq
    <3> QED BY <2>1, <2>2, <3>2, <1>1
  <2>3. CASE ~finished
    <3>1. CloseTicks = <<"end">> \o <<"sendclose">>
      BY <2>3 DEF CloseTicks, EndTicks
    <3>2. t \o (<<"end">> \o <<"sendclose">>) = (t \o <<"end">>) \o <<"sendclose">>
      BY <2>1, <1>1, ConcatAssociative
    <3>3. t \o <<"end">> = s
      BY <2>1, <2>3, <1>1
    <3> HIDE DEF s
    <3>4. s \o <<"sendclose">> = Append(s, "sendclose")
      BY <2>1, <1>1, <1>2
    <3> QED BY <3>1, <3>2, <3>3, <3>4
  <2> QED BY <2>2, <2>3
<1> HIDE DEF s
<1>4. /\ Append(s, "sendclose") \in Seq(TickNames)
      /\ Range(Append(s, "sendclose")) = Range(s) \cup {"sendclose"}
      /\ \A x : Once(s, x) /\ (x = "sendclose" => x \notin Range(s)) => Once(Append(s, "sendclose"), x)
      /\ \A x, y : Before(s, x, y) /\ x # y /\ (x = "sendclose" => y \notin Range(s))
                     => Before(Append(s, "sendclose"), x, y)
  BY <1>1, <1>2, TickDeferred
<1>5. "sendclose" \notin Range(t) => Once(Append(s, "sendclose"), "sendclose")
  <2> SUFFICES ASSUME "sendclose" \notin Range(t) PROVE Once(Append(s, "sendclose"), "sendclose")
    OBVIOUS
  <2>1. "sendclose" \notin Range(s)
    BY <1>2
  <2>2. Once(s, "sendclose")
    BY <2>1 DEF Once, Range
  <2> QED BY <1>4, <2>1, <2>2
<1> QED BY <1>2, <1>3, <1>4, <1>5

\* close() of a result set that is not closed defers 'end', if it has not been emitted, and the
\* CLOSE behind it.  The queue of events has lost its first one when close() is called by it.
LEMMA ClosesStep ==
  ASSUME Core, ~closed, NEW t \in Seq(TickNames),
         \/ t = ticks
         \/ ticks # <<>> /\ Head(ticks) = "collector" /\ t = Tail(ticks),
         finished' = TRUE, running' = (IF finished THEN running ELSE "no"), ticks' = t \o CloseTicks,
         UNCHANGED <<closed, data, connected, frames, requests, up, cursor, serverOpen, autoClose, lost,
                     streamVars, ends, closeEvents>>,
         event' \in {"none", "error"}, answered' \in Nat, pauses' \in Nat, closes' \in Nat
  PROVE  Core'
<1> USE DEF Core
<1>1. /\ \A x : x # "collector" => (x \in Range(t) <=> x \in Due)
      /\ \A x : Once(ticks, x) => Once(t, x)
      /\ \A x, y : Before(ticks, x, y) => Before(t, x, y)
  <2>1. CASE t = ticks
    BY <2>1 DEF Due
  <2>2. CASE ticks # <<>> /\ Head(ticks) = "collector" /\ t = Tail(ticks)
    BY <2>2, TickTaken DEF Due
  <2> QED BY <2>1, <2>2
<1>2. /\ ticks' \in Seq(TickNames)
      /\ Due' = Range(t) \cup {"sendclose"} \cup (IF finished THEN {} ELSE {"end"})
      /\ \A x : Once(t, x) /\ x # "sendclose" /\ (x = "end" => finished \/ x \notin Range(t)) => Once(ticks', x)
      /\ \A x, y : Before(t, x, y) /\ x # y /\ x \notin {"end", "sendclose"} => Before(ticks', x, y)
      /\ Before(t, "end", "close") /\ (finished \/ "close" \notin Range(t)) => Before(ticks', "end", "close")
  BY CloseTicksFacts DEF Due
<1>3. running' = "no" /\ (FetchDue' <=> FetchDue)
  BY <1>1, <1>2 DEF Flow, FetchDue, Due
<1>4. TypeOK'
  BY <1>2, <1>3 DEF TypeOK, streamVars
<1>5. Flow' /\ Position'
  BY <1>3 DEF Flow, Backpressure, Position, Fetching, streamVars
<1>6. Closing'
  <2>1. Once(ticks', "fetch") /\ Before(ticks', "fetch", "sendclose")
    BY <1>1, <1>2 DEF Closing, OneFetch
  <2> QED BY <1>3, <2>1 DEF Closing, OneFetch, Fetching
<1>7. Order'
  BY DEF Order, Pushed, Handled, streamVars
<1>8. Ending'
  <2>1. \A x \in {"endclose", "close", "emitclose"} : x \in Due' <=> x \in Due
    BY <1>1, <1>2
  <2>2. "end" \in Due' <=> ~finished \/ "end" \in Due
    BY <1>1, <1>2
  <2>3. Once(ticks', "end") /\ Once(ticks', "endclose") /\ Once(ticks', "emitclose")
    BY <1>1, <1>2 DEF Ending
  <2>4. Before(ticks', "end", "close") /\ Before(ticks', "endclose", "close")
    BY <1>1, <1>2 DEF Ending
  <2>5. IF ends = 0 THEN Due' \cap {"end", "endclose"} # {} ELSE ends = 1 /\ Due' \cap {"end", "endclose"} = {}
    BY <2>1, <2>2 DEF Ending
  <2>6. ~({"end", "endclose"} \subseteq Due')
    BY <2>1, <2>2 DEF Ending
  <2> QED BY <2>1, <2>3, <2>4, <2>5, <2>6 DEF Ending, streamVars
<1> QED BY <1>4, <1>5, <1>6, <1>7, <1>8

\* A closed result set only calls back.
LEMMA ClosedAlready ==
  ASSUME Core, UNCHANGED <<running, finished, closed, data, connected, ticks, frames, requests, up, cursor,
                           serverOpen, autoClose, lost, streamVars, ends, closeEvents>>,
         event' \in {"none", "error"}, answered' \in Nat, pauses' \in Nat, closes' \in Nat
  PROVE  Core'
<1> USE DEF Core
<1>1. TypeOK'
  BY DEF TypeOK, streamVars
<1>2. Flow' /\ Position' /\ Closing'
  BY DEF Flow, Backpressure, Position, Closing, OneFetch, Fetching, FetchDue, streamVars
<1>3. Order'
  BY DEF Order, Pushed, Handled, streamVars
<1>4. Ending'
  BY DEF Ending, Due, streamVars
<1> QED BY <1>1, <1>2, <1>3, <1>4

LEMMA UserCloseStep ==
  ASSUME Core, UserClose
  PROVE  Core'
<1>1. /\ UNCHANGED <<closed, data, connected, frames, event, serverVars, streamVars, ends, closeEvents>>
      /\ closes' = closes + 1 /\ UNCHANGED pauses
      /\ event \in {"none", "error"} /\ answered \in Nat /\ pauses \in Nat /\ closes \in Nat
      /\ ticks \in Seq(TickNames)
  BY DEF UserClose, Core, TypeOK
<1>2. CASE closed /\ answered' = answered + 1 /\ UNCHANGED <<running, finished, ticks>>
  <2>1. answered' \in Nat /\ closes' \in Nat
    BY <1>1, <1>2
  <2> QED BY <1>1, <1>2, <2>1, ClosedAlready DEF serverVars
<1>3. CASE /\ ~closed /\ finished' = TRUE /\ running' = (IF finished THEN running ELSE "no")
           /\ ticks' = ticks \o CloseTicks /\ UNCHANGED answered
  <2>1. event' \in {"none", "error"} /\ answered' \in Nat /\ pauses' \in Nat /\ closes' \in Nat
    BY <1>1, <1>3
  <2> QED BY <1>1, <1>3, <2>1, ClosesStep, Zenon DEF serverVars
<1> QED BY <1>2, <1>3 DEF UserClose, Close

\* The packet that is being handled is the last one that the server has sent.
LEMMA OneFrame ==
  ASSUME Core, frames # <<>>
  PROVE  /\ Head(frames) = frames[1] /\ Tail(frames) = <<>>
         /\ Head(frames).packet = cursor /\ (Head(frames).stored <=> data # 0)
         /\ Head(frames).stored \in BOOLEAN /\ cursor \in Packets
<1> DEFINE F == [packet : Packets, stored : BOOLEAN]
<1>1. frames \in Seq(F) /\ Len(frames) = 1
  BY DEF Core, TypeOK, Position
<1> HIDE DEF F
<1>2. Head(frames) \in F /\ Head(frames) = frames[1] /\ Tail(frames) \in Seq(F) /\ Len(Tail(frames)) = 0
  BY <1>1, HeadTailProperties
<1>3. Tail(frames) = <<>>
  BY <1>2, EmptySeq
<1>4. frames[1].packet = cursor /\ (frames[1].stored <=> data # 0)
  BY DEF Core, Position
<1> QED BY <1>2, <1>3, <1>4 DEF F

\* The packet has been handled: the result set ends, or fetches the next one while it runs.
LEMMA HandlerReturnsStep ==
  ASSUME Core, HandlerReturns
  PROVE  Core'
<1> USE DEF Core
<1>1. /\ frames # <<>> /\ frames' = Tail(frames) /\ data' = Stored(Head(frames))
      /\ UNCHANGED <<closed, connected, event, serverVars, streamVars, userVars>>
  BY DEF HandlerReturns
<1>2. /\ Head(frames) = frames[1] /\ Tail(frames) = <<>> /\ frames[1].packet = cursor
      /\ (frames[1].stored <=> data # 0) /\ frames[1].stored \in BOOLEAN /\ cursor \in Packets
  BY <1>1, OneFrame
<1>3. frames' = <<>> /\ data' = 0
  BY <1>1, <1>2 DEF Stored
<1>4. Handled' = Handled
  BY <1>1, <1>3 DEF Handled, serverVars
<1>5. Order'
  BY <1>1, <1>4 DEF Order, Pushed, streamVars
<1>6. ~Fetching /\ ~FetchDue
  BY <1>1 DEF Closing, OneFetch
<1>7. 0 \in 0..Last
  BY PacketAssumption
<1>8. CASE cursor = Last /\ EmitEnd(autoClose)
  <2>1. /\ ~finished => ticks' = Append(ticks, IF autoClose THEN "endclose" ELSE "end")
        /\ finished => ticks' = IF autoClose THEN Append(ticks, "close") ELSE ticks
        /\ ticks' \in Seq(TickNames)
    BY <1>8, EndTicksFacts DEF EmitEnd, TypeOK
  <2>2. finished' = TRUE /\ running' = "no"
    BY <1>8 DEF EmitEnd, Flow
  <2>3. ticks \in Seq(TickNames) /\ {"end", "endclose", "close"} \subseteq TickNames /\ autoClose \in BOOLEAN
    BY DEF TypeOK, TickNames
  <2>4. \/ ticks' = ticks /\ finished
        \/ \E z \in {"end", "endclose", "close"} :
             ticks' = Append(ticks, z) /\ (finished <=> z = "close")
    BY <2>1, <2>3 DEF TypeOK
  <2>5. CASE ticks' = ticks /\ finished
    <3>1. TypeOK'
      BY <1>1, <1>3, <1>7, <2>2, <2>5 DEF TypeOK, serverVars, streamVars, userVars
    <3>2. Flow' /\ Position' /\ Closing'
      BY <1>1, <1>3, <1>6, <2>2, <2>5 DEF Flow, Backpressure, Position, Closing, OneFetch, Fetching,
         FetchDue, serverVars, streamVars
    <3>3. Ending'
      BY <1>1, <1>3, <1>8, <2>2, <2>5 DEF Ending, Due, serverVars, streamVars, userVars
    <3> QED BY <1>5, <3>1, <3>2, <3>3
  <2>6. ASSUME NEW z \in {"end", "endclose", "close"}, ticks' = Append(ticks, z), finished <=> z = "close"
        PROVE  Core'
    <3>1. /\ Due' = Due \cup {z}
          /\ \A x : Once(ticks, x) /\ (x = z => x \notin Due) => Once(ticks', x)
          /\ \A x, y : Before(ticks, x, y) /\ x # y /\ (x = z => y \notin Due) => Before(ticks', x, y)
      BY <2>3, <2>6, TickDeferred DEF Due
    <3>2. ~FetchDue'
      BY <1>6, <3>1 DEF FetchDue, Due
    <3>3. TypeOK'
      BY <1>1, <1>3, <1>7, <2>1, <2>2 DEF TypeOK, serverVars, streamVars, userVars
    <3>4. Flow' /\ Position'
      BY <1>1, <1>3, <1>6, <2>2, <3>2 DEF Flow, Backpressure, Position, Fetching, serverVars, streamVars
    <3>5. Closing'
      <4>1. Once(ticks', "fetch") /\ Before(ticks', "fetch", "sendclose")
        BY <3>1 DEF Closing, OneFetch
      <4> QED BY <1>1, <1>6, <2>2, <3>2, <4>1 DEF Closing, OneFetch, Fetching, serverVars
    <3>6. Ending'
      <4>1. Once(ticks', "end") /\ Once(ticks', "endclose") /\ Once(ticks', "emitclose")
        BY <2>6, <3>1 DEF Ending
      <4>2. Before(ticks', "end", "close") /\ Before(ticks', "endclose", "close")
        BY <2>6, <3>1 DEF Ending
      <4>3. ~({"end", "endclose"} \subseteq Due')
        BY <2>6, <3>1 DEF Ending
      <4>4. IF ends = 0 THEN Due' \cap {"end", "endclose"} # {} ELSE ends = 1 /\ Due' \cap {"end", "endclose"} = {}
        BY <2>6, <3>1 DEF Ending
      <4>5. "emitclose" \in Due' <=> "emitclose" \in Due
        BY <3>1
      <4> QED BY <1>1, <1>3, <1>8, <2>2, <4>1, <4>2, <4>3, <4>4, <4>5 DEF Ending, serverVars, streamVars, userVars
    <3> QED BY <1>5, <3>3, <3>4, <3>5, <3>6
  <2> QED BY <2>4, <2>5, <2>6
<1>9. CASE /\ cursor # Last /\ UNCHANGED <<running, finished>>
           /\ ticks' = IF running = "yes" THEN Append(ticks, "fetch") ELSE ticks
  <2>1. cursor < Last
    BY <1>2, <1>9, PacketAssumption DEF Packets
  <2>2. ticks \in Seq(TickNames) /\ "fetch" \in TickNames
    BY DEF TypeOK, TickNames
  <2>3. /\ ticks' \in Seq(TickNames)
        /\ Due' = Due \cup (IF running = "yes" THEN {"fetch"} ELSE {})
        /\ \A x : Once(ticks, x) /\ (x = "fetch" => x \notin Due) => Once(ticks', x)
        /\ \A x, y : Before(ticks, x, y) /\ x # y /\ (x = "fetch" => running # "yes" \/ y \notin Due) => Before(ticks', x, y)
    <3>1. CASE running = "yes"
      BY <3>1, <1>9, <2>2, TickDeferred DEF Due
    <3>2. CASE running # "yes"
      BY <3>2, <1>9, <2>2 DEF Due
    <3> QED BY <3>1, <3>2
  <2>4. FetchDue' <=> running = "yes"
    BY <1>6, <2>3 DEF FetchDue, Due
  <2>5. running = "yes" => ~finished
    BY DEF Flow
  <2>6. TypeOK'
    BY <1>1, <1>3, <1>7, <1>9, <2>3 DEF TypeOK, serverVars, streamVars, userVars
  <2>7. Flow' /\ Position'
    BY <1>1, <1>3, <1>6, <1>9, <2>1, <2>4 DEF Flow, Backpressure, Position, Fetching, serverVars, streamVars
  <2>8. Closing'
    <3>1. Once(ticks', "fetch") /\ Before(ticks', "fetch", "sendclose")
      BY <1>6, <2>3, <2>5 DEF Closing, OneFetch, Ending, FetchDue, Due
    <3> QED BY <1>1, <1>3, <1>6, <1>9, <2>1, <2>4, <2>5, <3>1 DEF Closing, OneFetch, Fetching, serverVars
  <2>9. Ending'
    <3>1. Once(ticks', "end") /\ Once(ticks', "endclose") /\ Once(ticks', "emitclose")
      BY <2>3 DEF Ending
    <3>2. Before(ticks', "end", "close") /\ Before(ticks', "endclose", "close")
      BY <2>3 DEF Ending
    <3>3. \A x \in {"end", "endclose", "close", "sendclose", "emitclose"} : x \in Due' <=> x \in Due
      BY <2>3
    <3> QED BY <1>1, <1>9, <3>1, <3>2, <3>3 DEF Ending, streamVars, userVars
  <2> QED BY <1>5, <2>6, <2>7, <2>8, <2>9
<1> QED
  <2>1. IsLast(Head(frames).packet) <=> cursor = Last
    BY <1>2 DEF IsLast
  <2> QED BY <2>1, <1>8, <1>9 DEF HandlerReturns, FetchesNext

\* The next callback of process.nextTick.
LEMMA TickStep ==
  ASSUME Core, Tick
  PROVE  Core'
<1> USE DEF Core
<1>1. /\ frames = <<>> /\ ticks # <<>>
      /\ UNCHANGED <<finished, data, frames, up, cursor, serverOpen, autoClose, faults, lost, buffer,
                     reading, delivered, pauses, closes>>
  BY DEF Tick, Calm
<1>2. /\ Tail(ticks) \in Seq(TickNames)
      /\ Due = Range(Tail(ticks)) \cup {Head(ticks)}
      /\ \A x : Once(ticks, x) => /\ Once(Tail(ticks), x)
                                  /\ Head(ticks) = x => x \notin Range(Tail(ticks))
      /\ \A x, y : Before(ticks, x, y) => /\ Before(Tail(ticks), x, y)
                                          /\ Head(ticks) = y => x \notin Due
  BY <1>1, TickTaken DEF Due
<1>3. Order'
  BY <1>1 DEF Order, Pushed, Handled
<1>4. CASE /\ Head(ticks) = "fetch" /\ ticks' = Tail(ticks) /\ SendFetch(running)
           /\ UNCHANGED <<closed, connected, ended, answered, ends, closeEvents>>
  <2>1. FetchDue /\ ~Fetching /\ data = 0 /\ cursor < Last /\ "close" \notin Range(requests)
    BY <1>2, <1>4 DEF FetchDue, Due, Closing, OneFetch, Position
  <2>2. ~FetchDue' /\ Due' = Range(Tail(ticks)) /\ Due = Due' \cup {"fetch"}
    BY <1>2, <1>4 DEF FetchDue, Due, Closing, OneFetch
  <2>3. Ending'
    <3>1. \A x \in {"end", "endclose", "close", "sendclose", "emitclose"} : x \in Due' <=> x \in Due
      BY <2>2
    <3>2. Once(ticks', "end") /\ Once(ticks', "endclose") /\ Once(ticks', "emitclose")
      BY <1>2, <1>4 DEF Ending
    <3>3. Before(ticks', "end", "close") /\ Before(ticks', "endclose", "close")
      BY <1>2, <1>4 DEF Ending
    <3> QED BY <1>1, <1>4, <3>1, <3>2, <3>3 DEF Ending
  <2>4. Once(ticks', "fetch") /\ Before(ticks', "fetch", "sendclose")
    BY <1>2, <1>4 DEF Closing, OneFetch
  <2>5. CASE up /\ requests' = Append(requests, "fetch") /\ UNCHANGED <<running, event>>
    <3>1. /\ requests' \in Seq({"fetch", "close", "lob"}) /\ Range(requests') = Range(requests) \cup {"fetch"}
          /\ Once(requests, "fetch") => Once(requests', "fetch")
          /\ Before(requests, "fetch", "close") => Before(requests', "fetch", "close")
      BY <2>1, <2>5, RequestSent
    <3>2. TypeOK'
      BY <1>1, <1>2, <1>4, <2>5, <3>1 DEF TypeOK
    <3>3. Flow' /\ Position'
      BY <1>1, <2>1, <2>5 DEF Flow, Backpressure, Position
    <3>4. Closing'
      BY <1>1, <1>4, <2>1, <2>2, <2>4, <3>1 DEF Closing, OneFetch, Fetching
    <3> QED BY <1>3, <2>3, <3>2, <3>3, <3>4
  <2>6. CASE ~up /\ running' = "no" /\ event' = "error" /\ UNCHANGED requests
    <3>1. TypeOK'
      BY <1>1, <1>2, <1>4, <2>6 DEF TypeOK
    <3>2. Flow' /\ Position'
      BY <1>1, <2>1, <2>2, <2>6 DEF Flow, Backpressure, Position, Fetching
    <3>3. Closing'
      BY <1>1, <1>4, <2>1, <2>2, <2>4, <2>6 DEF Closing, OneFetch, Fetching
    <3> QED BY <1>3, <2>3, <3>1, <3>2, <3>3
  <2> QED BY <1>4, <2>5, <2>6 DEF SendFetch
<1>5. CASE /\ Head(ticks) \in {"end", "endclose", "close"}
           /\ IF Head(ticks) # "close" THEN ends' = ends + 1 /\ ended' = TRUE ELSE UNCHANGED <<ends, ended>>
           /\ IF Head(ticks) # "end" THEN EmitClose ELSE ticks' = Tail(ticks) /\ UNCHANGED closed
           /\ UNCHANGED <<running, connected, event, requests, answered, closeEvents>>
  <2> DEFINE h == Head(ticks)
             closes1 == h # "end" /\ ~closed
  <2>1. finished /\ h \in Due /\ ends \in Nat
    BY <1>2, <1>5 DEF Ending, TypeOK
  <2>2. IF h = "close" THEN ends' = ends /\ ends = 1 /\ {"end", "endclose"} \cap Due = {}
        ELSE ends = 0 /\ ends' = 1 /\ {"end", "endclose"} \cap Range(Tail(ticks)) = {}
    <3>1. CASE h = "close"
      <4>1. {"end", "endclose"} \cap Due = {}
        BY <3>1, <1>2 DEF Ending
      <4> QED BY <4>1, <2>1, <3>1, <1>5 DEF Ending
    <3>2. CASE h # "close"
      <4>1. h \in {"end", "endclose"} /\ ends = 0
        BY <3>2, <2>1, <1>5 DEF Ending
      <4>2. h \notin Range(Tail(ticks))
        BY <4>1, <1>2 DEF Ending
      <4>3. {"end", "endclose"} \cap Range(Tail(ticks)) = {}
        BY <4>1, <4>2, <1>2 DEF Ending
      <4> QED BY <3>2, <4>1, <4>3, <1>5
    <3> QED BY <3>1, <3>2
  <2>3. /\ closed' = (closed \/ h # "end")
        /\ ticks' = IF closes1 THEN Append(Tail(ticks), "emitclose") ELSE Tail(ticks)
    BY <1>5 DEF EmitClose, TypeOK
  <2>4. /\ ticks' \in Seq(TickNames)
        /\ Due' = Range(Tail(ticks)) \cup (IF closes1 THEN {"emitclose"} ELSE {})
        /\ \A x : Once(ticks, x) /\ (x = "emitclose" => ~closes1 \/ x \notin Due) => Once(ticks', x)
        /\ \A x, y : Before(ticks, x, y) /\ x # y /\ x # "emitclose" => Before(ticks', x, y)
    <3>1. CASE ~closes1
      BY <3>1, <2>3, <1>2 DEF Due
    <3>2. CASE closes1
      <4> DEFINE t == Tail(ticks)
      <4>1. "emitclose" \in TickNames /\ t \in Seq(TickNames) /\ Range(t) \subseteq Due
        BY <1>2 DEF TickNames
      <4>2. ticks' = Append(t, "emitclose")
        BY <3>2, <2>3
      <4>3. /\ \A x : Once(ticks, x) => Once(t, x)
            /\ \A x, y : Before(ticks, x, y) => Before(t, x, y)
        BY <1>2
      <4> HIDE DEF t
      <4>4. /\ Append(t, "emitclose") \in Seq(TickNames)
            /\ Range(Append(t, "emitclose")) = Range(t) \cup {"emitclose"}
            /\ \A x : Once(t, x) /\ (x = "emitclose" => x \notin Range(t)) => Once(Append(t, "emitclose"), x)
            /\ \A x, y : Before(t, x, y) /\ x # y /\ (x = "emitclose" => y \notin Range(t))
                           => Before(Append(t, "emitclose"), x, y)
        BY <4>1, TickDeferred
      <4>5. Due' = Range(t) \cup {"emitclose"}
        BY <4>2, <4>4 DEF Due
      <4> HIDE DEF closes1
      <4> QED BY <3>2, <4>1, <4>2, <4>3, <4>4, <4>5 DEF t
    <3> QED BY <3>1, <3>2
  <2>5. ~closed => closeEvents = 0 /\ "emitclose" \notin Due
    BY DEF Ending
  <2>6. FetchDue' => FetchDue
    BY <1>2, <2>4 DEF FetchDue, Due
  <2>7. TypeOK'
    <3>1. ends' \in Nat
      BY <2>1, <2>2
    <3>2. ended' \in BOOLEAN
      <4>1. ended' = TRUE \/ ended' = ended
        BY <1>5
      <4> QED BY <4>1 DEF TypeOK
    <3>3. closed' \in BOOLEAN
      BY <2>3
    <3> QED BY <1>1, <1>5, <2>4, <3>1, <3>2, <3>3 DEF TypeOK
  <2>8. Flow' /\ Position'
    BY <1>1, <1>5, <2>6 DEF Flow, Backpressure, Position, Fetching
  <2>9. Closing'
    <3>1. Once(ticks', "fetch") /\ Before(ticks', "fetch", "sendclose")
      BY <2>4 DEF Closing, OneFetch
    <3> QED BY <1>1, <1>5, <2>6, <3>1 DEF Closing, OneFetch, Fetching
  <2>10. Ending'
    <3>1. Once(ticks', "end") /\ Once(ticks', "endclose") /\ Once(ticks', "emitclose")
      BY <2>4, <2>5 DEF Ending
    <3>2. Before(ticks', "end", "close") /\ Before(ticks', "endclose", "close")
      BY <2>4 DEF Ending
    <3>3. ends' = 1 /\ Due' \cap {"end", "endclose"} = {}
      <4>1. {"end", "endclose"} \cap Range(Tail(ticks)) = {}
        BY <1>2, <2>2
      <4> QED BY <4>1, <2>2, <2>4
    <3>4. ~({"end", "endclose"} \subseteq Due')
      BY <3>3
    <3>5. "emitclose" \in Due' => closeEvents = 0
      BY <1>2, <2>4, <2>5 DEF Ending
    <3>6. ~closed' => closeEvents = 0 /\ "emitclose" \notin Due'
      BY <1>2, <2>3, <2>4, <2>5
    <3>7. closeEvents <= 1
      BY <2>2 DEF Ending, TypeOK
    <3> QED BY <1>1, <1>5, <2>1, <3>1, <3>2, <3>3, <3>4, <3>5, <3>6, <3>7 DEF Ending
  <2> QED BY <1>3, <2>7, <2>8, <2>9, <2>10
<1>6. CASE /\ Head(ticks) = "sendclose" /\ ticks' = Tail(ticks) /\ SendClose
           /\ UNCHANGED <<running, closed, event, ended, ends, closeEvents>>
  <2>1. finished /\ ~FetchDue
    BY <1>2, <1>6 DEF Ending, Closing, FetchDue, Due
  <2>2. ~FetchDue' /\ Due' = Range(Tail(ticks)) /\ Due = Due' \cup {"sendclose"}
    BY <1>2, <1>6, <2>1 DEF FetchDue, Due
  <2>3. Ending'
    <3>1. \A x \in {"end", "endclose", "close", "emitclose"} : x \in Due' <=> x \in Due
      BY <2>2
    <3>2. Once(ticks', "end") /\ Once(ticks', "endclose") /\ Once(ticks', "emitclose")
      BY <1>2, <1>6 DEF Ending
    <3>3. Before(ticks', "end", "close") /\ Before(ticks', "endclose", "close")
      BY <1>2, <1>6 DEF Ending
    <3> QED BY <1>1, <1>6, <2>1, <3>1, <3>2, <3>3 DEF Ending
  <2>4. Once(ticks', "fetch") /\ Before(ticks', "fetch", "sendclose")
    BY <1>2, <1>6 DEF Closing, OneFetch
  <2>5. CASE connected /\ up /\ requests' = Append(requests, "close") /\ UNCHANGED <<connected, answered>>
    <3>1. /\ requests' \in Seq({"fetch", "close", "lob"}) /\ Range(requests') = Range(requests) \cup {"close"}
          /\ Once(requests, "fetch") => Once(requests', "fetch")
          /\ Before(requests, "fetch", "close") => Before(requests', "fetch", "close")
      BY <2>5, RequestSent
    <3>2. Fetching' <=> Fetching
      BY <3>1 DEF Fetching
    <3>3. TypeOK'
      BY <1>1, <1>2, <1>6, <2>5, <3>1 DEF TypeOK
    <3>4. Flow' /\ Position'
      BY <1>1, <1>6, <2>1, <2>2, <3>2 DEF Flow, Backpressure, Position
    <3>5. Closing'
      BY <1>1, <1>6, <2>1, <2>2, <2>4, <2>5, <3>1, <3>2 DEF Closing, OneFetch
    <3> QED BY <1>3, <2>3, <3>3, <3>4, <3>5
  <2>6. CASE connected' = FALSE /\ answered' = answered + 1 /\ UNCHANGED requests
    <3>1. TypeOK'
      <4>1. answered \in Nat
        BY DEF TypeOK
      <4>2. answered' \in Nat
        BY <2>6, <4>1
      <4>3. connected' \in BOOLEAN
        BY <2>6
      <4> QED BY <1>1, <1>2, <1>6, <2>6, <4>2, <4>3 DEF TypeOK
    <3>2. Flow' /\ Position' /\ Closing'
      BY <1>1, <1>6, <2>1, <2>2, <2>4, <2>6 DEF Flow, Backpressure, Position, Closing, OneFetch, Fetching
    <3> QED BY <1>3, <2>3, <3>1, <3>2
  <2> QED BY <1>6, <2>5, <2>6 DEF SendClose
<1>7. CASE /\ Head(ticks) = "emitclose" /\ ticks' = Tail(ticks) /\ closeEvents' = closeEvents + 1
           /\ UNCHANGED <<running, closed, connected, event, requests, ended, answered, ends>>
  <2>1. /\ "emitclose" \in Due /\ closeEvents = 0 /\ ends = 1 /\ closed /\ closeEvents' = 1
        /\ "emitclose" \notin Range(Tail(ticks))
    BY <1>2, <1>7 DEF Ending
  <2>2. Due' = Range(Tail(ticks)) /\ Due = Due' \cup {"emitclose"} /\ (FetchDue' <=> FetchDue)
    BY <1>2, <1>7 DEF FetchDue, Due
  <2>3. Ending'
    <3>1. \A x \in {"end", "endclose", "close", "sendclose"} : x \in Due' <=> x \in Due
      BY <2>2
    <3>2. Once(ticks', "end") /\ Once(ticks', "endclose") /\ Once(ticks', "emitclose")
      BY <1>2, <1>7 DEF Ending
    <3>3. Before(ticks', "end", "close") /\ Before(ticks', "endclose", "close")
      BY <1>2, <1>7 DEF Ending
    <3> QED BY <1>1, <1>7, <2>1, <2>2, <3>1, <3>2, <3>3 DEF Ending
  <2>4. Once(ticks', "fetch") /\ Before(ticks', "fetch", "sendclose")
    BY <1>2, <1>7 DEF Closing, OneFetch
  <2>5. TypeOK'
    BY <1>1, <1>2, <1>7 DEF TypeOK
  <2>6. Flow' /\ Position' /\ Closing'
    BY <1>1, <1>7, <2>2, <2>4 DEF Flow, Backpressure, Position, Closing, OneFetch, Fetching
  <2> QED BY <1>3, <2>3, <2>5, <2>6
<1> QED BY <1>4, <1>5, <1>6, <1>7 DEF Tick

\* The packet that was fetched is handled, or kept by a result set that was closed meanwhile.
LEMMA FetchReplyStep ==
  ASSUME Core, FetchReply
  PROVE  Core'
<1> USE DEF Core
<1>1. /\ requests # <<>> /\ Head(requests) = "fetch" /\ requests' = Tail(requests)
      /\ UNCHANGED <<finished, closed, connected, ticks, up, autoClose, faults, lost, ended, userVars>>
  BY DEF FetchReply, Answering
<1>2. /\ requests' \in Seq({"fetch", "close", "lob"})
      /\ Range(requests) = Range(requests') \cup {"fetch"}
      /\ Once(requests', "fetch") /\ "fetch" \notin Range(requests')
      /\ Before(requests, "fetch", "close") => Before(requests', "fetch", "close")
  BY <1>1, RequestAnswered DEF Closing, OneFetch
<1>3. Fetching /\ ~Fetching'
  BY <1>2 DEF Fetching
<1>4. frames = <<>> /\ data = 0 /\ cursor < Last /\ ~FetchDue /\ ~FetchDue'
  <2>1. frames = <<>> /\ data = 0 /\ cursor < Last /\ ~FetchDue
    BY <1>3 DEF Position, Closing, OneFetch
  <2>2. ~FetchDue'
    BY <1>1, <2>1 DEF FetchDue
  <2> QED BY <2>1, <2>2
<1>5. cursor \in Nat /\ cursor + 1 \in Packets /\ cursor + 1 \in 0..Last
  BY <1>4, PacketAssumption DEF TypeOK, Packets
<1>6. Ending'
  BY <1>1 DEF Ending, Due, userVars
<1>7. Once(ticks', "fetch") /\ Before(ticks', "fetch", "sendclose")
  BY <1>1 DEF Closing, OneFetch
<1>8. Closing'
  BY <1>1, <1>2, <1>3, <1>4, <1>7 DEF Closing, OneFetch
<1>9. CASE /\ up /\ cursor' = cursor + 1 /\ serverOpen' \in BOOLEAN /\ UNCHANGED event
           /\ running = "yes" /\ HandleData(cursor + 1, FALSE, FALSE) /\ UNCHANGED data
  <2>1. ~finished /\ ~ended /\ Len(buffer) < HighWaterMark
    BY <1>9 DEF Flow, Ending
  <2>2. /\ frames' \in Seq([packet : Packets, stored : BOOLEAN])
        /\ frames' # <<>> /\ Len(frames') = 1 /\ frames'[1] = [packet |-> cursor + 1, stored |-> FALSE]
        /\ running' \in {"yes", "no"} /\ reading' \in BOOLEAN
        /\ buffer' \in Seq(Packets) /\ delivered' \in Seq(Packets)
        /\ Len(buffer') <= HighWaterMark /\ (running' = "yes" => Len(buffer') < HighWaterMark)
        /\ \/ cursor + 1 \in Empty /\ Pushed' = Pushed
           \/ cursor + 1 \notin Empty /\ Pushed' = Append(Pushed, cursor + 1)
    BY <1>4, <1>5, <1>9, <2>1, HandleDataFacts
  <2>3. TypeOK'
    BY <1>1, <1>2, <1>5, <1>9, <2>2 DEF TypeOK, userVars
  <2>4. Flow' /\ Position'
    BY <1>1, <1>3, <1>4, <1>9, <2>1, <2>2 DEF Flow, Backpressure, Position
  <2>5. Order'
    <3>1. Handled = (cursor + 1) - 1 /\ Handled' = cursor + 1
      BY <1>4, <1>5, <1>9, <2>2 DEF Handled
    <3> QED BY <3>1, <1>5, <2>2, NextInOrder
  <2> QED BY <1>6, <1>8, <2>3, <2>4, <2>5
<1>10. CASE /\ cursor' = cursor + 1 /\ serverOpen' \in BOOLEAN /\ UNCHANGED event
            /\ running # "yes" /\ data' = cursor + 1
            /\ UNCHANGED <<running, frames, buffer, reading, delivered>>
  <2>1. finished
    BY <1>3, <1>10 DEF Flow
  <2>2. TypeOK'
    BY <1>1, <1>2, <1>5, <1>10 DEF TypeOK, userVars
  <2>3. Flow' /\ Position'
    BY <1>1, <1>3, <1>4, <1>5, <1>10 DEF Flow, Backpressure, Position
  <2>4. Order'
    <3>1. Handled' = Handled
      BY <1>4, <1>5, <1>10 DEF Handled
    <3> QED BY <3>1, <1>10 DEF Order, Pushed
  <2> QED BY <1>6, <1>8, <2>2, <2>3, <2>4
<1>11. CASE /\ running' = "no" /\ event' = "error"
            /\ UNCHANGED <<data, frames, cursor, serverOpen, buffer, reading, delivered>>
  <2>1. TypeOK'
    BY <1>1, <1>2, <1>11 DEF TypeOK, userVars
  <2>2. Flow' /\ Position'
    BY <1>1, <1>3, <1>4, <1>11 DEF Flow, Backpressure, Position
  <2>3. Order'
    BY <1>11 DEF Order, Pushed, Handled
  <2> QED BY <1>6, <1>8, <2>1, <2>2, <2>3
<1> QED BY <1>9, <1>10, <1>11 DEF FetchReply, NextPacket

\* The callback of CLOSE.
LEMMA CloseReplyStep ==
  ASSUME Core, CloseReply
  PROVE  Core'
<1> USE DEF Core
<1>1. /\ requests # <<>> /\ Head(requests) = "close" /\ requests' = Tail(requests)
      /\ connected' = FALSE /\ answered' = answered + 1
      /\ UNCHANGED <<running, finished, data, frames, event, up, cursor, autoClose, faults, lost,
                     streamVars, pauses, closes, ends, closeEvents>>
  BY DEF CloseReply, Answering
<1>2. /\ requests' \in Seq({"fetch", "close", "lob"})
      /\ Range(requests) = Range(requests') \cup {"close"}
      /\ Once(requests, "fetch") => Once(requests', "fetch")
      /\ Before(requests, "fetch", "close") => Before(requests', "fetch", "close")
  BY <1>1, RequestAnswered
<1>3. (Fetching' <=> Fetching) /\ finished /\ ~FetchDue
  BY <1>2 DEF Fetching, Closing, OneFetch
<1>4. Order'
  BY <1>1 DEF Order, Pushed, Handled, streamVars
<1>5. answered' \in Nat /\ connected' \in BOOLEAN
  <2>1. answered \in Nat
    BY DEF TypeOK
  <2>2. answered' \in Nat
    BY <1>1, <2>1
  <2>3. connected' \in BOOLEAN
    BY <1>1
  <2> QED BY <2>2, <2>3
<1>6. CASE UNCHANGED <<serverOpen, closed, ticks>>
  <2>1. TypeOK'
    BY <1>1, <1>2, <1>5, <1>6 DEF TypeOK, streamVars
  <2>2. Flow' /\ Position'
    BY <1>1, <1>3, <1>6 DEF Flow, Backpressure, Position, FetchDue, streamVars
  <2>3. Closing'
    BY <1>1, <1>2, <1>3, <1>6 DEF Closing, OneFetch, FetchDue
  <2>4. Ending'
    BY <1>1, <1>6 DEF Ending, Due, streamVars
  <2> QED BY <1>4, <2>1, <2>2, <2>3, <2>4
<1>7. CASE /\ up /\ serverOpen' = FALSE /\ closed' = TRUE
           /\ ticks' = IF closed THEN ticks ELSE Append(ticks, "emitclose")
  <2>1. ticks = <<>> /\ Due = {} /\ ends = 1
    <3>1. ticks = <<>>
      BY <1>7 DEF CloseReply, Answering, EventLoop
    <3>2. Due = {}
      BY <3>1, EmptyFacts DEF Due
    <3> QED BY <3>1, <3>2, <1>3 DEF Ending
  <2>2. /\ ticks' \in Seq(TickNames)
        /\ Due' = IF closed THEN {} ELSE {"emitclose"}
        /\ \A x : Once(ticks', x)
        /\ \A x, y : x # y => Before(ticks', x, y)
    <3>1. /\ <<>> \in Seq(TickNames) /\ "emitclose" \in TickNames
          /\ Range(<<>>) = {}
          /\ \A x : Once(<<>>, x)
          /\ \A x, y : Before(<<>>, x, y)
      BY EmptyFacts DEF TickNames
    <3>2. CASE closed
      BY <1>7, <2>1, <3>1, <3>2 DEF Due
    <3>3. CASE ~closed
      <4> DEFINE s == <<>>
      <4>1. /\ s \in Seq(TickNames) /\ "emitclose" \in TickNames /\ Range(s) = {}
            /\ \A x : Once(s, x)
            /\ \A x, y : Before(s, x, y)
        BY <3>1
      <4> HIDE DEF s
      <4>2. /\ Append(s, "emitclose") \in Seq(TickNames)
            /\ Range(Append(s, "emitclose")) = Range(s) \cup {"emitclose"}
            /\ \A x : Once(s, x) /\ (x = "emitclose" => x \notin Range(s)) => Once(Append(s, "emitclose"), x)
            /\ \A x, y : Before(s, x, y) /\ x # y /\ (x = "emitclose" => y \notin Range(s))
                           => Before(Append(s, "emitclose"), x, y)
        BY <4>1, TickDeferred
      <4>3. ticks' = Append(s, "emitclose")
        BY <1>7, <2>1, <3>3 DEF s
      <4> QED BY <3>3, <4>1, <4>2, <4>3 DEF Due
    <3> QED BY <3>2, <3>3
  <2>3. ~FetchDue'
    BY <2>2 DEF FetchDue, Due
  <2>4. TypeOK'
    BY <1>1, <1>2, <1>5, <1>7, <2>2 DEF TypeOK, streamVars
  <2>5. Flow' /\ Position'
    BY <1>1, <1>3, <2>3 DEF Flow, Backpressure, Position, streamVars
  <2>6. Closing'
    BY <1>1, <1>2, <1>3, <2>2, <2>3 DEF Closing, OneFetch
  <2>7. Ending'
    BY <1>1, <1>3, <1>7, <2>1, <2>2 DEF Ending, streamVars
  <2> QED BY <1>4, <2>4, <2>5, <2>6, <2>7
<1> QED BY <1>6, <1>7 DEF CloseReply

\* What the connection fails when it breaks are its requests in another order, or all but one.
LEMMA BreakFails ==
  ASSUME Core, Break
  PROVE  /\ requests' \in Seq({"fetch", "close", "lob"}) /\ lost' \in {"none", "fetch", "close", "lob"}
         /\ Range(requests') \subseteq Range(requests)
         /\ \A x : Once(requests, x) => Once(requests', x)
<1> DEFINE R == {"fetch", "close", "lob"}
<1>1. requests \in Seq(R) /\ lost \in {"none"} \cup R
  BY DEF Core, TypeOK
<1>2. CASE FinFails /\ requests # <<>>
  <2> DEFINE t == Tail(requests)
             h == Head(requests)
  <2>1. requests' = Append(t, h) /\ lost' = lost
    BY <1>2 DEF FinFails
  <2> HIDE DEF R
  <2>2. /\ t \in Seq(R) /\ h \in R /\ Range(requests) = Range(t) \cup {h}
        /\ \A x : Once(requests, x) => Once(t, x) /\ (h = x => x \notin Range(t))
    BY <1>1, <1>2, TailFacts
  <2> HIDE DEF t, h
  <2>3. /\ Append(t, h) \in Seq(R) /\ Range(Append(t, h)) = Range(t) \cup {h}
        /\ \A x : Once(t, x) /\ (x = h => x \notin Range(t)) => Once(Append(t, h), x)
    BY <2>2, AppendFacts
  <2>4. \A x : Once(requests, x) => Once(Append(t, h), x)
    BY <2>2, <2>3
  <2> QED BY <1>1, <2>1, <2>2, <2>3, <2>4 DEF R
<1>3. ASSUME NEW i \in DOMAIN requests, requests' = Without(i), lost' = requests[i]
      PROVE  /\ requests' \in Seq(R) /\ lost' \in R
             /\ Range(requests') \subseteq Range(requests)
             /\ \A x : Once(requests, x) => Once(requests', x)
  BY <1>1, <1>3, WithoutFacts
<1>4. CASE UNCHANGED <<requests, lost>>
  BY <1>1, <1>4
<1>5. \/ FinFails /\ requests # <<>>
      \/ UNCHANGED <<requests, lost>>
      \/ \E i \in DOMAIN requests : requests' = Without(i) /\ lost' = requests[i]
  BY DEF Break, FinFails, ResetLoses
<1> QED BY <1>2, <1>3, <1>4, <1>5

\* The connection breaks.
LEMMA BreakStep ==
  ASSUME Core, Break
  PROVE  Core'
<1> USE DEF Core
<1>1. /\ up' = FALSE /\ serverOpen' = FALSE
      /\ UNCHANGED <<rsVars, loopVars, cursor, autoClose, faults, streamVars, userVars>>
  BY DEF Break
<1>2. /\ requests' \in Seq({"fetch", "close", "lob"}) /\ lost' \in {"none", "fetch", "close", "lob"}
      /\ Range(requests') \subseteq Range(requests) /\ Once(requests', "fetch")
  BY BreakFails DEF TypeOK, Closing, OneFetch
<1>3. TypeOK'
  BY <1>1, <1>2 DEF TypeOK, rsVars, loopVars, streamVars, userVars
<1>4. Flow' /\ Position'
  BY <1>1, <1>2 DEF Flow, Backpressure, Position, Fetching, FetchDue, rsVars, loopVars, streamVars
<1>5. Closing'
  BY <1>1, <1>2 DEF Closing, OneFetch, Fetching, FetchDue, rsVars, loopVars
<1>6. Order'
  BY <1>1 DEF Order, Pushed, Handled, rsVars, loopVars, streamVars
<1>7. Ending'
  BY <1>1 DEF Ending, Due, rsVars, loopVars, streamVars, userVars
<1> QED BY <1>3, <1>4, <1>5, <1>6, <1>7

\* Nothing that the invariant speaks about has changed.
LEMMA UnchangedStep ==
  ASSUME Core, UNCHANGED vars
  PROVE  Core'
<1> USE DEF Core
<1>1. UNCHANGED <<rsVars, loopVars, serverVars, streamVars, userVars>>
  BY DEF vars
<1>2. TypeOK'
  BY <1>1 DEF TypeOK, rsVars, loopVars, serverVars, streamVars, userVars
<1>3. Flow' /\ Position' /\ Closing'
  BY <1>1 DEF Flow, Backpressure, Position, Closing, OneFetch, Fetching, FetchDue,
     rsVars, loopVars, serverVars, streamVars, userVars
<1>4. Order' /\ Ending'
  BY <1>1 DEF Order, Pushed, Handled, Ending, Due, rsVars, loopVars, serverVars, streamVars, userVars
<1> QED BY <1>2, <1>3, <1>4

LEMMA NextCore ==
  ASSUME ~Impatient
  PROVE  Core /\ [Next]_vars => Core'
<1> SUFFICES ASSUME Core, [Next]_vars PROVE Core'
  OBVIOUS
<1>1. CASE UserPause
  BY <1>1, UserPauseStep
<1>2. CASE UserResume
  BY <1>2, UserResumeStep
<1>3. CASE UserClose
  BY <1>3, UserCloseStep
<1>4. CASE ErrorListener
  BY <1>4, ErrorListenerStep
<1>5. CASE StreamReads
  BY <1>5, StreamReadsStep
<1>6. CASE Consume
  BY <1>6, ConsumeStep
<1>7. CASE HandlerReturns
  BY <1>7, HandlerReturnsStep
<1>8. CASE Tick
  BY <1>8, TickStep
<1>9. CASE FetchReply
  BY <1>9, FetchReplyStep
<1>10. CASE CloseReply
  BY <1>10, CloseReplyStep
<1>11. CASE Break
  BY <1>11, BreakStep
<1>12. CASE UNCHANGED vars
  BY <1>12, UnchangedStep
<1> QED BY <1>1, <1>2, <1>3, <1>4, <1>5, <1>6, <1>7, <1>8, <1>9, <1>10, <1>11, <1>12
        DEF Next, UserStep, StreamStep, HandlerStep

\* resume() does nothing to a result set that has finished.
LEMMA ResumeKeepsHandled ==
  ASSUME NEW inRead, Resume(inRead), finished, AllHandled, UNCHANGED <<data, cursor>>
  PROVE  AllHandled'
BY DEF Resume, MayResume, AllHandled

\* Once every packet has been handled and the result set has finished, no step undoes it.
LEMMA StaysHandled ==
  ASSUME Core, finished, AllHandled,
         HandlerStep \/ StreamStep \/ UserResume \/ UserPause \/ UserClose \/ ErrorListener \/ Break \/ UNCHANGED vars
  PROVE  AllHandled'
<1>1. CASE HandlerReturns
  BY <1>1 DEF HandlerReturns, AllHandled
<1>2. CASE Tick
  BY <1>2 DEF Tick, AllHandled
<1>3. CASE FetchReply
  <2>1. Fetching /\ cursor < Last
    <3>1. Fetching
      BY <1>3, RequestAnswered DEF FetchReply, Answering, Fetching, Core
    <3> QED BY <3>1 DEF Core, Closing, OneFetch
  <2> QED BY <2>1, PacketAssumption DEF AllHandled
<1>4. CASE CloseReply
  BY <1>4 DEF CloseReply, AllHandled
<1>5. CASE StreamReads \/ UserResume
  <2>1. CASE StreamReads
    BY <2>1, ResumeKeepsHandled DEF StreamReads
  <2>2. CASE UserResume
    BY <2>2, ResumeKeepsHandled DEF UserResume
  <2> QED BY <1>5, <2>1, <2>2
<1>6. CASE Consume
  BY <1>6 DEF Consume, AllHandled, rsVars, loopVars, serverVars
<1>7. CASE UserPause
  BY <1>7 DEF UserPause, AllHandled, loopVars, serverVars
<1>8. CASE UserClose
  BY <1>8 DEF UserClose, AllHandled, serverVars
<1>9. CASE ErrorListener
  BY <1>9 DEF ErrorListener, AllHandled, rsVars, serverVars
<1>10. CASE Break
  BY <1>10 DEF Break, AllHandled, rsVars, loopVars
<1>11. CASE UNCHANGED vars
  BY <1>11 DEF vars, AllHandled, rsVars, loopVars, serverVars
<1> QED BY <1>1, <1>2, <1>3, <1>4, <1>5, <1>6, <1>7, <1>8, <1>9, <1>10, <1>11 DEF HandlerStep, StreamStep

\* Only the last packet and close() finish a result set.
LEMMA FinishedByLast ==
  ASSUME Core, ~finished, finished', HandlerStep \/ StreamStep \/ UserResume \/ UserPause \/ ErrorListener \/ Break \/ UNCHANGED vars
  PROVE  HandlerReturns /\ AllHandled'
<1>1. HandlerReturns
  BY DEF HandlerStep, StreamStep, Tick, FetchReply, CloseReply, StreamReads, Consume, UserResume, UserPause,
     ErrorListener, Break, vars, rsVars
<1>2. Head(frames).packet = cursor /\ (Head(frames).stored <=> data # 0) /\ Tail(frames) = <<>>
  BY <1>1, OneFrame DEF HandlerReturns
<1>3. cursor = Last
  BY <1>1, <1>2 DEF HandlerReturns, IsLast
<1>4. frames' = <<>> /\ data' = 0 /\ cursor' = cursor
  BY <1>1, <1>2 DEF HandlerReturns, Stored, serverVars
<1> QED BY <1>1, <1>3, <1>4 DEF AllHandled

LEMMA NextIInv ==
  ASSUME ~Impatient
  PROVE  IInv /\ [Next]_vars => IInv'
<1> SUFFICES ASSUME IInv, [Next]_vars PROVE IInv'
  OBVIOUS
<1>1. Core'
  BY NextCore DEF IInv
<1>2. ASSUME finished', closes' = 0 PROVE AllHandled'
  <2>1. ~UserClose
    BY <1>2 DEF UserClose, IInv, Core, TypeOK
  <2>2. closes = 0
    <3>1. Next => UserClose \/ UNCHANGED closes
      BY DEF Next, UserStep, StreamStep, HandlerStep, UserPause, UserResume, ErrorListener, StreamReads, Consume,
         HandlerReturns, Tick, FetchReply, CloseReply, Break, userVars
    <3> QED BY <1>2, <2>1, <3>1 DEF vars, userVars
  <2>3. HandlerStep \/ StreamStep \/ UserResume \/ UserPause \/ ErrorListener \/ Break \/ UNCHANGED vars
    BY <2>1 DEF Next, UserStep
  <2>4. CASE finished
    BY <2>2, <2>3, <2>4, StaysHandled DEF IInv, EndsByItself
  <2>5. CASE ~finished
    BY <1>2, <2>3, <2>5, FinishedByLast DEF IInv
  <2> QED BY <2>4, <2>5
<1> QED BY <1>1, <1>2 DEF IInv, EndsByItself

\* A stream whose packets are those handled so far, in order, has no gap.
LEMMA OrderedRows == Core => RowsInOrder
<1> SUFFICES ASSUME Core PROVE RowsInOrder
  OBVIOUS
<1>1. Range(Pushed) = {k \in WithRows : k <= Handled}
      /\ \A i, j \in DOMAIN Pushed : i < j => Pushed[i] < Pushed[j]
  BY DEF Core, Order
<1>2. Handled \in Int /\ WithRows \subseteq Int
  BY PacketAssumption DEF Core, TypeOK, Handled, WithRows, Packets
<1>3. ASSUME NEW i \in DOMAIN Pushed, NEW k \in WithRows, k < Pushed[i]
      PROVE  k \in Range(Pushed)
  <2>1. Pushed[i] \in Range(Pushed)
    BY DEF Range
  <2>2. Pushed[i] \in WithRows /\ Pushed[i] <= Handled
    BY <1>1, <2>1
  <2>3. Pushed[i] \in Int /\ k \in Int /\ Handled \in Int
    BY <1>2, <2>2
  <2>4. k <= Handled
    BY <1>3, <2>2, <2>3
  <2> QED BY <1>1, <2>4
<1> QED BY <1>1, <1>3 DEF RowsInOrder

\* When every packet has been handled, the stream has got all that have rows.
LEMMA AllRows == Core /\ AllHandled => WithRows \subseteq Range(Pushed)
<1> SUFFICES ASSUME Core, AllHandled PROVE WithRows \subseteq Range(Pushed)
  OBVIOUS
<1>1. Range(Pushed) = {k \in WithRows : k <= Last}
  BY DEF Core, Order, Handled, AllHandled
<1>2. \A k \in WithRows : k <= Last
  BY PacketAssumption DEF WithRows, Packets
<1> QED BY <1>1, <1>2

LEMMA Inductive ==
  ASSUME ~Impatient
  PROVE  Spec => []IInv
<1>1. ~Impatient
  OBVIOUS
<1> QED BY <1>1, InitIInv, NextIInv, PTL DEF Spec

-----------------------------------------------------------------------------
(* Theorems *)

\* The type invariant.
THEOREM TypeCorrect == ASSUME ~Impatient PROVE Spec => []TypeOK
<1>1. IInv => TypeOK
  BY DEF IInv, Core
<1> QED BY <1>1, Inductive, PTL

\* ResultSet and its stream: for any number of packets, the rows reach the consumer in order, once
\* and without a gap, whatever is paused, resumed, closed or lost.
THEOREM InOrder == ASSUME ~Impatient PROVE Spec => []RowsInOrder
<1>1. IInv => RowsInOrder
  BY OrderedRows DEF IInv
<1> QED BY <1>1, Inductive, PTL

\* The 'data' listener of the stream: it pauses the result set in time.
THEOREM BoundedBuffer == ASSUME ~Impatient PROVE Spec => []Backpressure
<1>1. IInv => Backpressure
  BY DEF IInv, Core, Flow
<1> QED BY <1>1, Inductive, PTL

\* sendFetch and sendClose: one FETCH at a time, and none behind the CLOSE.
THEOREM OneFetchAtATime == ASSUME ~Impatient PROVE Spec => []OneFetch
<1>1. IInv => OneFetch
  BY DEF IInv, Core, Closing
<1> QED BY <1>1, Inductive, PTL

\* emitEnd and emitClose: the events come once, in this order, and 'end' not before the last row
\* unless user code has called close().
THEOREM EndsOnce == ASSUME ~Impatient PROVE Spec => []EndThenClose
<1>1. IInv => EndThenClose
  <2> SUFFICES ASSUME IInv PROVE EndThenClose
    OBVIOUS
  <2>1. ends <= 1 /\ closeEvents <= ends
    BY DEF IInv, Core, Ending
  <2>2. ASSUME ends > 0, closes = 0 PROVE WithRows \subseteq Range(Pushed)
    <3>1. AllHandled
      BY <2>2 DEF IInv, Core, Ending, EndsByItself
    <3> QED BY <3>1, AllRows DEF IInv
  <2> QED BY <2>1, <2>2 DEF EndThenClose
<1> QED BY <1>1, Inductive, PTL

-----------------------------------------------------------------------------
(* fetch(cb) *)

\* done() has been called at most once; then one thing is left that will call back, or has done.
Callback ==
  /\ listening \in BOOLEAN /\ result \in {"none", "ok", "error"} /\ (listening <=> result = "none")
  /\ answered \in {0, 1}
  /\ listening => answered = 0 /\ connected /\ "sendclose" \notin Due /\ "close" \notin Range(requests)
  /\ Once(ticks, "sendclose") /\ Once(requests, "close")
  /\ "sendclose" \in Due => answered = 0 /\ connected /\ "close" \notin Range(requests)
  /\ "close" \in Range(requests) => answered = 0

\* The server holds no result set that has ended with its attribute, that the client takes for
\* closed or whose connection has gone.
Released ==
  /\ ~up => ~serverOpen
  /\ cursor = Last /\ autoClose => ~serverOpen
  /\ closed \/ Due \cap {"endclose", "close"} # {} => ~serverOpen
  /\ answered = 1 => (serverOpen => "close" \in faults)

\* Without an error the result set finishes by its last packet, and succeeds when all is collected.
Collected ==
  /\ finished /\ result # "error" => AllHandled
  /\ result = "ok" => ended /\ buffer = <<>> /\ collecting = "idle" /\ collected = Len(delivered)

FetchInv == Core /\ Callback /\ Released /\ Collected

-----------------------------------------------------------------------------
(* The queue of events and the requests *)

\* An event of another kind is deferred.
LEMMA OtherDeferred ==
  ASSUME NEW s \in Seq(TickNames), NEW z \in TickNames, NEW x, x # z
  PROVE  (x \in Range(Append(s, z)) <=> x \in Range(s)) /\ (Once(s, x) => Once(Append(s, z), x))
BY TickDeferred

\* An event of another kind has been taken.
LEMMA OtherTaken ==
  ASSUME Core, ticks # <<>>, NEW x, Head(ticks) # x
  PROVE  (x \in Range(Tail(ticks)) <=> x \in Due) /\ (Once(ticks, x) => Once(Tail(ticks), x))
BY TickTaken DEF Core, Due

\* A request of another kind has been sent or answered.
LEMMA OtherRequest ==
  ASSUME Core,
         \/ \E r \in {"fetch", "lob"} : requests' = Append(requests, r)
         \/ requests # <<>> /\ Head(requests) # "close" /\ requests' = Tail(requests)
         \/ requests' = requests
  PROVE  /\ "close" \in Range(requests') <=> "close" \in Range(requests)
         /\ Once(requests, "close") => Once(requests', "close")
<1> DEFINE R == {"fetch", "close", "lob"}
<1>1. requests \in Seq(R)
  BY DEF Core, TypeOK
<1>2. ASSUME NEW r \in {"fetch", "lob"}, requests' = Append(requests, r)
      PROVE  /\ "close" \in Range(requests') <=> "close" \in Range(requests)
             /\ Once(requests, "close") => Once(requests', "close")
  <2>1. r \in R /\ r # "close"
    BY <1>2
  <2> HIDE DEF R
  <2> QED BY <1>1, <1>2, <2>1, AppendFacts
<1>3. CASE requests # <<>> /\ Head(requests) # "close" /\ requests' = Tail(requests)
  <2> HIDE DEF R
  <2> QED BY <1>1, <1>3, TailFacts
<1> QED BY <1>2, <1>3

-----------------------------------------------------------------------------
(* What the collector adds to the steps of the result set *)

\* A request of the collector, its answer, or an event of the collector: nothing that the stream
\* depends on.
LEMMA OtherwiseSame ==
  ASSUME Core,
         \/ requests' = Append(requests, "lob")
         \/ requests # <<>> /\ Head(requests) = "lob" /\ requests' = Tail(requests)
         \/ requests' = requests,
         \/ ticks' = Append(ticks, "collector")
         \/ ticks # <<>> /\ Head(ticks) = "collector" /\ ticks' = Tail(ticks)
         \/ ticks' = ticks,
         event' \in {"none", "error"}, answered' \in Nat,
         UNCHANGED <<rsVars, frames, up, cursor, serverOpen, autoClose, lost, streamVars, pauses, closes, ends, closeEvents>>
  PROVE  Core'
<1> USE DEF Core
<1> DEFINE R == {"fetch", "close", "lob"}
<1>1. /\ requests' \in Seq(R) /\ (Fetching' <=> Fetching) /\ ("close" \in Range(requests') <=> "close" \in Range(requests))
      /\ Once(requests', "fetch") /\ (Before(requests, "fetch", "close") => Before(requests', "fetch", "close"))
  <2>1. requests \in Seq(R) /\ "lob" \in R /\ Once(requests, "fetch")
    BY DEF TypeOK, Closing, OneFetch
  <2>2. CASE requests' = Append(requests, "lob")
    <3> HIDE DEF R
    <3> QED BY <2>1, <2>2, AppendFacts DEF Fetching
  <2>3. CASE requests # <<>> /\ Head(requests) = "lob" /\ requests' = Tail(requests)
    <3> HIDE DEF R
    <3> QED BY <2>1, <2>3, TailFacts DEF Fetching
  <2>4. CASE requests' = requests
    BY <2>1, <2>4 DEF Fetching
  <2> QED BY <2>2, <2>3, <2>4
<1>2. /\ ticks' \in Seq(TickNames)
      /\ \A x : x # "collector" => (x \in Due' <=> x \in Due) /\ (Once(ticks, x) => Once(ticks', x))
      /\ \A x, y : x # "collector" /\ x # y /\ Before(ticks, x, y) => Before(ticks', x, y)
  <2>1. ticks \in Seq(TickNames) /\ "collector" \in TickNames
    BY DEF TypeOK, TickNames
  <2>2. CASE ticks' = Append(ticks, "collector")
    BY <2>1, <2>2, TickDeferred DEF Due
  <2>3. CASE ticks # <<>> /\ Head(ticks) = "collector" /\ ticks' = Tail(ticks)
    BY <2>1, <2>3, TickTaken DEF Due
  <2>4. CASE ticks' = ticks
    BY <2>1, <2>4 DEF Due
  <2> QED BY <2>2, <2>3, <2>4
<1>3. FetchDue' <=> FetchDue
  BY <1>2 DEF FetchDue, Due
<1>4. TypeOK'
  BY <1>1, <1>2 DEF TypeOK, rsVars, streamVars
<1>5. Flow' /\ Position'
  BY <1>1, <1>3 DEF Flow, Backpressure, Position, rsVars, streamVars
<1>6. Closing'
  <2>1. Once(ticks', "fetch") /\ Before(ticks', "fetch", "sendclose")
    BY <1>2 DEF Closing, OneFetch
  <2> QED BY <1>1, <1>3, <2>1 DEF Closing, OneFetch, rsVars
<1>7. Order'
  BY DEF Order, Pushed, Handled, rsVars, streamVars
<1>8. Ending'
  <2>1. \A x \in {"end", "endclose", "close", "sendclose", "emitclose"} : x \in Due' <=> x \in Due
    BY <1>2
  <2>2. Once(ticks', "end") /\ Once(ticks', "endclose") /\ Once(ticks', "emitclose")
    BY <1>2 DEF Ending
  <2>3. Before(ticks', "end", "close") /\ Before(ticks', "endclose", "close")
    BY <1>2 DEF Ending
  <2> QED BY <2>1, <2>2, <2>3 DEF Ending, rsVars, streamVars
<1> QED BY <1>4, <1>5, <1>6, <1>7, <1>8

\* close() in done(): the queue of events may have lost the one that called it.
LEMMA ClosesInDone ==
  ASSUME Core, NEW t \in Seq(TickNames),
         \/ t = ticks
         \/ ticks # <<>> /\ Head(ticks) = "collector" /\ t = Tail(ticks),
         IF closed
         THEN UNCHANGED <<running, finished>> /\ ticks' = t
         ELSE /\ finished' = TRUE /\ running' = (IF finished THEN running ELSE "no")
              /\ ticks' = t \o CloseTicks,
         answered' \in Nat, event' \in {"none", "error"},
         UNCHANGED <<closed, data, connected, frames, requests, up, cursor, serverOpen, autoClose, lost,
                     streamVars, pauses, closes, ends, closeEvents>>
  PROVE  Core'
<1>1. pauses' \in Nat /\ closes' \in Nat
  BY DEF Core, TypeOK
<1>2. CASE ~closed
  BY <1>1, <1>2, ClosesStep, Zenon
<1>3. CASE closed
  BY <1>3, OtherwiseSame DEF rsVars
<1> QED BY <1>2, <1>3

\* What done() does to the result set.
LEMMA DoneCloses ==
  ASSUME Core, NEW r, Done(r), event' \in {"none", "error"},
         UNCHANGED <<closed, data, connected, frames, serverVars, streamVars, pauses, closes, ends, closeEvents>>
  PROVE  Core'
<1>1. ticks \in Seq(TickNames) /\ answered \in Nat
  BY DEF Core, TypeOK
<1>2. answered' \in Nat
  <2>1. answered' \in {answered, answered + 1}
    BY DEF Done, Close
  <2> QED BY <1>1, <2>1
<1>3. IF closed THEN UNCHANGED <<running, finished>> /\ ticks' = ticks
      ELSE /\ finished' = TRUE /\ running' = (IF finished THEN running ELSE "no")
           /\ ticks' = ticks \o CloseTicks
  BY DEF Done, Close
<1>4. UNCHANGED <<closed, data, connected, frames, requests, up, cursor, serverOpen, autoClose, lost,
                  streamVars, pauses, closes, ends, closeEvents>>
  BY DEF serverVars
<1> QED BY <1>1, <1>2, <1>3, <1>4, ClosesInDone, Zenon

LEMMA StreamErrorCore == Core /\ StreamError => Core'
<1> SUFFICES ASSUME Core, StreamError PROVE Core'
  OBVIOUS
<1>1. event' = "none"
      /\ UNCHANGED <<closed, data, connected, frames, serverVars, streamVars, pauses, closes, ends, closeEvents>>
  BY DEF StreamError
<1>2. CASE listening
  <2>1. Done("error")
    BY <1>2 DEF StreamError, FailWith
  <2> QED BY <1>1, <2>1, DoneCloses
<1>3. CASE ~listening
  <2>1. UNCHANGED <<ticks, running, finished, answered>>
    BY <1>3 DEF StreamError, FailWith
  <2>2. answered \in Nat
    BY DEF Core, TypeOK
  <2> QED BY <1>1, <2>1, <2>2, OtherwiseSame DEF rsVars, serverVars
<1> QED BY <1>2, <1>3

LEMMA FinishCore == Core /\ Finish => Core'
<1> SUFFICES ASSUME Core, Finish PROVE Core'
  OBVIOUS
<1>1. /\ Done("ok") /\ event' = event
      /\ UNCHANGED <<closed, data, connected, frames, serverVars, streamVars, pauses, closes, ends, closeEvents>>
  BY DEF Finish
<1>2. event' \in {"none", "error"}
  BY <1>1 DEF Core, TypeOK
<1> QED BY <1>1, <1>2, DoneCloses

LEMMA CollectorErrorCore == Core /\ CollectorError => Core'
<1> SUFFICES ASSUME Core, CollectorError PROVE Core'
  OBVIOUS
<1>1. /\ ticks # <<>> /\ Head(ticks) = "collector" /\ event' = event
      /\ UNCHANGED <<closed, data, connected, frames, requests, up, cursor, serverOpen, autoClose, lost,
                     streamVars, pauses, closes, ends, closeEvents>>
  BY DEF CollectorError, serverVars
<1>2. event' \in {"none", "error"} /\ answered \in Nat /\ Tail(ticks) \in Seq(TickNames)
  BY <1>1, TickTaken DEF Core, TypeOK
<1>3. CASE ~listening
  <2>1. ticks' = Tail(ticks) /\ UNCHANGED <<running, finished, answered>>
    BY <1>3 DEF CollectorError
  <2> QED BY <1>1, <1>2, <2>1, OtherwiseSame DEF rsVars
<1>4. CASE listening
  <2>1. /\ finished' = TRUE /\ running' = (IF finished THEN running ELSE "no")
        /\ ticks' = Tail(ticks) \o (IF closed THEN <<>> ELSE CloseTicks)
        /\ answered' \in {answered, answered + 1}
    BY <1>4 DEF CollectorError
  <2>2. answered' \in Nat
    BY <1>2, <2>1
  <2>3. closed => finished
    BY DEF Core, Ending
  <2>4. IF closed THEN UNCHANGED <<running, finished>> /\ ticks' = Tail(ticks)
        ELSE /\ finished' = TRUE /\ running' = (IF finished THEN running ELSE "no")
             /\ ticks' = Tail(ticks) \o CloseTicks
    <3>1. CASE closed
      <4>1. Tail(ticks) \o <<>> = Tail(ticks)
        BY <1>2, ConcatEmptySeq
      <4> QED BY <3>1, <4>1, <2>1, <2>3
    <3>2. CASE ~closed
      BY <3>2, <2>1
    <3> QED BY <3>1, <3>2
  <2> QED BY <1>1, <1>2, <2>2, <2>4, ClosesInDone, Zenon
<1> QED BY <1>3, <1>4

\* The collector reads a LOB, or gets it.
LEMMA LobCore == Core /\ (ReadLob \/ LobReply) => Core'
<1> SUFFICES ASSUME Core, ReadLob \/ LobReply PROVE Core'
  OBVIOUS
<1>1. /\ event' = event
      /\ UNCHANGED <<rsVars, frames, up, cursor, serverOpen, autoClose, lost, streamVars, userVars>>
  BY DEF ReadLob, LobReply
<1>2. \/ requests' = Append(requests, "lob")
      \/ requests # <<>> /\ Head(requests) = "lob" /\ requests' = Tail(requests)
      \/ requests' = requests
  BY DEF ReadLob, LobReply, Answering
<1>3. ticks' = Append(ticks, "collector") \/ ticks' = ticks
  BY DEF ReadLob, LobReply
<1>4. event' \in {"none", "error"} /\ answered \in Nat /\ answered' = answered
  BY <1>1 DEF Core, TypeOK, userVars
<1> QED BY <1>1, <1>2, <1>3, <1>4, OtherwiseSame DEF userVars

\* Each step of fetch() keeps what is known of the stream.
LEMMA FetchCore == Core /\ [FetchNext]_allVars => Core'
<1> SUFFICES ASSUME Core, [FetchNext]_allVars PROVE Core'
  OBVIOUS
<1>1. CASE StreamError \/ CollectorError \/ Finish \/ ReadLob \/ LobReply
  BY <1>1, StreamErrorCore, CollectorErrorCore, FinishCore, LobCore
<1>2. CASE Parse
  BY <1>2, ConsumeStep DEF Parse
<1>3. CASE Collect \/ UNCHANGED allVars
  BY <1>3, UnchangedStep DEF Collect, allVars
<1>4. CASE PipeReads
  BY <1>4, StreamReadsStep DEF PipeReads
<1>5. CASE HandlerStep
  BY <1>5, HandlerReturnsStep, TickStep, FetchReplyStep, CloseReplyStep DEF HandlerStep
<1>6. CASE Break
  BY <1>6, BreakStep
<1> QED BY <1>1, <1>2, <1>3, <1>4, <1>5, <1>6 DEF FetchNext, CollectorStep

-----------------------------------------------------------------------------
(* The end of the rows *)

\* What has finished by the last packet stays so; and without an error nothing else finishes it.
LEMMA HandledStep ==
  ASSUME FetchInv, FetchNext, finished', result' # "error"
  PROVE  AllHandled'
<1> USE DEF FetchInv, Collected
<1>1. CASE (HandlerStep \/ StreamStep \/ Break) /\ UNCHANGED result
  <2>1. CASE finished
    BY <1>1, <2>1, StaysHandled
  <2>2. CASE ~finished
    BY <1>1, <2>2, FinishedByLast
  <2> QED BY <2>1, <2>2
<1>2. CASE StreamError \/ CollectorError \/ Collect \/ ReadLob \/ LobReply \/ Finish
  <2>1. UNCHANGED <<frames, data, cursor>>
    BY <1>2 DEF StreamError, CollectorError, Collect, ReadLob, LobReply, Finish, serverVars, rsVars, vars, loopVars
  <2>2. finished /\ result # "error"
    <3>1. CASE StreamError
      BY <3>1 DEF StreamError, FailWith, Done
    <3>2. CASE CollectorError
      BY <3>2 DEF CollectorError
    <3>3. CASE Collect \/ ReadLob \/ LobReply
      BY <3>3 DEF Collect, ReadLob, LobReply, vars, rsVars
    <3>4. CASE Finish
      <4>1. result # "error"
        BY <3>4 DEF Finish, Callback
      <4>2. finished
        BY <3>4 DEF Finish, Finishes, Core, Ending
      <4> QED BY <4>1, <4>2
    <3> QED BY <1>2, <3>1, <3>2, <3>3, <3>4
  <2> QED BY <2>1, <2>2 DEF AllHandled
<1>3. Parse => StreamStep /\ UNCHANGED result
  BY DEF Parse, StreamStep, fetchVars
<1>4. PipeReads => StreamStep
  BY DEF PipeReads, StreamStep
<1>5. UNCHANGED fetchVars => UNCHANGED result
  BY DEF fetchVars
<1> QED BY <1>1, <1>2, <1>3, <1>4, <1>5 DEF FetchNext, CollectorStep

\* Nothing comes into the stream of a result set that has finished.
LEMMA NoMorePushed ==
  ASSUME Core, finished, ended, buffer = <<>>, HandlerStep \/ StreamStep \/ Break
  PROVE  ended' /\ buffer' = <<>> /\ delivered' = delivered
<1>1. running = "no"
  BY DEF Core, Flow
<1>2. CASE HandlerReturns
  BY <1>2 DEF HandlerReturns, streamVars
<1>3. CASE Tick
  BY <1>3 DEF Tick
<1>4. CASE FetchReply
  BY <1>1, <1>4 DEF FetchReply
<1>5. CASE CloseReply
  BY <1>5 DEF CloseReply, streamVars
<1>6. CASE Break
  BY <1>6 DEF Break, streamVars
<1>7. ~StreamStep
  BY DEF StreamStep, StreamReads, Consume
<1> QED BY <1>2, <1>3, <1>4, <1>5, <1>6, <1>7 DEF HandlerStep

\* A fetch that has succeeded has nothing left to collect.
LEMMA CollectedStep ==
  ASSUME FetchInv, FetchNext, result' = "ok"
  PROVE  ended' /\ buffer' = <<>> /\ collecting' = "idle" /\ collected' = Len(delivered')
<1> USE DEF FetchInv, Collected
<1>1. CASE Finish
  BY <1>1 DEF Finish, Finishes, streamVars
<1>2. CASE ~Finish
  <2>1. result = "ok"
    BY <1>2 DEF FetchNext, CollectorStep, StreamError, FailWith, Done, CollectorError, Parse, Collect, ReadLob, LobReply,
       fetchVars
  <2>2. finished /\ ended /\ buffer = <<>> /\ collecting = "idle" /\ collected = Len(delivered) /\ ~listening
        /\ Len(delivered) \in Nat
    BY <2>1 DEF Callback, Core, Ending, TypeOK
  <2>3. ~(Parse \/ Collect \/ ReadLob \/ LobReply)
    BY <2>2 DEF Parse, Consume, Collect, ReadLob, LobReply
  <2>4. CASE StreamError \/ CollectorError
    BY <2>2, <2>4 DEF StreamError, FailWith, CollectorError, streamVars
  <2>5. CASE (PipeReads \/ HandlerStep \/ Break) /\ UNCHANGED fetchVars
    BY <2>2, <2>5, NoMorePushed DEF PipeReads, StreamStep, fetchVars
  <2> QED BY <1>2, <2>3, <2>4, <2>5 DEF FetchNext, CollectorStep
<1> QED BY <1>1, <1>2

-----------------------------------------------------------------------------
(* What the server holds *)

\* The server opens nothing again, and what may fail stays the same.
LEMMA ServerCloses ==
  ASSUME Core, FetchNext
  PROVE  (serverOpen' => serverOpen) /\ faults' = faults
<1>1. serverOpen \in BOOLEAN
  BY DEF Core, TypeOK
<1>2. CASE StreamError \/ CollectorError \/ Parse \/ Collect \/ ReadLob \/ LobReply \/ Finish
  <2>1. UNCHANGED <<serverOpen, faults, lost>>
    BY <1>2 DEF StreamError, CollectorError, Parse, Consume, Collect, ReadLob, LobReply, Finish, serverVars, vars
  <2> QED BY <1>1, <2>1
<1>3. CASE HandlerStep \/ Break
  <2>1. serverOpen' = serverOpen \/ serverOpen' = FALSE \/ serverOpen = TRUE
    BY <1>1, <1>3 DEF HandlerStep, HandlerReturns, Tick, FetchReply, CloseReply, Break, serverVars
  <2>2. faults' = faults
    BY <1>3 DEF HandlerStep, HandlerReturns, Tick, FetchReply, CloseReply, Break, serverVars
  <2> QED BY <1>1, <2>1, <2>2
<1>4. CASE PipeReads
  <2>1. UNCHANGED <<serverOpen, faults, lost>>
    BY <1>4 DEF PipeReads, StreamReads
  <2> QED BY <1>1, <2>1
<1> QED BY <1>2, <1>3, <1>4 DEF FetchNext, CollectorStep

\* Which events the steps of the result set defer, other than those of close().
LEMMA HandlerReturnsDefers ==
  ASSUME Core, HandlerReturns
  PROVE  \/ ticks' = ticks
         \/ \E z \in {"fetch", "end", "endclose", "close"} :
              ticks' = Append(ticks, z) /\ (z \in {"endclose", "close"} => autoClose /\ cursor = Last)
<1>1. Head(frames).packet = cursor /\ autoClose \in BOOLEAN
  BY OneFrame DEF HandlerReturns, Core, TypeOK
<1>2. CASE cursor = Last
  <2>1. /\ ~finished => ticks' = Append(ticks, IF autoClose THEN "endclose" ELSE "end")
        /\ finished => ticks' = IF autoClose THEN Append(ticks, "close") ELSE ticks
    BY <1>1, <1>2, EndTicksFacts DEF HandlerReturns, IsLast, EmitEnd, Core
  <2>2. CASE autoClose
    BY <1>2, <2>1, <2>2
  <2>3. CASE ~autoClose
    BY <1>2, <2>1, <2>3
  <2> QED BY <1>1, <2>2, <2>3
<1>3. CASE cursor # Last
  BY <1>1, <1>3 DEF HandlerReturns, IsLast
<1> QED BY <1>2, <1>3

LEMMA TickDefers ==
  ASSUME Core, Tick
  PROVE  ticks # <<>> /\ (ticks' = Tail(ticks) \/ ticks' = Append(Tail(ticks), "emitclose"))
BY DEF Tick, EmitClose

\* What done() defers: nothing when the result set is closed.
LEMMA DoneDefers ==
  ASSUME Core, listening, StreamError \/ CollectorError \/ Finish
  PROVE  /\ listening' = FALSE /\ result' \in {"ok", "error"}
         /\ UNCHANGED <<closed, connected, requests, up, cursor, serverOpen, autoClose, faults, lost>>
         /\ closed => answered' = answered + 1 /\ Due' \subseteq Due
         /\ ~closed => /\ answered' = answered /\ Due' \subseteq Due \cup {"end", "sendclose"}
                       /\ "sendclose" \notin Due => Once(ticks', "sendclose")
<1>1. CASE StreamError \/ Finish
  <2>1. \E r \in {"ok", "error"} : Done(r)
    BY <1>1 DEF StreamError, FailWith, Finish
  <2>2. UNCHANGED <<closed, connected, requests, up, cursor, serverOpen, autoClose, faults, lost>>
    BY <1>1 DEF StreamError, Finish, serverVars
  <2>3. ticks \in Seq(TickNames)
    BY DEF Core, TypeOK
  <2>4. CASE closed
    BY <2>1, <2>2, <2>4 DEF Done, Close, Due
  <2>5. CASE ~closed
    <3>1. ticks' = ticks \o CloseTicks /\ answered' = answered
      BY <2>1, <2>5 DEF Done, Close
    <3>2. /\ Due' \subseteq Due \cup {"end", "sendclose"}
          /\ "sendclose" \notin Due => Once(ticks', "sendclose")
      BY <2>3, <3>1, CloseTicksFacts DEF Due
    <3> QED BY <2>1, <2>2, <2>5, <3>1, <3>2 DEF Done
  <2> QED BY <2>4, <2>5
<1>2. CASE CollectorError
  <2>1. /\ listening' = FALSE /\ result' = "error"
        /\ ticks' = Tail(ticks) \o (IF closed THEN <<>> ELSE CloseTicks)
        /\ answered' = (IF closed THEN answered + 1 ELSE answered)
        /\ UNCHANGED <<closed, connected, requests, up, cursor, serverOpen, autoClose, faults, lost>>
    BY <1>2 DEF CollectorError, serverVars
  <2>2. Tail(ticks) \in Seq(TickNames) /\ Range(Tail(ticks)) \subseteq Due
    BY <1>2, TickTaken DEF CollectorError, Core, Due
  <2>3. CASE closed
    <3>1. ticks' = Tail(ticks)
      BY <2>1, <2>2, <2>3, ConcatEmptySeq
    <3> QED BY <2>1, <2>2, <2>3, <3>1 DEF Due
  <2>4. CASE ~closed
    <3>1. ticks' = Tail(ticks) \o CloseTicks
      BY <2>1, <2>4
    <3>2. /\ Due' \subseteq Range(Tail(ticks)) \cup {"end", "sendclose"}
          /\ "sendclose" \notin Range(Tail(ticks)) => Once(ticks', "sendclose")
      BY <2>2, <3>1, CloseTicksFacts DEF Due
    <3> QED BY <2>1, <2>2, <2>4, <3>2
  <2> QED BY <2>3, <2>4
<1> QED BY <1>1, <1>2

\* The steps that neither close nor call back.
QuietStep ==
  \/ (PipeReads \/ HandlerReturns \/ FetchReply \/ Break) /\ UNCHANGED fetchVars
  \/ Tick /\ Head(ticks) # "sendclose" /\ UNCHANGED fetchVars
  \/ Parse \/ Collect \/ ReadLob \/ LobReply
  \/ ~listening /\ (StreamError \/ CollectorError)

\* They defer and send other things than CLOSE.
LEMMA QuietSteps ==
  ASSUME Core, QuietStep
  PROVE  /\ UNCHANGED <<answered, connected, listening, result>>
         /\ "sendclose" \in Due' <=> "sendclose" \in Due
         /\ Once(ticks, "sendclose") => Once(ticks', "sendclose")
         /\ "close" \in Range(requests') => "close" \in Range(requests)
         /\ Once(requests, "close") => Once(requests', "close")
<1>1. UNCHANGED <<answered, connected, listening, result>>
  BY DEF QuietStep, PipeReads, StreamReads, HandlerReturns, FetchReply, Break, Tick, Parse, Consume, Collect, ReadLob,
     LobReply, StreamError, FailWith, CollectorError, fetchVars, vars, rsVars, userVars
<1>2. \/ ticks' = ticks
      \/ \E z \in TickNames \ {"sendclose"} : ticks' = Append(ticks, z)
      \/ /\ ticks # <<>> /\ Head(ticks) # "sendclose"
         /\ ticks' = Tail(ticks) \/ ticks' = Append(Tail(ticks), "emitclose")
  <2>1. CASE HandlerReturns
    BY <2>1, HandlerReturnsDefers DEF TickNames
  <2>2. CASE Tick /\ Head(ticks) # "sendclose"
    BY <2>2, TickDefers
  <2>3. CASE ReadLob \/ LobReply
    BY <2>3 DEF ReadLob, LobReply, TickNames
  <2>4. CASE ~listening /\ (StreamError \/ CollectorError)
    BY <2>4 DEF StreamError, FailWith, CollectorError
  <2>5. CASE PipeReads \/ FetchReply \/ Break \/ Parse \/ Collect
    BY <2>5 DEF PipeReads, StreamReads, FetchReply, Break, Parse, Consume, Collect, vars, loopVars
  <2> QED BY <2>1, <2>2, <2>3, <2>4, <2>5 DEF QuietStep
<1>3. /\ "sendclose" \in Due' <=> "sendclose" \in Due
      /\ Once(ticks, "sendclose") => Once(ticks', "sendclose")
  <2>1. ticks \in Seq(TickNames) /\ "emitclose" \in TickNames
    BY DEF Core, TypeOK, TickNames
  <2>2. CASE \E z \in TickNames \ {"sendclose"} : ticks' = Append(ticks, z)
    BY <2>1, <2>2, OtherDeferred DEF Due
  <2>3. CASE ticks # <<>> /\ Head(ticks) # "sendclose"
             /\ (ticks' = Tail(ticks) \/ ticks' = Append(Tail(ticks), "emitclose"))
    <3> DEFINE t == Tail(ticks)
    <3>1. t \in Seq(TickNames)
      BY <2>1, <2>3, TickTaken DEF Core
    <3>2. ("sendclose" \in Range(t) <=> "sendclose" \in Due) /\ (Once(ticks, "sendclose") => Once(t, "sendclose"))
      BY <2>3, OtherTaken
    <3>3. ticks' = t \/ ticks' = Append(t, "emitclose")
      BY <2>3
    <3> HIDE DEF t
    <3>4. /\ "sendclose" \in Range(Append(t, "emitclose")) <=> "sendclose" \in Range(t)
          /\ Once(t, "sendclose") => Once(Append(t, "emitclose"), "sendclose")
      BY <2>1, <3>1, OtherDeferred
    <3> QED BY <3>2, <3>3, <3>4 DEF Due
  <2> QED BY <1>2, <2>2, <2>3 DEF Due
<1>4. \/ \E r \in {"fetch", "lob"} : requests' = Append(requests, r)
      \/ requests # <<>> /\ Head(requests) # "close" /\ requests' = Tail(requests)
      \/ requests' = requests
      \/ Break
  BY DEF QuietStep, PipeReads, StreamReads, Resume, SendFetch, HandlerReturns, FetchReply, Answering, Tick, Parse, Consume,
     Collect, ReadLob, LobReply, StreamError, CollectorError, vars, serverVars
<1>5. /\ "close" \in Range(requests') => "close" \in Range(requests)
      /\ Once(requests, "close") => Once(requests', "close")
  <2>1. CASE Break
    BY <2>1, BreakFails
  <2> QED BY <1>4, <2>1, OtherRequest
<1> QED BY <1>1, <1>3, <1>5

-----------------------------------------------------------------------------
(* The callback *)

LEMMA CallbackStep ==
  ASSUME FetchInv, FetchNext
  PROVE  Callback'
<1> USE DEF FetchInv
<1>1. CASE QuietStep
  BY <1>1, QuietSteps DEF Callback
<1>2. CASE listening /\ (StreamError \/ CollectorError \/ Finish)
  <2>1. answered = 0 /\ connected /\ "sendclose" \notin Due /\ "close" \notin Range(requests) /\ Once(requests, "close")
    BY <1>2 DEF Callback
  <2>2. listening' = FALSE /\ result' \in {"ok", "error"} /\ connected' = connected /\ requests' = requests
    BY <1>2, DoneDefers
  <2>3. CASE closed
    <3>1. answered' = 1 /\ "sendclose" \notin Due'
      <4>1. answered' = answered + 1 /\ Due' \subseteq Due
        BY <1>2, <2>3, DoneDefers
      <4> QED BY <2>1, <4>1
    <3>2. Once(ticks', "sendclose")
      BY <3>1 DEF Once, Due, Range
    <3> QED BY <2>1, <2>2, <3>1, <3>2 DEF Callback
  <2>4. CASE ~closed
    <3>1. answered' = 0 /\ Once(ticks', "sendclose")
      BY <1>2, <2>1, <2>4, DoneDefers
    <3> QED BY <2>1, <2>2, <3>1 DEF Callback
  <2> QED BY <2>3, <2>4
<1>3. CASE Tick /\ Head(ticks) = "sendclose" /\ UNCHANGED fetchVars
  <2>1. ticks # <<>> /\ ticks' = Tail(ticks) /\ SendClose /\ UNCHANGED <<listening, result>>
    BY <1>3 DEF Tick, fetchVars
  <2>2. "sendclose" \in Due /\ "sendclose" \notin Due' /\ Once(ticks', "sendclose")
    BY <2>1, <1>3, TickTaken DEF Core, Callback, Due
  <2>3. ~listening /\ answered = 0 /\ connected /\ "close" \notin Range(requests)
    BY <2>2 DEF Callback
  <2>4. CASE up
    <3>1. requests' = Append(requests, "close") /\ UNCHANGED <<connected, answered>>
      BY <2>1, <2>3, <2>4 DEF SendClose
    <3>2. Once(requests', "close")
      <4> DEFINE R == {"fetch", "close", "lob"}
      <4>1. requests \in Seq(R) /\ "close" \in R /\ Once(requests, "close")
        BY DEF Core, TypeOK, Callback
      <4> HIDE DEF R
      <4> QED BY <2>3, <3>1, <4>1, AppendFacts
    <3> QED BY <2>1, <2>2, <2>3, <3>1, <3>2 DEF Callback
  <2>5. CASE ~up
    <3>1. answered' = 1 /\ requests' = requests
      BY <2>1, <2>3, <2>5 DEF SendClose
    <3> QED BY <2>1, <2>2, <2>3, <3>1 DEF Callback
  <2> QED BY <2>4, <2>5
<1>4. CASE CloseReply /\ UNCHANGED fetchVars
  <2>1. /\ requests # <<>> /\ Head(requests) = "close" /\ requests' = Tail(requests)
        /\ answered' = answered + 1 /\ UNCHANGED <<listening, result>>
        /\ ticks' = ticks \/ ticks' = Append(ticks, "emitclose")
    BY <1>4 DEF CloseReply, Answering, fetchVars
  <2>2. "close" \in Range(requests) /\ "close" \notin Range(requests') /\ Once(requests', "close")
    <3> DEFINE R == {"fetch", "close", "lob"}
    <3>1. requests \in Seq(R) /\ Once(requests, "close")
      BY DEF Core, TypeOK, Callback
    <3> HIDE DEF R
    <3> QED BY <2>1, <3>1, TailFacts
  <2>3. ~listening /\ answered = 0 /\ "sendclose" \notin Due /\ Once(ticks, "sendclose")
    BY <2>2 DEF Callback
  <2>4. "sendclose" \notin Due' /\ Once(ticks', "sendclose")
    <3>1. ticks \in Seq(TickNames) /\ "emitclose" \in TickNames
      BY DEF Core, TypeOK, TickNames
    <3> QED BY <2>1, <2>3, <3>1, OtherDeferred DEF Due
  <2> QED BY <2>1, <2>2, <2>3, <2>4 DEF Callback
<1> QED
  <2>1. Finish => listening
    BY DEF Finish
  <2> QED BY <1>1, <1>2, <1>3, <1>4, <2>1 DEF FetchNext, CollectorStep, HandlerStep, QuietStep

-----------------------------------------------------------------------------
(* What the server holds when the client calls back *)

\* The connection breaks once, and the last packet is handed out once.
LEMMA ServerStep ==
  ASSUME Core, Released, FetchNext
  PROVE  /\ ~up' => ~serverOpen'
         /\ cursor' = Last /\ autoClose' => ~serverOpen'
<1>1. CASE FetchReply
  <2>1. UNCHANGED <<up, autoClose>> /\ (UNCHANGED <<cursor, serverOpen>> \/ serverOpen' = ~(cursor' = Last /\ autoClose))
    BY <1>1 DEF FetchReply
  <2>2. serverOpen' => serverOpen
    BY ServerCloses
  <2> QED BY <2>1, <2>2 DEF Released
<1>2. CASE Break
  BY <1>2 DEF Break
<1>3. CASE ~FetchReply /\ ~Break
  <2>1. UNCHANGED <<up, cursor, autoClose>>
    BY <1>3 DEF FetchNext, CollectorStep, StreamError, CollectorError, Parse, Consume, Collect, ReadLob, LobReply, Finish,
       PipeReads, StreamReads, HandlerStep, HandlerReturns, Tick, CloseReply, serverVars, vars
  <2>2. serverOpen' => serverOpen
    BY ServerCloses
  <2> QED BY <2>1, <2>2 DEF Released
<1> QED BY <1>1, <1>2, <1>3

\* The client takes the result set for closed only when the server does not hold it.
LEMMA ClosedStep ==
  ASSUME Core, Released, FetchNext, closed' \/ Due' \cap {"endclose", "close"} # {}
  PROVE  ~serverOpen'
<1> DEFINE C == {"endclose", "close"}
<1>1. serverOpen' => serverOpen
  BY ServerCloses
<1>2. ticks \in Seq(TickNames) /\ "emitclose" \in TickNames /\ "collector" \in TickNames /\ closed \in BOOLEAN
  BY DEF Core, TypeOK, TickNames
<1>3. CASE HandlerReturns
  <2>1. closed' = closed /\ serverOpen' = serverOpen
    BY <1>3 DEF HandlerReturns, serverVars
  <2>2. CASE ticks' = ticks
    BY <2>1, <2>2 DEF Released, Due
  <2>3. ASSUME NEW z \in {"fetch", "end", "endclose", "close"}, ticks' = Append(ticks, z),
               z \in C => autoClose /\ cursor = Last
        PROVE  ~serverOpen'
    <3>1. Due' = Due \cup {z}
      BY <1>2, <2>3, TickDeferred DEF Due, TickNames
    <3> QED BY <2>1, <2>3, <3>1 DEF Released
  <2> QED BY <1>3, <2>2, <2>3, HandlerReturnsDefers
<1>4. CASE Tick
  <2>1. Due = Range(Tail(ticks)) \cup {Head(ticks)} /\ Tail(ticks) \in Seq(TickNames)
    BY <1>4, TickTaken DEF Tick, Core, Due
  <2>2. Due' \subseteq Due \cup {"emitclose"}
    <3> DEFINE t == Tail(ticks)
    <3>1. t \in Seq(TickNames) /\ Range(t) \subseteq Due
      BY <2>1
    <3>2. ticks' = t \/ ticks' = Append(t, "emitclose")
      BY <1>4, TickDefers
    <3> HIDE DEF t
    <3>3. Range(Append(t, "emitclose")) = Range(t) \cup {"emitclose"}
      BY <1>2, <3>1, TickDeferred
    <3> QED BY <3>1, <3>2, <3>3 DEF Due
  <2>3. closed' => closed \/ Head(ticks) \in C
    BY <1>2, <1>4 DEF Tick, EmitClose
  <2> QED BY <1>1, <2>1, <2>2, <2>3 DEF Released
<1>5. CASE CloseReply
  <2>1. CASE serverOpen' = FALSE
    BY <2>1
  <2>2. CASE UNCHANGED <<serverOpen, closed, ticks>>
    BY <2>2 DEF Released, Due
  <2> QED BY <1>5, <2>1, <2>2 DEF CloseReply
<1>6. CASE listening /\ (StreamError \/ CollectorError \/ Finish)
  <2>1. closed' = closed /\ Due' \subseteq Due \cup {"end", "sendclose"}
    BY <1>2, <1>6, DoneDefers
  <2> QED BY <1>1, <2>1 DEF Released
<1>7. CASE ~listening /\ (StreamError \/ CollectorError)
  <2>1. closed' = closed
    BY <1>7 DEF StreamError, CollectorError
  <2>2. ticks' = ticks \/ (ticks # <<>> /\ ticks' = Tail(ticks))
    BY <1>7 DEF StreamError, FailWith, CollectorError
  <2>3. Due' \subseteq Due
    BY <2>2, TickTaken DEF Core, Due
  <2> QED BY <1>1, <2>1, <2>3 DEF Released
<1>8. CASE Parse \/ Collect \/ ReadLob \/ LobReply \/ PipeReads \/ FetchReply \/ Break
  <2>1. closed' = closed
    BY <1>8 DEF Parse, Consume, Collect, ReadLob, LobReply, PipeReads, StreamReads, FetchReply, Break, vars, rsVars
  <2>2. ticks' = ticks \/ ticks' = Append(ticks, "collector")
    BY <1>8 DEF Parse, Consume, Collect, ReadLob, LobReply, PipeReads, StreamReads, FetchReply, Break, vars, loopVars
  <2>3. Due' \subseteq Due \cup {"collector"}
    BY <1>2, <2>2, TickDeferred DEF Due
  <2> QED BY <1>1, <2>1, <2>3 DEF Released
<1> QED
  <2>1. Finish => listening
    BY DEF Finish
  <2> QED BY <1>3, <1>4, <1>5, <1>6, <1>7, <1>8, <2>1 DEF FetchNext, CollectorStep, HandlerStep

\* When fetch() calls back, the result set is closed, or its CLOSE has failed.
LEMMA AnsweredStep ==
  ASSUME FetchInv, FetchNext, answered' = 1, serverOpen'
  PROVE  "close" \in faults'
<1> USE DEF FetchInv
<1>1. serverOpen /\ faults' = faults
  BY ServerCloses
<1>2. CASE answered = 1
  BY <1>1, <1>2 DEF Released
<1>3. CASE answered # 1
  <2>1. ~QuietStep
    BY <1>3, QuietSteps
  <2>2. ~closed /\ up
    BY <1>1 DEF Released
  <2>3. CASE listening /\ (StreamError \/ CollectorError \/ Finish)
    BY <1>3, <2>2, <2>3, DoneDefers
  <2>4. CASE Tick /\ Head(ticks) = "sendclose" /\ UNCHANGED fetchVars
    <3>1. SendClose /\ ticks # <<>>
      BY <2>4 DEF Tick
    <3>2. "sendclose" \in Due
      BY <2>4, <3>1, TickTaken DEF Core, Due
    <3>3. connected
      BY <3>2 DEF Callback
    <3> QED BY <1>3, <2>2, <3>1, <3>3 DEF SendClose
  <2>5. CASE CloseReply
    BY <1>1, <2>2, <2>5 DEF CloseReply
  <2> QED
    <3>1. Finish => listening
      BY DEF Finish
    <3> QED BY <2>1, <2>3, <2>4, <2>5, <3>1 DEF FetchNext, CollectorStep, HandlerStep, QuietStep
<1> QED BY <1>2, <1>3

-----------------------------------------------------------------------------
(* The inductive invariant *)

LEMMA FetchInitInv == FetchInit => FetchInv
<1> SUFFICES ASSUME FetchInit PROVE FetchInv
  OBVIOUS
<1>1. Core
  BY InitIInv DEF FetchInit, IInv
<1>2. Due = {} /\ Range(requests) = {} /\ \A x : Once(ticks, x) /\ Once(requests, x)
  BY EmptyFacts DEF FetchInit, Init, Due
<1>3. Callback
  BY <1>2 DEF FetchInit, Init, Callback
<1>4. Released
  <2>1. up /\ ~closed /\ answered # 1
    BY DEF FetchInit, Init
  <2>2. cursor = Last /\ autoClose => ~serverOpen
    BY DEF FetchInit, Init
  <2> QED BY <1>2, <2>1, <2>2 DEF Released
<1>5. Collected
  BY DEF FetchInit, Init, Collected
<1> QED BY <1>1, <1>3, <1>4, <1>5 DEF FetchInv

LEMMA FetchNextInv == FetchInv /\ [FetchNext]_allVars => FetchInv'
<1> SUFFICES ASSUME FetchInv, [FetchNext]_allVars PROVE FetchInv'
  OBVIOUS
<1>1. Core'
  BY FetchCore DEF FetchInv
<1>2. CASE FetchNext
  <2>1. Callback'
    BY <1>2, CallbackStep
  <2>2. Released'
    BY <1>2, ServerStep, ClosedStep, AnsweredStep DEF FetchInv, Released
  <2>3. Collected'
    BY <1>2, HandledStep, CollectedStep DEF Collected
  <2> QED BY <1>1, <2>1, <2>2, <2>3 DEF FetchInv
<1>3. CASE UNCHANGED allVars
  <2>1. UNCHANGED <<rsVars, loopVars, serverVars, streamVars, userVars, fetchVars>>
    BY <1>3 DEF allVars, vars
  <2>2. Callback' /\ Released'
    BY <2>1 DEF FetchInv, Callback, Released, Due, rsVars, loopVars, serverVars, userVars, fetchVars
  <2>3. Collected'
    BY <2>1 DEF FetchInv, Collected, AllHandled, rsVars, loopVars, serverVars, streamVars, fetchVars
  <2> QED BY <1>1, <2>2, <2>3 DEF FetchInv
<1> QED BY <1>2, <1>3

LEMMA FetchInductive == FetchSpec => []FetchInv
BY FetchInitInv, FetchNextInv, PTL DEF FetchSpec

-----------------------------------------------------------------------------
(* Theorems *)

\* ResultSet.fetch(cb), done() and close(): whatever fails, and in whichever order, cb is called
\* at most once, after the listeners have been removed, and never while the server still holds the
\* result set, unless CLOSE has failed.
THEOREM FetchAnswersOnce == FetchSpec => []FetchCallsBackOnce
<1>1. FetchInv => FetchCallsBackOnce
  <2> SUFFICES ASSUME FetchInv PROVE FetchCallsBackOnce
    OBVIOUS
  <2>1. answered \in {0, 1} /\ (answered = 1 => ~listening)
    BY DEF FetchInv, Callback
  <2>2. answered <= 1
    BY <2>1
  <2>3. answered = 1 => (serverOpen => "close" \in faults)
    BY DEF FetchInv, Released
  <2> QED BY <2>1, <2>2, <2>3 DEF FetchCallsBackOnce
<1> QED BY <1>1, FetchInductive, PTL

\* ResultSet.fetch(cb) and its collector: when done() is called without an error, the rows of every
\* packet have come through the stream, in order, and have been collected with their LOBs.
THEOREM FetchCollectsAll == FetchSpec => []FetchIsComplete
<1>1. FetchInv => FetchIsComplete
  <2> SUFFICES ASSUME FetchInv, result = "ok"
               PROVE  RowsInOrder /\ WithRows \subseteq Range(delivered) /\ collected = Len(delivered)
    BY DEF FetchIsComplete
  <2>1. RowsInOrder
    BY OrderedRows DEF FetchInv
  <2>2. ended /\ finished /\ buffer = <<>> /\ collected = Len(delivered)
    BY DEF FetchInv, Collected, Core, Ending
  <2>3. AllHandled
    BY <2>2 DEF FetchInv, Collected
  <2>4. Pushed = delivered
    <3>1. delivered \in Seq(Packets)
      BY DEF FetchInv, Core, TypeOK
    <3>2. delivered \o <<>> = delivered
      BY <3>1, ConcatEmptySeq
    <3> QED BY <2>2, <3>2 DEF Pushed
  <2>5. WithRows \subseteq Range(delivered)
    BY <2>3, <2>4, AllRows DEF FetchInv
  <2> QED BY <2>1, <2>2, <2>5
<1> QED BY <1>1, FetchInductive, PTL
===============================================================================
