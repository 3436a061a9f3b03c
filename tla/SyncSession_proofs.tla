------------------------- MODULE SyncSession_proofs -------------------------
(***************************************************************************)
(* Proofs about sessions, for any batch size, any buffering of the         *)
(* connection and any number of sessions and breaks: the two ends stay in  *)
(* step (Talk), each step is one of LogSync's or a stutter (PullsInv,      *)
(* CutInv), LogSync's invariant carries over, and an unbroken session is   *)
(* complete (HistoryInv, ProgressInv).                                     *)
(***************************************************************************)
EXTENDS SyncSession, FiniteSetTheorems, SequenceTheorems, TLAPS

----------------------------------------------------------------------------
(* The two zens.                                                           *)

\* There are two zens, each the other's peer.
LEMMA TwoZens ==
    /\ \A z \in Zens : Peer(z) \in Zens /\ Peer(z) # z /\ Peer(Peer(z)) = z
    /\ \A y, z \in Zens : y = z \/ y = Peer(z)
  <1>1. IsFiniteSet(Zens) /\ Cardinality(Zens) = 2
    BY SessionAssumption
  <1>2. ASSUME NEW z \in Zens PROVE \E y \in Zens : y # z /\ Zens = {y, z}
    <2>1. IsFiniteSet(Zens \ {z}) /\ Cardinality(Zens \ {z}) = 1
      BY <1>1, FS_RemoveElement
    <2>2. PICK y : Zens \ {z} = {y}
      BY <2>1, FS_Singleton
    <2> QED BY <2>2
  <1>3. ASSUME NEW z \in Zens PROVE Peer(z) \in Zens /\ Peer(z) # z /\ Zens = {z, Peer(z)}
    BY <1>2 DEF Peer
  <1> QED BY <1>3

----------------------------------------------------------------------------
(* Batches: consecutive slices, none of them empty.                        *)

\* Multiples.
LEMMA Mult ==
    ASSUME NEW b \in Nat, NEW i \in Int, NEW j \in Int, i <= j
    PROVE  i * b <= j * b /\ i * b \in Int /\ j * b \in Int
  <1>1. j - i \in Nat /\ (j - i) * b >= 0
    OBVIOUS
  <1>2. (j - i) * b = j * b - i * b
    OBVIOUS
  <1>3. i * b \in Int /\ j * b \in Int
    OBVIOUS
  <1> QED BY <1>1, <1>2, <1>3

\* Division.
LEMMA Quotient ==
    ASSUME NEW a \in Nat, NEW b \in Nat \ {0}
    PROVE  /\ a \div b \in Nat
           /\ (a \div b) * b <= a /\ a < (a \div b) * b + b
  OBVIOUS

\* The loop of handleRequest: i += batchSize while i < len(events).
LEMMA Slices ==
    ASSUME NEW n \in Nat, NEW b \in Nat \ {0}, NEW c, c = (n + b - 1) \div b
    PROVE  /\ c \in Nat
           /\ \A i \in 1 .. c : (i - 1) * b \in Nat /\ i * b = (i - 1) * b + b /\ (i - 1) * b < n
           /\ \A i, j \in 1 .. c : i < j => i * b <= (j - 1) * b
           /\ \A k \in 1 .. n : \E i \in 1 .. c : (i - 1) * b < k /\ k <= i * b
  <1>1. n + b - 1 \in Nat
    OBVIOUS
  <1>2. c \in Nat /\ c * b <= n + b - 1 /\ n + b - 1 < c * b + b
    BY <1>1, Quotient
  <1>3. ASSUME NEW i \in 1 .. c
        PROVE  (i - 1) * b \in Nat /\ i * b = (i - 1) * b + b /\ (i - 1) * b < n
    <2>1. i * b = (i - 1) * b + b
      OBVIOUS
    <2>2. i * b <= c * b /\ i * b \in Int /\ c * b \in Int
      BY <1>2, Mult
    <2>3. (i - 1) * b \in Nat
      <3>1. i - 1 \in Nat
        BY <1>2
      <3> QED BY <3>1
    <2> QED BY <1>2, <2>1, <2>2, <2>3
  <1>4. ASSUME NEW i \in 1 .. c, NEW j \in 1 .. c, i < j PROVE i * b <= (j - 1) * b
    <2>1. i <= j - 1 /\ i \in Int /\ j - 1 \in Int
      BY <1>4
    <2> QED BY <2>1, Mult
  <1>5. ASSUME NEW k \in 1 .. n
        PROVE  \E i \in 1 .. c : (i - 1) * b < k /\ k <= i * b
    <2> DEFINE q == (k - 1) \div b
    <2>1. q \in Nat /\ q * b <= k - 1 /\ k - 1 < q * b + b
      BY Quotient
    <2> HIDE DEF q
    <2>2. q * b \in Nat
      BY <2>1
    <2>3. (q + 1) * b = q * b + b
      BY <2>1
    <2>4. q + 1 <= c
      <3> SUFFICES ASSUME c <= q PROVE FALSE
        BY <1>2, <2>1
      <3>1. c * b <= q * b /\ c * b \in Int
        BY <1>2, <2>1, Mult
      <3> QED BY <1>2, <2>1, <2>2, <3>1
    <2>5. q + 1 \in 1 .. c /\ ((q + 1) - 1) = q
      BY <1>2, <2>1, <2>4
    <2> QED BY <2>1, <2>2, <2>3, <2>5
  <1> QED BY <1>2, <1>3, <1>4, <1>5

\* Where slice i of a sequence of n events begins and ends.
Lo(i) == (i - 1) * BatchSize + 1
Hi(i, n) == IF i * BatchSize < n THEN i * BatchSize ELSE n

\* The events messages of an answer.
Batch(S) == [kind : {"events"}, items : Seq(S) \ {<<>>}]

\* The messages B are consecutive slices of the n events of s.
CutInto(s, n, B) ==
    /\ \A i \in 1 .. Len(B) : \A j \in 1 .. Len(B[i].items) :
          /\ Lo(i) - 1 + j \in Lo(i) .. Hi(i, n)
          /\ Lo(i) - 1 + j \in 1 .. n
          /\ B[i].items[j] = s[Lo(i) - 1 + j]
    /\ \A i, j \in 1 .. Len(B) : i < j => Hi(i, n) < Lo(j)
    /\ \A k \in 1 .. n : \E i \in 1 .. Len(B) : \E j \in 1 .. Len(B[i].items) :
          k = Lo(i) - 1 + j

\* Batches cuts a sequence so.
LEMMA BatchesCut ==
    ASSUME NEW S, NEW s \in Seq(S), NEW n, n = Len(s), NEW B, B = Batches(s)
    PROVE  B \in Seq(Batch(S)) /\ Len(B) \in Nat /\ CutInto(s, n, B)
  <1> DEFINE c == (n + BatchSize - 1) \div BatchSize
  <1>0. n \in Nat /\ BatchSize \in Nat \ {0} /\ \A k \in 1 .. n : s[k] \in S
    BY SessionAssumption
  <1>1. /\ c \in Nat
        /\ \A i \in 1 .. c : /\ (i - 1) * BatchSize \in Nat
                             /\ i * BatchSize = (i - 1) * BatchSize + BatchSize
                             /\ (i - 1) * BatchSize < n
        /\ \A i, j \in 1 .. c : i < j => i * BatchSize <= (j - 1) * BatchSize
        /\ \A k \in 1 .. n : \E i \in 1 .. c : (i - 1) * BatchSize < k /\ k <= i * BatchSize
    BY <1>0, Slices
  <1>2. B = [i \in 1 .. c |-> Events(SubSeq(s, Lo(i), Hi(i, n)))]
    BY DEF Batches, Lo, Hi
  <1> HIDE DEF c
  <1>3. ASSUME NEW i \in 1 .. c
        PROVE  /\ Lo(i) \in 1 .. n /\ Hi(i, n) \in Lo(i) .. n /\ Lo(i) \in Int /\ Hi(i, n) \in Int
               /\ Lo(i) = (i - 1) * BatchSize + 1
               /\ Hi(i, n) <= (i - 1) * BatchSize + BatchSize
               /\ \A k \in 1 .. n : k <= i * BatchSize => k <= Hi(i, n)
    <2>1. PICK x \in Nat : x = (i - 1) * BatchSize
      BY <1>1
    <2>2. i * BatchSize = x + BatchSize /\ x < n
      BY <1>1, <2>1
    <2>3. Lo(i) = x + 1 /\ Hi(i, n) = IF x + BatchSize < n THEN x + BatchSize ELSE n
      BY <2>1, <2>2 DEF Lo, Hi
    <2> QED BY <1>0, <2>1, <2>2, <2>3
  <1>4. ASSUME NEW i \in 1 .. c
        PROVE  LET q == SubSeq(s, Lo(i), Hi(i, n))
               IN  /\ q \in Seq(S) \ {<<>>} /\ Len(q) = Hi(i, n) - Lo(i) + 1
                   /\ \A j \in 1 .. Len(q) : q[j] = s[Lo(i) - 1 + j]
    <2> DEFINE q == SubSeq(s, Lo(i), Hi(i, n))
    <2>1. Lo(i) \in 1 .. n /\ Hi(i, n) \in Lo(i) .. n /\ Lo(i) \in Int /\ Hi(i, n) \in Int
      BY <1>3
    <2>2. \A k \in Lo(i) .. Hi(i, n) : s[k] \in S
      BY <1>0, <2>1
    <2>3. /\ q \in Seq(S) /\ Len(q) = IF Lo(i) <= Hi(i, n) THEN Hi(i, n) - Lo(i) + 1 ELSE 0
          /\ \A j \in 1 .. Hi(i, n) - Lo(i) + 1 : q[j] = s[Lo(i) + j - 1]
      BY <2>1, <2>2, SubSeqProperties
    <2>4. Len(q) = Hi(i, n) - Lo(i) + 1 /\ Len(q) # 0
      BY <2>1, <2>3
    <2>5. q # <<>>
      <3> HIDE DEF q
      <3> QED BY <2>3, <2>4, EmptySeq
    <2>6. \A j \in 1 .. Len(q) : Lo(i) + j - 1 = Lo(i) - 1 + j
      BY <2>1, <2>4
    <2> HIDE DEF q
    <2> QED BY <2>3, <2>4, <2>5, <2>6 DEF q
  <1>5. /\ B \in Seq(Batch(S)) /\ Len(B) = c
    <2>1. \A i \in 1 .. c : Events(SubSeq(s, Lo(i), Hi(i, n))) \in Batch(S)
      BY <1>4 DEF Events, Batch
    <2> QED BY <1>1, <1>2, <2>1
  <1>6. \A i \in 1 .. c : B[i].items = SubSeq(s, Lo(i), Hi(i, n))
    BY <1>2 DEF Events
  <1>7. ASSUME NEW i \in 1 .. c, NEW j \in 1 .. Len(B[i].items)
        PROVE  /\ Lo(i) - 1 + j \in Lo(i) .. Hi(i, n)
               /\ Lo(i) - 1 + j \in 1 .. n
               /\ B[i].items[j] = s[Lo(i) - 1 + j]
    <2>1. j \in 1 .. Hi(i, n) - Lo(i) + 1 /\ B[i].items[j] = s[Lo(i) - 1 + j]
      BY <1>4, <1>6
    <2>2. Lo(i) - 1 + j \in Lo(i) .. Hi(i, n) /\ Lo(i) - 1 + j \in 1 .. n
      BY <1>0, <1>3, <2>1
    <2> QED BY <2>1, <2>2
  <1>8. ASSUME NEW i \in 1 .. c, NEW j \in 1 .. c, i < j PROVE Hi(i, n) < Lo(j)
    <2>1. PICK x, y \in Nat : x = (i - 1) * BatchSize /\ y = (j - 1) * BatchSize
      BY <1>1
    <2>2. x + BatchSize <= y
      BY <1>1, <1>8, <2>1
    <2>3. Hi(i, n) <= x + BatchSize /\ Lo(j) = y + 1 /\ Hi(i, n) \in Int
      BY <1>3, <2>1
    <2> QED BY <1>0, <2>1, <2>2, <2>3
  <1>9. ASSUME NEW k \in 1 .. n
        PROVE  \E i \in 1 .. c : \E j \in 1 .. Len(B[i].items) : k = Lo(i) - 1 + j
    <2>1. PICK i \in 1 .. c : (i - 1) * BatchSize < k /\ k <= i * BatchSize
      BY <1>1
    <2>2. PICK x \in Nat : x = (i - 1) * BatchSize
      BY <1>1
    <2>3. x < k /\ Lo(i) = x + 1 /\ k <= Hi(i, n) /\ Hi(i, n) \in Int
      BY <1>3, <2>1, <2>2
    <2>4. Len(B[i].items) = Hi(i, n) - Lo(i) + 1
      BY <1>4, <1>6
    <2>5. k - x \in 1 .. Len(B[i].items) /\ k = Lo(i) - 1 + (k - x)
      BY <1>0, <2>2, <2>3, <2>4
    <2> QED BY <2>5
  <1>10. CutInto(s, n, B)
    BY <1>5, <1>7, <1>8, <1>9 DEF CutInto
  <1> QED BY <1>1, <1>5, <1>10

----------------------------------------------------------------------------
(* Types.                                                                  *)

Event == LS!Event
Key == LS!Key

EventSets == {S \in SUBSET Event : IsFiniteSet(S)}

Shake == {"hello", "gotHello", "auth", "gotAuth"}
Pulls == {"reading", "merging"}
Places ==
    Shake \cup Pulls \cup {"off", "pullPost", "pullProfile", "serve", "answer",
                           "zens", "zensWait", "reverse"}

Message ==
    [kind : {"hello", "auth", "done", "reverse"}]
    \cup [kind : {"request"}, log : Logs, after : 0 .. MaxClock]
    \cup Batch(Event)
    \cup [kind : {"zens"}, refs : SUBSET Zens]

StoreTypes ==
    /\ own \in [Zens -> EventSets] /\ pending \in [Zens -> EventSets]
    /\ clock \in [Zens -> 0 .. MaxClock]
    /\ held \in [Zens -> [Zens -> SUBSET Event]]
    /\ cursor \in [Key -> 0 .. MaxClock]

ConnTypes ==
    /\ pc \in [Zens -> Places] /\ initiator \in Zens /\ up \in BOOLEAN
    /\ wire \in [Zens -> Seq(Message)] /\ answer \in [Zens -> Seq(Message)]

PullTypes ==
    /\ batch \in [Zens -> Seq(Event)]
    /\ log \in [Zens -> Logs]
    /\ after \in [Zens -> 0 .. MaxClock] /\ maxTS \in [Zens -> 0 .. MaxClock]
    /\ known \in [Zens -> SUBSET Zens]

CountTypes ==
    /\ sessions \in Nat /\ breaks \in Nat /\ cuts \in Nat
    /\ atStart \in [own : [Zens -> EventSets], known : [Zens -> SUBSET Zens], broken : BOOLEAN]

\* Types; a zen merges when it has read events, and answers as long as there is
\* something to write.
TypeInv ==
    /\ StoreTypes /\ ConnTypes /\ PullTypes /\ CountTypes
    /\ \A z \in Zens : batch[z] # <<>> <=> pc[z] = "merging"
    /\ \A z \in Zens : pc[z] = "answer" => answer[z] # <<>>

\* The messages a session makes.
LEMMA Messages ==
    /\ Hello \in Message /\ Auth \in Message /\ DoneMsg \in Message /\ ReverseMsg \in Message
    /\ \A l \in Logs : \A t \in 0 .. MaxClock : Request(l, t) \in Message
    /\ \A R \in SUBSET Zens : ZensMsg(R) \in Message
    /\ \A m \in Message : m.kind = "events" => m.items \in Seq(Event) /\ m.items # <<>>
    /\ \A m \in Message : m.kind = "request" => m = Request(m.log, m.after)
    /\ \A m \in Message : m.kind = "zens" => m = ZensMsg(m.refs) /\ m.refs \in SUBSET Zens
    /\ \A m \in Message : m.kind \in {"hello", "auth", "request", "events", "done", "zens",
                                      "reverse"}
  <1>1. /\ Hello \in Message /\ Auth \in Message /\ DoneMsg \in Message /\ ReverseMsg \in Message
    BY DEF Message, Hello, Auth, DoneMsg, ReverseMsg
  <1>2. \A l \in Logs : \A t \in 0 .. MaxClock : Request(l, t) \in Message
    BY DEF Message, Request
  <1>3. \A R \in SUBSET Zens : ZensMsg(R) \in Message
    BY DEF Message, ZensMsg
  <1>4. \A m \in Message : m.kind = "events" => m.items \in Seq(Event) /\ m.items # <<>>
    BY DEF Message, Batch
  <1>5. \A m \in Message : m.kind = "request" => m = Request(m.log, m.after)
    BY DEF Message, Request, Batch
  <1>6. \A m \in Message : m.kind = "zens" => m = ZensMsg(m.refs) /\ m.refs \in SUBSET Zens
    BY DEF Message, ZensMsg, Batch
  <1>7. \A m \in Message : m.kind \in {"hello", "auth", "request", "events", "done", "zens",
                                       "reverse"}
    BY DEF Message, Batch
  <1> QED BY <1>1, <1>2, <1>3, <1>4, <1>5, <1>6, <1>7

\* What fetchOwnEvents returns.
LEMMA Fetched ==
    ASSUME StoreTypes, NEW z \in Zens, NEW l, NEW t,
           NEW S, S = LS!fetchOwnEvents(z, l, t)
    PROVE  S \in EventSets /\ Cardinality(S) \in Nat
  <1>1. S \subseteq own[z] /\ own[z] \in EventSets
    BY DEF StoreTypes, LS!fetchOwnEvents
  <1>2. IsFiniteSet(S)
    BY <1>1, FS_Subset DEF EventSets
  <1> QED BY <1>1, <1>2, FS_CardinalityType DEF EventSets

\* An answer: batches, and Done at the end.
LEMMA AnswerIs ==
    ASSUME StoreTypes, NEW z \in Zens, NEW req, NEW a \in Answers(z, req)
    PROVE  \E s \in TimeOrders(LS!fetchOwnEvents(z, req.log, req.after)) :
              /\ s \in Seq(Event) /\ Batches(s) \in Seq(Batch(Event))
              /\ a = Append(Batches(s), DoneMsg) /\ a \in Seq(Message)
              /\ Len(a) = Len(Batches(s)) + 1 /\ Len(Batches(s)) \in Nat
              /\ a[Len(a)] = DoneMsg
              /\ \A i \in 1 .. Len(Batches(s)) : a[i] = Batches(s)[i]
  <1>1. PICK S : S = LS!fetchOwnEvents(z, req.log, req.after)
    OBVIOUS
  <1>2. PICK s \in TimeOrders(S) : a = Append(Batches(s), DoneMsg)
    BY <1>1 DEF Answers
  <1>3. S \in EventSets /\ Cardinality(S) \in Nat
    BY <1>1, Fetched
  <1>4. s \in Seq(Event)
    BY <1>2, <1>3 DEF TimeOrders, EventSets
  <1>5. PICK B : B = Batches(s)
    OBVIOUS
  <1>6. B \in Seq(Batch(Event))
    BY <1>4, <1>5, BatchesCut
  <1>7. B \in Seq(Message) /\ DoneMsg \in Message
    BY <1>6, Messages DEF Message
  <1>8. /\ Append(B, DoneMsg) \in Seq(Message) /\ Len(Append(B, DoneMsg)) = Len(B) + 1
        /\ Len(B) \in Nat /\ Append(B, DoneMsg)[Len(B) + 1] = DoneMsg
        /\ \A i \in 1 .. Len(B) : Append(B, DoneMsg)[i] = B[i]
    BY <1>7, AppendProperties
  <1> QED BY <1>1, <1>2, <1>4, <1>5, <1>6, <1>8

\* A step of zen z that goes to place l.
LEMMA StepTypes ==
    ASSUME TypeInv, NEW z \in Zens, NEW l \in Places, pc' = [pc EXCEPT ![z] = l],
           StoreTypes', CountTypes', PullTypes',
           wire' \in [Zens -> Seq(Message)], answer' \in [Zens -> Seq(Message)],
           up' \in BOOLEAN, initiator' = initiator,
           \A y \in Zens \ {z} : batch'[y] = batch[y] /\ answer'[y] = answer[y],
           batch'[z] # <<>> <=> l = "merging",
           l = "answer" => answer'[z] # <<>>
    PROVE  TypeInv'
  <1>1. pc' \in [Zens -> Places] /\ pc'[z] = l /\ \A y \in Zens \ {z} : pc'[y] = pc[y]
    BY DEF TypeInv, ConnTypes
  <1>2. ConnTypes'
    BY <1>1 DEF TypeInv, ConnTypes
  <1> QED BY <1>1, <1>2 DEF TypeInv

\* The message at the head of a stream, and what is left when it is read.
LEMMA Reading ==
    ASSUME ConnTypes, NEW z \in Zens, wire[Peer(z)] # <<>>, NEW t, t = Tail(wire[Peer(z)])
    PROVE  /\ Msg(z) \in Message /\ t \in Seq(Message)
           /\ [wire EXCEPT ![Peer(z)] = t] \in [Zens -> Seq(Message)]
  <1>1. wire[Peer(z)] \in Seq(Message) /\ Peer(z) \in Zens
    BY TwoZens DEF ConnTypes
  <1> QED BY <1>1 DEF ConnTypes, Msg

\* A message is added.
LEMMA Writing ==
    ASSUME ConnTypes, NEW z \in Zens, NEW m \in Message
    PROVE  [wire EXCEPT ![z] = Append(@, m)] \in [Zens -> Seq(Message)]
  BY DEF ConnTypes

\* A step that leaves the stores, the pull and the counters alone.
LEMMA PlainTypes ==
    ASSUME TypeInv, NEW z \in Zens, NEW l \in Places, pc' = [pc EXCEPT ![z] = l],
           UNCHANGED <<storeVars, pullVars, countVars, initiator>>,
           known' \in [Zens -> SUBSET Zens],
           wire' \in [Zens -> Seq(Message)], answer' \in [Zens -> Seq(Message)],
           up' \in BOOLEAN,
           \A y \in Zens \ {z} : answer'[y] = answer[y],
           pc[z] # "merging", l # "merging", l = "answer" => answer'[z] # <<>>
    PROVE  TypeInv'
  <1>1. /\ UNCHANGED <<own, pending, clock, held, cursor>> /\ UNCHANGED <<batch, log, after, maxTS>>
        /\ UNCHANGED <<sessions, breaks, cuts, atStart>>
    BY DEF storeVars, pullVars, countVars
  <1>2. StoreTypes' /\ CountTypes' /\ PullTypes'
    BY <1>1 DEF TypeInv, StoreTypes, CountTypes, PullTypes
  <1>3. batch'[z] # <<>> <=> l = "merging"
    BY <1>1 DEF TypeInv
  <1> QED BY <1>1, <1>2, <1>3, StepTypes

\* The types: the handshake.
LEMMA ShakeTypes ==
    ASSUME TypeInv, NEW z \in Zens,
           ReadHello(z) \/ SendAuth(z) \/ ReadAuth(z) \/ Authed(z)
    PROVE  TypeInv'
  <1>0. ConnTypes /\ UNCHANGED <<storeVars, pullVars, countVars, initiator, known, answer, up>>
        /\ pc[z] # "merging"
    BY DEF TypeInv, ReadHello, SendAuth, ReadAuth, Authed
  <1>1. wire' \in [Zens -> Seq(Message)]
    <2>1. CASE ReadHello(z) \/ ReadAuth(z)
      BY <1>0, <2>1, Reading DEF ReadHello, ReadAuth, Consume, Incoming
    <2>2. CASE SendAuth(z)
      BY <1>0, <2>2, Writing, Messages DEF SendAuth, Write
    <2>3. CASE Authed(z)
      BY <1>0, <2>3 DEF Authed, ConnTypes
    <2> QED BY <2>1, <2>2, <2>3
  <1>2. \E l \in Places \ {"merging", "answer"} : pc' = [pc EXCEPT ![z] = l]
    BY DEF ReadHello, SendAuth, ReadAuth, Authed, Goto, Places, Shake, Pulls
  <1>3. known' \in [Zens -> SUBSET Zens] /\ answer' \in [Zens -> Seq(Message)] /\ up' \in BOOLEAN
    BY <1>0 DEF TypeInv, PullTypes, ConnTypes
  <1> QED BY <1>0, <1>1, <1>2, <1>3, PlainTypes

\* One message read, one written.
LEMMA ZensAnswered ==
    ASSUME ConnTypes, NEW z \in Zens, ReplyZens(z)
    PROVE  wire' = [y \in Zens |->
                      IF y = z
                      THEN IF up THEN Append(wire[z], ZensMsg(known'[z])) ELSE wire[z]
                      ELSE Tail(wire[Peer(z)])]
  <1>1. PICK m, p : m = ZensMsg(known'[z]) /\ p = Peer(z)
    OBVIOUS
  <1>2. /\ wire' = [wire EXCEPT ![p] = Tail(@), ![z] = IF up THEN Append(@, m) ELSE @]
        /\ wire = [y \in Zens |-> wire[y]] /\ p # z /\ p \in Zens
        /\ \A y \in Zens : y = z \/ y = p
    BY <1>1, TwoZens DEF ReplyZens, ConnTypes
  <1>3. wire' = [y \in Zens |-> IF y = z THEN IF up THEN Append(wire[z], m) ELSE wire[z]
                                 ELSE Tail(wire[p])]
    BY <1>2
  <1> QED BY <1>1, <1>3

\* The types: the serving side.
LEMMA ServeTypes ==
    ASSUME TypeInv, NEW z \in Zens,
           ReadRequest(z) \/ WriteAnswer(z) \/ ReplyZens(z) \/ ReadReverse(z) \/ ServeEOF(z)
    PROVE  TypeInv'
  <1>0. /\ ConnTypes /\ StoreTypes /\ UNCHANGED <<storeVars, pullVars, countVars, initiator>>
        /\ pc[z] # "merging" /\ pc = [y \in Zens |-> pc[y]] /\ answer \in [Zens -> Seq(Message)]
    BY DEF TypeInv, ConnTypes, ReadRequest, WriteAnswer, ReplyZens, ReadReverse, ServeEOF
  <1>1. CASE ReadRequest(z)
    <2>1. PICK a \in Answers(z, Msg(z)) : answer' = [answer EXCEPT ![z] = a]
      BY <1>1 DEF ReadRequest
    <2>2. a \in Seq(Message) /\ Len(a) # 0
      <3>1. PICK s : a \in Seq(Message) /\ Len(a) = Len(Batches(s)) + 1 /\ Len(Batches(s)) \in Nat
        BY <1>0, <2>1, AnswerIs
      <3> QED BY <3>1
    <2>3. a # <<>>
      BY <2>2, EmptySeq
    <2>4. /\ answer' \in [Zens -> Seq(Message)] /\ answer'[z] # <<>>
          /\ \A y \in Zens \ {z} : answer'[y] = answer[y]
      BY <1>0, <2>1, <2>2, <2>3
    <2>5. wire' \in [Zens -> Seq(Message)]
      BY <1>0, <1>1, Reading DEF ReadRequest, Consume, Incoming
    <2>6. "answer" \in Places /\ pc' = [pc EXCEPT ![z] = "answer"]
      BY <1>1 DEF ReadRequest, Goto, Places
    <2>7. known' \in [Zens -> SUBSET Zens] /\ up' \in BOOLEAN
      BY <1>0, <1>1 DEF ReadRequest, TypeInv, PullTypes, ConnTypes
    <2> QED BY <1>0, <2>4, <2>5, <2>6, <2>7, PlainTypes
  <1>2. CASE WriteAnswer(z)
    <2>1. answer[z] \in Seq(Message) /\ answer[z] # <<>> /\ pc[z] = "answer"
      BY <1>2 DEF TypeInv, ConnTypes, WriteAnswer
    <2>2. /\ Head(answer[z]) \in Message /\ Tail(answer[z]) \in Seq(Message)
          /\ Len(answer[z]) \in Nat /\ Len(Tail(answer[z])) = Len(answer[z]) - 1
      BY <2>1
    <2>3. /\ answer' \in [Zens -> Seq(Message)] /\ answer'[z] = Tail(answer[z])
          /\ \A y \in Zens \ {z} : answer'[y] = answer[y]
      BY <1>0, <1>2, <2>2 DEF WriteAnswer
    <2>4. wire' \in [Zens -> Seq(Message)]
      BY <1>0, <1>2, <2>2, Writing DEF WriteAnswer, Write
    <2>5. PICK l : l = IF Len(answer[z]) = 1 THEN "serve" ELSE "answer"
      OBVIOUS
    <2>6. l \in Places /\ l # "merging" /\ pc' = [pc EXCEPT ![z] = l]
      BY <1>2, <2>5 DEF WriteAnswer, Goto, Places
    <2>7. l = "answer" => answer'[z] # <<>>
      <3>1. l = "answer" => Len(Tail(answer[z])) # 0
        BY <2>2, <2>5
      <3> QED BY <2>2, <2>3, <3>1, EmptySeq
    <2>8. known' \in [Zens -> SUBSET Zens] /\ up' \in BOOLEAN
      BY <1>0, <1>2 DEF WriteAnswer, TypeInv, PullTypes, ConnTypes
    <2> QED BY <1>0, <2>3, <2>4, <2>6, <2>7, <2>8, PlainTypes
  <1>3. CASE ReplyZens(z)
    <2>1. wire[Peer(z)] # <<>> /\ Msg(z) \in Message /\ Msg(z).kind = "zens"
      BY <1>0, <1>3, Reading DEF ReplyZens, Incoming, Msg
    <2>2. Msg(z).refs \in SUBSET Zens
      BY <2>1, Messages
    <2>3. known' \in [Zens -> SUBSET Zens]
      BY <1>3, <2>2 DEF ReplyZens, TypeInv, PullTypes
    <2>4. ZensMsg(known'[z]) \in Message
      BY <2>3, Messages
    <2>5. Tail(wire[Peer(z)]) \in Seq(Message) /\ wire \in [Zens -> Seq(Message)]
      BY <1>0, <2>1, Reading DEF ConnTypes
    <2>6. wire' \in [Zens -> Seq(Message)]
      <3>1. PICK x : x = IF up THEN Append(wire[z], ZensMsg(known'[z])) ELSE wire[z]
        OBVIOUS
      <3>2. x \in Seq(Message)
        BY <2>4, <2>5, <3>1
      <3>3. wire' = [y \in Zens |-> IF y = z THEN x ELSE Tail(wire[Peer(z)])]
        BY <1>0, <1>3, <3>1, ZensAnswered, TwoZens
      <3> QED BY <2>5, <3>2, <3>3
    <2>7. "serve" \in Places /\ pc[z] = "serve" /\ pc' = [pc EXCEPT ![z] = "serve"]
      BY <1>0, <1>3 DEF ReplyZens, Places
    <2>8. UNCHANGED answer /\ up' \in BOOLEAN
      BY <1>0, <1>3 DEF ReplyZens, ConnTypes
    <2> QED BY <1>0, <2>3, <2>6, <2>7, <2>8, PlainTypes
  <1>4. CASE ReadReverse(z) \/ ServeEOF(z)
    <2>1. wire' \in [Zens -> Seq(Message)] /\ UNCHANGED <<answer, known>>
      BY <1>0, <1>4, Reading DEF ReadReverse, ServeEOF, Consume, Incoming, ConnTypes
    <2>2. up' \in BOOLEAN /\ known' \in [Zens -> SUBSET Zens]
      BY <1>0, <1>4, <2>1 DEF ReadReverse, ServeEOF, Close, ConnTypes, TypeInv, PullTypes
    <2>3. \E l \in {"pullPost", "off"} : pc' = [pc EXCEPT ![z] = l]
      BY <1>4 DEF ReadReverse, ServeEOF, Close, Goto
    <2>4. {"pullPost", "off"} \subseteq Places
      BY DEF Places
    <2> QED BY <1>0, <2>1, <2>2, <2>3, <2>4, PlainTypes
  <1> QED BY <1>1, <1>2, <1>3, <1>4

\* The types: the exchange of tokens.
LEMMA ZensTypes ==
    ASSUME TypeInv, NEW z \in Zens, SendZens(z) \/ ReadZens(z) \/ SendReverse(z)
    PROVE  TypeInv'
  <1>0. /\ ConnTypes /\ UNCHANGED <<storeVars, pullVars, countVars, initiator, answer, up>>
        /\ pc[z] # "merging" /\ known \in [Zens -> SUBSET Zens]
    BY DEF TypeInv, PullTypes, SendZens, ReadZens, SendReverse
  <1>1. known' \in [Zens -> SUBSET Zens]
    <2>1. CASE ReadZens(z)
      <3>1. Msg(z) \in Message /\ Msg(z).kind = "zens"
        BY <1>0, <2>1, Reading DEF ReadZens, Incoming, Msg
      <3> QED BY <1>0, <2>1, <3>1, Messages DEF ReadZens
    <2>2. CASE SendZens(z) \/ SendReverse(z)
      BY <1>0, <2>2 DEF SendZens, SendReverse
    <2> QED BY <2>1, <2>2
  <1>2. wire' \in [Zens -> Seq(Message)]
    <2>1. ZensMsg(known[z]) \in Message /\ ReverseMsg \in Message
      BY <1>0, Messages
    <2>2. CASE ReadZens(z)
      BY <1>0, <2>2, Reading DEF ReadZens, Consume, Incoming
    <2>3. CASE SendZens(z)
      BY <1>0, <2>1, <2>3, Writing DEF SendZens, Write
    <2>4. CASE SendReverse(z)
      BY <1>0, <2>1, <2>4, Writing DEF SendReverse, Write
    <2> QED BY <2>2, <2>3, <2>4
  <1>3. \E l \in {"zensWait", "reverse", "serve"} : pc' = [pc EXCEPT ![z] = l]
    BY DEF SendZens, ReadZens, SendReverse, Goto
  <1>4. {"zensWait", "reverse", "serve"} \subseteq Places
    BY DEF Places
  <1>5. answer' \in [Zens -> Seq(Message)] /\ up' \in BOOLEAN
    BY <1>0 DEF ConnTypes
  <1> QED BY <1>0, <1>1, <1>2, <1>3, <1>4, <1>5, PlainTypes

\* The key of a zen's cursor, and the cursor a finished pull stores.
PullKey(z, l) == [reader |-> z, author |-> Peer(z), log |-> l]

\* What a pull reads and writes of the cursors.
LEMMA KeyTypes ==
    /\ \A z \in Zens : \A l \in Logs : PullKey(z, l) \in Key
    /\ \A a, m \in 0 .. MaxClock : LS!NewCursor(a, m) \in 0 .. MaxClock
  <1>1. \A z \in Zens : \A l \in Logs : PullKey(z, l) \in Key
    BY TwoZens DEF PullKey, Key, LS!Key
  <1>2. \A a, m \in 0 .. MaxClock : LS!NewCursor(a, m) \in 0 .. MaxClock
    BY StoreAssumption DEF LS!NewCursor
  <1> QED BY <1>1, <1>2

\* pullLog's end: the cursor is stored and its locals are gone.
LEMMA FinishTypes ==
    ASSUME TypeInv, NEW z \in Zens, FinishPull(z), pc[z] = "reading",
           UNCHANGED <<own, pending, clock, held, initiator, answer, batch, log, known>>,
           CountTypes', wire' \in [Zens -> Seq(Message)]
    PROVE  TypeInv'
  <1>1. PICK k : k = PullKey(z, log[z])
    OBVIOUS
  <1>2. PICK c : c = LS!NewCursor(after[z], maxTS[z])
    OBVIOUS
  <1>3. k \in Key /\ c \in 0 .. MaxClock
    BY <1>1, <1>2, KeyTypes DEF TypeInv, PullTypes
  <1>4. cursor' = cursor \/ cursor' = [cursor EXCEPT ![k] = c]
    BY <1>1, <1>2 DEF FinishPull, PullKey
  <1>5. StoreTypes'
    BY <1>3, <1>4 DEF TypeInv, StoreTypes
  <1>6. PullTypes'
    BY StoreAssumption DEF FinishPull, TypeInv, PullTypes
  <1>7. /\ \E l \in {"pullProfile", "zens", "off"} : pc' = [pc EXCEPT ![z] = l]
        /\ up' \in BOOLEAN
    BY DEF FinishPull, AfterPull, Goto, Close, TypeInv, ConnTypes
  <1>8. {"pullProfile", "zens", "off"} \subseteq Places
    BY DEF Places
  <1>9. answer' \in [Zens -> Seq(Message)] /\ batch[z] = <<>>
    BY DEF TypeInv, ConnTypes
  <1>10. PICK l \in {"pullProfile", "zens", "off"} : pc' = [pc EXCEPT ![z] = l]
    BY <1>7
  <1>11. l \in Places /\ l # "merging" /\ l # "answer"
    BY <1>8
  <1> QED BY <1>5, <1>6, <1>7, <1>9, <1>10, <1>11, StepTypes

\* The types: the pulling side.
LEMMA PullingTypes ==
    ASSUME TypeInv, NEW z \in Zens,
           SendRequest(z) \/ ReadEvents(z) \/ MergeEvent(z) \/ ReadDone(z) \/ PullEOF(z) \/ Abort(z)
    PROVE  TypeInv'
  <1>0. /\ ConnTypes /\ StoreTypes /\ PullTypes /\ CountTypes /\ Peer(z) \in Zens
        /\ wire \in [Zens -> Seq(Message)] /\ answer \in [Zens -> Seq(Message)] /\ up \in BOOLEAN
    BY TwoZens DEF TypeInv, ConnTypes
  <1>1. CASE SendRequest(z)
    <2>1. PICK l \in Logs : /\ Write(z, Request(l, cursor[PullKey(z, l)]))
                            /\ log' = [log EXCEPT ![z] = l]
                            /\ after' = [after EXCEPT ![z] = cursor[PullKey(z, l)]]
      BY <1>1 DEF SendRequest, Logs, PullKey
    <2>2. cursor[PullKey(z, l)] \in 0 .. MaxClock
      BY <1>0, KeyTypes DEF StoreTypes
    <2>3. wire' \in [Zens -> Seq(Message)]
      BY <1>0, <2>1, <2>2, Messages, Writing DEF Write
    <2>4. /\ UNCHANGED <<own, pending, clock, held, cursor, initiator, up, answer, batch, maxTS,
                         known, sessions, breaks, cuts, atStart>>
          /\ pc' = [pc EXCEPT ![z] = "reading"] /\ pc[z] # "merging"
      BY <1>1 DEF SendRequest, storeVars, countVars, Goto
    <2>5. StoreTypes' /\ CountTypes' /\ PullTypes'
      BY <1>0, <2>1, <2>2, <2>4 DEF StoreTypes, CountTypes, PullTypes
    <2>6. "reading" \in Places /\ batch[z] = <<>>
      BY <2>4 DEF Places, Pulls, TypeInv
    <2> QED BY <1>0, <2>3, <2>4, <2>5, <2>6, StepTypes
  <1>2. CASE ReadEvents(z)
    <2>1. wire[Peer(z)] # <<>> /\ Msg(z).kind = "events"
      BY <1>2 DEF ReadEvents, Incoming, Msg
    <2>2. Msg(z).items \in Seq(Event) /\ Msg(z).items # <<>>
      BY <1>0, <2>1, Reading, Messages
    <2>3. wire' \in [Zens -> Seq(Message)]
      BY <1>0, <1>2, <2>1, Reading DEF ReadEvents, Consume
    <2>4. /\ UNCHANGED <<own, pending, clock, held, cursor, initiator, up, answer, log, after, maxTS,
                         known, sessions, breaks, cuts, atStart>>
          /\ pc' = [pc EXCEPT ![z] = "merging"] /\ batch' = [batch EXCEPT ![z] = Msg(z).items]
      BY <1>2 DEF ReadEvents, storeVars, countVars, Goto
    <2>5. StoreTypes' /\ CountTypes' /\ PullTypes' /\ batch'[z] = Msg(z).items
          /\ \A y \in Zens \ {z} : batch'[y] = batch[y]
      BY <1>0, <2>2, <2>4 DEF StoreTypes, CountTypes, PullTypes
    <2>6. "merging" \in Places
      BY DEF Places, Pulls
    <2> QED BY <1>0, <2>2, <2>3, <2>4, <2>5, <2>6, StepTypes
  <1>3. CASE MergeEvent(z)
    <2>1. batch[z] \in Seq(Event) /\ batch[z] # <<>>
      BY <1>0, <1>3 DEF MergeEvent, TypeInv, PullTypes
    <2>2. PICK e : e = Head(batch[z])
      OBVIOUS
    <2>3. /\ e \in Event /\ Tail(batch[z]) \in Seq(Event)
          /\ Len(batch[z]) \in Nat /\ Len(Tail(batch[z])) = Len(batch[z]) - 1
      BY <2>1, <2>2
    <2>4. e.ts \in 0 .. MaxClock
      BY <2>3, StoreAssumption DEF Event, LS!Event
    <2>5. PICK S : S = LS!Insert(e, held[z][Peer(z)])
      OBVIOUS
    <2>6. S \subseteq Event
      BY <1>0, <2>3, <2>5 DEF LS!Insert, StoreTypes
    <2>7. PICK l : l = IF Len(batch[z]) = 1 THEN "reading" ELSE "merging"
      OBVIOUS
    <2>8. /\ UNCHANGED <<own, pending, clock, cursor, initiator, up, wire, answer, log, after,
                         known, sessions, breaks, cuts, atStart>>
          /\ held' = [held EXCEPT ![z][Peer(z)] = S]
          /\ maxTS' = [maxTS EXCEPT ![z] = IF e.ts > @ THEN e.ts ELSE @]
          /\ batch' = [batch EXCEPT ![z] = Tail(@)]
          /\ pc' = [pc EXCEPT ![z] = l]
      BY <1>3, <2>2, <2>5, <2>7 DEF MergeEvent, countVars, Goto
    <2>9. held' \in [Zens -> [Zens -> SUBSET Event]]
      BY <1>0, <2>6, <2>8 DEF StoreTypes
    <2>10. maxTS' \in [Zens -> 0 .. MaxClock]
      BY <1>0, <2>4, <2>8 DEF PullTypes
    <2>11. batch' \in [Zens -> Seq(Event)] /\ batch'[z] = Tail(batch[z])
           /\ \A y \in Zens \ {z} : batch'[y] = batch[y]
      BY <1>0, <2>3, <2>8 DEF PullTypes
    <2>12. StoreTypes' /\ CountTypes' /\ PullTypes'
      BY <1>0, <2>8, <2>9, <2>10, <2>11 DEF StoreTypes, CountTypes, PullTypes
    <2>13. batch'[z] # <<>> <=> l = "merging"
      <3>1. Len(batch[z]) = 1 <=> Len(Tail(batch[z])) = 0
        BY <2>3
      <3> QED BY <2>3, <2>7, <2>11, <3>1, EmptySeq
    <2>14. l \in Places /\ l # "answer"
      BY <2>7 DEF Places, Pulls
    <2> QED BY <1>0, <2>8, <2>11, <2>12, <2>13, <2>14, StepTypes
  <1>4. CASE ReadDone(z)
    <2>1. wire' \in [Zens -> Seq(Message)]
      BY <1>0, <1>4, Reading DEF ReadDone, Consume, Incoming
    <2>2. CountTypes'
      BY <1>0, <1>4 DEF ReadDone, CountTypes, countVars
    <2> QED BY <1>4, <2>1, <2>2, FinishTypes DEF ReadDone
  <1>5. CASE PullEOF(z)
    <2>1. wire' \in [Zens -> Seq(Message)] /\ CountTypes'
      BY <1>0, <1>5 DEF PullEOF, CountTypes
    <2> QED BY <1>5, <2>1, FinishTypes DEF PullEOF
  <1>6. CASE Abort(z)
    <2>1. /\ UNCHANGED <<own, pending, clock, held, cursor, initiator, up, wire, answer, log, batch,
                         known, sessions, breaks, atStart>>
          /\ pc' = [pc EXCEPT ![z] = "off"] /\ pc[z] # "merging"
      BY <1>6 DEF Abort, storeVars, Goto
    <2>2. cuts' \in Nat
      BY <1>0, <1>6 DEF Abort, CountTypes
    <2>3. StoreTypes' /\ CountTypes'
      BY <1>0, <2>1, <2>2 DEF StoreTypes, CountTypes
    <2>4. PullTypes'
      BY <1>0, <1>6, <2>1, StoreAssumption DEF Abort, PullTypes
    <2>5. batch[z] = <<>> /\ "off" \in Places
      BY <2>1 DEF TypeInv, Places
    <2> QED BY <1>0, <2>1, <2>3, <2>4, <2>5, StepTypes
  <1> QED BY <1>1, <1>2, <1>3, <1>4, <1>5, <1>6

\* The zens write to their logs: one event signed, appended or lost.
LEMMA AuthorTypes ==
    ASSUME TypeInv, NEW z \in Zens, AuthorStep(z)
    PROVE  TypeInv'
  <1>0. /\ own \in [Zens -> EventSets] /\ pending \in [Zens -> EventSets]
        /\ clock \in [Zens -> 0 .. MaxClock]
    BY DEF TypeInv, StoreTypes
  <1>1. \A S \in EventSets : \A e \in Event : S \cup {e} \in EventSets /\ S \ {e} \in EventSets
    BY FS_AddElement, FS_RemoveElement DEF EventSets
  <1>2. CASE LS!Tick(z)
    <2>1. clock' \in [Zens -> 0 .. MaxClock] /\ UNCHANGED <<own, pending, held, cursor>>
      BY <1>0, <1>2, StoreAssumption DEF LS!Tick
    <2> QED BY <2>1 DEF AuthorStep, sessionVars, connVars, pullVars, countVars, TypeInv, StoreTypes,
                       ConnTypes, PullTypes, CountTypes
  <1>3. ASSUME NEW l \in Logs, NEW b \in Bodies, LS!Sign(z, l, b) PROVE TypeInv'
    <2>1. PICK t \in 1 .. clock[z] :
              pending' = [pending EXCEPT ![z] = @ \cup {[log |-> l, ts |-> t, body |-> b]}]
      BY <1>3 DEF LS!Sign
    <2>2. PICK e : e = [log |-> l, ts |-> t, body |-> b]
      OBVIOUS
    <2>3. e \in Event
      <3>1. t \in 1 .. MaxClock
        BY <1>0, <2>1, StoreAssumption
      <3> QED BY <2>2, <3>1 DEF Event, LS!Event
    <2>4. pending' \in [Zens -> EventSets] /\ UNCHANGED <<own, clock, held, cursor>>
      BY <1>0, <1>1, <1>3, <2>1, <2>2, <2>3 DEF LS!Sign
    <2> QED BY <2>4 DEF AuthorStep, sessionVars, connVars, pullVars, countVars, TypeInv, StoreTypes,
                       ConnTypes, PullTypes, CountTypes
  <1>4. ASSUME NEW e \in Event, LS!AppendOwnEvent(z, e) \/ LS!LoseSigned(z, e) PROVE TypeInv'
    <2>1. LS!Insert(e, own[z]) \in EventSets
      BY <1>0, <1>1 DEF LS!Insert
    <2>2. own' \in [Zens -> EventSets]
      BY <1>0, <1>4, <2>1 DEF LS!AppendOwnEvent, LS!LoseSigned
    <2>3. pending' \in [Zens -> EventSets]
      BY <1>0, <1>1, <1>4 DEF LS!AppendOwnEvent, LS!LoseSigned
    <2>4. UNCHANGED <<clock, held, cursor>>
      BY <1>4 DEF LS!AppendOwnEvent, LS!LoseSigned
    <2> QED BY <2>2, <2>3, <2>4 DEF AuthorStep, sessionVars, connVars, pullVars, countVars, TypeInv,
                       StoreTypes, ConnTypes, PullTypes, CountTypes
  <1> QED BY <1>2, <1>3, <1>4 DEF AuthorStep, LS!AuthorStep, Event

\* The types: a connection comes and goes.
LEMMA ConnectTypes ==
    ASSUME TypeInv, NEW z \in Zens, Connect(z) \/ Break
    PROVE  TypeInv'
  <1>1. /\ UNCHANGED <<own, pending, clock, held, cursor, batch, log, after, maxTS, known, cuts>>
    BY DEF Connect, Break, storeVars, pullVars
  <1>2. StoreTypes' /\ PullTypes'
    BY <1>1 DEF TypeInv, StoreTypes, PullTypes
  <1>3. CASE Connect(z)
    <2>1. CountTypes'
      BY <1>1, <1>3 DEF Connect, TypeInv, CountTypes, StoreTypes, PullTypes
    <2>2. /\ pc' = [y \in Zens |-> "hello"] /\ wire' = [y \in Zens |-> <<Hello>>]
          /\ answer' = [y \in Zens |-> <<>>] /\ initiator' = z /\ up' = TRUE
          /\ \A y \in Zens : pc[y] = "off"
      BY <1>3 DEF Connect
    <2>3. ConnTypes'
      <3>1. <<Hello>> \in Seq(Message) /\ <<>> \in Seq(Message) /\ "hello" \in Places
        BY Messages DEF Places, Shake
      <3> QED BY <2>2, <3>1 DEF ConnTypes
    <2> QED BY <1>1, <1>2, <2>1, <2>2, <2>3 DEF TypeInv
  <1>4. CASE Break
    <2>1. CountTypes'
      <3>1. PICK T, K : atStart \in [own : T, known : K, broken : BOOLEAN]
                        /\ T = [Zens -> EventSets] /\ K = [Zens -> SUBSET Zens]
        BY DEF TypeInv, CountTypes
      <3>2. atStart' = [atStart EXCEPT !.broken = TRUE]
        BY <1>4 DEF Break
      <3>3. atStart' \in [own : T, known : K, broken : BOOLEAN]
        BY <3>1, <3>2
      <3> QED BY <1>1, <1>4, <3>1, <3>3 DEF Break, TypeInv, CountTypes
    <2>2. ConnTypes' /\ UNCHANGED <<pc, answer>>
      BY <1>4 DEF Break, TypeInv, ConnTypes
    <2> QED BY <1>1, <1>2, <2>1, <2>2 DEF TypeInv
  <1> QED BY <1>3, <1>4

\* Every step keeps the types.
LEMMA NextTypes == TypeInv /\ [Next]_vars => TypeInv'
  <1> SUFFICES ASSUME TypeInv, [Next]_vars PROVE TypeInv'
    OBVIOUS
  <1>1. CASE UNCHANGED vars
    BY <1>1 DEF vars, storeVars, sessionVars, connVars, pullVars, countVars, TypeInv, StoreTypes,
                ConnTypes, PullTypes, CountTypes
  <1>2. ASSUME NEW z \in Zens, SessionStep(z) PROVE TypeInv'
    BY <1>2, ShakeTypes, PullingTypes, ServeTypes, ZensTypes DEF SessionStep
  <1> QED BY <1>1, <1>2, ConnectTypes, AuthorTypes, SessionAssumption DEF Next

\* The types hold initially.
LEMMA InitTypes == Init => TypeInv
  <1> SUFFICES ASSUME Init PROVE TypeInv
    OBVIOUS
  <1>1. {} \in EventSets
    BY FS_EmptySet DEF EventSets
  <1>2. StoreTypes
    BY <1>1, StoreAssumption DEF Init, LS!Init, StoreTypes, Key
  <1>3. ConnTypes
    <2>1. initiator \in Zens
      BY SessionAssumption DEF Init
    <2>2. <<>> \in Seq(Message) /\ "off" \in Places
      BY DEF Places
    <2> QED BY <2>1, <2>2 DEF Init, ConnTypes
  <1>4. PullTypes
    BY StoreAssumption DEF Init, LS!Init, PullTypes, Logs
  <1>5. CountTypes
    BY <1>2, <1>4 DEF Init, LS!Init, CountTypes, StoreTypes, PullTypes
  <1> QED BY <1>2, <1>3, <1>4, <1>5 DEF Init, TypeInv

----------------------------------------------------------------------------
(* What the two zens are doing while the connection holds.                 *)

\* Handshake: z has written Hello, or Hello and Auth, and its peer has read
\* as many as its place says.
Wrote(z) == IF pc[z] \in {"hello", "gotHello"} THEN <<Hello>> ELSE <<Hello, Auth>>

Unread(z) ==
    CASE pc[Peer(z)] = "hello" -> Wrote(z)
      [] pc[Peer(z)] \in {"gotHello", "auth"} -> Tail(Wrote(z))
      [] OTHER -> <<>>

Shaking ==
    \A z \in Zens :
        /\ pc[z] \in Shake /\ wire[z] = Unread(z)
        /\ pc[z] = "gotAuth" => pc[Peer(z)] \in {"auth", "gotAuth"}

\* One zen is through; its Auth may still be unread.
Greeting(z) == IF pc[Peer(z)] = "auth" THEN <<Auth>> ELSE <<>>

Ready(z) ==
    /\ z # initiator /\ pc[z] = "serve" /\ pc[Peer(z)] \in {"auth", "gotAuth"}
    /\ wire[z] = Greeting(z) /\ wire[Peer(z)] = <<>>

\* The zen that serves a pull; a listener may not be there yet.
Waits(z) == pc[z] = "serve" \/ (z # initiator /\ pc[z] \in {"auth", "gotAuth"})

\* The end of an answer.
Stream(m) ==
    /\ m # <<>> /\ m[Len(m)] = DoneMsg
    /\ \A i \in 1 .. Len(m) : i # Len(m) => m[i].kind = "events"

\* A pull of z: about to ask, asked, being answered, answered.
Asking(z) ==
    /\ pc[z] \in {"pullPost", "pullProfile"} /\ Waits(Peer(z))
    /\ wire[z] = Greeting(z) /\ wire[Peer(z)] = <<>>

Asked(z) ==
    /\ pc[z] = "reading" /\ Waits(Peer(z))
    /\ wire[z] = Append(Greeting(z), Request(log[z], after[z])) /\ wire[Peer(z)] = <<>>

Answering(z) ==
    /\ pc[z] \in Pulls /\ pc[Peer(z)] = "answer" /\ wire[z] = <<>>
    /\ Stream(answer[Peer(z)])
    /\ \A i \in 1 .. Len(wire[Peer(z)]) : wire[Peer(z)][i].kind = "events"

Answered(z) ==
    /\ pc[z] \in Pulls /\ pc[Peer(z)] = "serve" /\ wire[z] = <<>>
    /\ Stream(wire[Peer(z)])

\* The initiator between its pulls and its turn to serve.
Idle(z) ==
    /\ z = initiator /\ pc[Peer(z)] = "serve" /\ pc[z] \in {"zens", "reverse"}
    /\ wire[z] = <<>> /\ wire[Peer(z)] = <<>>

Offered(z) ==
    /\ z = initiator /\ pc[Peer(z)] = "serve" /\ pc[z] = "zensWait"
    /\ wire[Peer(z)] = <<>> /\ \E R \in SUBSET Zens : wire[z] = <<ZensMsg(R)>>

Replied(z) ==
    /\ z = initiator /\ pc[Peer(z)] = "serve" /\ pc[z] = "zensWait"
    /\ wire[z] = <<>> /\ \E R \in SUBSET Zens : wire[Peer(z)] = <<ZensMsg(R)>>

Reversed(z) ==
    /\ z = initiator /\ pc[Peer(z)] = "serve" /\ pc[z] = "serve"
    /\ wire[z] = <<ReverseMsg>> /\ wire[Peer(z)] = <<>>

Pulling(z) == Asking(z) \/ Asked(z) \/ Answering(z) \/ Answered(z)
Between(z) == Idle(z) \/ Offered(z) \/ Replied(z) \/ Reversed(z)

Talk == Shaking \/ \E z \in Zens : Ready(z) \/ Pulling(z) \/ Between(z)

----------------------------------------------------------------------------
(* What can be read, also when the connection is broken.                   *)

FirstIs(w, K) == w # <<>> => Head(w).kind \in K

Readable(z, w) ==
    /\ pc[z] = "hello" => FirstIs(w, {"hello"})
    /\ pc[z] = "auth" => FirstIs(w, {"auth"})
    /\ pc[z] = "auth" /\ z # initiator /\ w # <<>> => FirstIs(Tail(w), {"request"})
    /\ pc[z] = "gotAuth" /\ z # initiator => FirstIs(w, {"request"})
    /\ pc[z] = "serve" /\ z = initiator => FirstIs(w, {"request"})
    /\ pc[z] = "serve" /\ z # initiator =>
         /\ FirstIs(w, {"request", "zens", "reverse"})
         /\ w # <<>> /\ Head(w).kind = "zens" => Tail(w) = <<>>
    /\ pc[z] \in Pulls => \A i \in 1 .. Len(w) : w[i].kind \in {"events", "done"}
    /\ pc[z] = "zensWait" => FirstIs(w, {"zens"})

AllReadable == \A z \in Zens : Readable(z, wire[Peer(z)])

\* The inductive invariant.
StepInv == IF up THEN Talk ELSE AllReadable

\* Short sequences.
LEMMA Short ==
    /\ \A a : <<a>> # <<>> /\ Head(<<a>>) = a /\ Tail(<<a>>) = <<>> /\ Len(<<a>>) = 1 /\ <<a>>[1] = a
    /\ \A a, b : /\ <<a, b>> # <<>> /\ Head(<<a, b>>) = a /\ Tail(<<a, b>>) = <<b>>
                 /\ Append(<<a>>, b) = <<a, b>>
    /\ \A a : Append(<<>>, a) = <<a>>
    /\ Len(<<>>) = 0
  <1>1. ASSUME NEW a
        PROVE  <<a>> # <<>> /\ Head(<<a>>) = a /\ Len(<<a>>) = 1 /\ <<a>>[1] = a
    OBVIOUS
  <1>2. ASSUME NEW a PROVE Tail(<<a>>) = <<>>
    OBVIOUS
  <1>3. ASSUME NEW a, NEW b PROVE <<a, b>> # <<>> /\ Head(<<a, b>>) = a
    OBVIOUS
  <1>4. ASSUME NEW a, NEW b PROVE Tail(<<a, b>>) = <<b>>
    OBVIOUS
  <1>5. ASSUME NEW a, NEW b PROVE Append(<<a>>, b) = <<a, b>>
    <2>1. PICK S : S = {a, b}
      OBVIOUS
    <2>2. <<a>> \in Seq(S) /\ b \in S /\ <<a, b>> \in Seq(S)
      BY <2>1
    <2>3. Len(<<a>>) = 1 /\ <<a>>[1] = a /\ Len(<<a, b>>) = 2 /\ <<a, b>>[1] = a /\ <<a, b>>[2] = b
      OBVIOUS
    <2>4. PICK s : s = Append(<<a>>, b)
      OBVIOUS
    <2>5. s \in Seq(S) /\ Len(s) = 2 /\ s[1] = a /\ s[2] = b
      BY <2>2, <2>3, <2>4, AppendProperties
    <2>6. \A i \in 1 .. Len(s) : s[i] = <<a, b>>[i]
      BY <2>3, <2>5
    <2> QED BY <2>2, <2>3, <2>4, <2>5, <2>6, SeqEqual
  <1>6. ASSUME NEW a PROVE Append(<<>>, a) = <<a>>
    OBVIOUS
  <1> QED BY <1>1, <1>2, <1>3, <1>4, <1>5, <1>6

\* The kinds of the messages.
LEMMA Kinds ==
    /\ Hello.kind = "hello" /\ Auth.kind = "auth" /\ DoneMsg.kind = "done"
    /\ ReverseMsg.kind = "reverse"
    /\ \A R : ZensMsg(R).kind = "zens"
    /\ \A l, t : Request(l, t).kind = "request"
  BY DEF Hello, Auth, DoneMsg, ReverseMsg, ZensMsg, Request

\* While the connection holds, what is next is what is expected.
LEMMA TalkReads ==
    ASSUME TypeInv, Talk, NEW z \in Zens
    PROVE  Readable(z, wire[Peer(z)])
  <1>0. PICK y : y = Peer(z)
    OBVIOUS
  <1>1. y \in Zens /\ y # z /\ Peer(y) = z /\ \A x \in Zens : x = z \/ x = y
    BY <1>0, TwoZens
  <1>2. CASE Shaking
    <2>1. /\ pc[z] \in Shake /\ pc[y] \in Shake /\ wire[y] = Unread(y)
          /\ pc[y] = "gotAuth" => pc[z] \in {"auth", "gotAuth"}
          /\ pc[z] = "gotAuth" => pc[y] \in {"auth", "gotAuth"}
      BY <1>0, <1>1, <1>2 DEF Shaking
    <2>2. CASE pc[z] = "hello"
      <3>1. wire[y] = <<Hello>> \/ wire[y] = <<Hello, Auth>>
        BY <1>1, <2>1, <2>2 DEF Unread, Wrote
      <3> QED BY <1>0, <2>2, <3>1, Short, Kinds DEF Readable, FirstIs, Pulls
    <2>3. CASE pc[z] \in {"gotHello", "auth"}
      <3>1. wire[y] = <<>> \/ wire[y] = <<Auth>>
        BY <1>1, <2>1, <2>3, Short DEF Unread, Wrote
      <3> QED BY <1>0, <2>3, <3>1, Short, Kinds DEF Readable, FirstIs, Pulls
    <2>4. CASE pc[z] = "gotAuth"
      <3>1. wire[y] = <<>>
        BY <1>1, <2>1, <2>4, Short DEF Unread, Wrote
      <3> QED BY <1>0, <2>4, <3>1, Short, Kinds DEF Readable, FirstIs, Pulls
    <2> QED BY <2>1, <2>2, <2>3, <2>4 DEF Shake
  <1>3. CASE wire[y] = <<>>
    BY <1>0, <1>3, Short DEF Readable, FirstIs
  <1>4. CASE Ready(y)
    <2>1. z = initiator /\ (wire[y] = <<>> \/ (pc[z] = "auth" /\ wire[y] = <<Auth>>))
      BY <1>1, <1>4 DEF Ready, Greeting, TypeInv, ConnTypes
    <2> QED BY <1>0, <1>3, <2>1, Short, Kinds DEF Readable, FirstIs, Pulls
  <1>5. CASE Asking(y) \/ Asked(y)
    <2>1. PICK m : m = Request(log[y], after[y])
      OBVIOUS
    <2>2. /\ Waits(z) /\ m.kind = "request"
          /\ wire[y] = <<>> \/ wire[y] = <<m>>
             \/ (z # initiator /\ pc[z] = "auth" /\ (wire[y] = <<Auth>> \/ wire[y] = <<Auth, m>>))
          /\ pc[z] = "auth" => wire[y] = <<Auth>> \/ wire[y] = <<Auth, m>>
      BY <1>1, <1>5, <2>1, Short, Kinds DEF Asking, Asked, Greeting, Waits
    <2>3. CASE pc[z] = "auth"
      BY <1>0, <2>2, <2>3, Short, Kinds DEF Readable, FirstIs, Pulls
    <2>4. CASE pc[z] # "auth"
      BY <1>0, <2>2, <2>4, Short, Kinds DEF Readable, FirstIs, Pulls, Waits
    <2> QED BY <2>3, <2>4
  <1>6. CASE Answering(z) \/ Answered(z)
    <2>1. pc[z] \in Pulls /\ \A i \in 1 .. Len(wire[y]) : wire[y][i].kind \in {"events", "done"}
      BY <1>0, <1>6, Kinds DEF Answering, Answered, Stream
    <2> QED BY <1>0, <2>1 DEF Readable, Pulls
  <1>7. CASE Replied(z)
    <2>1. PICK R : wire[y] = <<ZensMsg(R)>>
      BY <1>0, <1>7 DEF Replied
    <2> QED BY <1>0, <1>7, <2>1, Short, Kinds DEF Replied, Readable, FirstIs, Pulls
  <1>8. CASE Offered(y) \/ Reversed(y)
    <2>1. /\ z # initiator /\ pc[z] = "serve"
          /\ \E m : wire[y] = <<m>> /\ m.kind \in {"reverse", "zens"}
      BY <1>1, <1>8, Kinds DEF Offered, Reversed
    <2>2. PICK m : wire[y] = <<m>> /\ m.kind \in {"reverse", "zens"}
      BY <2>1
    <2>3. wire[y] # <<>> /\ Head(wire[y]) = m /\ Tail(wire[y]) = <<>>
      BY <2>2, Short
    <2> QED BY <1>0, <2>1, <2>2, <2>3 DEF Readable, FirstIs, Pulls
  <1>9. wire[y] = <<>> \/ Shaking \/ Ready(y) \/ Asking(y) \/ Asked(y) \/ Answering(z)
        \/ Answered(z) \/ Replied(z) \/ Offered(y) \/ Reversed(y)
    BY <1>0, <1>1 DEF Talk, Ready, Pulling, Between, Asking, Asked, Answering, Answered, Idle,
                      Offered, Replied, Reversed
  <1> QED BY <1>2, <1>3, <1>4, <1>5, <1>6, <1>7, <1>8, <1>9

----------------------------------------------------------------------------
(* How a step moves the two zens on.                                       *)

\* Where a zen stands tells what the two are doing.
LEMMA Where ==
    ASSUME Talk, NEW z \in Zens, NEW y, y = Peer(z)
    PROVE  /\ pc[z] \in {"hello", "gotHello"} => Shaking
           /\ pc[z] \in {"auth", "gotAuth"} => Shaking \/ Ready(y) \/ Asking(y) \/ Asked(y)
           /\ pc[z] \in {"pullPost", "pullProfile"} => Asking(z)
           /\ pc[z] = "merging" \/ (pc[z] = "reading" /\ wire[y] # <<>>)
                => Answering(z) \/ Answered(z)
           /\ pc[z] = "answer" => Answering(y)
           /\ pc[z] = "serve" /\ wire[y] # <<>> => Asked(y) \/ Offered(y) \/ Reversed(y)
           /\ pc[z] \in {"zens", "reverse"} => Idle(z)
           /\ pc[z] = "zensWait" /\ wire[y] # <<>> => Replied(z)
  <1>1. y \in Zens /\ y # z /\ Peer(y) = z /\ Peer(z) = y /\ \A x \in Zens : x = z \/ x = y
    BY TwoZens
  <1>2. Shaking \/ Ready(z) \/ Ready(y) \/ Pulling(z) \/ Pulling(y) \/ Between(z) \/ Between(y)
    BY <1>1 DEF Talk
  <1>3. Shaking => pc[z] \in Shake
    BY DEF Shaking
  <1>4. Ready(z) => pc[z] = "serve" /\ wire[y] = <<>>
    BY <1>1 DEF Ready
  <1>5. Ready(y) => pc[z] \in {"auth", "gotAuth"}
    BY <1>1 DEF Ready
  <1>6. /\ Asking(z) => pc[z] \in {"pullPost", "pullProfile"}
        /\ Asked(z) => pc[z] = "reading" /\ wire[y] = <<>>
        /\ Answering(z) \/ Answered(z) => pc[z] \in Pulls
    BY <1>1 DEF Asking, Asked, Answering, Answered
  <1>7. /\ Asking(y) => pc[z] \in {"auth", "gotAuth"} \/ (pc[z] = "serve" /\ wire[y] = <<>>)
        /\ Asked(y) => pc[z] \in {"auth", "gotAuth", "serve"}
        /\ Answering(y) => pc[z] = "answer"
        /\ Answered(y) => pc[z] = "serve" /\ wire[y] = <<>>
    BY <1>1 DEF Asking, Asked, Answering, Answered, Waits, Greeting
  <1>8. /\ Idle(z) => pc[z] \in {"zens", "reverse"}
        /\ Offered(z) => pc[z] = "zensWait" /\ wire[y] = <<>>
        /\ Replied(z) => pc[z] = "zensWait"
        /\ Reversed(z) => pc[z] = "serve" /\ wire[y] = <<>>
    BY <1>1 DEF Idle, Offered, Replied, Reversed
  <1>9. /\ Idle(y) \/ Replied(y) => pc[z] = "serve" /\ wire[y] = <<>>
        /\ Offered(y) \/ Reversed(y) => pc[z] = "serve"
    BY <1>1 DEF Idle, Offered, Replied, Reversed
  <1> QED BY <1>2, <1>3, <1>4, <1>5, <1>6, <1>7, <1>8, <1>9 DEF Shake, Pulls, Pulling, Between

\* What a step of z does to the places and to the streams.
LEMMA Effects ==
    ASSUME ConnTypes, NEW z \in Zens, NEW y, y = Peer(z)
    PROVE  /\ \A l : Goto(z, l) => pc'[z] = l /\ pc'[y] = pc[y]
           /\ Consume(z) => wire'[y] = Tail(wire[y]) /\ wire'[z] = wire[z]
           /\ \A m : Write(z, m) => wire'[z] = Append(wire[z], m) /\ wire'[y] = wire[y]
  <1>1. y \in Zens /\ y # z
    BY TwoZens
  <1> QED BY <1>1 DEF ConnTypes, Goto, Consume, Write

\* After a step, one phase of either zen will do.
LEMMA Phases ==
    ASSUME NEW z \in Zens,
           \/ Shaking' \/ Ready(z)' \/ Asking(z)' \/ Asked(z)' \/ Answering(z)' \/ Answered(z)'
           \/ Idle(z)' \/ Offered(z)' \/ Replied(z)' \/ Reversed(z)'
    PROVE  Talk'
  BY DEF Talk, Pulling, Between

\* The end of an answer, less its first message.
LEMMA StreamTail ==
    ASSUME NEW m \in Seq(Message), Stream(m)
    PROVE  /\ m # <<>> /\ Head(m) = m[1]
           /\ Len(m) = 1 => Head(m) = DoneMsg /\ Tail(m) = <<>>
           /\ Len(m) # 1 => Head(m).kind = "events" /\ Stream(Tail(m))
           /\ Tail(m) \in Seq(Message)
  <1>1. m # <<>> /\ Len(m) \in Nat \ {0} /\ m[Len(m)] = DoneMsg /\ Head(m) = m[1]
        /\ \A i \in 1 .. Len(m) : i # Len(m) => m[i].kind = "events"
    BY DEF Stream
  <1>2. PICK t : t = Tail(m)
    OBVIOUS
  <1>3. t \in Seq(Message) /\ Len(t) = Len(m) - 1 /\ \A i \in 1 .. Len(t) : t[i] = m[i + 1]
    BY <1>1, <1>2, HeadTailProperties
  <1>4. CASE Len(m) = 1
    BY <1>1, <1>2, <1>3, <1>4, EmptySeq
  <1>5. CASE Len(m) # 1
    <2>1. Len(t) \in Nat \ {0} /\ t # <<>> /\ Len(t) + 1 = Len(m)
      BY <1>1, <1>3, <1>5
    <2>2. t[Len(t)] = DoneMsg
      BY <1>1, <1>3, <2>1
    <2>3. \A i \in 1 .. Len(t) : i # Len(t) => t[i].kind = "events"
      <3> TAKE i \in 1 .. Len(t)
      <3> HAVE i # Len(t)
      <3>1. i + 1 \in 1 .. Len(m) /\ i + 1 # Len(m)
        BY <2>1
      <3> QED BY <1>1, <1>3, <3>1
    <2>4. Head(m).kind = "events"
      <3>1. 1 \in 1 .. Len(m)
        BY <1>1
      <3>2. m[1].kind = "events"
        BY <1>1, <1>5, <3>1
      <3> QED BY <1>1, <3>2
    <2> QED BY <1>1, <1>2, <1>3, <1>5, <2>1, <2>2, <2>3, <2>4 DEF Stream
  <1> QED BY <1>4, <1>5

\* The handshake.
LEMMA ShakeTalk ==
    ASSUME TypeInv, Talk, NEW z \in Zens, ReadHello(z) \/ SendAuth(z) \/ ReadAuth(z) \/ Authed(z)
    PROVE  Talk'
  <1>0. PICK y : y = Peer(z)
    OBVIOUS
  <1>1. /\ y \in Zens /\ y # z /\ Peer(y) = z /\ Peer(z) = y
        /\ \A x \in Zens : x = z \/ x = y
        /\ ConnTypes
    BY <1>0, TwoZens DEF TypeInv
  <1>2. UNCHANGED <<initiator, log, after>>
    BY DEF ReadHello, SendAuth, ReadAuth, Authed, pullVars
  <1>3. Shaking => /\ pc[z] \in Shake /\ wire[z] = Unread(z) /\ pc[y] \in Shake /\ wire[y] = Unread(y)
                   /\ pc[z] = "gotAuth" => pc[y] \in {"auth", "gotAuth"}
                   /\ pc[y] = "gotAuth" => pc[z] \in {"auth", "gotAuth"}
    BY <1>1 DEF Shaking
  <1>4. /\ pc'[z] \in Shake /\ wire'[z] = Unread(z)' /\ pc'[y] \in Shake /\ wire'[y] = Unread(y)'
        /\ pc'[z] = "gotAuth" => pc'[y] \in {"auth", "gotAuth"}
        /\ pc'[y] = "gotAuth" => pc'[z] \in {"auth", "gotAuth"}
        => Shaking'
    BY <1>1 DEF Shaking
  <1>5. CASE ReadHello(z)
    <2>1. /\ pc[z] = "hello" /\ pc'[z] = "gotHello" /\ pc'[y] = pc[y]
          /\ wire'[y] = Tail(wire[y]) /\ wire'[z] = wire[z]
      BY <1>1, <1>5, Effects DEF ReadHello
    <2>2. Shaking
      BY <1>1, <2>1, Where
    <2>3. Unread(z)' = Unread(z)
      BY <1>1, <2>1 DEF Unread, Wrote
    <2>4. Unread(y)' = Tail(Unread(y))
      BY <1>1, <2>1 DEF Unread, Wrote
    <2>5. Shaking'
      BY <1>3, <1>4, <2>1, <2>2, <2>3, <2>4 DEF Shake
    <2> QED BY <2>5, Phases
  <1>6. CASE SendAuth(z)
    <2>1. /\ pc[z] = "gotHello" /\ pc'[z] = "auth" /\ pc'[y] = pc[y]
          /\ wire'[z] = Append(wire[z], Auth) /\ wire'[y] = wire[y]
      BY <1>1, <1>6, Effects DEF SendAuth
    <2>2. Shaking
      BY <1>1, <2>1, Where
    <2>3. Unread(y)' = Unread(y)
      BY <1>1, <2>1 DEF Unread, Wrote
    <2>4. Unread(z)' = Append(Unread(z), Auth)
      <3>1. Wrote(z) = <<Hello>> /\ Wrote(z)' = <<Hello, Auth>>
        BY <2>1 DEF Wrote
      <3>2. pc[y] \in {"hello", "gotHello", "auth"}
        BY <1>3, <2>1, <2>2 DEF Shake
      <3>3. CASE pc[y] = "hello"
        <4>1. Unread(z) = <<Hello>> /\ Unread(z)' = <<Hello, Auth>>
          BY <1>1, <2>1, <3>1, <3>3 DEF Unread
        <4> QED BY <4>1, Short
      <3>4. CASE pc[y] # "hello"
        <4>1. Unread(z) = <<>> /\ Unread(z)' = <<Auth>>
          BY <1>1, <2>1, <3>1, <3>2, <3>4, Short DEF Unread
        <4> QED BY <4>1, Short
      <3> QED BY <3>3, <3>4
    <2>5. Shaking'
      BY <1>3, <1>4, <2>1, <2>2, <2>3, <2>4 DEF Shake
    <2> QED BY <2>5, Phases
  <1>7. CASE ReadAuth(z)
    <2>1. /\ pc[z] = "auth" /\ pc'[z] = "gotAuth" /\ pc'[y] = pc[y]
          /\ wire[y] # <<>> /\ wire'[y] = Tail(wire[y]) /\ wire'[z] = wire[z]
      BY <1>1, <1>7, Effects DEF ReadAuth, Incoming
    <2>2. CASE Shaking
      <3>1. wire[y] = Tail(Wrote(y))
        BY <1>1, <1>3, <2>1, <2>2 DEF Unread
      <3>2. pc[y] \in {"auth", "gotAuth"} /\ wire[y] = <<Auth>>
        BY <1>3, <2>1, <2>2, <3>1, Short DEF Wrote, Shake
      <3>3. Unread(z)' = Unread(z)
        BY <1>1, <2>1 DEF Unread, Wrote
      <3>4. Unread(y)' = <<>> /\ wire'[y] = <<>>
        BY <1>1, <2>1, <3>2, Short DEF Unread
      <3>5. Shaking'
        BY <1>3, <1>4, <2>1, <2>2, <3>2, <3>3, <3>4 DEF Shake
      <3> QED BY <3>5, Phases
    <2>3. CASE Ready(y)
      <3>1. wire'[y] = <<>> /\ Greeting(y)' = <<>>
        BY <1>1, <2>1, <2>3, Short DEF Ready, Greeting
      <3>2. Ready(y)'
        BY <1>1, <1>2, <2>1, <2>3, <3>1 DEF Ready
      <3> QED BY <1>1, <3>2, Phases
    <2>4. CASE Asking(y)
      <3>1. wire'[y] = <<>> /\ Greeting(y)' = <<>>
        BY <1>1, <2>1, <2>4, Short DEF Asking, Greeting
      <3>2. Asking(y)'
        BY <1>1, <1>2, <2>1, <2>4, <3>1 DEF Asking, Waits
      <3> QED BY <1>1, <3>2, Phases
    <2>5. CASE Asked(y)
      <3>1. PICK m : m = Request(log[y], after[y]) /\ m = Request(log[y], after[y])'
        BY <1>2
      <3>2. wire'[y] = <<m>> /\ Greeting(y)' = <<>>
        <4>1. Greeting(y) = <<Auth>> /\ Greeting(y)' = <<>>
          BY <1>1, <2>1 DEF Greeting
        <4>2. wire[y] = Append(<<Auth>>, m)
          BY <2>5, <3>1, <4>1 DEF Asked
        <4>3. wire[y] = <<Auth, m>>
          BY <4>2, Short
        <4> QED BY <2>1, <4>1, <4>3, Short
      <3>3. Asked(y)'
        BY <1>1, <1>2, <2>1, <2>5, <3>1, <3>2, Short DEF Asked, Waits
      <3> QED BY <1>1, <3>3, Phases
    <2> QED BY <1>1, <2>1, <2>2, <2>3, <2>4, <2>5, Where
  <1>8. CASE Authed(z)
    <2>1. /\ pc[z] = "gotAuth" /\ pc'[y] = pc[y] /\ wire' = wire
          /\ pc'[z] = IF z = initiator THEN "pullPost" ELSE "serve"
      BY <1>1, <1>8, Effects DEF Authed
    <2>2. CASE Shaking
      <3>1. /\ pc[y] \in {"auth", "gotAuth"} /\ wire[y] = <<>>
            /\ wire[z] = IF pc[y] = "auth" THEN <<Auth>> ELSE <<>>
        BY <1>1, <1>3, <2>1, <2>2, Short DEF Unread, Wrote
      <3>2. wire[z] = Greeting(z)'
        BY <1>1, <2>1, <3>1 DEF Greeting
      <3>3. Asking(z)' \/ Ready(z)'
        BY <1>1, <1>2, <2>1, <3>1, <3>2 DEF Asking, Ready, Waits
      <3> QED BY <3>3, Phases
    <2>3. CASE Ready(y)
      <3>1. z = initiator /\ pc[y] = "serve" /\ wire[y] = <<>> /\ wire[z] = <<>>
        BY <1>1, <2>1, <2>3 DEF Ready, Greeting, ConnTypes
      <3>2. Asking(z)'
        BY <1>1, <1>2, <2>1, <3>1 DEF Asking, Waits, Greeting
      <3> QED BY <3>2, Phases
    <2>4. CASE Asking(y) \/ Asked(y)
      <3>1. z # initiator /\ Greeting(y) = <<>> /\ Greeting(y)' = <<>>
        BY <1>1, <2>1, <2>4 DEF Asking, Asked, Waits, Greeting
      <3>2. Asking(y)' \/ Asked(y)'
        BY <1>1, <1>2, <2>1, <2>4, <3>1 DEF Asking, Asked, Waits
      <3> QED BY <1>1, <3>2, Phases
    <2> QED BY <1>1, <2>1, <2>2, <2>3, <2>4, Where
  <1> QED BY <1>5, <1>6, <1>7, <1>8

\* Pulls: what the pulling zen does.
LEMMA PullTalk ==
    ASSUME TypeInv, Talk, NEW z \in Zens,
           SendRequest(z) \/ ReadEvents(z) \/ MergeEvent(z) \/ ReadDone(z)
    PROVE  up' => Talk'
  <1>0. PICK y : y = Peer(z)
    OBVIOUS
  <1>1. /\ y \in Zens /\ y # z /\ Peer(y) = z /\ Peer(z) = y
        /\ ConnTypes
    BY <1>0, TwoZens DEF TypeInv
  <1>2. UNCHANGED <<initiator, answer>>
    BY DEF SendRequest, ReadEvents, MergeEvent, ReadDone
  <1>3. wire[y] \in Seq(Message)
    BY <1>1 DEF ConnTypes
  <1>4. CASE SendRequest(z)
    <2>1. PICK l, c : /\ Write(z, Request(l, c)) /\ log' = [log EXCEPT ![z] = l]
                      /\ after' = [after EXCEPT ![z] = c]
      BY <1>4 DEF SendRequest
    <2>2. log'[z] = l /\ after'[z] = c
      BY <2>1 DEF TypeInv, PullTypes
    <2>3. /\ pc[z] \in {"pullPost", "pullProfile"} /\ pc'[z] = "reading" /\ pc'[y] = pc[y]
          /\ wire'[z] = Append(wire[z], Request(l, c)) /\ wire'[y] = wire[y]
      BY <1>1, <1>4, <2>1, Effects DEF SendRequest
    <2>4. Asking(z)
      BY <1>1, <2>3, Where
    <2>5. Asked(z)'
      BY <1>1, <1>2, <2>2, <2>3, <2>4 DEF Asking, Asked, Waits, Greeting
    <2> QED BY <2>5, Phases
  <1>5. CASE ReadEvents(z)
    <2>1. /\ pc[z] = "reading" /\ pc'[z] = "merging" /\ pc'[y] = pc[y]
          /\ wire'[y] = Tail(wire[y]) /\ wire'[z] = wire[z]
          /\ wire[y] # <<>> /\ Head(wire[y]).kind = "events"
      BY <1>1, <1>5, Effects DEF ReadEvents, Incoming
    <2>2. CASE Answering(z)
      <3>1. \A i \in 1 .. Len(wire'[y]) : wire'[y][i].kind = "events"
        <4>1. /\ Len(wire'[y]) = Len(wire[y]) - 1 /\ Len(wire[y]) \in Nat
              /\ \A i \in 1 .. Len(wire'[y]) : wire'[y][i] = wire[y][i + 1]
          BY <1>3, <2>1, HeadTailProperties
        <4>2. \A i \in 1 .. Len(wire[y]) : wire[y][i].kind = "events"
          BY <1>1, <2>2 DEF Answering
        <4>3. \A i \in 1 .. Len(wire'[y]) : i + 1 \in 1 .. Len(wire[y])
          BY <4>1
        <4> QED BY <4>1, <4>2, <4>3
      <3>2. Answering(z)'
        BY <1>1, <1>2, <2>1, <2>2, <3>1 DEF Answering, Stream, Pulls
      <3> QED BY <3>2, Phases
    <2>3. CASE Answered(z)
      <3>1. Stream(wire[y])
        BY <1>1, <2>3 DEF Answered
      <3>2. Stream(Tail(wire[y]))
        BY <1>3, <2>1, <3>1, StreamTail, Kinds
      <3>3. Answered(z)'
        BY <1>1, <2>1, <2>3, <3>2 DEF Answered, Stream, Pulls
      <3> QED BY <3>3, Phases
    <2> QED BY <1>1, <2>1, <2>2, <2>3, Where
  <1>6. CASE MergeEvent(z)
    <2>1. pc[z] = "merging" /\ pc'[z] \in Pulls /\ pc'[y] = pc[y] /\ wire' = wire
      BY <1>1, <1>6, Effects DEF MergeEvent, Pulls
    <2>2. Answering(z) \/ Answered(z)
      BY <1>1, <2>1, Where
    <2>3. Answering(z)' \/ Answered(z)'
      BY <1>1, <1>2, <2>1, <2>2 DEF Answering, Answered, Stream
    <2> QED BY <2>3, Phases
  <1>7. CASE ReadDone(z)
    <2>1. /\ pc[z] = "reading" /\ wire'[y] = Tail(wire[y]) /\ wire'[z] = wire[z]
          /\ wire[y] # <<>> /\ Head(wire[y]).kind = "done"
      BY <1>1, <1>7, Effects DEF ReadDone, Incoming
    <2>2. ~Answering(z)
      <3>1. wire[y][1].kind = "done" /\ 1 \in 1 .. Len(wire[y])
        <4>1. PICK w \in Seq(Message) : w = wire[y]
          BY <1>3
        <4>2. w # <<>> /\ Head(w).kind = "done"
          BY <2>1, <4>1
        <4>3. Head(w) = w[1] /\ Len(w) \in Nat /\ Len(w) # 0
          BY <4>2
        <4> QED BY <4>1, <4>2, <4>3
      <3> QED BY <1>1, <3>1 DEF Answering
    <2>3. Answered(z)
      BY <1>1, <2>1, <2>2, Where
    <2>4. wire[z] = <<>> /\ pc[y] = "serve" /\ Stream(wire[y])
      BY <1>1, <2>3 DEF Answered
    <2>5. wire'[y] = <<>>
      BY <1>3, <2>1, <2>4, StreamTail
    <2>6. AfterPull(z)
      BY <1>7 DEF ReadDone, FinishPull
    <2>7. CASE log[z] = PostLog
      <3>0. Goto(z, "pullProfile")
        BY <2>6, <2>7 DEF AfterPull
      <3>1. pc'[z] = "pullProfile" /\ pc'[y] = pc[y]
        BY <1>1, <3>0, Effects
      <3>2. Asking(z)'
        BY <1>1, <2>1, <2>4, <2>5, <3>1 DEF Asking, Waits, Greeting
      <3> QED BY <3>2, Phases
    <2>8. CASE log[z] # PostLog /\ z = initiator
      <3>0. Goto(z, "zens")
        BY <2>6, <2>8 DEF AfterPull
      <3>1. pc'[z] = "zens" /\ pc'[y] = pc[y]
        BY <1>1, <3>0, Effects
      <3>2. Idle(z)'
        BY <1>1, <1>2, <2>1, <2>4, <2>5, <2>8, <3>1 DEF Idle
      <3> QED BY <3>2, Phases
    <2>9. CASE log[z] # PostLog /\ z # initiator
      BY <2>6, <2>9 DEF AfterPull, Close
    <2> QED BY <2>7, <2>8, <2>9
  <1> QED BY <1>4, <1>5, <1>6, <1>7

\* What a serving zen reads.
LEMMA ServeReads ==
    ASSUME Talk, NEW z \in Zens, NEW y, y = Peer(z), pc[z] = "serve", wire[y] # <<>>
    PROVE  /\ Head(wire[y]).kind = "request" => Asked(y) /\ Tail(wire[y]) = <<>>
           /\ Head(wire[y]).kind = "zens" => Offered(y) /\ Tail(wire[y]) = <<>>
           /\ Head(wire[y]).kind = "reverse" => Reversed(y) /\ Tail(wire[y]) = <<>>
  <1>0. y \in Zens /\ Peer(y) = z
    BY TwoZens
  <1>1. Asked(y) \/ Offered(y) \/ Reversed(y)
    BY Where
  <1>2. ASSUME Asked(y) PROVE \E m : wire[y] = <<m>> /\ m.kind = "request"
    <2>1. PICK m : m = Request(log[y], after[y])
      OBVIOUS
    <2>2. wire[y] = Append(<<>>, m)
      BY <1>0, <1>2, <2>1 DEF Asked, Greeting
    <2> QED BY <2>1, <2>2, Short, Kinds
  <1>3. Offered(y) => \E m : wire[y] = <<m>> /\ m.kind = "zens"
    BY Kinds DEF Offered
  <1>4. Reversed(y) => \E m : wire[y] = <<m>> /\ m.kind = "reverse"
    BY Kinds DEF Reversed
  <1>5. PICK m : wire[y] = <<m>>
    BY <1>1, <1>2, <1>3, <1>4
  <1>6. Head(wire[y]) = m /\ Tail(wire[y]) = <<>>
    BY <1>5, Short
  <1>7. \A n : wire[y] = <<n>> => n = Head(wire[y])
    BY Short
  <1> QED BY <1>1, <1>2, <1>3, <1>4, <1>6, <1>7

\* Pulls: what the serving zen does.
LEMMA ServeTalk ==
    ASSUME TypeInv, Talk, up, NEW z \in Zens,
           ReadRequest(z) \/ WriteAnswer(z) \/ ReplyZens(z) \/ ReadReverse(z)
    PROVE  Talk'
  <1>0. PICK y : y = Peer(z)
    OBVIOUS
  <1>1. /\ y \in Zens /\ y # z /\ Peer(y) = z /\ Peer(z) = y
        /\ ConnTypes
    BY <1>0, TwoZens DEF TypeInv
  <1>2. UNCHANGED initiator
    BY DEF ReadRequest, WriteAnswer, ReplyZens, ReadReverse
  <1>3. wire[z] \in Seq(Message) /\ answer[z] \in Seq(Message)
    BY <1>1 DEF ConnTypes
  <1>5. CASE ReadRequest(z)
    <2>1. /\ pc[z] = "serve" /\ pc'[z] = "answer" /\ pc'[y] = pc[y]
          /\ wire'[y] = Tail(wire[y]) /\ wire'[z] = wire[z]
          /\ wire[y] # <<>> /\ Head(wire[y]).kind = "request"
      BY <1>1, <1>5, Effects DEF ReadRequest, Incoming
    <2>2. Asked(y) /\ wire'[y] = <<>>
      BY <1>1, <2>1, ServeReads
    <2>3. PICK a \in Answers(z, Msg(z)) : answer' = [answer EXCEPT ![z] = a]
      BY <1>5 DEF ReadRequest
    <2>4. answer'[z] = a
      BY <1>1, <2>3 DEF ConnTypes
    <2>5. Stream(a)
      <3>0. StoreTypes
        BY DEF TypeInv
      <3>1. PICK s : /\ Batches(s) \in Seq(Batch(Event)) /\ a \in Seq(Message)
                     /\ Len(a) = Len(Batches(s)) + 1 /\ Len(Batches(s)) \in Nat
                     /\ a[Len(a)] = DoneMsg
                     /\ \A i \in 1 .. Len(Batches(s)) : a[i] = Batches(s)[i]
        BY <2>3, <3>0, AnswerIs
      <3>2. PICK B : B = Batches(s)
        OBVIOUS
      <3>3. \A i \in 1 .. Len(B) : B[i] \in Batch(Event) /\ a[i] = B[i]
        BY <3>1, <3>2
      <3>4. \A i \in 1 .. Len(B) : a[i].kind = "events"
        BY <3>3 DEF Batch
      <3>5. \A i \in 1 .. Len(a) : i # Len(a) => i \in 1 .. Len(B)
        BY <3>1, <3>2
      <3>6. a # <<>>
        BY <3>1
      <3> QED BY <3>1, <3>4, <3>5, <3>6 DEF Stream
    <2>6. pc[y] = "reading" /\ wire[z] = <<>>
      BY <1>1, <2>2 DEF Asked
    <2>7. \A i \in 1 .. Len(wire'[z]) : wire'[z][i].kind = "events"
      <3>1. wire'[z] = <<>> /\ Len(wire'[z]) = 0
        BY <2>1, <2>6, Short
      <3> QED BY <3>1
    <2>8. Answering(y)'
      BY <1>1, <2>1, <2>2, <2>4, <2>5, <2>6, <2>7 DEF Answering, Stream, Pulls
    <2> QED BY <1>1, <2>8, Phases
  <1>6. CASE WriteAnswer(z)
    <2>1. PICK h : h = Head(answer[z])
      OBVIOUS
    <2>2. /\ pc[z] = "answer" /\ pc'[z] = IF Len(answer[z]) = 1 THEN "serve" ELSE "answer"
          /\ pc'[y] = pc[y] /\ wire'[z] = Append(wire[z], h) /\ wire'[y] = wire[y]
      BY <1>1, <1>6, <2>1, Effects DEF WriteAnswer
    <2>3. Answering(y)
      BY <1>1, <2>2, Where
    <2>4. /\ pc[y] \in Pulls /\ wire[y] = <<>> /\ Stream(answer[z])
          /\ \A i \in 1 .. Len(wire[z]) : wire[z][i].kind = "events"
      BY <1>1, <2>3 DEF Answering
    <2>5. h \in Message
      BY <1>3, <2>1, <2>4, StreamTail
    <2>6. PICK w, n : w = Append(wire[z], h) /\ n = Len(wire[z])
      OBVIOUS
    <2>7. /\ n \in Nat /\ w # <<>> /\ Len(w) = n + 1 /\ w[Len(w)] = h
          /\ \A i \in 1 .. n : w[i].kind = "events"
      BY <1>3, <2>4, <2>5, <2>6, AppendProperties
    <2>8. CASE Len(answer[z]) = 1
      <3>1. h = DoneMsg
        BY <1>3, <2>1, <2>4, <2>8, StreamTail
      <3>2. \A i \in 1 .. Len(w) : i # Len(w) => i \in 1 .. n
        BY <2>7
      <3>3. Stream(w)
        BY <2>7, <3>1, <3>2 DEF Stream
      <3>4. Answered(y)'
        BY <1>1, <2>2, <2>4, <2>6, <2>8, <3>3 DEF Answered, Stream
      <3> QED BY <1>1, <3>4, Phases
    <2>9. CASE Len(answer[z]) # 1
      <3>1. h.kind = "events" /\ Stream(Tail(answer[z]))
        BY <1>3, <2>1, <2>4, <2>9, StreamTail
      <3>2. \A i \in 1 .. Len(w) : i = Len(w) \/ i \in 1 .. n
        BY <2>7
      <3>3. \A i \in 1 .. Len(w) : w[i].kind = "events"
        BY <2>7, <3>1, <3>2
      <3>4. answer'[z] = Tail(answer[z])
        BY <1>1, <1>6 DEF WriteAnswer, ConnTypes
      <3>5. Answering(y)'
        BY <1>1, <2>2, <2>4, <2>6, <2>9, <3>1, <3>3, <3>4 DEF Answering, Stream
      <3> QED BY <1>1, <3>5, Phases
    <2> QED BY <2>8, <2>9
  <1>7. CASE ReplyZens(z)
    <2>1. pc[z] = "serve" /\ wire[y] # <<>> /\ Head(wire[y]).kind = "zens" /\ pc' = pc
      BY <1>1, <1>7 DEF ReplyZens, Incoming
    <2>2. Offered(y) /\ Tail(wire[y]) = <<>>
      BY <1>1, <2>1, ServeReads
    <2>3. PICK R : R = known'[z]
      OBVIOUS
    <2>4. wire' = [wire EXCEPT ![y] = Tail(@), ![z] = Append(@, ZensMsg(R))]
      BY <1>1, <1>7, <2>3 DEF ReplyZens
    <2>5. wire'[y] = Tail(wire[y]) /\ wire'[z] = Append(wire[z], ZensMsg(R))
      BY <1>1, <2>4 DEF ConnTypes
    <2>6. R \in SUBSET Zens
      <3>1. TypeInv'
        BY <1>7, ServeTypes
      <3> QED BY <2>3, <3>1 DEF TypeInv, PullTypes
    <2>7. y = initiator /\ pc[y] = "zensWait" /\ wire[z] = <<>>
      BY <1>1, <2>2 DEF Offered
    <2>8. wire'[z] = <<ZensMsg(R)>> /\ wire'[y] = <<>>
      BY <2>2, <2>5, <2>7, Short
    <2>9. Replied(y)'
      BY <1>1, <1>2, <2>1, <2>6, <2>7, <2>8 DEF Replied
    <2> QED BY <1>1, <2>9, Phases
  <1>8. CASE ReadReverse(z)
    <2>1. /\ pc[z] = "serve" /\ pc'[z] = "pullPost" /\ pc'[y] = pc[y]
          /\ wire'[y] = Tail(wire[y]) /\ wire'[z] = wire[z]
          /\ wire[y] # <<>> /\ Head(wire[y]).kind = "reverse"
      BY <1>1, <1>8, Effects DEF ReadReverse, Incoming
    <2>2. Reversed(y) /\ wire'[y] = <<>>
      BY <1>1, <2>1, ServeReads
    <2>3. Asking(z)'
      BY <1>1, <2>1, <2>2 DEF Reversed, Asking, Waits, Greeting
    <2> QED BY <2>3, Phases
  <1> QED BY <1>5, <1>6, <1>7, <1>8

\* The initiator between its pulls and its turn to serve.
LEMMA ZensTalk ==
    ASSUME TypeInv, Talk, NEW z \in Zens, SendZens(z) \/ ReadZens(z) \/ SendReverse(z)
    PROVE  Talk'
  <1>0. PICK y : y = Peer(z)
    OBVIOUS
  <1>1. /\ y \in Zens /\ y # z /\ Peer(y) = z /\ Peer(z) = y
        /\ ConnTypes
    BY <1>0, TwoZens DEF TypeInv
  <1>2. UNCHANGED initiator
    BY DEF SendZens, ReadZens, SendReverse
  <1>3. CASE SendZens(z)
    <2>1. PICK R : R = known[z]
      OBVIOUS
    <2>2. /\ pc[z] = "zens" /\ pc'[z] = "zensWait" /\ pc'[y] = pc[y]
          /\ wire'[z] = Append(wire[z], ZensMsg(R)) /\ wire'[y] = wire[y]
      BY <1>1, <1>3, <2>1, Effects DEF SendZens
    <2>3. Idle(z)
      BY <1>1, <2>2, Where
    <2>4. wire'[z] = <<ZensMsg(R)>> /\ R \in SUBSET Zens
      BY <2>1, <2>2, <2>3, Short DEF Idle, TypeInv, PullTypes
    <2>5. Offered(z)'
      BY <1>1, <1>2, <2>2, <2>3, <2>4 DEF Idle, Offered
    <2> QED BY <2>5, Phases
  <1>4. CASE ReadZens(z)
    <2>1. /\ pc[z] = "zensWait" /\ pc'[z] = "reverse" /\ pc'[y] = pc[y] /\ wire[y] # <<>>
          /\ wire'[y] = Tail(wire[y]) /\ wire'[z] = wire[z]
      BY <1>1, <1>4, Effects DEF ReadZens, Incoming
    <2>2. Replied(z)
      BY <1>1, <2>1, Where
    <2>3. wire'[y] = <<>>
      BY <1>1, <2>1, <2>2, Short DEF Replied
    <2>4. Idle(z)'
      BY <1>1, <1>2, <2>1, <2>2, <2>3 DEF Replied, Idle
    <2> QED BY <2>4, Phases
  <1>5. CASE SendReverse(z)
    <2>1. /\ pc[z] = "reverse" /\ pc'[z] = "serve" /\ pc'[y] = pc[y]
          /\ wire'[z] = Append(wire[z], ReverseMsg) /\ wire'[y] = wire[y]
      BY <1>1, <1>5, Effects DEF SendReverse
    <2>2. Idle(z)
      BY <1>1, <2>1, Where
    <2>3. wire'[z] = <<ReverseMsg>>
      BY <2>1, <2>2, Short DEF Idle
    <2>4. Reversed(z)'
      BY <1>1, <1>2, <2>1, <2>2, <2>3 DEF Idle, Reversed
    <2> QED BY <2>4, Phases
  <1> QED BY <1>3, <1>4, <1>5

----------------------------------------------------------------------------
(* A connection that is down, or goes down.                                *)

\* Places where nothing is read, or whatever is read has been checked.
Silent == Places \ ({"hello", "auth", "gotAuth", "serve", "zensWait"} \cup Pulls)

\* Nobody writes: the streams only get shorter.
LEMMA DeadReads ==
    ASSUME TypeInv, AllReadable, NEW z \in Zens, SessionStep(z), ~up'
    PROVE  AllReadable'
  <1>0. PICK y : y = Peer(z)
    OBVIOUS
  <1>1. /\ y \in Zens /\ y # z /\ Peer(y) = z /\ Peer(z) = y /\ \A x \in Zens : x = z \/ x = y
        /\ ConnTypes /\ wire[y] \in Seq(Message)
    BY <1>0, TwoZens DEF TypeInv, ConnTypes
  <1>2. Readable(z, wire[y]) /\ Readable(y, wire[z])
    BY <1>1 DEF AllReadable
  <1>3. ASSUME pc'[y] = pc[y], wire'[z] = wire[z], initiator' = initiator, Readable(z, wire[y])'
        PROVE  AllReadable'
    <2>1. Readable(y, wire[z])'
      BY <1>2, <1>3 DEF Readable, FirstIs
    <2> QED BY <1>1, <1>3, <2>1 DEF AllReadable
  <1>4. ASSUME pc'[z] \in Silent PROVE Readable(z, wire[y])'
    BY <1>4 DEF Silent, Readable, Pulls
  <1>5. ~(SendAuth(z) \/ SendRequest(z) \/ WriteAnswer(z) \/ SendZens(z) \/ SendReverse(z))
    BY DEF SendAuth, SendRequest, WriteAnswer, SendZens, SendReverse, Write
  <1>6. CASE ReadHello(z) \/ ReadRequest(z) \/ ReadReverse(z) \/ ReadZens(z)
    <2>1. /\ \E l \in {"gotHello", "answer", "pullPost", "reverse"} : Goto(z, l)
          /\ Consume(z) /\ initiator' = initiator
      BY <1>6 DEF ReadHello, ReadRequest, ReadReverse, ReadZens
    <2>2. pc'[z] \in {"gotHello", "answer", "pullPost", "reverse"} /\ pc'[y] = pc[y]
          /\ wire'[z] = wire[z]
      BY <1>1, <2>1, Effects
    <2>3. pc'[z] \in Silent
      BY <2>2 DEF Silent, Places, Shake, Pulls
    <2> QED BY <1>3, <1>4, <2>1, <2>2, <2>3
  <1>7. CASE ReadDone(z) \/ PullEOF(z) \/ ServeEOF(z) \/ Abort(z)
    <2>1. \E l \in {"pullPost", "pullProfile", "zens", "off"} : Goto(z, l)
      BY <1>7 DEF ReadDone, PullEOF, ServeEOF, Abort, FinishPull, AfterPull, Close
    <2>2. initiator' = initiator /\ (Consume(z) \/ wire' = wire)
      BY <1>7 DEF ReadDone, PullEOF, ServeEOF, Abort
    <2>3. pc'[z] \in {"pullPost", "pullProfile", "zens", "off"} /\ pc'[y] = pc[y]
          /\ wire'[z] = wire[z]
      BY <1>1, <2>1, <2>2, Effects
    <2>4. pc'[z] \in Silent
      BY <2>3 DEF Silent, Places, Shake, Pulls
    <2> QED BY <1>3, <1>4, <2>2, <2>3, <2>4
  <1>8. CASE ReadAuth(z)
    <2>1. /\ pc[z] = "auth" /\ pc'[z] = "gotAuth" /\ pc'[y] = pc[y] /\ wire[y] # <<>>
          /\ wire'[y] = Tail(wire[y]) /\ wire'[z] = wire[z] /\ initiator' = initiator
      BY <1>1, <1>8, Effects DEF ReadAuth, Incoming
    <2>2. Readable(z, wire[y])'
      BY <1>2, <2>1 DEF Readable, FirstIs, Pulls
    <2> QED BY <1>3, <2>1, <2>2
  <1>9. CASE Authed(z)
    <2>1. /\ pc[z] = "gotAuth" /\ pc'[y] = pc[y] /\ wire' = wire /\ initiator' = initiator
          /\ pc'[z] = IF z = initiator THEN "pullPost" ELSE "serve"
      BY <1>1, <1>9, Effects DEF Authed
    <2>2. Readable(z, wire[y])'
      BY <1>2, <2>1 DEF Readable, FirstIs, Pulls
    <2> QED BY <1>3, <2>1, <2>2
  <1>10. CASE ReadEvents(z)
    <2>1. /\ pc[z] = "reading" /\ pc'[z] = "merging" /\ pc'[y] = pc[y] /\ wire[y] # <<>>
          /\ wire'[y] = Tail(wire[y]) /\ wire'[z] = wire[z] /\ initiator' = initiator
      BY <1>1, <1>10, Effects DEF ReadEvents, Incoming
    <2>2. \A i \in 1 .. Len(wire'[y]) : wire'[y][i].kind \in {"events", "done"}
      <3>1. /\ Len(wire'[y]) = Len(wire[y]) - 1 /\ Len(wire[y]) \in Nat
            /\ \A i \in 1 .. Len(wire'[y]) : wire'[y][i] = wire[y][i + 1]
        BY <1>1, <2>1, HeadTailProperties
      <3>2. \A i \in 1 .. Len(wire[y]) : wire[y][i].kind \in {"events", "done"}
        BY <1>2, <2>1 DEF Readable, Pulls
      <3>3. \A i \in 1 .. Len(wire'[y]) : i + 1 \in 1 .. Len(wire[y])
        BY <3>1
      <3> QED BY <3>1, <3>2, <3>3
    <2>3. Readable(z, wire[y])'
      BY <2>1, <2>2 DEF Readable, Pulls
    <2> QED BY <1>3, <2>1, <2>3
  <1>11. CASE MergeEvent(z)
    <2>1. /\ pc[z] = "merging" /\ pc'[z] \in Pulls /\ pc'[y] = pc[y] /\ wire' = wire
          /\ initiator' = initiator
      BY <1>1, <1>11, Effects DEF MergeEvent, Pulls
    <2>2. Readable(z, wire[y])'
      BY <1>2, <2>1 DEF Readable, Pulls
    <2> QED BY <1>3, <2>1, <2>2
  <1>12. CASE ReplyZens(z)
    <2>1. /\ pc[z] = "serve" /\ pc' = pc /\ wire[y] # <<>> /\ Head(wire[y]).kind = "zens"
          /\ wire' = [wire EXCEPT ![y] = Tail(@), ![z] = @] /\ initiator' = initiator
      BY <1>1, <1>12 DEF ReplyZens, Incoming
    <2>2. wire'[y] = Tail(wire[y]) /\ wire'[z] = wire[z]
      BY <1>1, <2>1 DEF ConnTypes
    <2>3. z # initiator /\ wire'[y] = <<>>
      BY <1>2, <2>1, <2>2 DEF Readable, FirstIs
    <2>4. Readable(z, wire[y])'
      BY <2>1, <2>3 DEF Readable, FirstIs, Pulls
    <2> QED BY <1>3, <2>1, <2>2, <2>4
  <1> QED BY <1>5, <1>6, <1>7, <1>8, <1>9, <1>10, <1>11, <1>12 DEF SessionStep

----------------------------------------------------------------------------
(* The invariant.                                                          *)

\* Nobody talks initially.
LEMMA InitStep == Init => StepInv
  <1> SUFFICES ASSUME Init PROVE AllReadable /\ ~up
    BY DEF StepInv
  <1>1. \A z \in Zens : pc[z] = "off"
    BY DEF Init
  <1> QED BY <1>1 DEF Init, AllReadable, Readable, Pulls

\* Every step keeps the conversation in step.
LEMMA NextStep == TypeInv /\ StepInv /\ [Next]_vars => StepInv'
  <1> SUFFICES ASSUME TypeInv, StepInv, [Next]_vars PROVE StepInv'
    OBVIOUS
  <1>1. AllReadable
    <2>1. CASE up
      BY <2>1, TalkReads DEF StepInv, AllReadable
    <2>2. CASE ~up
      BY <2>2 DEF StepInv
    <2> QED BY <2>1, <2>2
  <1>2. ASSUME UNCHANGED <<pc, initiator, wire, answer, log, after>>, up' = up \/ ~up' PROVE StepInv'
    <2>1. AllReadable'
      BY <1>1, <1>2 DEF AllReadable, Readable, FirstIs
    <2>2. CASE up'
      <3>1. Talk
        BY <1>2, <2>2 DEF StepInv
      <3>2. Shaking => Shaking'
        BY <1>2 DEF Shaking, Unread, Wrote
      <3>3. \A z \in Zens : Ready(z) => Ready(z)'
        BY <1>2 DEF Ready, Greeting
      <3>4. \A z \in Zens : Pulling(z) => Pulling(z)'
        BY <1>2 DEF Pulling, Asking, Asked, Answering, Answered, Waits, Greeting, Stream
      <3>5. \A z \in Zens : Between(z) => Between(z)'
        BY <1>2 DEF Between, Idle, Offered, Replied, Reversed
      <3>6. Talk'
        BY <3>1, <3>2, <3>3, <3>4, <3>5 DEF Talk
      <3> QED BY <2>2, <3>6 DEF StepInv
    <2>3. CASE ~up'
      BY <2>1, <2>3 DEF StepInv
    <2> QED BY <2>2, <2>3
  <1>3. CASE UNCHANGED vars
    BY <1>2, <1>3 DEF vars, sessionVars, connVars, pullVars
  <1>4. CASE Break
    BY <1>2, <1>4 DEF Break, pullVars
  <1>5. ASSUME NEW z \in Zens, AuthorStep(z) PROVE StepInv'
    BY <1>2, <1>5 DEF AuthorStep, sessionVars, connVars, pullVars
  <1>6. ASSUME NEW z \in Zens, Connect(z) PROVE StepInv'
    <2>1. up' /\ pc' = [y \in Zens |-> "hello"] /\ wire' = [y \in Zens |-> <<Hello>>]
      BY <1>6 DEF Connect
    <2>2. \A y \in Zens : /\ pc'[y] = "hello" /\ wire'[y] = <<Hello>>
                          /\ pc'[Peer(y)] = "hello" /\ Peer(y) \in Zens
      BY <2>1, TwoZens
    <2>3. Shaking'
      BY <2>2 DEF Shaking, Unread, Wrote, Shake
    <2> QED BY <2>1, <2>3 DEF StepInv, Talk
  <1>7. ASSUME NEW z \in Zens, SessionStep(z) PROVE StepInv'
    <2>1. CASE ~up'
      BY <1>1, <1>7, <2>1, DeadReads DEF StepInv
    <2>2. CASE up'
      <3>1. up
        BY <1>7, <2>2 DEF SessionStep, ReadHello, SendAuth, ReadAuth, Authed, SendRequest, ReadEvents,
             MergeEvent, ReadDone, PullEOF, FinishPull, AfterPull, Close, ReadRequest, WriteAnswer,
             ReplyZens, ReadReverse, ServeEOF, SendZens, ReadZens, SendReverse, Abort
      <3>2. Talk
        BY <3>1 DEF StepInv
      <3>3. ~(PullEOF(z) \/ ServeEOF(z) \/ Abort(z))
        BY <3>1 DEF PullEOF, ServeEOF, Abort
      <3>4. CASE ReadHello(z) \/ SendAuth(z) \/ ReadAuth(z) \/ Authed(z)
        BY <2>2, <3>2, <3>4, ShakeTalk DEF StepInv
      <3>5. CASE SendRequest(z) \/ ReadEvents(z) \/ MergeEvent(z) \/ ReadDone(z)
        BY <2>2, <3>2, <3>5, PullTalk DEF StepInv
      <3>6. CASE ReadRequest(z) \/ WriteAnswer(z) \/ ReplyZens(z) \/ ReadReverse(z)
        BY <2>2, <3>1, <3>2, <3>6, ServeTalk DEF StepInv
      <3>7. CASE SendZens(z) \/ ReadZens(z) \/ SendReverse(z)
        BY <2>2, <3>2, <3>7, ZensTalk DEF StepInv
      <3> QED BY <1>7, <3>3, <3>4, <3>5, <3>6, <3>7 DEF SessionStep
    <2> QED BY <2>1, <2>2
  <1> QED BY <1>3, <1>4, <1>5, <1>6, <1>7, SessionAssumption DEF Next

\* What is readable is what the code has a case for.
LEMMA StepExpects == TypeInv /\ StepInv => InStep
  <1> SUFFICES ASSUME TypeInv, StepInv, NEW z \in Zens, wire[Peer(z)] # <<>>
               PROVE  Msg(z).kind \in Expected(z)
    BY DEF InStep
  <1>1. PICK w, k : w = wire[Peer(z)] /\ k = Msg(z).kind
    OBVIOUS
  <1>2. Readable(z, w)
    <2>1. CASE up
      BY <1>1, <2>1, TalkReads DEF StepInv
    <2>2. CASE ~up
      BY <1>1, <2>2 DEF StepInv, AllReadable
    <2> QED BY <2>1, <2>2
  <1>3. /\ w \in Seq(Message) /\ w # <<>> /\ k = Head(w).kind
        /\ k \in {"hello", "auth", "request", "events", "done", "zens", "reverse"}
    <2>1. w \in Seq(Message)
      BY <1>1, TwoZens DEF TypeInv, ConnTypes
    <2>2. Msg(z) \in Message
      BY Reading DEF TypeInv
    <2> QED BY <1>1, <2>1, <2>2, Messages DEF Msg
  <1>4. pc[z] = "reading" => k \in {"events", "done"}
    <2>1. Head(w) = w[1] /\ 1 \in 1 .. Len(w)
      BY <1>3
    <2> QED BY <1>2, <1>3, <2>1 DEF Readable, Pulls
  <1>5. /\ pc[z] = "hello" => k = "hello"
        /\ pc[z] = "auth" => k = "auth"
        /\ pc[z] = "zensWait" => k = "zens"
        /\ pc[z] = "serve" /\ z = initiator => k = "request"
        /\ pc[z] = "serve" /\ z # initiator => k \in {"request", "zens", "reverse"}
    BY <1>2, <1>3 DEF Readable, FirstIs
  <1> QED BY <1>1, <1>3, <1>4, <1>5 DEF Expected

----------------------------------------------------------------------------
(* Theorems.                                                               *)

\* Initiator and listener never read a message they have no case for, whatever
\* the buffering of the connection and wherever it breaks (Handshake, pullLog,
\* serve, serveWithZens, exchangeZens).
THEOREM SessionsStayInStep == Spec => []InStep
  <1>1. Init => TypeInv /\ StepInv
    BY InitTypes, InitStep
  <1>2. TypeInv /\ StepInv /\ [Next]_vars => TypeInv' /\ StepInv'
    BY NextTypes, NextStep
  <1>3. TypeInv /\ StepInv => InStep
    BY StepExpects
  <1> QED BY <1>1, <1>2, <1>3, PTL DEF Spec

----------------------------------------------------------------------------
(* Sessions implement LogSync.  First, what messages carry and in which    *)
(* order.                                                                  *)

Items(m) == IF m.kind = "events" THEN Range(m.items) ELSE {}

\* The events of S come before those of T.
Sooner(S, T) == \A e \in S : \A f \in T : e # f /\ e.ts <= f.ts

InOrder(s) == \A i, j \in 1 .. Len(s) : i < j => s[i] # s[j] /\ s[i].ts <= s[j].ts

Sorted(w) ==
    \A i \in 1 .. Len(w) :
        /\ w[i].kind = "events" => InOrder(w[i].items)
        /\ \A j \in 1 .. Len(w) : i < j => Sooner(Items(w[i]), Items(w[j]))

\* A sequence and its tail.
LEMMA Tails ==
    ASSUME NEW S, NEW s \in Seq(S), s # <<>>, NEW t, t = Tail(s)
    PROVE  /\ t \in Seq(S) /\ Len(s) \in Nat \ {0} /\ Len(t) \in Nat /\ Len(s) = Len(t) + 1
           /\ Head(s) = s[1] /\ Head(s) \in S
           /\ \A i \in 1 .. Len(t) : i + 1 \in 1 .. Len(s) /\ t[i] = s[i + 1]
           /\ \A i \in 1 .. Len(s) : i = 1 \/ (i - 1 \in 1 .. Len(t) /\ s[i] = t[i - 1])
           /\ t = <<>> <=> Len(s) = 1
  <1>1. t \in Seq(S) /\ Len(t) = Len(s) - 1 /\ Len(s) \in Nat \ {0} /\ Head(s) \in S
        /\ \A i \in 1 .. Len(t) : t[i] = s[i + 1]
    BY HeadTailProperties
  <1>2. Head(s) = s[1]
    OBVIOUS
  <1>3. Len(t) \in Nat /\ Len(s) = Len(t) + 1
    BY <1>1
  <1>4. \A i \in 1 .. Len(t) : i + 1 \in 1 .. Len(s)
    BY <1>1, <1>3
  <1>5. ASSUME NEW i \in 1 .. Len(s), i # 1 PROVE i - 1 \in 1 .. Len(t) /\ s[i] = t[i - 1]
    <2>1. i - 1 \in 1 .. Len(t) /\ (i - 1) + 1 = i
      BY <1>3, <1>5
    <2> QED BY <1>1, <2>1
  <1>6. t = <<>> <=> Len(t) = 0
    BY <1>1, EmptySeq
  <1> QED BY <1>1, <1>2, <1>3, <1>4, <1>5, <1>6

\* What is appended is last, the rest stays where it was.
LEMMA Appends ==
    ASSUME NEW S, NEW s \in Seq(S), NEW m \in S, NEW t, t = Append(s, m)
    PROVE  /\ t \in Seq(S) /\ t # <<>> /\ Len(s) \in Nat /\ Len(t) = Len(s) + 1 /\ t[Len(t)] = m
           /\ \A i \in 1 .. Len(t) : i = Len(t) \/ i \in 1 .. Len(s)
           /\ \A i \in 1 .. Len(s) : i \in 1 .. Len(t) /\ i # Len(t) /\ t[i] = s[i]
  <1>1. t \in Seq(S) /\ t # <<>> /\ Len(s) \in Nat /\ Len(t) = Len(s) + 1 /\ t[Len(s) + 1] = m
        /\ \A i \in 1 .. Len(s) : t[i] = s[i]
    BY AppendProperties
  <1>2. /\ \A i \in 1 .. Len(t) : i = Len(t) \/ i \in 1 .. Len(s)
        /\ \A i \in 1 .. Len(s) : i \in 1 .. Len(t) /\ i # Len(t)
    BY <1>1
  <1> QED BY <1>1, <1>2

\* The range of a sequence, by its indices.
LEMMA RangeIs ==
    ASSUME NEW S, NEW s \in Seq(S), NEW e
    PROVE  e \in Range(s) <=> \E i \in 1 .. Len(s) : e = s[i]
  <1>1. DOMAIN s = 1 .. Len(s)
    OBVIOUS
  <1> QED BY <1>1 DEF Range

\* The range of what is left.
LEMMA RangeTail ==
    ASSUME NEW S, NEW s \in Seq(S), s # <<>>, NEW t, t = Tail(s)
    PROVE  Range(s) = {Head(s)} \cup Range(t)
  <1>1. /\ t \in Seq(S) /\ Head(s) = s[1] /\ 1 \in 1 .. Len(s)
        /\ \A i \in 1 .. Len(t) : i + 1 \in 1 .. Len(s) /\ t[i] = s[i + 1]
        /\ \A i \in 1 .. Len(s) : i = 1 \/ (i - 1 \in 1 .. Len(t) /\ s[i] = t[i - 1])
    BY Tails
  <1>2. /\ \A e : e \in Range(s) <=> \E i \in 1 .. Len(s) : e = s[i]
        /\ \A e : e \in Range(t) <=> \E i \in 1 .. Len(t) : e = t[i]
    <2>1. ASSUME NEW e PROVE e \in Range(s) <=> \E i \in 1 .. Len(s) : e = s[i]
      BY RangeIs
    <2>2. ASSUME NEW e PROVE e \in Range(t) <=> \E i \in 1 .. Len(t) : e = t[i]
      <3>1. DOMAIN t = 1 .. Len(t)
        BY <1>1
      <3> QED BY <3>1 DEF Range
    <2> QED BY <2>1, <2>2
  <1>3. ASSUME NEW e \in Range(s) PROVE e = Head(s) \/ e \in Range(t)
    <2>1. PICK i \in 1 .. Len(s) : e = s[i]
      BY <1>2
    <2> QED BY <1>1, <1>2, <2>1
  <1>4. ASSUME NEW e, e = Head(s) \/ e \in Range(t) PROVE e \in Range(s)
    BY <1>1, <1>2, <1>4
  <1> QED BY <1>3, <1>4

\* What a stream carries.
LEMMA EventsInIs ==
    ASSUME NEW w \in Seq(Message), NEW e
    PROVE  e \in EventsIn(w) <=> \E i \in 1 .. Len(w) : e \in Items(w[i])
  <1>1. Range(w) = {w[i] : i \in 1 .. Len(w)}
    BY DEF Range
  <1>2. e \in EventsIn(w) <=> \E m \in Range(w) : e \in Items(m)
    BY DEF EventsIn, Items
  <1> QED BY <1>1, <1>2

\* An empty wire holds no events.
LEMMA EventsEmpty == EventsIn(<<>>) = {}
  <1>1. <<>> \in Seq(Message) /\ 1 .. Len(<<>>) = {}
    OBVIOUS
  <1> QED BY <1>1, EventsInIs

\* Reading a message takes its events.
LEMMA EventsTail ==
    ASSUME NEW w \in Seq(Message), w # <<>>, NEW t, t = Tail(w)
    PROVE  EventsIn(w) = Items(Head(w)) \cup EventsIn(t)
  <1>1. /\ t \in Seq(Message) /\ Head(w) = w[1] /\ 1 \in 1 .. Len(w)
        /\ \A i \in 1 .. Len(t) : i + 1 \in 1 .. Len(w) /\ t[i] = w[i + 1]
        /\ \A i \in 1 .. Len(w) : i = 1 \/ (i - 1 \in 1 .. Len(t) /\ w[i] = t[i - 1])
    BY Tails
  <1>2. \A e : e \in EventsIn(w) <=> \E i \in 1 .. Len(w) : e \in Items(w[i])
    BY EventsInIs
  <1>3. \A e : e \in EventsIn(t) <=> \E i \in 1 .. Len(t) : e \in Items(t[i])
    BY <1>1, EventsInIs
  <1>4. ASSUME NEW e \in EventsIn(w) PROVE e \in Items(Head(w)) \cup EventsIn(t)
    <2>1. PICK i \in 1 .. Len(w) : e \in Items(w[i])
      BY <1>2
    <2> QED BY <1>1, <1>3, <2>1
  <1>5. ASSUME NEW e \in Items(Head(w)) \cup EventsIn(t) PROVE e \in EventsIn(w)
    BY <1>1, <1>2, <1>3
  <1> QED BY <1>4, <1>5

\* Sending a message adds its events.
LEMMA EventsAppend ==
    ASSUME NEW w \in Seq(Message), NEW m \in Message, NEW t, t = Append(w, m)
    PROVE  EventsIn(t) = EventsIn(w) \cup Items(m)
  <1>1. /\ t \in Seq(Message) /\ t[Len(t)] = m /\ Len(t) \in 1 .. Len(t)
        /\ \A i \in 1 .. Len(t) : i = Len(t) \/ i \in 1 .. Len(w)
        /\ \A i \in 1 .. Len(w) : i \in 1 .. Len(t) /\ i # Len(t) /\ t[i] = w[i]
    BY Appends
  <1>2. \A e : e \in EventsIn(w) <=> \E i \in 1 .. Len(w) : e \in Items(w[i])
    BY EventsInIs
  <1>3. \A e : e \in EventsIn(t) <=> \E i \in 1 .. Len(t) : e \in Items(t[i])
    BY <1>1, EventsInIs
  <1>4. ASSUME NEW e \in EventsIn(t) PROVE e \in EventsIn(w) \cup Items(m)
    BY <1>1, <1>2, <1>3
  <1>5. ASSUME NEW e \in EventsIn(w) \cup Items(m) PROVE e \in EventsIn(t)
    BY <1>1, <1>2, <1>3
  <1> QED BY <1>4, <1>5

\* Order is kept as messages are read, written and merged.
LEMMA SortedTail ==
    ASSUME NEW w \in Seq(Message), w # <<>>, Sorted(w), NEW t, t = Tail(w)
    PROVE  /\ Sorted(t) /\ Sooner(Items(Head(w)), EventsIn(t))
           /\ Head(w).kind = "events" => InOrder(Head(w).items)
  <1>1. /\ t \in Seq(Message) /\ Head(w) = w[1] /\ 1 \in 1 .. Len(w) /\ Len(t) \in Nat
        /\ \A i \in 1 .. Len(t) : i + 1 \in 1 .. Len(w) /\ t[i] = w[i + 1]
    BY Tails
  <1>2. Sorted(t)
    <2>1. \A i, j \in 1 .. Len(t) : i < j => i + 1 < j + 1
      BY <1>1
    <2> QED BY <1>1, <2>1 DEF Sorted
  <1>3. Sooner(Items(Head(w)), EventsIn(t))
    <2>1. ASSUME NEW i \in 1 .. Len(t) PROVE Sooner(Items(w[1]), Items(t[i]))
      <3>1. 1 < i + 1
        BY <1>1
      <3> QED BY <1>1, <3>1 DEF Sorted
    <2>2. \A e : e \in EventsIn(t) <=> \E i \in 1 .. Len(t) : e \in Items(t[i])
      BY <1>1, EventsInIs
    <2> QED BY <1>1, <2>1, <2>2 DEF Sooner
  <1>4. Head(w).kind = "events" => InOrder(Head(w).items)
    BY <1>1 DEF Sorted
  <1> QED BY <1>2, <1>3, <1>4

\* Later events sent last keep the wire in order.
LEMMA SortedAppend ==
    ASSUME NEW w \in Seq(Message), Sorted(w), NEW m \in Message,
           Sooner(EventsIn(w), Items(m)), m.kind = "events" => InOrder(m.items),
           NEW t, t = Append(w, m)
    PROVE  Sorted(t)
  <1>1. /\ t[Len(t)] = m /\ Len(w) \in Nat /\ Len(t) = Len(w) + 1
        /\ \A i \in 1 .. Len(t) : i = Len(t) \/ i \in 1 .. Len(w)
        /\ \A i \in 1 .. Len(w) : t[i] = w[i]
    BY Appends
  <1>2. \A e : e \in EventsIn(w) <=> \E i \in 1 .. Len(w) : e \in Items(w[i])
    BY EventsInIs
  <1>3. ASSUME NEW i \in 1 .. Len(t) PROVE t[i].kind = "events" => InOrder(t[i].items)
    BY <1>1 DEF Sorted
  <1>4. ASSUME NEW i \in 1 .. Len(t), NEW j \in 1 .. Len(t), i < j
        PROVE  Sooner(Items(t[i]), Items(t[j]))
    <2>1. i \in 1 .. Len(w) /\ t[i] = w[i]
      BY <1>1, <1>4
    <2>2. CASE j = Len(t)
      BY <1>1, <1>2, <2>1, <2>2 DEF Sooner
    <2>3. CASE j \in 1 .. Len(w)
      BY <1>1, <1>4, <2>1, <2>3 DEF Sorted
    <2> QED BY <1>1, <2>2, <2>3
  <1> QED BY <1>3, <1>4 DEF Sorted

\* A sequence in time order begins with its earliest.
LEMMA OrderTail ==
    ASSUME NEW S, NEW s \in Seq(S), s # <<>>, InOrder(s), NEW t, t = Tail(s)
    PROVE  InOrder(t) /\ Sooner({Head(s)}, Range(t))
  <1>1. /\ t \in Seq(S) /\ Head(s) = s[1] /\ 1 \in 1 .. Len(s) /\ Len(t) \in Nat
        /\ \A i \in 1 .. Len(t) : i + 1 \in 1 .. Len(s) /\ t[i] = s[i + 1]
    BY Tails
  <1>2. \A i, j \in 1 .. Len(t) : i < j => i + 1 < j + 1
    BY <1>1
  <1>3. \A i \in 1 .. Len(t) : 1 < i + 1
    BY <1>1
  <1>4. \A e : e \in Range(t) <=> \E i \in 1 .. Len(t) : e = t[i]
    <2>1. t \in Seq(S)
      BY <1>1
    <2> QED BY <2>1, RangeIs, Zenon
  <1> QED BY <1>1, <1>2, <1>3, <1>4 DEF InOrder, Sooner

\* An answer is in order and carries what fetchOwnEvents returned.
LEMMA AnswerOrder ==
    ASSUME StoreTypes, NEW z \in Zens, NEW req, NEW a \in Answers(z, req)
    PROVE  Sorted(a) /\ EventsIn(a) = LS!fetchOwnEvents(z, req.log, req.after)
  <1>1. PICK S : S = LS!fetchOwnEvents(z, req.log, req.after)
    OBVIOUS
  <1>2. PICK s \in TimeOrders(S) :
              /\ s \in Seq(Event) /\ Batches(s) \in Seq(Batch(Event)) /\ a \in Seq(Message)
              /\ Len(a) = Len(Batches(s)) + 1 /\ Len(Batches(s)) \in Nat
              /\ a[Len(a)] = DoneMsg
              /\ \A i \in 1 .. Len(Batches(s)) : a[i] = Batches(s)[i]
    BY <1>1, AnswerIs
  <1>3. S \in EventSets /\ Cardinality(S) \in Nat
    BY <1>1, Fetched
  <1>4. PICK n : n = Cardinality(S)
    OBVIOUS
  <1>5. /\ s \in [1 .. n -> S] /\ DOMAIN s = 1 .. n
        /\ \A e \in S : \E i \in 1 .. n : s[i] = e
        /\ \A i, j \in 1 .. n : i < j => s[i].ts <= s[j].ts
    <2>1. s \in [1 .. n -> S]
      BY <1>2, <1>4 DEF TimeOrders
    <2>2. DOMAIN s = 1 .. n
      BY <2>1
    <2> QED BY <1>2, <2>1, <2>2 DEF TimeOrders
  <1>6. Len(s) = n
    BY <1>2, <1>3, <1>4, <1>5
  <1>7. \A i, j \in 1 .. n : s[i] = s[j] => i = j
    <2>1. s \in Surjection(1 .. n, S)
      BY <1>5 DEF Surjection
    <2>2. IsFiniteSet(1 .. n) /\ Cardinality(1 .. n) = n
      BY <1>3, <1>4, FS_Interval
    <2>3. s \in Injection(1 .. n, S)
      BY <1>4, <2>1, <2>2, FS_SurjSameCardinalityImpliesInj
    <2> QED BY <2>3 DEF Injection, IsInjective
  <1>8. PICK B : B = Batches(s)
    OBVIOUS
  <1>9. /\ \A i \in 1 .. Len(B) : \A j \in 1 .. Len(B[i].items) :
                  /\ Lo(i) - 1 + j \in Lo(i) .. Hi(i, n)
                  /\ Lo(i) - 1 + j \in 1 .. n
                  /\ B[i].items[j] = s[Lo(i) - 1 + j]
        /\ \A i, j \in 1 .. Len(B) : i < j => Hi(i, n) < Lo(j)
        /\ \A k \in 1 .. n : \E i \in 1 .. Len(B) : \E j \in 1 .. Len(B[i].items) :
                  k = Lo(i) - 1 + j
    <2>1. s \in Seq(Event) /\ n = Len(s)
      BY <1>2, <1>6
    <2>2. CutInto(s, n, B)
      BY <1>8, <2>1, BatchesCut
    <2> QED BY <2>2 DEF CutInto
  <1>10. ASSUME NEW i \in 1 .. Len(B)
         PROVE  /\ a[i] = B[i] /\ i \in 1 .. Len(a) /\ i # Len(a) /\ B[i].items \in Seq(Event)
                /\ \A e : e \in Items(a[i]) <=> \E j \in 1 .. Len(B[i].items) : e = B[i].items[j]
    <2>1. a[i] = B[i] /\ i \in 1 .. Len(a) /\ i # Len(a) /\ B[i] \in Batch(Event)
      BY <1>2, <1>8
    <2>2. B[i].kind = "events" /\ B[i].items \in Seq(Event)
      BY <2>1 DEF Batch
    <2> QED BY <2>1, <2>2, RangeIs DEF Items
  <1>11. Items(DoneMsg) = {} /\ DoneMsg.kind # "events"
    BY DEF Items, DoneMsg
  <1>12. \A i \in 1 .. Len(a) : i = Len(a) \/ i \in 1 .. Len(B)
    BY <1>2, <1>8
  <1>13. Lo(1) \in Int /\ BatchSize \in Nat \ {0} /\ \A i \in Int : Lo(i) \in Int
    BY SessionAssumption DEF Lo
  <1>14. ASSUME NEW i \in 1 .. Len(B) PROVE InOrder(a[i].items)
    <2> SUFFICES ASSUME NEW j \in 1 .. Len(B[i].items), NEW k \in 1 .. Len(B[i].items), j < k
                 PROVE  /\ B[i].items[j] # B[i].items[k] /\ B[i].items[j].ts <= B[i].items[k].ts
      BY <1>10 DEF InOrder
    <2>1. PICK x \in Int : x = Lo(i) - 1
      BY <1>2, <1>8, <1>13
    <2>2. /\ x + j \in 1 .. n /\ x + k \in 1 .. n
          /\ B[i].items[j] = s[x + j] /\ B[i].items[k] = s[x + k]
      BY <1>9, <2>1
    <2>3. x + j < x + k /\ x + j # x + k
      BY <1>10, <2>1
    <2> QED BY <1>5, <1>7, <2>2, <2>3
  <1>15. ASSUME NEW i \in 1 .. Len(B), NEW j \in 1 .. Len(B), i < j
         PROVE  Sooner(Items(a[i]), Items(a[j]))
    <2> SUFFICES ASSUME NEW e \in Items(a[i]), NEW f \in Items(a[j])
                 PROVE  e # f /\ e.ts <= f.ts
      BY DEF Sooner
    <2>1. PICK k \in 1 .. Len(B[i].items) : e = B[i].items[k]
      BY <1>10, Zenon
    <2>2. PICK l \in 1 .. Len(B[j].items) : f = B[j].items[l]
      BY <1>10, Zenon
    <2>3. PICK p, q : p = Lo(i) - 1 + k /\ q = Lo(j) - 1 + l
      OBVIOUS
    <2>4. /\ p \in Lo(i) .. Hi(i, n) /\ p \in 1 .. n /\ e = s[p]
          /\ q \in Lo(j) .. Hi(j, n) /\ q \in 1 .. n /\ f = s[q]
          /\ Hi(i, n) < Lo(j)
      BY <1>9, <1>15, <2>1, <2>2, <2>3
    <2>5. p < q /\ p # q
      <3>1. Lo(i) \in Int /\ Lo(j) \in Int /\ Hi(i, n) \in Int
        BY <1>2, <1>3, <1>4, <1>8, <1>13 DEF Hi
      <3> QED BY <2>4, <3>1
    <2> QED BY <1>5, <1>7, <2>4, <2>5
  <1>16. Sorted(a)
    <2> SUFFICES ASSUME NEW i \in 1 .. Len(a)
                 PROVE  /\ a[i].kind = "events" => InOrder(a[i].items)
                        /\ \A j \in 1 .. Len(a) : i < j => Sooner(Items(a[i]), Items(a[j]))
      BY DEF Sorted
    <2>1. a[i].kind = "events" => InOrder(a[i].items)
      BY <1>2, <1>11, <1>12, <1>14
    <2>2. ASSUME NEW j \in 1 .. Len(a), i < j PROVE Sooner(Items(a[i]), Items(a[j]))
      <3>1. CASE j = Len(a)
        BY <1>2, <1>11, <3>1 DEF Sooner
      <3>2. CASE j # Len(a)
        <4>1. i \in 1 .. Len(B) /\ j \in 1 .. Len(B)
          <5>1. j \in 1 .. Len(B)
            BY <1>12, <3>2
          <5>2. i # Len(a)
            BY <1>2, <1>8, <2>2, <5>1
          <5> QED BY <1>12, <5>1, <5>2
        <4> QED BY <1>15, <2>2, <4>1
      <3> QED BY <3>1, <3>2
    <2> QED BY <2>1, <2>2
  <1>17. EventsIn(a) = S
    <2>1. \A e : e \in EventsIn(a) <=> \E i \in 1 .. Len(a) : e \in Items(a[i])
      BY <1>2, EventsInIs
    <2>2. ASSUME NEW e \in EventsIn(a) PROVE e \in S
      <3>1. PICK i \in 1 .. Len(a) : e \in Items(a[i])
        BY <2>1
      <3>2. i \in 1 .. Len(B)
        BY <1>2, <1>11, <1>12, <3>1
      <3>3. PICK j \in 1 .. Len(B[i].items) : e = B[i].items[j]
        BY <1>10, <3>1, <3>2
      <3> QED BY <1>5, <1>9, <3>2, <3>3
    <2>3. ASSUME NEW e \in S PROVE e \in EventsIn(a)
      <3>1. PICK k \in 1 .. n : s[k] = e
        BY <1>5
      <3>2. PICK i \in 1 .. Len(B) : \E j \in 1 .. Len(B[i].items) : k = Lo(i) - 1 + j
        BY <1>9
      <3>3. PICK j \in 1 .. Len(B[i].items) : k = Lo(i) - 1 + j
        BY <3>2
      <3>4. e = B[i].items[j]
        BY <1>9, <3>1, <3>3
      <3> QED BY <1>10, <2>1, <3>4
    <2> QED BY <2>2, <2>3
  <1> QED BY <1>1, <1>16, <1>17

----------------------------------------------------------------------------
(* What is known of a pull.                                                *)

HasReq(w) == \E i \in DOMAIN w : w[i].kind = "request"

\* The stream ends with the request r, and holds no other.
EndsWith(w, r) ==
    /\ w # <<>> /\ w[Len(w)] = r
    /\ \A i \in 1 .. Len(w) : i # Len(w) => w[i].kind # "request"

\* Messages on the wire W, messages still to be written A, events being merged
\* B: one stream in time order, and Done is its end.
Flight(W, A, B) ==
    /\ Sorted(W) /\ Sorted(A) /\ InOrder(B)
    /\ Sooner(EventsIn(W), EventsIn(A))
    /\ Sooner(Range(B), EventsIn(W) \cup EventsIn(A))
    /\ \A i \in 1 .. Len(W) : W[i].kind = "done" => i = Len(W) /\ EventsIn(A) = {}

PullInv(z) ==
    /\ pc[z] \notin Pulls => after[z] = 0 /\ maxTS[z] = 0
    /\ pc[z] \in Pulls /\ HasReq(wire[z]) =>
          /\ pc[z] = "reading" /\ wire[Peer(z)] = <<>>
          /\ EndsWith(wire[z], Request(log[z], after[z]))
    /\ pc[z] \in Pulls /\ ~HasReq(wire[z]) => Flight(wire[Peer(z)], answer[Peer(z)], batch[z])

\* What reading a message leaves of a request on the wire.
LEMMA ReqTail ==
    ASSUME NEW w \in Seq(Message), w # <<>>, NEW t, t = Tail(w)
    PROVE  /\ Head(w).kind # "request" => (HasReq(t) <=> HasReq(w))
           /\ Head(w).kind = "request" => HasReq(w)
           /\ \A r : EndsWith(w, r) /\ r.kind = "request" /\ Head(w).kind # "request" => EndsWith(t, r)
           /\ \A r : EndsWith(w, r) /\ Head(w).kind = "request" => Head(w) = r /\ t = <<>>
  <1>1. /\ t \in Seq(Message) /\ Len(w) \in Nat \ {0} /\ Len(t) \in Nat /\ Len(w) = Len(t) + 1
        /\ Head(w) = w[1] /\ 1 \in 1 .. Len(w)
        /\ \A i \in 1 .. Len(t) : i + 1 \in 1 .. Len(w) /\ t[i] = w[i + 1]
        /\ \A i \in 1 .. Len(w) : i = 1 \/ (i - 1 \in 1 .. Len(t) /\ w[i] = t[i - 1])
        /\ t = <<>> <=> Len(w) = 1
    BY Tails
  <1>2. DOMAIN w = 1 .. Len(w) /\ DOMAIN t = 1 .. Len(t)
    BY <1>1
  <1>3. /\ HasReq(w) <=> \E i \in 1 .. Len(w) : w[i].kind = "request"
        /\ HasReq(t) <=> \E i \in 1 .. Len(t) : t[i].kind = "request"
    BY <1>2 DEF HasReq
  <1>4. ASSUME Head(w).kind # "request" PROVE HasReq(t) <=> HasReq(w)
    BY <1>1, <1>3, <1>4
  <1>5. Head(w).kind = "request" => HasReq(w)
    BY <1>1, <1>3
  <1>6. ASSUME NEW r, EndsWith(w, r), r.kind = "request", Head(w).kind # "request" PROVE EndsWith(t, r)
    <2>1. Len(w) # 1
      BY <1>1, <1>6 DEF EndsWith
    <2>2. t # <<>> /\ t[Len(t)] = r
      <3>1. Len(t) \in 1 .. Len(t)
        BY <1>1, <2>1
      <3> QED BY <1>1, <1>6, <2>1, <3>1 DEF EndsWith
    <2>3. ASSUME NEW i \in 1 .. Len(t), i # Len(t) PROVE t[i].kind # "request"
      <3>1. i + 1 # Len(w) /\ i + 1 \in 1 .. Len(w) /\ t[i] = w[i + 1]
        <4>1. PICK n \in Nat : n = Len(t)
          BY <1>1
        <4>2. i + 1 # n + 1
          BY <2>3, <4>1
        <4> QED BY <1>1, <4>1, <4>2
      <3> QED BY <1>6, <3>1 DEF EndsWith
    <2> QED BY <2>2, <2>3 DEF EndsWith
  <1>7. ASSUME NEW r, EndsWith(w, r), Head(w).kind = "request" PROVE Head(w) = r /\ t = <<>>
    <2>1. Len(w) = 1
      BY <1>1, <1>7 DEF EndsWith
    <2> QED BY <1>1, <1>7, <2>1 DEF EndsWith
  <1> QED BY <1>4, <1>5, <1>6, <1>7

----------------------------------------------------------------------------
(* What a step does to the two pulls, as LogSync sees them.                *)

Same(x) == PullPhase(x)' = PullPhase(x) /\ InTransit(x)' = InTransit(x)

\* The mapped phase of a pull, case by case.
LEMMA PhaseIs ==
    ASSUME NEW x \in Zens
    PROVE  /\ pc[x] \notin Pulls => PullPhase(x) = "idle" /\ InTransit(x) = {}
           /\ pc[x] \in Pulls /\ HasReq(wire[x]) => PullPhase(x) = "asked" /\ InTransit(x) = {}
           /\ pc[x] \in Pulls /\ ~HasReq(wire[x]) =>
                /\ PullPhase(x) = "stream"
                /\ InTransit(x) = EventsIn(answer[Peer(x)]) \cup EventsIn(wire[Peer(x)])
                                  \cup Range(batch[x])
           /\ pc'[x] \notin Pulls => PullPhase(x)' = "idle" /\ InTransit(x)' = {}
           /\ pc'[x] \in Pulls /\ HasReq(wire'[x]) => PullPhase(x)' = "asked" /\ InTransit(x)' = {}
           /\ pc'[x] \in Pulls /\ ~HasReq(wire'[x]) =>
                /\ PullPhase(x)' = "stream"
                /\ InTransit(x)' = EventsIn(answer'[Peer(x)]) \cup EventsIn(wire'[Peer(x)])
                                   \cup Range(batch'[x])
  <1>1. HasRequest(x) <=> HasReq(wire[x])
    BY DEF HasRequest, HasReq
  <1>2. HasRequest(x)' <=> HasReq(wire'[x])
    BY DEF HasRequest, HasReq
  <1>3. EventsIn(answer[Peer(x)])' = EventsIn(answer'[Peer(x)])
        /\ EventsIn(wire[Peer(x)])' = EventsIn(wire'[Peer(x)])
    BY DEF EventsIn
  <1>4. PullPhase(x) = IF pc[x] \notin Pulls THEN "idle" ELSE IF HasReq(wire[x]) THEN "asked" ELSE "stream"
    BY <1>1 DEF PullPhase, Pulls
  <1>5. PullPhase(x)' = IF pc'[x] \notin Pulls THEN "idle" ELSE IF HasReq(wire'[x]) THEN "asked" ELSE "stream"
    BY <1>2 DEF PullPhase, Pulls
  <1>6. InTransit(x) = IF PullPhase(x) = "stream"
                       THEN EventsIn(answer[Peer(x)]) \cup EventsIn(wire[Peer(x)]) \cup Range(batch[x])
                       ELSE {}
    BY DEF InTransit
  <1>7. InTransit(x)' = IF PullPhase(x)' = "stream"
                        THEN EventsIn(answer'[Peer(x)]) \cup EventsIn(wire'[Peer(x)]) \cup Range(batch'[x])
                        ELSE {}
    BY <1>3 DEF InTransit, Range
  <1> QED BY <1>4, <1>5, <1>6, <1>7

\* PullInv in the next state.
LEMMA PullInvNext ==
    ASSUME NEW x \in Zens
    PROVE  PullInv(x)' <=>
              /\ pc'[x] \notin Pulls => after'[x] = 0 /\ maxTS'[x] = 0
              /\ pc'[x] \in Pulls /\ HasReq(wire'[x]) =>
                    /\ pc'[x] = "reading" /\ wire'[Peer(x)] = <<>>
                    /\ EndsWith(wire'[x], Request(log'[x], after'[x]))
              /\ pc'[x] \in Pulls /\ ~HasReq(wire'[x]) =>
                    Flight(wire'[Peer(x)], answer'[Peer(x)], batch'[x])
  <1>1. HasReq(wire[x])' <=> HasReq(wire'[x])
    BY DEF HasReq
  <1>2. EndsWith(wire[x], Request(log[x], after[x]))' <=> EndsWith(wire'[x], Request(log'[x], after'[x]))
    BY DEF EndsWith, Request
  <1>3. Flight(wire[Peer(x)], answer[Peer(x)], batch[x])'
        <=> Flight(wire'[Peer(x)], answer'[Peer(x)], batch'[x])
    BY DEF Flight, Sorted, InOrder, Sooner, EventsIn, Items, Range
  <1> QED BY <1>1, <1>2, <1>3 DEF PullInv, Pulls

\* A step of z that leaves the pull of its peer alone: at most it reads
\* something other than a request.
Untouched(z) ==
    LET y == Peer(z)
    IN  /\ pc'[y] = pc[y] /\ batch'[y] = batch[y] /\ log'[y] = log[y]
        /\ after'[y] = after[y] /\ maxTS'[y] = maxTS[y]
        /\ pc[y] \in Pulls =>
              /\ wire'[z] = wire[z] /\ answer'[z] = answer[z]
              /\ \/ wire'[y] = wire[y]
                 \/ wire[y] # <<>> /\ Head(wire[y]).kind # "request" /\ wire'[y] = Tail(wire[y])

\* A step that leaves the peer's pull alone leaves its mapped state alone.
LEMMA PeerUntouched ==
    ASSUME TypeInv, NEW z \in Zens, NEW y, y = Peer(z), Untouched(z), PullInv(y)
    PROVE  Same(y) /\ PullInv(y)'
  <1>1. y \in Zens /\ Peer(y) = z /\ wire[y] \in Seq(Message)
    BY TwoZens DEF TypeInv, ConnTypes
  <1>2. /\ pc'[y] = pc[y] /\ batch'[y] = batch[y] /\ log'[y] = log[y]
        /\ after'[y] = after[y] /\ maxTS'[y] = maxTS[y]
    BY DEF Untouched
  <1>3. CASE pc[y] \notin Pulls
    <2>1. Same(y)
      BY <1>1, <1>2, <1>3, PhaseIs DEF Same
    <2>2. PullInv(y)'
      BY <1>1, <1>2, <1>3, PullInvNext DEF PullInv
    <2> QED BY <2>1, <2>2
  <1>4. CASE pc[y] \in Pulls
    <2>1. wire'[z] = wire[z] /\ answer'[z] = answer[z]
      BY <1>4 DEF Untouched
    <2>2. /\ HasReq(wire'[y]) <=> HasReq(wire[y])
          /\ \A r : EndsWith(wire[y], r) /\ r.kind = "request" => EndsWith(wire'[y], r)
      BY <1>1, <1>4, ReqTail DEF Untouched
    <2>3. Same(y)
      BY <1>1, <1>2, <1>4, <2>1, <2>2, PhaseIs DEF Same
    <2>4. CASE HasReq(wire[y])
      <3>1. pc[y] = "reading" /\ wire[z] = <<>> /\ EndsWith(wire[y], Request(log[y], after[y]))
        BY <1>1, <1>4, <2>4 DEF PullInv
      <3>2. PICK r : r = Request(log[y], after[y])
        OBVIOUS
      <3>3. EndsWith(wire'[y], r) /\ r = Request(log'[y], after'[y])
        BY <1>2, <2>2, <3>1, <3>2, Kinds
      <3>4. PullInv(y)'
        BY <1>1, <1>2, <1>4, <2>1, <2>4, <2>2, <3>1, <3>3, PullInvNext
      <3> QED BY <2>3, <3>4
    <2>5. CASE ~HasReq(wire[y])
      <3>1. Flight(wire[z], answer[z], batch[y])
        BY <1>1, <1>4, <2>5 DEF PullInv
      <3>2. Flight(wire'[z], answer'[z], batch'[y])
        BY <1>2, <2>1, <3>1
      <3>3. PullInv(y)'
        BY <1>1, <1>2, <1>4, <2>2, <2>5, <3>2, PullInvNext
      <3> QED BY <2>3, <3>3
    <2> QED BY <2>4, <2>5
  <1> QED BY <1>3, <1>4

----------------------------------------------------------------------------
(* The variables of LogSync.                                               *)

PhaseOf == [x \in Zens |-> PullPhase(x)]
RestOf == [x \in Zens |-> InTransit(x)]
KeyFor(x) == [reader |-> x, author |-> Peer(x), log |-> log[x]]
KeyOf == [x \in Zens |-> KeyFor(x)]

\* Nothing that LogSync sees has changed.
LEMMA Stutters ==
    ASSUME UNCHANGED <<storeVars, log, after, maxTS, cuts>>, \A x \in Zens : Same(x)
    PROVE  UNCHANGED LS!vars
  <1>1. UNCHANGED <<own, pending, clock, held, cursor>>
    BY DEF storeVars
  <1>2. [x \in Zens |-> PullPhase(x)]' = [x \in Zens |-> PullPhase(x)]
    BY DEF Same
  <1>3. [x \in Zens |-> InTransit(x)]' = [x \in Zens |-> InTransit(x)]
    BY DEF Same
  <1> QED BY <1>1, <1>2, <1>3 DEF LS!vars, LS!pullVars

\* Only the pull of z has changed.
LEMMA OnePull ==
    ASSUME NEW z \in Zens, Same(Peer(z))
    PROVE  /\ PhaseOf' = [PhaseOf EXCEPT ![z] = PullPhase(z)']
           /\ RestOf' = [RestOf EXCEPT ![z] = InTransit(z)']
           /\ PhaseOf[z] = PullPhase(z) /\ RestOf[z] = InTransit(z)
  <1>1. \A x \in Zens : x = z \/ x = Peer(z)
    BY TwoZens
  <1>2. \A x \in Zens : x # z => PullPhase(x)' = PullPhase(x) /\ InTransit(x)' = InTransit(x)
    BY <1>1 DEF Same
  <1>3. PhaseOf' = [x \in Zens |-> PullPhase(x)'] /\ RestOf' = [x \in Zens |-> InTransit(x)']
    BY DEF PhaseOf, RestOf
  <1> QED BY <1>2, <1>3 DEF PhaseOf, RestOf

\* LogSync's actions in these terms.
LEMMA LSRequest ==
    ASSUME NEW z \in Zens, NEW l \in Logs, NEW k, k = [reader |-> z, author |-> Peer(z), log |-> l],
           log \in [Zens -> Logs], after \in [Zens -> 0 .. MaxClock],
           Same(Peer(z)), PullPhase(z) = "idle", PullPhase(z)' = "asked", InTransit(z)' = InTransit(z),
           log' = [log EXCEPT ![z] = l], after' = [after EXCEPT ![z] = cursor[k]],
           UNCHANGED <<own, pending, clock, held, cursor, maxTS, cuts>>
    PROVE  k \in Key /\ LS!Request(z, k)
  <1>1. /\ PhaseOf' = [PhaseOf EXCEPT ![z] = "asked"] /\ RestOf' = [RestOf EXCEPT ![z] = InTransit(z)]
        /\ PhaseOf[z] = "idle" /\ RestOf[z] = InTransit(z)
    BY OnePull
  <1>2. RestOf' = RestOf
    BY <1>1 DEF RestOf
  <1>3. KeyOf' = [KeyOf EXCEPT ![z] = k]
    BY DEF KeyOf, KeyFor
  <1>4. k \in Key
    BY TwoZens DEF Key, LS!Key
  <1> QED BY <1>1, <1>2, <1>3, <1>4 DEF LS!Request, PhaseOf, RestOf, KeyOf, KeyFor

\* A request that is served is LogSync's Serve.
LEMMA LSServe ==
    ASSUME NEW y \in Zens, Same(Peer(y)), PullPhase(y) = "asked", PullPhase(y)' = "stream",
           InTransit(y)' = LS!fetchOwnEvents(Peer(y), log[y], after[y]),
           UNCHANGED <<own, pending, clock, held, cursor, log, after, maxTS, cuts>>
    PROVE  LS!Serve(y)
  <1>1. PICK S : S = LS!fetchOwnEvents(Peer(y), log[y], after[y])
    OBVIOUS
  <1>2. /\ PhaseOf' = [PhaseOf EXCEPT ![y] = "stream"] /\ RestOf' = [RestOf EXCEPT ![y] = S]
        /\ PhaseOf[y] = "asked"
    BY <1>1, OnePull
  <1>3. KeyOf' = KeyOf /\ KeyOf[y].author = Peer(y) /\ KeyOf[y].log = log[y]
    BY DEF KeyOf, KeyFor
  <1> QED BY <1>1, <1>2, <1>3 DEF LS!Serve, PhaseOf, RestOf, KeyOf, KeyFor

\* An event that is merged is LogSync's merge.
LEMMA LSMerge ==
    ASSUME NEW z \in Zens, NEW y, y = Peer(z), Same(y), PullPhase(z) = "stream",
           PullPhase(z)' = "stream", NEW e, e \in LS!NextInStream(InTransit(z)),
           InTransit(z)' = InTransit(z) \ {e},
           held' = [held EXCEPT ![z][y] = LS!Insert(e, @)],
           maxTS' = [maxTS EXCEPT ![z] = IF e.ts > @ THEN e.ts ELSE @],
           UNCHANGED <<own, pending, clock, cursor, log, after, cuts>>
    PROVE  LS!Merge(z)
  <1>1. /\ PhaseOf' = [PhaseOf EXCEPT ![z] = "stream"] /\ PhaseOf[z] = "stream"
        /\ RestOf' = [RestOf EXCEPT ![z] = InTransit(z)'] /\ RestOf[z] = InTransit(z)
    BY OnePull
  <1>2. RestOf' = [RestOf EXCEPT ![z] = @ \ {e}]
    BY <1>1
  <1>3. PhaseOf' = PhaseOf
    BY <1>1 DEF PhaseOf
  <1>4. KeyOf' = KeyOf /\ KeyOf[z].author = y /\ KeyOf[z].reader = z
    BY DEF KeyOf, KeyFor
  <1>5. e \in LS!NextInStream(RestOf[z])
    BY <1>1
  <1>6. held' = [held EXCEPT ![KeyOf[z].reader][KeyOf[z].author] = LS!Insert(e, @)]
    BY <1>4
  <1> QED BY <1>1, <1>2, <1>3, <1>4, <1>5, <1>6 DEF LS!Merge, PhaseOf, RestOf, KeyOf, KeyFor

\* The end of a pull, with and without the cursor.
LEMMA LSReturn ==
    ASSUME NEW z \in Zens, NEW y, y = Peer(z), Same(y), PullPhase(z) \in {"asked", "stream"},
           PullPhase(z)' = "idle", InTransit(z)' = {},
           after' = [after EXCEPT ![z] = 0], maxTS' = [maxTS EXCEPT ![z] = 0],
           UNCHANGED <<own, pending, clock, held, log>>
    PROVE  /\ /\ PullPhase(z) = "stream" /\ InTransit(z) = {} /\ UNCHANGED cuts
              /\ cursor' = IF maxTS[z] = 0 THEN cursor
                           ELSE [cursor EXCEPT ![KeyFor(z)] = LS!NewCursor(after[z], maxTS[z])]
              => LS!Done(z)
           /\ /\ cuts < 2 * MaxSessions /\ cuts' = cuts + 1
              /\ cursor' = IF maxTS[z] = 0 THEN cursor
                           ELSE [cursor EXCEPT ![KeyFor(z)] = LS!NewCursor(after[z], maxTS[z])]
              => LS!EndOfFile(z)
           /\ cuts < 2 * MaxSessions /\ cuts' = cuts + 1 /\ UNCHANGED cursor => LS!Fail(z)
  <1>1. /\ PhaseOf' = [PhaseOf EXCEPT ![z] = "idle"] /\ PhaseOf[z] = PullPhase(z)
        /\ RestOf' = [RestOf EXCEPT ![z] = {}] /\ RestOf[z] = InTransit(z)
    BY OnePull
  <1>2. KeyOf' = KeyOf /\ KeyOf[z] = KeyFor(z)
    BY DEF KeyOf, KeyFor
  <1>3. LS!Return(z)
    BY <1>1, <1>2 DEF LS!Return, PhaseOf, RestOf, KeyOf, KeyFor
  <1>4. ASSUME cursor' = IF maxTS[z] = 0 THEN cursor
                         ELSE [cursor EXCEPT ![KeyFor(z)] = LS!NewCursor(after[z], maxTS[z])]
        PROVE  LS!advanceCursor(z)
    BY <1>2, <1>4 DEF LS!advanceCursor, KeyOf, KeyFor
  <1>5. ASSUME PullPhase(z) = "stream", InTransit(z) = {}, UNCHANGED cuts, LS!advanceCursor(z)
        PROVE  LS!Done(z)
    BY <1>1, <1>3, <1>5 DEF LS!Done, PhaseOf, RestOf
  <1>6. ASSUME cuts < 2 * MaxSessions, cuts' = cuts + 1, LS!advanceCursor(z) PROVE LS!EndOfFile(z)
    BY <1>1, <1>3, <1>6 DEF LS!EndOfFile, PhaseOf
  <1>7. ASSUME cuts < 2 * MaxSessions, cuts' = cuts + 1, UNCHANGED cursor PROVE LS!Fail(z)
    BY <1>1, <1>3, <1>7 DEF LS!Fail, PhaseOf
  <1> QED BY <1>4, <1>5, <1>6, <1>7

----------------------------------------------------------------------------
(* Each step is one of LogSync's, or none, and keeps PullInv.              *)

PullsInv == \A x \in Zens : PullInv(x)

Refines == LS!Next \/ UNCHANGED LS!vars

\* Both zens' pulls.
LEMMA BothPulls ==
    ASSUME NEW z \in Zens, PullInv(z)', PullInv(Peer(z))'
    PROVE  PullsInv'
  BY TwoZens DEF PullsInv

\* Outside the pulls.
LEMMA QuietStep ==
    ASSUME TypeInv, StepInv, PullsInv, NEW z \in Zens,
           \/ ReadHello(z) \/ SendAuth(z) \/ ReadAuth(z) \/ Authed(z) \/ ReplyZens(z)
           \/ ReadReverse(z) \/ ServeEOF(z) \/ SendZens(z) \/ ReadZens(z) \/ SendReverse(z)
    PROVE  Refines /\ PullsInv' /\ \A x \in Zens : Same(x)
  <1>0. PICK y : y = Peer(z)
    OBVIOUS
  <1>1. y \in Zens /\ y # z /\ Peer(y) = z /\ ConnTypes /\ \A x \in Zens : x = z \/ x = y
    BY <1>0, TwoZens DEF TypeInv
  <1>2. UNCHANGED <<own, pending, clock, held, cursor, batch, log, after, maxTS, cuts>>
    BY DEF ReadHello, SendAuth, ReadAuth, Authed, ReplyZens, ReadReverse, ServeEOF, SendZens, ReadZens,
           SendReverse, storeVars, pullVars, countVars
  <1>3. up => Talk
    BY DEF StepInv
  <1>4. ASSUME pc[z] \notin Pulls, pc'[z] \notin Pulls, Untouched(z) PROVE Refines /\ PullsInv' /\ \A x \in Zens : Same(x)
    <2>1. Same(y) /\ PullInv(y)'
      BY <1>0, <1>1, <1>4, PeerUntouched DEF PullsInv
    <2>2. Same(z)
      BY <1>4, PhaseIs DEF Same
    <2>3. PullInv(z)'
      <3>1. after[z] = 0 /\ maxTS[z] = 0
        BY <1>4 DEF PullsInv, PullInv
      <3> QED BY <1>2, <1>4, <3>1, PullInvNext
    <2>4. PullsInv'
      BY <1>0, <2>1, <2>3, BothPulls
    <2>5. \A x \in Zens : Same(x)
      BY <1>1, <2>1, <2>2
    <2> QED BY <1>2, <2>4, <2>5, Stutters DEF Refines, storeVars
  <1>5. ASSUME pc'[y] = pc[y], pc[y] \notin Pulls PROVE Untouched(z)
    BY <1>0, <1>2, <1>5 DEF Untouched
  <1>6. ASSUME pc'[y] = pc[y], answer' = answer, wire'[z] = wire[z], wire[y] # <<>>,
               wire'[y] = Tail(wire[y]), Head(wire[y]).kind # "request"
        PROVE  Untouched(z)
    BY <1>0, <1>2, <1>6 DEF Untouched
  <1>7. CASE ReadHello(z) \/ ReadAuth(z) \/ ReadReverse(z) \/ ReadZens(z)
    <2>1. /\ pc[z] \in {"hello", "auth", "serve", "zensWait"}
          /\ \E l \in {"gotHello", "gotAuth", "pullPost", "reverse"} : Goto(z, l)
          /\ Consume(z) /\ answer' = answer
          /\ wire[y] # <<>> /\ Head(wire[y]).kind \in {"hello", "auth", "reverse", "zens"}
      BY <1>0, <1>7 DEF ReadHello, ReadAuth, ReadReverse, ReadZens, Incoming
    <2>2. /\ pc'[z] \in {"gotHello", "gotAuth", "pullPost", "reverse"} /\ pc'[y] = pc[y]
          /\ wire'[z] = wire[z] /\ wire'[y] = Tail(wire[y])
      BY <1>0, <1>1, <2>1, Effects
    <2>3. Untouched(z)
      BY <1>6, <2>1, <2>2
    <2> QED BY <1>4, <2>1, <2>2, <2>3 DEF Pulls
  <1>8. CASE Authed(z) \/ ServeEOF(z)
    <2>1. /\ pc[z] \in {"gotAuth", "serve"} /\ wire' = wire /\ answer' = answer
          /\ \E l \in {"pullPost", "serve", "off"} : Goto(z, l)
      BY <1>8 DEF Authed, ServeEOF, Close
    <2>2. pc'[z] \in {"pullPost", "serve", "off"} /\ pc'[y] = pc[y]
      BY <1>0, <1>1, <2>1, Effects
    <2>3. Untouched(z)
      BY <1>0, <1>2, <2>1, <2>2 DEF Untouched
    <2> QED BY <1>4, <2>1, <2>2, <2>3 DEF Pulls
  <1>9. CASE SendAuth(z) \/ SendZens(z) \/ SendReverse(z)
    <2>1. /\ up /\ pc[z] \in {"gotHello", "zens", "reverse"}
          /\ \E l \in {"auth", "zensWait", "serve"} : Goto(z, l)
      BY <1>9 DEF SendAuth, SendZens, SendReverse, Write
    <2>2. pc'[z] \in {"auth", "zensWait", "serve"} /\ pc'[y] = pc[y]
      BY <1>0, <1>1, <2>1, Effects
    <2>3. Shaking \/ Idle(z)
      BY <1>3, <2>1, Where
    <2>4. pc[y] \in Shake \/ pc[y] = "serve"
      BY <1>0, <1>1, <2>3 DEF Shaking, Idle
    <2>5. Untouched(z)
      BY <1>5, <2>2, <2>4 DEF Shake, Pulls
    <2> QED BY <1>4, <2>1, <2>2, <2>5 DEF Pulls
  <1>10. CASE ReplyZens(z)
    <2>1. /\ pc[z] = "serve" /\ pc' = pc /\ wire[y] # <<>> /\ Head(wire[y]).kind = "zens"
          /\ answer' = answer
      BY <1>0, <1>10 DEF ReplyZens, Incoming
    <2>2. CASE up
      <3>1. Offered(y)
        BY <1>0, <1>3, <2>1, <2>2, ServeReads
      <3>2. pc[y] = "zensWait"
        BY <3>1 DEF Offered
      <3> QED BY <1>4, <1>5, <2>1, <3>2 DEF Pulls
    <2>3. CASE ~up
      <3>1. wire' = [wire EXCEPT ![y] = Tail(@), ![z] = @]
        BY <1>0, <1>10, <2>3 DEF ReplyZens
      <3>2. wire'[y] = Tail(wire[y]) /\ wire'[z] = wire[z]
        BY <1>1, <3>1 DEF ConnTypes
      <3> QED BY <1>4, <1>6, <2>1, <3>2 DEF Pulls
    <2> QED BY <2>2, <2>3
  <1> QED BY <1>7, <1>8, <1>9, <1>10

\* A connection is made or breaks.
LEMMA ConnectStep ==
    ASSUME TypeInv, PullsInv, NEW z \in Zens, Connect(z) \/ Break
    PROVE  Refines /\ PullsInv'
  <1>1. UNCHANGED <<own, pending, clock, held, cursor, batch, log, after, maxTS, cuts>>
    BY DEF Connect, Break, storeVars, pullVars
  <1>2. CASE Connect(z)
    <2>1. \A x \in Zens : pc[x] = "off" /\ pc'[x] = "hello"
      BY <1>2 DEF Connect
    <2>2. \A x \in Zens : pc[x] \notin Pulls /\ pc'[x] \notin Pulls
      BY <2>1 DEF Pulls
    <2>3. \A x \in Zens : Same(x)
      BY <2>2, PhaseIs DEF Same
    <2>4. \A x \in Zens : after[x] = 0 /\ maxTS[x] = 0
      BY <2>2 DEF PullsInv, PullInv
    <2>5. \A x \in Zens : PullInv(x)'
      BY <1>1, <2>2, <2>4, PullInvNext
    <2>6. PullsInv'
      BY <2>5 DEF PullsInv
    <2> QED BY <1>1, <2>3, <2>6, Stutters DEF Refines, storeVars
  <1>3. CASE Break
    <2>1. UNCHANGED <<pc, wire, answer>>
      BY <1>3 DEF Break
    <2>2. \A x \in Zens : Same(x)
      BY <1>1, <2>1, PhaseIs DEF Same
    <2>3. \A x \in Zens : PullInv(x)'
      BY <1>1, <2>1, PullInvNext DEF PullsInv, PullInv
    <2>4. PullsInv'
      BY <2>3 DEF PullsInv
    <2> QED BY <1>1, <2>2, <2>4, Stutters DEF Refines, storeVars
  <1> QED BY <1>2, <1>3

\* A request goes out behind a greeting, or alone.
LEMMA RequestLast ==
    ASSUME NEW w \in Seq(Message), ~HasReq(w), NEW r \in Message, r.kind = "request",
           NEW t, t = Append(w, r)
    PROVE  EndsWith(t, r) /\ HasReq(t)
  <1>1. /\ t \in Seq(Message) /\ t # <<>> /\ t[Len(t)] = r /\ Len(t) \in 1 .. Len(t)
        /\ \A i \in 1 .. Len(t) : i = Len(t) \/ i \in 1 .. Len(w)
        /\ \A i \in 1 .. Len(w) : t[i] = w[i]
    BY Appends
  <1>2. DOMAIN w = 1 .. Len(w) /\ DOMAIN t = 1 .. Len(t)
    BY <1>1
  <1> QED BY <1>1, <1>2 DEF EndsWith, HasReq

\* Neither of these wires has a request on it.
LEMMA NoRequest == ~HasReq(<<>>) /\ ~HasReq(<<Auth>>)
  <1>1. DOMAIN <<>> = {} /\ DOMAIN <<Auth>> = {1} /\ <<Auth>>[1] = Auth
    OBVIOUS
  <1> QED BY <1>1, Kinds DEF HasReq

\* A request that is sent is LogSync's, and leaves the streams in order.
LEMMA RequestStep ==
    ASSUME TypeInv, StepInv, PullsInv, NEW z \in Zens, SendRequest(z)
    PROVE  /\ Refines /\ PullsInv'
           /\ Same(Peer(z)) /\ PullPhase(z)' = "asked"
  <1>0. PICK y : y = Peer(z)
    OBVIOUS
  <1>1. y \in Zens /\ y # z /\ Peer(y) = z /\ ConnTypes /\ PullTypes /\ StoreTypes
    BY <1>0, TwoZens DEF TypeInv
  <1>2. PICK l : l = IF pc[z] = "pullPost" THEN PostLog ELSE ProfileLog
    OBVIOUS
  <1>3. PICK k : k = [reader |-> z, author |-> Peer(z), log |-> l]
    OBVIOUS
  <1>4. /\ up /\ Write(z, Request(l, cursor[k])) /\ log' = [log EXCEPT ![z] = l]
        /\ after' = [after EXCEPT ![z] = cursor[k]]
        /\ pc[z] \in {"pullPost", "pullProfile"} /\ Goto(z, "reading")
        /\ UNCHANGED <<own, pending, clock, held, cursor, answer, batch, maxTS, cuts>>
    BY <1>2, <1>3 DEF SendRequest, Write, storeVars, countVars
  <1>5. /\ pc'[z] = "reading" /\ pc'[y] = pc[y]
        /\ wire'[z] = Append(wire[z], Request(l, cursor[k])) /\ wire'[y] = wire[y]
    BY <1>0, <1>1, <1>4, Effects
  <1>6. Asking(z)
    BY <1>4, Where DEF StepInv
  <1>7. /\ wire[y] = <<>> /\ (wire[z] = <<>> \/ wire[z] = <<Auth>>)
        /\ pc[y] \in {"serve", "auth", "gotAuth"}
    BY <1>0, <1>6 DEF Asking, Greeting, Waits
  <1>8. l \in Logs /\ k \in Key /\ cursor[k] \in 0 .. MaxClock
    <2>1. l \in Logs
      BY <1>2 DEF Logs
    <2>2. k \in Key
      BY <1>0, <1>1, <1>3, <2>1 DEF Key, LS!Key
    <2> QED BY <1>1, <2>1, <2>2 DEF StoreTypes
  <1>9. /\ log'[z] = l /\ after'[z] = cursor[k] /\ log'[y] = log[y] /\ after'[y] = after[y]
    BY <1>1, <1>4 DEF PullTypes
  <1>10. Untouched(z)
    BY <1>0, <1>4, <1>5, <1>7, <1>9 DEF Untouched, Pulls
  <1>11. Same(y) /\ PullInv(y)'
    BY <1>0, <1>1, <1>10, PeerUntouched DEF PullsInv
  <1>12. PICK r : r = Request(l, cursor[k])
    OBVIOUS
  <1>13. EndsWith(wire'[z], r) /\ HasReq(wire'[z])
    <2>1. wire[z] \in Seq(Message) /\ ~HasReq(wire[z])
      BY <1>1, <1>7, NoRequest DEF ConnTypes
    <2>2. r \in Message /\ r.kind = "request"
      BY <1>8, <1>12, Messages, Kinds
    <2> QED BY <1>5, <1>12, <2>1, <2>2, RequestLast
  <1>14. pc[z] \notin Pulls /\ pc'[z] \in Pulls
    BY <1>4, <1>5 DEF Pulls
  <1>15. PullInv(z)'
    BY <1>0, <1>5, <1>7, <1>9, <1>12, <1>13, <1>14, PullInvNext
  <1>16. PullsInv'
    BY <1>0, <1>11, <1>15, BothPulls
  <1>17. PullPhase(z) = "idle" /\ PullPhase(z)' = "asked" /\ InTransit(z)' = InTransit(z)
    BY <1>13, <1>14, PhaseIs
  <1>18. LS!Request(z, k)
    BY <1>0, <1>1, <1>3, <1>4, <1>8, <1>11, <1>17, LSRequest DEF PullTypes
  <1> QED BY <1>0, <1>8, <1>11, <1>16, <1>17, <1>18 DEF Refines, LS!Next, LS!PullStep, Key

----------------------------------------------------------------------------
(* A stream in flight.                                                     *)

\* Indices with the same successor.
LEMMA SameSuccessor == \A n \in Nat : \A i \in 1 .. n : i + 1 = n + 1 => i = n
  OBVIOUS

\* Its first message is read.
LEMMA FlightRead ==
    ASSUME NEW W \in Seq(Message), W # <<>>, NEW A \in Seq(Message), Flight(W, A, <<>>),
           Head(W).kind = "events", NEW B, B = Head(W).items, NEW T, T = Tail(W)
    PROVE  /\ Flight(T, A, B) /\ EventsIn(W) = EventsIn(T) \cup Range(B)
  <1>1. Items(Head(W)) = Range(B)
    BY DEF Items
  <1>2. EventsIn(W) = EventsIn(T) \cup Range(B)
    <2>1. EventsIn(W) = Items(Head(W)) \cup EventsIn(T)
      BY EventsTail
    <2>2. PICK H : H = Items(Head(W))
      OBVIOUS
    <2>3. EventsIn(W) = H \cup EventsIn(T) /\ H = Range(B)
      BY <1>1, <2>1, <2>2
    <2> QED BY <2>3
  <1>3. Sorted(W) /\ Sorted(A) /\ Sooner(EventsIn(W), EventsIn(A))
    BY DEF Flight
  <1>4. Sorted(T) /\ Sooner(Range(B), EventsIn(T)) /\ InOrder(B)
    BY <1>1, <1>3, SortedTail
  <1>5. Sooner(EventsIn(T), EventsIn(A)) /\ Sooner(Range(B), EventsIn(T) \cup EventsIn(A))
    BY <1>2, <1>3, <1>4 DEF Sooner
  <1>6. ASSUME NEW i \in 1 .. Len(T), T[i].kind = "done" PROVE i = Len(T) /\ EventsIn(A) = {}
    <2>1. i + 1 \in 1 .. Len(W) /\ T[i] = W[i + 1] /\ Len(W) = Len(T) + 1 /\ Len(T) \in Nat
      BY Tails
    <2>2. i + 1 = Len(W) /\ EventsIn(A) = {}
      BY <1>6, <2>1 DEF Flight
    <2> QED BY <2>1, <2>2, SameSuccessor, Zenon
  <1> QED BY <1>2, <1>3, <1>4, <1>5, <1>6 DEF Flight

\* Of the events S in flight e comes first, and leaves W, A and T behind.
Merges(S, e, W, A, T) ==
    /\ Flight(W, A, T) /\ e \in LS!NextInStream(S)
    /\ S \ {e} = EventsIn(A) \cup EventsIn(W) \cup Range(T)

\* Its first event is merged.
LEMMA FlightMerge ==
    ASSUME NEW W, NEW A, NEW B \in Seq(Event), B # <<>>, Flight(W, A, B),
           NEW e, e = Head(B), NEW T, T = Tail(B), NEW S, S = EventsIn(A) \cup EventsIn(W) \cup Range(B)
    PROVE  Merges(S, e, W, A, T)
  <1>1. Range(B) = {e} \cup Range(T)
    BY RangeTail
  <1>2. InOrder(T) /\ Sooner({e}, Range(T))
    BY OrderTail DEF Flight
  <1>3. Sooner(Range(B), EventsIn(W) \cup EventsIn(A))
    BY DEF Flight
  <1>4. Sooner({e}, EventsIn(A) \cup EventsIn(W) \cup Range(T))
    BY <1>1, <1>2, <1>3 DEF Sooner
  <1>5. Sooner(Range(T), EventsIn(W) \cup EventsIn(A))
    BY <1>1, <1>3 DEF Sooner
  <1>6. Flight(W, A, T)
    BY <1>2, <1>5 DEF Flight
  <1>7. e.ts <= e.ts
    <2>1. e \in Event
      BY Tails
    <2> QED BY <2>1 DEF Event, LS!Event
  <1>8. e \in LS!NextInStream(S)
    BY <1>1, <1>4, <1>7 DEF LS!NextInStream, Sooner
  <1>9. S \ {e} = EventsIn(A) \cup EventsIn(W) \cup Range(T)
    BY <1>1, <1>4 DEF Sooner
  <1> QED BY <1>6, <1>8, <1>9 DEF Merges

\* Its end is read.
LEMMA FlightDone ==
    ASSUME NEW W \in Seq(Message), W # <<>>, NEW A, Flight(W, A, <<>>), Head(W).kind = "done"
    PROVE  EventsIn(A) \cup EventsIn(W) = {}
  <1>1. PICK T : T = Tail(W)
    OBVIOUS
  <1>2. Head(W) = W[1] /\ 1 \in 1 .. Len(W) /\ (T = <<>> <=> Len(W) = 1)
    BY <1>1, Tails
  <1>3. 1 = Len(W) /\ EventsIn(A) = {}
    BY <1>2 DEF Flight
  <1>4. EventsIn(W) = Items(Head(W)) \cup EventsIn(<<>>)
    BY <1>1, <1>2, <1>3, EventsTail
  <1> QED BY <1>3, <1>4, EventsEmpty DEF Items

\* Its next message is written: the wire W and the answer A become V and T.
NextWritten(W, A, V, T) ==
    /\ W \in Seq(Message) /\ A \in Seq(Message) /\ A # <<>> /\ Stream(A)
    /\ \A i \in 1 .. Len(W) : W[i].kind = "events"
    /\ V = Append(W, Head(A)) /\ T = Tail(A)

\* Writing it leaves the stream in order and loses no event.
LEMMA FlightWrite ==
    ASSUME NEW W, NEW A, NEW B, NEW V, NEW T, NextWritten(W, A, V, T), Flight(W, A, B)
    PROVE  /\ Flight(V, T, B)
           /\ EventsIn(T) \cup EventsIn(V) = EventsIn(A) \cup EventsIn(W)
  <1>a. /\ W \in Seq(Message) /\ A \in Seq(Message) /\ A # <<>> /\ Stream(A)
        /\ \A i \in 1 .. Len(W) : W[i].kind = "events"
    BY DEF NextWritten
  <1>b. PICK m : m = Head(A) /\ V = Append(W, m) /\ T = Tail(A)
    BY DEF NextWritten
  <1> USE <1>a, <1>b
  <1>0. m \in Message
    BY Tails
  <1>1. EventsIn(A) = Items(m) \cup EventsIn(T)
    BY EventsTail
  <1>2. EventsIn(V) = EventsIn(W) \cup Items(m)
    BY <1>0, EventsAppend
  <1>3. /\ Sorted(W) /\ Sorted(A) /\ InOrder(B) /\ Sooner(EventsIn(W), EventsIn(A))
        /\ Sooner(Range(B), EventsIn(W) \cup EventsIn(A))
    BY DEF Flight
  <1>4. Sorted(T) /\ Sooner(Items(m), EventsIn(T)) /\ (m.kind = "events" => InOrder(m.items))
    BY <1>3, SortedTail
  <1>5. Sooner(EventsIn(W), Items(m)) /\ Sooner(EventsIn(V), EventsIn(T))
        /\ Sooner(Range(B), EventsIn(V) \cup EventsIn(T))
    BY <1>1, <1>2, <1>3, <1>4 DEF Sooner
  <1>6. Sorted(V)
    BY <1>0, <1>3, <1>4, <1>5, SortedAppend
  <1>7. ASSUME NEW i \in 1 .. Len(V), V[i].kind = "done" PROVE i = Len(V) /\ EventsIn(T) = {}
    <2>1. /\ V[Len(V)] = m /\ \A j \in 1 .. Len(V) : j = Len(V) \/ j \in 1 .. Len(W)
          /\ \A j \in 1 .. Len(W) : V[j] = W[j]
      BY <1>0, Appends
    <2>2. i = Len(V) /\ m.kind = "done"
      BY <1>7, <2>1
    <2>3. Len(A) = 1
      BY <2>2, StreamTail
    <2>4. T = <<>>
      BY <2>3, Tails
    <2> QED BY <2>2, <2>4, EventsEmpty
  <1> QED BY <1>1, <1>2, <1>3, <1>4, <1>5, <1>6, <1>7 DEF Flight

----------------------------------------------------------------------------
(* The steps of a pull.                                                    *)

\* An empty batch holds no events.
LEMMA RangeEmpty == Range(<<>>) = {}
  BY DEF Range

\* A pull that has an answer to read, or is merging, has been served.
LEMMA Served ==
    ASSUME TypeInv, PullsInv, NEW z \in Zens, NEW y, y = Peer(z),
           pc[z] = "merging" \/ (pc[z] = "reading" /\ wire[y] # <<>>)
    PROVE  /\ ~HasReq(wire[z]) /\ Flight(wire[y], answer[y], batch[z]) /\ PullPhase(z) = "stream"
           /\ InTransit(z) = EventsIn(answer[y]) \cup EventsIn(wire[y]) \cup Range(batch[z])
           /\ pc[z] = "reading" => batch[z] = <<>>
  <1>1. pc[z] \in Pulls /\ PullInv(z)
    BY DEF Pulls, PullsInv
  <1>2. ~HasReq(wire[z])
    BY <1>1 DEF PullInv
  <1>3. Flight(wire[y], answer[y], batch[z])
    BY <1>1, <1>2 DEF PullInv
  <1>4. pc[z] = "reading" => batch[z] = <<>>
    BY DEF TypeInv
  <1> QED BY <1>1, <1>2, <1>3, <1>4, PhaseIs

\* A batch is read: LogSync sees nothing.
LEMMA EventsStep ==
    ASSUME TypeInv, PullsInv, NEW z \in Zens, ReadEvents(z)
    PROVE  Refines /\ PullsInv' /\ \A x \in Zens : Same(x)
  <1>0. PICK y : y = Peer(z)
    OBVIOUS
  <1>1. /\ y \in Zens /\ y # z /\ Peer(y) = z /\ ConnTypes /\ PullTypes
        /\ \A x \in Zens : x = z \/ x = y
    BY <1>0, TwoZens DEF TypeInv
  <1>2. /\ pc[z] = "reading" /\ wire[y] # <<>> /\ Head(wire[y]).kind = "events"
        /\ batch' = [batch EXCEPT ![z] = Head(wire[y]).items]
        /\ Consume(z) /\ Goto(z, "merging")
        /\ UNCHANGED <<own, pending, clock, held, cursor, answer, log, after, maxTS, cuts>>
    BY <1>0 DEF ReadEvents, Incoming, Msg, storeVars, countVars
  <1>3. pc'[z] = "merging" /\ pc'[y] = pc[y] /\ wire'[y] = Tail(wire[y]) /\ wire'[z] = wire[z]
    BY <1>0, <1>1, <1>2, Effects
  <1>4. batch'[z] = Head(wire[y]).items /\ batch'[y] = batch[y]
    BY <1>1, <1>2 DEF PullTypes
  <1>5. /\ ~HasReq(wire[z]) /\ Flight(wire[y], answer[y], <<>>) /\ PullPhase(z) = "stream"
        /\ InTransit(z) = EventsIn(answer[y]) \cup EventsIn(wire[y]) \cup Range(<<>>)
    BY <1>0, <1>2, Served
  <1>6. PICK W, A : W = wire[y] /\ A = answer[y]
    OBVIOUS
  <1>7. PICK T, B : T = wire'[y] /\ B = batch'[z]
    OBVIOUS
  <1>8. W \in Seq(Message) /\ A \in Seq(Message) /\ W # <<>> /\ Head(W).kind = "events"
        /\ Flight(W, A, <<>>) /\ B = Head(W).items /\ T = Tail(W)
    BY <1>1, <1>2, <1>3, <1>4, <1>5, <1>6, <1>7 DEF ConnTypes
  <1>9. Flight(T, A, B) /\ EventsIn(W) = EventsIn(T) \cup Range(B)
    BY <1>8, FlightRead
  <1>10. pc'[z] \in Pulls /\ ~HasReq(wire'[z])
    BY <1>3, <1>5 DEF Pulls
  <1>11. PullPhase(z)' = "stream" /\ InTransit(z)' = EventsIn(A) \cup EventsIn(T) \cup Range(B)
    BY <1>0, <1>2, <1>6, <1>7, <1>10, PhaseIs
  <1>12. Same(z)
    BY <1>5, <1>6, <1>9, <1>11, RangeEmpty DEF Same
  <1>13. PullInv(z)'
    BY <1>0, <1>2, <1>6, <1>7, <1>9, <1>10, PullInvNext
  <1>14. Untouched(z)
    BY <1>0, <1>2, <1>3, <1>4 DEF Untouched
  <1>15. Same(y) /\ PullInv(y)'
    BY <1>0, <1>1, <1>14, PeerUntouched DEF PullsInv
  <1>16. PullsInv'
    BY <1>0, <1>13, <1>15, BothPulls
  <1>17. \A x \in Zens : Same(x)
    BY <1>1, <1>12, <1>15
  <1> QED BY <1>2, <1>16, <1>17, Stutters DEF Refines, storeVars

\* An event is merged.
LEMMA MergeStep ==
    ASSUME TypeInv, PullsInv, NEW z \in Zens, MergeEvent(z)
    PROVE  /\ Refines /\ PullsInv'
           /\ Same(Peer(z)) /\ PullPhase(z) = "stream" /\ PullPhase(z)' = "stream"
           /\ InTransit(z)' = InTransit(z) \ {Head(batch[z])}
  <1>0. PICK y : y = Peer(z)
    OBVIOUS
  <1>1. y \in Zens /\ y # z /\ Peer(y) = z /\ ConnTypes /\ PullTypes
    BY <1>0, TwoZens DEF TypeInv
  <1>2. PICK B, e, T : B = batch[z] /\ e = Head(B) /\ T = Tail(B)
    OBVIOUS
  <1>3. /\ pc[z] = "merging" /\ \E l \in Pulls : Goto(z, l)
        /\ held' = [held EXCEPT ![z][y] = LS!Insert(e, @)]
        /\ maxTS' = [maxTS EXCEPT ![z] = IF e.ts > @ THEN e.ts ELSE @]
        /\ batch' = [batch EXCEPT ![z] = T]
        /\ UNCHANGED <<own, pending, clock, cursor, wire, answer, log, after, cuts>>
    BY <1>0, <1>1, <1>2 DEF MergeEvent, countVars, Pulls, PullTypes
  <1>4. pc'[z] \in Pulls /\ pc'[y] = pc[y] /\ wire' = wire /\ answer' = answer
    BY <1>0, <1>1, <1>3, Effects
  <1>5. batch'[z] = T /\ batch'[y] = batch[y] /\ maxTS'[y] = maxTS[y]
    BY <1>1, <1>3 DEF PullTypes
  <1>6. PICK W, A : W = wire[y] /\ A = answer[y]
    OBVIOUS
  <1>7. PICK S : S = EventsIn(A) \cup EventsIn(W) \cup Range(B)
    OBVIOUS
  <1>8. ~HasReq(wire[z]) /\ Flight(W, A, B) /\ PullPhase(z) = "stream" /\ InTransit(z) = S
    BY <1>0, <1>2, <1>3, <1>6, <1>7, Served
  <1>9. B \in Seq(Event) /\ B # <<>>
    BY <1>1, <1>2, <1>3 DEF PullTypes, TypeInv
  <1>10. /\ Flight(W, A, T) /\ e \in LS!NextInStream(S)
         /\ S \ {e} = EventsIn(A) \cup EventsIn(W) \cup Range(T)
    <2>1. e = Head(B) /\ T = Tail(B)
      BY <1>2
    <2>2. Merges(S, e, W, A, T)
      BY <1>7, <1>8, <1>9, <2>1, FlightMerge
    <2> QED BY <2>2 DEF Merges
  <1>11. PullPhase(z)' = "stream" /\ InTransit(z)' = EventsIn(A) \cup EventsIn(W) \cup Range(T)
    BY <1>0, <1>4, <1>5, <1>6, <1>8, PhaseIs
  <1>12. PullInv(z)'
    BY <1>0, <1>4, <1>5, <1>6, <1>8, <1>10, PullInvNext
  <1>13. Untouched(z)
    BY <1>0, <1>3, <1>4, <1>5 DEF Untouched
  <1>14. Same(y) /\ PullInv(y)'
    BY <1>0, <1>1, <1>13, PeerUntouched DEF PullsInv
  <1>15. PullsInv'
    BY <1>0, <1>12, <1>14, BothPulls
  <1>16. InTransit(z)' = InTransit(z) \ {e} /\ e \in LS!NextInStream(InTransit(z))
    BY <1>8, <1>10, <1>11
  <1>17. LS!Merge(z)
    BY <1>0, <1>3, <1>8, <1>11, <1>14, <1>16, LSMerge
  <1> QED BY <1>0, <1>2, <1>8, <1>11, <1>14, <1>15, <1>16, <1>17 DEF Refines, LS!Next, LS!PullStep

----------------------------------------------------------------------------
(* A session cuts at most one pull of each zen short.                      *)

Cuttable(z) == pc[z] # "off" /\ (up \/ pc[z] \in Pulls)

Cut(z) == IF Cuttable(z) THEN 1 ELSE 0

CutInv ==
    /\ sessions <= MaxSessions
    /\ \A z \in Zens : cuts + Cut(z) + Cut(Peer(z)) <= 2 * sessions

\* No zen comes into a pull that a dead connection could cut.
LEMMA CutKept ==
    ASSUME TypeInv, CutInv, UNCHANGED <<sessions, cuts>>,
           \A x \in Zens : Cuttable(x)' => Cuttable(x)
    PROVE  CutInv'
  <1>1. sessions \in Nat /\ cuts \in Nat
    BY DEF TypeInv, CountTypes
  <1>2. ASSUME NEW x \in Zens PROVE Cut(x)' <= Cut(x) /\ Cut(x) \in Nat /\ Cut(x)' \in Nat
    BY DEF Cut
  <1>3. ASSUME NEW x \in Zens PROVE cuts' + Cut(x)' + Cut(Peer(x))' <= 2 * sessions'
    <2>1. PICK y \in Zens : y = Peer(x)
      BY TwoZens
    <2>2. PICK a, b, c, d \in Nat : a = Cut(x) /\ b = Cut(y) /\ c = Cut(x)' /\ d = Cut(y)'
      BY <1>2
    <2>3. cuts + a + b <= 2 * sessions /\ c <= a /\ d <= b
      BY <1>2, <2>1, <2>2 DEF CutInv
    <2>4. Cut(Peer(x))' = d
      BY <2>1, <2>2
    <2> QED BY <1>1, <2>2, <2>3, <2>4
  <1> QED BY <1>3 DEF CutInv

\* A pull of z is cut short.
LEMMA CutStep ==
    ASSUME TypeInv, CutInv, NEW z \in Zens, NEW y, y = Peer(z), Cuttable(z), ~Cuttable(z)',
           Cuttable(y)' => Cuttable(y), sessions' = sessions, cuts' = cuts + 1
    PROVE  CutInv' /\ cuts < 2 * MaxSessions
  <1>1. sessions \in Nat /\ cuts \in Nat /\ MaxSessions \in Nat
    BY SessionAssumption DEF TypeInv, CountTypes
  <1>2. y \in Zens /\ Peer(y) = z /\ \A x \in Zens : x = z \/ x = y
    BY TwoZens
  <1>3. Cut(z) = 1 /\ Cut(z)' = 0
    BY DEF Cut
  <1>4. PICK b, d \in Nat : b = Cut(y) /\ d = Cut(y)'
    BY DEF Cut
  <1>5. d <= b
    BY <1>4 DEF Cut
  <1>6. cuts + 1 + b <= 2 * sessions /\ sessions <= MaxSessions
    BY <1>3, <1>4 DEF CutInv
  <1>7. cuts' + d <= 2 * sessions' /\ cuts < 2 * MaxSessions
    BY <1>1, <1>4, <1>5, <1>6
  <1>8. cuts' + Cut(z)' + Cut(y)' <= 2 * sessions' /\ cuts' + Cut(y)' + Cut(z)' <= 2 * sessions'
    BY <1>1, <1>3, <1>4, <1>7
  <1>9. \A x \in Zens : cuts' + Cut(x)' + Cut(Peer(x))' <= 2 * sessions'
    BY <1>2, <1>8
  <1> QED BY <1>6, <1>7, <1>9 DEF CutInv

----------------------------------------------------------------------------
(* The end of a pull.                                                      *)

\* Done, the end of the connection, or an error.
LEMMA FinishStep ==
    ASSUME TypeInv, PullsInv, CutInv, NEW z \in Zens, ReadDone(z) \/ PullEOF(z) \/ Abort(z)
    PROVE  /\ Refines /\ PullsInv' /\ CutInv'
           /\ Same(Peer(z)) /\ PullPhase(z)' = "idle"
           /\ ReadDone(z) => PullPhase(z) = "stream" /\ InTransit(z) = {}
  <1>0. PICK y : y = Peer(z)
    OBVIOUS
  <1>1. /\ y \in Zens /\ y # z /\ Peer(y) = z /\ ConnTypes /\ PullTypes /\ CountTypes
        /\ \A x \in Zens : x = z \/ x = y
    BY <1>0, TwoZens DEF TypeInv
  <1>2. /\ \E l \in {"pullProfile", "zens", "off"} : Goto(z, l)
        /\ pc[z] # "off" /\ (up' => up)
        /\ after' = [after EXCEPT ![z] = 0] /\ maxTS' = [maxTS EXCEPT ![z] = 0]
        /\ UNCHANGED <<own, pending, clock, held, answer, batch, log, sessions>>
    BY DEF ReadDone, PullEOF, Abort, FinishPull, AfterPull, Close, storeVars, countVars
  <1>3. /\ pc'[z] \notin Pulls /\ pc'[y] = pc[y]
        /\ after'[z] = 0 /\ maxTS'[z] = 0 /\ after'[y] = after[y] /\ maxTS'[y] = maxTS[y]
    <2>1. pc'[z] \in {"pullProfile", "zens", "off"} /\ pc'[y] = pc[y]
      BY <1>0, <1>1, <1>2, Effects
    <2>2. after'[z] = 0 /\ maxTS'[z] = 0 /\ after'[y] = after[y] /\ maxTS'[y] = maxTS[y]
      BY <1>1, <1>2 DEF PullTypes
    <2> QED BY <2>1, <2>2 DEF Pulls
  <1>4. Untouched(z)
    <2>1. CASE ReadDone(z)
      <3>1. wire[y] # <<>> /\ Head(wire[y]).kind = "done" /\ Consume(z)
        BY <1>0, <2>1 DEF ReadDone, Incoming
      <3>2. wire'[y] = Tail(wire[y]) /\ wire'[z] = wire[z]
        BY <1>0, <1>1, <3>1, Effects
      <3> QED BY <1>0, <1>2, <1>3, <3>1, <3>2 DEF Untouched
    <2>2. CASE PullEOF(z) \/ Abort(z)
      <3>1. wire' = wire
        BY <2>2 DEF PullEOF, Abort
      <3> QED BY <1>0, <1>2, <1>3, <3>1 DEF Untouched
    <2> QED BY <2>1, <2>2
  <1>5. Same(y) /\ PullInv(y)'
    BY <1>0, <1>1, <1>4, PeerUntouched DEF PullsInv
  <1>6. PullInv(z)'
    BY <1>3, PullInvNext
  <1>7. PullsInv'
    BY <1>0, <1>5, <1>6, BothPulls
  <1>8. PullPhase(z)' = "idle" /\ InTransit(z)' = {}
    BY <1>3, PhaseIs
  <1>9. /\ Cuttable(y)' => Cuttable(y)
        /\ Cuttable(z)' => Cuttable(z)
        /\ ~up' => ~Cuttable(z)'
        /\ pc[z] = "reading" => Cuttable(z)
    BY <1>2, <1>3 DEF Cuttable, Pulls
  <1>10. CASE ReadDone(z)
    <2>1. /\ pc[z] = "reading" /\ wire[y] # <<>> /\ Head(wire[y]).kind = "done" /\ UNCHANGED cuts
          /\ cursor' = IF maxTS[z] = 0 THEN cursor
                       ELSE [cursor EXCEPT ![KeyFor(z)] = LS!NewCursor(after[z], maxTS[z])]
      BY <1>0, <1>10 DEF ReadDone, Incoming, FinishPull, KeyFor, countVars
    <2>2. PICK W, A : W = wire[y] /\ A = answer[y]
      OBVIOUS
    <2>3. /\ Flight(W, A, <<>>) /\ PullPhase(z) = "stream"
          /\ InTransit(z) = EventsIn(A) \cup EventsIn(W) \cup Range(<<>>)
      BY <1>0, <2>1, <2>2, Served
    <2>4. EventsIn(A) \cup EventsIn(W) = {}
      BY <1>1, <2>1, <2>2, <2>3, FlightDone DEF ConnTypes
    <2>5. InTransit(z) = {}
      BY <2>3, <2>4, RangeEmpty
    <2>6. LS!Done(z)
      BY <1>0, <1>2, <1>5, <1>8, <2>1, <2>3, <2>5, LSReturn
    <2>7. CutInv'
      BY <1>1, <1>2, <1>9, <2>1, CutKept
    <2> QED BY <1>0, <1>5, <1>7, <1>8, <2>3, <2>5, <2>6, <2>7 DEF Refines, LS!Next, LS!PullStep
  <1>11. pc[z] = "reading" => PullPhase(z) \in {"asked", "stream"}
    BY PhaseIs DEF Pulls
  <1>12. PullEOF(z) \/ Abort(z) => ~ReadDone(z)
    BY <1>1 DEF PullEOF, Abort, ReadDone, CountTypes, countVars
  <1>13. CASE PullEOF(z)
    <2>1. /\ pc[z] = "reading" /\ cuts' = cuts + 1 /\ ~up'
          /\ cursor' = IF maxTS[z] = 0 THEN cursor
                       ELSE [cursor EXCEPT ![KeyFor(z)] = LS!NewCursor(after[z], maxTS[z])]
      BY <1>2, <1>13 DEF PullEOF, FinishPull, KeyFor
    <2>2. CutInv' /\ cuts < 2 * MaxSessions
      BY <1>0, <1>2, <1>9, <2>1, CutStep
    <2>3. LS!EndOfFile(z)
      BY <1>0, <1>2, <1>5, <1>8, <1>11, <2>1, <2>2, LSReturn
    <2> QED BY <1>0, <1>5, <1>7, <1>8, <1>12, <1>13, <2>2, <2>3 DEF Refines, LS!Next, LS!PullStep
  <1>14. CASE Abort(z) /\ pc[z] = "reading"
    <2>1. cuts' = cuts + 1 /\ ~up' /\ cursor' = cursor
      BY <1>14 DEF Abort, storeVars
    <2>2. CutInv' /\ cuts < 2 * MaxSessions
      BY <1>0, <1>2, <1>9, <1>14, <2>1, CutStep
    <2>3. LS!Fail(z)
      BY <1>0, <1>2, <1>5, <1>8, <1>11, <1>14, <2>1, <2>2, LSReturn
    <2> QED BY <1>0, <1>5, <1>7, <1>8, <1>12, <1>14, <2>2, <2>3 DEF Refines, LS!Next, LS!PullStep
  <1>15. CASE Abort(z) /\ pc[z] # "reading"
    <2>1. /\ cuts' = cuts /\ cursor' = cursor /\ pc[z] \notin Pulls
      BY <1>15 DEF Abort, storeVars, Pulls
    <2>2. after[z] = 0 /\ maxTS[z] = 0
      BY <2>1 DEF PullsInv, PullInv
    <2>3. after' = after /\ maxTS' = maxTS
      BY <1>1, <1>2, <2>2 DEF PullTypes
    <2>4. Same(z)
      BY <1>8, <2>1, PhaseIs DEF Same
    <2>5. \A x \in Zens : Same(x)
      BY <1>1, <1>5, <2>4
    <2>6. CutInv'
      BY <1>1, <1>2, <1>9, <2>1, CutKept
    <2> QED BY <1>0, <1>2, <1>5, <1>7, <1>8, <1>12, <1>15, <2>1, <2>3, <2>5, <2>6,
               Stutters DEF Refines, storeVars
  <1> QED BY <1>10, <1>13, <1>14, <1>15

----------------------------------------------------------------------------
(* The steps of the zen that serves.                                       *)

\* A whole answer, before any of it is written.
LEMMA FlightStart == ASSUME NEW A, Sorted(A) PROVE Flight(<<>>, A, <<>>)
  <1>1. 1 .. Len(<<>>) = {}
    OBVIOUS
  <1>2. EventsIn(<<>>) = {} /\ Range(<<>>) = {}
    BY EventsEmpty, RangeEmpty
  <1>3. Sorted(<<>>) /\ InOrder(<<>>)
    BY <1>1 DEF Sorted, InOrder
  <1>4. Sooner({}, EventsIn(A)) /\ Sooner({}, {} \cup EventsIn(A))
    BY DEF Sooner
  <1> QED BY <1>1, <1>2, <1>3, <1>4 DEF Flight

\* The request is read and answered from the log as it is now.  A zen whose
\* peer has given up answers all the same, and LogSync sees nothing.
LEMMA ServeStep ==
    ASSUME TypeInv, PullsInv, NEW z \in Zens, ReadRequest(z)
    PROVE  /\ Refines /\ PullsInv' /\ Same(z)
           /\ \/ Same(Peer(z))
              \/ /\ PullPhase(Peer(z)) = "asked" /\ PullPhase(Peer(z))' = "stream"
                 /\ InTransit(Peer(z))' = LS!fetchOwnEvents(z, log[Peer(z)], after[Peer(z)])
  <1>0. PICK y : y = Peer(z)
    OBVIOUS
  <1>1. /\ y \in Zens /\ y # z /\ Peer(y) = z /\ ConnTypes /\ PullTypes /\ StoreTypes
        /\ \A x \in Zens : x = z \/ x = y
    BY <1>0, TwoZens DEF TypeInv
  <1>2. PICK r : r = Head(wire[y])
    OBVIOUS
  <1>3. /\ pc[z] = "serve" /\ wire[y] # <<>> /\ r.kind = "request"
        /\ \E a \in Answers(z, r) : answer' = [answer EXCEPT ![z] = a]
        /\ Consume(z) /\ Goto(z, "answer")
        /\ UNCHANGED <<own, pending, clock, held, cursor, batch, log, after, maxTS, cuts>>
    BY <1>0, <1>2 DEF ReadRequest, Incoming, Msg, storeVars, pullVars, countVars
  <1>4. pc'[z] = "answer" /\ pc'[y] = pc[y] /\ wire'[y] = Tail(wire[y]) /\ wire'[z] = wire[z]
    BY <1>0, <1>1, <1>3, Effects
  <1>5. PICK a \in Answers(z, r) : answer' = [answer EXCEPT ![z] = a]
    BY <1>3
  <1>6. answer'[z] = a /\ answer'[y] = answer[y]
    BY <1>1, <1>5 DEF ConnTypes
  <1>7. pc[z] \notin Pulls /\ pc'[z] \notin Pulls
    BY <1>3, <1>4 DEF Pulls
  <1>8. Same(z)
    BY <1>7, PhaseIs DEF Same
  <1>9. PullInv(z)'
    <2>1. after[z] = 0 /\ maxTS[z] = 0
      BY <1>7 DEF PullsInv, PullInv
    <2> QED BY <1>3, <1>7, <2>1, PullInvNext
  <1>10. CASE pc[y] \notin Pulls
    <2>1. Untouched(z)
      BY <1>0, <1>3, <1>4, <1>10 DEF Untouched
    <2>2. Same(y) /\ PullInv(y)'
      BY <1>0, <1>1, <2>1, PeerUntouched DEF PullsInv
    <2>3. PullsInv'
      BY <1>0, <1>9, <2>2, BothPulls
    <2>4. \A x \in Zens : Same(x)
      BY <1>1, <1>8, <2>2
    <2> QED BY <1>0, <1>3, <1>8, <2>2, <2>3, <2>4, Stutters DEF Refines, storeVars
  <1>11. CASE pc[y] \in Pulls
    <2>1. PICK w, t : w = wire[y] /\ t = wire'[y]
      OBVIOUS
    <2>2. w \in Seq(Message) /\ w # <<>> /\ t = Tail(w) /\ Head(w) = r /\ Head(w).kind = "request"
      BY <1>1, <1>2, <1>3, <1>4, <2>1 DEF ConnTypes
    <2>3. HasReq(w)
      BY <2>2, ReqTail
    <2>4. pc[y] = "reading" /\ wire[z] = <<>> /\ EndsWith(w, Request(log[y], after[y]))
      BY <1>1, <1>11, <2>1, <2>3 DEF PullsInv, PullInv
    <2>5. r = Request(log[y], after[y]) /\ t = <<>>
      BY <2>2, <2>4, ReqTail
    <2>6. r.log = log[y] /\ r.after = after[y]
      BY <2>5 DEF Request
    <2>7. Sorted(a) /\ EventsIn(a) = LS!fetchOwnEvents(z, log[y], after[y])
      BY <1>1, <1>5, <2>6, AnswerOrder
    <2>8. batch[y] = <<>> /\ batch'[y] = <<>>
      BY <1>1, <1>3, <2>4 DEF TypeInv
    <2>9. ~HasReq(wire'[y]) /\ wire'[z] = <<>> /\ pc'[y] \in Pulls
      BY <1>4, <1>11, <2>1, <2>4, <2>5, NoRequest
    <2>10. PullInv(y)'
      <3>1. Flight(wire'[z], answer'[z], batch'[y])
        BY <1>6, <2>7, <2>8, <2>9, FlightStart
      <3> QED BY <1>1, <2>9, <3>1, PullInvNext
    <2>11. PullPhase(y) = "asked"
      BY <1>1, <1>11, <2>1, <2>3, PhaseIs
    <2>12. PullPhase(y)' = "stream" /\ InTransit(y)' = EventsIn(a)
      <3>1. PullPhase(y)' = "stream"
            /\ InTransit(y)' = EventsIn(answer'[z]) \cup EventsIn(wire'[z]) \cup Range(batch'[y])
        BY <1>1, <2>9, PhaseIs
      <3>2. InTransit(y)' = EventsIn(a) \cup EventsIn(<<>>) \cup Range(<<>>)
        BY <1>6, <2>8, <2>9, <3>1
      <3> QED BY <3>1, <3>2, EventsEmpty, RangeEmpty
    <2>13. LS!Serve(y)
      <3>1. InTransit(y)' = LS!fetchOwnEvents(Peer(y), log[y], after[y])
        BY <1>1, <2>7, <2>12
      <3> QED BY <1>1, <1>3, <1>8, <2>11, <2>12, <3>1, LSServe
    <2>14. PullsInv'
      BY <1>0, <1>9, <2>10, BothPulls
    <2>15. InTransit(y)' = LS!fetchOwnEvents(z, log[y], after[y])
      BY <2>7, <2>12
    <2>16. Refines
      BY <1>1, <2>13 DEF Refines, LS!Next, LS!PullStep
    <2> QED BY <1>0, <1>8, <2>11, <2>12, <2>14, <2>15, <2>16
  <1> QED BY <1>10, <1>11

\* A message of the answer is written.
LEMMA WriteStep ==
    ASSUME TypeInv, StepInv, PullsInv, NEW z \in Zens, WriteAnswer(z)
    PROVE  Refines /\ PullsInv' /\ \A x \in Zens : Same(x)
  <1>0. PICK y : y = Peer(z)
    OBVIOUS
  <1>1. /\ y \in Zens /\ y # z /\ Peer(y) = z /\ ConnTypes /\ PullTypes
        /\ \A x \in Zens : x = z \/ x = y
    BY <1>0, TwoZens DEF TypeInv
  <1>2. PICK m : m = Head(answer[z])
    OBVIOUS
  <1>3. /\ pc[z] = "answer" /\ up /\ Write(z, m) /\ answer' = [answer EXCEPT ![z] = Tail(@)]
        /\ \E l \in {"serve", "answer"} : Goto(z, l)
        /\ UNCHANGED <<own, pending, clock, held, cursor, batch, log, after, maxTS, cuts>>
    BY <1>2 DEF WriteAnswer, Write, storeVars, pullVars, countVars
  <1>4. /\ pc'[z] \in {"serve", "answer"} /\ pc'[y] = pc[y]
        /\ wire'[z] = Append(wire[z], m) /\ wire'[y] = wire[y]
        /\ answer'[z] = Tail(answer[z]) /\ answer'[y] = answer[y]
    <2>1. answer'[z] = Tail(answer[z]) /\ answer'[y] = answer[y]
      BY <1>1, <1>3 DEF ConnTypes
    <2> QED BY <1>0, <1>1, <1>3, <2>1, Effects
  <1>5. Answering(y)
    BY <1>0, <1>3, Where DEF StepInv
  <1>6. PICK W, A, B : W = wire[z] /\ A = answer[z] /\ B = batch[y]
    OBVIOUS
  <1>7. PICK V, T : V = wire'[z] /\ T = answer'[z]
    OBVIOUS
  <1>8. /\ pc[y] \in Pulls /\ wire[y] = <<>> /\ Stream(A)
        /\ \A i \in 1 .. Len(W) : W[i].kind = "events"
    BY <1>1, <1>5, <1>6 DEF Answering
  <1>9. ~HasReq(wire[y]) /\ ~HasReq(wire'[y]) /\ pc'[y] \in Pulls
    BY <1>4, <1>8, NoRequest
  <1>10. Flight(W, A, B)
    BY <1>1, <1>6, <1>8, <1>9 DEF PullsInv, PullInv
  <1>11. W \in Seq(Message) /\ A \in Seq(Message) /\ A # <<>>
    BY <1>1, <1>6, <1>8 DEF ConnTypes, Stream
  <1>12. m = Head(A) /\ V = Append(W, m) /\ T = Tail(A)
    BY <1>2, <1>4, <1>6, <1>7
  <1>13. Flight(V, T, B) /\ EventsIn(T) \cup EventsIn(V) = EventsIn(A) \cup EventsIn(W)
    <2>1. NextWritten(W, A, V, T)
      BY <1>8, <1>11, <1>12 DEF NextWritten
    <2> QED BY <1>10, <2>1, FlightWrite, Zenon
  <1>14. PullInv(y)'
    BY <1>1, <1>3, <1>6, <1>7, <1>9, <1>13, PullInvNext
  <1>15. Same(y)
    <2>1. PullPhase(y) = "stream" /\ PullPhase(y)' = "stream"
          /\ InTransit(y) = EventsIn(A) \cup EventsIn(W) \cup Range(B)
          /\ InTransit(y)' = EventsIn(T) \cup EventsIn(V) \cup Range(B)
      BY <1>1, <1>3, <1>6, <1>7, <1>8, <1>9, PhaseIs
    <2> QED BY <1>13, <2>1 DEF Same
  <1>16. pc[z] \notin Pulls /\ pc'[z] \notin Pulls
    BY <1>3, <1>4 DEF Pulls
  <1>17. Same(z)
    BY <1>16, PhaseIs DEF Same
  <1>18. PullInv(z)'
    <2>1. after[z] = 0 /\ maxTS[z] = 0
      BY <1>16 DEF PullsInv, PullInv
    <2> QED BY <1>3, <1>16, <2>1, PullInvNext
  <1>19. PullsInv'
    BY <1>0, <1>14, <1>18, BothPulls
  <1>20. \A x \in Zens : Same(x)
    BY <1>1, <1>15, <1>17
  <1> QED BY <1>3, <1>19, <1>20, Stutters DEF Refines, storeVars

----------------------------------------------------------------------------
(* All steps together.                                                     *)

\* The zens write to their logs, or nothing happens.
LEMMA OutsideStep ==
    ASSUME TypeInv, PullsInv, CutInv, UNCHANGED sessionVars,
           (\E z \in Zens : LS!AuthorStep(z)) \/ UNCHANGED storeVars
    PROVE  Refines /\ PullsInv' /\ CutInv'
  <1>1. UNCHANGED <<pc, up, wire, answer, batch, log, after, maxTS, sessions, cuts>>
    BY DEF sessionVars, connVars, pullVars, countVars
  <1>2. \A x \in Zens : PullInv(x)'
    BY <1>1, PullInvNext DEF PullsInv, PullInv
  <1>3. PullsInv'
    BY <1>2 DEF PullsInv
  <1>4. \A x \in Zens : Cuttable(x)' => Cuttable(x)
    BY <1>1 DEF Cuttable
  <1>5. CutInv'
    BY <1>1, <1>4, CutKept
  <1>6. CASE \E z \in Zens : LS!AuthorStep(z)
    BY <1>3, <1>5, <1>6 DEF Refines, LS!Next
  <1>7. CASE UNCHANGED storeVars
    <2>1. \A x \in Zens : Same(x)
      BY <1>1, PhaseIs DEF Same
    <2> QED BY <1>1, <1>3, <1>5, <1>7, <2>1, Stutters DEF Refines
  <1> QED BY <1>6, <1>7

\* Steps of a session that end no pull.
LEMMA CutsElsewhere ==
    ASSUME TypeInv, CutInv, NEW z \in Zens,
           \/ ReadHello(z) \/ SendAuth(z) \/ ReadAuth(z) \/ Authed(z) \/ SendRequest(z)
           \/ ReadEvents(z) \/ MergeEvent(z) \/ ReadRequest(z) \/ WriteAnswer(z) \/ ReplyZens(z)
           \/ ReadReverse(z) \/ ServeEOF(z) \/ SendZens(z) \/ ReadZens(z) \/ SendReverse(z)
    PROVE  CutInv'
  <1>0. PICK y : y = Peer(z)
    OBVIOUS
  <1>1. y \in Zens /\ y # z /\ ConnTypes /\ \A x \in Zens : x = z \/ x = y
    BY <1>0, TwoZens DEF TypeInv
  <1>2. UNCHANGED <<sessions, cuts>> /\ pc[z] # "off" /\ (up' => up)
    BY DEF ReadHello, SendAuth, ReadAuth, Authed, SendRequest, ReadEvents, MergeEvent, ReadRequest,
           WriteAnswer, ReplyZens, ReadReverse, ServeEOF, Close, SendZens, ReadZens, SendReverse,
           countVars
  <1>3. pc[z] \in Pulls \/ up \/ \E l \in Places \ Pulls : Goto(z, l) \/ pc' = pc
    <2>1. CASE ReadHello(z) \/ ReadAuth(z) \/ Authed(z) \/ ReadRequest(z) \/ ReadReverse(z)
               \/ ServeEOF(z) \/ ReadZens(z)
      <3>1. \E l \in {"gotHello", "gotAuth", "pullPost", "serve", "answer", "off", "reverse"} : Goto(z, l)
        BY <2>1 DEF ReadHello, ReadAuth, Authed, ReadRequest, ReadReverse, ServeEOF, Close, ReadZens
      <3>2. {"gotHello", "gotAuth", "pullPost", "serve", "answer", "off", "reverse"}
              \subseteq Places \ Pulls
        BY DEF Places, Shake, Pulls
      <3> QED BY <3>1, <3>2
    <2>2. CASE SendAuth(z) \/ SendRequest(z) \/ WriteAnswer(z) \/ SendZens(z) \/ SendReverse(z)
      BY <2>2 DEF SendAuth, SendRequest, WriteAnswer, SendZens, SendReverse, Write
    <2>3. CASE ReadEvents(z) \/ MergeEvent(z)
      BY <2>3 DEF ReadEvents, MergeEvent, Pulls
    <2>4. CASE ReplyZens(z)
      <3>1. pc' = pc /\ "off" \in Places \ Pulls
        BY <2>4 DEF ReplyZens, Places, Pulls
      <3> QED BY <3>1
    <2> QED BY <2>1, <2>2, <2>3, <2>4
  <1>4. (\E l : Goto(z, l)) \/ pc' = pc
    BY DEF ReadHello, SendAuth, ReadAuth, Authed, SendRequest, ReadEvents, MergeEvent, ReadRequest,
           WriteAnswer, ReplyZens, ReadReverse, ServeEOF, Close, SendZens, ReadZens, SendReverse
  <1>5. pc'[y] = pc[y]
    BY <1>0, <1>1, <1>4, Effects
  <1>6. pc[z] \in Pulls \/ up \/ pc'[z] \notin Pulls \/ pc'[z] = pc[z]
    BY <1>0, <1>1, <1>3, Effects
  <1>7. (Cuttable(z)' => Cuttable(z)) /\ (Cuttable(y)' => Cuttable(y))
    BY <1>2, <1>5, <1>6 DEF Cuttable
  <1> QED BY <1>1, <1>2, <1>7, CutKept

\* A connection that comes or goes keeps the count of pulls cut short.
LEMMA CutsConnect ==
    ASSUME TypeInv, CutInv, NEW z \in Zens, Connect(z) \/ Break
    PROVE  CutInv'
  <1>1. CASE Connect(z)
    <2>1. /\ sessions \in Nat /\ cuts \in Nat /\ cuts' = cuts /\ sessions' = sessions + 1
          /\ sessions < MaxSessions /\ MaxSessions \in Nat /\ \A x \in Zens : pc[x] = "off"
      BY <1>1, SessionAssumption DEF Connect, TypeInv, CountTypes
    <2>2. \A x \in Zens : Cut(x) = 0
      BY <2>1 DEF Cut, Cuttable
    <2>3. cuts <= 2 * sessions
      BY <2>1, <2>2, TwoZens DEF CutInv
    <2>4. \A x \in Zens : Cut(x)' \in 0 .. 1
      BY DEF Cut
    <2>5. ASSUME NEW x \in Zens PROVE cuts' + Cut(x)' + Cut(Peer(x))' <= 2 * sessions'
      <3>1. PICK y \in Zens : y = Peer(x)
        BY TwoZens
      <3>2. PICK a, b \in 0 .. 1 : a = Cut(x)' /\ b = Cut(y)'
        BY <2>4
      <3>3. cuts' + a + b <= 2 * sessions'
        BY <2>1, <2>3
      <3> QED BY <3>1, <3>2, <3>3
    <2> QED BY <2>1, <2>5 DEF CutInv
  <1>2. CASE Break
    <2>1. UNCHANGED <<sessions, cuts>> /\ \A x \in Zens : Cuttable(x)' => Cuttable(x)
      BY <1>2 DEF Break, Cuttable
    <2> QED BY <2>1, CutKept
  <1> QED BY <1>1, <1>2

\* Every step is a step of LogSync or a stutter.
LEMMA NextRefines ==
    TypeInv /\ StepInv /\ PullsInv /\ CutInv /\ [Next]_vars => Refines /\ PullsInv' /\ CutInv'
  <1> SUFFICES ASSUME TypeInv, StepInv, PullsInv, CutInv, [Next]_vars
               PROVE  Refines /\ PullsInv' /\ CutInv'
    OBVIOUS
  <1>1. CASE UNCHANGED vars
    BY <1>1, OutsideStep DEF vars
  <1>2. ASSUME NEW z \in Writers, AuthorStep(z) PROVE Refines /\ PullsInv' /\ CutInv'
    BY <1>2, OutsideStep, SessionAssumption DEF AuthorStep
  <1>3. CASE Break
    <2>1. First \in Zens
      BY SessionAssumption
    <2> QED BY <1>3, <2>1, ConnectStep, CutsConnect
  <1>4. ASSUME NEW z \in Zens, Connect(z) PROVE Refines /\ PullsInv' /\ CutInv'
    BY <1>4, ConnectStep, CutsConnect
  <1>5. ASSUME NEW z \in Zens, SessionStep(z) PROVE Refines /\ PullsInv' /\ CutInv'
    <2>1. CASE ReadDone(z) \/ PullEOF(z) \/ Abort(z)
      BY <2>1, FinishStep
    <2>2. CASE \/ ReadHello(z) \/ SendAuth(z) \/ ReadAuth(z) \/ Authed(z) \/ ReplyZens(z)
               \/ ReadReverse(z) \/ ServeEOF(z) \/ SendZens(z) \/ ReadZens(z) \/ SendReverse(z)
      BY <2>2, QuietStep, CutsElsewhere
    <2>3. CASE SendRequest(z)
      BY <2>3, RequestStep, CutsElsewhere
    <2>4. CASE ReadEvents(z)
      BY <2>4, EventsStep, CutsElsewhere
    <2>5. CASE MergeEvent(z)
      BY <2>5, MergeStep, CutsElsewhere
    <2>6. CASE ReadRequest(z)
      BY <2>6, ServeStep, CutsElsewhere
    <2>7. CASE WriteAnswer(z)
      BY <2>7, WriteStep, CutsElsewhere
    <2> QED BY <1>5, <2>1, <2>2, <2>3, <2>4, <2>5, <2>6, <2>7 DEF SessionStep
  <1> QED BY <1>1, <1>2, <1>3, <1>4, <1>5 DEF Next

\* An initial state maps to an initial state.
LEMMA InitRefines == Init => LS!Init /\ PullsInv /\ CutInv
  <1> SUFFICES ASSUME Init PROVE PullsInv /\ CutInv
    BY DEF Init
  <1>1. /\ \A x \in Zens : pc[x] = "off" /\ after[x] = 0 /\ maxTS[x] = 0
        /\ cuts = 0 /\ sessions = 0 /\ MaxSessions \in Nat
    BY SessionAssumption DEF Init, LS!Init
  <1>2. \A x \in Zens : PullInv(x)
    BY <1>1 DEF PullInv, Pulls
  <1>3. \A x \in Zens : Cut(x) = 0
    BY <1>1 DEF Cut, Cuttable
  <1>4. CutInv
    BY <1>1, <1>3, TwoZens DEF CutInv
  <1> QED BY <1>2, <1>4 DEF PullsInv

\* Sessions implement incremental replication: whatever the messages, batches
\* and roles, and wherever connections break, each step of a session is a step
\* of one of LogSync's pulls, or changes nothing that LogSync sees (pullLog,
\* handleRequest, serve).
THEOREM SessionsImplementLogSync == Spec => ImplementsLogSync
  <1>1. Init => TypeInv /\ StepInv /\ PullsInv /\ CutInv
    BY InitTypes, InitStep, InitRefines
  <1>2. TypeInv /\ StepInv /\ PullsInv /\ CutInv /\ [Next]_vars
        => TypeInv' /\ StepInv' /\ PullsInv' /\ CutInv'
    BY NextTypes, NextStep, NextRefines
  <1>3. Init => LS!Init
    BY InitRefines
  <1>4. TypeInv /\ StepInv /\ PullsInv /\ CutInv /\ [Next]_vars => [LS!Next]_(LS!vars)
    BY NextRefines DEF Refines
  <1> QED BY <1>1, <1>2, <1>3, <1>4, PTL DEF Spec, ImplementsLogSync, LS!Spec

----------------------------------------------------------------------------
(* What LogSync's proofs say of sessions.                                  *)

LP == INSTANCE LogSync_proofs WITH
    Authors <- Zens, Readers <- Zens, Pulls <- Zens,
    MaxFaults <- 2 * MaxSessions,
    phase <- [z \in Zens |-> PullPhase(z)],
    key <- [z \in Zens |-> [reader |-> z, author |-> Peer(z), log |-> log[z]]],
    rest <- [z \in Zens |-> InTransit(z)],
    faults <- cuts

\* The constants meet LogSync's assumptions.
LEMMA LogSyncConstants == 2 * MaxSessions \in Nat /\ PostLog \in Logs
  BY SessionAssumption DEF Logs

\* The module proved about is the one implemented.
LEMMA SameModule ==
    /\ LS!Init => LP!Init
    /\ LS!Next => LP!Next
    /\ UNCHANGED LS!vars => UNCHANGED LP!vars
    /\ LP!CursorSafe => LS!CursorSafe
  <1>1. LS!Init => LP!Init
    BY DEF LS!Init, LP!Init, LS!Key, LP!Key
  <1>2. UNCHANGED LS!vars => UNCHANGED LP!vars
    BY DEF LS!vars, LP!vars, LS!pullVars, LP!pullVars
  <1>3. LP!CursorSafe => LS!CursorSafe
    BY DEF LS!CursorSafe, LP!CursorSafe, LS!Key, LP!Key, LS!Covered, LP!Covered
  <1>4. ASSUME NEW z \in Zens, LS!AuthorStep(z) PROVE LP!AuthorStep(z)
    <2>1. LS!Tick(z) => LP!Tick(z)
      BY DEF LS!Tick, LP!Tick, LS!pullVars, LP!pullVars
    <2>2. \A l, b : LS!Sign(z, l, b) => LP!Sign(z, l, b)
      BY Zenon DEF LS!Sign, LP!Sign, LS!pullVars, LP!pullVars, LS!Cardinality, LP!Cardinality
    <2>3. \A e : LS!AppendOwnEvent(z, e) => LP!AppendOwnEvent(z, e)
      BY DEF LS!AppendOwnEvent, LP!AppendOwnEvent, LS!pullVars, LP!pullVars, LS!Insert, LP!Insert,
             LS!Covered, LP!Covered
    <2>4. \A e : LS!LoseSigned(z, e) => LP!LoseSigned(z, e)
      BY DEF LS!LoseSigned, LP!LoseSigned, LS!pullVars, LP!pullVars
    <2>5. LS!Event = LP!Event
      BY DEF LS!Event, LP!Event
    <2> QED BY <1>4, <2>1, <2>2, <2>3, <2>4, <2>5 DEF LS!AuthorStep, LP!AuthorStep
  <1>5. ASSUME NEW z \in Zens, LS!PullStep(z) PROVE LP!PullStep(z)
    <2>1. \A k : LS!Request(z, k) => LP!Request(z, k)
      BY DEF LS!Request, LP!Request
    <2>2. LS!Serve(z) => LP!Serve(z)
      BY DEF LS!Serve, LP!Serve, LS!fetchOwnEvents, LP!fetchOwnEvents
    <2>3. LS!Merge(z) => LP!Merge(z)
      BY DEF LS!Merge, LP!Merge, LS!NextInStream, LP!NextInStream, LS!Insert, LP!Insert,
             LS!Covered, LP!Covered
    <2>4. LS!Return(z) => LP!Return(z)
      BY DEF LS!Return, LP!Return
    <2>5. LS!advanceCursor(z) => LP!advanceCursor(z)
      BY DEF LS!advanceCursor, LP!advanceCursor, LS!NewCursor, LP!NewCursor
    <2>6. LS!Done(z) => LP!Done(z)
      BY <2>4, <2>5 DEF LS!Done, LP!Done
    <2>7. LS!EndOfFile(z) => LP!EndOfFile(z)
      BY <2>4, <2>5 DEF LS!EndOfFile, LP!EndOfFile
    <2>8. LS!Fail(z) => LP!Fail(z)
      BY <2>4 DEF LS!Fail, LP!Fail
    <2>9. LS!Key = LP!Key
      BY DEF LS!Key, LP!Key
    <2> QED BY <1>5, <2>1, <2>2, <2>3, <2>6, <2>7, <2>8, <2>9 DEF LS!PullStep, LP!PullStep
  <1>6. LS!Next => LP!Next
    BY <1>4, <1>5 DEF LS!Next, LP!Next
  <1> QED BY <1>1, <1>2, <1>3, <1>6

\* LogSync's inductive invariant, under the mapping.
LEMMA CursorsKept ==
    /\ Init => LP!IndInv
    /\ LP!IndInv /\ Refines => LP!IndInv'
    /\ LP!IndInv => LS!CursorSafe
  <1>1. LP!Init => LP!IndInv
    BY LP!InitInv, StoreAssumption, LogSyncConstants
  <1>2. LP!IndInv /\ [LP!Next]_(LP!vars) => LP!IndInv'
    BY LP!NextInv, StoreAssumption, LogSyncConstants
  <1>3. Init => LS!Init
    BY DEF Init
  <1>4. Refines => [LP!Next]_(LP!vars)
    BY SameModule DEF Refines
  <1>5. LP!IndInv => LP!CursorSafe
    BY DEF LP!IndInv
  <1> QED BY <1>1, <1>2, <1>3, <1>4, <1>5, SameModule

----------------------------------------------------------------------------
(* A whole session: what it still owes at each place.                      *)

\* z holds what its peer's log l had when the session began; its peer knows the
\* tokens z had then.
Got(z, l) == \A e \in atStart.own[Peer(z)] : e.log = l => LS!Covered(e, held[z][Peer(z)])
Told(z) == atStart.known[z] \subseteq known[Peer(z)]

Complete == \A z \in Zens : Got(z, PostLog) /\ Got(z, ProfileLog) /\ Told(z)

\* What the pull of z has not merged is above its request, or in flight.
Delivers(z) ==
    \A e \in atStart.own[Peer(z)] : e.log = log[z] =>
        /\ PullPhase(z) = "asked" /\ e.ts <= after[z] => LS!Covered(e, held[z][Peer(z)])
        /\ PullPhase(z) = "stream" => e \in InTransit(z) \/ LS!Covered(e, held[z][Peer(z)])

PullProgress(z) ==
    /\ pc[z] = "pullProfile" \/ (PullPhase(z) # "idle" /\ log[z] # PostLog) => Got(z, PostLog)
    /\ Delivers(z)

\* The first message of w carries the tokens z had.
Carries(w, z) == w # <<>> => atStart.known[z] \subseteq Head(w).refs

\* Where the initiator has exchanged tokens.
Later == {"reverse", "serve", "answer"}

InitiatorProgress(z) ==
    /\ pc[z] \in {"zens", "zensWait"} \cup Later => Got(z, PostLog) /\ Got(z, ProfileLog)
    /\ pc[z] = "zensWait" =>
          /\ Carries(wire[z], z) /\ Carries(wire[Peer(z)], Peer(z))
          /\ wire[z] = <<>> => Told(z)
    /\ pc[z] \in Later => Told(z) /\ Told(Peer(z))

Progress == \A z \in Zens : PullProgress(z) /\ (z = initiator => InitiatorProgress(z))

ProgressInv == sessions > 0 /\ ~atStart.broken => IF up THEN Progress ELSE Complete

\* Nothing the zens had is forgotten.
HistoryInv ==
    \A z \in Zens : atStart.own[z] \subseteq own[z] /\ atStart.known[z] \subseteq known[z]

\* The stores and the token lists grow.
Grown ==
    /\ UNCHANGED <<atStart, initiator, sessions>>
    /\ \A x \in Zens : own[x] \subseteq own'[x] /\ known[x] \subseteq known'[x]
    /\ \A x, y \in Zens : held[x][y] \subseteq held'[x][y]

\* What is covered stays so.
LEMMA CoveredGrows ==
    ASSUME NEW S, NEW T, S \subseteq T, NEW e, LS!Covered(e, S)
    PROVE  LS!Covered(e, T)
  BY DEF LS!Covered

\* No step of a session loses an event or a token.
LEMMA StepGrows ==
    ASSUME TypeInv, NEW z \in Zens, SessionStep(z)
    PROVE  Grown
  <1>1. UNCHANGED <<atStart, initiator, sessions, own>>
    BY DEF SessionStep, ReadHello, SendAuth, ReadAuth, Authed, SendRequest, ReadEvents, MergeEvent,
           ReadDone, PullEOF, ReadRequest, WriteAnswer, ReplyZens, ReadReverse, ServeEOF, SendZens,
           ReadZens, SendReverse, Abort, storeVars, countVars
  <1>2. known' = known \/ \E R : known' = [known EXCEPT ![z] = @ \cup R]
    BY DEF SessionStep, ReadHello, SendAuth, ReadAuth, Authed, SendRequest, ReadEvents, MergeEvent,
           ReadDone, PullEOF, ReadRequest, WriteAnswer, ReplyZens, ReadReverse, ServeEOF, SendZens,
           ReadZens, SendReverse, Abort
  <1>3. held' = held \/ \E e : held' = [held EXCEPT ![z][Peer(z)] = LS!Insert(e, @)]
    BY DEF SessionStep, ReadHello, SendAuth, ReadAuth, Authed, SendRequest, ReadEvents, MergeEvent,
           ReadDone, PullEOF, ReadRequest, WriteAnswer, ReplyZens, ReadReverse, ServeEOF, SendZens,
           ReadZens, SendReverse, Abort, storeVars
  <1>4. known \in [Zens -> SUBSET Zens] /\ held \in [Zens -> [Zens -> SUBSET Event]]
    BY DEF TypeInv, PullTypes, StoreTypes
  <1>5. \A x \in Zens : known[x] \subseteq known'[x]
    BY <1>2, <1>4
  <1>6. \A x, y \in Zens : held[x][y] \subseteq held'[x][y]
    <2>1. \A e, S : S \subseteq LS!Insert(e, S)
      BY DEF LS!Insert
    <2> QED BY <1>3, <1>4, <2>1
  <1> QED BY <1>1, <1>5, <1>6 DEF Grown

\* What a zen has got or told, it has for good.
LEMMA Keeps ==
    ASSUME Grown, NEW x \in Zens
    PROVE  /\ \A l : Got(x, l) => Got(x, l)'
           /\ Told(x) => Told(x)'
  <1>1. Peer(x) \in Zens /\ atStart' = atStart
    BY TwoZens DEF Grown
  <1>2. ASSUME NEW l, Got(x, l), NEW e \in atStart.own[Peer(x)], e.log = l
        PROVE  LS!Covered(e, held'[x][Peer(x)])
    <2>1. LS!Covered(e, held[x][Peer(x)])
      BY <1>2 DEF Got
    <2>2. held[x][Peer(x)] \subseteq held'[x][Peer(x)]
      BY <1>1 DEF Grown
    <2> QED BY <2>1, <2>2, CoveredGrows
  <1>3. ASSUME NEW l, Got(x, l) PROVE Got(x, l)'
    <2>1. \A e \in atStart.own[Peer(x)] : e.log = l => LS!Covered(e, held'[x][Peer(x)])
      BY <1>2, <1>3
    <2> QED BY <1>1, <2>1 DEF Got, LS!Covered
  <1>4. Told(x) => Told(x)'
    BY <1>1 DEF Told, Grown
  <1> QED BY <1>3, <1>4

\* A pull that a step leaves alone.
LEMMA PullKept ==
    ASSUME Grown, NEW x \in Zens, Same(x), log'[x] = log[x], after'[x] = after[x],
           pc'[x] = "pullProfile" => pc[x] = "pullProfile", PullProgress(x)
    PROVE  PullProgress(x)'
  <1>1. Peer(x) \in Zens /\ atStart' = atStart
    BY TwoZens DEF Grown
  <1>2. Got(x, PostLog) => Got(x, PostLog)'
    BY Keeps
  <1>3. PullPhase(x)' = PullPhase(x) /\ InTransit(x)' = InTransit(x)
    BY DEF Same
  <1>4. ASSUME NEW e, LS!Covered(e, held[x][Peer(x)]) PROVE LS!Covered(e, held[x][Peer(x)])'
    <2>1. held[x][Peer(x)] \subseteq held'[x][Peer(x)]
      BY <1>1 DEF Grown
    <2>2. LS!Covered(e, held'[x][Peer(x)])
      BY <1>4, <2>1, CoveredGrows
    <2> QED BY <2>2 DEF LS!Covered
  <1>5. Delivers(x)'
    <2>1. Delivers(x)
      BY DEF PullProgress
    <2> QED BY <1>1, <1>3, <1>4, <2>1 DEF Delivers
  <1> QED BY <1>2, <1>3, <1>5 DEF PullProgress

\* While the initiator waits for tokens, the listener can only reply.
LEMMA ListenerReplies ==
    ASSUME TypeInv, Talk, up, NEW z \in Zens, NEW i, i = Peer(z), pc[i] = "zensWait", SessionStep(z)
    PROVE  ReplyZens(z) /\ Offered(i)
  <1>1. i \in Zens /\ i # z /\ Peer(i) = z /\ \A x \in Zens : x = z \/ x = i
    BY TwoZens
  <1>2. Offered(i) \/ Replied(i)
    <2>1. Shaking \/ Ready(z) \/ Ready(i) \/ Pulling(z) \/ Pulling(i) \/ Between(z) \/ Between(i)
      BY <1>1 DEF Talk
    <2>2. ~Shaking /\ ~Ready(z) /\ ~Ready(i)
      BY <1>1 DEF Shaking, Shake, Ready
    <2>3. ~Pulling(z) /\ ~Pulling(i)
      BY <1>1 DEF Pulling, Asking, Asked, Answering, Answered, Waits, Pulls
    <2>4. ~Between(z) /\ ~Idle(i) /\ ~Reversed(i)
      BY <1>1 DEF Between, Idle, Offered, Replied, Reversed
    <2> QED BY <2>1, <2>2, <2>3, <2>4 DEF Between
  <1>3. pc[z] = "serve"
    BY <1>1, <1>2 DEF Offered, Replied
  <1>4. wire[i] # <<>> => Offered(i) /\ Head(wire[i]).kind = "zens"
    <2>1. ASSUME wire[i] # <<>> PROVE Offered(i) /\ Head(wire[i]).kind = "zens"
      <3>1. Offered(i)
        BY <1>2, <2>1 DEF Replied
      <3>2. PICK R : wire[i] = <<ZensMsg(R)>>
        BY <3>1 DEF Offered
      <3> QED BY <3>1, <3>2, Short, Kinds
    <2> QED BY <2>1
  <1>5. ~Incoming(z, "request") /\ ~Incoming(z, "reverse") /\ (Incoming(z, "zens") => Offered(i))
    BY <1>4 DEF Incoming
  <1>6. ~(\/ ReadHello(z) \/ SendAuth(z) \/ ReadAuth(z) \/ Authed(z) \/ SendRequest(z)
          \/ ReadEvents(z) \/ MergeEvent(z) \/ ReadDone(z) \/ PullEOF(z) \/ WriteAnswer(z)
          \/ ServeEOF(z) \/ SendZens(z) \/ ReadZens(z) \/ SendReverse(z) \/ Abort(z))
    BY <1>3 DEF ReadHello, SendAuth, ReadAuth, Authed, SendRequest, ReadEvents, MergeEvent, ReadDone,
           PullEOF, WriteAnswer, ServeEOF, SendZens, ReadZens, SendReverse, Abort
  <1>7. ~ReadRequest(z) /\ ~ReadReverse(z) /\ (ReplyZens(z) => Offered(i))
    BY <1>5 DEF ReadRequest, ReadReverse, ReplyZens
  <1> QED BY <1>6, <1>7 DEF SessionStep

\* Steps that neither pass tokens on nor end a pull.
LEMMA InitiatorKept ==
    ASSUME TypeInv, Talk, up, Progress, NEW z \in Zens, SessionStep(z), Grown,
           pc'[Peer(z)] = pc[Peer(z)], pc[z] # "serve" \/ pc'[z] # "serve",
           z = initiator => /\ pc'[z] \notin {"zens", "zensWait"}
                            /\ pc'[z] \in Later => pc[z] \in Later,
           NEW i \in Zens, i = initiator
    PROVE  InitiatorProgress(i)'
  <1>1. Peer(i) \in Zens /\ \A x \in Zens : x = z \/ x = Peer(z)
    BY TwoZens
  <1>2. InitiatorProgress(i)
    BY DEF Progress
  <1>3. pc'[i] # "zensWait"
    <2>1. CASE i = z
      BY <2>1
    <2>2. CASE i = Peer(z)
      <3> SUFFICES ASSUME pc[i] = "zensWait" PROVE FALSE
        BY <2>2
      <3>1. ReplyZens(z)
        BY <2>2, ListenerReplies
      <3>2. pc[z] = "serve" /\ pc' = pc
        BY <3>1 DEF ReplyZens
      <3> QED BY <3>2
    <2> QED BY <1>1, <2>1, <2>2
  <1>4. /\ pc'[i] \in Later => pc[i] \in Later
        /\ pc'[i] \in {"zens", "zensWait"} \cup Later => pc[i] \in {"zens", "zensWait"} \cup Later
    BY <1>1
  <1>5. /\ Got(i, PostLog) => Got(i, PostLog)'
        /\ Got(i, ProfileLog) => Got(i, ProfileLog)'
        /\ Told(i) => Told(i)'
        /\ Told(Peer(i)) => Told(Peer(i))'
    BY <1>1, Keeps
  <1> QED BY <1>2, <1>3, <1>4, <1>5 DEF InitiatorProgress, Later

\* Handshake, role reversal and batches: nothing changes hands.
LEMMA QuietProgress ==
    ASSUME TypeInv, StepInv, up, PullsInv, Progress, NEW z \in Zens,
           \/ ReadHello(z) \/ SendAuth(z) \/ ReadAuth(z) \/ Authed(z) \/ ReadReverse(z)
           \/ SendReverse(z) \/ ReadEvents(z) \/ WriteAnswer(z)
    PROVE  Progress'
  <1>0. PICK y : y = Peer(z)
    OBVIOUS
  <1>1. y \in Zens /\ ConnTypes /\ Talk /\ \A x \in Zens : x = z \/ x = y
    BY <1>0, TwoZens DEF TypeInv, StepInv
  <1>2. SessionStep(z)
    BY DEF SessionStep
  <1>3. Grown
    BY <1>2, StepGrows
  <1>4. \A x \in Zens : Same(x)
    BY QuietStep, EventsStep, WriteStep
  <1>5. UNCHANGED <<log, after>>
    BY DEF ReadHello, SendAuth, ReadAuth, Authed, ReadReverse, SendReverse, ReadEvents, WriteAnswer,
           pullVars
  <1>6. /\ pc'[z] # "pullProfile" /\ pc'[y] = pc[y] /\ (pc[z] # "serve" \/ pc'[z] # "serve")
        /\ z = initiator => /\ pc'[z] \notin {"zens", "zensWait"}
                            /\ pc'[z] \in Later => pc[z] \in Later
    <2>1. CASE ReadHello(z) \/ SendAuth(z) \/ ReadAuth(z) \/ Authed(z)
      <3>1. /\ pc[z] \in Shake
            /\ \/ \E l \in {"gotHello", "auth", "gotAuth"} : Goto(z, l)
               \/ Goto(z, IF z = initiator THEN "pullPost" ELSE "serve")
        BY <2>1 DEF ReadHello, SendAuth, ReadAuth, Authed, Shake
      <3>2. /\ pc'[y] = pc[y]
            /\ \/ pc'[z] \in {"gotHello", "auth", "gotAuth"}
               \/ pc'[z] = IF z = initiator THEN "pullPost" ELSE "serve"
        BY <1>0, <1>1, <3>1, Effects
      <3> QED BY <3>1, <3>2 DEF Shake, Later
    <2>2. CASE ReadReverse(z) \/ SendReverse(z) \/ ReadEvents(z) \/ WriteAnswer(z)
      <3>1. \/ pc[z] = "serve" /\ Goto(z, "pullPost")
            \/ pc[z] = "reverse" /\ Goto(z, "serve")
            \/ pc[z] = "reading" /\ Goto(z, "merging")
            \/ pc[z] = "answer" /\ \E l \in {"serve", "answer"} : Goto(z, l)
        BY <2>2 DEF ReadReverse, SendReverse, ReadEvents, WriteAnswer
      <3>2. /\ pc'[y] = pc[y]
            /\ \/ pc[z] = "serve" /\ pc'[z] = "pullPost"
               \/ pc[z] = "reverse" /\ pc'[z] = "serve"
               \/ pc[z] = "reading" /\ pc'[z] = "merging"
               \/ pc[z] = "answer" /\ pc'[z] \in {"serve", "answer"}
        BY <1>0, <1>1, <3>1, Effects
      <3> QED BY <3>2 DEF Later
    <2> QED BY <2>1, <2>2
  <1>7. \A x \in Zens : PullProgress(x)'
    BY <1>1, <1>3, <1>4, <1>5, <1>6, PullKept DEF Progress
  <1>8. \A i \in Zens : i = initiator => InitiatorProgress(i)'
    BY <1>0, <1>1, <1>2, <1>3, <1>6, InitiatorKept
  <1> QED BY <1>3, <1>7, <1>8 DEF Progress, Grown

\* Tokens are sent, answered and read.
LEMMA ZensProgress ==
    ASSUME TypeInv, StepInv, up, PullsInv, HistoryInv, Progress, NEW z \in Zens,
           SendZens(z) \/ ReadZens(z) \/ ReplyZens(z)
    PROVE  Progress'
  <1>0. PICK y : y = Peer(z)
    OBVIOUS
  <1>1. /\ y \in Zens /\ y # z /\ Peer(y) = z /\ ConnTypes /\ PullTypes /\ Talk
        /\ \A x \in Zens : x = z \/ x = y
    BY <1>0, TwoZens DEF TypeInv, StepInv
  <1>2. Grown
    BY StepGrows DEF SessionStep
  <1>3. \A x \in Zens : Same(x)
    BY QuietStep
  <1>4. UNCHANGED <<log, after>>
    BY DEF SendZens, ReadZens, ReplyZens, pullVars
  <1>5. pc'[y] = pc[y] /\ pc'[z] # "pullProfile"
    <2>1. CASE SendZens(z) \/ ReadZens(z)
      <3>1. \E l \in {"zensWait", "reverse"} : Goto(z, l)
        BY <2>1 DEF SendZens, ReadZens
      <3> QED BY <1>0, <1>1, <3>1, Effects
    <2>2. CASE ReplyZens(z)
      BY <2>2 DEF ReplyZens
    <2> QED BY <2>1, <2>2
  <1>6. \A x \in Zens : PullProgress(x)'
    BY <1>1, <1>2, <1>3, <1>4, <1>5, PullKept DEF Progress
  <1>7. atStart' = atStart /\ initiator' = initiator
    BY <1>2 DEF Grown
  <1>8. \A x \in Zens : /\ Got(x, PostLog) => Got(x, PostLog)'
                        /\ Got(x, ProfileLog) => Got(x, ProfileLog)'
                        /\ Told(x) => Told(x)'
    BY <1>2, Keeps
  <1>9. CASE SendZens(z)
    <2>1. PICK R : R = known[z]
      OBVIOUS
    <2>2. /\ pc[z] = "zens" /\ pc'[z] = "zensWait"
          /\ wire'[z] = Append(wire[z], ZensMsg(R)) /\ wire'[y] = wire[y]
      BY <1>0, <1>1, <1>9, <2>1, Effects DEF SendZens
    <2>3. Idle(z)
      BY <1>0, <1>1, <2>2, Where
    <2>4. z = initiator /\ wire'[z] = <<ZensMsg(R)>> /\ wire'[y] = <<>>
      BY <1>0, <2>2, <2>3, Short DEF Idle
    <2>5. wire'[z] # <<>> /\ Head(wire'[z]).refs = R
      <3>1. Head(wire'[z]) = ZensMsg(R) /\ wire'[z] # <<>>
        BY <2>4, Short
      <3> QED BY <3>1 DEF ZensMsg
    <2>6. atStart.known[z] \subseteq R
      BY <2>1 DEF HistoryInv
    <2>7. Carries(wire[z], z)' /\ Carries(wire[y], y)'
      BY <1>7, <2>4, <2>5, <2>6 DEF Carries
    <2>8. Got(z, PostLog)' /\ Got(z, ProfileLog)'
      BY <1>8, <2>2, <2>4 DEF Progress, InitiatorProgress
    <2>9. InitiatorProgress(z)'
      BY <1>0, <2>2, <2>5, <2>7, <2>8 DEF InitiatorProgress, Later
    <2> QED BY <1>6, <1>7, <2>4, <2>9 DEF Progress
  <1>10. CASE ReadZens(z)
    <2>1. PICK R : R = Head(wire[y]).refs
      OBVIOUS
    <2>2. /\ pc[z] = "zensWait" /\ pc'[z] = "reverse" /\ wire[y] # <<>>
          /\ known' = [known EXCEPT ![z] = @ \cup R]
      BY <1>0, <1>1, <1>10, <2>1, Effects DEF ReadZens, Incoming, Msg
    <2>3. Replied(z)
      BY <1>0, <1>1, <2>2, Where
    <2>4. z = initiator /\ wire[z] = <<>>
      BY <2>3 DEF Replied
    <2>5. /\ Told(z) /\ atStart.known[y] \subseteq R
          /\ Got(z, PostLog) /\ Got(z, ProfileLog)
      BY <1>0, <1>1, <2>1, <2>2, <2>4 DEF Progress, InitiatorProgress, Carries
    <2>6. known'[z] = known[z] \cup R
      BY <1>1, <2>2 DEF PullTypes
    <2>7. Told(y)'
      BY <1>1, <1>7, <2>5, <2>6 DEF Told
    <2>8. InitiatorProgress(z)'
      BY <1>0, <1>8, <2>2, <2>5, <2>7 DEF InitiatorProgress
    <2> QED BY <1>6, <1>7, <2>4, <2>8 DEF Progress
  <1>11. CASE ReplyZens(z)
    <2>1. PICK R, K : R = Head(wire[y]).refs /\ K = known'[z]
      OBVIOUS
    <2>2. /\ pc[z] = "serve" /\ pc' = pc /\ wire[y] # <<>> /\ Head(wire[y]).kind = "zens"
          /\ known' = [known EXCEPT ![z] = @ \cup R]
          /\ wire' = [wire EXCEPT ![y] = Tail(@), ![z] = Append(@, ZensMsg(K))]
      BY <1>0, <1>11, <2>1 DEF ReplyZens, Incoming, Msg
    <2>3. Offered(y)
      BY <1>0, <1>1, <2>2, ServeReads
    <2>4. y = initiator /\ pc[y] = "zensWait" /\ wire[z] = <<>> /\ \E Q : wire[y] = <<ZensMsg(Q)>>
      BY <1>1, <2>3 DEF Offered
    <2>5. wire'[y] = <<>> /\ wire'[z] = <<ZensMsg(K)>>
      <3>1. wire'[y] = Tail(wire[y]) /\ wire'[z] = Append(wire[z], ZensMsg(K))
        BY <1>1, <2>2 DEF ConnTypes
      <3> QED BY <2>4, <3>1, Short
    <2>6. wire'[z] # <<>> /\ Head(wire'[z]).refs = K
      <3>1. Head(wire'[z]) = ZensMsg(K) /\ wire'[z] # <<>>
        BY <2>5, Short
      <3> QED BY <3>1 DEF ZensMsg
    <2>7. K = known[z] \cup R
      BY <1>1, <2>1, <2>2 DEF PullTypes
    <2>8. atStart.known[z] \subseteq K /\ atStart.known[y] \subseteq K
      <3>1. atStart.known[y] \subseteq R
        BY <1>1, <2>1, <2>2, <2>4 DEF Progress, InitiatorProgress, Carries
      <3>2. atStart.known[z] \subseteq known[z]
        BY DEF HistoryInv
      <3> QED BY <2>7, <3>1, <3>2
    <2>9. Carries(wire[y], y)' /\ Carries(wire[z], z)' /\ Told(y)'
      BY <1>1, <1>7, <2>1, <2>5, <2>6, <2>8 DEF Carries, Told
    <2>10. Got(y, PostLog)' /\ Got(y, ProfileLog)'
      BY <1>1, <1>8, <2>4 DEF Progress, InitiatorProgress
    <2>11. InitiatorProgress(y)'
      BY <1>1, <2>2, <2>4, <2>9, <2>10 DEF InitiatorProgress, Later
    <2> QED BY <1>1, <1>6, <1>7, <2>4, <2>11 DEF Progress
  <1> QED BY <1>9, <1>10, <1>11

\* The cursor a request carries is safe: what is at or below it is held.
LEMMA RequestProgress ==
    ASSUME TypeInv, StepInv, up, PullsInv, LS!CursorSafe, HistoryInv, Progress, NEW z \in Zens,
           SendRequest(z)
    PROVE  Progress'
  <1>0. PICK y : y = Peer(z)
    OBVIOUS
  <1>1. /\ y \in Zens /\ y # z /\ Peer(y) = z /\ ConnTypes /\ PullTypes /\ StoreTypes /\ Talk
        /\ \A x \in Zens : x = z \/ x = y
    BY <1>0, TwoZens DEF TypeInv, StepInv
  <1>2. Grown /\ SessionStep(z)
    BY StepGrows DEF SessionStep
  <1>3. PICK l : l = IF pc[z] = "pullPost" THEN PostLog ELSE ProfileLog
    OBVIOUS
  <1>4. PICK k : k = [reader |-> z, author |-> y, log |-> l]
    OBVIOUS
  <1>5. /\ log' = [log EXCEPT ![z] = l] /\ after' = [after EXCEPT ![z] = cursor[k]]
        /\ pc[z] \in {"pullPost", "pullProfile"} /\ Goto(z, "reading") /\ held' = held
    BY <1>0, <1>3, <1>4 DEF SendRequest, storeVars
  <1>6. pc'[z] = "reading" /\ pc'[y] = pc[y]
    BY <1>0, <1>1, <1>5, Effects
  <1>7. log'[z] = l /\ after'[z] = cursor[k] /\ log'[y] = log[y] /\ after'[y] = after[y]
    BY <1>1, <1>5 DEF PullTypes
  <1>8. Same(y) /\ PullPhase(z)' = "asked"
    BY <1>0, RequestStep
  <1>9. PullProgress(y)'
    BY <1>1, <1>2, <1>6, <1>7, <1>8, PullKept DEF Progress
  <1>10. atStart' = atStart /\ initiator' = initiator
    BY <1>2 DEF Grown
  <1>11. ASSUME NEW e \in atStart.own[y], e.log = l, e.ts <= cursor[k]
         PROVE  LS!Covered(e, held[z][y])
    <2>1. k \in LS!Key /\ k.author = y /\ k.reader = z /\ k.log = l
      BY <1>1, <1>3, <1>4 DEF LS!Key, Logs
    <2>2. e \in own[y]
      BY <1>1 DEF HistoryInv
    <2> QED BY <1>11, <2>1, <2>2 DEF LS!CursorSafe
  <1>12. Delivers(z)'
    BY <1>0, <1>5, <1>7, <1>8, <1>10, <1>11 DEF Delivers, LS!Covered
  <1>13. l # PostLog => Got(z, PostLog)'
    <2>1. ASSUME l # PostLog PROVE Got(z, PostLog)'
      <3>1. pc[z] = "pullProfile"
        BY <1>3, <1>5, <2>1
      <3>2. Got(z, PostLog)
        BY <3>1 DEF Progress, PullProgress
      <3> QED BY <1>2, <3>2, Keeps
    <2> QED BY <2>1
  <1>14. PullProgress(z)'
    BY <1>6, <1>7, <1>12, <1>13 DEF PullProgress
  <1>15. \A i \in Zens : i = initiator => InitiatorProgress(i)'
    BY <1>0, <1>1, <1>2, <1>5, <1>6, InitiatorKept DEF Later
  <1> QED BY <1>1, <1>9, <1>10, <1>14, <1>15 DEF Progress

\* What leaves the stream is in the store.
LEMMA MergeProgress ==
    ASSUME TypeInv, StepInv, up, PullsInv, Progress, NEW z \in Zens, MergeEvent(z)
    PROVE  Progress'
  <1>0. PICK y : y = Peer(z)
    OBVIOUS
  <1>1. /\ y \in Zens /\ y # z /\ Peer(y) = z /\ ConnTypes /\ PullTypes /\ StoreTypes /\ Talk
        /\ \A x \in Zens : x = z \/ x = y
    BY <1>0, TwoZens DEF TypeInv, StepInv
  <1>2. Grown /\ SessionStep(z)
    BY StepGrows DEF SessionStep
  <1>3. PICK e : e = Head(batch[z])
    OBVIOUS
  <1>4. /\ pc[z] = "merging" /\ \E l \in Pulls : Goto(z, l) /\ UNCHANGED <<log, after>>
        /\ held' = [held EXCEPT ![z][y] = LS!Insert(e, @)]
    BY <1>0, <1>3 DEF MergeEvent, Pulls
  <1>5. pc'[z] \in Pulls /\ pc'[y] = pc[y]
    BY <1>0, <1>1, <1>4, Effects
  <1>6. /\ Same(y) /\ PullPhase(z) = "stream" /\ PullPhase(z)' = "stream"
        /\ InTransit(z)' = InTransit(z) \ {e}
    BY <1>0, <1>3, MergeStep
  <1>7. PullProgress(y)'
    BY <1>1, <1>2, <1>4, <1>5, <1>6, PullKept DEF Progress
  <1>8. atStart' = atStart /\ initiator' = initiator
    BY <1>2 DEF Grown
  <1>9. PullProgress(z)
    BY DEF Progress
  <1>10. LS!Covered(e, held'[z][y])
    <2>1. held'[z][y] = LS!Insert(e, held[z][y])
      BY <1>1, <1>4 DEF StoreTypes
    <2> QED BY <2>1 DEF LS!Insert, LS!Covered
  <1>11. ASSUME NEW f, LS!Covered(f, held[z][y]) PROVE LS!Covered(f, held'[z][y])
    <2>1. held[z][y] \subseteq held'[z][y]
      BY <1>1, <1>2 DEF Grown
    <2> QED BY <1>11, <2>1, CoveredGrows
  <1>12. ASSUME NEW f \in atStart.own[y], f.log = log[z]
         PROVE  f \in InTransit(z) \ {e} \/ LS!Covered(f, held'[z][y])
    <2>1. f \in InTransit(z) \/ LS!Covered(f, held[z][y])
      BY <1>0, <1>6, <1>9, <1>12 DEF PullProgress, Delivers
    <2> QED BY <1>10, <1>11, <2>1
  <1>13. Delivers(z)'
    BY <1>0, <1>4, <1>6, <1>8, <1>12 DEF Delivers, LS!Covered
  <1>14. log[z] # PostLog => Got(z, PostLog)'
    <2>1. log[z] # PostLog => Got(z, PostLog)
      BY <1>6, <1>9 DEF PullProgress
    <2> QED BY <1>2, <2>1, Keeps
  <1>15. PullProgress(z)'
    BY <1>4, <1>5, <1>13, <1>14 DEF PullProgress, Pulls
  <1>16. \A i \in Zens : i = initiator => InitiatorProgress(i)'
    BY <1>0, <1>1, <1>2, <1>4, <1>5, InitiatorKept DEF Later, Pulls
  <1> QED BY <1>1, <1>7, <1>8, <1>15, <1>16 DEF Progress

\* What is above the request is in the answer.
LEMMA ServeProgress ==
    ASSUME TypeInv, StepInv, up, PullsInv, HistoryInv, Progress, NEW z \in Zens, ReadRequest(z)
    PROVE  Progress'
  <1>0. PICK y : y = Peer(z)
    OBVIOUS
  <1>1. /\ y \in Zens /\ y # z /\ Peer(y) = z /\ ConnTypes /\ PullTypes /\ StoreTypes /\ Talk
        /\ \A x \in Zens : x = z \/ x = y
    BY <1>0, TwoZens DEF TypeInv, StepInv
  <1>2. Grown /\ SessionStep(z)
    BY StepGrows DEF SessionStep
  <1>3. /\ pc[z] = "serve" /\ Goto(z, "answer") /\ UNCHANGED <<own, held, log, after>>
    BY DEF ReadRequest, storeVars, pullVars
  <1>4. pc'[z] = "answer" /\ pc'[y] = pc[y]
    BY <1>0, <1>1, <1>3, Effects
  <1>5. /\ Same(z)
        /\ \/ Same(y)
           \/ /\ PullPhase(y) = "asked" /\ PullPhase(y)' = "stream"
              /\ InTransit(y)' = LS!fetchOwnEvents(z, log[y], after[y])
    BY <1>0, ServeStep
  <1>6. atStart' = atStart /\ initiator' = initiator
    BY <1>2 DEF Grown
  <1>7. PullProgress(z)'
    BY <1>2, <1>3, <1>4, <1>5, PullKept DEF Progress
  <1>8. PullProgress(y)'
    <2>1. CASE Same(y)
      BY <1>1, <1>2, <1>3, <1>4, <2>1, PullKept DEF Progress
    <2>2. CASE /\ PullPhase(y) = "asked" /\ PullPhase(y)' = "stream"
               /\ InTransit(y)' = LS!fetchOwnEvents(z, log[y], after[y])
      <3>1. PullProgress(y)
        BY <1>1 DEF Progress
      <3>2. ASSUME NEW e \in atStart.own[z], e.log = log[y]
            PROVE  e \in LS!fetchOwnEvents(z, log[y], after[y]) \/ LS!Covered(e, held[y][z])
        <4>1. e \in own[z] /\ own[z] \in SUBSET Event
          BY <1>1 DEF HistoryInv, StoreTypes, EventSets
        <4>2. e.ts \in Int /\ after[y] \in Int
          BY <1>1, <4>1, StoreAssumption DEF Event, LS!Event, PullTypes
        <4>3. CASE e.ts <= after[y]
          BY <1>1, <2>2, <3>1, <3>2, <4>3 DEF PullProgress, Delivers
        <4>4. CASE e.ts > after[y]
          BY <3>2, <4>1, <4>4 DEF LS!fetchOwnEvents
        <4> QED BY <4>2, <4>3, <4>4
      <3>3. Delivers(y)'
        BY <1>1, <1>3, <1>6, <2>2, <3>2 DEF Delivers, LS!Covered
      <3>4. Got(y, PostLog) => Got(y, PostLog)'
        BY <1>1, <1>2, Keeps
      <3> QED BY <1>3, <1>4, <2>2, <3>1, <3>3, <3>4 DEF PullProgress
    <2> QED BY <1>5, <2>1, <2>2
  <1>9. \A i \in Zens : i = initiator => InitiatorProgress(i)'
    BY <1>0, <1>1, <1>2, <1>3, <1>4, InitiatorKept DEF Later
  <1> QED BY <1>1, <1>6, <1>7, <1>8, <1>9 DEF Progress

\* A pull that ends with Done has got the whole log; when the listener's second
\* pull ends, both zens have everything.
LEMMA DoneProgress ==
    ASSUME TypeInv, StepInv, up, PullsInv, CutInv, Progress, NEW z \in Zens, ReadDone(z)
    PROVE  IF up' THEN Progress' ELSE Complete'
  <1>0. PICK y : y = Peer(z)
    OBVIOUS
  <1>1. /\ y \in Zens /\ y # z /\ Peer(y) = z /\ ConnTypes /\ PullTypes /\ Talk /\ initiator \in Zens
        /\ \A x \in Zens : x = z \/ x = y
    BY <1>0, TwoZens DEF TypeInv, StepInv, ConnTypes
  <1>2. Grown /\ SessionStep(z)
    BY StepGrows DEF SessionStep
  <1>3. /\ pc[z] = "reading" /\ wire[y] # <<>> /\ log' = log
        /\ after' = [after EXCEPT ![z] = 0] /\ AfterPull(z)
    BY <1>0 DEF ReadDone, FinishPull, Incoming
  <1>4. Same(y) /\ PullPhase(z)' = "idle" /\ PullPhase(z) = "stream" /\ InTransit(z) = {}
    BY <1>0, FinishStep
  <1>5. PullProgress(z) /\ PullProgress(y)
    BY <1>1 DEF Progress
  <1>6. Got(z, log[z]) /\ (log[z] # PostLog => Got(z, PostLog))
    BY <1>4, <1>5 DEF PullProgress, Delivers, Got
  <1>7. after'[y] = after[y]
    BY <1>1, <1>3 DEF PullTypes
  <1>8. atStart' = atStart /\ initiator' = initiator
    BY <1>2 DEF Grown
  <1>9. \A x \in Zens : /\ \A l : Got(x, l) => Got(x, l)'
                        /\ Told(x) => Told(x)'
    BY <1>2, Keeps
  <1>10. Delivers(z)'
    BY <1>4 DEF Delivers
  <1>11. log[z] \in {PostLog, ProfileLog}
    BY <1>1 DEF PullTypes, Logs
  <1>12. CASE log[z] = PostLog
    <2>1. up' /\ Goto(z, "pullProfile")
      BY <1>3, <1>12 DEF AfterPull
    <2>2. pc'[z] = "pullProfile" /\ pc'[y] = pc[y]
      BY <1>0, <1>1, <2>1, Effects
    <2>3. PullProgress(z)'
      BY <1>6, <1>9, <1>10, <1>12 DEF PullProgress
    <2>4. PullProgress(y)'
      BY <1>1, <1>2, <1>3, <1>4, <1>5, <1>7, <2>2, PullKept
    <2>5. \A i \in Zens : i = initiator => InitiatorProgress(i)'
      BY <1>0, <1>1, <1>2, <1>3, <2>2, InitiatorKept DEF Later
    <2> QED BY <1>1, <1>8, <2>1, <2>3, <2>4, <2>5 DEF Progress
  <1>13. CASE log[z] # PostLog /\ z = initiator
    <2>1. up' /\ Goto(z, "zens")
      BY <1>3, <1>13 DEF AfterPull
    <2>2. pc'[z] = "zens" /\ pc'[y] = pc[y]
      BY <1>0, <1>1, <2>1, Effects
    <2>3. Got(z, PostLog)' /\ Got(z, ProfileLog)'
      BY <1>6, <1>9, <1>11, <1>13
    <2>4. PullProgress(z)'
      BY <1>10, <2>3 DEF PullProgress
    <2>5. PullProgress(y)'
      BY <1>1, <1>2, <1>3, <1>4, <1>5, <1>7, <2>2, PullKept
    <2>6. InitiatorProgress(z)'
      BY <2>2, <2>3 DEF InitiatorProgress, Later
    <2> QED BY <1>1, <1>8, <1>13, <2>1, <2>4, <2>5, <2>6 DEF Progress
  <1>14. CASE log[z] # PostLog /\ z # initiator
    <2>1. ~up'
      BY <1>3, <1>14 DEF AfterPull, Close
    <2>2. Answering(z) \/ Answered(z)
      BY <1>0, <1>1, <1>3, Where
    <2>3. y = initiator /\ pc[y] \in {"answer", "serve"}
      BY <1>0, <1>1, <1>14, <2>2 DEF Answering, Answered
    <2>4. Got(y, PostLog) /\ Got(y, ProfileLog) /\ Told(y) /\ Told(z)
      BY <1>1, <2>3 DEF Progress, InitiatorProgress, Later
    <2>5. Got(z, PostLog) /\ Got(z, ProfileLog)
      BY <1>6, <1>11, <1>14
    <2>6. Complete'
      BY <1>1, <1>9, <2>4, <2>5 DEF Complete
    <2> QED BY <2>1, <2>6
  <1> QED BY <1>12, <1>13, <1>14

----------------------------------------------------------------------------
(* The history as an invariant.                                            *)

\* A zen that has all keeps it.
LEMMA CompleteKept == Grown /\ Complete => Complete'
  BY Keeps DEF Complete

\* What was there at the start stays there.
LEMMA HistoryKept == Grown /\ HistoryInv => HistoryInv'
  BY DEF Grown, HistoryInv

\* The zens write, or nothing happens.
LEMMA OutsideProgress ==
    ASSUME TypeInv, HistoryInv, ProgressInv, UNCHANGED sessionVars,
           (\E z \in Zens : LS!AuthorStep(z)) \/ UNCHANGED storeVars
    PROVE  HistoryInv' /\ ProgressInv'
  <1>1. UNCHANGED <<pc, initiator, up, wire, answer, batch, log, after, known, sessions, atStart>>
    BY DEF sessionVars, connVars, pullVars, countVars
  <1>2. held' = held /\ \A x \in Zens : own[x] \subseteq own'[x]
    <2>1. CASE UNCHANGED storeVars
      BY <2>1 DEF storeVars
    <2>2. ASSUME NEW z \in Zens, LS!AuthorStep(z)
          PROVE  held' = held /\ \A x \in Zens : own[x] \subseteq own'[x]
      <3>1. held' = held /\ (own' = own \/ \E e : own' = [own EXCEPT ![z] = LS!Insert(e, @)])
        BY <2>2 DEF LS!AuthorStep, LS!Tick, LS!Sign, LS!AppendOwnEvent, LS!LoseSigned
      <3>2. \A e, S : S \subseteq LS!Insert(e, S)
        BY DEF LS!Insert
      <3> QED BY <3>1, <3>2 DEF TypeInv, StoreTypes
    <2> QED BY <2>1, <2>2
  <1>3. Grown
    BY <1>1, <1>2 DEF Grown
  <1>4. ASSUME Progress PROVE Progress'
    <2>1. \A x \in Zens : Same(x)
      BY <1>1, PhaseIs DEF Same
    <2>2. \A x \in Zens : PullProgress(x)'
      BY <1>1, <1>3, <1>4, <2>1, PullKept DEF Progress
    <2>3. ASSUME NEW x \in Zens, InitiatorProgress(x) PROVE InitiatorProgress(x)'
      <3>1. /\ Got(x, PostLog) => Got(x, PostLog)'
            /\ Got(x, ProfileLog) => Got(x, ProfileLog)'
            /\ Told(x) => Told(x)'
            /\ Told(Peer(x)) => Told(Peer(x))'
        BY <1>3, TwoZens, Keeps
      <3>2. Carries(wire[x], x)' = Carries(wire[x], x)
            /\ Carries(wire[Peer(x)], Peer(x))' = Carries(wire[Peer(x)], Peer(x))
        BY <1>1 DEF Carries
      <3> QED BY <1>1, <2>3, <3>1, <3>2 DEF InitiatorProgress, Later
    <2> QED BY <1>1, <1>4, <2>2, <2>3 DEF Progress
  <1>5. ProgressInv'
    BY <1>1, <1>3, <1>4, CompleteKept DEF ProgressInv
  <1> QED BY <1>3, <1>5, HistoryKept

\* A session begins: what the zens have now is what it owes.
LEMMA ConnectProgress ==
    ASSUME TypeInv, NEW z \in Zens, Connect(z)
    PROVE  HistoryInv' /\ ProgressInv'
  <1>1. /\ up' /\ atStart' = [own |-> own, known |-> known, broken |-> FALSE]
        /\ UNCHANGED <<own, known>> /\ \A x \in Zens : pc'[x] = "hello"
    BY DEF Connect, storeVars
  <1>2. HistoryInv'
    BY <1>1 DEF HistoryInv
  <1>3. \A x \in Zens : PullPhase(x)' = "idle"
    BY <1>1, PhaseIs DEF Pulls
  <1>4. \A x \in Zens : PullProgress(x)'
    BY <1>1, <1>3 DEF PullProgress, Delivers
  <1>5. \A x \in Zens : InitiatorProgress(x)'
    BY <1>1 DEF InitiatorProgress, Later
  <1> QED BY <1>1, <1>2, <1>4, <1>5 DEF ProgressInv, Progress

\* Every step keeps what each zen has got so far.
LEMMA NextProgress ==
    ASSUME TypeInv, StepInv, PullsInv, CutInv, LS!CursorSafe, HistoryInv, ProgressInv, [Next]_vars
    PROVE  HistoryInv' /\ ProgressInv'
  <1>1. CASE UNCHANGED vars
    BY <1>1, OutsideProgress DEF vars
  <1>2. ASSUME NEW z \in Writers, AuthorStep(z) PROVE HistoryInv' /\ ProgressInv'
    BY <1>2, OutsideProgress, SessionAssumption DEF AuthorStep
  <1>3. CASE Break
    <2>1. atStart' = [atStart EXCEPT !.broken = TRUE] /\ UNCHANGED <<own, known>>
      BY <1>3 DEF Break, storeVars
    <2>2. atStart'.broken /\ atStart'.own = atStart.own /\ atStart'.known = atStart.known
      BY <2>1 DEF TypeInv, CountTypes
    <2> QED BY <2>1, <2>2 DEF HistoryInv, ProgressInv
  <1>4. ASSUME NEW z \in Zens, Connect(z) PROVE HistoryInv' /\ ProgressInv'
    BY <1>4, ConnectProgress
  <1>5. ASSUME NEW z \in Zens, SessionStep(z) PROVE HistoryInv' /\ ProgressInv'
    <2>1. Grown
      BY <1>5, StepGrows
    <2>2. HistoryInv'
      BY <2>1, HistoryKept
    <2>3. up' => up
      BY <1>5 DEF SessionStep, ReadHello, SendAuth, ReadAuth, Authed, SendRequest, ReadEvents,
           MergeEvent, ReadDone, PullEOF, FinishPull, AfterPull, Close, ReadRequest, WriteAnswer,
           ReplyZens, ReadReverse, ServeEOF, SendZens, ReadZens, SendReverse, Abort
    <2>4. ASSUME sessions > 0 /\ ~atStart.broken PROVE IF up' THEN Progress' ELSE Complete'
      <3>1. CASE ~up
        BY <2>1, <2>3, <2>4, <3>1, CompleteKept DEF ProgressInv
      <3>2. CASE up
        <4>1. Progress
          BY <2>4, <3>2 DEF ProgressInv
        <4>2. CASE ReadDone(z)
          BY <3>2, <4>1, <4>2, DoneProgress
        <4>3. ~(PullEOF(z) \/ ServeEOF(z) \/ Abort(z))
          BY <3>2 DEF PullEOF, ServeEOF, Abort
        <4>4. ASSUME ~ReadDone(z) PROVE up' = up
          BY <1>5, <4>3, <4>4 DEF SessionStep, ReadHello, SendAuth, ReadAuth, Authed, SendRequest,
               ReadEvents, MergeEvent, ReadRequest, WriteAnswer, ReplyZens, ReadReverse, SendZens,
               ReadZens, SendReverse
        <4>5. CASE \/ ReadHello(z) \/ SendAuth(z) \/ ReadAuth(z) \/ Authed(z) \/ ReadReverse(z)
                   \/ SendReverse(z) \/ ReadEvents(z) \/ WriteAnswer(z)
          <5>1. Progress'
            BY <3>2, <4>1, <4>5, QuietProgress
          <5> QED BY <3>2, <4>2, <4>4, <5>1
        <4>6. CASE SendZens(z) \/ ReadZens(z) \/ ReplyZens(z)
          <5>1. Progress'
            BY <3>2, <4>1, <4>6, ZensProgress
          <5> QED BY <3>2, <4>2, <4>4, <5>1
        <4>7. CASE SendRequest(z) \/ MergeEvent(z) \/ ReadRequest(z)
          <5>1. Progress'
            BY <3>2, <4>1, <4>7, RequestProgress, MergeProgress, ServeProgress
          <5> QED BY <3>2, <4>2, <4>4, <5>1
        <4> QED BY <1>5, <4>2, <4>3, <4>5, <4>6, <4>7 DEF SessionStep
      <3> QED BY <3>1, <3>2
    <2>5. ProgressInv'
      BY <2>1, <2>4 DEF ProgressInv, Grown
    <2> QED BY <2>2, <2>5
  <1> QED BY <1>1, <1>2, <1>3, <1>4, <1>5 DEF Next

\* It holds initially.
LEMMA InitProgress == Init => HistoryInv /\ ProgressInv
  <1> SUFFICES ASSUME Init PROVE HistoryInv /\ ProgressInv
    OBVIOUS
  <1>1. sessions = 0 /\ atStart = [own |-> own, known |-> known, broken |-> FALSE]
    BY DEF Init
  <1> QED BY <1>1 DEF HistoryInv, ProgressInv

\* Somebody is awake while the connection is up.
LEMMA TalkAwake == Talk => ~ \A z \in Zens : pc[z] = "off"
  BY TwoZens, SessionAssumption DEF Talk, Shaking, Shake, Ready, Pulling, Asking, Asked, Answering,
       Answered, Pulls, Between, Idle, Offered, Replied, Reversed

\* At the end of an unbroken session both have all.
LEMMA ProgressCompletes == TypeInv /\ StepInv /\ ProgressInv => SessionComplete
  <1> SUFFICES ASSUME TypeInv, StepInv, ProgressInv, sessions > 0, ~atStart.broken,
                      \A z \in Zens : pc[z] = "off", NEW z \in Zens
               PROVE  /\ \A e \in atStart.own[Peer(z)] : LS!Covered(e, held[z][Peer(z)])
                      /\ atStart.known[Peer(z)] \subseteq known[z]
    BY DEF SessionComplete
  <1>1. ~up
    BY TalkAwake DEF StepInv
  <1>2. Complete
    BY <1>1 DEF ProgressInv
  <1>3. Peer(z) \in Zens /\ Peer(Peer(z)) = z
    BY TwoZens
  <1>4. atStart.own[Peer(z)] \in SUBSET Event
    BY <1>3 DEF TypeInv, CountTypes, EventSets
  <1>5. \A e \in Event : e.log = PostLog \/ e.log = ProfileLog
    BY DEF Event, LS!Event, Logs
  <1>6. \A e \in atStart.own[Peer(z)] : LS!Covered(e, held[z][Peer(z)])
    BY <1>2, <1>4, <1>5 DEF Complete, Got
  <1>7. atStart.known[Peer(z)] \subseteq known[z]
    BY <1>2, <1>3 DEF Complete, Told
  <1> QED BY <1>6, <1>7

\* No event is lost behind a cursor in any sequence of sessions: what a zen will
\* not request again it holds (pullLog and advanceCursor under RunInitiator and
\* RunListener).
THEOREM SessionsKeepCursorsSafe == Spec => []LS!CursorSafe
  <1>1. Init => TypeInv /\ StepInv /\ PullsInv /\ CutInv /\ LP!IndInv
    BY InitTypes, InitStep, InitRefines, CursorsKept
  <1>2. TypeInv /\ StepInv /\ PullsInv /\ CutInv /\ LP!IndInv /\ [Next]_vars
        => TypeInv' /\ StepInv' /\ PullsInv' /\ CutInv' /\ LP!IndInv'
    BY NextTypes, NextStep, NextRefines, CursorsKept
  <1>3. LP!IndInv => LS!CursorSafe
    BY CursorsKept
  <1> QED BY <1>1, <1>2, <1>3, PTL DEF Spec

\* A session that the network did not break leaves each zen with every event
\* and every token the other one had when it began, whatever was in the stores,
\* the cursors and the logs before, and whatever is written meanwhile
\* (RunInitiator and RunListener).
THEOREM SessionsComplete == Spec => []SessionComplete
  <1>1. Init => /\ TypeInv /\ StepInv /\ PullsInv /\ CutInv /\ LP!IndInv
                /\ HistoryInv /\ ProgressInv
    BY InitTypes, InitStep, InitRefines, CursorsKept, InitProgress
  <1>2. /\ TypeInv /\ StepInv /\ PullsInv /\ CutInv /\ LP!IndInv
        /\ HistoryInv /\ ProgressInv /\ [Next]_vars
        => /\ TypeInv' /\ StepInv' /\ PullsInv' /\ CutInv' /\ LP!IndInv'
           /\ HistoryInv' /\ ProgressInv'
    BY NextTypes, NextStep, NextRefines, CursorsKept, NextProgress
  <1>3. TypeInv /\ StepInv /\ ProgressInv => SessionComplete
    BY ProgressCompletes
  <1> QED BY <1>1, <1>2, <1>3, PTL DEF Spec

============================================================================
