--------------------------- MODULE LogSync_proofs ---------------------------
(***************************************************************************)
(* Proofs about LogSync for every number of zens, logs, events and pulls,  *)
(* every skew window and every bound: types are kept, and no event is ever *)
(* lost behind a cursor.                                                   *)
(***************************************************************************)
EXTENDS LogSync, TLAPS

----------------------------------------------------------------------------
(* Insert and Covered.                                                     *)

\* After AppendOwnEvent or PutCrawledEvent the bucket covers the event.
LEMMA InsertCovers ==
    ASSUME NEW S, NEW e
    PROVE  Covered(e, Insert(e, S))
  BY DEF Covered, Insert

\* A store that grows covers what it covered.
LEMMA CoveredMonotone ==
    ASSUME NEW S, NEW T, S \subseteq T, NEW e, Covered(e, S)
    PROVE  Covered(e, T)
  BY DEF Covered

\* Inserting adds the event or nothing.
LEMMA InsertBounds ==
    ASSUME NEW S, NEW e
    PROVE  /\ S \subseteq Insert(e, S)
           /\ Insert(e, S) \subseteq S \cup {e}
  BY DEF Insert

\* The stored cursor is a timestamp between the request's and the newest
\* event's.
LEMMA NewCursorType ==
    ASSUME NEW t \in 0 .. MaxClock, NEW m \in 0 .. MaxClock
    PROVE  NewCursor(t, m) \in 0 .. MaxClock
  BY SkewAssumption, BoundAssumption DEF NewCursor

----------------------------------------------------------------------------
(* Types.                                                                  *)

\* The initial state has its types.
LEMMA InitType == Init => TypeOK
  BY BoundAssumption DEF Init, TypeOK, Key

\* Every step of the author keeps the types.
LEMMA AuthorType ==
    ASSUME TypeOK, NEW a \in Authors, AuthorStep(a)
    PROVE  TypeOK'
  <1> USE BoundAssumption, SkewAssumption DEF TypeOK, pullVars
  <1>1. CASE Tick(a)
    BY <1>1 DEF Tick
  <1>2. ASSUME NEW l \in Logs, NEW b \in Bodies, Sign(a, l, b)
        PROVE  TypeOK'
    <2>1. PICK t \in 1 .. clock[a] :
             pending' = [pending EXCEPT ![a] = @ \cup {[log |-> l, ts |-> t, body |-> b]}]
      BY <1>2 DEF Sign
    <2>2. [log |-> l, ts |-> t, body |-> b] \in Event
      BY DEF Event
    <2>3. QED
      BY <1>2, <2>1, <2>2 DEF Sign
  <1>3. ASSUME NEW e \in Event, AppendOwnEvent(a, e)
        PROVE  TypeOK'
    <2>1. Insert(e, own[a]) \subseteq own[a] \cup {e}
      BY InsertBounds
    <2>2. QED
      BY <1>3, <2>1 DEF AppendOwnEvent
  <1>4. ASSUME NEW e \in Event, LoseSigned(a, e)
        PROVE  TypeOK'
    BY <1>4 DEF LoseSigned
  <1>5. QED
    BY <1>1, <1>2, <1>3, <1>4 DEF AuthorStep

\* Every step of a pull keeps the types.
LEMMA PullType ==
    ASSUME TypeOK, NEW p \in Pulls, PullStep(p)
    PROVE  TypeOK'
  <1> USE BoundAssumption, SkewAssumption DEF TypeOK
  <1>a. key[p].reader \in Readers /\ key[p].author \in Authors /\ key[p].log \in Logs
    BY DEF Key
  <1>b. advanceCursor(p) => cursor' \in [Key -> 0 .. MaxClock]
    <2>1. NewCursor(after[p], maxTS[p]) \in 0 .. MaxClock
      BY NewCursorType
    <2>2. QED
      BY <2>1 DEF advanceCursor
  <1>c. Return(p) => /\ phase' \in [Pulls -> {"idle", "asked", "stream"}]
                     /\ key' \in [Pulls -> Key]
                     /\ after' \in [Pulls -> 0 .. MaxClock]
                     /\ rest' \in [Pulls -> SUBSET Event]
                     /\ maxTS' \in [Pulls -> 0 .. MaxClock]
    BY DEF Return
  <1>1. ASSUME NEW k \in Key, Request(p, k)
        PROVE  TypeOK'
    <2>1. after' \in [Pulls -> 0 .. MaxClock]
      BY <1>1 DEF Request
    <2>2. QED
      BY <1>1, <2>1 DEF Request
  <1>2. CASE Serve(p)
    <2>1. fetchOwnEvents(key[p].author, key[p].log, after[p]) \subseteq Event
      BY <1>a DEF fetchOwnEvents
    <2>2. QED
      BY <1>2, <2>1 DEF Serve
  <1>3. CASE Merge(p)
    <2>1. PICK e \in NextInStream(rest[p]) :
             /\ held' = [held EXCEPT ![key[p].reader][key[p].author] = Insert(e, @)]
             /\ rest' = [rest EXCEPT ![p] = @ \ {e}]
             /\ maxTS' = [maxTS EXCEPT ![p] = IF e.ts > @ THEN e.ts ELSE @]
      BY <1>3 DEF Merge
    <2>2. e \in Event /\ e.ts \in 0 .. MaxClock
      BY DEF NextInStream, Event
    <2>3. Insert(e, held[key[p].reader][key[p].author]) \in SUBSET Event
      BY <1>a, <2>2, InsertBounds
    <2>4. held' \in [Readers -> [Authors -> SUBSET Event]]
      BY <1>a, <2>1, <2>3
    <2>5. maxTS' \in [Pulls -> 0 .. MaxClock]
      BY <2>1, <2>2
    <2>6. QED
      BY <1>3, <2>1, <2>4, <2>5 DEF Merge
  <1>4. CASE Done(p)
    BY <1>4, <1>b, <1>c DEF Done
  <1>5. CASE EndOfFile(p)
    BY <1>5, <1>b, <1>c DEF EndOfFile
  <1>6. CASE Fail(p)
    BY <1>6, <1>c DEF Fail
  <1>7. QED
    BY <1>1, <1>2, <1>3, <1>4, <1>5, <1>6 DEF PullStep

\* Every step keeps the types.
LEMMA NextType == TypeOK /\ [Next]_vars => TypeOK'
  <1> SUFFICES ASSUME TypeOK, [Next]_vars PROVE TypeOK'
    OBVIOUS
  <1>1. ASSUME NEW a \in Authors, AuthorStep(a) PROVE TypeOK'
    BY <1>1, AuthorType
  <1>2. ASSUME NEW p \in Pulls, PullStep(p) PROVE TypeOK'
    BY <1>2, PullType
  <1>3. CASE UNCHANGED vars
    BY <1>3 DEF vars, pullVars, TypeOK
  <1>4. QED
    BY <1>1, <1>2, <1>3 DEF Next

\* Type correctness of LogSync: the stores, cursors and pulls of
\* internal/store and internal/sync keep their types in every behaviour.
THEOREM TypeCorrect == Spec => []TypeOK
  BY InitType, NextType, PTL DEF Spec

----------------------------------------------------------------------------
(* No event is lost behind a cursor.                                       *)

\* The fields of events and keys, and what TypeOK says of a pull's key.
LEMMA Fields ==
    ASSUME TypeOK
    PROVE  /\ \A e \in Event : e.ts \in Nat /\ e.ts > 0 /\ e.log \in Logs
           /\ \A k \in Key : k.reader \in Readers /\ k.author \in Authors
           /\ \A p \in Pulls : key[p] \in Key
           /\ \A a \in Authors : clock[a] \in Nat /\ own[a] \subseteq Event
           /\ \A a \in Authors : pending[a] \subseteq Event
           /\ \A k \in Key : cursor[k] \in Nat
           /\ \A p \in Pulls : after[p] \in Nat /\ maxTS[p] \in Nat
           /\ \A p \in Pulls : rest[p] \subseteq Event
  <1>1. \A e \in Event : e.ts \in Nat /\ e.ts > 0 /\ e.log \in Logs
    BY BoundAssumption DEF Event
  <1>2. \A k \in Key : k.reader \in Readers /\ k.author \in Authors
    BY DEF Key
  <1>3. QED
    BY <1>1, <1>2, BoundAssumption DEF TypeOK

\* The inductive invariant holds initially: nothing is written or requested.
LEMMA InitInv == Init => IndInv
  <1> SUFFICES ASSUME Init PROVE IndInv
    OBVIOUS
  <1>1. TypeOK
    BY InitType
  <1>2. TimestampBounds /\ CursorSettled /\ CursorSafe /\ RequestSettled
    BY <1>1, Fields
       DEF Init, TimestampBounds, CursorSettled, CursorSafe, RequestSettled, Settled
  <1>3. StreamOrdered /\ StreamAccounted
    BY <1>1, Fields DEF Init, StreamOrdered, StreamAccounted
  <1>4. QED
    BY <1>1, <1>2, <1>3 DEF IndInv

\* What is still to be appended lies above every settled position: this is
\* what the skew window buys.
LEMMA PendingAboveSettled ==
    ASSUME TypeOK, TimestampBounds,
           NEW a \in Authors, NEW e \in pending[a], NEW t \in Nat, Settled(t, a)
    PROVE  e.ts > t
  BY Fields, SkewAssumption DEF TimestampBounds, Settled

\* Time passing settles more positions and unsettles none (Tick).
LEMMA TickInv ==
    ASSUME IndInv, NEW a \in Authors, Tick(a)
    PROVE  IndInv'
  <1> USE DEF IndInv
  <1>1. TypeOK'
    BY AuthorType DEF AuthorStep
  <1>2. /\ clock' = [clock EXCEPT ![a] = @ + 1]
        /\ UNCHANGED <<own, pending, held, cursor, phase, key, after, rest, maxTS, faults>>
        /\ \A e \in pending[a] : clock[a] + 1 - e.ts <= Lag
    BY DEF Tick, pullVars
  <1>3. \A b \in Authors : clock[b] <= clock'[b] /\ clock'[b] \in Nat /\ clock[b] \in Nat
    BY <1>2, Fields DEF TypeOK
  <1>4. \A b \in Authors : \A t \in Nat : Settled(t, b) => Settled(t, b)'
    BY <1>3, SkewAssumption DEF Settled
  <1>5. TimestampBounds'
    BY <1>2, <1>3, Fields, SkewAssumption DEF TimestampBounds, TypeOK
  <1>6. CursorSettled'
    BY <1>2, <1>4, Fields DEF CursorSettled
  <1>7. CursorSafe'
    BY <1>2 DEF CursorSafe
  <1>8. RequestSettled'
    BY <1>2, <1>4, Fields DEF RequestSettled, HoldsUpTo
  <1>9. StreamOrdered'
    BY <1>2, <1>3, Fields DEF StreamOrdered
  <1>10. StreamAccounted'
    BY <1>2 DEF StreamAccounted, Accounted
  <1>11. QED
    BY <1>1, <1>5, <1>6, <1>7, <1>8, <1>9, <1>10

\* A signed event is not in any log yet (Sign).
LEMMA SignInv ==
    ASSUME IndInv, NEW a \in Authors, NEW l \in Logs, NEW b \in Bodies, Sign(a, l, b)
    PROVE  IndInv'
  <1> USE DEF IndInv
  <1>1. TypeOK'
    BY AuthorType DEF AuthorStep
  <1>2. PICK t \in 1 .. clock[a] :
           /\ clock[a] - t <= Lag
           /\ pending' = [pending EXCEPT ![a] = @ \cup {[log |-> l, ts |-> t, body |-> b]}]
    BY DEF Sign
  <1>3. UNCHANGED <<own, clock, held, cursor, phase, key, after, rest, maxTS, faults>>
    BY DEF Sign, pullVars
  <1>4. TimestampBounds'
    BY <1>2, <1>3, Fields DEF TimestampBounds, TypeOK
  <1>5. CursorSettled' /\ CursorSafe' /\ RequestSettled' /\ StreamOrdered'
    BY <1>3 DEF CursorSettled, CursorSafe, RequestSettled, StreamOrdered, Settled, HoldsUpTo
  <1>6. StreamAccounted'
    BY <1>3 DEF StreamAccounted, Accounted
  <1>7. QED
    BY <1>1, <1>4, <1>5, <1>6

\* A signed event that is lost was in no log (LoseSigned).
LEMMA LoseInv ==
    ASSUME IndInv, NEW a \in Authors, NEW e \in Event, LoseSigned(a, e)
    PROVE  IndInv'
  <1> USE DEF IndInv
  <1>1. TypeOK'
    BY AuthorType DEF AuthorStep
  <1>2. /\ pending' = [pending EXCEPT ![a] = @ \ {e}]
        /\ UNCHANGED <<own, clock, held, cursor, phase, key, after, rest, maxTS, faults>>
    BY DEF LoseSigned, pullVars
  <1>3. TimestampBounds'
    BY <1>2 DEF TimestampBounds, TypeOK
  <1>4. CursorSettled' /\ CursorSafe' /\ RequestSettled' /\ StreamOrdered'
    BY <1>2 DEF CursorSettled, CursorSafe, RequestSettled, StreamOrdered, Settled, HoldsUpTo
  <1>5. StreamAccounted'
    BY <1>2 DEF StreamAccounted, Accounted
  <1>6. QED
    BY <1>1, <1>3, <1>4, <1>5

\* The one step that adds to a log: the new event is above every cursor and
\* every running request, and within the skew window of every stream.
LEMMA AppendInv ==
    ASSUME IndInv, NEW a \in Authors, NEW e \in Event, AppendOwnEvent(a, e)
    PROVE  IndInv'
  <1> USE DEF IndInv
  <1>1. TypeOK'
    BY AuthorType DEF AuthorStep
  <1>2. /\ e \in pending[a]
        /\ own' = [own EXCEPT ![a] = Insert(e, @)]
        /\ pending' = [pending EXCEPT ![a] = @ \ {e}]
        /\ UNCHANGED <<clock, held, cursor, phase, key, after, rest, maxTS, faults>>
    BY DEF AppendOwnEvent, pullVars
  <1>3. \A b \in Authors : /\ own[b] \subseteq own'[b]
                           /\ \A f \in own'[b] : f \in own[b] \/ (b = a /\ f = e)
    BY <1>2, InsertBounds DEF TypeOK
  <1>4. \A t \in Nat : Settled(t, a) => e.ts > t
    BY <1>2, PendingAboveSettled
  <1>5. TimestampBounds'
    BY <1>2, <1>3 DEF TimestampBounds, TypeOK
  <1>6. CursorSettled'
    BY <1>2 DEF CursorSettled, Settled
  <1>7. CursorSafe'
    <2> SUFFICES ASSUME NEW k \in Key, NEW f \in own'[k.author],
                        f.log = k.log, f.ts <= cursor[k]
                 PROVE  Covered(f, held[k.reader][k.author])
      BY <1>2 DEF CursorSafe
    <2>1. CASE f \in own[k.author]
      BY <2>1 DEF CursorSafe
    <2>2. CASE k.author = a /\ f = e
      BY <2>2, <1>4, Fields DEF CursorSettled
    <2>3. QED
      BY <2>1, <2>2, <1>3, Fields
  <1>8. RequestSettled'
    <2> SUFFICES ASSUME NEW p \in Pulls, phase[p] # "idle"
                 PROVE  /\ Settled(after[p], key[p].author)
                        /\ HoldsUpTo(key[p], after[p])'
      BY <1>2 DEF RequestSettled, Settled
    <2>1. Settled(after[p], key[p].author) /\ HoldsUpTo(key[p], after[p])
      BY DEF RequestSettled
    <2>2. ASSUME NEW f \in own'[key[p].author], f.log = key[p].log, f.ts <= after[p]
          PROVE  Covered(f, held[key[p].reader][key[p].author])
      <3>1. CASE f \in own[key[p].author]
        BY <2>1, <2>2, <3>1 DEF HoldsUpTo
      <3>2. CASE key[p].author = a /\ f = e
        BY <2>1, <2>2, <3>2, <1>4, Fields
      <3>3. QED
        BY <3>1, <3>2, <1>3, Fields
    <2>3. QED
      BY <2>1, <2>2, <1>2 DEF HoldsUpTo
  <1>9. StreamOrdered'
    BY <1>2, <1>3, Fields DEF StreamOrdered
  <1>10. StreamAccounted'
    <2> SUFFICES ASSUME NEW p \in Pulls, phase[p] = "stream",
                        NEW f \in own'[key[p].author], f.log = key[p].log
                 PROVE  Accounted(p, f)
      BY <1>2 DEF StreamAccounted, Accounted
    <2>1. CASE f \in own[key[p].author]
      BY <2>1 DEF StreamAccounted
    <2>2. CASE key[p].author = a /\ f = e
      <3>1. clock[a] - e.ts <= Lag
        BY <1>2 DEF TimestampBounds
      <3>2. maxTS[p] <= clock[a] /\ \A g \in rest[p] : g.ts <= clock[a]
        BY <2>2 DEF StreamOrdered, TimestampBounds
      <3>3. QED
        BY <2>2, <3>1, <3>2, Fields, SkewAssumption DEF Accounted
    <2>3. QED
      BY <2>1, <2>2, <1>3, Fields
  <1>11. QED
    BY <1>1, <1>5, <1>6, <1>7, <1>8, <1>9, <1>10

\* A request starts from 0 or from a settled, fully held cursor (Request).
LEMMA RequestInv ==
    ASSUME IndInv, NEW p \in Pulls, NEW k \in Key, Request(p, k)
    PROVE  IndInv'
  <1> USE DEF IndInv
  <1>1. TypeOK'
    BY PullType DEF PullStep
  <1>2. PICK c \in {0, cursor[k]} : after' = [after EXCEPT ![p] = c]
    BY DEF Request
  <1>3. /\ phase[p] = "idle"
        /\ phase' = [phase EXCEPT ![p] = "asked"]
        /\ key' = [key EXCEPT ![p] = k]
        /\ UNCHANGED <<own, pending, clock, held, cursor, rest, maxTS, faults>>
    BY DEF Request
  <1>4. TimestampBounds' /\ CursorSettled' /\ CursorSafe'
    BY <1>3 DEF TimestampBounds, CursorSettled, CursorSafe, Settled
  <1>5. RequestSettled'
    <2> SUFFICES ASSUME NEW q \in Pulls, phase'[q] # "idle"
                 PROVE  Settled(after'[q], key'[q].author) /\ HoldsUpTo(key'[q], after'[q])
      BY <1>3 DEF RequestSettled, Settled, HoldsUpTo
    <2>1. CASE q = p
      <3>1. after'[q] = c /\ key'[q] = k
        BY <2>1, <1>2, <1>3 DEF TypeOK
      <3>2. Settled(c, k.author) /\ HoldsUpTo(k, c)
        BY Fields DEF CursorSettled, CursorSafe, Settled, HoldsUpTo
      <3>3. QED
        BY <3>1, <3>2
    <2>2. CASE q # p
      BY <2>2, <1>2, <1>3 DEF RequestSettled, TypeOK
    <2>3. QED
      BY <2>1, <2>2
  <1>6. StreamOrdered'
    BY <1>3, Fields DEF StreamOrdered, TypeOK
  <1>7. StreamAccounted'
    <2> SUFFICES ASSUME NEW q \in Pulls, phase'[q] = "stream",
                        NEW f \in own[key'[q].author], f.log = key'[q].log
                 PROVE  Accounted(q, f)'
      BY <1>3 DEF StreamAccounted
    <2>1. q # p /\ phase[q] = "stream" /\ key'[q] = key[q]
      BY <1>3 DEF TypeOK
    <2>2. QED
      BY <2>1, <1>3 DEF StreamAccounted, Accounted
  <1>8. QED
    BY <1>1, <1>4, <1>5, <1>6, <1>7

\* A fresh snapshot accounts for every event of the log (Serve).
LEMMA ServeInv ==
    ASSUME IndInv, NEW p \in Pulls, Serve(p)
    PROVE  IndInv'
  <1> USE DEF IndInv
  <1>1. TypeOK'
    BY PullType DEF PullStep
  <1>2. /\ phase[p] = "asked"
        /\ phase' = [phase EXCEPT ![p] = "stream"]
        /\ rest' = [rest EXCEPT ![p] = fetchOwnEvents(key[p].author, key[p].log, after[p])]
        /\ UNCHANGED <<own, pending, clock, held, cursor, key, after, maxTS, faults>>
    BY DEF Serve
  <1>3. TimestampBounds' /\ CursorSettled' /\ CursorSafe'
    BY <1>2 DEF TimestampBounds, CursorSettled, CursorSafe, Settled
  <1>4. RequestSettled'
    BY <1>2 DEF RequestSettled, Settled, HoldsUpTo, TypeOK
  <1>5. StreamOrdered'
    <2> SUFFICES ASSUME NEW q \in Pulls
                 PROVE  /\ phase'[q] # "stream" => maxTS[q] = 0 /\ rest'[q] = {}
                        /\ maxTS[q] <= clock[key[q].author]
                        /\ \A e \in rest'[q] : e \in own[key[q].author] /\ maxTS[q] <= e.ts
      BY <1>2 DEF StreamOrdered
    <2>1. CASE q = p
      <3>1. maxTS[p] = 0
        BY <1>2 DEF StreamOrdered
      <3>2. QED
        BY <2>1, <3>1, <1>2, Fields DEF TypeOK, fetchOwnEvents
    <2>2. CASE q # p
      BY <2>2, <1>2 DEF StreamOrdered, TypeOK
    <2>3. QED
      BY <2>1, <2>2
  <1>6. StreamAccounted'
    <2> SUFFICES ASSUME NEW q \in Pulls, phase'[q] = "stream",
                        NEW f \in own[key[q].author], f.log = key[q].log
                 PROVE  Accounted(q, f)'
      BY <1>2 DEF StreamAccounted
    <2>1. CASE q = p /\ f.ts > after[p]
      <3>1. f \in rest'[q]
        BY <2>1, <1>2 DEF fetchOwnEvents, TypeOK
      <3>2. QED
        BY <3>1 DEF Accounted
    <2>2. CASE q = p /\ f.ts <= after[p]
      <3>1. Covered(f, held[key[q].reader][key[q].author])
        BY <2>2, <1>2 DEF RequestSettled, HoldsUpTo
      <3>2. QED
        BY <3>1, <1>2 DEF Accounted
    <2>3. CASE q # p
      <3>1. phase[q] = "stream" /\ rest'[q] = rest[q]
        BY <2>3, <1>2 DEF TypeOK
      <3>2. QED
        BY <3>1, <1>2 DEF StreamAccounted, Accounted
    <2>4. QED
      BY <2>1, <2>2, <2>3, Fields
  <1>7. QED
    BY <1>1, <1>3, <1>4, <1>5, <1>6

\* Merging the oldest outstanding event keeps the stream accounted for (Merge).
LEMMA MergeInv ==
    ASSUME IndInv, NEW p \in Pulls, Merge(p)
    PROVE  IndInv'
  <1> USE DEF IndInv
  <1>1. TypeOK'
    BY PullType DEF PullStep
  <1>2. PICK e \in NextInStream(rest[p]) :
           /\ held' = [held EXCEPT ![key[p].reader][key[p].author] = Insert(e, @)]
           /\ rest' = [rest EXCEPT ![p] = @ \ {e}]
           /\ maxTS' = [maxTS EXCEPT ![p] = IF e.ts > @ THEN e.ts ELSE @]
    BY DEF Merge
  <1>3. /\ phase[p] = "stream"
        /\ UNCHANGED <<own, pending, clock, cursor, phase, key, after, faults>>
    BY DEF Merge
  <1>4. e \in rest[p] /\ \A f \in rest[p] : e.ts <= f.ts
    BY DEF NextInStream
  <1>5. \A r \in Readers, a \in Authors : held[r][a] \subseteq held'[r][a]
    <2>1. held[key[p].reader][key[p].author]
             \subseteq Insert(e, held[key[p].reader][key[p].author])
      BY InsertBounds
    <2>2. QED
      BY <1>2, <2>1, Fields DEF TypeOK
  <1>6. \A r \in Readers, a \in Authors : \A f :
           Covered(f, held[r][a]) => Covered(f, held'[r][a])
    BY <1>5, CoveredMonotone
  <1>7. Covered(e, held'[key[p].reader][key[p].author])
    <2>1. held'[key[p].reader][key[p].author] = Insert(e, held[key[p].reader][key[p].author])
      BY <1>2, Fields DEF TypeOK
    <2>2. QED
      BY <2>1, InsertCovers
  <1>8. maxTS'[p] = e.ts
    <2>1. maxTS[p] <= e.ts
      BY <1>4 DEF StreamOrdered
    <2>2. maxTS[p] \in Nat /\ e.ts \in Nat
      BY <1>4, Fields
    <2>3. maxTS'[p] = IF e.ts > maxTS[p] THEN e.ts ELSE maxTS[p]
      BY <1>2 DEF TypeOK
    <2>4. QED
      BY <2>1, <2>2, <2>3
  <1>9. TimestampBounds' /\ CursorSettled'
    BY <1>3 DEF TimestampBounds, CursorSettled, Settled
  <1>10. CursorSafe'
    BY <1>3, <1>6, Fields DEF CursorSafe
  <1>11. RequestSettled'
    BY <1>3, <1>6, Fields DEF RequestSettled, Settled, HoldsUpTo
  <1>12. StreamOrdered'
    <2> SUFFICES ASSUME NEW q \in Pulls
                 PROVE  /\ phase[q] # "stream" => maxTS'[q] = 0 /\ rest'[q] = {}
                        /\ maxTS'[q] <= clock[key[q].author]
                        /\ \A f \in rest'[q] : f \in own[key[q].author] /\ maxTS'[q] <= f.ts
      BY <1>3 DEF StreamOrdered
    <2>1. CASE q = p
      <3>1. e \in own[key[p].author] /\ e.ts <= clock[key[p].author]
        BY <1>4, Fields DEF StreamOrdered, TimestampBounds
      <3>2. \A f \in rest'[p] : f \in rest[p]
        BY <1>2 DEF TypeOK
      <3>3. QED
        BY <2>1, <3>1, <3>2, <1>3, <1>4, <1>8 DEF StreamOrdered
    <2>2. CASE q # p
      BY <2>2, <1>2 DEF StreamOrdered, TypeOK
    <2>3. QED
      BY <2>1, <2>2
  <1>13. StreamAccounted'
    <2> SUFFICES ASSUME NEW q \in Pulls, phase[q] = "stream",
                        NEW f \in own[key[q].author], f.log = key[q].log
                 PROVE  Accounted(q, f)'
      BY <1>3 DEF StreamAccounted
    <2>1. Accounted(q, f)
      BY DEF StreamAccounted
    <2>2. CASE Covered(f, held[key[q].reader][key[q].author])
      BY <2>2, <1>3, <1>6, Fields DEF Accounted
    <2>3. CASE q = p /\ f = e
      BY <2>3, <1>3, <1>7 DEF Accounted
    <2>4. CASE q = p /\ f # e /\ f \in rest[q]
      BY <2>4, <1>2 DEF Accounted, TypeOK
    <2>5. CASE q = p /\ f.ts > maxTS[q] - Skew /\ \A g \in rest[q] : f.ts > g.ts - Skew
      <3>1. f.ts > maxTS'[q] - Skew
        BY <2>5, <1>4, <1>8
      <3>2. \A g \in rest'[q] : f.ts > g.ts - Skew
        BY <2>5, <1>2 DEF TypeOK
      <3>3. QED
        BY <3>1, <3>2 DEF Accounted
    <2>6. CASE q # p
      <3>1. rest'[q] = rest[q] /\ maxTS'[q] = maxTS[q] /\ key'[q] = key[q]
        BY <2>6, <1>2, <1>3 DEF TypeOK
      <3>2. QED
        BY <2>1, <2>2, <3>1 DEF Accounted
    <2>7. QED
      BY <2>1, <2>2, <2>3, <2>4, <2>5, <2>6 DEF Accounted
  <1>14. QED
    BY <1>1, <1>9, <1>10, <1>11, <1>12, <1>13

\* A pull that returns leaves the other pulls alone and has no stream left.
LEMMA ReturnInv ==
    ASSUME IndInv, NEW p \in Pulls, Return(p),
           UNCHANGED <<own, pending, clock, held>>
    PROVE  TimestampBounds' /\ RequestSettled' /\ StreamOrdered' /\ StreamAccounted'
  <1> USE DEF IndInv
  <1>1. /\ phase' = [phase EXCEPT ![p] = "idle"]
        /\ after' = [after EXCEPT ![p] = 0]
        /\ rest' = [rest EXCEPT ![p] = {}]
        /\ maxTS' = [maxTS EXCEPT ![p] = 0]
        /\ key' = key
    BY DEF Return
  <1>2. TimestampBounds'
    BY DEF TimestampBounds
  <1>3. RequestSettled'
    BY <1>1 DEF RequestSettled, Settled, HoldsUpTo, TypeOK
  <1>4. StreamOrdered'
    BY <1>1, Fields DEF StreamOrdered, TypeOK
  <1>5. StreamAccounted'
    <2> SUFFICES ASSUME NEW q \in Pulls, phase'[q] = "stream",
                        NEW f \in own[key[q].author], f.log = key[q].log
                 PROVE  Accounted(q, f)'
      BY <1>1 DEF StreamAccounted
    <2>1. phase[q] = "stream" /\ rest'[q] = rest[q] /\ maxTS'[q] = maxTS[q]
      BY <1>1 DEF TypeOK
    <2>2. QED
      BY <1>1, <2>1 DEF StreamAccounted, Accounted
  <1>6. QED
    BY <1>2, <1>3, <1>4, <1>5

\* The heart of the argument: the position a finished or cut pull stores is
\* settled, and the reader holds everything up to it.
LEMMA AdvanceInv ==
    ASSUME IndInv, NEW p \in Pulls, phase[p] # "idle", advanceCursor(p),
           UNCHANGED <<own, clock, held>>
    PROVE  CursorSettled' /\ CursorSafe'
  <1> USE DEF IndInv
  <1>1. CASE maxTS[p] = 0
    BY <1>1 DEF advanceCursor, CursorSettled, CursorSafe, Settled
  <1>2. CASE maxTS[p] # 0
    <2> DEFINE c == NewCursor(after[p], maxTS[p])
    <2>1. cursor' = [cursor EXCEPT ![key[p]] = c]
      BY <1>2 DEF advanceCursor
    <2>2. phase[p] = "stream"
      BY <1>2 DEF StreamOrdered
    <2>3. Settled(after[p], key[p].author) /\ HoldsUpTo(key[p], after[p])
      BY DEF RequestSettled
    <2>4. Settled(c, key[p].author)
      BY <2>3, Fields, SkewAssumption DEF StreamOrdered, Settled, NewCursor
    <2>5. HoldsUpTo(key[p], c)
      <3> SUFFICES ASSUME NEW e \in own[key[p].author], e.log = key[p].log, e.ts <= c
                   PROVE  Covered(e, held[key[p].reader][key[p].author])
        BY DEF HoldsUpTo
      <3>1. CASE e.ts <= after[p]
        BY <3>1, <2>3 DEF HoldsUpTo
      <3>2. CASE e.ts > after[p]
        <4>1. e.ts <= maxTS[p] - Skew
          BY <3>2, Fields, SkewAssumption DEF NewCursor
        <4>2. e \notin rest[p]
          BY <4>1, Fields, SkewAssumption DEF StreamOrdered
        <4>3. Accounted(p, e)
          BY <2>2 DEF StreamAccounted
        <4>4. QED
          BY <4>1, <4>2, <4>3, Fields, SkewAssumption DEF Accounted
      <3>3. QED
        BY <3>1, <3>2, Fields
    <2> HIDE DEF c
    <2>6. CursorSettled'
      BY <2>1, <2>4 DEF CursorSettled, Settled, TypeOK
    <2>7. CursorSafe'
      BY <2>1, <2>5 DEF CursorSafe, HoldsUpTo, TypeOK
    <2>8. QED
      BY <2>6, <2>7
  <1>3. QED
    BY <1>1, <1>2

\* Every step of a pull preserves the invariant.
LEMMA PullInv ==
    ASSUME IndInv, NEW p \in Pulls, PullStep(p)
    PROVE  IndInv'
  <1>1. TypeOK'
    BY PullType DEF IndInv
  <1>2. ASSUME NEW k \in Key, Request(p, k) PROVE IndInv'
    BY <1>2, RequestInv
  <1>3. CASE Serve(p)
    BY <1>3, ServeInv
  <1>4. CASE Merge(p)
    BY <1>4, MergeInv
  <1>5. CASE Done(p) \/ EndOfFile(p)
    <2>1. /\ phase[p] # "idle"
          /\ advanceCursor(p)
          /\ Return(p)
          /\ UNCHANGED <<own, pending, clock, held>>
      BY <1>5 DEF Done, EndOfFile
    <2>2. CursorSettled' /\ CursorSafe'
      BY <2>1, AdvanceInv
    <2>3. QED
      BY <1>1, <2>1, <2>2, ReturnInv DEF IndInv
  <1>6. CASE Fail(p)
    <2>1. Return(p) /\ UNCHANGED <<own, pending, clock, held, cursor>>
      BY <1>6 DEF Fail
    <2>2. CursorSettled' /\ CursorSafe'
      BY <2>1 DEF IndInv, CursorSettled, CursorSafe, Settled
    <2>3. QED
      BY <1>1, <2>1, <2>2, ReturnInv DEF IndInv
  <1>7. QED
    BY <1>2, <1>3, <1>4, <1>5, <1>6 DEF PullStep

\* Every step preserves the invariant.
LEMMA NextInv == IndInv /\ [Next]_vars => IndInv'
  <1> SUFFICES ASSUME IndInv, [Next]_vars PROVE IndInv'
    OBVIOUS
  <1>1. ASSUME NEW a \in Authors, AuthorStep(a) PROVE IndInv'
    BY <1>1, TickInv, SignInv, AppendInv, LoseInv DEF AuthorStep
  <1>2. ASSUME NEW p \in Pulls, PullStep(p) PROVE IndInv'
    BY <1>2, PullInv
  <1>3. CASE UNCHANGED vars
    BY <1>3 DEF vars, pullVars, IndInv, TypeOK, TimestampBounds, CursorSettled,
                CursorSafe, RequestSettled, StreamOrdered, StreamAccounted,
                Settled, HoldsUpTo, Accounted
  <1>4. QED
    BY <1>1, <1>2, <1>3 DEF Next

\* The inductive invariant of LogSync holds in every behaviour of SignAndAppend,
\* handleRequest and pullLog.
THEOREM Inductive == Spec => []IndInv
  BY InitInv, NextInv, PTL DEF Spec

\* No event is lost behind a sync cursor: for any number of zens, logs,
\* overlapping pulls and broken connections, and any skew window larger than
\* the lag, advanceCursor only passes events the reader's store covers.
THEOREM CursorNeverSkips == Spec => []CursorSafe
  <1>1. IndInv => CursorSafe
    BY DEF IndInv
  <1>2. QED
    BY Inductive, <1>1, PTL

============================================================================
