---------------------------- MODULE Store_proofs ----------------------------
(***************************************************************************)
(* Proofs about Store for any number of handlers, identities, posts,       *)
(* crashes and imports.                                                    *)
(***************************************************************************)
EXTENDS Store, FiniteSetTheorems, TLAPS

----------------------------------------------------------------------------
(* Pins.                                                                   *)

\* No interleaving of Follow, Unfollow, PinIdentity, UnpinIdentity, ImportBackup
\* and crashes leaves a pin without a follow edge.
THEOREM PinsHaveEdges == Spec => []PinnedAreFollowed
  <1>1. Init => PinnedAreFollowed
    BY DEF Init, PinnedAreFollowed
  <1>2. PinnedAreFollowed /\ [Next]_vars => PinnedAreFollowed'
    <2> SUFFICES ASSUME PinnedAreFollowed, [Next]_vars
                 PROVE  PinnedAreFollowed'
      OBVIOUS
    <2> USE DEF PinnedAreFollowed
    <2>1. ASSUME NEW w \in Workers, WorkerStep(w)
          PROVE  PinnedAreFollowed'
      <3>1. CASE UpdateCache(w)
        BY <3>1 DEF UpdateCache
      <3>2. CASE UNCHANGED cacheVars
        BY <3>2 DEF cacheVars
      <3>3. QED
        BY <2>1, <3>1, <3>2
           DEF WorkerStep, Begin, CheckLike, CountAndSign, Append, cacheVars
    <2>2. ASSUME NEW t \in Targets, PinIdentity(t) \/ UnpinIdentity(t)
          PROVE  PinnedAreFollowed'
      BY <2>2 DEF PinIdentity, UnpinIdentity
    <2>3. CASE BackupStep
      BY <2>3 DEF BackupStep, ExportBackup, NewDevice, BeginImport, ImportEvent,
                  RebuildFollowState, PutPinnedIdentities, Restart, cacheVars
    <2>4. CASE Crash
      BY <2>4 DEF Crash, cacheVars
    <2>5. CASE UNCHANGED vars
      BY <2>5 DEF vars, cacheVars
    <2>6. QED
      BY <2>1, <2>2, <2>3, <2>4, <2>5 DEF Next
  <1>3. QED
    BY <1>1, <1>2, PTL DEF Spec

----------------------------------------------------------------------------
(* Likes.                                                                  *)

\* AppendOwnEvent's transaction keeps a set of Likes free of duplicates.
LEMMA InsertKeepsOneLike ==
    ASSUME NEW S, NEW e, IsLike(e.op),
           \A f \in S : IsLike(f.op),
           \A f, g \in S : f.op = g.op => f = g
    PROVE  /\ \A f \in Insert(e, S) : IsLike(f.op)
           /\ \A f, g \in Insert(e, S) : f.op = g.op => f = g
  <1>1. CASE LikesOf(e.op.on, S) # {}
    BY <1>1 DEF Insert
  <1>2. CASE LikesOf(e.op.on, S) = {}
    <2>1. Insert(e, S) = S \cup {e}
      BY <1>2 DEF Insert
    <2>2. \A f \in S : f.op # e.op
      BY <1>2 DEF LikesOf
    <2>3. QED
      BY <2>1, <2>2
  <1>3. QED
    BY <1>1, <1>2

\* Every transaction of every handler preserves LikeInv.
LEMMA LikeStep == LikeInv /\ [Next]_vars => LikeInv'
  <1> SUFFICES ASSUME LikeInv, [Next]_vars
               PROVE  LikeInv'
    OBVIOUS
  <1> USE DEF LikeInv, OneLikePerPost
  <1>1. ASSUME NEW w \in Workers, WorkerStep(w)
        PROVE  LikeInv'
    <2>1. ASSUME NEW o \in Op, Begin(w, o)
          PROVE  LikeInv'
      BY <2>1 DEF Begin, logVars
    <2>2. CASE CheckLike(w)
      BY <2>2 DEF CheckLike, logVars
    <2>3. CASE CountAndSign(w)
      BY <2>3 DEF CountAndSign, logVars
    <2>4. CASE Append(w)
      <3>1. CASE IsLike(op[w])
        <4>1. IsLike(draft[w].op) /\ postLog' = Insert(draft[w], postLog)
          BY <2>4, <3>1 DEF Append
        <4>2. /\ \A f \in postLog' : IsLike(f.op)
              /\ \A f, g \in postLog' : f.op = g.op => f = g
          BY <4>1, InsertKeepsOneLike
        <4>3. QED
          BY <2>4, <3>1, <4>2 DEF Append
      <3>2. CASE ~IsLike(op[w])
        BY <2>4, <3>2 DEF Append
      <3>3. QED
        BY <3>1, <3>2
    <2>5. CASE UpdateCache(w)
      BY <2>5 DEF UpdateCache, logVars
    <2>6. QED
      BY <1>1, <2>1, <2>2, <2>3, <2>4, <2>5 DEF WorkerStep
  <1>2. ASSUME NEW t \in Targets, PinIdentity(t) \/ UnpinIdentity(t)
        PROVE  LikeInv'
    BY <1>2 DEF PinIdentity, UnpinIdentity, logVars, workVars
  <1>3. ASSUME NEW e \in Event, ImportEvent(e)
        PROVE  LikeInv'
    <2>1. CASE IsLike(e.op)
      <3>1. postLog' = Insert(e, postLog)
        BY <1>3, <2>1 DEF ImportEvent
      <3>2. /\ \A f \in postLog' : IsLike(f.op)
            /\ \A f, g \in postLog' : f.op = g.op => f = g
        BY <2>1, <3>1, InsertKeepsOneLike
      <3>3. QED
        BY <1>3, <3>2 DEF ImportEvent, workVars
    <2>2. CASE ~IsLike(e.op)
      BY <1>3, <2>2 DEF ImportEvent, workVars
    <2>3. QED
      BY <2>1, <2>2
  <1>4. CASE NewDevice
    BY <1>4 DEF NewDevice
  <1>5. CASE ExportBackup \/ BeginImport \/ RebuildFollowState \/ PutPinnedIdentities \/ Restart
    BY <1>5 DEF ExportBackup, BeginImport, RebuildFollowState, PutPinnedIdentities,
                Restart, logVars, workVars
  <1>6. CASE Crash
    BY <1>6 DEF Crash, logVars
  <1>7. CASE UNCHANGED vars
    BY <1>7 DEF vars, logVars, workVars
  <1>8. QED
    BY <1>1, <1>2, <1>3, <1>4, <1>5, <1>6, <1>7 DEF Next, BackupStep

\* One Like per author per post in the own log, for any number of parallel
\* SignAndAppend calls, imports and crashes.
THEOREM LikesAreUnique == Spec => []OneLikePerPost
  <1>1. Init => LikeInv
    BY DEF Init, LikeInv, OneLikePerPost
  <1>2. LikeInv => OneLikePerPost
    BY DEF LikeInv
  <1>3. QED
    BY <1>1, <1>2, LikeStep, PTL DEF Spec

----------------------------------------------------------------------------
(* Types.  An own event's sequence number is a count read in an earlier     *)
(* transaction; it stays in range because no two events share a timestamp.  *)

\* Every own event there is: in the logs, in the backup, in an import, or signed
\* by a handler that has not appended it.
Signed ==
    postLog \cup profileLog \cup (IF backup = Nil THEN {} ELSE backup.events)
        \cup import.left \cup {draft[w] : w \in {v \in Workers : pc[v] = "append"}}

\* No two own events share a timestamp, and the clock is past all of them.
SignedOnce ==
    /\ \A e \in Signed : e.ts < clock
    /\ \A e, f \in Signed : e.ts = f.ts => e = f

\* A handler past its first step knows what it was called for, and has its event
\* before it appends.
HandlerInv ==
    \A w \in Workers :
        /\ pc[w] # "idle" => op[w] \in Op
        /\ pc[w] = "append" => draft[w] \in Event
        /\ pc[w] = "cache" => ~IsLike(op[w])

\* The types with what makes them inductive.
StoreTypeInv == TypeOK /\ HandlerInv /\ SignedOnce

\* Fewer events at the same time of the clock stay distinct.
LEMMA SignedShrinks ==
    ASSUME SignedOnce, Signed' \subseteq Signed, clock' = clock
    PROVE  SignedOnce'
  BY DEF SignedOnce

\* A log with one event per timestamp is no longer than the clock's count.
LEMMA LogBounded ==
    ASSUME TypeOK, SignedOnce, NEW S \in SUBSET Event, S \subseteq Signed
    PROVE  Cardinality(S) \in 0 .. (clock - 1)
  <1> DEFINE f == [e \in S |-> e.ts]
  <1> DEFINE T == 1 .. (clock - 1)
  <1>1. clock \in Nat /\ clock >= 1 /\ clock - 1 \in Nat
    BY StoreAssumption DEF TypeOK
  <1>2. \A e \in S : e.ts \in Nat /\ e.ts >= 1
    BY StoreAssumption DEF Event
  <1>3. \A e \in S : e.ts \in T
    BY <1>1, <1>2 DEF SignedOnce
  <1>4. \A e, g \in S : e.ts = g.ts => e = g
    BY DEF SignedOnce
  <1>5. f \in Injection(S, T)
    <2>1. f \in [S -> T]
      BY <1>3
    <2>2. \A e, g \in S : f[e] = f[g] => e = g
      BY <1>4
    <2> HIDE DEF f, T
    <2> QED BY <2>1, <2>2 DEF Injection, IsInjective
  <1>6. IsFiniteSet(T) /\ Cardinality(T) = clock - 1
    BY <1>1, FS_Interval
  <1> HIDE DEF f, T
  <1>7. IsFiniteSet(S) /\ Cardinality(S) <= clock - 1
    BY <1>5, <1>6, FS_Injection
  <1>8. Cardinality(S) \in Nat
    BY <1>7, FS_CardinalityType
  <1> QED BY <1>1, <1>7, <1>8

\* A counter below its bound stays within it.
LEMMA CountUp == \A m \in Nat : \A n \in 0 .. m : n < m => n + 1 \in 0 .. m
  OBVIOUS

\* The event a handler signs is well typed.
LEMMA SignTypes ==
    ASSUME StoreTypeInv, NEW w \in Workers, CountAndSign(w)
    PROVE  [op |-> op[w], seq |-> Cardinality(Log(op[w])) + 1, ts |-> clock] \in Event
  <1>1. op[w] \in Op /\ clock \in 1 .. MaxEvents
    BY StoreAssumption DEF StoreTypeInv, HandlerInv, TypeOK, CountAndSign
  <1>2. Log(op[w]) \in SUBSET Event /\ Log(op[w]) \subseteq Signed
    BY DEF StoreTypeInv, TypeOK, Log, Signed
  <1>3. Cardinality(Log(op[w])) \in 0 .. (clock - 1)
    BY <1>2, LogBounded DEF StoreTypeInv
  <1>4. Cardinality(Log(op[w])) + 1 \in 1 .. MaxEvents + 1
    BY <1>1, <1>3, StoreAssumption
  <1> QED BY <1>1, <1>4 DEF Event

\* A handler's step preserves the types and what makes them inductive.
LEMMA WorkerTypes ==
    ASSUME StoreTypeInv, NEW w \in Workers, WorkerStep(w)
    PROVE  StoreTypeInv'
  <1> USE StoreAssumption DEF StoreTypeInv, logVars, cacheVars, backupVars
  <1>1. ASSUME NEW o \in Op, Begin(w, o) PROVE StoreTypeInv'
    <2>1. Signed' \subseteq Signed
      BY <1>1 DEF Begin, Signed, TypeOK
    <2>2. SignedOnce'
      BY <1>1, <2>1, SignedShrinks DEF Begin
    <2>3. TypeOK'
      BY <1>1 DEF Begin, TypeOK
    <2>4. HandlerInv'
      BY <1>1 DEF Begin, HandlerInv, TypeOK
    <2> QED BY <2>2, <2>3, <2>4
  <1>2. CASE CheckLike(w)
    <2>1. Signed' \subseteq Signed
      BY <1>2 DEF CheckLike, Signed, TypeOK
    <2>2. SignedOnce'
      BY <1>2, <2>1, SignedShrinks DEF CheckLike
    <2>3. LikesOf(op[w].on, postLog) \subseteq Event
      BY DEF LikesOf, TypeOK
    <2>4. TypeOK'
      BY <1>2, <2>3 DEF CheckLike, TypeOK
    <2>5. HandlerInv'
      BY <1>2 DEF CheckLike, HandlerInv, TypeOK
    <2> QED BY <2>2, <2>4, <2>5
  <1>3. CASE CountAndSign(w)
    <2> DEFINE new == [op |-> op[w], seq |-> Cardinality(Log(op[w])) + 1, ts |-> clock]
    <2>1. new \in Event
      BY <1>3, SignTypes
    <2>2. new.ts = clock
      OBVIOUS
    <2>3. /\ draft' = [draft EXCEPT ![w] = new] /\ pc' = [pc EXCEPT ![w] = "append"]
          /\ clock <= MaxEvents /\ clock' = clock + 1
          /\ UNCHANGED <<postLog, profileLog, followed, pinned, op, reply, backup, import, imports, crashes>>
      BY <1>3 DEF CountAndSign
    <2> HIDE DEF new
    <2>4. Signed' \subseteq Signed \cup {new}
      BY <2>3 DEF Signed, TypeOK
    <2>5. \A e \in Signed : e \in Event
      BY DEF Signed, TypeOK, HandlerInv
    <2>6. clock \in Nat /\ \A e \in Signed : e.ts \in Nat
      BY <2>5 DEF TypeOK, Event
    <2>7. SignedOnce'
      BY <2>2, <2>3, <2>4, <2>6 DEF SignedOnce
    <2>8. clock' \in 1 .. MaxEvents + 1
      BY <2>3 DEF TypeOK
    <2>9. TypeOK'
      BY <2>1, <2>3, <2>8 DEF TypeOK
    <2>10. HandlerInv'
      BY <1>3, <2>1, <2>3 DEF HandlerInv, TypeOK, CountAndSign
    <2> QED BY <2>7, <2>9, <2>10
  <1>4. CASE Append(w)
    <2>1. draft[w] \in Event /\ draft[w] \in Signed /\ op[w] \in Op
      BY <1>4 DEF HandlerInv, Append, Signed
    <2>2. postLog' \subseteq postLog \cup {draft[w]} /\ profileLog' \subseteq profileLog \cup {draft[w]}
      BY <1>4 DEF Append, Insert
    <2>3. Signed' \subseteq Signed
      BY <1>4, <2>1, <2>2 DEF Append, Signed, TypeOK
    <2>4. SignedOnce'
      BY <1>4, <2>3, SignedShrinks DEF Append
    <2>5. TypeOK'
      BY <1>4, <2>1, <2>2 DEF Append, TypeOK
    <2>6. HandlerInv'
      BY <1>4, <2>1 DEF Append, HandlerInv, TypeOK
    <2> QED BY <2>4, <2>5, <2>6
  <1>5. CASE UpdateCache(w)
    <2>1. op[w] \in Op /\ ~IsLike(op[w])
      BY <1>5 DEF HandlerInv, UpdateCache
    <2>2. op[w].on \in Targets
      BY <2>1 DEF Op, IsLike
    <2>3. Signed' \subseteq Signed
      BY <1>5 DEF UpdateCache, Signed, TypeOK
    <2>4. SignedOnce'
      BY <1>5, <2>3, SignedShrinks DEF UpdateCache
    <2>5. TypeOK'
      BY <1>5, <2>2 DEF UpdateCache, TypeOK
    <2>6. HandlerInv'
      BY <1>5 DEF UpdateCache, HandlerInv, TypeOK
    <2> QED BY <2>4, <2>5, <2>6
  <1> QED BY <1>1, <1>2, <1>3, <1>4, <1>5 DEF WorkerStep

\* Every step preserves the types and what makes them inductive.
LEMMA StoreTypes == StoreTypeInv /\ [Next]_vars => StoreTypeInv'
  <1> SUFFICES ASSUME StoreTypeInv, [Next]_vars PROVE StoreTypeInv'
    OBVIOUS
  <1> USE StoreAssumption DEF StoreTypeInv, logVars, cacheVars, workVars, backupVars
  <1>1. ASSUME NEW w \in Workers, WorkerStep(w) PROVE StoreTypeInv'
    BY <1>1, WorkerTypes
  <1>2. ASSUME NEW t \in Targets, PinIdentity(t) \/ UnpinIdentity(t) PROVE StoreTypeInv'
    <2>1. SignedOnce'
      BY <1>2, SignedShrinks DEF PinIdentity, UnpinIdentity, Signed
    <2> QED BY <1>2, <2>1 DEF PinIdentity, UnpinIdentity, TypeOK, HandlerInv
  <1>3. ASSUME NEW e \in Event, ImportEvent(e) PROVE StoreTypeInv'
    <2>1. postLog' \subseteq postLog \cup {e} /\ profileLog' \subseteq profileLog \cup {e}
      BY <1>3 DEF ImportEvent, Insert
    <2>2. import' = [import EXCEPT !.left = @ \ {e}] /\ e \in import.left
      BY <1>3 DEF ImportEvent
    <2>3. import'.left \subseteq import.left
      BY <2>2 DEF TypeOK
    <2>4. SignedOnce'
      <3>1. Signed' \subseteq Signed
        BY <1>3, <2>1, <2>2, <2>3 DEF ImportEvent, Signed
      <3> QED BY <1>3, <3>1, SignedShrinks DEF ImportEvent
    <2>5. TypeOK'
      BY <1>3, <2>1, <2>2 DEF ImportEvent, TypeOK
    <2>6. HandlerInv'
      BY <1>3 DEF ImportEvent, HandlerInv
    <2> QED BY <2>4, <2>5, <2>6
  <1>4. CASE NewDevice
    <2>1. SignedOnce'
      BY <1>4, SignedShrinks DEF NewDevice, Signed
    <2> QED BY <1>4, <2>1 DEF NewDevice, TypeOK, HandlerInv
  <1>5. CASE ExportBackup
    <2>1. backup' = [events |-> postLog \cup profileLog, pinned |-> pinned]
      BY <1>5 DEF ExportBackup
    <2>2. backup'.events = postLog \cup profileLog
      BY <2>1
    <2>3. SignedOnce'
      BY <1>5, <2>2, SignedShrinks DEF ExportBackup, Signed
    <2> QED BY <1>5, <2>1, <2>3 DEF ExportBackup, TypeOK, HandlerInv
  <1>6. CASE BeginImport
    <2>1. backup # Nil /\ import' = [pc |-> "logs", left |-> backup.events] /\ UNCHANGED backup
      BY <1>6 DEF BeginImport
    <2>2. backup \in [events : SUBSET Event, pinned : SUBSET Targets]
      BY <2>1 DEF TypeOK
    <2>3. SignedOnce'
      BY <1>6, <2>1, SignedShrinks DEF BeginImport, Signed
    <2>4. imports' \in 0 .. MaxImports
      BY <1>6, CountUp DEF BeginImport, TypeOK
    <2> QED BY <1>6, <2>1, <2>2, <2>3, <2>4 DEF BeginImport, TypeOK, HandlerInv
  <1>7. CASE RebuildFollowState
    <2>1. SignedOnce'
      BY <1>7, SignedShrinks DEF RebuildFollowState, Signed, TypeOK
    <2>2. FollowSet(profileLog) \subseteq Targets
      BY DEF FollowSet
    <2> QED BY <1>7, <2>1, <2>2 DEF RebuildFollowState, TypeOK, HandlerInv
  <1>8. CASE PutPinnedIdentities
    <2>1. SignedOnce'
      BY <1>8, SignedShrinks DEF PutPinnedIdentities, Signed, TypeOK
    <2>2. pinned' \subseteq Targets
      BY <1>8 DEF PutPinnedIdentities, TypeOK
    <2> QED BY <1>8, <2>1, <2>2 DEF PutPinnedIdentities, TypeOK, HandlerInv
  <1>9. CASE Restart
    <2>1. SignedOnce'
      BY <1>9, SignedShrinks DEF Restart, Signed, TypeOK
    <2> QED BY <1>9, <2>1 DEF Restart, TypeOK, HandlerInv
  <1>10. CASE Crash
    <2>1. SignedOnce'
      BY <1>10, SignedShrinks DEF Crash, Signed
    <2>2. crashes' \in 0 .. MaxCrashes
      BY <1>10, CountUp DEF Crash, TypeOK
    <2> QED BY <1>10, <2>1, <2>2 DEF Crash, TypeOK, HandlerInv
  <1>11. CASE UNCHANGED vars
    <2>1. SignedOnce'
      BY <1>11, SignedShrinks DEF vars, Signed
    <2> QED BY <1>11, <2>1 DEF vars, TypeOK, HandlerInv
  <1> QED BY <1>1, <1>2, <1>3, <1>4, <1>5, <1>6, <1>7, <1>8, <1>9, <1>10, <1>11
          DEF Next, BackupStep

\* The logs, the cache, the handlers and the import keep their types: an own
\* event's sequence number never exceeds the events signed, although it is
\* counted in one transaction and stored in another (SignAndAppend).
THEOREM StoreTypeCorrect == Spec => []TypeOK
  <1>1. Init => StoreTypeInv
    BY StoreAssumption DEF Init, StoreTypeInv, TypeOK, HandlerInv, SignedOnce, Signed
  <1>2. StoreTypeInv => TypeOK
    BY DEF StoreTypeInv
  <1> QED BY <1>1, <1>2, StoreTypes, PTL DEF Spec

----------------------------------------------------------------------------
(* Replies and imports.                                                    *)

\* What AppendOwnEvent would no longer add is stored.
Stored(e) == Insert(e, Log(e.op)) = Log(e.op)

\* A transaction of AppendOwnEvent only adds.
LEMMA InsertGrows == ASSUME NEW e, NEW S PROVE S \subseteq Insert(e, S)
  BY DEF Insert

\* Inserting a second time adds nothing.
LEMMA InsertTwice ==
    ASSUME NEW e, NEW S
    PROVE  Insert(e, Insert(e, S)) = Insert(e, S)
  <1>1. CASE IsLike(e.op) /\ LikesOf(e.op.on, S) # {}
    BY <1>1 DEF Insert
  <1>2. CASE ~(IsLike(e.op) /\ LikesOf(e.op.on, S) # {})
    <2>1. Insert(e, S) = S \cup {e}
      BY <1>2 DEF Insert
    <2>2. (S \cup {e}) \cup {e} = S \cup {e}
      OBVIOUS
    <2> QED BY <2>1, <2>2 DEF Insert
  <1> QED BY <1>1, <1>2

\* After its insertion a Like of the post is in the log.
LEMMA InsertedLike ==
    ASSUME NEW e, NEW S, IsLike(e.op)
    PROVE  LikesOf(e.op.on, Insert(e, S)) # {}
  BY DEF Insert, LikesOf

\* A log that grows keeps what it has.
LEMMA InsertMonotone ==
    ASSUME NEW e, NEW S, NEW T, S \subseteq T, Insert(e, S) = S
    PROVE  Insert(e, T) = T
  <1>1. CASE IsLike(e.op) /\ LikesOf(e.op.on, S) # {}
    <2>1. LikesOf(e.op.on, T) # {}
      BY <1>1 DEF LikesOf
    <2> QED BY <1>1, <2>1 DEF Insert
  <1>2. CASE ~(IsLike(e.op) /\ LikesOf(e.op.on, S) # {})
    <2>1. e \in S
      BY <1>2 DEF Insert
    <2>2. T \cup {e} = T
      BY <2>1
    <2> QED BY <2>2 DEF Insert
  <1> QED BY <1>1, <1>2

\* What is stored stays stored while the logs only grow.
LEMMA StoredStays ==
    ASSUME postLog \subseteq postLog', profileLog \subseteq profileLog', NEW e, Stored(e)
    PROVE  Stored(e)'
  BY InsertMonotone DEF Stored, Log

\* The answer of a Like call is a Like of a post the log holds a Like of.
ReplyInv ==
    /\ LikeInv /\ reply = [w \in Workers |-> reply[w]]
    /\ LikeTakesEffect

\* Logs that grow and replies that stay or go keep ReplyInv's last part.
LEMMA RepliesKept ==
    ASSUME LikeTakesEffect, postLog \subseteq postLog',
           \A w \in Workers : reply'[w] \in {reply[w], Nil}
    PROVE  LikeTakesEffect'
  BY DEF LikeTakesEffect, LikesOf

\* Every step keeps ReplyInv.
LEMMA ReplyStep == ReplyInv /\ [Next]_vars => ReplyInv'
  <1> SUFFICES ASSUME ReplyInv, [Next]_vars PROVE ReplyInv'
    OBVIOUS
  <1> USE DEF ReplyInv, logVars, workVars
  <1>0. LikeInv'
    BY LikeStep
  <1>1. ASSUME NEW w \in Workers, WorkerStep(w) PROVE ReplyInv'
    <2>1. ASSUME NEW o \in Op, Begin(w, o) PROVE ReplyInv'
      BY <1>0, <2>1, RepliesKept DEF Begin
    <2>2. CASE CheckLike(w)
      <3>1. CASE UNCHANGED reply
        BY <1>0, <2>2, <3>1, RepliesKept DEF CheckLike
      <3>2. ASSUME NEW e \in LikesOf(op[w].on, postLog), reply' = [reply EXCEPT ![w] = e]
            PROVE  ReplyInv'
        <4>1. e \in LikesOf(e.op.on, postLog)
          BY <3>2 DEF LikesOf
        <4> QED BY <1>0, <2>2, <3>2, <4>1 DEF CheckLike, LikeTakesEffect
      <3> QED BY <2>2, <3>1, <3>2 DEF CheckLike
    <2>3. CASE CountAndSign(w)
      BY <1>0, <2>3, RepliesKept DEF CountAndSign
    <2>4. CASE Append(w)
      <3>1. CASE IsLike(op[w])
        <4>1. IsLike(draft[w].op)
          BY <2>4, <3>1 DEF LikeInv, Append
        <4>2. postLog' = Insert(draft[w], postLog) /\ reply' = [reply EXCEPT ![w] = draft[w]]
          BY <2>4, <3>1 DEF Append
        <4>3. LikesOf(draft[w].op.on, postLog') # {} /\ postLog \subseteq postLog'
          BY <4>1, <4>2, InsertedLike, InsertGrows
        <4>4. ASSUME NEW v \in Workers, reply'[v] # Nil
              PROVE  LikesOf(reply'[v].op.on, postLog') # {}
          <5>1. CASE v = w
            BY <4>2, <4>3, <5>1
          <5>2. CASE v # w
            BY <4>2, <4>3, <4>4, <5>2 DEF LikeTakesEffect, LikesOf
          <5> QED BY <5>1, <5>2
        <4> QED BY <1>0, <4>2, <4>4 DEF LikeTakesEffect
      <3>2. CASE ~IsLike(op[w])
        BY <1>0, <2>4, <3>2, RepliesKept DEF Append
      <3> QED BY <3>1, <3>2
    <2>5. CASE UpdateCache(w)
      BY <1>0, <2>5, RepliesKept DEF UpdateCache
    <2> QED BY <1>1, <2>1, <2>2, <2>3, <2>4, <2>5 DEF WorkerStep
  <1>2. ASSUME NEW t \in Targets, PinIdentity(t) \/ UnpinIdentity(t) PROVE ReplyInv'
    BY <1>0, <1>2, RepliesKept DEF PinIdentity, UnpinIdentity
  <1>3. ASSUME NEW e \in Event, ImportEvent(e) PROVE ReplyInv'
    BY <1>0, <1>3, RepliesKept, InsertGrows DEF ImportEvent
  <1>4. CASE NewDevice
    BY <1>0, <1>4 DEF NewDevice, LikeTakesEffect
  <1>5. CASE ExportBackup \/ BeginImport \/ RebuildFollowState \/ PutPinnedIdentities \/ Restart
    BY <1>0, <1>5, RepliesKept
       DEF ExportBackup, BeginImport, RebuildFollowState, PutPinnedIdentities, Restart
  <1>6. CASE Crash
    BY <1>0, <1>6 DEF Crash, LikeTakesEffect
  <1>7. CASE UNCHANGED vars
    BY <1>0, <1>7, RepliesKept DEF vars
  <1> QED BY <1>1, <1>2, <1>3, <1>4, <1>5, <1>6, <1>7 DEF Next, BackupStep

\* A Like call that has answered took effect, also when the event it answers with
\* is not the one that was stored (SignAndAppend, AppendOwnEvent).
THEOREM LikesTakeEffect == Spec => []LikeTakesEffect
  <1>1. Init => ReplyInv
    BY DEF Init, ReplyInv, LikeInv, OneLikePerPost, LikeTakesEffect
  <1>2. ReplyInv => LikeTakesEffect
    BY DEF ReplyInv
  <1> QED BY <1>1, <1>2, ReplyStep, PTL DEF Spec

\* What an import has done so far: the events it has been through are stored,
\* then the cache is the log's, then the pins are the backup's.  No handler runs
\* meanwhile.
ImportInv ==
    /\ import.pc # "off" =>
         Idle /\ backup \in [events : SUBSET Event, pinned : SUBSET Targets]
    /\ import.pc = "logs" => \A e \in backup.events : e \in import.left \/ Stored(e)
    /\ import.pc \in {"pins", "done"} =>
         /\ \A e \in backup.events : Stored(e)
         /\ followed = FollowSet(profileLog)
    /\ import.pc = "pins" => pinned = {}
    /\ import.pc = "done" => pinned = backup.pinned \cap followed

\* Every step keeps ImportInv.
LEMMA ImportStep == TypeOK /\ ImportInv /\ [Next]_vars => ImportInv'
  <1> SUFFICES ASSUME TypeOK, ImportInv, [Next]_vars PROVE ImportInv'
    OBVIOUS
  <1> USE DEF ImportInv, logVars, cacheVars, workVars, backupVars
  <1>0. import = [pc |-> import.pc, left |-> import.left]
    BY DEF TypeOK
  <1>1. ASSUME NEW w \in Workers, WorkerStep(w) PROVE ImportInv'
    <2>1. import.pc = "off"
      BY <1>1 DEF Idle, WorkerStep, Begin, CheckLike, CountAndSign, Append, UpdateCache
    <2>2. import' = import
      BY <1>1 DEF WorkerStep, Begin, CheckLike, CountAndSign, Append, UpdateCache
    <2> QED BY <2>1, <2>2
  <1>2. ASSUME NEW t \in Targets, PinIdentity(t) \/ UnpinIdentity(t) PROVE ImportInv'
    <2>1. import.pc = "off" /\ import' = import
      BY <1>2 DEF PinIdentity, UnpinIdentity
    <2> QED BY <2>1
  <1>3. ASSUME NEW e \in Event, ImportEvent(e) PROVE ImportInv'
    <2>1. /\ import.pc = "logs" /\ e \in import.left
          /\ import' = [pc |-> "logs", left |-> import.left \ {e}]
          /\ UNCHANGED <<backup, pc>>
      BY <1>0, <1>3 DEF ImportEvent
    <2>2. postLog \subseteq postLog' /\ profileLog \subseteq profileLog'
      BY <1>3, InsertGrows DEF ImportEvent
    <2>3. Stored(e)'
      BY <1>3, InsertTwice DEF ImportEvent, Stored, Log
    <2>4. \A f \in backup.events : f \in import.left \ {e} \/ Stored(f)'
      <3> SUFFICES ASSUME NEW f \in backup.events, f \notin import.left \ {e}
                   PROVE  Stored(f)'
        OBVIOUS
      <3>1. CASE f = e
        BY <2>3, <3>1
      <3>2. CASE f # e
        BY <2>1, <2>2, <3>2, StoredStays
      <3> QED BY <3>1, <3>2
    <2> QED BY <2>1, <2>4 DEF Idle
  <1>4. CASE NewDevice
    <2>1. import.pc = "off" /\ import' = import
      BY <1>4 DEF NewDevice
    <2> QED BY <2>1
  <1>5. CASE ExportBackup
    <2>1. import.pc = "off" /\ import' = import
      BY <1>5 DEF ExportBackup
    <2> QED BY <2>1
  <1>6. CASE BeginImport
    <2>1. /\ Idle /\ backup # Nil /\ UNCHANGED <<backup, pc>>
          /\ import' = [pc |-> "logs", left |-> backup.events]
      BY <1>6 DEF BeginImport
    <2>2. backup \in [events : SUBSET Event, pinned : SUBSET Targets]
      BY <2>1 DEF TypeOK
    <2> QED BY <2>1, <2>2 DEF Idle
  <1>7. CASE RebuildFollowState
    <2>1. /\ import.pc = "logs" /\ import.left = {}
          /\ followed' = FollowSet(profileLog) /\ pinned' = {}
          /\ import' = [pc |-> "pins", left |-> {}]
          /\ UNCHANGED <<backup, pc, postLog, profileLog>>
      BY <1>0, <1>7 DEF RebuildFollowState
    <2>2. \A e \in backup.events : Stored(e)'
      BY <2>1, StoredStays
    <2>3. FollowSet(profileLog)' = FollowSet(profileLog)
      BY <2>1 DEF FollowSet
    <2> QED BY <2>1, <2>2, <2>3 DEF Idle
  <1>8. CASE PutPinnedIdentities
    <2>1. /\ import.pc = "pins"
          /\ pinned' = pinned \cup (backup.pinned \cap followed)
          /\ import' = [pc |-> "done", left |-> import.left]
          /\ UNCHANGED <<backup, pc, postLog, profileLog, followed>>
      BY <1>0, <1>8 DEF PutPinnedIdentities
    <2>2. \A e \in backup.events : Stored(e)'
      BY <2>1, StoredStays
    <2>3. pinned' = backup.pinned \cap followed
      BY <2>1
    <2>4. FollowSet(profileLog)' = FollowSet(profileLog)
      BY <2>1 DEF FollowSet
    <2> QED BY <2>1, <2>2, <2>3, <2>4 DEF Idle
  <1>9. CASE Restart
    <2>1. import' = [pc |-> "off", left |-> import.left]
      BY <1>0, <1>9 DEF Restart
    <2> QED BY <2>1
  <1>10. CASE Crash
    <2>1. import' = [pc |-> "off", left |-> {}]
      BY <1>10 DEF Crash
    <2> QED BY <2>1
  <1>11. CASE UNCHANGED vars
    <2>1. UNCHANGED <<import, backup, pc, postLog, profileLog, followed, pinned>>
      BY <1>11 DEF vars
    <2>2. \A e : Stored(e) => Stored(e)'
      BY <2>1 DEF Stored, Log
    <2>3. FollowSet(profileLog)' = FollowSet(profileLog)
      BY <2>1 DEF FollowSet
    <2> QED BY <2>1, <2>2, <2>3 DEF Idle
  <1> QED BY <1>1, <1>2, <1>3, <1>4, <1>5, <1>6, <1>7, <1>8, <1>9, <1>10, <1>11
          DEF Next, BackupStep

\* A completed import restores the account, whatever store, half-finished import
\* or crash it started from (ImportBackup).
THEOREM ImportsRestore == Spec => []ImportRestores
  <1>1. Init => ImportInv
    BY DEF Init, ImportInv
  <1>2. ImportInv => ImportRestores
    BY DEF ImportInv, ImportRestores, Stored
  <1> QED BY <1>1, <1>2, ImportStep, StoreTypeCorrect, PTL DEF Spec
============================================================================
