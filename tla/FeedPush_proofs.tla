-------------------------- MODULE FeedPush_proofs --------------------------
(***************************************************************************)
(* Proofs about the feed cache and the panels: for any number of writers   *)
(* and viewers, any queue capacity and any page size.                      *)
(*                                                                         *)
(*   - FeedTypeCorrect: the types, and no queue beyond its capacity;       *)
(*   - CacheNeverBehind: a cached timeline holds every published post;     *)
(*   - NoPostFallsBetween: the snapshot and the diffs leave no post out;   *)
(*   - PanelsSettle: an entry of a keyed panel ends as the daemon has it,  *)
(*     if its last change was broadcast and crossed no older diff.         *)
(***************************************************************************)
EXTENDS FeedPush, FiniteSetTheorems, SequenceTheorems, WellFoundedInduction, TLAPS

----------------------------------------------------------------------------
(* Sequences: subscribers, copies of them, queues.                         *)

\* The first place of an entry.
LEMMA FirstPlace ==
    ASSUME NEW I, I \subseteq Nat, I # {}
    PROVE  Min(I) \in I /\ \A i \in I : Min(I) <= i
  <1>1. PICK x \in I : \A y \in I : ~ (<<y, x>> \in OpToRel(<, Nat))
    BY NatLessThanWellFounded, WFMin, Zenon
  <1>2. \A y \in I : x <= y
    <2>1. \A y \in I : ~ (y < x)
      BY <1>1 DEF OpToRel
    <2> QED BY <2>1
  <1> QED BY <1>2 DEF Min

\* removeSubscriber leaves the other subscribers where they are.
LEMMA OneRemoved ==
    ASSUME NEW S, NEW s \in Seq(S), NEW e
    PROVE  /\ RemoveFirst(s, e) \in Seq(S)
           /\ Range(RemoveFirst(s, e)) \subseteq Range(s)
           /\ \A x \in Range(s) : x # e => x \in Range(RemoveFirst(s, e))
  <1>1. CASE ~ \E i \in 1 .. Len(s) : s[i] = e
    BY <1>1 DEF RemoveFirst
  <1>2. CASE \E i \in 1 .. Len(s) : s[i] = e
    <2> DEFINE I == {i \in 1 .. Len(s) : s[i] = e}
               k == Min(I)
               a == SubSeq(s, 1, k - 1)
               b == SubSeq(s, k + 1, Len(s))
    <2>1. Len(s) \in Nat /\ \A i \in 1 .. Len(s) : s[i] \in S
      OBVIOUS
    <2>2. I \subseteq Nat /\ I # {}
      BY <1>2
    <2>3. k \in 1 .. Len(s) /\ s[k] = e
      <3> HIDE DEF I
      <3>1. k \in I
        BY <2>2, FirstPlace
      <3> QED BY <3>1 DEF I
    <2>4. RemoveFirst(s, e) = a \o b
      BY <1>2, <2>2 DEF RemoveFirst, RemoveAt, SelectInSeq
    <2> HIDE DEF k
    <2>5. /\ a \in Seq(S) /\ Len(a) = k - 1
          /\ \A i \in 1 .. k - 1 : a[i] = s[i]
      <3>1. \A i \in 1 .. k - 1 : s[i] \in S
        BY <2>1, <2>3
      <3>2. /\ a \in Seq(S) /\ Len(a) = IF 1 <= k - 1 THEN k - 1 - 1 + 1 ELSE 0
            /\ \A i \in 1 .. k - 1 - 1 + 1 : a[i] = s[1 + i - 1]
        BY <2>3, <3>1, SubSeqProperties
      <3> QED BY <2>3, <3>2
    <2>6. /\ b \in Seq(S) /\ Len(b) = Len(s) - k
          /\ \A i \in 1 .. Len(s) - k : b[i] = s[k + i]
      <3>1. \A i \in k + 1 .. Len(s) : s[i] \in S
        BY <2>1, <2>3
      <3>2. /\ b \in Seq(S) /\ Len(b) = IF k + 1 <= Len(s) THEN Len(s) - (k + 1) + 1 ELSE 0
            /\ \A i \in 1 .. Len(s) - (k + 1) + 1 : b[i] = s[(k + 1) + i - 1]
        BY <2>1, <2>3, <3>1, SubSeqProperties
      <3> QED BY <2>1, <2>3, <3>2
    <2>7. /\ Range(s) = {s[i] : i \in 1 .. Len(s)}
          /\ Range(a) = {a[i] : i \in 1 .. Len(a)}
          /\ Range(b) = {b[i] : i \in 1 .. Len(b)}
      BY <2>5, <2>6, RangeEquality
    <2>8. a \o b \in Seq(S) /\ Range(a \o b) = Range(a) \cup Range(b)
      BY <2>5, <2>6, ConcatProperties, RangeConcatenation
    <2> HIDE DEF a, b
    <2>9. Range(a) \subseteq Range(s) /\ Range(b) \subseteq Range(s)
      <3>1. \A i \in 1 .. Len(a) : i \in 1 .. Len(s) /\ a[i] = s[i]
        BY <2>1, <2>3, <2>5
      <3>2. \A i \in 1 .. Len(b) : k + i \in 1 .. Len(s) /\ b[i] = s[k + i]
        BY <2>1, <2>3, <2>6
      <3> QED BY <2>7, <3>1, <3>2
    <2>10. ASSUME NEW x \in Range(s), x # e PROVE x \in Range(a) \cup Range(b)
      <3>1. PICK i \in 1 .. Len(s) : s[i] = x
        BY <2>7
      <3>2. i < k \/ i > k
        BY <2>1, <2>3, <2>10, <3>1
      <3>3. CASE i < k
        <4>1. i \in 1 .. Len(a) /\ a[i] = x
          BY <2>3, <2>5, <3>1, <3>3
        <4> QED BY <2>7, <4>1
      <3>4. CASE i > k
        <4>1. i - k \in 1 .. Len(b) /\ b[i - k] = s[k + (i - k)] /\ k + (i - k) = i
          BY <2>1, <2>3, <2>6, <3>1, <3>4
        <4> QED BY <2>7, <3>1, <4>1
      <3> QED BY <3>2, <3>3, <3>4
    <2> QED BY <2>4, <2>8, <2>9, <2>10
  <1> QED BY <1>1, <1>2

\* What an Append adds.
LEMMA AppendRange ==
    ASSUME NEW S, NEW s \in Seq(S), NEW e \in S
    PROVE  Range(Append(s, e)) = Range(s) \cup {e}
  <1>1. /\ Append(s, e) \in Seq(S) /\ Len(Append(s, e)) = Len(s) + 1
        /\ \A i \in 1 .. Len(s) : Append(s, e)[i] = s[i]
        /\ Append(s, e)[Len(s) + 1] = e /\ Len(s) \in Nat
    BY AppendProperties
  <1>2. /\ Range(s) = {s[i] : i \in 1 .. Len(s)}
        /\ Range(Append(s, e)) = {Append(s, e)[i] : i \in 1 .. Len(s) + 1}
    BY <1>1, RangeEquality
  <1>3. 1 .. Len(s) + 1 = 1 .. Len(s) \cup {Len(s) + 1}
    BY <1>1
  <1> QED BY <1>1, <1>2, <1>3

\* What a Tail leaves.
LEMMA TailRange ==
    ASSUME NEW S, NEW s \in Seq(S), s # <<>>
    PROVE  /\ Head(s) \in S /\ Tail(s) \in Seq(S)
           /\ Range(s) = {Head(s)} \cup Range(Tail(s))
  <1>1. /\ Head(s) \in S /\ Tail(s) \in Seq(S) /\ Len(Tail(s)) = Len(s) - 1
        /\ \A i \in 1 .. Len(Tail(s)) : Tail(s)[i] = s[i + 1]
        /\ Len(s) \in Nat \ {0} /\ Head(s) = s[1]
    BY HeadTailProperties, EmptySeq
  <1>2. /\ Range(s) = {s[i] : i \in 1 .. Len(s)}
        /\ Range(Tail(s)) = {Tail(s)[i] : i \in 1 .. Len(Tail(s))}
    BY <1>1, RangeEquality
  <1>3. ASSUME NEW x \in Range(s) PROVE x = Head(s) \/ x \in Range(Tail(s))
    <2>1. PICK i \in 1 .. Len(s) : x = s[i]
      BY <1>2
    <2>2. i = 1 \/ (i - 1 \in 1 .. Len(Tail(s)) /\ (i - 1) + 1 = i)
      BY <1>1
    <2> QED BY <1>1, <1>2, <2>1, <2>2
  <1>4. ASSUME NEW x \in Range(Tail(s)) PROVE x \in Range(s)
    <2>1. PICK i \in 1 .. Len(Tail(s)) : x = Tail(s)[i]
      BY <1>2
    <2>2. i + 1 \in 1 .. Len(s) /\ x = s[i + 1]
      BY <1>1, <2>1
    <2> QED BY <1>2, <2>2
  <1>5. Head(s) \in Range(s)
    <2>1. 1 \in 1 .. Len(s)
      BY <1>1
    <2> QED BY <1>1, <1>2, <2>1
  <1> QED BY <1>1, <1>3, <1>4, <1>5

----------------------------------------------------------------------------
(* Types.                                                                  *)

\* Sets of posts stay finite.
LEMMA PostSetFacts ==
    /\ {} \in PostSets
    /\ \A p \in Posts : {p} \in PostSets
    /\ \A S, T \in PostSets : S \cup T \in PostSets
    /\ \A S \in PostSets : \A T \in SUBSET S : T \in PostSets
  BY FS_EmptySet, FS_Singleton, FS_Union, FS_Subset DEF PostSets

\* What the program counters say about the rest: a writer has a batch until it
\* broadcasts and a diff from then on; a viewer that is not off has subscribed.
WriterInv(w) ==
    /\ writer[w].pc = "idle" => writer[w].batch = {}
    /\ writer[w].pc \in {"idle", "session", "invalidate", "dial"} => writer[w].diff = Nil
    /\ writer[w].pc \in {"copy", "send", "close"} =>
         writer[w].diff \in Diff /\ writer[w].batch = {}
    /\ writer[w].pc = "close" => writer[w].todo # <<>>
    /\ writer[w].pc = "dial" => writer[w].batch = {} /\ writer[w].tok \in Tokens

ViewerInv(v) == viewer[v].pc # "off" => viewer[v].n \in 1 .. MaxSubs

TypeInv ==
    /\ TypeOK
    /\ \A w \in Writers : WriterInv(w)
    /\ \A v \in Viewers : ViewerInv(v)

\* Whoever broadcasts has a diff, and a viewer has its subscription.
LEMMA Parts ==
    ASSUME TypeInv
    PROVE  /\ \A w \in Writers : writer[w].pc \in {"copy", "send", "close"} =>
                  writer[w].diff \in Diff /\ writer[w].diff # Nil
           /\ \A v \in Viewers : viewer[v].pc # "off" => Sub(v) \in Subs
  <1>1. \A v \in Viewers : viewer[v].pc # "off" => Sub(v) \in Subs
    BY DEF TypeInv, ViewerInv, Sub, Subs
  <1> QED BY <1>1, FeedAssumption DEF TypeInv, WriterInv

\* A writer's step that leaves everything but the writer, the data and the
\* cache alone.
LEMMA WriterTypes ==
    ASSUME TypeInv, NEW w \in Writers, NEW r,
           r \in [pc : {"idle", "session", "invalidate", "dial", "copy", "send", "close"},
                  batch : PostSets, diff : Diff \cup {Nil}, todo : Seq(Subs),
                  tok : Tokens \cup {Nil}],
           r.pc = "idle" => r.batch = {},
           r.pc \in {"idle", "session", "invalidate", "dial"} => r.diff = Nil,
           r.pc \in {"copy", "send", "close"} => r.diff \in Diff /\ r.batch = {},
           r.pc = "close" => r.todo # <<>>,
           r.pc = "dial" => r.batch = {} /\ r.tok \in Tokens,
           writer' = [writer EXCEPT ![w] = r],
           stored' \in PostSets, follows' \subseteq Targets, zens' \subseteq Tokens,
           rehydrated' \in BOOLEAN, loose' \subseteq Keys,
           feedGen' \in Nat, feedCache' \in PostSets \cup {Nil},
           queue' \in [Subs -> Seq(Diff)], \A s \in Subs : Len(queue'[s]) <= QueueCap,
           done' \in [Subs -> BOOLEAN], panicked' \in BOOLEAN,
           edits' \in 0 .. MaxEdits,
           UNCHANGED <<subs, viewer, panel, breaks>>
    PROVE  TypeInv'
  <1>1. writer' \in [Writers ->
           [pc : {"idle", "session", "invalidate", "dial", "copy", "send", "close"},
            batch : PostSets, diff : Diff \cup {Nil}, todo : Seq(Subs),
            tok : Tokens \cup {Nil}]]
    BY DEF TypeInv, TypeOK
  <1>2. TypeOK'
    BY <1>1 DEF TypeInv, TypeOK
  <1>3. writer'[w] = r /\ \A x \in Writers \ {w} : writer'[x] = writer[x]
    BY DEF TypeInv, TypeOK
  <1>4. \A x \in Writers : WriterInv(x)'
    BY <1>3 DEF TypeInv, WriterInv
  <1> QED BY <1>2, <1>4 DEF TypeInv, ViewerInv

\* A viewer's step.
LEMMA ViewerTypes ==
    ASSUME TypeInv, NEW v \in Viewers, NEW r,
           r \in [pc : {"off", "zens", "feed", "rebuild", "follows", "stream"},
                  n : 0 .. MaxSubs, gen : Nat, snap : Panels],
           r.pc # "off" => r.n \in 1 .. MaxSubs,
           viewer' = [viewer EXCEPT ![v] = r],
           feedCache' \in PostSets \cup {Nil},
           subs' \in Seq(Subs),
           queue' \in [Subs -> Seq(Diff)], \A s \in Subs : Len(queue'[s]) <= QueueCap,
           panel' \in [Viewers -> Panels],
           breaks' \in 0 .. MaxBreaks,
           UNCHANGED <<dataVars, feedGen, done, panicked, writer, edits>>
    PROVE  TypeInv'
  <1>1. viewer' \in [Viewers ->
           [pc : {"off", "zens", "feed", "rebuild", "follows", "stream"},
            n : 0 .. MaxSubs, gen : Nat, snap : Panels]]
    BY DEF TypeInv, TypeOK
  <1>2. TypeOK'
    BY <1>1 DEF TypeInv, TypeOK, dataVars
  <1>3. viewer'[v] = r /\ \A x \in Viewers \ {v} : viewer'[x] = viewer[x]
    BY DEF TypeInv, TypeOK
  <1>4. \A x \in Viewers : ViewerInv(x)'
    BY <1>3 DEF TypeInv, ViewerInv
  <1> QED BY <1>2, <1>4 DEF TypeInv, WriterInv

\* A diff handed to broadcast.
LEMMA EmitTypes ==
    ASSUME TypeInv, NEW w \in Writers, NEW d \in Diff, Emit(w, d),
           stored' \in PostSets, follows' \subseteq Targets, zens' \subseteq Tokens,
           rehydrated' \in BOOLEAN, loose' \subseteq Keys,
           feedGen' \in Nat, feedCache' \in PostSets \cup {Nil},
           edits' \in 0 .. MaxEdits,
           UNCHANGED <<chanVars, viewer, panel, breaks>>
    PROVE  TypeInv'
  <1> DEFINE r == [pc |-> "copy", batch |-> {}, diff |-> d, todo |-> <<>>, tok |-> Nil]
  <1>1. /\ r \in [pc : {"idle", "session", "invalidate", "dial", "copy", "send", "close"},
                  batch : PostSets, diff : Diff \cup {Nil}, todo : Seq(Subs),
                  tok : Tokens \cup {Nil}]
        /\ r.pc = "copy" /\ r.diff \in Diff /\ r.batch = {}
    BY PostSetFacts
  <1>2. writer' = [writer EXCEPT ![w] = r]
    BY DEF Emit
  <1>3. /\ queue' \in [Subs -> Seq(Diff)] /\ \A s \in Subs : Len(queue'[s]) <= QueueCap
        /\ done' \in [Subs -> BOOLEAN] /\ panicked' \in BOOLEAN /\ subs' = subs
    BY DEF TypeInv, TypeOK, chanVars
  <1> HIDE DEF r
  <1> QED BY <1>1, <1>2, <1>3, WriterTypes

\* A change counts as one of the bounded edits.
LEMMA BeginTypes ==
    ASSUME TypeInv, NEW w, Begin(w)
    PROVE  edits' \in 0 .. MaxEdits
  <1>1. edits \in 0 .. MaxEdits /\ MaxEdits \in Nat
    BY FeedAssumption DEF TypeInv, TypeOK
  <1>2. edits < MaxEdits /\ edits' = edits + 1
    BY DEF Begin
  <1> QED BY <1>1, <1>2

\* The steps of writers.
LEMMA WriterStepTypes ==
    ASSUME TypeInv, NEW w \in Writers, Publish(w) \/ Change(w)
    PROVE  TypeInv'
  <1> DEFINE W == [pc : {"idle", "session", "invalidate", "dial", "copy", "send", "close"},
                   batch : PostSets, diff : Diff \cup {Nil}, todo : Seq(Subs),
                   tok : Tokens \cup {Nil}]
  <1>0. /\ writer[w] \in W /\ WriterInv(w) /\ writer \in [Writers -> W]
        /\ stored \in PostSets /\ follows \subseteq Targets /\ zens \subseteq Tokens
        /\ rehydrated \in BOOLEAN /\ loose \subseteq Keys
        /\ feedGen \in Nat /\ feedCache \in PostSets \cup {Nil}
        /\ queue \in [Subs -> Seq(Diff)] /\ \A s \in Subs : Len(queue[s]) <= QueueCap
        /\ done \in [Subs -> BOOLEAN] /\ panicked \in BOOLEAN
        /\ edits \in 0 .. MaxEdits /\ subs \in Seq(Subs)
    BY DEF TypeInv, TypeOK
  <1>1. ASSUME NEW p \in Posts, AppendPost(w, p) PROVE TypeInv'
    <2> DEFINE r == [writer[w] EXCEPT !.pc = "invalidate", !.batch = {p}]
    <2>1. r \in W /\ r.pc = "invalidate" /\ r.diff = writer[w].diff
      BY PostSetFacts, <1>0
    <2>2. r.diff = Nil
      BY <1>0, <1>1, <2>1 DEF AppendPost, WriterInv
    <2>3. writer' = [writer EXCEPT ![w] = r]
      BY <1>0, <1>1 DEF AppendPost
    <2>4. /\ UNCHANGED <<rehydrated, loose, follows, zens, feedGen, feedCache>>
          /\ UNCHANGED <<queue, done, panicked, edits>>
          /\ UNCHANGED <<subs, viewer, panel, breaks>>
          /\ stored' \in PostSets
      BY PostSetFacts, <1>1, <1>0 DEF AppendPost, chanVars, cacheVars, boundVars
    <2> HIDE DEF r
    <2> QED BY <1>0, <2>1, <2>2, <2>3, <2>4, WriterTypes
  <1>2. ASSUME NEW p \in Posts, MergePost(w, p) PROVE TypeInv'
    <2> DEFINE r == [writer[w] EXCEPT !.pc = "session", !.batch = @ \cup {p}]
    <2>1. r \in W /\ r.pc = "session" /\ r.diff = writer[w].diff
      BY PostSetFacts, <1>0
    <2>2. r.diff = Nil
      BY <1>0, <1>2, <2>1 DEF MergePost, WriterInv
    <2>3. writer' = [writer EXCEPT ![w] = r]
      BY <1>0, <1>2 DEF MergePost
    <2>4. /\ UNCHANGED <<rehydrated, loose, follows, zens, feedGen, feedCache>>
          /\ UNCHANGED <<queue, done, panicked, edits>>
          /\ UNCHANGED <<subs, viewer, panel, breaks>>
          /\ stored' \in PostSets
      BY PostSetFacts, <1>2, <1>0 DEF MergePost, chanVars, cacheVars, boundVars
    <2> HIDE DEF r
    <2> QED BY <1>0, <2>1, <2>2, <2>3, <2>4, WriterTypes
  <1>3. CASE invalidateFeed(w)
    <2>1. [panel |-> "feed", add |-> writer[w].batch] \in Diff
      BY <1>0 DEF Diff
    <2>2. /\ UNCHANGED <<stored, follows, zens, rehydrated, loose, edits>>
          /\ UNCHANGED <<chanVars, viewer, panel, breaks>>
          /\ feedGen' = feedGen + 1 /\ feedCache' = Nil
          /\ Emit(w, [panel |-> "feed", add |-> writer[w].batch])
      BY <1>3 DEF invalidateFeed, dataVars, boundVars
    <2>3. feedGen' \in Nat /\ feedCache' \in PostSets \cup {Nil}
      BY <1>0, <2>2
    <2> QED BY <1>0, <2>1, <2>2, <2>3, EmitTypes
  <1>4. ASSUME NEW t \in Tokens, NEW on \in BOOLEAN, EditZen(w, t, on),
               edits' \in 0 .. MaxEdits
        PROVE  TypeInv'
    <2>1. [panel |-> "zens", key |-> t, on |-> on] \in Diff /\ <<"zens", t>> \in Keys
      BY DEF Diff, Keys
    <2>2. /\ zens' = IF on THEN zens \cup {t} ELSE zens \ {t}
          /\ Emit(w, [panel |-> "zens", key |-> t, on |-> on])
          /\ loose' \subseteq loose \cup {<<"zens", t>>}
          /\ UNCHANGED <<stored, follows, rehydrated, feedGen, feedCache>>
          /\ UNCHANGED <<chanVars, viewer, panel, breaks>>
      BY <1>4 DEF EditZen, Announce, cacheVars
    <2>3. zens' \subseteq Tokens /\ loose' \subseteq Keys
      BY <1>0, <2>1, <2>2
    <2> QED BY <1>0, <1>4, <2>1, <2>2, <2>3, EmitTypes
  <1>5. ASSUME NEW a \in Targets, NEW on \in BOOLEAN, EditFollow(w, a, on) PROVE TypeInv'
    <2>1. [panel |-> "follows", key |-> a, on |-> on] \in Diff /\ <<"follows", a>> \in Keys
      BY DEF Diff, Keys
    <2>2. /\ follows' = IF on THEN follows \cup {a} ELSE follows \ {a}
          /\ Emit(w, [panel |-> "follows", key |-> a, on |-> on])
          /\ loose' \subseteq loose \cup {<<"follows", a>>}
          /\ UNCHANGED <<stored, zens, rehydrated, feedGen, feedCache>>
          /\ UNCHANGED <<chanVars, viewer, panel, breaks>>
      BY <1>5 DEF EditFollow, Announce, cacheVars
    <2>3. follows' \subseteq Targets /\ loose' \subseteq Keys
      BY <1>0, <2>1, <2>2
    <2>4. edits' \in 0 .. MaxEdits
      BY <1>5, BeginTypes DEF EditFollow
    <2> QED BY <1>0, <2>1, <2>2, <2>3, <2>4, EmitTypes
  <1>6. CASE CopySubs(w)
    <2> DEFINE r == [writer[w] EXCEPT !.pc = "send", !.todo = subs]
    <2>1. r \in W /\ r.pc = "send" /\ r.diff = writer[w].diff /\ r.batch = writer[w].batch
      BY <1>0
    <2>2. r.diff \in Diff /\ r.batch = {}
      BY <1>0, <1>6, <2>1 DEF CopySubs, WriterInv
    <2>3. writer' = [writer EXCEPT ![w] = r]
      BY <1>0, <1>6 DEF CopySubs
    <2>4. /\ UNCHANGED <<stored, follows, zens, rehydrated, loose, feedGen, feedCache>>
          /\ UNCHANGED <<queue, done, panicked>>
          /\ UNCHANGED <<edits, subs, viewer, panel, breaks>>
      BY <1>6 DEF CopySubs, dataVars, chanVars, cacheVars, boundVars
    <2> HIDE DEF r
    <2> QED BY <1>0, <2>1, <2>2, <2>3, <2>4, WriterTypes
  <1>7. CASE Send(w)
    <2> DEFINE s == Head(writer[w].todo)
    <2>1. writer[w].pc = "send" /\ writer[w].diff \in Diff /\ writer[w].batch = {}
      BY <1>0, <1>7 DEF Send, WriterInv
    <2>2. s \in Subs /\ Tail(writer[w].todo) \in Seq(Subs) /\ writer[w].todo # <<>>
      BY <1>0, <1>7, TailRange DEF Send
    <2>3. CASE writer' = [writer EXCEPT ![w].todo = Tail(@)]
      <3> DEFINE r == [writer[w] EXCEPT !.todo = Tail(@)]
      <3>1. /\ r \in W /\ r.pc = "send" /\ r.diff = writer[w].diff
            /\ r.batch = writer[w].batch
        BY <1>0, <2>1, <2>2
      <3>2. writer' = [writer EXCEPT ![w] = r]
        BY <1>0, <2>3
      <3>3. queue' = queue \/ /\ Len(queue[s]) < QueueCap
                              /\ queue' = [queue EXCEPT ![s] = Append(@, writer[w].diff)]
        BY <1>7 DEF Send
      <3>4. queue' \in [Subs -> Seq(Diff)] /\ \A x \in Subs : Len(queue'[x]) <= QueueCap
        <4>1. CASE queue' = queue
          BY <1>0, <4>1
        <4>2. CASE /\ Len(queue[s]) < QueueCap
                   /\ queue' = [queue EXCEPT ![s] = Append(@, writer[w].diff)]
          <5>1. Append(queue[s], writer[w].diff) \in Seq(Diff)
            BY <1>0, <2>1, <2>2
          <5>2. Len(Append(queue[s], writer[w].diff)) <= QueueCap
            <6>1. queue[s] \in Seq(Diff) /\ Len(queue[s]) \in Nat
              BY <1>0, <2>2
            <6>2. Len(Append(queue[s], writer[w].diff)) = Len(queue[s]) + 1
              BY <6>1, <2>1, AppendProperties
            <6> QED BY <6>1, <6>2, <4>2, FeedAssumption
          <5> HIDE DEF s
          <5> QED BY <1>0, <2>2, <4>2, <5>1, <5>2
        <4> QED BY <3>3, <4>1, <4>2
      <3>5. /\ UNCHANGED <<stored, follows, zens, rehydrated, loose>>
            /\ UNCHANGED <<feedGen, feedCache, done, panicked, edits>>
            /\ UNCHANGED <<subs, viewer, panel, breaks>>
        BY <1>7 DEF Send, dataVars, cacheVars, boundVars
      <3> HIDE DEF r
      <3> QED BY <1>0, <2>1, <3>1, <3>2, <3>4, <3>5, WriterTypes
    <2>4. CASE writer' = [writer EXCEPT ![w].pc = "close"] /\ queue' = queue
      <3> DEFINE r == [writer[w] EXCEPT !.pc = "close"]
      <3>1. /\ r \in W /\ r.pc = "close" /\ r.diff = writer[w].diff
            /\ r.batch = writer[w].batch /\ r.todo # <<>>
        BY <1>0, <2>2
      <3>2. writer' = [writer EXCEPT ![w] = r]
        BY <1>0, <2>4
      <3>3. /\ UNCHANGED <<stored, follows, zens, rehydrated, loose>>
            /\ UNCHANGED <<feedGen, feedCache, done, panicked, edits>>
            /\ UNCHANGED <<subs, viewer, panel, breaks, queue>>
        BY <1>7, <2>4 DEF Send, dataVars, cacheVars, boundVars
      <3>4. r.diff \in Diff /\ r.batch = {}
        BY <2>1, <3>1
      <3> HIDE DEF r, s
      <3> QED BY <1>0, <3>1, <3>2, <3>3, <3>4, WriterTypes
    <2> QED BY <1>7, <2>3, <2>4 DEF Send
  <1>8. CASE CloseDone(w)
    <2> DEFINE r == [writer[w] EXCEPT !.pc = "send", !.todo = Tail(@)]
    <2>1. writer[w].pc = "close" /\ writer[w].diff \in Diff /\ writer[w].batch = {}
      BY <1>0, <1>8 DEF CloseDone, WriterInv
    <2>2. Head(writer[w].todo) \in Subs /\ Tail(writer[w].todo) \in Seq(Subs)
      BY <1>0, <2>1, TailRange DEF WriterInv
    <2>3. r \in W /\ r.pc = "send" /\ r.diff = writer[w].diff /\ r.batch = writer[w].batch
      BY <1>0, <2>2
    <2>4. writer' = [writer EXCEPT ![w] = r]
      BY <1>0, <1>8 DEF CloseDone
    <2>5. done' \in [Subs -> BOOLEAN] /\ panicked' \in BOOLEAN
      BY <1>0, <1>8, <2>2 DEF CloseDone
    <2>6. /\ UNCHANGED <<stored, follows, zens, rehydrated, loose>>
          /\ UNCHANGED <<feedGen, feedCache, queue, edits>>
          /\ UNCHANGED <<subs, viewer, panel, breaks>>
      BY <1>8 DEF CloseDone, dataVars, cacheVars, boundVars
    <2> HIDE DEF r
    <2> QED BY <1>0, <2>1, <2>3, <2>4, <2>5, <2>6, WriterTypes
  <1>9. CASE EndBroadcast(w)
    <2> DEFINE r == [writer[w] EXCEPT !.pc = "idle", !.diff = Nil]
    <2>1. r \in W /\ r.pc = "idle" /\ r.diff = Nil /\ r.batch = writer[w].batch
      BY <1>0
    <2>2. r.batch = {}
      BY <1>0, <1>9, <2>1 DEF EndBroadcast, WriterInv
    <2>3. writer' = [writer EXCEPT ![w] = r]
      BY <1>0, <1>9 DEF EndBroadcast
    <2>4. /\ UNCHANGED <<stored, follows, zens, rehydrated, loose, feedGen, feedCache>>
          /\ UNCHANGED <<queue, done, panicked>>
          /\ UNCHANGED <<edits, subs, viewer, panel, breaks>>
      BY <1>9 DEF EndBroadcast, dataVars, chanVars, cacheVars, boundVars
    <2> HIDE DEF r
    <2> QED BY <1>0, <2>1, <2>2, <2>3, <2>4, WriterTypes
  <1>10. ASSUME NEW t \in Tokens, upsertZen(w, t) \/ removeZen(w, t) \/ setZenStatus(w, t)
         PROVE  TypeInv'
    <2>1. edits' \in 0 .. MaxEdits /\ (EditZen(w, t, TRUE) \/ EditZen(w, t, FALSE))
      BY <1>10, BeginTypes DEF upsertZen, removeZen, setZenStatus
    <2> QED BY <1>4, <2>1
  <1>11. ASSUME NEW t \in Tokens, followByToken(w, t) PROVE TypeInv'
    <2> DEFINE r == [writer[w] EXCEPT !.pc = "dial", !.tok = t]
    <2>1. /\ r \in W /\ r.pc = "dial" /\ r.diff = writer[w].diff /\ r.batch = writer[w].batch
          /\ r.tok = t
      BY <1>0
    <2>2. writer[w].pc = "idle" /\ writer[w].diff = Nil /\ writer[w].batch = {}
      BY <1>0, <1>11 DEF followByToken, Begin, WriterInv
    <2>3. /\ UNCHANGED <<stored, follows, rehydrated, feedGen, feedCache, queue, done, panicked>>
          /\ UNCHANGED <<subs, viewer, panel, breaks>>
      BY <1>11 DEF followByToken, cacheVars, chanVars
    <2>4. zens' \subseteq Tokens /\ loose' \subseteq Keys /\ edits' \in 0 .. MaxEdits
      BY <1>0, <1>11, BeginTypes DEF followByToken, Keys
    <2>5. \/ writer' = [writer EXCEPT ![w] = r]
          \/ writer' = [writer EXCEPT ![w] = writer[w]]
      BY <1>0, <1>11 DEF followByToken
    <2> HIDE DEF r
    <2>6. CASE writer' = [writer EXCEPT ![w] = r]
      BY <1>0, <2>1, <2>2, <2>3, <2>4, <2>6, WriterTypes
    <2>7. CASE writer' = [writer EXCEPT ![w] = writer[w]]
      BY <1>0, <2>2, <2>3, <2>4, <2>7, WriterTypes
    <2> QED BY <2>5, <2>6, <2>7
  <1>12. CASE DialDone(w)
    <2>1. /\ writer[w].pc = "dial" /\ writer[w].tok \in Tokens /\ edits' \in 0 .. MaxEdits
          /\ writer[w].diff = Nil /\ writer[w].batch = {}
      BY <1>0, <1>12 DEF DialDone, WriterInv
    <2>2. CASE EditZen(w, writer[w].tok, TRUE)
      BY <1>4, <2>1, <2>2
    <2>3. CASE /\ writer' = [writer EXCEPT ![w].pc = "idle", ![w].tok = Nil]
               /\ UNCHANGED <<dataVars, cacheVars, chanVars, viewer, panel, breaks>>
      <3> DEFINE r == [writer[w] EXCEPT !.pc = "idle", !.tok = Nil]
      <3>1. r \in W /\ r.pc = "idle" /\ r.diff = Nil /\ r.batch = {}
        BY <1>0, <2>1
      <3>2. writer' = [writer EXCEPT ![w] = r]
        BY <1>0, <2>3
      <3>3. /\ UNCHANGED <<stored, follows, zens, rehydrated, loose, feedGen, feedCache>>
            /\ UNCHANGED <<queue, done, panicked, subs, viewer, panel, breaks>>
        BY <2>3 DEF dataVars, cacheVars, chanVars
      <3> HIDE DEF r
      <3> QED BY <1>0, <2>1, <3>1, <3>2, <3>3, WriterTypes
    <2> QED BY <1>12, <2>2, <2>3 DEF DialDone
  <1> HIDE DEF W
  <1> QED
    BY <1>1, <1>2, <1>3, <1>5, <1>6, <1>7, <1>8, <1>9, <1>10, <1>11, <1>12
    DEF Publish, Change

\* The steps of viewers.
LEMMA ViewerStepTypes ==
    ASSUME TypeInv, NEW v \in Viewers, View(v) \/ Break(v)
    PROVE  TypeInv'
  <1> DEFINE V == [pc : {"off", "zens", "feed", "rebuild", "follows", "stream"},
                   n : 0 .. MaxSubs, gen : Nat, snap : Panels]
  <1>0. /\ viewer[v] \in V /\ ViewerInv(v) /\ viewer \in [Viewers -> V]
        /\ stored \in PostSets /\ follows \subseteq Targets /\ zens \subseteq Tokens
        /\ rehydrated \in BOOLEAN /\ loose \subseteq Keys
        /\ feedGen \in Nat /\ feedCache \in PostSets \cup {Nil}
        /\ queue \in [Subs -> Seq(Diff)] /\ \A s \in Subs : Len(queue[s]) <= QueueCap
        /\ panel \in [Viewers -> Panels] /\ subs \in Seq(Subs)
        /\ breaks \in 0 .. MaxBreaks
    BY DEF TypeInv, TypeOK
  <1>1. CASE Register(v)
    <2> DEFINE r == [viewer[v] EXCEPT !.pc = "zens", !.n = @ + 1]
    <2>1. r \in V /\ r.n \in 1 .. MaxSubs
      <3>1. /\ viewer[v].n \in Nat /\ viewer[v].n < MaxSubs /\ MaxSubs \in Nat
        BY <1>0, <1>1, FeedAssumption DEF Register
      <3>2. viewer[v].n + 1 \in 1 .. MaxSubs /\ viewer[v].n + 1 \in 0 .. MaxSubs
        BY <3>1
      <3> QED BY <1>0, <3>2
    <2>2. viewer' = [viewer EXCEPT ![v] = r]
      BY <1>0, <1>1 DEF Register
    <2>3. <<v, viewer[v].n + 1>> \in Subs
      BY <1>0, <1>1, FeedAssumption DEF Register, Subs
    <2>4. subs' \in Seq(Subs)
      BY <1>0, <1>1, <2>3 DEF Register
    <2>5. /\ UNCHANGED <<feedCache, queue, panel, breaks>>
          /\ UNCHANGED <<dataVars, feedGen, done, panicked, writer, edits>>
      BY <1>1 DEF Register, cacheVars, boundVars
    <2> HIDE DEF r
    <2> QED BY <1>0, <2>1, <2>2, <2>4, <2>5, ViewerTypes
  <1>2. CASE SnapZens(v)
    <2> DEFINE r == [viewer[v] EXCEPT !.pc = "feed", !.snap.zens = zens]
    <2>1. r \in V /\ r.n \in 1 .. MaxSubs
      BY <1>0, <1>2 DEF SnapZens, Panels, ViewerInv
    <2>2. viewer' = [viewer EXCEPT ![v] = r]
      BY <1>0, <1>2 DEF SnapZens
    <2>3. /\ UNCHANGED <<subs, feedCache, queue, panel, breaks>>
          /\ UNCHANGED <<dataVars, feedGen, done, panicked, writer, edits>>
      BY <1>2 DEF SnapZens, cacheVars, chanVars, boundVars
    <2> HIDE DEF r
    <2> QED BY <1>0, <2>1, <2>2, <2>3, ViewerTypes
  <1>3. CASE LookupPosts(v)
    <2>1. /\ UNCHANGED <<subs, feedCache, queue, panel, breaks>>
          /\ UNCHANGED <<dataVars, feedGen, done, panicked, writer, edits>>
      BY <1>3 DEF LookupPosts, cacheVars, chanVars, boundVars
    <2>2. viewer[v].n \in 1 .. MaxSubs
      BY <1>0, <1>3 DEF LookupPosts, ViewerInv
    <2>3. CASE feedCache # Nil
      <3> DEFINE r == [viewer[v] EXCEPT !.pc = "follows", !.snap.feed = Page(feedCache)]
      <3>1. Page(feedCache) \in PostSets
        BY <1>0, <2>3, PostSetFacts DEF Page
      <3>2. r \in V /\ r.n \in 1 .. MaxSubs
        BY <1>0, <2>2, <3>1 DEF Panels
      <3>3. viewer' = [viewer EXCEPT ![v] = r]
        BY <1>0, <1>3, <2>3 DEF LookupPosts
      <3> HIDE DEF r
      <3> QED BY <1>0, <2>1, <3>2, <3>3, ViewerTypes
    <2>4. CASE feedCache = Nil
      <3> DEFINE r == [viewer[v] EXCEPT !.pc = "rebuild", !.gen = feedGen]
      <3>1. r \in V /\ r.n \in 1 .. MaxSubs
        BY <1>0, <2>2
      <3>2. viewer' = [viewer EXCEPT ![v] = r]
        BY <1>0, <1>3, <2>4 DEF LookupPosts
      <3> HIDE DEF r
      <3> QED BY <1>0, <2>1, <3>1, <3>2, ViewerTypes
    <2> QED BY <2>3, <2>4
  <1>4. CASE RebuildPosts(v)
    <2> DEFINE S == IF feedCache # Nil /\ feedGen = viewer[v].gen THEN feedCache ELSE AllPosts
               r == [viewer[v] EXCEPT !.pc = "follows", !.snap.feed = Page(S), !.gen = 0]
    <2>1. feedCache' = S /\ viewer' = [viewer EXCEPT ![v] = r]
      BY <1>0, <1>4 DEF RebuildPosts
    <2>2. S \in PostSets
      BY <1>0, PostSetFacts DEF AllPosts
    <2> HIDE DEF S
    <2>3. Page(S) \in PostSets
      BY <2>2, PostSetFacts DEF Page
    <2>4. r \in V /\ r.n \in 1 .. MaxSubs
      BY <1>0, <1>4, <2>3 DEF RebuildPosts, Panels, ViewerInv
    <2>5. /\ UNCHANGED <<subs, queue, panel, breaks>>
          /\ UNCHANGED <<dataVars, feedGen, done, panicked, writer, edits>>
      BY <1>4 DEF RebuildPosts, chanVars, boundVars
    <2> HIDE DEF r
    <2> QED BY <1>0, <2>1, <2>2, <2>4, <2>5, ViewerTypes
  <1>5. CASE SendSnapshot(v)
    <2> DEFINE r == [viewer[v] EXCEPT !.pc = "stream", !.snap = Blank]
               P == [viewer[v].snap EXCEPT !.follows = follows]
    <2>1. r \in V /\ r.n \in 1 .. MaxSubs
      BY PostSetFacts, <1>0, <1>5 DEF SendSnapshot, Panels, ViewerInv, Blank
    <2>2. viewer' = [viewer EXCEPT ![v] = r] /\ panel' = [panel EXCEPT ![v] = P]
      BY <1>0, <1>5 DEF SendSnapshot
    <2>3. P \in Panels
      BY <1>0 DEF Panels
    <2>4. /\ UNCHANGED <<feedCache, subs, queue, breaks>>
          /\ UNCHANGED <<dataVars, feedGen, done, panicked, writer, edits>>
      BY <1>5 DEF SendSnapshot, cacheVars, chanVars, boundVars
    <2> HIDE DEF r, P
    <2>5. panel' \in [Viewers -> Panels]
      BY <1>0, <2>2, <2>3
    <2> QED BY <1>0, <2>1, <2>2, <2>4, <2>5, ViewerTypes
  <1>6. CASE Pump(v)
    <2> DEFINE s == Sub(v)
               d == Head(queue[s])
    <2>1. s \in Subs /\ queue[s] # <<>>
      BY <1>0, <1>6 DEF Pump, ViewerInv, Sub, Subs
    <2>2. /\ queue[s] \in Seq(Diff) /\ d \in Diff /\ Tail(queue[s]) \in Seq(Diff)
          /\ Len(Tail(queue[s])) = Len(queue[s]) - 1 /\ Len(queue[s]) \in Nat
      BY <1>0, <2>1, HeadTailProperties
    <2>3. /\ panel' = [panel EXCEPT ![v] = Apply(@, d)]
          /\ queue' = [queue EXCEPT ![s] = Tail(@)]
      BY <1>6 DEF Pump
    <2> HIDE DEF s, d
    <2>4. Apply(panel[v], d) \in Panels
      BY PostSetFacts, <1>0, <2>2 DEF Apply, Diff, Panels, Keyed
    <2>5. panel' \in [Viewers -> Panels]
      BY <1>0, <2>3, <2>4
    <2>6. queue' \in [Subs -> Seq(Diff)]
      BY <1>0, <2>1, <2>2, <2>3
    <2>7. \A x \in Subs : Len(queue'[x]) <= QueueCap
      <3>1. Len(Tail(queue[s])) <= QueueCap
        BY <1>0, <2>1, <2>2, FeedAssumption
      <3> QED BY <1>0, <2>1, <2>3, <3>1
    <2>8. /\ UNCHANGED <<feedCache, subs, breaks, viewer>>
          /\ UNCHANGED <<dataVars, feedGen, done, panicked, writer, edits>>
      BY <1>6 DEF Pump, cacheVars, boundVars
    <2>9. viewer' = [viewer EXCEPT ![v] = viewer[v]]
      BY <1>0, <2>8
    <2>10. viewer[v].pc # "off" => viewer[v].n \in 1 .. MaxSubs
      BY <1>0 DEF ViewerInv
    <2> QED BY <1>0, <2>5, <2>6, <2>7, <2>8, <2>9, <2>10, ViewerTypes
  <1>7. ASSUME Unsubscribe(v), breaks' \in 0 .. MaxBreaks PROVE TypeInv'
    <2> DEFINE r == [pc |-> "off", n |-> viewer[v].n, gen |-> 0, snap |-> Blank]
    <2>1. r \in V /\ r.pc = "off"
      BY PostSetFacts, <1>0 DEF Panels, Blank
    <2>2. viewer' = [viewer EXCEPT ![v] = r]
      BY <1>0, <1>7 DEF Unsubscribe
    <2>3. subs' \in Seq(Subs)
      BY <1>0, <1>7, OneRemoved DEF Unsubscribe
    <2>4. /\ UNCHANGED <<feedCache, queue, panel>>
          /\ UNCHANGED <<dataVars, feedGen, done, panicked, writer, edits>>
      BY <1>7 DEF Unsubscribe, cacheVars
    <2> HIDE DEF r
    <2> QED BY <1>0, <1>7, <2>1, <2>2, <2>3, <2>4, ViewerTypes
  <1>8. CASE Drop(v)
    BY <1>0, <1>7, <1>8 DEF Drop
  <1>9. CASE Break(v)
    <2>1. Unsubscribe(v) /\ breaks' \in 0 .. MaxBreaks
      BY <1>0, <1>9, FeedAssumption DEF Break
    <2> QED BY <1>7, <2>1
  <1> QED BY <1>1, <1>2, <1>3, <1>4, <1>5, <1>6, <1>8, <1>9 DEF View

\* Every step keeps the types.
LEMMA NextTypes == TypeInv /\ [Next]_vars => TypeInv'
  <1> SUFFICES ASSUME TypeInv, [Next]_vars PROVE TypeInv'
    OBVIOUS
  <1>1. CASE UNCHANGED vars
    BY <1>1 DEF vars, dataVars, cacheVars, chanVars, boundVars, TypeInv, TypeOK, WriterInv,
                ViewerInv
  <1>2. ASSUME NEW R \in SUBSET Tokens, rehydrateZens(R) PROVE TypeInv'
    <2>1. /\ rehydrated' \in BOOLEAN /\ zens' \subseteq Tokens /\ loose' \subseteq Keys
      BY <1>2 DEF rehydrateZens, TypeInv, TypeOK, Keys
    <2>2. /\ UNCHANGED <<stored, follows, cacheVars, chanVars, writer, viewer, panel>>
          /\ UNCHANGED boundVars
      BY <1>2 DEF rehydrateZens
    <2> QED BY <2>1, <2>2
            DEF cacheVars, chanVars, boundVars, TypeInv, TypeOK, WriterInv, ViewerInv
  <1> QED BY <1>1, <1>2, WriterStepTypes, ViewerStepTypes DEF Next

\* The types hold initially.
LEMMA InitTypes == Init => TypeInv
  <1> SUFFICES ASSUME Init PROVE TypeInv
    OBVIOUS
  <1>1. Blank \in Panels
    BY PostSetFacts DEF Blank, Panels
  <1>2. 0 \in 0 .. MaxSubs /\ 0 \in 0 .. MaxEdits /\ 0 \in 0 .. MaxBreaks /\ 0 <= QueueCap
    BY FeedAssumption
  <1>3. writer \in [Writers ->
           [pc : {"idle", "session", "invalidate", "dial", "copy", "send", "close"},
            batch : PostSets, diff : Diff \cup {Nil}, todo : Seq(Subs),
            tok : Tokens \cup {Nil}]]
    BY PostSetFacts DEF Init
  <1>4. viewer \in [Viewers ->
           [pc : {"off", "zens", "feed", "rebuild", "follows", "stream"},
            n : 0 .. MaxSubs, gen : Nat, snap : Panels]]
    BY <1>1, <1>2 DEF Init
  <1>5. queue \in [Subs -> Seq(Diff)] /\ \A s \in Subs : Len(queue[s]) <= QueueCap
    BY <1>2 DEF Init
  <1>6. /\ stored \in PostSets /\ follows \subseteq Targets /\ zens \subseteq Tokens
        /\ feedGen \in Nat /\ feedCache \in PostSets \cup {Nil} /\ subs \in Seq(Subs)
        /\ edits \in 0 .. MaxEdits /\ breaks \in 0 .. MaxBreaks
    BY PostSetFacts, <1>2 DEF Init
  <1>7. /\ done \in [Subs -> BOOLEAN] /\ panicked \in BOOLEAN
        /\ panel \in [Viewers -> Panels]
        /\ rehydrated \in BOOLEAN /\ loose \subseteq Keys
    BY <1>1 DEF Init
  <1>8. TypeOK
    BY <1>3, <1>4, <1>5, <1>6, <1>7 DEF TypeOK
  <1> QED BY <1>8 DEF Init, TypeInv, WriterInv, ViewerInv

\* Every variable keeps its type, and no subscriber's queue holds more than its
\* capacity (broadcast).
THEOREM FeedTypeCorrect == Spec => []TypeOK
  <1>1. TypeInv => TypeOK
    BY DEF TypeInv
  <1> QED BY <1>1, InitTypes, NextTypes, PTL DEF Spec

----------------------------------------------------------------------------
(* The feed cache.                                                         *)

\* What is published stays so until a writer adds to its batch; only
\* invalidateFeed publishes.
LEMMA WriterPublishes ==
    ASSUME TypeInv, NEW w \in Writers, Publish(w) \/ Change(w)
    PROVE  \/ invalidateFeed(w) /\ Published' \subseteq Published \cup writer[w].batch
           \/ Published' \subseteq Published /\ feedCache' = feedCache
  <1> DEFINE r == writer'[w]
  <1>0. /\ writer = [x \in Writers |-> writer[x]] /\ WriterInv(w)
        /\ writer[w] = [pc |-> writer[w].pc, batch |-> writer[w].batch,
                        diff |-> writer[w].diff, todo |-> writer[w].todo,
                        tok |-> writer[w].tok]
    BY DEF TypeInv, TypeOK
  <1>1. ASSUME NEW p \in Posts, AppendPost(w, p) \/ MergePost(w, p)
        PROVE  Published' \subseteq Published /\ feedCache' = feedCache
    <2>1. /\ stored' = stored \cup {p} /\ feedCache' = feedCache
          /\ \A x \in Writers \ {w} : writer'[x] = writer[x]
      BY <1>0, <1>1 DEF AppendPost, MergePost, cacheVars
    <2>2. writer'[w].batch = writer[w].batch \cup {p}
      <3>1. CASE AppendPost(w, p)
        BY <1>0, <3>1 DEF AppendPost, WriterInv
      <3>2. CASE MergePost(w, p)
        BY <1>0, <3>2 DEF MergePost
      <3> QED BY <1>1, <3>1, <3>2
    <2>3. Unpublished \cup {p} \subseteq Unpublished'
      BY <2>1, <2>2 DEF Unpublished
    <2> QED BY <2>1, <2>3 DEF Published, Steady
  <1>2. ASSUME stored' = stored, \A x \in Writers : writer'[x].batch = writer[x].batch
        PROVE  Published' = Published
    BY <1>2 DEF Published, Steady, Unpublished
  <1>3. ASSUME NEW t, NEW on, EditZen(w, t, on) \/ EditFollow(w, t, on),
               writer[w].pc \in {"idle", "dial"}
        PROVE  Published' \subseteq Published /\ feedCache' = feedCache
    <2>1. stored' = stored /\ feedCache' = feedCache /\ writer[w].batch = {}
      BY <1>0, <1>3 DEF EditZen, EditFollow, cacheVars, WriterInv
    <2>2. \E d : Emit(w, d)
      BY <1>3 DEF EditZen, EditFollow, Announce
    <2>3. writer'[w].batch = {} /\ \A x \in Writers \ {w} : writer'[x] = writer[x]
      BY <1>0, <2>2 DEF Emit
    <2>4. \A x \in Writers : writer'[x].batch = writer[x].batch
      BY <2>1, <2>3
    <2> QED BY <1>2, <2>1, <2>4
  <1>4. CASE CopySubs(w) \/ Send(w) \/ CloseDone(w) \/ EndBroadcast(w)
    <2>1. stored' = stored /\ feedCache' = feedCache
      BY <1>4 DEF CopySubs, Send, CloseDone, EndBroadcast, dataVars, cacheVars
    <2>2. \A x \in Writers : writer'[x].batch = writer[x].batch
      BY <1>0, <1>4 DEF CopySubs, Send, CloseDone, EndBroadcast
    <2> QED BY <1>2, <2>1, <2>2
  <1>5. CASE invalidateFeed(w)
    <2>1. stored' = stored /\ \A x \in Writers \ {w} : writer'[x] = writer[x]
      BY <1>0, <1>5 DEF invalidateFeed, Emit, dataVars
    <2>2. Unpublished \subseteq Unpublished' \cup writer[w].batch
      BY <2>1 DEF Unpublished
    <2> QED BY <1>5, <2>1, <2>2 DEF Published, Steady
  <1>6. ASSUME NEW t, upsertZen(w, t) \/ removeZen(w, t) \/ setZenStatus(w, t)
        PROVE  Published' \subseteq Published /\ feedCache' = feedCache
    BY <1>3, <1>6 DEF upsertZen, removeZen, setZenStatus, Begin
  <1>7. ASSUME NEW a, NEW on, EditFollow(w, a, on)
        PROVE  Published' \subseteq Published /\ feedCache' = feedCache
    BY <1>3, <1>7 DEF EditFollow, Begin
  <1>8. ASSUME NEW t, followByToken(w, t)
        PROVE  Published' \subseteq Published /\ feedCache' = feedCache
    <2>1. stored' = stored /\ feedCache' = feedCache
      BY <1>8 DEF followByToken, cacheVars
    <2>2. \A x \in Writers : writer'[x].batch = writer[x].batch
      BY <1>0, <1>8 DEF followByToken
    <2> QED BY <1>2, <2>1, <2>2
  <1>9. CASE DialDone(w)
    <2>1. CASE EditZen(w, writer[w].tok, TRUE)
      BY <1>3, <1>9, <2>1 DEF DialDone
    <2>2. CASE ~ EditZen(w, writer[w].tok, TRUE)
      <3>1. stored' = stored /\ feedCache' = feedCache
        BY <1>9, <2>2 DEF DialDone, dataVars, cacheVars
      <3>2. writer' = [writer EXCEPT ![w].pc = "idle", ![w].tok = Nil]
        BY <1>9, <2>2 DEF DialDone
      <3>3. \A x \in Writers : writer'[x].batch = writer[x].batch
        BY <1>0, <3>2
      <3> QED BY <1>2, <3>1, <3>3
    <2> QED BY <2>1, <2>2
  <1> QED BY <1>1, <1>4, <1>5, <1>6, <1>7, <1>8, <1>9 DEF Publish, Change

\* Viewers publish nothing.
LEMMA ViewerPublishes ==
    ASSUME NEW v \in Viewers, View(v) \/ Break(v)
    PROVE  /\ Published' = Published
           /\ UNCHANGED <<stored, follows, zens, loose, writer, done>>
           /\ ~ RebuildPosts(v) => feedCache' = feedCache
  <1>1. UNCHANGED <<stored, follows, zens, loose, writer, done>>
    BY DEF View, Break, Register, SnapZens, LookupPosts, RebuildPosts, SendSnapshot, Pump,
           Drop, Unsubscribe, dataVars, chanVars
  <1>2. ~ RebuildPosts(v) => feedCache' = feedCache
    BY DEF View, Break, Register, SnapZens, LookupPosts, SendSnapshot, Pump,
           Drop, Unsubscribe, cacheVars
  <1> QED BY <1>1, <1>2 DEF Published, Steady, Unpublished

\* Every step keeps the cache current.
LEMMA NextCache == TypeInv /\ CacheCurrent /\ [Next]_vars => CacheCurrent'
  <1> SUFFICES ASSUME TypeInv, CacheCurrent, [Next]_vars PROVE CacheCurrent'
    OBVIOUS
  <1>1. ASSUME NEW w \in Writers, Publish(w) \/ Change(w) PROVE CacheCurrent'
    <2>1. CASE invalidateFeed(w)
      BY <2>1 DEF invalidateFeed, CacheCurrent
    <2>2. CASE Published' \subseteq Published /\ feedCache' = feedCache
      BY <2>2 DEF CacheCurrent
    <2> QED BY <1>1, <2>1, <2>2, WriterPublishes
  <1>2. ASSUME NEW v \in Viewers, View(v) \/ Break(v) PROVE CacheCurrent'
    <2>1. Published' = Published
      BY <1>2, ViewerPublishes
    <2>2. CASE RebuildPosts(v)
      <3>1. feedCache' = AllPosts \/ (feedCache # Nil /\ feedCache' = feedCache)
        BY <2>2 DEF RebuildPosts
      <3>2. Published \subseteq AllPosts
        BY DEF Published, Steady, AllPosts
      <3> QED BY <2>1, <3>1, <3>2 DEF CacheCurrent
    <2> QED BY <1>2, <2>1, <2>2, ViewerPublishes DEF CacheCurrent
  <1>3. CASE UNCHANGED vars
    BY <1>3 DEF vars, dataVars, cacheVars, CacheCurrent, Published, Steady, Unpublished
  <1>4. ASSUME NEW R, rehydrateZens(R) PROVE CacheCurrent'
    BY <1>4 DEF rehydrateZens, cacheVars, CacheCurrent, Published, Steady, Unpublished
  <1> QED BY <1>1, <1>2, <1>3, <1>4 DEF Next

\* However many readers rebuild the cache and whatever is written meanwhile, a
\* cached timeline holds every post whose writer has passed invalidateFeed: the
\* rebuild of a reader that looked before an invalidation is never the one that
\* is kept without what was published by it (cachedPosts).
THEOREM CacheNeverBehind == Spec => []CacheCurrent
  <1>1. Init => TypeInv /\ CacheCurrent
    BY InitTypes DEF Init, CacheCurrent
  <1>2. (TypeInv /\ CacheCurrent) /\ [Next]_vars => (TypeInv /\ CacheCurrent)'
    BY NextTypes, NextCache
  <1> QED BY <1>1, <1>2, PTL DEF Spec

----------------------------------------------------------------------------
(* A page of a timeline.                                                   *)

\* A feed shows a post, or a page of newer ones in its place.
Shows(F, p) == p \in F \/ Cardinality({q \in F : q > p}) >= PageLimit

\* What a set shows, a larger one shows.
LEMMA ShowsMore ==
    ASSUME NEW F \in PostSets, NEW G \in PostSets, F \subseteq G, NEW p, Shows(F, p)
    PROVE  Shows(G, p)
  <1> DEFINE A == {q \in F : q > p}
             B == {q \in G : q > p}
  <1>1. A \subseteq B /\ IsFiniteSet(B)
    BY FS_Subset DEF PostSets
  <1>2. Cardinality(A) <= Cardinality(B) /\ Cardinality(A) \in Nat /\ Cardinality(B) \in Nat
    BY <1>1, FS_Subset, FS_CardinalityType
  <1>3. PageLimit \in Nat
    BY FeedAssumption
  <1>4. Cardinality(A) >= PageLimit => Cardinality(B) >= PageLimit
    <2> HIDE DEF A, B
    <2> QED BY <1>2, <1>3
  <1> QED BY <1>4 DEF Shows

\* The first page of a timeline shows each of its posts.
LEMMA PageShows ==
    ASSUME NEW S \in PostSets, NEW p \in S
    PROVE  Shows(Page(S), p)
  <1> DEFINE Above(m) == {q \in S : q > m}
             A == Above(p)
             B == {q \in Page(S) : q > p}
  <1>1. S \subseteq Nat /\ IsFiniteSet(S) /\ PageLimit \in Nat
    BY FeedAssumption DEF PostSets
  <1>2. \A m : IsFiniteSet(Above(m)) /\ Cardinality(Above(m)) \in Nat
    BY <1>1, FS_Subset, FS_CardinalityType
  <1>3. \A m \in S : m \in Page(S) <=> Cardinality(Above(m)) < PageLimit
    BY DEF Page
  <1>4. B \subseteq A /\ IsFiniteSet(B) /\ Cardinality(B) \in Nat
    <2>1. B \subseteq A
      BY DEF Page
    <2> QED BY <1>2, <2>1, FS_Subset, FS_CardinalityType
  <1>5. SUFFICES ASSUME Cardinality(A) >= PageLimit, ~ (Cardinality(B) >= PageLimit)
                 PROVE  FALSE
    <2>1. p \in Page(S) \/ ~ (Cardinality(A) < PageLimit)
      BY <1>3
    <2>2. Cardinality(A) < PageLimit \/ Cardinality(A) >= PageLimit
      BY <1>1, <1>2
    <2>3. Cardinality(B) >= PageLimit => Shows(Page(S), p)
      BY DEF Shows
    <2> QED BY <1>5, <2>1, <2>2, <2>3 DEF Shows
  <1>6. A \ B # {}
    <2>1. A # B
      <3> HIDE DEF A, B
      <3> QED BY <1>1, <1>4, <1>5
    <2> QED BY <1>4, <2>1
  <1> DEFINE N == {Cardinality(Above(m)) : m \in A \ B}
  <1>7. Min(N) \in N /\ \A n \in N : Min(N) <= n
    <2>1. N \subseteq Nat /\ N # {}
      BY <1>2, <1>6
    <2> HIDE DEF N
    <2> QED BY <2>1, FirstPlace
  <1>8. PICK m \in A \ B : \A x \in A \ B : Cardinality(Above(m)) <= Cardinality(Above(x))
    <2>1. PICK m \in A \ B : Min(N) = Cardinality(Above(m))
      BY <1>7
    <2>2. \A x \in A \ B : Cardinality(Above(x)) \in N
      OBVIOUS
    <2> HIDE DEF N
    <2>3. \A x \in A \ B : Cardinality(Above(m)) <= Cardinality(Above(x))
      BY <1>7, <2>1, <2>2
    <2> QED BY <2>3
  <1>9. ASSUME NEW x \in Above(m) PROVE x \in B
    <2>1. x \in A /\ m \in S /\ x \in S /\ p \in Nat /\ m \in Nat /\ x \in Nat
      <3>1. m > p /\ x > m /\ m \in S /\ x \in S
        <4>1. m \in A
          BY <1>8
        <4> QED BY <1>9, <4>1
      <3> QED BY <1>1, <3>1
    <2>2. Above(x) \subseteq Above(m) /\ x \notin Above(x)
      <3>1. x > m /\ ~ (x > x) /\ \A y \in S : y > x => y > m
        BY <1>1, <1>9, <2>1
      <3> QED BY <3>1
    <2>3. /\ Cardinality(Above(x)) <= Cardinality(Above(m))
          /\ Cardinality(Above(x)) # Cardinality(Above(m))
      BY <1>2, <1>9, <2>2, FS_Subset
    <2>4. ~ (Cardinality(Above(m)) <= Cardinality(Above(x)))
      <3>1. Cardinality(Above(x)) \in Nat /\ Cardinality(Above(m)) \in Nat
        BY <1>2
      <3> HIDE DEF Above
      <3> QED BY <2>3, <3>1
    <2> QED BY <1>8, <2>1, <2>4
  <1>10. Cardinality(Above(m)) <= Cardinality(B)
    BY <1>4, <1>9, FS_Subset
  <1>11. Cardinality(Above(m)) < PageLimit
    <2>1. Cardinality(Above(m)) \in Nat
      BY <1>2
    <2> HIDE DEF Above, B
    <2> QED BY <1>1, <1>4, <1>5, <1>10, <2>1
  <1> QED BY <1>3, <1>8, <1>11

----------------------------------------------------------------------------
(* Subscriptions, and what is on its way to them.                          *)

\* The diff of writer w is still to reach subscriber s.
Coming(w, s) ==
    /\ writer[w].diff # Nil
    /\ writer[w].pc = "copy" \/ s \in Range(writer[w].todo)

\* A connected viewer is in d.subs.  A subscription that is still to come is in
\* no list, and nothing is queued for it.
SubsInv ==
    /\ \A v \in Viewers : viewer[v].pc # "off" => Sub(v) \in Range(subs)
    /\ \A v \in Viewers : \A m \in 1 .. MaxSubs : m > viewer[v].n =>
         /\ queue[<<v, m>>] = <<>> /\ <<v, m>> \notin Range(subs)
         /\ \A w \in Writers : <<v, m>> \notin Range(writer[w].todo)

\* A writer's step changes nothing of what another writer still has to send.
Same(w, s) ==
    /\ Coming(w, s)' = Coming(w, s)
    /\ Coming(w, s) => writer'[w].diff = writer[w].diff

\* What a writer's step is for one subscriber: nothing, a new diff, or a diff
\* put into its queue.
Nothing(w, s) == Same(w, s) /\ UNCHANGED queue

NewDiff(w, s) ==
    /\ ~ Coming(w, s) /\ Coming(w, s)' /\ UNCHANGED queue
    /\ \E d \in Diff : Emit(w, d)

Sent(w, s) ==
    /\ Coming(w, s) /\ writer'[w].diff = writer[w].diff
    /\ queue' = [queue EXCEPT ![s] = Append(@, writer[w].diff)]

Elsewhere(w, s) ==
    /\ Same(w, s)
    /\ \E x \in Subs \ {s} : queue' = [queue EXCEPT ![x] = Append(@, writer[w].diff)]

\* A diff handed to broadcast is new for every subscriber.
LEMMA EmitIsNew ==
    ASSUME TypeInv, NEW w \in Writers, NEW s \in Range(subs), NEW d \in Diff, Emit(w, d),
           writer[w].pc \in {"idle", "session", "invalidate", "dial"}, UNCHANGED queue
    PROVE  NewDiff(w, s)
  <1>1. writer[w].diff = Nil
    BY DEF TypeInv, WriterInv
  <1>2. writer'[w].diff = d /\ writer'[w].pc = "copy" /\ d # Nil
    BY FeedAssumption DEF Emit, TypeInv, TypeOK
  <1> QED BY <1>1, <1>2 DEF NewDiff, Coming

\* A step that has no diff: a token is recorded, a dial ends and the zen is gone.
Quiet(w) ==
    /\ writer'[w].diff = writer[w].diff /\ writer'[w].todo = writer[w].todo
    /\ writer'[w].pc # "copy" /\ writer[w].pc # "copy"
    /\ \A x \in Writers \ {w} : writer'[x] = writer[x]
    /\ \E T : zens' = zens \cup T /\ loose' = loose \cup {"zens"} \X (T \ zens)
    /\ UNCHANGED <<follows, chanVars, viewer, panel>>

\* The kinds of step of a writer.
LEMMA WriterKinds ==
    ASSUME TypeInv, NEW w \in Writers, Publish(w) \/ Change(w)
    PROVE  \/ \E p \in Posts : AppendPost(w, p) \/ MergePost(w, p)
           \/ \E t \in Tokens, on \in BOOLEAN :
                EditZen(w, t, on) /\ writer[w].pc \in {"idle", "dial"}
           \/ \E a \in Targets, on \in BOOLEAN :
                EditFollow(w, a, on) /\ writer[w].pc = "idle"
           \/ Quiet(w)
           \/ invalidateFeed(w) \/ CopySubs(w) \/ Send(w) \/ CloseDone(w) \/ EndBroadcast(w)
  <1>0. /\ writer = [x \in Writers |-> writer[x]] /\ WriterInv(w)
        /\ writer[w] = [pc |-> writer[w].pc, batch |-> writer[w].batch,
                        diff |-> writer[w].diff, todo |-> writer[w].todo,
                        tok |-> writer[w].tok]
    BY DEF TypeInv, TypeOK
  <1>1. ASSUME NEW t \in Tokens, upsertZen(w, t) \/ removeZen(w, t) \/ setZenStatus(w, t)
        PROVE  \E on \in BOOLEAN : EditZen(w, t, on) /\ writer[w].pc \in {"idle", "dial"}
    BY <1>1 DEF upsertZen, removeZen, setZenStatus, Begin
  <1>2. ASSUME NEW t \in Tokens, followByToken(w, t) PROVE Quiet(w)
    <2>1. /\ writer[w].pc = "idle" /\ zens' = zens \cup {t}
          /\ loose' = loose \cup {"zens"} \X ({t} \ zens)
          /\ UNCHANGED <<follows, chanVars, viewer, panel>>
      BY <1>2 DEF followByToken, Begin
    <2>2. /\ writer'[w].diff = writer[w].diff /\ writer'[w].todo = writer[w].todo
          /\ writer'[w].pc \in {"idle", "dial"}
          /\ \A x \in Writers \ {w} : writer'[x] = writer[x]
      BY <1>0, <1>2 DEF followByToken, Begin
    <2> QED BY <2>1, <2>2 DEF Quiet
  <1>3. CASE DialDone(w)
    <2>1. writer[w].pc = "dial" /\ writer[w].tok \in Tokens
      BY <1>0, <1>3 DEF DialDone, WriterInv
    <2>2. CASE EditZen(w, writer[w].tok, TRUE)
      BY <2>1, <2>2
    <2>3. CASE /\ writer' = [writer EXCEPT ![w].pc = "idle", ![w].tok = Nil]
               /\ UNCHANGED <<dataVars, cacheVars, chanVars, viewer, panel, breaks>>
      <3>1. /\ writer'[w].diff = writer[w].diff /\ writer'[w].todo = writer[w].todo
            /\ writer'[w].pc = "idle"
            /\ \A x \in Writers \ {w} : writer'[x] = writer[x]
        BY <1>0, <2>3
      <3>2. zens' = zens \cup {} /\ loose' = loose \cup {"zens"} \X ({} \ zens)
        BY <2>3 DEF dataVars
      <3>3. UNCHANGED <<follows, chanVars, viewer, panel>>
        BY <2>3 DEF dataVars
      <3> QED BY <2>1, <3>1, <3>2, <3>3 DEF Quiet
    <2> QED BY <1>3, <2>2, <2>3 DEF DialDone
  <1>4. ASSUME NEW a \in Targets, NEW on \in BOOLEAN, EditFollow(w, a, on)
        PROVE  writer[w].pc = "idle"
    BY <1>4 DEF EditFollow, Begin
  <1>5. CASE Publish(w)
    BY <1>3, <1>5 DEF Publish
  <1>6. CASE Change(w)
    BY <1>1, <1>2, <1>4, <1>6 DEF Change
  <1> QED BY <1>5, <1>6

\* A writer's step leaves the other writers and the viewers alone.
LEMMA WriterAlone ==
    ASSUME TypeInv, NEW w \in Writers, Publish(w) \/ Change(w)
    PROVE  /\ UNCHANGED <<viewer, subs, panel>>
           /\ \A x \in Writers \ {w} : writer'[x] = writer[x]
           /\ ~ CloseDone(w) => done' = done
  <1>0. writer = [x \in Writers |-> writer[x]]
    BY DEF TypeInv, TypeOK
  <1>1. ASSUME NEW t, NEW on, EditZen(w, t, on) \/ EditFollow(w, t, on)
        PROVE  /\ UNCHANGED <<viewer, subs, panel, done>>
               /\ \A x \in Writers \ {w} : writer'[x] = writer[x]
    BY <1>0, <1>1 DEF EditZen, EditFollow, Announce, Emit, chanVars
  <1>2. CASE Quiet(w)
    BY <1>2 DEF Quiet, chanVars
  <1>3. ASSUME NEW p, AppendPost(w, p) \/ MergePost(w, p)
        PROVE  /\ UNCHANGED <<viewer, subs, panel, done>>
               /\ \A x \in Writers \ {w} : writer'[x] = writer[x]
    BY <1>0, <1>3 DEF AppendPost, MergePost, chanVars
  <1>4. CASE invalidateFeed(w) \/ CopySubs(w) \/ Send(w) \/ CloseDone(w) \/ EndBroadcast(w)
    BY <1>0, <1>4 DEF invalidateFeed, CopySubs, Send, CloseDone, EndBroadcast, Emit, chanVars
  <1> QED BY <1>1, <1>2, <1>3, <1>4, WriterKinds

\* A step of a writer is, for a given subscription, one of these four.
LEMMA WriterFor ==
    ASSUME TypeInv, NEW w \in Writers, Publish(w) \/ Change(w),
           NEW s \in Range(subs), ~ done'[s]
    PROVE  /\ ~ done[s] /\ \A x \in Writers \ {w} : Same(x, s)
           /\ Nothing(w, s) \/ NewDiff(w, s) \/ Sent(w, s) \/ Elsewhere(w, s)
  <1>0. /\ writer = [x \in Writers |-> writer[x]] /\ WriterInv(w)
        /\ writer[w] = [pc |-> writer[w].pc, batch |-> writer[w].batch,
                        diff |-> writer[w].diff, todo |-> writer[w].todo,
                        tok |-> writer[w].tok]
        /\ writer[w].todo \in Seq(Subs) /\ subs \in Seq(Subs) /\ done \in [Subs -> BOOLEAN]
        /\ writer[w].batch \in PostSets
    BY DEF TypeInv, TypeOK
  <1>1. s \in Subs
    BY <1>0, RangeOfSeq
  <1>2. \A x \in Writers \ {w} : writer'[x] = writer[x]
    BY WriterAlone
  <1>3. \A x \in Writers \ {w} : Same(x, s)
    BY <1>2 DEF Same, Coming
  <1>4. ~ done[s]
    <2>1. done' = done \/ \E x \in Subs : done' = [done EXCEPT ![x] = TRUE]
      <3>1. CASE CloseDone(w)
        <4>1. Head(writer[w].todo) \in Subs
          BY <1>0, <3>1, TailRange DEF CloseDone, WriterInv
        <4> QED BY <3>1, <4>1 DEF CloseDone
      <3> QED BY <3>1, WriterAlone
    <2> QED BY <1>0, <1>1, <2>1
  <1>5. ASSUME NEW p \in Posts, AppendPost(w, p) \/ MergePost(w, p) PROVE Nothing(w, s)
    <2>1. writer[w].diff = Nil /\ writer'[w].diff = writer[w].diff
      BY <1>0, <1>5 DEF AppendPost, MergePost, WriterInv
    <2>2. UNCHANGED queue
      BY <1>5 DEF AppendPost, MergePost, chanVars
    <2> QED BY <2>1, <2>2 DEF Nothing, Same, Coming
  <1>6. CASE invalidateFeed(w)
    <2>1. [panel |-> "feed", add |-> writer[w].batch] \in Diff
      BY <1>0 DEF Diff
    <2> QED BY <1>3, <1>4, <1>6, <2>1, EmitIsNew DEF invalidateFeed, chanVars
  <1>7. ASSUME NEW t \in Tokens, NEW on \in BOOLEAN, EditZen(w, t, on),
               writer[w].pc \in {"idle", "dial"}
        PROVE  NewDiff(w, s)
    <2>1. [panel |-> "zens", key |-> t, on |-> on] \in Diff
      BY DEF Diff
    <2> QED BY <1>7, <2>1, EmitIsNew DEF EditZen, Announce, chanVars
  <1>8. ASSUME NEW a \in Targets, NEW on \in BOOLEAN, EditFollow(w, a, on),
               writer[w].pc = "idle"
        PROVE NewDiff(w, s)
    <2>1. [panel |-> "follows", key |-> a, on |-> on] \in Diff
      BY DEF Diff
    <2> QED BY <1>8, <2>1, EmitIsNew DEF EditFollow, Announce, chanVars
  <1>9. CASE CopySubs(w)
    <2>1. /\ writer[w].pc = "copy" /\ writer'[w].todo = subs
          /\ writer'[w].diff = writer[w].diff
          /\ UNCHANGED queue
      BY <1>0, <1>9 DEF CopySubs, chanVars, dataVars
    <2>2. writer[w].diff # Nil
      BY <2>1, Parts
    <2>3. Coming(w, s) /\ Coming(w, s)'
      BY <2>1, <2>2 DEF Coming
    <2> QED BY <1>3, <1>4, <2>1, <2>3 DEF Nothing, Same
  <1>10. CASE Send(w)
    <2> DEFINE h == Head(writer[w].todo)
    <2>1. /\ writer[w].pc = "send" /\ writer[w].todo # <<>>
          /\ writer'[w].diff = writer[w].diff /\ writer'[w].pc \in {"send", "close"}
          /\ UNCHANGED done
      BY <1>0, <1>10 DEF Send, dataVars
    <2>2. /\ h \in Subs /\ Range(writer[w].todo) = {h} \cup Range(Tail(writer[w].todo))
          /\ writer[w].diff # Nil
      BY <1>0, <2>1, TailRange, Parts
    <2>3. CASE /\ queue' = [queue EXCEPT ![h] = Append(@, writer[w].diff)]
               /\ writer'[w].todo = Tail(writer[w].todo)
      <3>1. CASE s = h
        BY <1>3, <1>4, <2>1, <2>2, <2>3, <3>1 DEF Sent, Coming
      <3>2. CASE s # h
        <4>1. Coming(w, s)' = Coming(w, s)
          BY <2>1, <2>2, <2>3, <3>2 DEF Coming
        <4>2. \E x \in Subs \ {s} : queue' = [queue EXCEPT ![x] = Append(@, writer[w].diff)]
          BY <2>2, <2>3, <3>2
        <4> QED BY <1>3, <1>4, <2>1, <4>1, <4>2 DEF Elsewhere, Same
      <3> QED BY <3>1, <3>2
    <2>4. CASE /\ queue' = queue /\ done[h]
               /\ writer'[w].todo = Tail(writer[w].todo)
      <3>1. s # h
        BY <1>4, <2>4
      <3>2. Coming(w, s)' = Coming(w, s)
        BY <2>1, <2>2, <2>4, <3>1 DEF Coming
      <3> QED BY <1>3, <1>4, <2>1, <2>4, <3>2 DEF Nothing, Same
    <2>5. CASE queue' = queue /\ writer'[w].todo = writer[w].todo
      <3>1. Coming(w, s)' = Coming(w, s)
        BY <2>1, <2>5 DEF Coming
      <3> QED BY <1>3, <1>4, <2>1, <2>5, <3>1 DEF Nothing, Same
    <2>6. \/ /\ queue' = [queue EXCEPT ![h] = Append(@, writer[w].diff)]
             /\ writer'[w].todo = Tail(writer[w].todo)
          \/ queue' = queue /\ done[h] /\ writer'[w].todo = Tail(writer[w].todo)
          \/ queue' = queue /\ writer'[w].todo = writer[w].todo
      BY <1>0, <1>10 DEF Send
    <2> QED BY <2>3, <2>4, <2>5, <2>6
  <1>11. CASE CloseDone(w)
    <2> DEFINE h == Head(writer[w].todo)
    <2>1. /\ writer[w].pc = "close" /\ writer[w].todo # <<>>
          /\ writer'[w].diff = writer[w].diff /\ writer'[w].pc = "send"
          /\ writer'[w].todo = Tail(writer[w].todo) /\ done' = [done EXCEPT ![h] = TRUE]
          /\ UNCHANGED queue
      BY <1>0, <1>11 DEF CloseDone, dataVars, WriterInv
    <2>2. h \in Subs /\ Range(writer[w].todo) = {h} \cup Range(Tail(writer[w].todo))
      BY <1>0, <2>1, TailRange
    <2>3. s # h
      BY <1>0, <2>1, <2>2
    <2>4. Coming(w, s)' = Coming(w, s)
      BY <2>1, <2>2, <2>3 DEF Coming
    <2> QED BY <1>3, <1>4, <2>1, <2>4 DEF Nothing, Same
  <1>12. CASE EndBroadcast(w)
    <2>1. /\ writer[w].pc = "send" /\ writer[w].todo = <<>> /\ writer'[w].diff = Nil
          /\ UNCHANGED queue
      BY <1>0, <1>12 DEF EndBroadcast, dataVars, chanVars
    <2>2. Range(writer[w].todo) = {}
      BY <2>1 DEF Range
    <2> QED BY <1>3, <1>4, <2>1, <2>2 DEF Nothing, Same, Coming
  <1>13. CASE Quiet(w)
    BY <1>3, <1>4, <1>13 DEF Quiet, chanVars, Nothing, Same, Coming
  <1> QED
    BY <1>3, <1>4, <1>5, <1>6, <1>7, <1>8, <1>9, <1>10, <1>11, <1>12, <1>13, WriterKinds

\* What a writer's step is for the subscriptions.
LEMMA WriterTodo ==
    ASSUME TypeInv, NEW w \in Writers, Publish(w) \/ Change(w)
    PROVE  /\ UNCHANGED <<viewer, subs, panel>>
           /\ \A x \in Writers \ {w} : writer'[x] = writer[x]
           /\ Range(writer'[w].todo) \subseteq Range(writer[w].todo) \cup Range(subs)
           /\ \/ queue' = queue
              \/ \E h \in Range(writer[w].todo) \cap Subs : \E q : queue' = [queue EXCEPT ![h] = q]
  <1>0. /\ writer = [x \in Writers |-> writer[x]] /\ WriterInv(w)
        /\ writer[w] = [pc |-> writer[w].pc, batch |-> writer[w].batch,
                        diff |-> writer[w].diff, todo |-> writer[w].todo,
                        tok |-> writer[w].tok]
        /\ writer[w].todo \in Seq(Subs) /\ subs \in Seq(Subs)
    BY DEF TypeInv, TypeOK
  <1>1. UNCHANGED <<viewer, subs, panel>>
    BY WriterAlone
  <1>2. \A x \in Writers \ {w} : writer'[x] = writer[x]
    BY WriterAlone
  <1>3. Range(<<>>) = {}
    BY DEF Range
  <1>4. CASE Send(w) \/ CloseDone(w)
    <2>1. writer[w].todo # <<>>
      BY <1>0, <1>4 DEF Send, CloseDone, WriterInv
    <2>2. /\ Head(writer[w].todo) \in Subs
          /\ Range(writer[w].todo) = {Head(writer[w].todo)} \cup Range(Tail(writer[w].todo))
      BY <1>0, <2>1, TailRange
    <2>3. writer'[w].todo \in {writer[w].todo, Tail(writer[w].todo)}
      BY <1>0, <1>4 DEF Send, CloseDone
    <2>4. \/ queue' = queue
          \/ \E q : queue' = [queue EXCEPT ![Head(writer[w].todo)] = q]
      BY <1>4 DEF Send, CloseDone
    <2> QED BY <1>1, <1>2, <2>2, <2>3, <2>4
  <1>5. ASSUME ~ (Send(w) \/ CloseDone(w))
        PROVE  queue' = queue /\ writer'[w].todo \in {writer[w].todo, subs, <<>>}
    <2>1. ASSUME NEW d, Emit(w, d), UNCHANGED chanVars
          PROVE  queue' = queue /\ writer'[w].todo = <<>>
      BY <1>0, <2>1 DEF Emit, chanVars
    <2>2. ASSUME NEW p, AppendPost(w, p) \/ MergePost(w, p)
          PROVE  queue' = queue /\ writer'[w].todo = writer[w].todo
      BY <1>0, <2>2 DEF AppendPost, MergePost, chanVars
    <2>3. CASE CopySubs(w) \/ EndBroadcast(w)
      BY <1>0, <2>3 DEF CopySubs, EndBroadcast, chanVars
    <2>4. CASE Quiet(w)
      BY <2>4 DEF Quiet, chanVars
    <2>5. CASE invalidateFeed(w)
      BY <2>1, <2>5 DEF invalidateFeed
    <2>6. ASSUME NEW t, NEW on, EditZen(w, t, on) \/ EditFollow(w, t, on)
          PROVE  queue' = queue /\ writer'[w].todo = <<>>
      BY <2>1, <2>6 DEF EditZen, EditFollow, Announce
    <2> QED BY <1>5, <2>2, <2>3, <2>4, <2>5, <2>6, WriterKinds
  <1> QED BY <1>1, <1>2, <1>3, <1>4, <1>5

\* What a viewer's step is for the subscriptions of the others.
LEMMA ViewerAlone ==
    ASSUME TypeInv, NEW v \in Viewers, View(v) \/ Break(v)
    PROVE  /\ UNCHANGED <<writer, done, follows, zens, loose>>
           /\ \A u \in Viewers \ {v} :
                /\ viewer'[u] = viewer[u] /\ panel'[u] = panel[u]
                /\ \A m \in 1 .. MaxSubs : queue'[<<u, m>>] = queue[<<u, m>>]
  <1>0. /\ viewer = [x \in Viewers |-> viewer[x]] /\ panel = [x \in Viewers |-> panel[x]]
        /\ queue = [x \in Subs |-> queue[x]]
    BY DEF TypeInv, TypeOK
  <1>1. \A u \in Viewers \ {v} : viewer'[u] = viewer[u]
    BY <1>0 DEF View, Break, Register, SnapZens, LookupPosts, RebuildPosts, SendSnapshot,
                Pump, Drop, Unsubscribe
  <1>2. \A u \in Viewers \ {v} : panel'[u] = panel[u]
    BY <1>0 DEF View, Break, Register, SnapZens, LookupPosts, RebuildPosts, SendSnapshot,
                Pump, Drop, Unsubscribe
  <1>3. queue' = queue \/ queue' = [queue EXCEPT ![<<v, viewer[v].n>>] = Tail(@)]
    BY DEF View, Break, Register, SnapZens, LookupPosts, RebuildPosts, SendSnapshot,
           Pump, Drop, Unsubscribe, chanVars, Sub
  <1>4. \A u \in Viewers \ {v} : \A m \in 1 .. MaxSubs :
            /\ <<u, m>> \in Subs /\ <<u, m>> # <<v, viewer[v].n>>
    BY DEF Subs
  <1>5. \A u \in Viewers \ {v} : \A m \in 1 .. MaxSubs : queue'[<<u, m>>] = queue[<<u, m>>]
    BY <1>0, <1>3, <1>4
  <1> QED BY <1>1, <1>2, <1>5, ViewerPublishes

\* Every step keeps what is known of the subscriptions.
LEMMA NextSubs == TypeInv /\ SubsInv /\ [Next]_vars => SubsInv'
  <1> SUFFICES ASSUME TypeInv, SubsInv, [Next]_vars PROVE SubsInv'
    OBVIOUS
  <1>0. /\ viewer = [x \in Viewers |-> viewer[x]] /\ subs \in Seq(Subs)
        /\ \A v \in Viewers : viewer[v] = [pc |-> viewer[v].pc, n |-> viewer[v].n,
                                           gen |-> viewer[v].gen, snap |-> viewer[v].snap]
        /\ \A v \in Viewers : viewer[v].n \in 0 .. MaxSubs
        /\ queue = [x \in Subs |-> queue[x]] /\ MaxSubs \in Nat
    BY FeedAssumption DEF TypeInv, TypeOK
  <1>1. ASSUME NEW w \in Writers, Publish(w) \/ Change(w) PROVE SubsInv'
    <2>1. /\ UNCHANGED <<viewer, subs>> /\ \A x \in Writers \ {w} : writer'[x] = writer[x]
          /\ Range(writer'[w].todo) \subseteq Range(writer[w].todo) \cup Range(subs)
          /\ \/ queue' = queue
             \/ \E h \in Range(writer[w].todo) \cap Subs : \E q : queue' = [queue EXCEPT ![h] = q]
      BY <1>1, WriterTodo
    <2>2. ASSUME NEW v \in Viewers, NEW m \in 1 .. MaxSubs, m > viewer[v].n
          PROVE  /\ queue'[<<v, m>>] = <<>> /\ <<v, m>> \notin Range(subs')
                 /\ \A x \in Writers : <<v, m>> \notin Range(writer'[x].todo)
      <3>1. /\ queue[<<v, m>>] = <<>> /\ <<v, m>> \notin Range(subs)
            /\ \A x \in Writers : <<v, m>> \notin Range(writer[x].todo)
        BY <2>2 DEF SubsInv
      <3>2. <<v, m>> \in Subs
        BY DEF Subs
      <3>3. queue'[<<v, m>>] = <<>>
        BY <1>0, <2>1, <3>1, <3>2
      <3> QED BY <2>1, <3>1, <3>3
    <2>3. \A v \in Viewers : viewer'[v].pc # "off" => Sub(v)' \in Range(subs')
      BY <2>1 DEF SubsInv, Sub
    <2> QED BY <2>1, <2>2, <2>3 DEF SubsInv
  <1>2. ASSUME NEW v \in Viewers, View(v) \/ Break(v) PROVE SubsInv'
    <2>1. /\ writer' = writer
          /\ \A u \in Viewers \ {v} : /\ viewer'[u] = viewer[u]
               /\ \A m \in 1 .. MaxSubs : queue'[<<u, m>>] = queue[<<u, m>>]
      BY <1>2, ViewerAlone
    <2>2. CASE Register(v)
      <3> DEFINE s == <<v, viewer[v].n + 1>>
      <3>1. /\ viewer'[v].n = viewer[v].n + 1 /\ subs' = Append(subs, s) /\ queue' = queue
            /\ viewer[v].n + 1 \in 1 .. MaxSubs
        <4>1. /\ viewer'[v].n = viewer[v].n + 1 /\ subs' = Append(subs, s)
              /\ queue' = queue /\ viewer[v].n < MaxSubs
          <5>1. /\ viewer' = [viewer EXCEPT ![v].pc = "zens", ![v].n = viewer[v].n + 1]
                /\ subs' = Append(subs, s) /\ queue' = queue /\ viewer[v].n < MaxSubs
            BY <2>2 DEF Register
          <5>2. ASSUME NEW m, viewer' = [viewer EXCEPT ![v].pc = "zens", ![v].n = m]
                PROVE  viewer'[v].n = m
            BY <5>2 DEF TypeInv, TypeOK
          <5> QED BY <5>1, <5>2
        <4>2. viewer[v].n \in Nat
          BY <1>0
        <4> QED BY <1>0, <4>1, <4>2
      <3>2. Range(subs') = Range(subs) \cup {s}
        <4>1. s \in Subs
          BY <3>1 DEF Subs
        <4> QED BY <1>0, <3>1, <4>1, AppendRange
      <3>3. Sub(v)' = s
        BY <3>1 DEF Sub
      <3>4. \A u \in Viewers \ {v} : Sub(u)' = Sub(u)
        BY <2>1 DEF Sub
      <3>5. \A u \in Viewers : viewer'[u].pc # "off" => Sub(u)' \in Range(subs')
        BY <2>1, <3>2, <3>3, <3>4 DEF SubsInv
      <3>6. ASSUME NEW u \in Viewers, NEW m \in 1 .. MaxSubs, m > viewer'[u].n
            PROVE  m > viewer[u].n /\ <<u, m>> # s
        <4>1. CASE u = v
          BY <1>0, <3>1, <3>6, <4>1
        <4>2. CASE u # v
          BY <2>1, <3>6, <4>2
        <4> QED BY <4>1, <4>2
      <3> HIDE DEF s
      <3> QED BY <2>1, <3>1, <3>2, <3>5, <3>6 DEF SubsInv
    <2>3. ASSUME viewer'[v].n = viewer[v].n, Range(subs') \subseteq Range(subs),
                 queue' = queue \/ queue'[Sub(v)] = Tail(queue[Sub(v)]),
                 \A m \in 1 .. MaxSubs : m > viewer[v].n => queue'[<<v, m>>] = queue[<<v, m>>],
                 viewer'[v].pc # "off" => Sub(v) \in Range(subs'),
                 \A u \in Viewers \ {v} : Sub(u) \in Range(subs) => Sub(u) \in Range(subs')
          PROVE  SubsInv'
      <3>1. \A u \in Viewers : Sub(u)' = Sub(u) /\ viewer'[u].n = viewer[u].n
        BY <2>1, <2>3 DEF Sub
      <3>2. \A u \in Viewers : viewer'[u].pc # "off" => Sub(u)' \in Range(subs')
        BY <2>1, <2>3, <3>1 DEF SubsInv
      <3>3. \A u \in Viewers : \A m \in 1 .. MaxSubs : m > viewer[u].n =>
                queue'[<<u, m>>] = queue[<<u, m>>]
        BY <2>1, <2>3
      <3> QED BY <2>1, <2>3, <3>1, <3>2, <3>3 DEF SubsInv
    <2>4. CASE SnapZens(v) \/ LookupPosts(v) \/ RebuildPosts(v) \/ SendSnapshot(v)
      <3>1. /\ viewer'[v].n = viewer[v].n /\ viewer[v].pc # "off"
            /\ UNCHANGED <<subs, queue>>
        BY <1>0, <2>4
        DEF SnapZens, LookupPosts, RebuildPosts, SendSnapshot, chanVars
      <3> QED BY <2>3, <3>1 DEF SubsInv
    <2>5. CASE Pump(v)
      <3>1. /\ viewer' = viewer /\ viewer[v].pc # "off" /\ subs' = subs
            /\ queue' = [queue EXCEPT ![Sub(v)] = Tail(@)]
        BY <2>5 DEF Pump
      <3>2. Sub(v) \in Subs
        BY <3>1, Parts
      <3>3. \A m \in 1 .. MaxSubs : m > viewer[v].n =>
              <<v, m>> # Sub(v) /\ <<v, m>> \in Subs
        BY <1>0 DEF Sub, Subs
      <3>4. queue'[Sub(v)] = Tail(queue[Sub(v)])
        BY <1>0, <3>1, <3>2
      <3>5. \A m \in 1 .. MaxSubs : m > viewer[v].n => queue'[<<v, m>>] = queue[<<v, m>>]
        BY <1>0, <3>1, <3>3
      <3> QED BY <2>3, <3>1, <3>4, <3>5 DEF SubsInv
    <2>6. CASE Drop(v) \/ Break(v)
      <3>1. /\ viewer'[v].n = viewer[v].n /\ viewer'[v].pc = "off" /\ queue' = queue
            /\ subs' = RemoveFirst(subs, Sub(v))
        BY <1>0, <2>6 DEF Drop, Break, Unsubscribe
      <3>2. /\ Range(subs') \subseteq Range(subs)
            /\ \A x \in Range(subs) : x # Sub(v) => x \in Range(subs')
        BY <1>0, <3>1, OneRemoved
      <3>3. \A u \in Viewers \ {v} : Sub(u) # Sub(v)
        BY DEF Sub
      <3> QED BY <2>3, <3>1, <3>2, <3>3
    <2> QED BY <1>2, <2>2, <2>4, <2>5, <2>6 DEF View
  <1>3. CASE UNCHANGED vars
    BY <1>3 DEF vars, chanVars, SubsInv, Sub
  <1>4. ASSUME NEW R, rehydrateZens(R) PROVE SubsInv'
    BY <1>4 DEF rehydrateZens, chanVars, SubsInv, Sub
  <1> QED BY <1>1, <1>2, <1>3, <1>4 DEF Next

\* It holds initially.
LEMMA InitSubs == Init => SubsInv
  <1> SUFFICES ASSUME Init PROVE SubsInv
    OBVIOUS
  <1>1. Range(<<>>) = {}
    BY DEF Range
  <1>2. \A v \in Viewers : \A m \in 1 .. MaxSubs : <<v, m>> \in Subs
    BY DEF Subs
  <1> QED BY <1>1, <1>2 DEF Init, SubsInv

----------------------------------------------------------------------------
(* No post falls between the snapshot and the diffs.                       *)

\* The feed that viewer v shows, or is about to be sent.
Feed(v) == IF viewer[v].pc = "stream" THEN panel[v].feed ELSE viewer[v].snap.feed

\* The posts in the queue of subscriber s.
QueuedPosts(s) == UNION {d.add : d \in {x \in Range(queue[s]) : x.panel = "feed"}}

\* A broadcast that has not come to subscriber s yet brings post p.
Due(s, p) ==
    \E w \in Writers : Coming(w, s) /\ writer[w].diff.panel = "feed" /\ p \in writer[w].diff.add

\* From its snapshot on, every published post is shown to v, queued for it, or
\* in a broadcast that has not come to it yet.
DueInv(v) ==
    viewer[v].pc \in {"follows", "stream"} /\ ~done[Sub(v)] =>
        \A p \in Published : Shows(Feed(v), p) \/ p \in QueuedPosts(Sub(v)) \/ Due(Sub(v), p)

\* A writer's step.
LEMMA WriterDue ==
    ASSUME TypeInv, SubsInv, NEW w \in Writers, Publish(w) \/ Change(w),
           NEW v \in Viewers, DueInv(v)
    PROVE  DueInv(v)'
  <1>0. UNCHANGED <<viewer, subs, panel>>
    BY WriterTodo
  <1>1. PICK s : s = Sub(v)
    OBVIOUS
  <1>2. Sub(v)' = s /\ Feed(v)' = Feed(v)
    BY <1>0, <1>1 DEF Sub, Feed
  <1> SUFFICES ASSUME viewer[v].pc \in {"follows", "stream"}, ~done'[s],
                      NEW p \in Published'
               PROVE  Shows(Feed(v), p) \/ p \in QueuedPosts(s)' \/ Due(s, p)'
    BY <1>0, <1>2 DEF DueInv, Shows
  <1>3. s \in Range(subs) /\ s \in Subs
    BY <1>1, Parts DEF SubsInv
  <1>4. /\ ~ done[s] /\ \A x \in Writers \ {w} : Same(x, s)
        /\ Nothing(w, s) \/ NewDiff(w, s) \/ Sent(w, s) \/ Elsewhere(w, s)
    BY <1>3, WriterFor
  <1>5. CASE p \notin Published
    <2>1. invalidateFeed(w) /\ p \in writer[w].batch
      BY <1>5, WriterPublishes
    <2>2. Emit(w, [panel |-> "feed", add |-> writer[w].batch])
      BY <2>1 DEF invalidateFeed
    <2>3. /\ writer'[w].diff = [panel |-> "feed", add |-> writer[w].batch]
          /\ writer'[w].pc = "copy"
      BY <2>2 DEF Emit, TypeInv, TypeOK
    <2>4. [panel |-> "feed", add |-> writer[w].batch] \in Diff
      BY DEF TypeInv, TypeOK, Diff
    <2>5. writer'[w].diff # Nil
      BY <2>3, <2>4, FeedAssumption
    <2>6. /\ Coming(w, s)' /\ writer'[w].diff.panel = "feed"
          /\ p \in writer'[w].diff.add
      BY <2>1, <2>3, <2>5 DEF Coming
    <2> QED BY <2>6 DEF Due
  <1>6. CASE p \in Published
    <2>1. Shows(Feed(v), p) \/ p \in QueuedPosts(s) \/ Due(s, p)
      BY <1>1, <1>4, <1>6 DEF DueInv
    <2>2. /\ queue \in [Subs -> Seq(Diff)]
          /\ Coming(w, s) => writer[w].diff \in Diff
      BY DEF TypeInv, TypeOK, Coming
    <2>3. Range(queue[s]) \subseteq Range(queue'[s])
      <3>1. CASE queue'[s] = queue[s]
        BY <3>1
      <3>2. CASE Sent(w, s)
        <4>1. queue'[s] = Append(queue[s], writer[w].diff) /\ queue[s] \in Seq(Diff)
          BY <1>3, <2>2, <3>2 DEF Sent
        <4> QED BY <2>2, <3>2, <4>1, AppendRange DEF Sent
      <3>3. queue'[s] = queue[s] \/ Sent(w, s)
        BY <1>3, <1>4, <2>2 DEF Nothing, NewDiff, Elsewhere
      <3> QED BY <3>1, <3>2, <3>3
    <2>4. QueuedPosts(s) \subseteq QueuedPosts(s)'
      BY <2>3 DEF QueuedPosts
    <2>5. ASSUME NEW x \in Writers, Coming(x, s), writer[x].diff.panel = "feed",
                 p \in writer[x].diff.add
          PROVE  p \in QueuedPosts(s)' \/ Due(s, p)'
      <3>1. CASE Same(x, s)
        BY <2>5, <3>1 DEF Same, Due
      <3>2. CASE x = w /\ Sent(w, s)
        <4>1. queue'[s] = Append(queue[s], writer[w].diff) /\ queue[s] \in Seq(Diff)
          BY <1>3, <2>2, <3>2 DEF Sent
        <4>2. writer[w].diff \in Range(queue'[s])
          BY <2>2, <3>2, <4>1, AppendRange DEF Sent
        <4> QED BY <2>5, <3>2, <4>2 DEF QueuedPosts
      <3> QED BY <1>4, <2>5, <3>1, <3>2 DEF Nothing, NewDiff, Elsewhere
    <2> QED BY <2>1, <2>4, <2>5 DEF Due
  <1> QED BY <1>5, <1>6

\* A viewer's step.
LEMMA ViewerDue ==
    ASSUME TypeInv, TypeInv', SubsInv, CacheCurrent, NEW u \in Viewers, View(u) \/ Break(u),
           NEW v \in Viewers, DueInv(v)
    PROVE  DueInv(v)'
  <1>0. /\ UNCHANGED <<writer, done>> /\ Published' = Published
        /\ viewer = [x \in Viewers |-> viewer[x]] /\ panel = [x \in Viewers |-> panel[x]]
        /\ viewer \in [Viewers ->
             [pc : {"off", "zens", "feed", "rebuild", "follows", "stream"},
              n : 0 .. MaxSubs, gen : Nat, snap : Panels]]
    BY ViewerAlone, ViewerPublishes DEF TypeInv, TypeOK
  <1>1. ASSUME NEW s PROVE \A p : Due(s, p)' <=> Due(s, p)
    BY <1>0 DEF Due, Coming
  <1>2. CASE u # v
    <2>1. /\ viewer'[v] = viewer[v] /\ panel'[v] = panel[v]
          /\ \A m \in 1 .. MaxSubs : queue'[<<v, m>>] = queue[<<v, m>>]
      BY <1>2, ViewerAlone
    <2>2. PICK s : s = Sub(v)
      OBVIOUS
    <2>3. Sub(v)' = s /\ Feed(v)' = Feed(v)
      BY <2>1, <2>2 DEF Sub, Feed
    <2>4. viewer[v].pc # "off" => queue'[s] = queue[s]
      BY <2>1, <2>2 DEF TypeInv, ViewerInv, Sub
    <2> QED BY <1>0, <1>1, <2>1, <2>2, <2>3, <2>4 DEF DueInv, Shows, QueuedPosts
  <1>3. CASE u = v
    <2>1. CASE Register(v) \/ SnapZens(v) \/ Drop(v) \/ Break(v)
      <3>1. viewer'[v].pc \in {"zens", "feed", "off"}
        BY <1>0, <2>1 DEF Register, SnapZens, Drop, Break, Unsubscribe
      <3> QED BY <3>1 DEF DueInv
    <2>2. ASSUME NEW S \in PostSets, Published \subseteq S,
                 viewer'[v].pc = "follows", viewer'[v].snap.feed = Page(S)
          PROVE  DueInv(v)'
      <3>1. Feed(v)' = Page(S)
        BY <2>2 DEF Feed
      <3>2. \A p \in Published : Shows(Page(S), p)
        BY <2>2, PageShows
      <3> QED BY <1>0, <3>1, <3>2 DEF DueInv, Shows
    <2>3. CASE LookupPosts(v)
      <3>1. CASE feedCache # Nil
        <4>1. viewer'[v].pc = "follows" /\ viewer'[v].snap.feed = Page(feedCache)
          BY <1>0, <2>3, <3>1 DEF LookupPosts, Panels
        <4>2. feedCache \in PostSets /\ Published \subseteq feedCache
          BY <3>1 DEF TypeInv, TypeOK, CacheCurrent
        <4>3. PICK S : S = feedCache
          OBVIOUS
        <4> QED BY <2>2, <4>1, <4>2, <4>3
      <3>2. CASE feedCache = Nil
        <4>1. viewer'[v].pc = "rebuild"
          BY <1>0, <2>3, <3>2 DEF LookupPosts
        <4> QED BY <4>1 DEF DueInv
      <3> QED BY <3>1, <3>2
    <2>4. CASE RebuildPosts(v)
      <3>1. PICK S : S = IF feedCache # Nil /\ feedGen = viewer[v].gen
                         THEN feedCache ELSE AllPosts
        OBVIOUS
      <3>2. viewer'[v].pc = "follows" /\ viewer'[v].snap.feed = Page(S)
        BY <1>0, <2>4, <3>1 DEF RebuildPosts, Panels
      <3>3. S \in PostSets
        BY <3>1, PostSetFacts DEF AllPosts, TypeInv, TypeOK
      <3>4. Published \subseteq S
        BY <3>1 DEF CacheCurrent, Published, Steady, AllPosts
      <3> QED BY <2>2, <3>2, <3>3, <3>4
    <2>5. CASE SendSnapshot(v)
      <3>1. /\ viewer[v].pc = "follows" /\ viewer'[v].pc = "stream"
            /\ viewer'[v].n = viewer[v].n /\ queue' = queue
            /\ panel'[v].feed = viewer[v].snap.feed
        BY <1>0, <2>5 DEF SendSnapshot, chanVars, Panels
      <3>2. PICK s : s = Sub(v)
        OBVIOUS
      <3>3. Sub(v)' = s /\ Feed(v)' = Feed(v)
        BY <3>1, <3>2 DEF Sub, Feed
      <3> QED BY <1>0, <1>1, <3>1, <3>2, <3>3 DEF DueInv, Shows, QueuedPosts
    <2>6. CASE Pump(v)
      <3>1. PICK s : s = Sub(v)
        OBVIOUS
      <3>2. PICK d : d = Head(queue[s])
        OBVIOUS
      <3>3. /\ viewer[v].pc = "stream" /\ viewer' = viewer /\ queue[s] # <<>>
            /\ panel'[v] = Apply(panel[v], d) /\ queue' = [queue EXCEPT ![s] = Tail(@)]
        BY <1>0, <2>6, <3>1, <3>2 DEF Pump
      <3>4. s \in Subs
        BY <3>1, <3>3, Parts
      <3>5. queue[s] \in Seq(Diff) /\ queue'[s] = Tail(queue[s])
        BY <3>3, <3>4 DEF TypeInv, TypeOK
      <3>6. d \in Diff /\ Range(queue[s]) = {d} \cup Range(queue'[s])
        BY <3>2, <3>3, <3>5, TailRange
      <3>7. Sub(v)' = s /\ Feed(v) = panel[v].feed /\ Feed(v)' = panel'[v].feed
        BY <3>1, <3>3 DEF Sub, Feed
      <3>8. /\ panel[v].feed \in PostSets /\ panel'[v].feed \in PostSets
            /\ panel[v] \in Panels
        BY DEF TypeInv, TypeOK, Panels
      <3>9. CASE d.panel = "feed"
        <4>1. panel'[v].feed = panel[v].feed \cup d.add
          BY <3>3, <3>8, <3>9 DEF Apply, Panels
        <4>2. QueuedPosts(s) \subseteq d.add \cup QueuedPosts(s)'
          BY <3>6 DEF QueuedPosts
        <4>3. ASSUME NEW p, Shows(panel[v].feed, p) PROVE Shows(panel'[v].feed, p)
          BY <3>8, <4>1, <4>3, ShowsMore
        <4>4. ASSUME NEW p \in d.add PROVE Shows(panel'[v].feed, p)
          BY <4>1 DEF Shows
        <4>5. ASSUME viewer[v].pc \in {"follows", "stream"}, ~done[s], NEW p \in Published
              PROVE  Shows(panel'[v].feed, p) \/ p \in QueuedPosts(s)' \/ Due(s, p)'
          BY <1>1, <3>1, <3>7, <4>2, <4>3, <4>4, <4>5 DEF DueInv
        <4> QED BY <1>0, <3>3, <3>7, <4>5 DEF DueInv, Shows
      <3>10. CASE d.panel # "feed"
        <4>1. panel'[v].feed = panel[v].feed
          BY <3>3, <3>6, <3>8, <3>10 DEF Apply, Panels, Diff
        <4>2. QueuedPosts(s) \subseteq QueuedPosts(s)'
          BY <3>6, <3>10 DEF QueuedPosts
        <4>3. ASSUME viewer[v].pc \in {"follows", "stream"}, ~done[s], NEW p \in Published
              PROVE  Shows(panel'[v].feed, p) \/ p \in QueuedPosts(s)' \/ Due(s, p)'
          BY <1>1, <3>1, <3>7, <4>1, <4>2, <4>3 DEF DueInv
        <4> QED BY <1>0, <3>3, <3>7, <4>3 DEF DueInv, Shows
      <3> QED BY <3>9, <3>10
    <2> QED BY <1>3, <2>1, <2>3, <2>4, <2>5, <2>6 DEF View
  <1> QED BY <1>2, <1>3

\* The inductive invariant of the feed.
FeedInv ==
    TypeInv /\ CacheCurrent /\ SubsInv /\ \A v \in Viewers : DueInv(v)

\* The inductive invariant of the feed holds.
LEMMA FeedInvariant == Spec => []FeedInv
  <1>1. Init => FeedInv
    <2>1. Init => \A v \in Viewers : DueInv(v)
      BY DEF Init, DueInv
    <2> QED BY <2>1, InitTypes, InitSubs DEF Init, CacheCurrent, FeedInv
  <1>2. FeedInv /\ [Next]_vars => FeedInv'
    <2> SUFFICES ASSUME FeedInv, [Next]_vars PROVE FeedInv'
      OBVIOUS
    <2>1. TypeInv' /\ CacheCurrent' /\ SubsInv'
      BY NextTypes, NextCache, NextSubs DEF FeedInv
    <2>2. ASSUME NEW v \in Viewers PROVE DueInv(v)'
      <3>1. CASE UNCHANGED vars \/ \E R \in SUBSET Tokens : rehydrateZens(R)
        <4>1. UNCHANGED <<viewer, panel, done, queue, writer, stored>>
          BY <3>1 DEF vars, dataVars, chanVars, rehydrateZens
        <4>2. PICK s : s = Sub(v)
          OBVIOUS
        <4>3. Sub(v)' = s /\ Feed(v)' = Feed(v) /\ Published' = Published
          BY <4>1, <4>2 DEF Sub, Feed, Published, Steady, Unpublished
        <4>4. QueuedPosts(s)' = QueuedPosts(s) /\ \A p : Due(s, p)' <=> Due(s, p)
          BY <4>1 DEF QueuedPosts, Due, Coming
        <4> QED BY <4>1, <4>2, <4>3, <4>4 DEF FeedInv, DueInv, Shows
      <3> QED BY <2>1, <3>1, WriterDue, ViewerDue DEF Next, FeedInv
    <2> QED BY <2>1, <2>2 DEF FeedInv
  <1> QED BY <1>1, <1>2, PTL DEF Spec

\* Once the broadcast of a post is over, every TUI that is connected and not
\* being dropped shows it, has it queued, or shows a page of newer posts: the
\* post is in the snapshot or its diff comes after it, because Subscribe
\* registers before it builds the snapshot and a post is stored before its
\* writer copies the subscribers.
THEOREM NoPostFallsBetween == Spec => []NoPostLost
  <1>1. FeedInv => NoPostLost
    <2> SUFFICES ASSUME FeedInv, NEW v \in Viewers, viewer[v].pc = "stream", ~done[Sub(v)],
                        NEW p \in Delivered
                 PROVE  \/ p \in panel[v].feed \cup Queued(v)
                        \/ Cardinality({q \in panel[v].feed : q > p}) >= PageLimit
      BY DEF NoPostLost
    <2>1. p \in Published /\ ~ Due(Sub(v), p)
      BY DEF Delivered, InBroadcast, Due, Coming
    <2>2. Shows(panel[v].feed, p) \/ p \in QueuedPosts(Sub(v))
      BY <2>1 DEF FeedInv, DueInv, Feed
    <2> QED BY <2>2 DEF Shows, QueuedPosts, Queued
  <1> QED BY <1>1, FeedInvariant, PTL

----------------------------------------------------------------------------
(* The zens and follows panels.                                            *)

\* Whether the daemon has entry k of panel X.
Has(X, k) == IF X = "zens" THEN k \in zens ELSE k \in follows

\* A diff being sent is still true of an entry that is not loose.
OwnInv ==
    \A w \in Writers : \A X \in {"zens", "follows"} : \A k \in Tokens \cup Targets :
        About(writer[w].diff, X, k) /\ <<X, k>> \notin loose =>
            (writer[w].diff.on <=> Has(X, k))

\* Viewer v has read panel X, and what it shows, or is about to be sent, of it.
Read(v, X) ==
    viewer[v].pc = "stream" \/ (X = "zens" /\ viewer[v].pc \in {"feed", "rebuild", "follows"})

Shown(v, X, k) ==
    IF X = "follows" THEN k \in panel[v].follows
    ELSE IF viewer[v].pc = "stream" THEN k \in panel[v].zens ELSE k \in viewer[v].snap.zens

\* The last diff of entry k in q carries value b.
LastIs(q, X, k, b) ==
    \A i \in 1 .. Len(q) :
        About(q[i], X, k) /\ (\A j \in 1 .. Len(q) : j > i => ~ About(q[j], X, k))
            => (q[i].on <=> b)

NoneIn(q, X, k) == \A i \in 1 .. Len(q) : ~ About(q[i], X, k)

NoneComing(s, X, k) == \A w \in Writers : Coming(w, s) => ~ About(writer[w].diff, X, k)

\* Of one entry and viewer v with subscription s: when no broadcast about it is
\* on its way, the last diff in the queue carries the daemon's state, and with
\* none in the queue v shows it.
EntryInv(v, s, X, k) ==
    NoneComing(s, X, k) =>
        /\ LastIs(queue[s], X, k, Has(X, k))
        /\ NoneIn(queue[s], X, k) /\ Read(v, X) => (Shown(v, X, k) <=> Has(X, k))

\* Every entry, for every viewer that is connected and not being dropped.
EntriesInv ==
    \A v \in Viewers : viewer[v].pc # "off" /\ ~done[Sub(v)] =>
        \A X \in {"zens", "follows"} : \A k \in Tokens \cup Targets :
            <<X, k>> \notin loose => EntryInv(v, Sub(v), X, k)

\* Of an entry that is not loose after a writer's step: it is as it was, or the
\* writer has a new diff about it, and whoever else has one says the same.
Kept(w, X, k) ==
    /\ <<X, k>> \notin loose /\ (Has(X, k)' <=> Has(X, k))
    /\ About(writer'[w].diff, X, k) =>
         About(writer[w].diff, X, k) /\ writer'[w].diff = writer[w].diff

Told(w, X, k) ==
    /\ About(writer'[w].diff, X, k) /\ writer'[w].pc = "copy"
    /\ writer'[w].diff.on <=> Has(X, k)'
    /\ \A x \in Writers \ {w} :
         About(writer[x].diff, X, k) => (writer[x].diff.on <=> Has(X, k)')

\* A keyed diff handed to broadcast.
LEMMA AnnounceTells ==
    ASSUME TypeInv, NEW w \in Writers, NEW d \in Diff, d.panel \in {"zens", "follows"},
           Announce(w, d), NEW X, NEW k, <<X, k>> \notin loose',
           X = d.panel /\ k = d.key => (d.on <=> Has(X, k)'),
           ~ (X = d.panel /\ k = d.key) => (Has(X, k)' <=> Has(X, k))
    PROVE  Kept(w, X, k) \/ Told(w, X, k)
  <1>1. writer'[w].diff = d /\ writer'[w].pc = "copy" /\ d # Nil
    BY FeedAssumption DEF Announce, Emit, TypeInv, TypeOK
  <1>2. CASE X = d.panel /\ k = d.key
    <2>1. ~ Crosses(w, d)
      BY <1>2 DEF Announce
    <2>2. ASSUME NEW x \in Writers \ {w}, About(writer[x].diff, X, k)
          PROVE  writer[x].diff.on = d.on
      BY <1>2, <2>1, <2>2 DEF Crosses
    <2>3. About(writer'[w].diff, X, k)
      BY <1>1, <1>2 DEF About
    <2> QED BY <1>1, <1>2, <2>2, <2>3 DEF Told
  <1>3. CASE ~ (X = d.panel /\ k = d.key)
    <2>1. <<X, k>> \notin loose
      BY <1>3 DEF Announce
    <2>2. ~ About(writer'[w].diff, X, k)
      BY <1>1, <1>3 DEF About
    <2> QED BY <1>3, <2>1, <2>2 DEF Kept
  <1> QED BY <1>2, <1>3

\* What the panels' state does in a writer's step.
LEMMA HasMoves ==
    ASSUME TypeInv, NEW w \in Writers, Publish(w) \/ Change(w),
           NEW X \in {"zens", "follows"}, NEW k \in Tokens \cup Targets, <<X, k>> \notin loose'
    PROVE  Kept(w, X, k) \/ Told(w, X, k)
  <1>0. /\ writer = [x \in Writers |-> writer[x]] /\ WriterInv(w)
        /\ writer[w] = [pc |-> writer[w].pc, batch |-> writer[w].batch,
                        diff |-> writer[w].diff, todo |-> writer[w].todo,
                        tok |-> writer[w].tok]
    BY DEF TypeInv, TypeOK
  <1>1. ASSUME UNCHANGED <<zens, follows, loose>>,
               About(writer'[w].diff, X, k) => writer'[w].diff = writer[w].diff
        PROVE  Kept(w, X, k)
    BY <1>1 DEF Kept, Has, About
  <1>2. CASE \E p \in Posts : AppendPost(w, p) \/ MergePost(w, p)
    <2>1. UNCHANGED <<zens, follows, loose>> /\ writer'[w].diff = writer[w].diff
      BY <1>0, <1>2 DEF AppendPost, MergePost
    <2> QED BY <1>1, <2>1
  <1>3. CASE CopySubs(w) \/ Send(w) \/ CloseDone(w) \/ EndBroadcast(w)
    <2>1. UNCHANGED <<zens, follows, loose>>
      BY <1>3 DEF CopySubs, Send, CloseDone, EndBroadcast, dataVars
    <2>2. writer'[w].diff \in {writer[w].diff, Nil}
      BY <1>0, <1>3 DEF CopySubs, Send, CloseDone, EndBroadcast
    <2> QED BY <1>1, <2>1, <2>2 DEF About
  <1>4. CASE invalidateFeed(w)
    <2>1. UNCHANGED <<zens, follows, loose>> /\ writer'[w].diff.panel = "feed"
      BY <1>0, <1>4 DEF invalidateFeed, Emit, dataVars
    <2> QED BY <1>1, <2>1 DEF About
  <1>5. CASE Quiet(w)
    <2>1. PICK T : zens' = zens \cup T /\ loose' = loose \cup {"zens"} \X (T \ zens)
      BY <1>5 DEF Quiet
    <2>2. <<X, k>> \notin loose /\ ~ (X = "zens" /\ k \in T \ zens)
      BY <2>1
    <2>3. Has(X, k)' <=> Has(X, k)
      BY <1>5, <2>1, <2>2 DEF Has, Quiet
    <2> QED BY <1>5, <2>2, <2>3 DEF Quiet, Kept
  <1>6. ASSUME NEW t \in Tokens, NEW on \in BOOLEAN, EditZen(w, t, on)
        PROVE  Kept(w, X, k) \/ Told(w, X, k)
    <2>1. PICK d : d = [panel |-> "zens", key |-> t, on |-> on]
      OBVIOUS
    <2>2. d \in Diff /\ d.panel = "zens" /\ d.key = t /\ d.on = on
      BY <2>1 DEF Diff
    <2>3. /\ Announce(w, d) /\ follows' = follows
          /\ zens' = IF on THEN zens \cup {t} ELSE zens \ {t}
      BY <1>6, <2>1 DEF EditZen
    <2>4. X = "zens" /\ k = t => (on <=> Has(X, k)')
      BY <2>3 DEF Has
    <2>5. ~ (X = "zens" /\ k = t) => (Has(X, k)' <=> Has(X, k))
      BY <2>3 DEF Has
    <2> QED BY <2>2, <2>3, <2>4, <2>5, AnnounceTells
  <1>7. ASSUME NEW a \in Targets, NEW on \in BOOLEAN, EditFollow(w, a, on)
        PROVE  Kept(w, X, k) \/ Told(w, X, k)
    <2>1. PICK d : d = [panel |-> "follows", key |-> a, on |-> on]
      OBVIOUS
    <2>2. d \in Diff /\ d.panel = "follows" /\ d.key = a /\ d.on = on
      BY <2>1 DEF Diff
    <2>3. /\ Announce(w, d) /\ zens' = zens
          /\ follows' = IF on THEN follows \cup {a} ELSE follows \ {a}
      BY <1>7, <2>1 DEF EditFollow
    <2>4. X = "follows" /\ k = a => (on <=> Has(X, k)')
      BY <2>3 DEF Has
    <2>5. ~ (X = "follows" /\ k = a) => (Has(X, k)' <=> Has(X, k))
      BY <2>3 DEF Has
    <2> QED BY <2>2, <2>3, <2>4, <2>5, AnnounceTells
  <1> QED BY <1>2, <1>3, <1>4, <1>5, <1>6, <1>7, WriterKinds

\* What the panels' state does in the step of rehydrateZens, or in none.
LEMMA RehydrateMoves ==
    ASSUME (\E R \in SUBSET Tokens : rehydrateZens(R)) \/ UNCHANGED vars
    PROVE  /\ UNCHANGED <<viewer, panel, done, queue, writer>>
           /\ \A X \in {"zens", "follows"} : \A k : <<X, k>> \notin loose' =>
                <<X, k>> \notin loose /\ (Has(X, k)' <=> Has(X, k))
  <1>1. CASE UNCHANGED vars
    BY <1>1 DEF vars, dataVars, chanVars, Has
  <1>2. CASE \E R \in SUBSET Tokens : rehydrateZens(R)
    <2>1. PICK R \in SUBSET Tokens : rehydrateZens(R)
      BY <1>2
    <2>2. /\ UNCHANGED <<viewer, panel, done, queue, writer, follows>>
          /\ zens' = zens \cup R /\ loose' = loose \cup {"zens"} \X (R \ zens)
      BY <2>1 DEF rehydrateZens, chanVars
    <2>3. ASSUME NEW X \in {"zens", "follows"}, NEW k, <<X, k>> \notin loose'
          PROVE  <<X, k>> \notin loose /\ (Has(X, k)' <=> Has(X, k))
      <3>1. <<X, k>> \notin loose /\ ~ (X = "zens" /\ k \in R \ zens)
        BY <2>2, <2>3
      <3> QED BY <2>2, <3>1 DEF Has
    <2> QED BY <2>2, <2>3
  <1> QED BY <1>1, <1>2

\* Every step keeps the diffs being sent true.
LEMMA NextOwn == TypeInv /\ OwnInv /\ [Next]_vars => OwnInv'
  <1> SUFFICES ASSUME TypeInv, OwnInv, [Next]_vars PROVE OwnInv'
    OBVIOUS
  <1>1. ASSUME NEW w \in Writers, Publish(w) \/ Change(w) PROVE OwnInv'
    <2> SUFFICES ASSUME NEW x \in Writers, NEW X \in {"zens", "follows"},
                        NEW k \in Tokens \cup Targets, About(writer'[x].diff, X, k),
                        <<X, k>> \notin loose'
                 PROVE  writer'[x].diff.on <=> Has(X, k)'
      BY DEF OwnInv, About
    <2>1. \A y \in Writers \ {w} : writer'[y] = writer[y]
      BY <1>1, WriterTodo
    <2>2. CASE Kept(w, X, k)
      <3>1. About(writer[x].diff, X, k) /\ writer'[x].diff = writer[x].diff
        BY <2>1, <2>2 DEF Kept
      <3> QED BY <2>2, <3>1 DEF Kept, OwnInv
    <2>3. CASE Told(w, X, k)
      BY <2>1, <2>3 DEF Told
    <2> QED BY <1>1, <2>2, <2>3, HasMoves
  <1>2. ASSUME NEW v \in Viewers, View(v) \/ Break(v) PROVE OwnInv'
    BY <1>2, ViewerAlone DEF OwnInv, About, Has
  <1>3. CASE (\E R \in SUBSET Tokens : rehydrateZens(R)) \/ UNCHANGED vars
    BY <1>3, RehydrateMoves DEF OwnInv, About
  <1> QED BY <1>1, <1>2, <1>3 DEF Next

\* A diff put at the end of a queue.
LEMMA AppendLast ==
    ASSUME NEW q \in Seq(Diff), NEW d \in Diff, NEW X, NEW k, NEW b
    PROVE  /\ About(d, X, k) /\ (d.on <=> b) => LastIs(Append(q, d), X, k, b)
           /\ About(d, X, k) => ~ NoneIn(Append(q, d), X, k)
           /\ ~ About(d, X, k) =>
                /\ LastIs(q, X, k, b) => LastIs(Append(q, d), X, k, b)
                /\ NoneIn(Append(q, d), X, k) => NoneIn(q, X, k)
  <1> DEFINE a == Append(q, d)
  <1>1. /\ Len(q) \in Nat /\ Len(a) = Len(q) + 1 /\ a[Len(q) + 1] = d
        /\ \A i \in 1 .. Len(q) : a[i] = q[i]
    BY AppendProperties
  <1>2. 1 .. Len(a) = 1 .. Len(q) \cup {Len(q) + 1} /\ \A i \in 1 .. Len(q) : Len(q) + 1 > i
    BY <1>1
  <1> HIDE DEF a
  <1>3. ASSUME About(d, X, k), d.on <=> b PROVE LastIs(a, X, k, b)
    <2> SUFFICES ASSUME NEW i \in 1 .. Len(a), About(a[i], X, k),
                        \A j \in 1 .. Len(a) : j > i => ~ About(a[j], X, k)
                 PROVE  a[i].on <=> b
      BY DEF LastIs
    <2>1. i = Len(q) + 1
      BY <1>1, <1>2, <1>3
    <2> QED BY <1>1, <1>3, <2>1
  <1>4. ASSUME About(d, X, k) PROVE ~ NoneIn(a, X, k)
    BY <1>1, <1>2, <1>4 DEF NoneIn
  <1>5. ASSUME ~ About(d, X, k), LastIs(q, X, k, b) PROVE LastIs(a, X, k, b)
    <2> SUFFICES ASSUME NEW i \in 1 .. Len(a), About(a[i], X, k),
                        \A j \in 1 .. Len(a) : j > i => ~ About(a[j], X, k)
                 PROVE  a[i].on <=> b
      BY DEF LastIs
    <2>1. i \in 1 .. Len(q) /\ a[i] = q[i]
      BY <1>1, <1>2, <1>5
    <2>2. \A j \in 1 .. Len(q) : j > i => ~ About(q[j], X, k)
      BY <1>1, <1>2
    <2> QED BY <1>5, <2>1, <2>2 DEF LastIs
  <1>6. ASSUME NoneIn(a, X, k) PROVE NoneIn(q, X, k)
    BY <1>1, <1>2, <1>6 DEF NoneIn
  <1> QED BY <1>3, <1>4, <1>5, <1>6 DEF a

\* A diff taken off the front.
LEMMA TailLast ==
    ASSUME NEW q \in Seq(Diff), q # <<>>, NEW X, NEW k, NEW b, LastIs(q, X, k, b)
    PROVE  /\ LastIs(Tail(q), X, k, b)
           /\ NoneIn(Tail(q), X, k) /\ About(Head(q), X, k) => (Head(q).on <=> b)
           /\ NoneIn(Tail(q), X, k) /\ ~ About(Head(q), X, k) => NoneIn(q, X, k)
  <1> DEFINE t == Tail(q)
  <1>1. /\ Len(q) \in Nat \ {0} /\ Len(t) = Len(q) - 1 /\ Head(q) = q[1]
        /\ \A i \in 1 .. Len(t) : t[i] = q[i + 1]
    BY HeadTailProperties, EmptySeq
  <1> HIDE DEF t
  <1>2. \A i \in 1 .. Len(q) : i = 1 \/ (i - 1 \in 1 .. Len(t) /\ t[i - 1] = q[i])
    <2> TAKE i \in 1 .. Len(q)
    <2>1. i = 1 \/ (i - 1 \in 1 .. Len(t) /\ (i - 1) + 1 = i)
      BY <1>1
    <2> QED BY <1>1, <2>1
  <1>3. LastIs(t, X, k, b)
    <2> SUFFICES ASSUME NEW i \in 1 .. Len(t), About(t[i], X, k),
                        \A j \in 1 .. Len(t) : j > i => ~ About(t[j], X, k)
                 PROVE  t[i].on <=> b
      BY DEF LastIs
    <2>1. i + 1 \in 1 .. Len(q) /\ t[i] = q[i + 1]
      BY <1>1
    <2>2. ASSUME NEW j \in 1 .. Len(q), j > i + 1 PROVE ~ About(q[j], X, k)
      <3>1. j # 1 /\ j - 1 > i
        BY <2>1, <2>2
      <3> QED BY <1>2, <3>1
    <2> QED BY <2>1, <2>2 DEF LastIs
  <1>4. ASSUME NoneIn(t, X, k), About(Head(q), X, k) PROVE Head(q).on <=> b
    <2>1. 1 \in 1 .. Len(q) /\ About(q[1], X, k)
      BY <1>1, <1>4
    <2>2. ASSUME NEW j \in 1 .. Len(q), j > 1 PROVE ~ About(q[j], X, k)
      <3>1. j # 1
        BY <2>2
      <3> QED BY <1>2, <1>4, <3>1 DEF NoneIn
    <2> QED BY <1>1, <2>1, <2>2 DEF LastIs
  <1>5. ASSUME NoneIn(t, X, k), ~ About(Head(q), X, k) PROVE NoneIn(q, X, k)
    BY <1>1, <1>2, <1>5 DEF NoneIn
  <1> QED BY <1>3, <1>4, <1>5 DEF t

\* A writer's step.
LEMMA WriterEntries ==
    ASSUME TypeInv, SubsInv, OwnInv, EntriesInv, NEW w \in Writers, Publish(w) \/ Change(w)
    PROVE  EntriesInv'
  <1>0. UNCHANGED <<viewer, subs, panel>> /\ queue \in [Subs -> Seq(Diff)]
    BY WriterTodo DEF TypeInv, TypeOK
  <1> SUFFICES ASSUME NEW v \in Viewers, viewer[v].pc # "off", ~ done'[Sub(v)'],
                      NEW X \in {"zens", "follows"}, NEW k \in Tokens \cup Targets,
                      <<X, k>> \notin loose'
               PROVE  EntryInv(v, Sub(v), X, k)'
    BY <1>0 DEF EntriesInv
  <1>1. PICK s : s = Sub(v)
    OBVIOUS
  <1>2. Sub(v)' = s /\ s \in Range(subs) /\ s \in Subs
    BY <1>0, <1>1, Parts DEF Sub, SubsInv
  <1>3. /\ ~ done[s] /\ \A x \in Writers \ {w} : Same(x, s)
        /\ Nothing(w, s) \/ NewDiff(w, s) \/ Sent(w, s) \/ Elsewhere(w, s)
    BY <1>2, WriterFor
  <1>5. (Read(v, X)' <=> Read(v, X)) /\ (Shown(v, X, k)' <=> Shown(v, X, k))
    BY <1>0 DEF Read, Shown
  <1> SUFFICES ASSUME NoneComing(s, X, k)'
               PROVE  /\ LastIs(queue'[s], X, k, Has(X, k)')
                      /\ NoneIn(queue'[s], X, k) /\ Read(v, X) =>
                           (Shown(v, X, k) <=> Has(X, k)')
    BY <1>2, <1>5 DEF EntryInv, LastIs, NoneIn, About
  <1>6. \A x \in Writers \ {w} : Coming(x, s) => ~ About(writer[x].diff, X, k)
    BY <1>3 DEF NoneComing, Same, About
  <1>7. Kept(w, X, k)
    <2>1. CASE Told(w, X, k)
      <3>1. Coming(w, s)'
        BY <2>1 DEF Told, Coming, About
      <3> QED BY <2>1, <3>1 DEF Told, NoneComing, About
    <2> QED BY <2>1, HasMoves
  <1>8. EntryInv(v, s, X, k) /\ (Has(X, k)' <=> Has(X, k))
    BY <1>1, <1>3, <1>7 DEF EntriesInv, Kept
  <1>9. CASE Nothing(w, s) \/ Elsewhere(w, s)
    <2>1. queue'[s] = queue[s]
      BY <1>0, <1>2, <1>9 DEF Nothing, Elsewhere
    <2>2. Coming(w, s) => ~ About(writer[w].diff, X, k)
      BY <1>9 DEF Nothing, Elsewhere, Same, NoneComing, About
    <2>3. NoneComing(s, X, k)
      BY <1>6, <2>2 DEF NoneComing
    <2> QED BY <1>8, <2>1, <2>3 DEF EntryInv, LastIs
  <1>10. CASE NewDiff(w, s)
    <2>1. queue'[s] = queue[s] /\ ~ Coming(w, s)
      BY <1>10 DEF NewDiff
    <2>2. NoneComing(s, X, k)
      BY <1>6, <2>1 DEF NoneComing
    <2> QED BY <1>8, <2>1, <2>2 DEF EntryInv, LastIs
  <1>11. CASE Sent(w, s)
    <2>1. PICK q, d : q = queue[s] /\ d = writer[w].diff
      OBVIOUS
    <2>2. q \in Seq(Diff) /\ d \in Diff /\ queue'[s] = Append(q, d)
      BY <1>0, <1>2, <1>11, <2>1 DEF Sent, Coming, TypeInv, TypeOK
    <2>3. PICK b : b = Has(X, k)
      OBVIOUS
    <2>4. CASE About(d, X, k)
      <3>1. d.on <=> b
        BY <1>7, <2>1, <2>3, <2>4 DEF OwnInv, Kept
      <3>2. LastIs(Append(q, d), X, k, b) /\ ~ NoneIn(Append(q, d), X, k)
        BY <2>2, <2>4, <3>1, AppendLast
      <3> QED BY <1>8, <2>2, <2>3, <3>2 DEF LastIs
    <2>5. CASE ~ About(d, X, k)
      <3>1. NoneComing(s, X, k)
        BY <1>6, <2>1, <2>5 DEF NoneComing
      <3>2. LastIs(q, X, k, b) /\ (NoneIn(q, X, k) /\ Read(v, X) => (Shown(v, X, k) <=> b))
        BY <1>8, <2>1, <2>3, <3>1 DEF EntryInv
      <3>3. LastIs(Append(q, d), X, k, b)
        BY <2>2, <2>5, <3>2, AppendLast
      <3>4. NoneIn(Append(q, d), X, k) => NoneIn(q, X, k)
        BY <2>2, <2>5, AppendLast
      <3> QED BY <1>8, <2>2, <2>3, <3>2, <3>3, <3>4 DEF LastIs
    <2> QED BY <2>4, <2>5
  <1> QED BY <1>3, <1>9, <1>10, <1>11

\* A viewer's step: it registers with an empty queue, reads the daemon's state,
\* or applies the diff at the front.
LEMMA ViewerEntries ==
    ASSUME TypeInv, TypeInv', SubsInv, EntriesInv, NEW u \in Viewers, View(u) \/ Break(u)
    PROVE  EntriesInv'
  <1>0. /\ UNCHANGED <<writer, done, follows, zens, loose>>
        /\ viewer = [x \in Viewers |-> viewer[x]] /\ panel = [x \in Viewers |-> panel[x]]
        /\ viewer \in [Viewers ->
             [pc : {"off", "zens", "feed", "rebuild", "follows", "stream"},
              n : 0 .. MaxSubs, gen : Nat, snap : Panels]]
    BY ViewerAlone DEF TypeInv, TypeOK
  <1> SUFFICES ASSUME NEW v \in Viewers, viewer'[v].pc # "off", ~ done[Sub(v)'],
                      NEW X \in {"zens", "follows"}, NEW k \in Tokens \cup Targets,
                      <<X, k>> \notin loose
               PROVE  EntryInv(v, Sub(v), X, k)'
    BY <1>0 DEF EntriesInv
  <1>1. PICK s : s = Sub(v)'
    OBVIOUS
  <1>2. PICK b : b = Has(X, k)
    OBVIOUS
  <1>3. /\ Has(X, k)' <=> b
        /\ NoneComing(s, X, k)' <=> NoneComing(s, X, k)
    BY <1>0, <1>2 DEF Has, NoneComing, Coming, About
  <1> SUFFICES ASSUME NoneComing(s, X, k)
               PROVE  /\ LastIs(queue'[s], X, k, b)
                      /\ NoneIn(queue'[s], X, k) /\ Read(v, X)' => (Shown(v, X, k)' <=> b)
    BY <1>1, <1>3 DEF EntryInv, LastIs, NoneIn, About
  <1>4. ASSUME viewer[v].pc # "off", Sub(v) = s
        PROVE  /\ LastIs(queue[s], X, k, b)
               /\ NoneIn(queue[s], X, k) /\ Read(v, X) => (Shown(v, X, k) <=> b)
    BY <1>0, <1>1, <1>2, <1>4 DEF EntriesInv, EntryInv
  <1>5. ASSUME viewer[v].pc # "off", Sub(v) = s, queue'[s] = queue[s],
               Read(v, X)' => \/ Read(v, X) /\ (Shown(v, X, k)' <=> Shown(v, X, k))
                              \/ Shown(v, X, k)' <=> b
        PROVE  /\ LastIs(queue'[s], X, k, b)
               /\ NoneIn(queue'[s], X, k) /\ Read(v, X)' => (Shown(v, X, k)' <=> b)
    BY <1>4, <1>5
  <1>6. CASE u # v
    <2>1. /\ viewer'[v] = viewer[v] /\ panel'[v] = panel[v]
          /\ \A m \in 1 .. MaxSubs : queue'[<<v, m>>] = queue[<<v, m>>]
      BY <1>6, ViewerAlone
    <2>2. Sub(v) = s /\ queue'[s] = queue[s]
      BY <1>1, <2>1 DEF TypeInv, ViewerInv, Sub
    <2>3. (Read(v, X)' <=> Read(v, X)) /\ (Shown(v, X, k)' <=> Shown(v, X, k))
      BY <2>1 DEF Read, Shown
    <2> QED BY <1>5, <2>1, <2>2, <2>3
  <1>7. CASE u = v
    <2>1. CASE Register(v)
      <3>1. /\ viewer[v].pc = "off" /\ viewer'[v].pc = "zens" /\ queue' = queue
            /\ viewer'[v].n = viewer[v].n + 1
        BY <1>0, <2>1 DEF Register
      <3>2. viewer[v].n + 1 \in 1 .. MaxSubs /\ s = <<v, viewer[v].n + 1>>
        BY <1>1, <3>1 DEF TypeInv, ViewerInv, Sub
      <3>3. queue[s] = <<>>
        BY <1>0, <3>1, <3>2 DEF SubsInv
      <3> QED BY <3>1, <3>3 DEF LastIs, NoneIn, Read
    <2>2. CASE SnapZens(v)
      <3>1. /\ viewer[v].pc = "zens" /\ viewer'[v].pc = "feed" /\ queue' = queue
            /\ viewer'[v].n = viewer[v].n /\ viewer'[v].snap.zens = zens
        BY <1>0, <2>2 DEF SnapZens, chanVars, Panels
      <3>2. Read(v, X)' => (Shown(v, X, k)' <=> b)
        BY <1>2, <3>1 DEF Read, Shown, Has
      <3> QED BY <1>1, <1>5, <3>1, <3>2 DEF Sub
    <2>3. CASE LookupPosts(v) \/ RebuildPosts(v)
      <3>1. /\ viewer[v].pc \in {"feed", "rebuild"} /\ viewer'[v].pc \in {"rebuild", "follows"}
            /\ queue' = queue /\ viewer'[v].n = viewer[v].n /\ panel' = panel
            /\ viewer'[v].snap.zens = viewer[v].snap.zens
        <4>1. CASE LookupPosts(v)
          BY <1>0, <4>1 DEF LookupPosts, chanVars, Panels
        <4>2. CASE RebuildPosts(v)
          BY <1>0, <4>2 DEF RebuildPosts, chanVars, Panels
        <4> QED BY <2>3, <4>1, <4>2
      <3>2. Read(v, X)' => Read(v, X) /\ (Shown(v, X, k)' <=> Shown(v, X, k))
        BY <3>1 DEF Read, Shown
      <3> QED BY <1>1, <1>5, <3>1, <3>2 DEF Sub
    <2>4. CASE SendSnapshot(v)
      <3>1. /\ viewer[v].pc = "follows" /\ viewer'[v].pc = "stream" /\ queue' = queue
            /\ viewer'[v].n = viewer[v].n
            /\ panel'[v].zens = viewer[v].snap.zens /\ panel'[v].follows = follows
        BY <1>0, <2>4 DEF SendSnapshot, chanVars, Panels
      <3>2. CASE X = "zens"
        <4>1. Read(v, X) /\ (Shown(v, X, k)' <=> Shown(v, X, k))
          BY <3>1, <3>2 DEF Read, Shown
        <4> QED BY <1>1, <1>5, <3>1, <4>1 DEF Sub
      <3>3. CASE X = "follows"
        <4>1. Shown(v, X, k)' <=> b
          BY <1>2, <3>1, <3>3 DEF Shown, Has
        <4> QED BY <1>1, <1>5, <3>1, <4>1 DEF Sub
      <3> QED BY <3>2, <3>3
    <2>5. CASE Pump(v)
      <3>1. PICK d : d = Head(queue[s])
        OBVIOUS
      <3>2. /\ viewer[v].pc = "stream" /\ viewer' = viewer /\ Sub(v) = s
        BY <1>1, <2>5 DEF Pump, Sub
      <3>3. /\ queue[s] # <<>> /\ panel'[v] = Apply(panel[v], d)
            /\ queue' = [queue EXCEPT ![s] = Tail(@)]
        BY <1>0, <2>5, <3>1, <3>2 DEF Pump
      <3>4. s \in Subs
        BY <3>2, Parts
      <3>5. queue[s] \in Seq(Diff) /\ queue'[s] = Tail(queue[s])
        BY <3>3, <3>4 DEF TypeInv, TypeOK
      <3>6. d \in Diff /\ panel[v] \in Panels
        BY <3>1, <3>3, <3>5, TailRange DEF TypeInv, TypeOK
      <3>7. d # Nil
        BY <3>6, FeedAssumption
      <3>8. /\ About(d, X, k) => (Shown(v, X, k)' <=> d.on)
            /\ ~ About(d, X, k) => (Shown(v, X, k)' <=> Shown(v, X, k))
        <4>1. CASE d.panel = "feed"
          BY <3>2, <3>3, <3>6, <3>7, <4>1 DEF Apply, Panels, About, Shown
        <4>2. CASE d.panel = "zens"
          <5>1. /\ panel'[v].zens = Keyed(panel[v].zens, d)
                /\ panel'[v].follows = panel[v].follows
            BY <3>3, <3>6, <4>2 DEF Apply, Panels
          <5> QED BY <3>2, <3>7, <4>2, <5>1 DEF About, Shown, Keyed
        <4>3. CASE d.panel = "follows"
          <5>1. /\ panel'[v].zens = panel[v].zens
                /\ panel'[v].follows = Keyed(panel[v].follows, d)
            BY <3>3, <3>6, <4>3 DEF Apply, Panels
          <5> QED BY <3>2, <3>7, <4>3, <5>1 DEF About, Shown, Keyed
        <4> QED BY <3>6, <4>1, <4>2, <4>3 DEF Diff
      <3>9. /\ LastIs(queue[s], X, k, b)
            /\ NoneIn(queue[s], X, k) => (Shown(v, X, k) <=> b)
        BY <1>4, <3>2 DEF Read
      <3>10. PICK q : q = queue[s]
        OBVIOUS
      <3>11. /\ LastIs(Tail(q), X, k, b)
             /\ NoneIn(Tail(q), X, k) /\ About(d, X, k) => (d.on <=> b)
             /\ NoneIn(Tail(q), X, k) /\ ~ About(d, X, k) => NoneIn(q, X, k)
        BY <3>1, <3>3, <3>5, <3>9, <3>10, TailLast
      <3> QED BY <3>5, <3>8, <3>9, <3>10, <3>11
    <2>6. CASE Drop(v) \/ Break(v)
      <3>1. viewer'[v].pc = "off"
        BY <1>0, <2>6 DEF Drop, Break, Unsubscribe
      <3> QED BY <3>1
    <2> QED BY <1>7, <2>1, <2>2, <2>3, <2>4, <2>5, <2>6 DEF View
  <1> QED BY <1>6, <1>7

\* The inductive invariant of the keyed panels.
PanelsInv == TypeInv /\ SubsInv /\ OwnInv /\ EntriesInv

\* It holds initially.
LEMMA InitPanels == Init => PanelsInv
  <1>1. Init => OwnInv /\ EntriesInv
    BY DEF Init, OwnInv, About, EntriesInv
  <1> QED BY <1>1, InitTypes, InitSubs DEF PanelsInv

\* Every step keeps it.
LEMMA NextPanels == PanelsInv /\ [Next]_vars => PanelsInv'
  <1> SUFFICES ASSUME PanelsInv, [Next]_vars PROVE PanelsInv'
    OBVIOUS
  <1>1. TypeInv' /\ SubsInv' /\ OwnInv'
    BY NextTypes, NextSubs, NextOwn DEF PanelsInv
  <1>2. CASE (\E R \in SUBSET Tokens : rehydrateZens(R)) \/ UNCHANGED vars
    <2>1. UNCHANGED <<viewer, panel, done, queue, writer>>
      BY <1>2, RehydrateMoves
    <2>2. EntriesInv'
      <3> SUFFICES ASSUME NEW v \in Viewers, viewer[v].pc # "off", ~ done[Sub(v)'],
                          NEW X \in {"zens", "follows"}, NEW k \in Tokens \cup Targets,
                          <<X, k>> \notin loose'
                   PROVE  EntryInv(v, Sub(v), X, k)'
        BY <2>1 DEF EntriesInv
      <3>1. PICK s : s = Sub(v)
        OBVIOUS
      <3>2. Sub(v)' = s
        BY <2>1, <3>1 DEF Sub
      <3>3. <<X, k>> \notin loose /\ (Has(X, k)' <=> Has(X, k))
        BY <1>2, RehydrateMoves
      <3>4. EntryInv(v, s, X, k)
        BY <3>1, <3>2, <3>3 DEF PanelsInv, EntriesInv
      <3>5. /\ NoneComing(s, X, k)' <=> NoneComing(s, X, k)
            /\ Read(v, X)' <=> Read(v, X)
            /\ Shown(v, X, k)' <=> Shown(v, X, k)
        BY <2>1 DEF NoneComing, Coming, About, Read, Shown
      <3> QED BY <2>1, <3>2, <3>3, <3>4, <3>5 DEF EntryInv, LastIs, NoneIn, About
    <2> QED BY <1>1, <2>2 DEF PanelsInv
  <1>3. CASE \E w \in Writers : Publish(w) \/ Change(w)
    BY <1>1, <1>3, WriterEntries DEF PanelsInv
  <1>4. CASE \E v \in Viewers : View(v) \/ Break(v)
    BY <1>1, <1>4, ViewerEntries DEF PanelsInv
  <1> QED BY <1>2, <1>3, <1>4 DEF Next

\* At rest no diff is on its way and none is queued.
LEMMA RestShowsAll == PanelsInv => PanelsConverge
  <1> SUFFICES ASSUME PanelsInv, NEW v \in Viewers, Settled(v)
               PROVE  /\ \A t \in Tokens : <<"zens", t>> \notin loose =>
                           (t \in panel[v].zens <=> t \in zens)
                      /\ \A a \in Targets : <<"follows", a>> \notin loose =>
                           (a \in panel[v].follows <=> a \in follows)
    BY DEF PanelsConverge
  <1>1. PICK s : s = Sub(v)
    OBVIOUS
  <1>2. viewer[v].pc = "stream" /\ ~ done[s] /\ queue[s] = <<>>
    BY <1>1 DEF Settled
  <1>3. \A w \in Writers : writer[w].diff = Nil
    BY DEF Settled, PanelsInv, TypeInv, WriterInv
  <1>4. ASSUME NEW X \in {"zens", "follows"}, NEW k \in Tokens \cup Targets,
               <<X, k>> \notin loose
        PROVE  Shown(v, X, k) <=> Has(X, k)
    <2>1. NoneComing(s, X, k)
      BY <1>3 DEF NoneComing, About
    <2>2. NoneIn(queue[s], X, k) /\ Read(v, X)
      BY <1>2 DEF NoneIn, Read
    <2>3. EntryInv(v, s, X, k)
      BY <1>1, <1>2, <1>4 DEF PanelsInv, EntriesInv
    <2> QED BY <2>1, <2>2, <2>3 DEF EntryInv
  <1>5. \A k \in Tokens : <<"zens", k>> \notin loose => (k \in panel[v].zens <=> k \in zens)
    BY <1>2, <1>4 DEF Shown, Has
  <1>6. \A k \in Targets : <<"follows", k>> \notin loose =>
            (k \in panel[v].follows <=> k \in follows)
    BY <1>2, <1>4 DEF Shown, Has
  <1> QED BY <1>5, <1>6

\* When everything is at rest a TUI shows each entry of the zens and follows
\* panels as the daemon has it, whatever was queued, dropped, replayed after the
\* snapshot or reconnected and whichever goroutines changed the entry before, if
\* its last change was broadcast and crossed no older diff that says the
\* opposite: a change is made before its writer copies the subscribers, the
\* snapshot is read after the subscriber is registered, and a diff is applied by
\* key (Subscribe, snapshot, broadcast, applyDiff).
THEOREM PanelsSettle == Spec => []PanelsConverge
  <1>1. PanelsInv /\ [Next]_vars => PanelsInv'
    BY NextPanels
  <1> QED BY <1>1, InitPanels, RestShowsAll, PTL DEF Spec

============================================================================
