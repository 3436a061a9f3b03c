----------------------------- MODULE FeedPush -----------------------------
(***************************************************************************)
(* How a zen's daemon keeps its TUIs current (internal/daemon/daemon.go,   *)
(* server_grpc.go Subscribe, internal/tui): the feed cache, the subscriber *)
(* queues, and the panels a TUI builds from one snapshot and the diffs     *)
(* after it.                                                               *)
(*                                                                         *)
(* A writer is a goroutine that changes state and then broadcasts: an RPC  *)
(* handler or a sync session.  No lock spans the change, the invalidation  *)
(* and the broadcast, so writers, broadcasts and snapshots interleave.     *)
(*                                                                         *)
(* A post is its timestamp: a larger number is a newer post.               *)
(***************************************************************************)
EXTENDS Integers, FiniteSets, Sequences, SequencesExt

CONSTANTS
    Writers,      \* goroutines that change state
    Viewers,      \* TUIs
    Posts,        \* posts that can be written or merged, numbered by timestamp
    AuthorOf,     \* AuthorOf[p]: who wrote post p
    Me,           \* this zen's identity
    Friends,      \* identities followed all the time
    Tokens,       \* zen tokens
    Targets,      \* identities a user follows and unfollows meanwhile
    QueueCap,     \* subscribeQueue
    PageLimit,    \* feedPageLimit
    Nil,
    MaxEdits,     \* bound: changes of a zen record or a follow edge
    MaxBreaks,    \* bound: streams that break on their own
    MaxSubs       \* bound: subscriptions a viewer opens

Subs == Viewers \X (1 .. MaxSubs)

\* What a store, a cache or a message holds.
PostSets == {S \in SUBSET Posts : IsFiniteSet(S)}

Diff == [panel : {"feed"}, add : PostSets]
        \cup [panel : {"zens"}, key : Tokens, on : BOOLEAN]
        \cup [panel : {"follows"}, key : Targets, on : BOOLEAN]

\* The entries of the keyed panels.
Keys == {"zens"} \X Tokens \cup {"follows"} \X Targets

ASSUME FeedAssumption ==
    /\ Posts \subseteq Nat
    /\ QueueCap \in Nat \ {0} /\ PageLimit \in Nat \ {0}
    /\ MaxEdits \in Nat /\ MaxBreaks \in Nat /\ MaxSubs \in Nat
    /\ Nil \notin Diff

Panels == [feed : PostSets, zens : SUBSET Tokens, follows : SUBSET Targets]

Blank == [feed |-> {}, zens |-> {}, follows |-> {}]

VARIABLES
    stored,     \* posts in the store
    follows,    \* the followed Targets, from the own ProfileLog
    zens,       \* d.zens: the tokens recorded
    rehydrated, \* Start is past rehydrateZens
    loose,      \* history: the keys whose last change went out beside an older
                \* diff that says the opposite, or did not go out at all
    feedGen,    \* d.feedGen
    feedCache,  \* d.feedCache: the posts of the merged timeline, or Nil
    subs,       \* d.subs
    queue,      \* queue[s]: events of subscriber s
    done,       \* done[s]: subscriber s is to be dropped
    writer,     \* writer[w]: where writer w is, what it merged, sends and dials
    viewer,     \* viewer[v]: the Subscribe call of v, with the snapshot it builds
    panel,      \* panel[v]: what the TUI shows
    panicked,   \* a channel was closed twice: the process is gone
    edits, breaks

dataVars == <<stored, follows, zens, rehydrated, loose>>
cacheVars == <<feedGen, feedCache>>
chanVars == <<subs, queue, done, panicked>>
boundVars == <<edits, breaks>>
vars == <<dataVars, cacheVars, chanVars, writer, viewer, panel, boundVars>>

----------------------------------------------------------------------------
\* AllPostsOneTx: own posts and the posts of followed identities.
AllPosts ==
    {p \in stored : AuthorOf[p] \in {Me} \cup Friends \cup follows}

\* Page 0 of a newest-first timeline.
Page(S) == {p \in S : Cardinality({q \in S : q > p}) < PageLimit}

\* The subscription a viewer's Subscribe call serves.
Sub(v) == <<v, viewer[v].n>>

\* A writer hands a diff to broadcast.
Emit(w, d) ==
    writer' = [writer EXCEPT ![w] = [pc |-> "copy", batch |-> {}, diff |-> d, todo |-> <<>>,
                                     tok |-> Nil]]

\* A diff of entry k of panel X.
About(d, X, k) == d # Nil /\ d.panel = X /\ d.key = k

\* Another goroutine has not finished sending a diff that says the opposite.
Crosses(w, d) ==
    \E x \in Writers \ {w} : /\ About(writer[x].diff, d.panel, d.key)
                             /\ writer[x].diff.on # d.on

\* A keyed diff.
Announce(w, d) ==
    /\ Emit(w, d)
    /\ loose' = IF Crosses(w, d) THEN loose \cup {<<d.panel, d.key>>}
                                 ELSE loose \ {<<d.panel, d.key>>}

----------------------------------------------------------------------------
(* Posts.  handlePost appends one post; a session merges any number, each  *)
(* in a transaction of its own, before it publishes them.                  *)

\* SignAndAppend of handlePost.
AppendPost(w, p) ==
    /\ ~panicked /\ writer[w].pc = "idle"
    /\ p \notin stored /\ AuthorOf[p] = Me
    /\ stored' = stored \cup {p}
    /\ writer' = [writer EXCEPT ![w].pc = "invalidate", ![w].batch = {p}]
    /\ UNCHANGED <<follows, zens, rehydrated, loose, cacheVars, chanVars, viewer, panel>>
    /\ UNCHANGED boundVars

\* PutCrawledEvent inserts an event of a session; onMerge keeps it for later.
\* A session pulls from any authenticated zen, followed or not.
MergePost(w, p) ==
    /\ ~panicked /\ writer[w].pc \in {"idle", "session"}
    /\ p \notin stored /\ AuthorOf[p] # Me
    /\ stored' = stored \cup {p}
    /\ writer' = [writer EXCEPT ![w].pc = "session", ![w].batch = @ \cup {p}]
    /\ UNCHANGED <<follows, zens, rehydrated, loose, cacheVars, chanVars, viewer, panel>>
    /\ UNCHANGED boundVars

\* Mutant: the generation moves on and the cache stays.
invalidateFeedKeepsCache(w) ==
    /\ ~panicked /\ writer[w].pc \in {"invalidate", "session"}
    /\ feedGen' = feedGen + 1
    /\ feedCache' = feedCache
    /\ Emit(w, [panel |-> "feed", add |-> writer[w].batch])
    /\ UNCHANGED <<dataVars, chanVars, viewer, panel, boundVars>>

\* The post is signed, or the session returned: invalidateFeed, then emitFeedAdd.
invalidateFeed(w) ==
    /\ ~panicked /\ writer[w].pc \in {"invalidate", "session"}
    /\ feedGen' = feedGen + 1
    /\ feedCache' = Nil
    /\ Emit(w, [panel |-> "feed", add |-> writer[w].batch])
    /\ UNCHANGED <<dataVars, chanVars, viewer, panel, boundVars>>

----------------------------------------------------------------------------
(* Keyed panels: the record changes under its lock, then the diff goes     *)
(* out.  A goroutine that makes several changes makes them one by one.     *)

\* d.zens under d.mu, the diff after the unlock.
EditZen(w, t, on) ==
    /\ zens' = IF on THEN zens \cup {t} ELSE zens \ {t}
    /\ Announce(w, [panel |-> "zens", key |-> t, on |-> on])
    /\ UNCHANGED <<stored, follows, rehydrated, cacheVars, chanVars, viewer, panel, breaks>>

\* A goroutine at rest changes something.
Begin(w) ==
    /\ ~panicked /\ writer[w].pc = "idle"
    /\ edits < MaxEdits /\ edits' = edits + 1

\* A seed, or a token learned by exchange, is recorded.
upsertZen(w, t) == Begin(w) /\ EditZen(w, t, TRUE)

removeZen(w, t) == Begin(w) /\ EditZen(w, t, FALSE)

\* A recorded zen's status goes out; of a zen that is not recorded nothing does.
setZenStatus(w, t) == Begin(w) /\ t \in zens /\ EditZen(w, t, TRUE)

\* followByToken records the token without a diff and dials it.  While Start is
\* not over there may be no transport to dial with: it returns.
followByToken(w, t) ==
    /\ Begin(w)
    /\ zens' = zens \cup {t}
    /\ loose' = IF t \in zens THEN loose ELSE loose \cup {<<"zens", t>>}
    /\ \/ writer' = [writer EXCEPT ![w].pc = "dial", ![w].tok = t]
       \/ ~rehydrated /\ UNCHANGED writer
    /\ UNCHANGED <<stored, follows, rehydrated, cacheVars, chanVars, viewer, panel, breaks>>

\* The dial succeeds or fails, and setZenStatus says so if the zen is still
\* recorded.
DialDone(w) ==
    /\ ~panicked /\ writer[w].pc = "dial"
    /\ \/ writer[w].tok \in zens /\ EditZen(w, writer[w].tok, TRUE)
       \/ /\ writer[w].tok \notin zens
          /\ writer' = [writer EXCEPT ![w].pc = "idle", ![w].tok = Nil]
          /\ UNCHANGED <<dataVars, cacheVars, chanVars, viewer, panel, breaks>>
    /\ UNCHANGED edits

\* rehydrateZens, once, when the socket already serves: the tokens R of the
\* routing table are recorded without a diff.
rehydrateZens(R) ==
    /\ ~panicked /\ ~rehydrated /\ rehydrated' = TRUE
    /\ zens' = zens \cup R
    /\ loose' = loose \cup {"zens"} \X (R \ zens)
    /\ UNCHANGED <<stored, follows, cacheVars, chanVars, writer, viewer, panel, boundVars>>

\* writeFollow and handleUnfollow: the signed event is in the store, then
\* emitFollowsAdd or emitFollowsRemove.  The feed cache is left as it is.
EditFollow(w, a, on) ==
    /\ Begin(w)
    /\ follows' = IF on THEN follows \cup {a} ELSE follows \ {a}
    /\ Announce(w, [panel |-> "follows", key |-> a, on |-> on])
    /\ UNCHANGED <<stored, zens, rehydrated, cacheVars, chanVars, viewer, panel, breaks>>

----------------------------------------------------------------------------
(* broadcast.                                                              *)

\* Copy d.subs under d.mu.
CopySubs(w) ==
    /\ ~panicked /\ writer[w].pc = "copy"
    /\ writer' = [writer EXCEPT ![w].pc = "send", ![w].todo = subs]
    /\ UNCHANGED <<dataVars, cacheVars, chanVars, viewer, panel, boundVars>>

\* Mutant: a full queue loses the event and keeps the subscriber.
SendLossy(w) ==
    /\ ~panicked /\ writer[w].pc = "send" /\ writer[w].todo # <<>>
    /\ LET s == Head(writer[w].todo) IN
         queue' = IF Len(queue[s]) < QueueCap
                  THEN [queue EXCEPT ![s] = Append(@, writer[w].diff)] ELSE queue
    /\ writer' = [writer EXCEPT ![w].todo = Tail(@)]
    /\ UNCHANGED <<dataVars, cacheVars, subs, done, panicked, viewer, panel, boundVars>>

\* Mutant: the queue takes one event more than its capacity.
SendOverfull(w) ==
    /\ ~panicked /\ writer[w].pc = "send" /\ writer[w].todo # <<>>
    /\ LET s == Head(writer[w].todo) IN
         /\ Len(queue[s]) <= QueueCap
         /\ queue' = [queue EXCEPT ![s] = Append(@, writer[w].diff)]
    /\ writer' = [writer EXCEPT ![w].todo = Tail(@)]
    /\ UNCHANGED <<dataVars, cacheVars, subs, done, panicked, viewer, panel, boundVars>>

\* One subscriber: queue the event, or find the queue full.  A full subscriber
\* that is not dropped yet has its channel closed next.
Send(w) ==
    /\ ~panicked /\ writer[w].pc = "send" /\ writer[w].todo # <<>>
    /\ LET s == Head(writer[w].todo) IN
         \/ /\ Len(queue[s]) < QueueCap
            /\ queue' = [queue EXCEPT ![s] = Append(@, writer[w].diff)]
            /\ writer' = [writer EXCEPT ![w].todo = Tail(@)]
         \/ /\ Len(queue[s]) >= QueueCap /\ done[s]
            /\ writer' = [writer EXCEPT ![w].todo = Tail(@)]
            /\ UNCHANGED queue
         \/ /\ Len(queue[s]) >= QueueCap /\ ~done[s]
            /\ writer' = [writer EXCEPT ![w].pc = "close"]
            /\ UNCHANGED queue
    /\ UNCHANGED <<dataVars, cacheVars, subs, done, panicked, viewer, panel, boundVars>>

\* close(s.done): closing a closed channel panics.
CloseDone(w) ==
    /\ ~panicked /\ writer[w].pc = "close"
    /\ LET s == Head(writer[w].todo) IN
         /\ panicked' = done[s]
         /\ done' = [done EXCEPT ![s] = TRUE]
    /\ writer' = [writer EXCEPT ![w].pc = "send", ![w].todo = Tail(@)]
    /\ UNCHANGED <<dataVars, cacheVars, subs, queue, viewer, panel, boundVars>>

\* The broadcast reached every subscriber of its copy.
EndBroadcast(w) ==
    /\ ~panicked /\ writer[w].pc = "send" /\ writer[w].todo = <<>>
    /\ writer' = [writer EXCEPT ![w].pc = "idle", ![w].diff = Nil]
    /\ UNCHANGED <<dataVars, cacheVars, chanVars, viewer, panel, boundVars>>

----------------------------------------------------------------------------
(* Subscribe, and the TUI at the other end of the stream.                  *)

\* The TUI calls Subscribe, at first or after reconnectDelay: the subscriber is
\* registered before the snapshot is built.
Register(v) ==
    /\ ~panicked /\ viewer[v].pc = "off" /\ viewer[v].n < MaxSubs
    /\ viewer' = [viewer EXCEPT ![v].pc = "zens", ![v].n = @ + 1]
    /\ subs' = Append(subs, <<v, viewer[v].n + 1>>)
    /\ UNCHANGED <<dataVars, cacheVars, queue, done, panicked, writer, panel, boundVars>>

\* snapshot copies d.zens under d.mu.
SnapZens(v) ==
    /\ ~panicked /\ viewer[v].pc = "zens"
    /\ viewer' = [viewer EXCEPT ![v].pc = "feed", ![v].snap.zens = zens]
    /\ UNCHANGED <<dataVars, cacheVars, chanVars, writer, panel, boundVars>>

\* cachedPosts, first critical section: a hit, or a miss at this generation.
LookupPosts(v) ==
    /\ ~panicked /\ viewer[v].pc = "feed"
    /\ viewer' = IF feedCache # Nil
                 THEN [viewer EXCEPT ![v].pc = "follows", ![v].snap.feed = Page(feedCache)]
                 ELSE [viewer EXCEPT ![v].pc = "rebuild", ![v].gen = feedGen]
    /\ UNCHANGED <<dataVars, cacheVars, chanVars, writer, panel, boundVars>>

\* cachedPosts, second critical section: another reader's rebuild of the same
\* generation is used, otherwise the store is read and cached under feedMu.
RebuildPosts(v) ==
    /\ ~panicked /\ viewer[v].pc = "rebuild"
    /\ LET S == IF feedCache # Nil /\ feedGen = viewer[v].gen THEN feedCache ELSE AllPosts IN
         /\ feedCache' = S
         /\ viewer' = [viewer EXCEPT ![v].pc = "follows", ![v].snap.feed = Page(S), ![v].gen = 0]
    /\ UNCHANGED <<dataVars, feedGen, chanVars, writer, panel, boundVars>>

\* followEntries, then the snapshot is sent and replaces the TUI's panels.
SendSnapshot(v) ==
    /\ ~panicked /\ viewer[v].pc = "follows"
    /\ panel' = [panel EXCEPT ![v] = [viewer[v].snap EXCEPT !.follows = follows]]
    /\ viewer' = [viewer EXCEPT ![v].pc = "stream", ![v].snap = Blank]
    /\ UNCHANGED <<dataVars, cacheVars, chanVars, writer, boundVars>>

Keyed(S, d) == IF d.on THEN S \cup {d.key} ELSE S \ {d.key}

\* Mutant: a diff's removal is not applied.
ApplyAddsOnly(P, d) ==
    CASE d.panel = "feed"    -> [P EXCEPT !.feed = @ \cup d.add]
      [] d.panel = "zens"    -> [P EXCEPT !.zens = @ \cup {d.key}]
      [] d.panel = "follows" -> [P EXCEPT !.follows = @ \cup {d.key}]

\* applyDiff: upsert or remove by key.
Apply(P, d) ==
    CASE d.panel = "feed"    -> [P EXCEPT !.feed = @ \cup d.add]
      [] d.panel = "zens"    -> [P EXCEPT !.zens = Keyed(@, d)]
      [] d.panel = "follows" -> [P EXCEPT !.follows = Keyed(@, d)]

\* The pump takes an event off the queue and the TUI applies it.
Pump(v) ==
    /\ ~panicked /\ viewer[v].pc = "stream" /\ queue[Sub(v)] # <<>>
    /\ panel' = [panel EXCEPT ![v] = Apply(@, Head(queue[Sub(v)]))]
    /\ queue' = [queue EXCEPT ![Sub(v)] = Tail(@)]
    /\ UNCHANGED <<dataVars, cacheVars, subs, done, panicked, writer, viewer, boundVars>>

\* Subscribe returns: removeSubscriber.  The TUI keeps its panels and calls
\* Subscribe again.
Unsubscribe(v) ==
    /\ subs' = RemoveFirst(subs, Sub(v))
    /\ viewer' = [viewer EXCEPT ![v] = [pc |-> "off", n |-> @.n, gen |-> 0, snap |-> Blank]]
    /\ UNCHANGED <<dataVars, cacheVars, queue, done, panicked, writer, panel, edits>>

\* Mutant: the TUI shows the error and never calls Subscribe again.
DropForGood(v) ==
    /\ ~panicked /\ viewer[v].pc = "stream" /\ done[Sub(v)]
    /\ subs' = RemoveFirst(subs, Sub(v))
    /\ viewer' = [viewer EXCEPT ![v].pc = "closed"]
    /\ UNCHANGED <<dataVars, cacheVars, queue, done, panicked, writer, panel, boundVars>>

\* The pump finds done closed, whatever is still queued.
Drop(v) ==
    /\ ~panicked /\ viewer[v].pc = "stream" /\ done[Sub(v)]
    /\ Unsubscribe(v)
    /\ UNCHANGED breaks

\* The stream breaks: srv.Send fails or its context is cancelled.
Break(v) ==
    /\ ~panicked /\ viewer[v].pc \in {"follows", "stream"}
    /\ breaks < MaxBreaks /\ breaks' = breaks + 1
    /\ Unsubscribe(v)

----------------------------------------------------------------------------
Init ==
    /\ stored = {} /\ follows = {} /\ zens = {}
    /\ rehydrated = FALSE /\ loose = {}
    /\ feedGen = 0 /\ feedCache = Nil
    /\ subs = <<>>
    /\ queue = [s \in Subs |-> <<>>]
    /\ done = [s \in Subs |-> FALSE]
    /\ writer = [w \in Writers |-> [pc |-> "idle", batch |-> {}, diff |-> Nil, todo |-> <<>>,
                                tok |-> Nil]]
    /\ viewer = [v \in Viewers |-> [pc |-> "off", n |-> 0, gen |-> 0, snap |-> Blank]]
    /\ panel = [v \in Viewers |-> Blank]
    /\ panicked = FALSE
    /\ edits = 0 /\ breaks = 0

\* The steps that bring a change to every subscriber.
Publish(w) ==
    \/ invalidateFeed(w) \/ DialDone(w)
    \/ CopySubs(w) \/ Send(w) \/ CloseDone(w) \/ EndBroadcast(w)

Change(w) ==
    \/ \E p \in Posts : AppendPost(w, p) \/ MergePost(w, p)
    \/ \E t \in Tokens :
         upsertZen(w, t) \/ removeZen(w, t) \/ setZenStatus(w, t) \/ followByToken(w, t)
    \/ \E a \in Targets, on \in BOOLEAN : EditFollow(w, a, on)

View(v) ==
    \/ Register(v) \/ SnapZens(v) \/ LookupPosts(v) \/ RebuildPosts(v)
    \/ SendSnapshot(v) \/ Pump(v) \/ Drop(v)

Next ==
    \/ \E w \in Writers : Publish(w) \/ Change(w)
    \/ \E v \in Viewers : View(v) \/ Break(v)
    \/ \E R \in SUBSET Tokens : rehydrateZens(R)

Spec == Init /\ [][Next]_vars

\* A handler runs to its end, a dial has a deadline and a broadcast never blocks;
\* the TUI reads its stream and reconnects; Go picks among ready select cases at
\* random, so a closed done is noticed.  A session need not end: nothing bounds a
\* silent peer.
Fairness ==
    /\ \A w \in Writers : WF_vars(writer[w].pc # "session" /\ Publish(w))
    /\ \A v \in Viewers :
        /\ WF_vars(Register(v) \/ SnapZens(v) \/ LookupPosts(v) \/ RebuildPosts(v)
                   \/ SendSnapshot(v))
        /\ WF_vars(Pump(v))
        /\ WF_vars(Drop(v))

FairSpec == Spec /\ Fairness

----------------------------------------------------------------------------
(* Properties.                                                             *)

\* Every variable has its type.
TypeOK ==
    /\ stored \in PostSets /\ follows \subseteq Targets /\ zens \subseteq Tokens
    /\ rehydrated \in BOOLEAN /\ loose \subseteq Keys
    /\ feedGen \in Nat /\ feedCache \in PostSets \cup {Nil}
    /\ subs \in Seq(Subs)
    /\ queue \in [Subs -> Seq(Diff)] /\ \A s \in Subs : Len(queue[s]) <= QueueCap
    /\ done \in [Subs -> BOOLEAN] /\ panicked \in BOOLEAN
    /\ writer \in [Writers ->
         [pc : {"idle", "session", "invalidate", "dial", "copy", "send", "close"},
          batch : PostSets, diff : Diff \cup {Nil}, todo : Seq(Subs),
          tok : Tokens \cup {Nil}]]
    /\ viewer \in [Viewers ->
         [pc : {"off", "zens", "feed", "rebuild", "follows", "stream"},
          n : 0 .. MaxSubs, gen : Nat, snap : Panels]]
    /\ panel \in [Viewers -> Panels]
    /\ edits \in 0 .. MaxEdits /\ breaks \in 0 .. MaxBreaks

\* A follow leaves the cache and the panels as they are, so the promises below
\* are about the posts of the identities that are followed all the time.
Steady == {p \in stored : AuthorOf[p] \in {Me} \cup Friends}

\* Posts whose writer is past invalidateFeed, and posts whose writer is past
\* its broadcast.
Unpublished == UNION {writer[w].batch : w \in Writers}
InBroadcast ==
    UNION {writer[w].diff.add : w \in {x \in Writers :
                writer[x].diff # Nil /\ writer[x].diff.panel = "feed"}}
Published == Steady \ Unpublished
Delivered == Published \ InBroadcast

\* The feed cache is never behind: whichever readers rebuild it and whichever
\* posts are being written, a cached timeline holds every post whose writer has
\* passed invalidateFeed (cachedPosts, invalidateFeed).
CacheCurrent == feedCache # Nil => Published \subseteq feedCache

Queued(v) ==
    UNION {d.add : d \in {x \in Range(queue[Sub(v)]) : x.panel = "feed"}}

\* No post falls between the snapshot and the diffs: once a post's broadcast is
\* over, every TUI that is connected and not being dropped shows it, has it
\* queued, or shows a full page of newer posts (Subscribe registers before it
\* builds the snapshot).
NoPostLost ==
    \A v \in Viewers : viewer[v].pc = "stream" /\ ~done[Sub(v)] =>
        \A p \in Delivered :
            \/ p \in panel[v].feed \cup Queued(v)
            \/ Cardinality({q \in panel[v].feed : q > p}) >= PageLimit

\* Nothing is under way for viewer v.
Settled(v) ==
    /\ ~panicked
    /\ \A w \in Writers : writer[w].pc = "idle"
    /\ viewer[v].pc = "stream" /\ ~done[Sub(v)] /\ queue[Sub(v)] = <<>>

\* Whatever was queued, dropped, replayed after the snapshot or reconnected, and
\* whoever changed it before, when everything is at rest a TUI shows an entry of
\* the zens and follows panels as the daemon has it, if the entry's last change
\* was broadcast and no older diff that says the opposite was still being sent
\* (snapshot, upsertZen, removeZen, setZenStatus, applyDiff).
PanelsConverge ==
    \A v \in Viewers : Settled(v) =>
        /\ \A t \in Tokens :
             <<"zens", t>> \notin loose => (t \in panel[v].zens <=> t \in zens)
        /\ \A a \in Targets :
             <<"follows", a>> \notin loose => (a \in panel[v].follows <=> a \in follows)

\* Dropping a slow subscriber never takes the process down (broadcast).
DropIsSafe == ~panicked

\* An own post in the store, and a merged post once its session is over, reaches
\* every TUI, through drops, breaks and reconnects, unless a page of newer posts
\* hides it or a panic ends the process.
PostsReachViewers ==
    \A p \in Posts, v \in Viewers :
        (p \in Steady /\ (AuthorOf[p] = Me \/ p \in Published)) ~>
            \/ p \in panel[v].feed
            \/ Cardinality({q \in panel[v].feed : q > p}) >= PageLimit
            \/ panicked

============================================================================
