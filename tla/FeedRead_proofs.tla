--------------------------- MODULE FeedRead_proofs --------------------------
(***************************************************************************)
(* Proofs about FeedRead, for any zens, pages, posts and likes: the like   *)
(* counts of a listing are honest, and with --all-likes complete.          *)
(***************************************************************************)
EXTENDS FeedRead, FiniteSetTheorems, SequenceTheorems, TLAPS

----------------------------------------------------------------------------
(* Likes.                                                                  *)

\* The feed command and the goroutines keep the fields they start with.
FeedShape ==
    feed = [pc |-> feed.pc, page |-> feed.page, mine |-> feed.mine,
            allLikes |-> feed.allLikes, limit |-> feed.limit, items |-> feed.items,
            more |-> feed.more, counts |-> feed.counts, shown |-> feed.shown,
            inserted |-> feed.inserted, kept |-> feed.kept, seen |-> feed.seen,
            shrunk |-> feed.shrunk, promised |-> feed.promised]

FetchShape ==
    /\ fetch = [z \in Others |-> fetch[z]]
    /\ \A z \in Others : fetch[z] = [pc |-> fetch[z].pc, got |-> fetch[z].got]

\* Of two likes of a post by one author a bucket has one.
OneEach(S) == \A k, l \in S : Twins(k, l) => k = l

\* Whatever reached this zen's store or is on its way there was signed.
SignedLikes ==
    /\ IsFiniteSet(likes) /\ held = [z \in Others |-> held[z]]
    /\ \A z \in Others : held[z] \subseteq likes /\ fetch[z].got \subseteq likes
    /\ crawlLikes \subseteq likes /\ OneEach(crawlLikes)

\* The bucket has this like, or another of that post by that author.
Counted(l) == \E k \in crawlLikes : Twins(k, l)

\* Goroutines run only while handleFetchLikes collects their results.
FetchesCollected ==
    feed.pc # "collect" => \A z \in Others : fetch[z] = NoFetch

\* A like that a zen sent in answer to this page is stored, or in a result that
\* handleFetchLikes has not taken yet.
PromisesTracked ==
    /\ feed.pc \in {"idle", "page", "dial"} => feed.promised = {}
    /\ \A l \in feed.promised : l \in likes /\ l \in Like /\ l.target \in ToSet(feed.items)
    /\ feed.pc = "collect" =>
         \A l \in feed.promised :
             Counted(l) \/ \E z \in Others : fetch[z].pc = "got" /\ l \in fetch[z].got
    /\ feed.pc = "populate" => \A l \in feed.promised : Counted(l)

\* The inductive invariant of the counts.
LikesInv ==
    /\ FeedShape /\ FetchShape /\ SignedLikes /\ FetchesCollected /\ PromisesTracked
    /\ LikesHonest /\ LikesFetched

\* What PutCrawledEvent does to a bucket.
LEMMA PutKeeps ==
    ASSUME NEW B, NEW S
    PROVE  /\ B \subseteq PutCrawledEvent(B, S) /\ PutCrawledEvent(B, S) \subseteq B \cup S
           /\ OneEach(B) => OneEach(PutCrawledEvent(B, S))
           /\ \A l \in S : \E k \in PutCrawledEvent(B, S) : Twins(k, l)
  <1> DEFINE new == {l \in S : \A k \in B : ~ Twins(k, l)}
  <1> DEFINE put == {LikeOf(S, l.author, l.target) : l \in new}
  <1>1. PutCrawledEvent(B, S) = B \cup put
    BY DEF PutCrawledEvent
  <1>2. ASSUME NEW l \in S
        PROVE  LET k == LikeOf(S, l.author, l.target)
               IN  k \in S /\ k.author = l.author /\ k.target = l.target
    BY DEF LikeOf
  <1>3. put \subseteq S /\ \A k \in put : \A b \in B : ~ Twins(b, k)
    BY <1>2 DEF Twins
  <1>4. ASSUME NEW k \in put, NEW l \in put, Twins(k, l) PROVE k = l
    <2>1. PICK x \in new : k = LikeOf(S, x.author, x.target)
      OBVIOUS
    <2>2. PICK y \in new : l = LikeOf(S, y.author, y.target)
      OBVIOUS
    <2>3. x.author = y.author /\ x.target = y.target
      BY <1>2, <1>4, <2>1, <2>2 DEF Twins
    <2> QED BY <2>1, <2>2, <2>3
  <1>5. ASSUME NEW l \in S PROVE \E k \in B \cup put : Twins(k, l)
    <2>1. CASE l \in new
      <3>1. LikeOf(S, l.author, l.target) \in put /\ Twins(LikeOf(S, l.author, l.target), l)
        BY <1>2, <2>1 DEF Twins
      <3> QED BY <3>1
    <2> QED BY <2>1
  <1> HIDE DEF put
  <1>6. OneEach(B) => OneEach(B \cup put)
    BY <1>3, <1>4 DEF OneEach, Twins
  <1> QED BY <1>1, <1>3, <1>5, <1>6

\* How often the likes S count for one liker of a post.
LEMMA LikesInCounts ==
    ASSUME NEW S, IsFiniteSet(S), NEW p, NEW z
    PROVE  /\ LikesIn(S, p, z) \in Nat
           /\ LikesIn(S, p, z) > 0 <=> \E l \in S : l.target = p /\ l.author = z
           /\ OneEach(S) => LikesIn(S, p, z) <= 1
  <1> DEFINE A == {l \in S : l.target = p /\ l.author = z}
  <1>1. IsFiniteSet(A) /\ LikesIn(S, p, z) = Cardinality(A) /\ Cardinality(A) \in Nat
    BY FS_Subset, FS_CardinalityType DEF LikesIn
  <1>2. Cardinality(A) = 0 <=> A = {}
    BY <1>1, FS_EmptySet
  <1>3. ASSUME OneEach(S), NEW x \in A PROVE Cardinality(A) = 1
    <2>1. A = {x}
      BY <1>3 DEF OneEach, Twins
    <2> QED BY <2>1, FS_Singleton
  <1>4. OneEach(S) => Cardinality(A) <= 1
    BY <1>1, <1>2, <1>3
  <1>5. A # {} <=> \E l \in S : l.target = p /\ l.author = z
    OBVIOUS
  <1> HIDE DEF A
  <1> QED BY <1>1, <1>2, <1>4, <1>5

\* What is counted is signed, others count once, and what the bucket has is
\* counted.
LEMMA CountsHonest ==
    ASSUME SignedLikes, NEW p, NEW z \in Zens
    PROVE  /\ LikesForPosts(p)[z] > 0 => \E l \in likes : l.author = z /\ l.target = p
           /\ z # me => LikesForPosts(p)[z] <= 1
           /\ (\E k \in crawlLikes : k.author = z /\ k.target = p) => LikesForPosts(p)[z] > 0
  <1>1. IsFiniteSet(OwnLikes) /\ IsFiniteSet(crawlLikes)
    BY FS_Subset DEF SignedLikes, OwnLikes
  <1>2. OwnLikes \subseteq likes /\ crawlLikes \subseteq likes /\ OneEach(crawlLikes)
    BY DEF SignedLikes, OwnLikes
  <1>3. z # me => ~ \E l \in OwnLikes : l.target = p /\ l.author = z
    BY DEF OwnLikes
  <1>4. LikesForPosts(p)[z] = LikesIn(OwnLikes, p, z) + LikesIn(crawlLikes, p, z)
    BY DEF LikesForPosts
  <1>5. /\ LikesIn(OwnLikes, p, z) \in Nat
        /\ LikesIn(OwnLikes, p, z) > 0 <=> \E l \in OwnLikes : l.target = p /\ l.author = z
    BY <1>1, LikesInCounts
  <1>6. /\ LikesIn(crawlLikes, p, z) \in Nat /\ LikesIn(crawlLikes, p, z) <= 1
        /\ LikesIn(crawlLikes, p, z) > 0 <=> \E l \in crawlLikes : l.target = p /\ l.author = z
    BY <1>1, <1>2, LikesInCounts
  <1> QED BY <1>2, <1>3, <1>4, <1>5, <1>6

\* More signed likes, some of them stored, keep what was counted.
LEMMA LikesGrow ==
    ASSUME LikesInv, likes \subseteq likes', IsFiniteSet(likes'), UNCHANGED <<feed, fetch>>,
           crawlLikes \subseteq crawlLikes', crawlLikes' \subseteq likes', OneEach(crawlLikes'),
           held' = [z \in Others |-> held'[z]], \A z \in Others : held'[z] \subseteq likes'
    PROVE  LikesInv'
  <1>1. (FeedShape /\ FetchShape /\ FetchesCollected)'
    BY DEF LikesInv, FeedShape, FetchShape, FetchesCollected
  <1>2. SignedLikes'
    BY DEF LikesInv, SignedLikes
  <1>3. PromisesTracked'
    BY DEF LikesInv, PromisesTracked, Counted
  <1>4. LikesHonest' /\ LikesFetched'
    BY DEF LikesInv, LikesHonest, LikesFetched
  <1> QED BY <1>1, <1>2, <1>3, <1>4 DEF LikesInv

\* What happens outside the command preserves the invariant.
LEMMA MeanwhileLikes == LikesInv /\ Meanwhile => LikesInv'
  <1> SUFFICES ASSUME LikesInv, Meanwhile PROVE LikesInv'
    OBVIOUS
  <1>0. /\ held = [z \in Others |-> held[z]] /\ \A z \in Others : held[z] \subseteq likes
        /\ IsFiniteSet(likes) /\ crawlLikes \subseteq likes /\ OneEach(crawlLikes)
    BY DEF LikesInv, SignedLikes
  <1>s. ASSUME UNCHANGED <<likes, held, crawlLikes, feed, fetch>> PROVE LikesInv'
    BY <1>0, <1>s, LikesGrow
  <1>1. ASSUME NEW z \in Authors, PostNow(z) PROVE LikesInv'
    BY <1>s, <1>1 DEF PostNow
  <1>2. ASSUME NEW z \in Zens, NEW p \in posts, NEW m \in 1 .. Machines, HandleLike(z, p, m)
        PROVE  LikesInv'
    <2>1. PICK like : /\ likes' = likes \cup {like}
                      /\ held' = [y \in Others |-> IF y = z /\ m = 1 THEN held[y] \cup {like}
                                                                      ELSE held[y]]
                      /\ UNCHANGED <<crawlLikes, feed, fetch>>
      BY <1>2 DEF HandleLike
    <2>2. IsFiniteSet(likes')
      BY <1>0, <2>1, FS_AddElement
    <2> QED BY <1>0, <2>1, <2>2, LikesGrow
  <1>3. ASSUME NEW z \in Authors \ {me}, NEW m \in 1 .. Machines, Sync(z, m) PROVE LikesInv'
    <2>1. PICK S : S \subseteq likes /\ crawlLikes' = PutCrawledEvent(crawlLikes, S)
      BY <1>3 DEF Sync
    <2>2. UNCHANGED <<likes, held, feed, fetch>>
      BY <1>3 DEF Sync, signedVars
    <2> QED BY <1>0, <2>1, <2>2, PutKeeps, LikesGrow
  <1>4. ASSUME NEW z \in Authors \ {me}, Turn(z) PROVE LikesInv'
    BY <1>s, <1>4 DEF Turn, signedVars
  <1>5. ASSUME NEW z \in Others, NEW m \in 1 .. Machines, NEW from \in Zens,
               SyncElsewhere(z, from, m)
        PROVE  LikesInv'
    <2>1. PICK S : S \subseteq likes /\ held' = [held EXCEPT ![z] = PutCrawledEvent(held[z], S)]
      BY <1>5 DEF SyncElsewhere
    <2>2. PutCrawledEvent(held[z], S) \subseteq likes
      BY <1>0, <2>1, PutKeeps
    <2>3. held' = [y \in Others |-> held'[y]] /\ \A y \in Others : held'[y] \subseteq likes
      BY <1>0, <2>1, <2>2
    <2> QED BY <1>0, <1>5, <2>3, LikesGrow DEF SyncElsewhere, storeVars
  <1>6. CASE WarmCache
    BY <1>s, <1>6 DEF WarmCache, signedVars
  <1> QED BY <1>1, <1>2, <1>3, <1>4, <1>5, <1>6 DEF Meanwhile

\* The steps of the command and its goroutines preserve the invariant.
LEMMA FeedStepLikes == LikesInv /\ FeedStep => LikesInv'
  <1> SUFFICES ASSUME LikesInv, FeedStep PROVE LikesInv'
    OBVIOUS
  <1>0. FeedShape /\ FetchShape /\ SignedLikes /\ FetchesCollected /\ PromisesTracked
    BY DEF LikesInv
  <1>1. CASE HandleFeedPage
    <2>1. FeedShape'
      BY <1>0, <1>1 DEF HandleFeedPage, FeedShape
    <2>2. /\ feed.pc = "page" /\ feed'.pc \in {"dial", "populate"} /\ feed'.promised = feed.promised
          /\ UNCHANGED <<likes, held, crawlLikes, fetch>>
      BY <1>0, <1>1 DEF HandleFeedPage, FeedShape, signedVars
    <2>3. (FetchShape /\ SignedLikes /\ FetchesCollected)'
      BY <1>0, <2>2 DEF FetchShape, SignedLikes, FetchesCollected
    <2>4. PromisesTracked'
      BY <1>0, <2>2 DEF PromisesTracked
    <2>5. LikesHonest' /\ LikesFetched'
      BY <2>2 DEF LikesHonest, LikesFetched
    <2> QED BY <2>1, <2>3, <2>4, <2>5 DEF LikesInv
  <1>2. CASE FetchDone
    <2>1. FeedShape'
      BY <1>0, <1>2 DEF FetchDone, FeedShape
    <2>2. /\ feed.pc = "collect" /\ \A z \in Others : fetch[z].pc = "end"
          /\ feed'.pc = "populate" /\ feed'.promised = feed.promised /\ feed'.items = feed.items
          /\ fetch' = [z \in Others |-> NoFetch]
          /\ UNCHANGED <<likes, held, crawlLikes>>
      BY <1>0, <1>2 DEF FetchDone, FeedShape, signedVars
    <2>3. (FetchShape /\ SignedLikes /\ FetchesCollected)'
      BY <1>0, <2>2 DEF FetchShape, SignedLikes, FetchesCollected, NoFetch
    <2>4. PromisesTracked'
      BY <1>0, <2>2 DEF PromisesTracked, Counted
    <2>5. LikesHonest' /\ LikesFetched'
      BY <2>2 DEF LikesHonest, LikesFetched
    <2> QED BY <2>1, <2>3, <2>4, <2>5 DEF LikesInv
  <1>3. CASE Populate
    <2>1. FeedShape'
      BY <1>0, <1>3 DEF Populate, FeedShape
    <2>2. /\ feed.pc = "populate" /\ feed'.pc = "print" /\ feed'.promised = feed.promised
          /\ feed'.items = feed.items
          /\ feed'.counts = [p \in ToSet(feed.items) |-> LikesForPosts(p)]
          /\ UNCHANGED <<likes, held, crawlLikes, fetch>>
      BY <1>0, <1>3 DEF Populate, FeedShape, signedVars, storeVars, populateLikes
    <2>3. (FetchShape /\ SignedLikes /\ FetchesCollected)'
      BY <1>0, <2>2 DEF FetchShape, SignedLikes, FetchesCollected
    <2>4. PromisesTracked'
      BY <1>0, <2>2 DEF PromisesTracked
    <2>5. LikesHonest'
      <3> SUFFICES ASSUME NEW p \in ToSet(feed.items), NEW z \in Zens
                   PROVE  /\ feed'.counts[p][z] > 0 => \E l \in likes : l.author = z /\ l.target = p
                          /\ z # me => feed'.counts[p][z] <= 1
        BY <2>2 DEF LikesHonest
      <3>1. feed'.counts[p] = LikesForPosts(p)
        BY <2>2
      <3> QED BY <1>0, <3>1, CountsHonest
    <2>6. LikesFetched'
      <3> SUFFICES ASSUME NEW l \in feed.promised
                   PROVE  feed'.counts[l.target][l.author] > 0
        BY <2>2 DEF LikesFetched
      <3>1. l \in likes /\ l \in Like /\ l.target \in ToSet(feed.items) /\ Counted(l)
        BY <1>0, <2>2 DEF PromisesTracked
      <3>2. l.author \in Zens /\ \E k \in crawlLikes : k.author = l.author /\ k.target = l.target
        BY <3>1 DEF Like, Counted, Twins
      <3>3. feed'.counts[l.target] = LikesForPosts(l.target)
        BY <2>2, <3>1
      <3> QED BY <1>0, <3>1, <3>2, <3>3, CountsHonest
    <2> QED BY <2>1, <2>3, <2>4, <2>5, <2>6 DEF LikesInv
  <1>4. CASE PrintPage
    <2>1. FeedShape'
      BY <1>0, <1>4 DEF PrintPage, FeedShape
    <2>2. /\ feed.pc = "print" /\ feed'.pc \in {"done", "page"} /\ feed'.promised = {}
          /\ UNCHANGED <<likes, held, crawlLikes, fetch>>
      BY <1>0, <1>4 DEF PrintPage, FeedShape, signedVars, storeVars
    <2>3. (FetchShape /\ SignedLikes /\ FetchesCollected)'
      BY <1>0, <2>2 DEF FetchShape, SignedLikes, FetchesCollected
    <2>4. PromisesTracked'
      BY <2>2 DEF PromisesTracked
    <2>5. LikesHonest' /\ LikesFetched'
      BY <2>2 DEF LikesHonest, LikesFetched
    <2> QED BY <2>1, <2>3, <2>4, <2>5 DEF LikesInv
  <1>5. ASSUME NEW ready \in BOOLEAN, HandleFetchLikes(ready) PROVE LikesInv'
    <2>1. FeedShape'
      BY <1>0, <1>5 DEF HandleFetchLikes, FeedShape
    <2>2. /\ feed.pc = "dial" /\ feed'.promised = feed.promised /\ feed'.items = feed.items
          /\ UNCHANGED <<likes, held, crawlLikes>>
          /\ \/ feed'.pc = "collect" /\ fetch' = [z \in Others |-> [pc |-> "ask", got |-> {}]]
             \/ feed'.pc = "populate" /\ UNCHANGED fetch
      BY <1>0, <1>5 DEF HandleFetchLikes, FeedShape, signedVars, storeVars
    <2>3. (FetchShape /\ SignedLikes /\ FetchesCollected)'
      BY <1>0, <2>2 DEF FetchShape, SignedLikes, FetchesCollected
    <2>4. PromisesTracked'
      BY <1>0, <2>2 DEF PromisesTracked
    <2>5. LikesHonest' /\ LikesFetched'
      BY <2>2 DEF LikesHonest, LikesFetched
    <2> QED BY <2>1, <2>3, <2>4, <2>5 DEF LikesInv
  <1>6. ASSUME NEW z \in Others, StoreLikes(z) PROVE LikesInv'
    <2>1. FeedShape'
      BY <1>0, <1>6 DEF StoreLikes, FeedShape
    <2>2. /\ fetch[z].pc = "got" /\ feed'.pc = feed.pc
          /\ feed'.promised = feed.promised /\ feed'.items = feed.items /\ feed'.counts = feed.counts
          /\ crawlLikes' = PutCrawledEvent(crawlLikes, fetch[z].got)
          /\ fetch' = [fetch EXCEPT ![z].pc = "end"]
          /\ UNCHANGED <<likes, held>>
      BY <1>0, <1>6 DEF StoreLikes, FeedShape, signedVars
    <2>p. /\ crawlLikes \subseteq crawlLikes' /\ crawlLikes' \subseteq crawlLikes \cup fetch[z].got
          /\ OneEach(crawlLikes) => OneEach(crawlLikes')
          /\ \A l \in fetch[z].got : \E k \in crawlLikes' : Twins(k, l)
      BY <2>2, PutKeeps
    <2>3. feed.pc = "collect"
      BY <1>0, <2>2 DEF FetchesCollected, NoFetch
    <2>4. \A y \in Others : fetch'[y].got = fetch[y].got
                            /\ (y # z => fetch'[y] = fetch[y])
      BY <1>0, <2>2 DEF FetchShape
    <2>5. (FetchShape /\ SignedLikes /\ FetchesCollected)'
      <3>1. FetchShape'
        BY <1>0, <2>2 DEF FetchShape
      <3>2. SignedLikes'
        BY <1>0, <2>2, <2>4, <2>p DEF SignedLikes, OneEach
      <3> QED BY <3>1, <3>2, <2>2, <2>3 DEF FetchesCollected
    <2>6. PromisesTracked'
      <3>1. \A l \in feed.promised :
                Counted(l)' \/ \E y \in Others : fetch'[y].pc = "got" /\ l \in fetch'[y].got
        <4> SUFFICES ASSUME NEW l \in feed.promised
                     PROVE  Counted(l)' \/ \E y \in Others : fetch'[y].pc = "got" /\ l \in fetch'[y].got
          OBVIOUS
        <4>1. CASE Counted(l)
          BY <2>p, <4>1 DEF Counted
        <4>2. CASE \E y \in Others : fetch[y].pc = "got" /\ l \in fetch[y].got
          <5>1. PICK y \in Others : fetch[y].pc = "got" /\ l \in fetch[y].got
            BY <4>2
          <5>2. CASE y = z
            BY <2>p, <5>1, <5>2 DEF Counted
          <5>3. CASE y # z
            BY <2>4, <5>1, <5>3
          <5> QED BY <5>2, <5>3
        <4> QED BY <1>0, <2>3, <4>1, <4>2 DEF PromisesTracked
      <3> QED BY <1>0, <2>2, <2>3, <3>1 DEF PromisesTracked
    <2>7. LikesHonest' /\ LikesFetched'
      BY <2>2, <2>3 DEF LikesHonest, LikesFetched
    <2> QED BY <2>1, <2>5, <2>6, <2>7 DEF LikesInv
  <1>7. ASSUME NEW z \in Others, NEW how \in {"fails", "answers", "cut", "lies"}, FetchLikes(z, how)
        PROVE  LikesInv'
    <2>1. FeedShape'
      BY <1>0, <1>7 DEF FetchLikes, FeedShape
    <2>2. PICK S \in SUBSET Wanted(feed.items) :
            /\ how = "answers" => S = handleLikeRequest(z, Wanted(feed.items))
            /\ fetch' = [fetch EXCEPT ![z] = [pc |-> "got", got |-> Verify(S)]]
            /\ feed' = [feed EXCEPT !.promised =
                          IF how = "answers" THEN @ \cup handleLikeRequest(z, Wanted(feed.items)) ELSE @]
      BY <1>7 DEF FetchLikes
    <2>3. /\ fetch[z].pc = "ask" /\ UNCHANGED <<likes, held, crawlLikes>>
      BY <1>7 DEF FetchLikes, signedVars, storeVars
    <2>4. /\ feed'.pc = feed.pc /\ feed'.items = feed.items /\ feed'.counts = feed.counts
          /\ feed'.promised \subseteq feed.promised \cup (IF how = "answers" THEN S ELSE {})
      BY <1>0, <2>2 DEF FeedShape
    <2>5. feed.pc = "collect"
      BY <1>0, <2>3 DEF FetchesCollected, NoFetch
    <2>6. \A y \in Others : y # z => fetch'[y] = fetch[y]
      BY <1>0, <2>2 DEF FetchShape
    <2>7. fetch'[z].pc = "got" /\ fetch'[z].got = S \cap likes
      BY <1>0, <2>2 DEF FetchShape, Verify
    <2>8. (FetchShape /\ SignedLikes /\ FetchesCollected)'
      <3>1. FetchShape'
        BY <1>0, <2>2 DEF FetchShape
      <3>2. SignedLikes'
        BY <1>0, <2>3, <2>6, <2>7 DEF SignedLikes
      <3> QED BY <3>1, <3>2, <2>4, <2>5 DEF FetchesCollected
    <2>9. PromisesTracked'
      <3> SUFFICES ASSUME NEW l \in feed'.promised
                   PROVE  /\ l \in likes /\ l \in Like /\ l.target \in ToSet(feed.items)
                          /\ Counted(l)' \/ \E y \in Others : fetch'[y].pc = "got" /\ l \in fetch'[y].got
        BY <2>3, <2>4, <2>5 DEF PromisesTracked
      <3>1. CASE l \in feed.promised
        <4>1. l \in likes /\ l \in Like /\ l.target \in ToSet(feed.items)
          BY <1>0, <3>1 DEF PromisesTracked
        <4>2. CASE Counted(l)
          BY <2>3, <4>1, <4>2 DEF Counted
        <4>3. CASE \E y \in Others : fetch[y].pc = "got" /\ l \in fetch[y].got
          BY <2>3, <2>6, <4>1, <4>3
        <4> QED BY <1>0, <2>5, <3>1, <4>2, <4>3 DEF PromisesTracked
      <3>2. CASE l \notin feed.promised
        <4>1. how = "answers" /\ l \in S
          BY <2>4, <3>2
        <4>2. l \in held[z] /\ l \in Wanted(feed.items)
          BY <2>2, <4>1 DEF handleLikeRequest
        <4>3. l \in likes
          BY <1>0, <4>2 DEF SignedLikes
        <4> QED BY <2>7, <4>1, <4>2, <4>3 DEF Wanted
      <3> QED BY <3>1, <3>2
    <2>10. LikesHonest' /\ LikesFetched'
      BY <2>4, <2>5 DEF LikesHonest, LikesFetched
    <2> QED BY <2>1, <2>8, <2>9, <2>10 DEF LikesInv
  <1> QED BY <1>1, <1>2, <1>3, <1>4, <1>5, <1>6, <1>7 DEF FeedStep

\* The invariant of the counts holds in every reachable state.
LEMMA LikesInvariant == Spec => []LikesInv
  <1>1. Init => LikesInv
    BY FS_EmptySet DEF Init, LikesInv, FeedShape, FetchShape, SignedLikes, FetchesCollected,
           PromisesTracked, LikesHonest, LikesFetched, IdleFeed, NoFetch, OneEach
  <1>2. LikesInv /\ [Next]_vars => LikesInv'
    <2> SUFFICES ASSUME LikesInv, [Next]_vars PROVE LikesInv'
      OBVIOUS
    <2>1. CASE FeedStep
      BY <2>1, FeedStepLikes
    <2>2. CASE Meanwhile
      BY <2>2, MeanwhileLikes
    <2>3. ASSUME NEW use \in Uses, RunFeed(use) PROVE LikesInv'
      <3>1. FeedShape'
        BY <2>3 DEF RunFeed, FeedShape, IdleFeed
      <3>2. /\ feed.pc = "idle" /\ feed'.pc = "page" /\ feed'.promised = {}
            /\ UNCHANGED <<likes, held, crawlLikes, fetch>>
        BY <2>3 DEF RunFeed, IdleFeed, signedVars, storeVars
      <3>3. (FetchShape /\ SignedLikes /\ FetchesCollected /\ PromisesTracked)'
        BY <3>2 DEF LikesInv, FetchShape, SignedLikes, FetchesCollected, PromisesTracked
      <3>4. LikesHonest' /\ LikesFetched'
        BY <3>2 DEF LikesHonest, LikesFetched
      <3> QED BY <3>1, <3>3, <3>4 DEF LikesInv
    <2>4. CASE UNCHANGED vars
      <3>1. UNCHANGED <<likes, held, crawlLikes, feed, fetch>>
        BY <2>4 DEF vars, signedVars, storeVars
      <3> QED BY <3>1, LikesGrow DEF LikesInv, SignedLikes
    <2> QED BY <2>1, <2>2, <2>3, <2>4 DEF Next
  <1> QED BY <1>1, <1>2, PTL DEF Spec

\* Like counts are honest whatever the zens that are asked send, in whatever
\* order and however often, and on however many machines a post was liked
\* (FetchLikes, PutCrawledEvent, populateLikes).
THEOREM CountsAreHonest == Spec => []LikesHonest
  <1>1. LikesInv => LikesHonest
    BY DEF LikesInv
  <1> QED BY <1>1, LikesInvariant, PTL

\* With --all-likes every like that a zen sent in answer to a page is counted on
\* that page, whichever of the other zens fail, lie or hang up (handleFetchLikes).
THEOREM FetchedLikesCount == Spec => []LikesFetched
  <1>1. LikesInv => LikesFetched
    BY DEF LikesInv
  <1> QED BY <1>1, LikesInvariant, PTL

----------------------------------------------------------------------------
(* The order of a timeline.                                                *)

\* Posts with times, no two the same.
Dated(S) ==
    /\ IsFiniteSet(S)
    /\ \A p \in S : p.ts \in Nat
    /\ \A p, q \in S : p.ts = q.ts => p = q

\* A part of such a set is one too.
LEMMA DatedSubset == ASSUME NEW T, Dated(T), NEW S, S \subseteq T PROVE Dated(S)
  BY FS_Subset DEF Dated

\* A post is at most as far down as there are posts.
LEMMA RankType ==
    ASSUME NEW S, Dated(S), NEW p \in S
    PROVE  Rank(S, p) \in 1 .. Cardinality(S)
  <1> DEFINE A == {q \in S : q.ts >= p.ts}
  <1>1. A \subseteq S /\ IsFiniteSet(S) /\ p \in A
    BY DEF Dated
  <1>2. /\ IsFiniteSet(A) /\ Cardinality(A) \in Nat /\ Cardinality(S) \in Nat
        /\ Cardinality(A) <= Cardinality(S)
    BY <1>1, FS_Subset, FS_CardinalityType
  <1>3. Cardinality(A) # 0
    BY <1>1, <1>2, FS_EmptySet
  <1> QED BY <1>2, <1>3 DEF Rank

\* In a larger set a post is no further up.
LEMMA RankGrows ==
    ASSUME NEW T, Dated(T), NEW S, S \subseteq T, NEW p \in S
    PROVE  Rank(S, p) <= Rank(T, p)
  <1> DEFINE A == {q \in S : q.ts >= p.ts}
  <1> DEFINE B == {q \in T : q.ts >= p.ts}
  <1>1. A \subseteq B /\ B \subseteq T /\ IsFiniteSet(T)
    BY DEF Dated
  <1>2. IsFiniteSet(B)
    BY <1>1, FS_Subset
  <1> QED BY <1>1, <1>2, FS_Subset DEF Rank

\* An older post is further down.
LEMMA RankOrder ==
    ASSUME NEW S, Dated(S), NEW p \in S, NEW q \in S, p.ts > q.ts
    PROVE  Rank(S, p) < Rank(S, q)
  <1> DEFINE A == {r \in S : r.ts >= p.ts}
  <1> DEFINE B == {r \in S : r.ts >= q.ts}
  <1>1. A \subseteq B /\ B \subseteq S /\ q \in B /\ q \notin A /\ IsFiniteSet(S)
    BY DEF Dated
  <1>2. IsFiniteSet(B) /\ IsFiniteSet(A)
    BY <1>1, FS_Subset
  <1>3. /\ Cardinality(A) \in Nat /\ Cardinality(B) \in Nat
        /\ Cardinality(A) <= Cardinality(B) /\ (Cardinality(B) = Cardinality(A) => B = A)
    BY <1>1, <1>2, FS_Subset, FS_CardinalityType
  <1> QED BY <1>1, <1>3 DEF Rank

\* Every place of the timeline is taken by one post.
LEMMA RankOnto ==
    ASSUME NEW S, Dated(S)
    PROVE  /\ \A p, q \in S : Rank(S, p) = Rank(S, q) => p = q
           /\ \A i \in 1 .. Cardinality(S) : \E p \in S : Rank(S, p) = i
  <1> DEFINE n == Cardinality(S)
  <1> DEFINE f == [p \in S |-> Rank(S, p)]
  <1>1. n \in Nat
    BY FS_CardinalityType DEF Dated
  <1>2. \A p, q \in S : Rank(S, p) = Rank(S, q) => p = q
    <2> SUFFICES ASSUME NEW p \in S, NEW q \in S, p # q PROVE Rank(S, p) # Rank(S, q)
      OBVIOUS
    <2>1. p.ts \in Nat /\ q.ts \in Nat /\ p.ts # q.ts
      BY DEF Dated
    <2>2. Rank(S, p) \in Nat /\ Rank(S, q) \in Nat
      BY <1>1, RankType
    <2>3. CASE p.ts > q.ts
      BY <2>2, <2>3, RankOrder
    <2>4. CASE q.ts > p.ts
      BY <2>2, <2>4, RankOrder
    <2> QED BY <2>1, <2>3, <2>4
  <1>3. f \in [S -> 1 .. n]
    BY RankType
  <1>4. \A p, q \in S : f[p] = f[q] => p = q
    BY <1>2
  <1>5. IsFiniteSet(1 .. n) /\ Cardinality(1 .. n) = n
    BY <1>1, FS_Interval
  <1>6. f \in Surjection(S, 1 .. n)
    <2> HIDE DEF f
    <2>1. f \in Injection(S, 1 .. n)
      BY <1>3, <1>4 DEF Injection, IsInjective
    <2> QED BY <2>1, <1>5, FS_Injection
  <1>7. \A i \in 1 .. n : \E p \in S : f[p] = i
    <2> HIDE DEF f
    <2> QED BY <1>6 DEF Surjection
  <1> QED BY <1>2, <1>7

\* NewestFirst lists each post of S once, at its rank.
LEMMA NewestFirstSorts ==
    ASSUME NEW S, Dated(S)
    PROVE  /\ NewestFirst(S) \in Seq(S) /\ Len(NewestFirst(S)) = Cardinality(S)
           /\ \A i \in 1 .. Cardinality(S) :
                  NewestFirst(S)[i] \in S /\ Rank(S, NewestFirst(S)[i]) = i
           /\ \A p \in S : NewestFirst(S)[Rank(S, p)] = p
           /\ ToSet(NewestFirst(S)) = S
  <1> DEFINE n == Cardinality(S)
  <1> DEFINE s == NewestFirst(S)
  <1>1. n \in Nat
    BY FS_CardinalityType DEF Dated
  <1>2. s = [i \in 1 .. n |-> CHOOSE p \in S : Rank(S, p) = i]
    BY DEF NewestFirst
  <1>3. \A i \in 1 .. n : s[i] \in S /\ Rank(S, s[i]) = i
    <2> TAKE i \in 1 .. n
    <2>1. \E p \in S : Rank(S, p) = i
      BY RankOnto
    <2>2. s[i] = CHOOSE p \in S : Rank(S, p) = i
      BY <1>2
    <2> QED BY <2>1, <2>2
  <1>4. s \in [1 .. n -> S]
    BY <1>2, <1>3
  <1>5. s \in Seq(S) /\ Len(s) = n
    BY <1>1, <1>4
  <1>6. \A p \in S : Rank(S, p) \in 1 .. n /\ s[Rank(S, p)] = p
    BY <1>3, RankType, RankOnto
  <1>7. ToSet(s) = S
    BY <1>3, <1>4, <1>6 DEF ToSet
  <1> QED BY <1>3, <1>5, <1>6, <1>7

\* A place below a is place r - a of a sequence cut from a + 1 to c.
LEMMA CutPlace ==
    ASSUME NEW r \in Nat, NEW a \in Nat, NEW c \in Nat, r > a, r <= c
    PROVE  /\ r - a \in 1 .. (c - (a + 1) + 1)
           /\ a + 1 <= c /\ a + 1 + (r - a) - 1 = r
  OBVIOUS

\* The first places of two neighbouring pages.
LEMMA PageStart ==
    ASSUME NEW n \in Nat
    PROVE  n * feedPageLimit \in Nat /\ (n + 1) * feedPageLimit \in Nat
  <1>1. n + 1 \in Nat /\ feedPageLimit \in Nat
    BY FeedReadAssumption
  <1> QED BY <1>1

\* A page holds the posts of its ranks; what is further down is left for later,
\* and there is a later page.
LEMMA PageHolds ==
    ASSUME NEW S, Dated(S), NEW n \in Nat
    PROVE  /\ Page(NewestFirst(S), n) \in Seq(S)
           /\ \A p \in S : Rank(S, p) > n * feedPageLimit =>
                \/ p \in ToSet(Page(NewestFirst(S), n))
                \/ /\ Rank(S, p) > (n + 1) * feedPageLimit
                   /\ (n + 1) * feedPageLimit < Len(NewestFirst(S))
  <1> DEFINE v == NewestFirst(S)
  <1> DEFINE a == n * feedPageLimit
  <1> DEFINE b == (n + 1) * feedPageLimit
  <1> DEFINE c == IF b < Len(v) THEN b ELSE Len(v)
  <1>1. a \in Nat /\ b \in Nat
    BY PageStart
  <1>2. /\ v \in Seq(S) /\ Len(v) \in Nat /\ Len(v) = Cardinality(S)
        /\ \A i \in 1 .. Len(v) : v[i] \in S
        /\ \A p \in S : Rank(S, p) \in 1 .. Len(v) /\ v[Rank(S, p)] = p
    BY NewestFirstSorts, RankType, LenProperties
  <1>3. Page(v, n) = SubSeq(v, a + 1, c)
    BY DEF Page
  <1> HIDE DEF v, a, b
  <1>4. a + 1 \in Int /\ c \in Int /\ c <= Len(v) /\ (c = b \/ c = Len(v))
    BY <1>1, <1>2
  <1> HIDE DEF c
  <1>5. \A i \in a + 1 .. c : v[i] \in S
    BY <1>1, <1>2, <1>4
  <1>6. /\ Page(v, n) \in Seq(S)
        /\ Len(Page(v, n)) = IF a + 1 <= c THEN c - (a + 1) + 1 ELSE 0
        /\ \A i \in 1 .. c - (a + 1) + 1 : Page(v, n)[i] = v[a + 1 + i - 1]
    BY <1>3, <1>4, <1>5, SubSeqProperties
  <1>7. ASSUME NEW p \in S, Rank(S, p) > a, Rank(S, p) <= c
        PROVE  p \in ToSet(Page(v, n))
    <2> DEFINE j == Rank(S, p) - a
    <2>1. Rank(S, p) \in Nat /\ c \in Nat
      BY <1>1, <1>2, <1>4
    <2>2. /\ j \in 1 .. (c - (a + 1) + 1) /\ a + 1 <= c /\ a + 1 + j - 1 = Rank(S, p)
      BY <1>1, <1>7, <2>1, CutPlace
    <2> HIDE DEF j
    <2>3. Page(v, n)[j] = p
      BY <1>2, <1>6, <2>2
    <2>4. DOMAIN Page(v, n) = 1 .. (c - (a + 1) + 1)
      BY <1>6, <2>2, LenProperties
    <2> QED BY <2>2, <2>3, <2>4 DEF ToSet
  <1>8. ASSUME NEW p \in S, Rank(S, p) > a, ~(Rank(S, p) <= c)
        PROVE  Rank(S, p) > b /\ b < Len(v)
    BY <1>1, <1>2, <1>4, <1>8
  <1> QED BY <1>6, <1>7, <1>8 DEF v, a, b

----------------------------------------------------------------------------
(* A listing leaves nothing out.                                           *)

\* Posts are dated one after the other.
PostsDated == Dated(posts) /\ \A p \in posts : p.ts \in 1 .. Cardinality(posts)

\* What the command has is made of posts.
ListTypes ==
    /\ FeedShape
    /\ feed.page \in Nat /\ feed.limit \in Nat /\ feed.mine \in BOOLEAN
    /\ feed.items \in Seq(posts) /\ feed.shown \in Seq(posts) /\ feed.seen \subseteq posts
    /\ feed.limit > 0 /\ feed.pc # "done" => Len(feed.shown) <= feed.limit

\* A cached timeline is ordered and made of posts.  It need not be the one that a
\* rebuild would give: it may hold posts of somebody who was unfollowed.
CacheSound == cache # Nil => ToSet(cache) \subseteq posts /\ cache = NewestFirst(ToSet(cache))

\* The posts of the timeline that the next page would be cut from, and those of
\* them a command lists.
Current == IF cache = Nil THEN FeedPosts ELSE ToSet(cache)
CurrentView(mine) == {p \in Current : mine => p.author = me}

\* A page has been cut and not yet printed.
PageCut == {"dial", "collect", "populate", "print"}

\* What was in the feed when the command began is printed, on the page at hand,
\* or was too far down for both in the timeline of the last page: a timeline
\* that loses nothing only pushes posts further down.
Listed ==
    feed.pc # "idle" /\ ~feed.shrunk =>
        /\ feed.kept \subseteq feed.seen
        /\ feed.pc = "page" =>
             \A p \in feed.kept :
                 p \in ToSet(feed.shown) \/ Rank(feed.seen, p) > feed.page * feedPageLimit
        /\ feed.pc \in PageCut =>
             \A p \in feed.kept :
                 \/ p \in ToSet(feed.shown) \/ p \in ToSet(feed.items)
                 \/ feed.more /\ Rank(feed.seen, p) > (feed.page + 1) * feedPageLimit
        /\ feed.pc = "done" =>
             \/ feed.kept \subseteq ToSet(feed.shown)
             \/ feed.limit > 0 /\ Len(feed.shown) = feed.limit

\* The inductive invariant of a listing.
ListInv == PostsDated /\ ListTypes /\ CacheSound /\ Listed

\* The timeline a command reads is the current one, and its view the posts of it
\* that the command lists.
LEMMA CurrentTimeline ==
    ASSUME PostsDated, CacheSound, NEW mine \in BOOLEAN
    PROVE  /\ Current \subseteq posts /\ CurrentView(mine) \subseteq posts
           /\ Dated(Current) /\ Dated(CurrentView(mine))
           /\ cachedPosts = NewestFirst(Current) /\ ToSet(cachedPosts) = Current
           /\ View(cachedPosts, mine) = NewestFirst(CurrentView(mine))
           /\ ToSet(View(cachedPosts, mine)) = CurrentView(mine)
  <1>1. Current \subseteq posts /\ CurrentView(mine) \subseteq posts
    BY DEF CacheSound, Current, CurrentView, FeedPosts
  <1>2. Dated(Current) /\ Dated(CurrentView(mine))
    BY <1>1, DatedSubset DEF PostsDated
  <1>3. cachedPosts = NewestFirst(Current)
    BY DEF CacheSound, Current, Timeline, cachedPosts
  <1>4. ToSet(cachedPosts) = Current
    BY <1>2, <1>3, NewestFirstSorts
  <1>5. View(cachedPosts, mine) = NewestFirst(CurrentView(mine))
    <2>1. CASE mine
      <3>1. CurrentView(mine) = {p \in Current : p.author = me}
        BY <2>1 DEF CurrentView
      <3> QED BY <1>3, <1>4, <2>1, <3>1 DEF View
    <2>2. CASE ~mine
      <3>1. CurrentView(mine) = Current
        BY <2>2 DEF CurrentView
      <3> QED BY <1>3, <1>4, <2>2, <3>1 DEF View
    <2> QED BY <2>1, <2>2
  <1>6. ToSet(View(cachedPosts, mine)) = CurrentView(mine)
    BY <1>2, <1>5, NewestFirstSorts
  <1> QED BY <1>1, <1>2, <1>3, <1>4, <1>5, <1>6

\* A timeline that is kept, dropped or rebuilt is as sound as it was.
LEMMA CacheKept ==
    ASSUME PostsDated, CacheSound, posts \subseteq posts', cache' \in {cache, Nil, cachedPosts}
    PROVE  CacheSound'
  <1>1. Current \subseteq posts /\ cachedPosts = NewestFirst(Current) /\ ToSet(cachedPosts) = Current
    BY CurrentTimeline
  <1>2. CASE cache' = cachedPosts
    BY <1>1, <1>2 DEF CacheSound
  <1>3. CASE cache' = cache \/ cache' = Nil
    BY <1>3 DEF CacheSound
  <1> QED BY <1>2, <1>3

\* Sequences of posts stay sequences of posts.
LEMMA SeqOfPosts ==
    ASSUME posts \subseteq posts', NEW s \in Seq(posts)
    PROVE  s \in Seq(posts')
  BY SeqMonotonic

\* Steps that cut and print no page keep the invariant, whatever they do to the
\* follow graph and the cached timeline.
LEMMA ListQuiet ==
    ASSUME ListInv, FeedShape', PostsDated',
           posts \subseteq posts', cache' \in {cache, Nil, cachedPosts},
           feed'.page = feed.page, feed'.mine = feed.mine, feed'.limit = feed.limit,
           feed'.items = feed.items, feed'.more = feed.more, feed'.shown = feed.shown,
           feed'.kept = feed.kept, feed'.seen = feed.seen, feed'.shrunk = feed.shrunk,
           feed'.pc = feed.pc \/ (feed.pc \in PageCut /\ feed'.pc \in PageCut)
    PROVE  ListInv'
  <1> USE DEF ListInv
  <1>1. ListTypes'
    <2>1. feed'.items \in Seq(posts') /\ feed'.shown \in Seq(posts')
      BY SeqOfPosts DEF ListTypes
    <2> QED BY <2>1 DEF ListTypes, PageCut
  <1>2. CacheSound'
    BY CacheKept
  <1>3. Listed'
    BY DEF Listed, PageCut, Rank
  <1> QED BY <1>1, <1>2, <1>3

\* Cutting a page keeps the invariant.
LEMMA PageStep == ListInv /\ HandleFeedPage => ListInv'
  <1> SUFFICES ASSUME ListInv, HandleFeedPage PROVE ListInv'
    OBVIOUS
  <1> DEFINE view == View(cachedPosts, feed.mine)
  <1> DEFINE V == CurrentView(feed.mine)
  <1>0. PostsDated /\ ListTypes /\ CacheSound /\ Listed
    BY DEF ListInv
  <1>1. /\ feed.pc = "page" /\ cache' = cachedPosts
        /\ UNCHANGED posts
        /\ feed'.pc \in PageCut
        /\ feed'.items = Page(view, feed.page)
        /\ feed'.more = ((feed.page + 1) * feedPageLimit < Len(view))
        /\ feed'.page = feed.page /\ feed'.mine = feed.mine /\ feed'.limit = feed.limit
        /\ feed'.shown = feed.shown
        /\ feed'.kept = feed.kept \cap ToSet(view) /\ feed'.seen = ToSet(view)
        /\ feed'.shrunk = (feed.shrunk \/ ~ feed.seen \subseteq ToSet(view))
    BY <1>0 DEF HandleFeedPage, ListTypes, FeedShape, PageCut, signedVars
  <1>2. FeedShape'
    BY <1>0 DEF HandleFeedPage, ListTypes, FeedShape
  <1>3. view = NewestFirst(V) /\ ToSet(view) = V /\ V \subseteq posts /\ Dated(V)
    BY <1>0, CurrentTimeline DEF ListTypes
  <1> HIDE DEF view, V
  <1>4. CacheSound' /\ PostsDated'
    BY <1>0, <1>1, CacheKept DEF PostsDated
  <1>5. Page(view, feed.page) \in Seq(posts)
    BY <1>0, <1>3, PageHolds, SeqMonotonic DEF ListTypes
  <1>6. ListTypes'
    BY <1>0, <1>1, <1>2, <1>3, <1>5 DEF ListTypes, PageCut
  <1>7. Listed'
    <2> SUFFICES ASSUME ~feed'.shrunk
                 PROVE  /\ feed'.kept \subseteq V
                        /\ \A p \in feed'.kept :
                             \/ p \in ToSet(feed.shown) \/ p \in ToSet(feed'.items)
                             \/ feed'.more /\ Rank(V, p) > (feed.page + 1) * feedPageLimit
      BY <1>1, <1>3 DEF Listed, PageCut, Rank
    <2>1. ~feed.shrunk /\ feed.seen \subseteq V
      BY <1>1, <1>3
    <2>2. feed.kept \subseteq feed.seen /\ feed'.kept \subseteq feed.kept /\ feed'.kept \subseteq V
      BY <1>0, <1>1, <1>3, <2>1 DEF Listed
    <2>3. ASSUME NEW p \in feed'.kept, p \notin ToSet(feed.shown)
          PROVE  Rank(V, p) > feed.page * feedPageLimit
      <3>1. p \in feed.seen /\ Rank(feed.seen, p) > feed.page * feedPageLimit
        BY <1>0, <1>1, <2>1, <2>2, <2>3 DEF Listed
      <3>2. Rank(feed.seen, p) <= Rank(V, p)
        BY <1>3, <2>1, <3>1, RankGrows
      <3>3. Dated(feed.seen)
        BY <1>3, <2>1, DatedSubset
      <3>4. Rank(feed.seen, p) \in 1 .. Cardinality(feed.seen) /\ Rank(V, p) \in 1 .. Cardinality(V)
        BY <1>3, <2>1, <3>1, <3>3, RankType
      <3>5. Cardinality(feed.seen) \in Nat /\ Cardinality(V) \in Nat
        BY <1>3, <3>3, FS_CardinalityType DEF Dated
      <3>6. feed.page * feedPageLimit \in Nat
        BY <1>0, PageStart DEF ListTypes
      <3> QED BY <3>1, <3>2, <3>4, <3>5, <3>6
    <2>4. \A p \in V : Rank(V, p) > feed.page * feedPageLimit =>
             \/ p \in ToSet(feed'.items)
             \/ feed'.more /\ Rank(V, p) > (feed.page + 1) * feedPageLimit
      BY <1>0, <1>1, <1>3, PageHolds DEF ListTypes
    <2> QED BY <2>2, <2>3, <2>4
  <1> QED BY <1>4, <1>6, <1>7 DEF ListInv

\* What two sequences hold, their concatenation holds.
LEMMA ConcatSet ==
    ASSUME NEW S, NEW s \in Seq(S), NEW t \in Seq(S)
    PROVE  ToSet(s \o t) = ToSet(s) \cup ToSet(t)
  <1>1. /\ s \o t \in Seq(S) /\ Len(s \o t) = Len(s) + Len(t)
        /\ \A i \in 1 .. Len(s) + Len(t) :
              (s \o t)[i] = IF i <= Len(s) THEN s[i] ELSE t[i - Len(s)]
    BY ConcatProperties
  <1>2. /\ Len(s) \in Nat /\ Len(t) \in Nat /\ DOMAIN s = 1 .. Len(s) /\ DOMAIN t = 1 .. Len(t)
        /\ DOMAIN (s \o t) = 1 .. Len(s) + Len(t)
    BY <1>1, LenProperties
  <1>3. \A i \in 1 .. Len(s) : i \in 1 .. Len(s) + Len(t) /\ (s \o t)[i] = s[i]
    BY <1>1, <1>2
  <1>4. \A i \in 1 .. Len(t) :
           /\ i + Len(s) \in 1 .. Len(s) + Len(t) /\ ~(i + Len(s) <= Len(s))
           /\ (i + Len(s)) - Len(s) = i
    BY <1>2
  <1>5. \A i \in 1 .. Len(t) : (s \o t)[i + Len(s)] = t[i]
    BY <1>1, <1>4
  <1>6. \A i \in 1 .. Len(s) + Len(t) : i <= Len(s) \/ i - Len(s) \in 1 .. Len(t)
    BY <1>2
  <1>7. ToSet(s \o t) \subseteq ToSet(s) \cup ToSet(t)
    BY <1>1, <1>2, <1>6 DEF ToSet
  <1>8. ToSet(s) \subseteq ToSet(s \o t)
    BY <1>2, <1>3 DEF ToSet
  <1>9. ToSet(t) \subseteq ToSet(s \o t)
    BY <1>2, <1>4, <1>5 DEF ToSet
  <1> QED BY <1>7, <1>8, <1>9

\* Printing a page keeps the invariant, whether or not the limit cuts it.
LEMMA PrintStep == ListInv /\ PrintPage => ListInv'
  <1> SUFFICES ASSUME ListInv, PrintPage PROVE ListInv'
    OBVIOUS
  <1> DEFINE room == feed.limit - Len(feed.shown)
  <1> DEFINE cutoff == feed.limit > 0 /\ Len(feed.items) > room
  <1> DEFINE items == IF cutoff THEN SubSeq(feed.items, 1, room) ELSE feed.items
  <1> DEFINE over == ~ feed.more \/ (feed.limit > 0 /\ Len(feed.shown) + Len(items) >= feed.limit)
  <1>0. PostsDated /\ ListTypes /\ CacheSound /\ Listed
    BY DEF ListInv
  <1>1. /\ feed.pc = "print" /\ UNCHANGED <<posts, crawl, follows, cache>>
        /\ feed'.pc = IF over THEN "done" ELSE "page"
        /\ feed'.shown = feed.shown \o items /\ feed'.page = feed.page + 1 /\ feed'.items = <<>>
        /\ feed'.mine = feed.mine /\ feed'.limit = feed.limit
        /\ feed'.kept = feed.kept /\ feed'.seen = feed.seen /\ feed'.shrunk = feed.shrunk
    BY <1>0 DEF PrintPage, ListTypes, FeedShape, signedVars, storeVars
  <1>2. FeedShape'
    BY <1>0 DEF PrintPage, ListTypes, FeedShape
  <1>3. /\ feed.limit \in Nat /\ feed.page \in Nat
        /\ feed.items \in Seq(posts) /\ feed.shown \in Seq(posts)
        /\ Len(feed.items) \in Nat /\ Len(feed.shown) \in Nat
        /\ feed.limit > 0 => Len(feed.shown) <= feed.limit
    BY <1>0, <1>1, LenProperties DEF ListTypes
  <1>4. /\ room \in Int /\ (feed.limit > 0 => room >= 0)
    BY <1>3
  <1>5. /\ items \in Seq(posts) /\ Len(items) \in Nat
        /\ cutoff => Len(items) = room
        /\ ~cutoff => items = feed.items
    <2>1. CASE cutoff
      <3>1. \A i \in 1 .. room : feed.items[i] \in posts
        BY <1>3, <1>4, <2>1, ElementOfSeq
      <3>2. /\ SubSeq(feed.items, 1, room) \in Seq(posts)
            /\ Len(SubSeq(feed.items, 1, room)) = IF 1 <= room THEN room - 1 + 1 ELSE 0
        BY <1>4, <3>1, SubSeqProperties
      <3>3. items = SubSeq(feed.items, 1, room)
        BY <2>1
      <3>4. room \in Nat /\ (IF 1 <= room THEN room - 1 + 1 ELSE 0) = room
        BY <1>4, <2>1
      <3> QED BY <2>1, <3>2, <3>3, <3>4
    <2>2. CASE ~cutoff
      BY <1>3, <2>2
    <2> QED BY <2>1, <2>2
  <1> HIDE DEF items
  <1>6. /\ feed'.shown \in Seq(posts) /\ Len(feed'.shown) = Len(feed.shown) + Len(items)
        /\ ToSet(feed'.shown) = ToSet(feed.shown) \cup ToSet(items)
    BY <1>1, <1>3, <1>5, ConcatProperties, ConcatSet
  <1>7. cutoff => feed.limit > 0 /\ Len(feed'.shown) = feed.limit /\ over
    BY <1>3, <1>4, <1>5, <1>6
  <1>8. ~cutoff /\ feed.limit > 0 => Len(feed'.shown) <= feed.limit
    BY <1>3, <1>5, <1>6
  <1>9. ListTypes'
    <2>1. feed'.items \in Seq(posts) /\ feed'.page \in Nat
      BY <1>1, <1>3
    <2>2. feed'.limit > 0 /\ feed'.pc # "done" => Len(feed'.shown) <= feed'.limit
      BY <1>1, <1>7, <1>8
    <2> QED BY <1>0, <1>1, <1>2, <1>6, <2>1, <2>2 DEF ListTypes
  <1>10. CacheSound' /\ PostsDated'
    BY <1>0, <1>1 DEF CacheSound, PostsDated
  <1>11. Listed'
    <2> SUFFICES ASSUME ~feed.shrunk
                 PROVE  /\ feed.kept \subseteq feed.seen
                        /\ ~over =>
                             \A p \in feed.kept :
                                 \/ p \in ToSet(feed'.shown)
                                 \/ Rank(feed.seen, p) > (feed.page + 1) * feedPageLimit
                        /\ over =>
                             \/ feed.kept \subseteq ToSet(feed'.shown)
                             \/ feed.limit > 0 /\ Len(feed'.shown) = feed.limit
      <3> HIDE DEF over
      <3> QED BY <1>1 DEF Listed, PageCut, Rank
    <2>1. /\ feed.kept \subseteq feed.seen
          /\ \A p \in feed.kept :
                 \/ p \in ToSet(feed.shown) \/ p \in ToSet(feed.items)
                 \/ feed.more /\ Rank(feed.seen, p) > (feed.page + 1) * feedPageLimit
      BY <1>0, <1>1 DEF Listed, PageCut
    <2>2. CASE cutoff
      BY <1>7, <2>1, <2>2
    <2>3. CASE ~cutoff
      <3>1. ToSet(feed'.shown) = ToSet(feed.shown) \cup ToSet(feed.items)
        BY <1>5, <1>6, <2>3
      <3>2. CASE feed.more
        <4>1. over => feed.limit > 0 /\ Len(feed'.shown) >= feed.limit
          BY <1>6, <3>2
        <4>2. over => feed.limit > 0 /\ Len(feed'.shown) = feed.limit
          BY <1>3, <1>5, <1>6, <1>8, <2>3, <4>1
        <4> HIDE DEF over
        <4> QED BY <2>1, <3>1, <4>2
      <3>3. CASE ~feed.more
        BY <2>1, <3>1, <3>3
      <3> QED BY <3>2, <3>3
    <2> QED BY <2>2, <2>3
  <1> QED BY <1>9, <1>10, <1>11 DEF ListInv

\* The other steps of the command keep the invariant.
LEMMA FetchListed ==
    ASSUME ListInv, FeedStep, ~HandleFeedPage, ~PrintPage
    PROVE  ListInv'
  <1>0. FeedShape /\ PostsDated
    BY DEF ListInv, ListTypes
  <1>1. CASE FetchDone
    <2>1. FeedShape'
      BY <1>0, <1>1 DEF FetchDone, FeedShape
    <2>2. /\ UNCHANGED posts /\ cache' \in {cache, Nil}
          /\ feed'.page = feed.page /\ feed'.mine = feed.mine /\ feed'.limit = feed.limit
          /\ feed'.items = feed.items /\ feed'.more = feed.more /\ feed'.shown = feed.shown
          /\ feed'.kept = feed.kept /\ feed'.seen = feed.seen /\ feed'.shrunk = feed.shrunk
          /\ feed'.pc = feed.pc \/ (feed.pc \in PageCut /\ feed'.pc \in PageCut)
      BY <1>0, <1>1 DEF FetchDone, FeedShape, PageCut, signedVars, storeVars
    <2>3. PostsDated'
      BY <1>0, <2>2 DEF PostsDated
    <2> QED BY <2>1, <2>2, <2>3, ListQuiet
  <1>2. CASE Populate
    <2>1. FeedShape'
      BY <1>0, <1>2 DEF Populate, FeedShape
    <2>2. /\ UNCHANGED posts /\ cache' \in {cache, Nil}
          /\ feed'.page = feed.page /\ feed'.mine = feed.mine /\ feed'.limit = feed.limit
          /\ feed'.items = feed.items /\ feed'.more = feed.more /\ feed'.shown = feed.shown
          /\ feed'.kept = feed.kept /\ feed'.seen = feed.seen /\ feed'.shrunk = feed.shrunk
          /\ feed'.pc = feed.pc \/ (feed.pc \in PageCut /\ feed'.pc \in PageCut)
      BY <1>0, <1>2 DEF Populate, FeedShape, PageCut, signedVars, storeVars
    <2>3. PostsDated'
      BY <1>0, <2>2 DEF PostsDated
    <2> QED BY <2>1, <2>2, <2>3, ListQuiet
  <1>3. ASSUME NEW ready \in BOOLEAN, HandleFetchLikes(ready) PROVE ListInv'
    <2>1. FeedShape'
      BY <1>0, <1>3 DEF HandleFetchLikes, FeedShape
    <2>2. /\ UNCHANGED posts /\ cache' \in {cache, Nil}
          /\ feed'.page = feed.page /\ feed'.mine = feed.mine /\ feed'.limit = feed.limit
          /\ feed'.items = feed.items /\ feed'.more = feed.more /\ feed'.shown = feed.shown
          /\ feed'.kept = feed.kept /\ feed'.seen = feed.seen /\ feed'.shrunk = feed.shrunk
          /\ feed'.pc = feed.pc \/ (feed.pc \in PageCut /\ feed'.pc \in PageCut)
      BY <1>0, <1>3 DEF HandleFetchLikes, FeedShape, PageCut, signedVars, storeVars
    <2>3. PostsDated'
      BY <1>0, <2>2 DEF PostsDated
    <2> QED BY <2>1, <2>2, <2>3, ListQuiet
  <1>4. ASSUME NEW z \in Others, StoreLikes(z) PROVE ListInv'
    <2>1. FeedShape'
      BY <1>0, <1>4 DEF StoreLikes, FeedShape
    <2>2. /\ UNCHANGED posts /\ cache' \in {cache, Nil}
          /\ feed'.page = feed.page /\ feed'.mine = feed.mine /\ feed'.limit = feed.limit
          /\ feed'.items = feed.items /\ feed'.more = feed.more /\ feed'.shown = feed.shown
          /\ feed'.kept = feed.kept /\ feed'.seen = feed.seen /\ feed'.shrunk = feed.shrunk
          /\ feed'.pc = feed.pc \/ (feed.pc \in PageCut /\ feed'.pc \in PageCut)
      BY <1>0, <1>4 DEF StoreLikes, FeedShape, PageCut, signedVars, storeVars
    <2>3. PostsDated'
      BY <1>0, <2>2 DEF PostsDated
    <2> QED BY <2>1, <2>2, <2>3, ListQuiet
  <1>5. ASSUME NEW z \in Others, NEW how \in {"fails", "answers", "cut", "lies"}, FetchLikes(z, how)
        PROVE  ListInv'
    <2>1. FeedShape'
      BY <1>0, <1>5 DEF FetchLikes, FeedShape
    <2>2. /\ UNCHANGED posts /\ cache' \in {cache, Nil}
          /\ feed'.page = feed.page /\ feed'.mine = feed.mine /\ feed'.limit = feed.limit
          /\ feed'.items = feed.items /\ feed'.more = feed.more /\ feed'.shown = feed.shown
          /\ feed'.kept = feed.kept /\ feed'.seen = feed.seen /\ feed'.shrunk = feed.shrunk
          /\ feed'.pc = feed.pc \/ (feed.pc \in PageCut /\ feed'.pc \in PageCut)
      BY <1>0, <1>5 DEF FetchLikes, FeedShape, PageCut, signedVars, storeVars
    <2>3. PostsDated'
      BY <1>0, <2>2 DEF PostsDated
    <2> QED BY <2>1, <2>2, <2>3, ListQuiet
  <1> QED BY <1>1, <1>2, <1>3, <1>4, <1>5 DEF FeedStep

\* What happens outside the command keeps the invariant: posts are added with
\* later times, and the timelines that were read stay as they were.
LEMMA MeanwhileListed == ListInv /\ Meanwhile => ListInv'
  <1> SUFFICES ASSUME ListInv, Meanwhile PROVE ListInv'
    OBVIOUS
  <1>0. FeedShape /\ PostsDated
    BY DEF ListInv, ListTypes
  <1>1. ASSUME NEW z \in Authors, PostNow(z) PROVE ListInv'
    <2> DEFINE new == [author |-> z, ts |-> Cardinality(posts) + 1]
    <2>1. /\ posts' = posts \cup {new} /\ cache' \in {cache, Nil}
          /\ UNCHANGED feed
      BY <1>1 DEF PostNow, NextTime
    <2>2. IsFiniteSet(posts) /\ Cardinality(posts) \in Nat
      BY <1>0, FS_CardinalityType DEF PostsDated, Dated
    <2>3. new.ts = Cardinality(posts) + 1
      OBVIOUS
    <2> HIDE DEF new
    <2>4. \A p \in posts : p.ts \in Nat /\ p.ts <= Cardinality(posts) /\ p.ts >= 1
      BY <1>0, <2>2 DEF PostsDated
    <2>5. new \notin posts
      BY <2>2, <2>3, <2>4
    <2>6. IsFiniteSet(posts') /\ Cardinality(posts') = Cardinality(posts) + 1
      BY <2>1, <2>2, <2>5, FS_AddElement
    <2>7. \A p \in posts' : p.ts \in 1 .. Cardinality(posts') /\ p.ts \in Nat
      BY <2>1, <2>2, <2>3, <2>4, <2>6
    <2>8. \A p, q \in posts' : p.ts = q.ts => p = q
      BY <1>0, <2>1, <2>2, <2>3, <2>4 DEF PostsDated, Dated
    <2>9. PostsDated'
      BY <2>6, <2>7, <2>8 DEF PostsDated, Dated
    <2>10. FeedShape'
      BY <1>0, <2>1 DEF FeedShape
    <2> QED BY <2>1, <2>9, <2>10, ListQuiet
  <1>2. ASSUME UNCHANGED <<posts, feed>>, cache' \in {cache, Nil, cachedPosts} PROVE ListInv'
    <2>1. FeedShape' /\ PostsDated'
      BY <1>0, <1>2 DEF FeedShape, PostsDated
    <2> QED BY <1>2, <2>1, ListQuiet
  <1>3. ASSUME NEW z \in Zens, NEW p \in posts, NEW m \in 1 .. Machines, HandleLike(z, p, m)
        PROVE  ListInv'
    BY <1>2, <1>3 DEF HandleLike
  <1>4. ASSUME NEW z \in Authors \ {me}, NEW m \in 1 .. Machines, Sync(z, m) PROVE ListInv'
    BY <1>2, <1>4 DEF Sync, signedVars
  <1>5. ASSUME NEW z \in Authors \ {me}, Turn(z) PROVE ListInv'
    BY <1>2, <1>5 DEF Turn, signedVars
  <1>6. ASSUME NEW z \in Others, NEW m \in 1 .. Machines, NEW from \in Zens,
               SyncElsewhere(z, from, m)
        PROVE  ListInv'
    BY <1>2, <1>6 DEF SyncElsewhere, storeVars
  <1>7. CASE WarmCache
    BY <1>2, <1>7 DEF WarmCache, signedVars
  <1> QED BY <1>1, <1>3, <1>4, <1>5, <1>6, <1>7 DEF Meanwhile

\* The invariant of a listing holds in every reachable state.
LEMMA ListInvariant == Spec => []ListInv
  <1>1. Init => ListInv
    <2> SUFFICES ASSUME Init PROVE ListInv
      OBVIOUS
    <2>1. PostsDated
      BY FS_EmptySet DEF Init, PostsDated, Dated
    <2>2. ListTypes
      BY DEF Init, ListTypes, FeedShape, IdleFeed
    <2>3. CacheSound /\ Listed
      BY DEF Init, CacheSound, Listed, IdleFeed
    <2> QED BY <2>1, <2>2, <2>3 DEF ListInv
  <1>2. ListInv /\ [Next]_vars => ListInv'
    <2> SUFFICES ASSUME ListInv, [Next]_vars PROVE ListInv'
      OBVIOUS
    <2>0. PostsDated /\ ListTypes /\ CacheSound
      BY DEF ListInv
    <2>1. CASE FeedStep
      BY <2>1, PageStep, PrintStep, FetchListed
    <2>2. CASE Meanwhile
      BY <2>2, MeanwhileListed
    <2>3. ASSUME NEW use \in Uses, RunFeed(use) PROVE ListInv'
      <3>1. use.mine \in BOOLEAN /\ use.limit \in Nat
        BY FeedReadAssumption
      <3> DEFINE V == CurrentView(use.mine)
      <3>2. /\ feed.pc = "idle" /\ UNCHANGED <<posts, cache>>
            /\ feed'.pc = "page" /\ feed'.page = 0 /\ feed'.mine = use.mine
            /\ feed'.limit = use.limit /\ feed'.items = <<>> /\ feed'.shown = <<>>
            /\ feed'.shrunk = FALSE
            /\ feed'.kept = ToSet(View(cachedPosts, use.mine)) /\ feed'.seen = feed'.kept
        BY <2>3 DEF RunFeed, IdleFeed, signedVars, storeVars
      <3>3. FeedShape'
        BY <2>3 DEF RunFeed, FeedShape, IdleFeed
      <3>4. V \subseteq posts /\ Dated(V) /\ feed'.kept = V /\ feed'.seen = V
        BY <2>0, <3>1, <3>2, CurrentTimeline
      <3> HIDE DEF V
      <3>5. PostsDated' /\ CacheSound'
        BY <2>0, <3>2 DEF PostsDated, CacheSound
      <3>6. ListTypes'
        BY <3>1, <3>2, <3>3, <3>4 DEF ListTypes
      <3>7. \A p \in V : Rank(V, p) > 0 * feedPageLimit
        <4> TAKE p \in V
        <4>1. Rank(V, p) \in 1 .. Cardinality(V)
          BY <3>4, RankType
        <4>2. Cardinality(V) \in Nat /\ 0 * feedPageLimit = 0
          BY <3>4, FS_CardinalityType, FeedReadAssumption DEF Dated
        <4> QED BY <4>1, <4>2
      <3>8. Listed'
        <4>1. \A p \in feed'.kept : Rank(feed'.seen, p) > feed'.page * feedPageLimit
          BY <3>2, <3>4, <3>7
        <4>2. feed'.pc = "page" /\ feed'.pc \notin PageCut /\ feed'.kept \subseteq feed'.seen
          BY <3>2, <3>4 DEF PageCut
        <4> QED BY <4>1, <4>2 DEF Listed, Rank
      <3> QED BY <3>5, <3>6, <3>8 DEF ListInv
    <2>4. CASE UNCHANGED vars
      <3>1. UNCHANGED <<posts, cache, feed>>
        BY <2>4 DEF vars, signedVars, storeVars
      <3>2. FeedShape' /\ PostsDated'
        BY <2>0, <3>1 DEF ListTypes, FeedShape, PostsDated
      <3> QED BY <3>1, <3>2, ListQuiet
    <2> QED BY <2>1, <2>2, <2>3, <2>4 DEF Next
  <1> QED BY <1>1, <1>2, PTL DEF Spec

\* A listing prints every post that was in the feed when the command began, for
\* any page size, from a cold or a warm cache, and however the timeline grows
\* between its pages, as long as no page is cut from a timeline that lacks a
\* post the one before had, or the limit is reached (feedOnline, handleFeedPage).
THEOREM NothingLeftOut == Spec => []ListingComplete
  <1>1. ListInv => ListingComplete
    BY DEF ListInv, Listed, ListingComplete, PageCut
  <1> QED BY <1>1, ListInvariant, PTL
============================================================================
