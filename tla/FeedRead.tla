------------------------------ MODULE FeedRead ------------------------------
(***************************************************************************)
(* `driftnode feed` against a running daemon (internal/cli/root.go         *)
(* feedOnline, internal/daemon/daemon.go handleFeedPage): the timeline is  *)
(* read page by page, and with --all-likes each page asks the known zens   *)
(* for likes of the user's own posts (handleFetchLikes, Client.FetchLikes, *)
(* Server.handleLikeRequest) before its like counts are computed.          *)
(*                                                                         *)
(* Meanwhile the user posts, likes, follows and unfollows, sync sessions   *)
(* bring events of the followed zens, and the other zens do the same.      *)
(*                                                                         *)
(* A post is an author and a time; times are in nanoseconds, so no two     *)
(* posts share one.  A like is an author, a post and the machine it was    *)
(* signed on: an own log has one like of a post (see Store), but the logs  *)
(* of two machines with one key may each have theirs.  This daemon and the *)
(* zens that are asked are machine 1 of their keys.  The invalidation that *)
(* follows a write is FeedPush's matter: here the two are one step.  Names *)
(* and texts are left out.                                                 *)
(***************************************************************************)
EXTENDS Naturals, FiniteSets, SequencesExt

CONSTANTS
    me, Others,     \* this zen and the others it knows a token of
    Authors,        \* the zens that post: this one and those it follows at first
    Nil,
    feedPageLimit,
    Machines,       \* how many machines a zen may use its key on
    Uses,           \* the flags of the command: mine, allLikes and limit
    MaxPosts,       \* bound: posts of all zens
    MaxLikes,       \* bound: likes of all zens
    MaxTurns        \* bound: follows and unfollows

ASSUME FeedReadAssumption ==
    /\ me \notin Others /\ IsFiniteSet(Others) /\ Authors \subseteq Others \cup {me}
    /\ feedPageLimit \in Nat \ {0} /\ Machines \in Nat \ {0}
    /\ Uses \subseteq [mine : BOOLEAN, allLikes : BOOLEAN, limit : Nat]
    /\ MaxPosts \in Nat /\ MaxLikes \in Nat /\ MaxTurns \in Nat

Zens == Others \cup {me}
Post == [author : Authors, ts : 1 .. MaxPosts]
Like == [author : Zens, target : Post, at : 1 .. Machines]

VARIABLES
    posts, likes,   \* every event signed so far, by anyone (history)
    held,           \* held[z]: likes in the store of another zen, own and crawled
    crawl,          \* posts of others in this zen's crawl bucket
    crawlLikes,     \* likes in the crawl bucket, own ones that came back included
    follows,
    cache,          \* d.feedCache
    feed,           \* the feed command and the FeedPage call it waits for
    fetch,          \* fetch[z]: the goroutine of handleFetchLikes that asks z
    turns

signedVars == <<posts, likes, held>>
storeVars == <<crawl, crawlLikes, follows, cache>>
vars == <<signedVars, storeVars, feed, fetch, turns>>

NoFetch == [pc |-> "off", got |-> {}]

\* Own posts are in the own log, the others' in the crawl bucket.
Stored(p) == p.author = me \/ p \in crawl

\* The likes in the own log.
OwnLikes == {l \in likes : l.author = me /\ l.at = 1}

----------------------------------------------------------------------------
(* What the store and the daemon compute.                                  *)

\* How many posts of S are as new as p.
Rank(S, p) == Cardinality({q \in S : q.ts >= p.ts})

\* The posts of S as a sequence, newest first.
NewestFirst(S) == [i \in 1 .. Cardinality(S) |-> CHOOSE p \in S : Rank(S, p) = i]

\* The own posts and those of the follow graph.
FeedPosts == {p \in posts : Stored(p) /\ p.author \in follows \cup {me}}

\* AllPostsOneTx and Log.Posts: these posts, newest first.
Timeline == NewestFirst(FeedPosts)

\* Two likes of one post by one author.
Twins(k, l) == k.author = l.author /\ k.target = l.target

\* Mutant: a like is dropped only when the bucket has that very event.
PutCrawledEventById(bucket, S) == bucket \cup S

\* A like of post t by a among S.
LikeOf(S, a, t) == CHOOSE l \in S : l.author = a /\ l.target = t

\* PutCrawledEvent, one event after the other: a like is dropped when the bucket
\* has one of that post by that author.  No store has two, so no zen sends two,
\* and it does not matter which of two would be kept.
PutCrawledEvent(bucket, S) ==
    LET new == {l \in S : \A k \in bucket : ~ Twins(k, l)}
    IN  bucket \cup {LikeOf(S, l.author, l.target) : l \in new}

\* How many of the likes S are of post p by z.
LikesIn(S, p, z) == Cardinality({l \in S : l.target = p /\ l.author = z})

\* LikesForPosts over this zen's store, as the number of events of each liker:
\* the own log is scanned, then every author's bucket.
LikesForPosts(p) == [z \in Zens |-> LikesIn(OwnLikes, p, z) + LikesIn(crawlLikes, p, z)]

\* The like counts of the posts of a page.
populateLikes(items) == [p \in ToSet(items) |-> LikesForPosts(p)]

\* The timeline, or the own posts in it in the same order.
View(timeline, mine) ==
    IF mine THEN NewestFirst({p \in ToSet(timeline) : p.author = me}) ELSE timeline

\* FeedPage's slice of the view.
Page(view, n) ==
    SubSeq(view, n * feedPageLimit + 1,
           IF (n + 1) * feedPageLimit < Len(view) THEN (n + 1) * feedPageLimit ELSE Len(view))

\* The likes of own posts on the page.
Wanted(items) == {l \in Like : l.target \in ToSet(items) /\ l.target.author = me}

----------------------------------------------------------------------------
(* The feed command.                                                       *)

IdleFeed ==
    [pc |-> "idle", page |-> 0, mine |-> FALSE, allLikes |-> FALSE, limit |-> 0,
     items |-> <<>>, more |-> FALSE, counts |-> <<>>, shown |-> <<>>,
     inserted |-> FALSE, kept |-> {}, seen |-> {}, shrunk |-> FALSE, promised |-> {}]

\* cachedPosts: the cached timeline, rebuilt if there is none.
cachedPosts == IF cache = Nil THEN Timeline ELSE cache

\* The cache is filled before, beside and after a listing: when the daemon
\* starts, for the snapshot of a viewer and by other listings.
WarmCache ==
    /\ cache' = cachedPosts
    /\ UNCHANGED <<signedVars, crawl, crawlLikes, follows, feed, fetch, turns>>

\* kept, seen and shrunk are history: the posts that have been in the feed from
\* the start of the command to its last page, all those the last page was cut
\* from, and whether a page was cut from fewer posts than the page before.
RunFeed(use) ==
    /\ feed.pc = "idle"
    /\ LET view == ToSet(View(cachedPosts, use.mine))
       IN  feed' = [IdleFeed EXCEPT !.pc = "page",
                      !.mine = use.mine, !.allLikes = use.allLikes, !.limit = use.limit,
                      !.kept = view, !.seen = view]
    /\ UNCHANGED <<signedVars, storeVars, fetch, turns>>

\* Mutant: the page is cut before the own posts are picked out of it.
HandleFeedPageFiltersLate ==
    /\ feed.pc = "page"
    /\ LET items == View(Page(cachedPosts, feed.page), feed.mine)
       IN  /\ cache' = cachedPosts
           /\ feed' = [feed EXCEPT !.items = items, !.more = Len(items) = feedPageLimit,
                         !.pc = IF feed.allLikes /\ Wanted(items) # {} THEN "dial" ELSE "populate"]
    /\ UNCHANGED <<signedVars, crawl, crawlLikes, follows, fetch, turns>>

\* handleFeedPage: a page of the cached timeline.  A page past the end is empty.
HandleFeedPage ==
    /\ feed.pc = "page"
    /\ LET view == View(cachedPosts, feed.mine)
           items == Page(view, feed.page)
       IN  /\ cache' = cachedPosts
           /\ feed' = [feed EXCEPT !.items = items,
                         !.more = (feed.page + 1) * feedPageLimit < Len(view),
                         !.kept = @ \cap ToSet(view), !.seen = ToSet(view),
                         !.shrunk = @ \/ ~ feed.seen \subseteq ToSet(view),
                         !.pc = IF feed.allLikes /\ Wanted(items) # {} THEN "dial" ELSE "populate"]
    /\ UNCHANGED <<signedVars, crawl, crawlLikes, follows, fetch, turns>>

\* handleFetchLikes: a goroutine per known zen, or an error that the caller
\* ignores when the key is locked or there is no transport.
HandleFetchLikes(ready) ==
    /\ feed.pc = "dial"
    /\ IF ready
       THEN /\ fetch' = [z \in Others |-> [pc |-> "ask", got |-> {}]]
            /\ feed' = [feed EXCEPT !.pc = "collect"]
       ELSE feed' = [feed EXCEPT !.pc = "populate"] /\ UNCHANGED fetch
    /\ UNCHANGED <<signedVars, storeVars, turns>>

\* FetchLikes: events that their author has not signed are dropped.
Verify(S) == S \cap likes

\* handleLikeRequest of another zen: the likes it holds, its own and others'.
handleLikeRequest(z, asked) == asked \cap held[z]

\* Mutant: a goroutine that fails sends no result.
FetchLikesSilent(z, how) ==
    /\ fetch[z].pc = "ask"
    /\ IF how = "fails"
       THEN fetch' = [fetch EXCEPT ![z].pc = "gone"]
       ELSE fetch' = [fetch EXCEPT ![z] =
                        [pc |-> "got", got |-> handleLikeRequest(z, Wanted(feed.items))]]
    /\ UNCHANGED <<signedVars, storeVars, feed, turns>>

\* One goroutine: the dial or the handshake fails, or z answers with what it
\* holds.  The stream may end early, which is no error; and a zen may send
\* likes that nobody signed.
FetchLikes(z, how) ==
    /\ fetch[z].pc = "ask"
    /\ LET asked == Wanted(feed.items)
           answer == handleLikeRequest(z, asked)
       IN  \E S \in SUBSET asked :
             /\ how = "fails" => S = {}
             /\ how = "answers" => S = answer
             /\ how = "cut" => S \subseteq answer /\ S # answer
             /\ how = "lies" => \E l \in asked \ likes : S = answer \cup {l}
             /\ fetch' = [fetch EXCEPT ![z] = [pc |-> "got", got |-> Verify(S)]]
             /\ feed' = [feed EXCEPT !.promised =
                           IF how = "answers" THEN @ \cup answer ELSE @]
    /\ UNCHANGED <<signedVars, storeVars, turns>>

\* handleFetchLikes takes a result off the channel and stores its events
\* under their authors, the own ones too.
StoreLikes(z) ==
    /\ fetch[z].pc = "got"
    /\ crawlLikes' = PutCrawledEvent(crawlLikes, fetch[z].got)
    /\ feed' = [feed EXCEPT !.inserted = @ \/ crawlLikes' # crawlLikes]
    /\ fetch' = [fetch EXCEPT ![z].pc = "end"]
    /\ UNCHANGED <<signedVars, crawl, follows, cache, turns>>

\* Mutant: one answer is enough.
FetchDoneEarly ==
    /\ feed.pc = "collect" /\ \E z \in Others : fetch[z].pc = "end"
    /\ feed' = [feed EXCEPT !.pc = "populate"]
    /\ fetch' = [z \in Others |-> NoFetch]
    /\ UNCHANGED <<signedVars, storeVars, turns>>

\* One result of each goroutine has been taken.  What was new invalidates the
\* feed.
FetchDone ==
    /\ feed.pc = "collect" /\ \A z \in Others : fetch[z].pc = "end"
    /\ feed' = [feed EXCEPT !.pc = "populate", !.inserted = FALSE]
    /\ fetch' = [z \in Others |-> NoFetch]
    /\ cache' = IF feed.inserted THEN Nil ELSE cache
    /\ UNCHANGED <<signedVars, crawl, crawlLikes, follows, turns>>

\* populateLikes, and the answer to the command.
Populate ==
    /\ feed.pc = "populate"
    /\ feed' = [feed EXCEPT !.pc = "print", !.counts = populateLikes(feed.items)]
    /\ UNCHANGED <<signedVars, storeVars, fetch, turns>>

\* feedOnline prints the page, up to the limit, and asks for the next one.
PrintPage ==
    /\ feed.pc = "print"
    /\ LET room == feed.limit - Len(feed.shown)
           cutoff == feed.limit > 0 /\ Len(feed.items) > room
           items == IF cutoff THEN SubSeq(feed.items, 1, room) ELSE feed.items
           over == ~ feed.more \/ (feed.limit > 0 /\ Len(feed.shown) + Len(items) >= feed.limit)
       IN  feed' = [feed EXCEPT !.shown = @ \o items, !.page = @ + 1,
                      !.items = <<>>, !.counts = <<>>, !.promised = {},
                      !.pc = IF over THEN "done" ELSE "page"]
    /\ UNCHANGED <<signedVars, storeVars, fetch, turns>>

----------------------------------------------------------------------------
(* What happens meanwhile.                                                 *)

NextTime == Cardinality(posts) + 1

\* handlePost, and a post of another zen.
PostNow(z) ==
    /\ NextTime <= MaxPosts
    /\ posts' = posts \cup {[author |-> z, ts |-> NextTime]}
    /\ cache' = IF z = me THEN Nil ELSE cache
    /\ UNCHANGED <<likes, held, crawl, crawlLikes, follows, feed, fetch, turns>>

\* handleLike, and a like of another zen or machine.  A second like of a post is
\* refused by the store of that machine, but the feed is invalidated.
HandleLike(z, p, m) ==
    LET like == [author |-> z, target |-> p, at |-> m]
    IN  /\ like \in likes \/ Cardinality(likes) < MaxLikes
        /\ likes' = likes \cup {like}
        /\ held' = [y \in Others |-> IF y = z /\ m = 1 THEN held[y] \cup {like} ELSE held[y]]
        /\ cache' = IF z = me /\ m = 1 THEN Nil ELSE cache
        /\ UNCHANGED <<posts, crawl, crawlLikes, follows, feed, fetch, turns>>

\* A session with a machine of a followed zen: mergeEvent stores its events.  The
\* feed is rebuilt when a post was among them.
Sync(z, m) ==
    /\ z \in follows
    /\ crawl' = crawl \cup {p \in posts : p.author = z}
    /\ crawlLikes' = PutCrawledEvent(crawlLikes, {l \in likes : l.author = z /\ l.at = m})
    /\ cache' = IF crawl' = crawl THEN cache ELSE Nil
    /\ UNCHANGED <<signedVars, follows, feed, fetch, turns>>

\* Another zen syncs with a machine of the author of some likes.
SyncElsewhere(z, from, m) ==
    /\ held' = [held EXCEPT ![z] =
                  PutCrawledEvent(@, {l \in likes : l.author = from /\ l.at = m})]
    /\ UNCHANGED <<posts, likes, storeVars, feed, fetch, turns>>

\* Follow and Unfollow, neither of which invalidates the feed.
Turn(z) ==
    /\ turns < MaxTurns /\ turns' = turns + 1
    /\ follows' = IF z \in follows THEN follows \ {z} ELSE follows \cup {z}
    /\ UNCHANGED <<signedVars, crawl, crawlLikes, cache, feed, fetch>>

----------------------------------------------------------------------------
Init ==
    /\ posts = {} /\ likes = {} /\ held = [z \in Others |-> {}]
    /\ crawl = {} /\ crawlLikes = {} /\ follows = Authors \ {me} /\ cache = Nil
    /\ feed = IdleFeed /\ fetch = [z \in Others |-> NoFetch] /\ turns = 0

FeedStep ==
    \/ HandleFeedPage \/ FetchDone \/ Populate \/ PrintPage
    \/ \E ready \in BOOLEAN : HandleFetchLikes(ready)
    \/ \E z \in Others : StoreLikes(z)
    \/ \E z \in Others, how \in {"fails", "answers", "cut", "lies"} : FetchLikes(z, how)

Meanwhile ==
    \/ \E z \in Authors : PostNow(z)
    \/ WarmCache
    \/ \E z \in Zens, p \in posts, m \in 1 .. Machines : HandleLike(z, p, m)
    \/ \E z \in Authors \ {me} : Turn(z) \/ \E m \in 1 .. Machines : Sync(z, m)
    \/ \E z \in Others, m \in 1 .. Machines : \E from \in Zens \ {z} : SyncElsewhere(z, from, m)

\* After the listing there is nothing left to observe.
Next ==
    \/ FeedStep
    \/ \E use \in Uses : RunFeed(use)
    \/ feed.pc # "done" /\ Meanwhile

\* The RPC is served and every zen answers, fails or hangs up.
Spec == Init /\ [][Next]_vars /\ WF_vars(FeedStep)

----------------------------------------------------------------------------
(* Properties.                                                             *)

\* A listing leaves nothing out: a post that was in the feed when the command
\* began is printed, or the limit is reached, although the pages are cut from
\* timelines that grow anywhere in between, as long as none of them lacks a
\* post the one before had (feedOnline, handleFeedPage).  Only an unfollow,
\* before the listing or during it, takes posts out of a timeline.
ListingComplete ==
    feed.pc = "done" /\ ~ feed.shrunk =>
        \/ feed.kept \subseteq ToSet(feed.shown)
        \/ feed.limit > 0 /\ Len(feed.shown) = feed.limit

\* Like counts are honest: a like that is counted was signed by its liker,
\* whatever the zens that were asked sent, and nobody else's like counts twice,
\* however many zens sent it and on however many machines it was made
\* (FetchLikes, PutCrawledEvent).
LikesHonest ==
    feed.pc = "print" =>
        \A p \in ToSet(feed.items), z \in Zens :
            /\ feed.counts[p][z] > 0 => \E l \in likes : l.author = z /\ l.target = p
            /\ z # me => feed.counts[p][z] <= 1

\* --all-likes does what it says: a like that some zen sent in answer to this
\* page is counted on this page, whatever the other zens did and in whichever
\* order they answered (handleFetchLikes, populateLikes).
LikesFetched ==
    feed.pc = "print" => \A l \in feed.promised : feed.counts[l.target][l.author] > 0

\* A listing comes to an end while posts arrive and zens fail to answer: no
\* page waits for a goroutine that is gone, and the pages run out.
ListingEnds == <>[](feed.pc \in {"idle", "done"})
============================================================================
