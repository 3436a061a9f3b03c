------------------------------ MODULE Crawler ------------------------------
(***************************************************************************)
(* The follow-graph crawler (internal/crawler/crawler.go) with the daemon's *)
(* fetcher (daemon.go crawlFetch, crawlFetchFollowers): a breadth-first    *)
(* walk in passes of at most maxDepth levels, over a queue that sync       *)
(* sessions and the bootstrap file seed while a pass runs.                 *)
(*                                                                         *)
(* Frontiers are sets: Log.FollowSet is walked in map order, and a second  *)
(* occurrence of an identity is skipped as visited.                        *)
(***************************************************************************)
EXTENDS Integers, FiniteSets

CONSTANTS
    Ids,         \* identities
    Follows,     \* Follows[i]: the follow set of i's ProfileLog
    maxDepth,    \* levels of one pass
    maxCache,    \* identities visited at most
    CanMiss,     \* whether a fetch may reach no zen that answers
    CanLock      \* whether the user locks the signing key

ASSUME CrawlAssumption ==
    /\ IsFiniteSet(Ids)
    /\ Follows \in [Ids -> SUBSET Ids]
    /\ maxDepth \in Nat \ {0} /\ maxCache \in Nat \ {0}
    /\ CanMiss \in BOOLEAN /\ CanLock \in BOOLEAN

VARIABLES
    visited,   \* c.visited
    queue,     \* c.queue
    pc,        \* where Run is; "idle" between passes
    depth,     \* Run's depth
    batch,     \* Run's batch, without what it has dealt with
    next,      \* Run's nextBatch
    cur,       \* the identity being fetched, as a set of at most one
    locked,    \* d.unlocked = nil
    profiles,  \* identities whose ProfileLog was fetched and stored
    heard,     \* identities that answered FetchFollowers
    seeded     \* every identity ever passed to Seed (history)

runVars == <<pc, depth, batch, next, cur>>
vars == <<visited, queue, runVars, locked, profiles, heard, seeded>>

\* The followers a zen has received Follow events from.
FollowersOf(i) == {j \in Ids : i \in Follows[j]}

Full == Cardinality(visited) >= maxCache

----------------------------------------------------------------------------
\* Seed, from learnZenRef or dialBootstrapSeeds, at any time.
Seed(i) ==
    /\ pc # "stopped"
    /\ queue' = IF i \in visited THEN queue ELSE queue \cup {i}
    /\ seeded' = seeded \cup {i}
    /\ UNCHANGED <<visited, runVars, locked, profiles, heard>>

\* Lock RPC or idle lock, and Unlock.
SetLock(l) ==
    /\ l => CanLock
    /\ locked' = l
    /\ UNCHANGED <<visited, queue, runVars, profiles, heard, seeded>>

\* runCrawl enters Run; the running flag admits one pass at a time.
StartRun ==
    /\ pc = "idle"
    /\ pc' = "level" /\ depth' = 0
    /\ UNCHANGED <<visited, queue, batch, next, cur, locked, profiles, heard, seeded>>

\* Mutant: a pass goes on for as long as it finds identities.
TakeBatchUnbounded ==
    /\ pc = "level" /\ queue # {}
    /\ batch' = queue /\ queue' = {} /\ next' = {}
    /\ pc' = "visit"
    /\ UNCHANGED <<visited, depth, cur, locked, profiles, heard, seeded>>

\* The next level takes the whole queue.
TakeBatch ==
    /\ pc = "level" /\ depth < maxDepth /\ queue # {}
    /\ batch' = queue /\ queue' = {} /\ next' = {}
    /\ pc' = "visit"
    /\ UNCHANGED <<visited, depth, cur, locked, profiles, heard, seeded>>

\* maxDepth levels are done or the queue is empty: Run returns.
FinishRun ==
    /\ pc = "level" /\ (depth >= maxDepth \/ queue = {})
    /\ pc' = "idle" /\ depth' = 0
    /\ UNCHANGED <<visited, queue, batch, next, cur, locked, profiles, heard, seeded>>

\* An identity already visited, or no room left.
Skip(i) ==
    /\ pc = "visit" /\ i \in batch
    /\ i \in visited \/ Full
    /\ batch' = batch \ {i}
    /\ UNCHANGED <<visited, queue, pc, depth, next, cur, locked, profiles, heard, seeded>>

\* Mutant: the limit is compared after the fact.
VisitOverfull(i) ==
    /\ pc = "visit" /\ i \in batch
    /\ i \notin visited /\ Cardinality(visited) <= maxCache
    /\ visited' = visited \cup {i}
    /\ batch' = batch \ {i} /\ cur' = {i} /\ pc' = "fetch"
    /\ UNCHANGED <<queue, depth, next, locked, profiles, heard, seeded>>

\* Mark the identity and start to fetch it.
Visit(i) ==
    /\ pc = "visit" /\ i \in batch
    /\ i \notin visited /\ ~Full
    /\ visited' = visited \cup {i}
    /\ batch' = batch \ {i} /\ cur' = {i} /\ pc' = "fetch"
    /\ UNCHANGED <<queue, depth, next, locked, profiles, heard, seeded>>

\* FetchProfileLog fails: the key is locked.  The identity stays marked.
FetchFails ==
    /\ pc = "fetch" /\ locked
    /\ pc' = "visit" /\ cur' = {}
    /\ UNCHANGED <<visited, queue, depth, batch, next, locked, profiles, heard, seeded>>

\* FetchProfileLog returns: events, or nothing when no zen had any.
FetchProfileLog(answered) ==
    /\ pc = "fetch" /\ ~locked
    /\ ~answered => CanMiss
    /\ profiles' = IF answered THEN profiles \cup cur ELSE profiles
    /\ next' = IF answered THEN next \cup ((UNION {Follows[i] : i \in cur}) \ visited) ELSE next
    /\ pc' = "followers"
    /\ UNCHANGED <<visited, queue, depth, batch, cur, locked, heard, seeded>>

\* FetchFollowers: the followed zen's own answer, nothing, or an error.
FetchFollowers(answered) ==
    /\ pc = "followers"
    /\ ~answered => (CanMiss \/ locked)
    /\ answered => ~locked
    /\ heard' = IF answered THEN heard \cup cur ELSE heard
    /\ next' = IF answered THEN next \cup ((UNION {FollowersOf(i) : i \in cur}) \ visited) ELSE next
    /\ pc' = "visit" /\ cur' = {}
    /\ UNCHANGED <<visited, queue, depth, batch, locked, profiles, seeded>>

\* Mutant: the last level's frontier is not put back.
EndLevelDropsLast ==
    /\ pc = "visit" /\ batch = {}
    /\ queue' = IF depth + 1 < maxDepth THEN queue \cup next ELSE queue
    /\ next' = {}
    /\ depth' = depth + 1 /\ pc' = "level"
    /\ UNCHANGED <<visited, batch, cur, locked, profiles, heard, seeded>>

\* Mutant: the frontier replaces what was seeded during the level.
EndLevelOverwrites ==
    /\ pc = "visit" /\ batch = {}
    /\ queue' = next /\ next' = {}
    /\ depth' = depth + 1 /\ pc' = "level"
    /\ UNCHANGED <<visited, batch, cur, locked, profiles, heard, seeded>>

\* The level is done: its frontier joins what was seeded meanwhile.
EndLevel ==
    /\ pc = "visit" /\ batch = {}
    /\ queue' = queue \cup next /\ next' = {}
    /\ depth' = depth + 1 /\ pc' = "level"
    /\ UNCHANGED <<visited, batch, cur, locked, profiles, heard, seeded>>

\* The daemon stops: ctx is cancelled between two identities.
Cancel ==
    /\ pc = "visit" /\ batch # {}
    /\ pc' = "stopped" /\ batch' = {} /\ next' = {}
    /\ UNCHANGED <<visited, queue, depth, cur, locked, profiles, heard, seeded>>

----------------------------------------------------------------------------
Init ==
    /\ visited = {} /\ queue = {} /\ seeded = {}
    /\ pc = "idle" /\ depth = 0
    /\ batch = {} /\ next = {} /\ cur = {}
    /\ locked = CanLock
    /\ profiles = {} /\ heard = {}

RunStep ==
    \/ StartRun \/ TakeBatch \/ FinishRun
    \/ \E i \in Ids : Skip(i) \/ Visit(i)
    \/ FetchFails
    \/ \E a \in BOOLEAN : FetchProfileLog(a) \/ FetchFollowers(a)
    \/ EndLevel

Next ==
    \/ RunStep
    \/ \E i \in Ids : Seed(i)
    \/ \E l \in BOOLEAN : SetLock(l)
    \/ Cancel

Spec == Init /\ [][Next]_vars

\* A running daemon crawls on every tick and every fetch ends, answered or not.
FairSpec == Spec /\ WF_vars(RunStep)

----------------------------------------------------------------------------
\* Every variable has its type.
TypeOK ==
    /\ visited \subseteq Ids /\ queue \subseteq Ids
    /\ batch \subseteq Ids /\ next \subseteq Ids /\ cur \subseteq Ids
    /\ pc \in {"idle", "level", "visit", "fetch", "followers", "stopped"}
    /\ depth \in 0 .. maxDepth
    /\ locked \in BOOLEAN
    /\ profiles \subseteq visited /\ heard \subseteq visited /\ seeded \subseteq Ids

\* The crawl's memory stays bounded: no interleaving of seeds and passes visits
\* more than maxCache identities (Run).
CacheBounded == Cardinality(visited) <= maxCache

Pending == queue \cup batch \cup next

\* The identities whose edges the crawl has learned.
KnownEdges ==
    seeded \cup (UNION {Follows[i] : i \in profiles})
           \cup (UNION {FollowersOf(i) : i \in heard})

\* A pass continues where the last one left off: every seed, every follow of a
\* fetched profile and every follower a zen named is visited or still waiting,
\* whether it was found at the last level, seeded during a pass, or between two
\* passes, until the cache is full (Run, Seed).
FrontierKept ==
    pc # "stopped" /\ ~Full => KnownEdges \subseteq visited \cup Pending

\* What the seeds are connected to: the smallest set that holds the seeds and
\* is closed under follows and followers.
Closed(S) == \A i \in S : Follows[i] \subseteq S /\ FollowersOf(i) \subseteq S
Reach == {i \in Ids : \A S \in SUBSET Ids : seeded \subseteq S /\ Closed(S) => i \in S}

\* Every identity visited so far answered both questions.
AllAnswered == visited \subseteq profiles \cap heard

\* There is room for everything the seeds are connected to.
Fits == Cardinality(Reach) <= maxCache

\* The walk is exact: it visits nothing the seeds are not connected to, and
\* once it rests with an empty queue, every fetch answered and room for the
\* whole, it has visited all of it, in however many passes (Run).
CrawlExact ==
    /\ visited \subseteq Reach
    /\ pc = "idle" /\ queue = {} /\ AllAnswered /\ Fits => visited = Reach

\* What makes FrontierKept and CrawlExact inductive.
CrawlInv ==
    /\ FrontierKept
    /\ visited \cup Pending \subseteq Reach
    /\ cur \subseteq visited
    /\ pc \in {"idle", "level"} => batch = {} /\ next = {}
    /\ pc \in {"visit", "fetch", "followers"} => depth < maxDepth

\* While the daemon runs and fetches answer, everything the seeds are connected
\* to is visited in the end if it fits into the cache, however many passes that
\* takes and whenever the seeds came (runCrawl, Run).
CrawlCompletes == <>[](pc # "stopped" /\ AllAnswered /\ Fits => Reach \subseteq visited)

============================================================================
