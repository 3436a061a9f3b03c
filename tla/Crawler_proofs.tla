--------------------------- MODULE Crawler_proofs ---------------------------
(***************************************************************************)
(* Proofs about Crawler, for every follow graph, depth and cache size: the *)
(* walk never loses an identity it learned of and visits exactly what its  *)
(* seeds are connected to.                                                 *)
(***************************************************************************)
EXTENDS Crawler, FiniteSetTheorems, TLAPS

\* The type invariant and its strengthening are inductive together.
CrawlIInv == TypeOK /\ CrawlInv

\* Ids is finite, so every set of visited identities is.
LEMMA VisitedFinite == TypeOK => IsFiniteSet(visited)
  BY FS_Subset, CrawlAssumption DEF TypeOK

\* Visiting one more identity makes the count grow by one.
LEMMA VisitCounts ==
  ASSUME TypeOK, NEW i \in Ids, Visit(i)
  PROVE  /\ Cardinality(visited) \in Nat
         /\ Cardinality(visited') = Cardinality(visited) + 1
  <1>1. IsFiniteSet(visited)
    BY VisitedFinite
  <1>2. Cardinality(visited) \in Nat
    BY <1>1, FS_CardinalityType
  <1>3. i \notin visited /\ visited' = visited \cup {i}
    BY DEF Visit
  <1> QED BY <1>1, <1>2, <1>3, FS_AddElement

\* Reach holds the seeds.
LEMMA SeedsInReach == TypeOK => seeded \subseteq Reach
  BY DEF TypeOK, Reach

\* Reach is closed under follows and followers.
LEMMA ReachClosed == Closed(Reach)
  <1> SUFFICES ASSUME NEW i \in Reach
               PROVE  Follows[i] \subseteq Reach /\ FollowersOf(i) \subseteq Reach
    BY DEF Closed
  <1>1. i \in Ids
    BY DEF Reach
  <1>2. Follows[i] \subseteq Ids /\ FollowersOf(i) \subseteq Ids
    BY <1>1, CrawlAssumption DEF FollowersOf
  <1>3. ASSUME NEW S \in SUBSET Ids, seeded \subseteq S, Closed(S)
        PROVE  Follows[i] \subseteq S /\ FollowersOf(i) \subseteq S
    <2>1. i \in S
      BY <1>3 DEF Reach
    <2> QED BY <2>1, <1>3 DEF Closed
  <1> QED BY <1>2, <1>3 DEF Reach

\* More seeds reach no less.
LEMMA ReachGrows ==
  ASSUME seeded \subseteq seeded'
  PROVE  Reach \subseteq Reach'
  BY DEF Reach, Closed, FollowersOf

\* The initial states satisfy the invariant.
LEMMA InitCrawl == Init => CrawlIInv
  <1> SUFFICES ASSUME Init PROVE CrawlIInv
    OBVIOUS
  <1>1. TypeOK
    BY CrawlAssumption DEF Init, TypeOK
  <1>2. CrawlInv
    BY DEF Init, CrawlInv, FrontierKept, KnownEdges, Pending
  <1> QED BY <1>1, <1>2 DEF CrawlIInv

\* Every step preserves the types.
LEMMA NextTypes == CrawlIInv /\ [Next]_vars => TypeOK'
  <1> SUFFICES ASSUME CrawlIInv, [Next]_vars PROVE TypeOK'
    OBVIOUS
  <1> USE CrawlAssumption DEF CrawlIInv, TypeOK
  <1>1. ASSUME NEW i \in Ids, Seed(i) PROVE TypeOK'
    BY <1>1 DEF Seed, runVars
  <1>2. ASSUME NEW l \in BOOLEAN, SetLock(l) PROVE TypeOK'
    BY <1>2 DEF SetLock, runVars
  <1>3. CASE StartRun
    BY <1>3 DEF StartRun
  <1>4. CASE TakeBatch
    BY <1>4 DEF TakeBatch
  <1>5. CASE FinishRun
    BY <1>5 DEF FinishRun
  <1>6. ASSUME NEW i \in Ids, Skip(i) PROVE TypeOK'
    BY <1>6 DEF Skip
  <1>7. ASSUME NEW i \in Ids, Visit(i) PROVE TypeOK'
    BY <1>7 DEF Visit
  <1>8. CASE FetchFails
    BY <1>8 DEF FetchFails
  <1>9. ASSUME NEW f \in BOOLEAN, FetchProfileLog(f) PROVE TypeOK'
    <2>1. UNION {Follows[i] : i \in cur} \subseteq Ids
      OBVIOUS
    <2> QED BY <1>9, <2>1 DEF FetchProfileLog, CrawlInv
  <1>10. ASSUME NEW f \in BOOLEAN, FetchFollowers(f) PROVE TypeOK'
    <2>1. UNION {FollowersOf(i) : i \in cur} \subseteq Ids
      BY DEF FollowersOf
    <2> QED BY <1>10, <2>1 DEF FetchFollowers, CrawlInv
  <1>11. CASE EndLevel
    BY <1>11 DEF EndLevel, CrawlInv
  <1>12. CASE Cancel
    BY <1>12 DEF Cancel
  <1>13. CASE UNCHANGED vars
    BY <1>13 DEF vars, runVars
  <1> QED BY <1>1, <1>2, <1>3, <1>4, <1>5, <1>6, <1>7, <1>8, <1>9, <1>10, <1>11, <1>12, <1>13
          DEF Next, RunStep

\* A step that leaves visited, the known edges and the waiting identities alone
\* leaves Reach and Full alone.
LEMMA SameReach ==
  ASSUME UNCHANGED seeded
  PROVE  Reach' = Reach
  BY DEF Reach, Closed, FollowersOf

\* Every step preserves the strengthening.
LEMMA NextCrawl == CrawlIInv /\ [Next]_vars => CrawlInv'
  <1> SUFFICES ASSUME CrawlIInv, [Next]_vars PROVE CrawlInv'
    OBVIOUS
  <1> USE DEF CrawlIInv
  <1>a. TypeOK'
    BY NextTypes
  <1>1. ASSUME NEW i \in Ids, Seed(i) PROVE CrawlInv'
    <2>1. Reach \subseteq Reach' /\ i \in Reach'
      BY <1>1, <1>a, ReachGrows, SeedsInReach DEF Seed, TypeOK, Reach
    <2>2. FrontierKept'
      BY <1>1 DEF Seed, runVars, CrawlInv, FrontierKept, KnownEdges, Pending, Full
    <2> QED BY <1>1, <2>1, <2>2 DEF Seed, runVars, CrawlInv, Pending
  <1>2. ASSUME NEW l \in BOOLEAN, SetLock(l) PROVE CrawlInv'
    BY <1>2, SameReach DEF SetLock, runVars, CrawlInv, FrontierKept, KnownEdges, Pending, Full
  <1>3. CASE StartRun
    BY <1>3, SameReach DEF StartRun, CrawlInv, FrontierKept, KnownEdges, Pending, Full
  <1>4. CASE TakeBatch
    BY <1>4, SameReach DEF TakeBatch, CrawlInv, FrontierKept, KnownEdges, Pending, Full
  <1>5. CASE FinishRun
    BY <1>5, SameReach DEF FinishRun, CrawlInv, FrontierKept, KnownEdges, Pending, Full
  <1>6. ASSUME NEW i \in Ids, Skip(i) PROVE CrawlInv'
    BY <1>6, SameReach DEF Skip, CrawlInv, FrontierKept, KnownEdges, Pending, Full
  <1>7. ASSUME NEW i \in Ids, Visit(i) PROVE CrawlInv'
    <2>1. ~Full' => ~Full
      BY <1>7, VisitCounts, CrawlAssumption DEF Full
    <2>2. Reach' = Reach
      BY <1>7, SameReach DEF Visit
    <2> QED BY <1>7, <2>1, <2>2 DEF Visit, CrawlInv, FrontierKept, KnownEdges, Pending
  <1>8. CASE FetchFails
    BY <1>8, SameReach DEF FetchFails, CrawlInv, FrontierKept, KnownEdges, Pending, Full
  <1>9. ASSUME NEW f \in BOOLEAN, FetchProfileLog(f) PROVE CrawlInv'
    <2>1. Reach' = Reach
      BY <1>9, SameReach DEF FetchProfileLog
    <2>2. UNION {Follows[i] : i \in cur} \subseteq Reach
      BY ReachClosed DEF CrawlInv, Closed
    <2>3. (visited \cup Pending)' \subseteq Reach
      BY <1>9, <2>2 DEF FetchProfileLog, CrawlInv, Pending
    <2>4. KnownEdges' \subseteq KnownEdges \cup visited \cup next'
      BY <1>9 DEF FetchProfileLog, KnownEdges
    <2>5. FrontierKept'
      BY <1>9, <2>4 DEF FetchProfileLog, CrawlInv, FrontierKept, Pending, Full
    <2> QED BY <1>9, <2>1, <2>3, <2>5 DEF FetchProfileLog, CrawlInv
  <1>10. ASSUME NEW f \in BOOLEAN, FetchFollowers(f) PROVE CrawlInv'
    <2>1. Reach' = Reach
      BY <1>10, SameReach DEF FetchFollowers
    <2>2. UNION {FollowersOf(i) : i \in cur} \subseteq Reach
      BY ReachClosed DEF CrawlInv, Closed
    <2>3. (visited \cup Pending)' \subseteq Reach
      BY <1>10, <2>2 DEF FetchFollowers, CrawlInv, Pending
    <2>4. KnownEdges' \subseteq KnownEdges \cup visited \cup next'
      BY <1>10 DEF FetchFollowers, KnownEdges
    <2>5. FrontierKept'
      BY <1>10, <2>4 DEF FetchFollowers, CrawlInv, FrontierKept, Pending, Full
    <2> QED BY <1>10, <2>1, <2>3, <2>5 DEF FetchFollowers, CrawlInv
  <1>11. CASE EndLevel
    BY <1>11, SameReach DEF EndLevel, CrawlInv, FrontierKept, KnownEdges, Pending, Full
  <1>12. CASE Cancel
    BY <1>12, SameReach DEF Cancel, CrawlInv, FrontierKept, Pending
  <1>13. CASE UNCHANGED vars
    BY <1>13, SameReach DEF vars, runVars, CrawlInv, FrontierKept, KnownEdges, Pending, Full
  <1> QED BY <1>1, <1>2, <1>3, <1>4, <1>5, <1>6, <1>7, <1>8, <1>9, <1>10, <1>11, <1>12, <1>13
          DEF Next, RunStep

\* The strengthened invariant holds in every reachable state.
LEMMA CrawlInductive == Spec => []CrawlIInv
  BY InitCrawl, NextTypes, NextCrawl, PTL DEF Spec, CrawlIInv

\* Every variable of the crawl keeps its type: the queue, the levels and the
\* visited set hold identities only, and the depth stays within the limit (Run).
THEOREM CrawlTypeCorrect == Spec => []TypeOK
  <1>1. CrawlIInv => TypeOK
    BY DEF CrawlIInv
  <1> QED BY <1>1, CrawlInductive, PTL

\* Whatever the graph, the depth limit and the moments at which identities are
\* seeded, a crawl loses nothing it learned of (Run, Seed).
THEOREM NothingForgotten == Spec => []FrontierKept
  <1>1. CrawlIInv => FrontierKept
    BY DEF CrawlIInv, CrawlInv
  <1> QED BY <1>1, CrawlInductive, PTL

\* A rested crawl with no missed answers has visited exactly what its seeds are
\* connected to; at no time has it visited anything else (Run).
THEOREM WalkIsExact == Spec => []CrawlExact
  <1>1. ASSUME CrawlIInv PROVE CrawlExact
    <2>1. visited \subseteq Reach
      BY <1>1 DEF CrawlIInv, CrawlInv
    <2>2. visited \in SUBSET Ids /\ IsFiniteSet(Reach)
      BY <1>1, FS_Subset, CrawlAssumption DEF CrawlIInv, TypeOK, Reach
    <2>3. ASSUME Full, Fits PROVE visited = Reach
      <3>1. Cardinality(Reach) \in Nat /\ Cardinality(visited) \in Nat
        BY <2>1, <2>2, FS_Subset, FS_CardinalityType
      <3>2. /\ Cardinality(visited) <= Cardinality(Reach)
            /\ Cardinality(Reach) = Cardinality(visited) => Reach = visited
        BY <2>1, <2>2, FS_Subset
      <3> QED BY <3>1, <3>2, <2>3, CrawlAssumption DEF Full, Fits
    <2>4. ASSUME pc = "idle", queue = {}, AllAnswered, ~Full
          PROVE  Reach \subseteq visited
      <3>1. KnownEdges \subseteq visited
        BY <1>1, <2>4 DEF CrawlIInv, CrawlInv, FrontierKept, Pending
      <3>2. seeded \subseteq visited /\ Closed(visited)
        BY <3>1, <2>4 DEF KnownEdges, Closed, AllAnswered
      <3> QED BY <3>2, <2>2 DEF Reach
    <2> QED BY <2>1, <2>3, <2>4 DEF CrawlExact
  <1> QED BY <1>1, CrawlInductive, PTL

\* The crawl never holds more than maxCache identities (Run).
THEOREM VisitedBounded == Spec => []CacheBounded
  <1>1. Init => CacheBounded
    BY FS_EmptySet, CrawlAssumption DEF Init, CacheBounded
  <1>2. CrawlIInv /\ CacheBounded /\ [Next]_vars => CacheBounded'
    <2> SUFFICES ASSUME CrawlIInv, CacheBounded, [Next]_vars PROVE CacheBounded'
      OBVIOUS
    <2>1. ASSUME NEW i \in Ids, Visit(i) PROVE CacheBounded'
      <3>1. Cardinality(visited) \in Nat /\ Cardinality(visited') = Cardinality(visited) + 1
        BY <2>1, VisitCounts DEF CrawlIInv
      <3>2. ~(Cardinality(visited) >= maxCache)
        BY <2>1 DEF Visit, Full
      <3> QED BY <3>1, <3>2, CrawlAssumption DEF CacheBounded
    <2>2. ASSUME ~(\E i \in Ids : Visit(i)) PROVE visited' = visited
      BY <2>2 DEF Next, RunStep, Seed, SetLock, StartRun, TakeBatch, FinishRun, Skip,
                  FetchFails, FetchProfileLog, FetchFollowers, EndLevel, Cancel, vars
    <2> QED BY <2>1, <2>2 DEF CacheBounded
  <1> QED BY <1>1, <1>2, CrawlInductive, PTL DEF Spec

============================================================================
