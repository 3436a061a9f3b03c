# driftnode in TLA+

Specifications of driftnode, a serverless social network in which every user
runs a *zen*: a daemon that owns the user's signed logs, dials the zens of
followed identities, and exchanges logs with them. The modules model the parts
of the daemon whose correctness depends on order: concurrent handlers over a
database of short transactions, two-ended sessions over connections that break,
cursors that decide what is never asked for again, caches and push queues, a
breadth-first crawl in passes, the sync loop, and processes that meet in a file
lock and a socket path. TLC checks small instances;
TLAPS proves the central invariants for every value of the constants.

Source paths below are relative to the repository's root.

## 1. The system

| Part | State | Operations | Correct when |
|---|---|---|---|
| Own logs and caches, `internal/store` | own PostLog and ProfileLog, follow-state cache (followed, pinned), cursors, routing, crawl bucket, all in bbolt | `SignAndAppend`, `Follow`, `Unfollow`, `PinIdentity`, `ExportBackup`, `ImportBackup` | a post is liked once, a pin has an edge, the cache is the projection of the log, a restore restores |
| Replication, `internal/sync/session.go` | a cursor per (zen, log) | `pullLog`, `advanceCursor`, `fetchOwnEvents` | nothing is ever behind a cursor and missing; everything arrives |
| Session, `internal/sync` | a connection with two roles | `Handshake`, `RunInitiator`, `RunListener`, `exchangeZens` | both ends stay in step, both end, both have everything |
| Feed and push, `internal/daemon`, `internal/tui` | feed cache and its generation, subscriber queues, panels | `cachedPosts`, `invalidateFeed`, `broadcast`, `Subscribe`, `applyDiff` | no post falls between snapshot and diffs, the panels settle on what was broadcast |
| Crawler, `internal/crawler` | visited set, queue | `Seed`, `Run` | bounded, forgets nothing, ends with the seeds' component |
| Daemon, `internal/daemon` | zens, known tokens, routing, key, sync signal | follow, unfollow, lock, unlock, `syncLoop`, `resolvePendingFollows`, bootstrap | dials only for followed identities, at tokens where they authenticated; loses no signal; resolves what it can; gives every seed its turn |
| Event projections, `internal/core/log.go` | none (pure) | follow set, profile, tombstones | agree with the set of events, whatever order they came in |
| Feed listing and likes, `internal/cli`, `internal/daemon`, `internal/sync` | the timeline and the crawl bucket behind it | `feedOnline`, `handleFeedPage`, `handleFetchLikes`, `FetchLikes`, `handleLikeRequest`, `LikesForPosts` | a listing of a feed that loses nothing leaves nothing out, ends, and counts the likes that were signed and sent |
| Commands and processes, `internal/cli`, `internal/daemon` | the store file and its lock, the socket path, the stored key, identity and transport key, the daemon's fields | every command, `Start`, `Stop`, `startTransport`, `rotateKey`, unlock, lock, the RPC handlers | a write happens once, key and identity agree, a running daemon is reachable at the address it stored, whatever is told to stop stops |
| Encoding, identities, TUI rendering, generated code | | | not modelled, see section 8 |

How they interact: an RPC handler or a session calls the store (several
transactions, no lock across them), then changes the daemon's maps under `d.mu`,
and broadcasts after the unlock. Sessions run in goroutines of the accept loop,
of a sync round, and of a follow call; each pulls both logs in both directions,
learns tokens, and seeds the crawler. Who answers at a token is known only after
the handshake: a zen that imports another identity keeps its address. A restart
keeps only the store. A command probes the socket; if a daemon answers it makes
its RPCs, and otherwise it opens the store file itself, which a daemon keeps
locked for as long as it runs.

What is hard in it: handlers and sessions that interleave between transactions;
timestamps taken before the append; connections that end mid-stream, where the
end of file counts as success; queues of one slot (the sync signal) and of fixed
size (a subscriber); caches filled from a read that is stale; crashes between an
append and the cache it belongs to; a key that is locked and unlocked under
running work; a command whose daemon goes away under it; a daemon that ends while
the next one starts. `PROJECT.json` lists each at its line under `hazards`, with the
properties that cover it.

## 2. Modules

| Module | Models | Composition |
|---|---|---|
| `LogSync` | log replication by cursors | abstract specification of a session |
| `SyncSession` | both ends of a session, message by message | `LS == INSTANCE LogSync WITH ...`; implements `LS!Spec` |
| `Store` | own logs, follow cache, pins, backup | |
| `FeedPush` | feed cache, push, panels | |
| `Crawler` | the crawl in passes | |
| `Daemon` | follow graph, routing, sync rounds, bootstrap, key | |
| `FeedRead` | the feed listing, page by page, and the likes it fetches | |
| `Commands` | the CLI's commands as data: RPCs, offline transactions, passphrase | extended by `Control` |
| `Control` | store file, socket, daemon processes, handlers and command processes | composes the two ends: interprets `Commands` |
| `MC*` | instances for TLC: graphs, post authors, command flags, symmetry | extends the module it is named after |
| `LogSync_proofs`, `SyncSession_proofs`, `Store_proofs`, `FeedPush_proofs`, `FeedRead_proofs`, `Crawler_proofs`, `Daemon_proofs`, `Control_proofs` | theorems | extend the module they are named after; `SyncSession_proofs` also uses the theorems of LogSync, `LP == INSTANCE LogSync_proofs WITH ...` |

A definition's name is the source's name where one function is one step;
a handler with several transactions is one action per transaction, joined by a
program counter. Definitions marked *Mutant* in their comment are wrong variants
of the definition that follows them: for every property of a passing run there
is one whose use makes TLC find the property violated. They show that the
property depends on the code it is about.

### LogSync

`own[a]` is an author's log, `pending[a]` the events that have a timestamp and
are not yet in it (`SignAndAppend` reads the clock before its write
transaction), `held[r][a]` a reader's copy, `cursor[k]` the sync cursor of a
(reader, author, log). A pull is `Request` (the cursor is read), `Serve` (the
author's snapshot of events after it), `Merge` one event at a time in time
order, and `Done`, `EndOfFile` or `Fail`. `EndOfFile` advances the cursor as
`Done` does: `pullLog` treats a closed connection as the end of the stream.
`LoseSigned` is an append that fails. `Tick` moves the clock while nothing
pending falls more than `Lag` behind: `Lag < Skew` is the assumption that five
minutes of skew window exceed the time between a timestamp and its append plus
any step back of the clock.

### SyncSession

`pc[z]` is where each end is; `wire[z]` holds what z wrote and the peer has not
read. `Cap` is what the transport buffers, and a write returns once at most
`Cap` messages are unread, so `Cap = 0` is `net.Pipe`, on which a handshake that
writes before it reads would deadlock. `Break` is the network; `Abort` is every
error return; `Close` is the deferred close. The refinement maps each zen to an
author, a reader and the owner of one pull; a pull's remaining stream is what is
left of the request's answer on the wire, in the batch being merged and in the
messages still to be written. An answer lists the events in time order, which is
the order of the keys in bbolt; events of the same time come in any order
(`TimeOrders`), since their keys go on with a hash.

### Store

One action per bbolt transaction of `SignAndAppend`, `Follow`, `Unfollow`:
`CheckLike`, `CountAndSign`, `Append`, `UpdateCache`. `Crash` loses what was in
flight and keeps the database. `ImportEvent`, `RebuildFollowState`,
`PutPinnedIdentities` are the steps of a restore, which may be interrupted and
repeated, on the same store or on a new one. `FollowSet` is the log's replay in
time order, stated as what it leaves.

### FeedPush

A writer is a goroutine: it stores a post (`AppendPost`, or `MergePost` in a
session), calls `invalidateFeed`, and broadcasts: `CopySubs` under the lock,
then `Send` to one subscriber at a time; a full queue has its `done` closed, in
two steps as in the code (the check, then `CloseDone`).

The keyed panels are the zens and the follows. `upsertZen`, `removeZen`,
`setZenStatus` and `EditFollow` change a record under its lock and hand the diff
to `broadcast` afterwards; two goroutines may do so with the same key. Two writes
have no diff: `followByToken`, whose dial then says how it went (`DialDone`, if
the zen is still recorded), and `rehydrateZens`, once, while the socket already
serves. Of a record the model keeps whether it is there, not its status. `loose`
is history: the entries whose last change had no diff, or had one that went out
beside an older diff saying the opposite.

A viewer registers, builds its snapshot in
the steps of `snapshot` and `cachedPosts` (`LookupPosts` reads the cache and the
generation; `RebuildPosts` uses what another reader has cached meanwhile if the
generation is the one it read, and otherwise reads the store and caches, under
`feedMu`), then pumps diffs. `Drop` and `Break` end the
stream, `RemoveFirst` is `removeSubscriber`, and the TUI subscribes again.
`NoPostLost` is about the posts whose author is followed whatever is edited
(`Steady`): a follow does not push the posts it brings into view.

### Crawler

`TakeBatch`, `Visit`/`Skip`, `FetchProfileLog`, `FetchFollowers`, `EndLevel` are
the loop of `Run`; `Seed` may come at any time; `FetchFails` is a fetch with the
key locked, which leaves the identity marked; `Cancel` ends the daemon. `Follows`
is the graph the profiles describe. `profiles`, `heard` and `seeded` remember
what was fetched and what was seeded.

### Daemon

`proc[p]` is a goroutine of a follow call, an unfollow call or a bootstrap, one
step per store transaction and per dial; `loop` and `active` are the sync loop
and the sessions of its round, at most `syncConcurrency` of them. `Probe` is one
handshake of `resolvePendingFollows`. `Restart` keeps `follows` and `routing`,
rehydrates `zens`, and starts the bootstrap. What a session transfers is
SyncSession's subject; here it authenticates the other side or fails. `answers[t]`
is the identity that authenticates at token t: any assignment at first, and
`Rekey` changes it, which is a `key import` at another zen. `LearnZenRef` notes on
a record the identity that some zen named for a token, right or wrong; a follow
by that pubkey dials the token. `handleUnlock` comes from an Unlock call or from
any signing call with a passphrase, and while the bootstrap is not done each one
starts another run of it. `file` is the bootstrap file, with any of `Seeds` in it.
`Flaky` are the tokens at which dials and sessions may fail. `met`, `settled` and
`stale` are history: who has authenticated where, which seeds had their turn since
the start, and whether the follow graph changed since the last round read it.

### FeedRead

`feed` is the command and the FeedPage call it waits for: `HandleFeedPage` cuts
the page from the cached or rebuilt timeline, `HandleFetchLikes` starts a
goroutine per known zen, `FetchLikes` is one such exchange (the zen fails,
answers, hangs up early, or sends a like nobody signed), `StoreLikes` takes a
result off the channel, `Populate` counts, `PrintPage` prints and asks for the
next page. The timeline is cached or not when the command starts, and a cached
one may be stale: `WarmCache` is everybody else who reads it, `Start`'s pre-warming,
a snapshot, another listing, and an unfollow leaves it as it is. Meanwhile
`PostNow`, `HandleLike`, `Sync` and `Turn` (a follow or an unfollow) change what
the next page is cut from, and `SyncElsewhere` spreads likes among the other zens.

A like names its author, its post and the machine it was signed on: an own log
refuses a second like of a post, but a user who has the key on two machines can
like it on each, and then it is `PutCrawledEvent` that keeps one of the two.
`LikesForPosts` counts every like of the own log and of the crawl bucket and looks
at no signature; `Verify` is the check in `Client.FetchLikes`. `feed.kept`,
`feed.seen`, `feed.shrunk` and `feed.promised` are history: the posts that have
been in the feed from the start of the command to its last page, those the last
page was cut from, whether a page was cut from a timeline that lacks a post the
one before had, and the likes a zen sent for this page.

### Commands and Control

`Commands` is a table: for each command its RPCs, the store transactions of its
offline path, and when it needs a passphrase. `Control` runs them. `lock` is
bbolt's lock on the store file and `sock` the daemon whose listener the socket
path names; `db` is what the file keeps of the key, the identity and the
transport key (a key stands for its own identity, a transport key for its own
address). `main[d]` is `daemonCmd`, `daemon[d]` the fields `Stop` and the
handlers share under `d.mu`, `stop[d][s]` one call of `Stop`, by a signal or by
an RPC, `work[a]` a `startTransport` under way, in `Start` or in a rotation,
`cli[c]` a command and `rpc[c]` the handler that serves it, which runs on when
the command is gone. `DialClient` is the probe and `Call` the RPC's own
connection: between them the daemon may have been replaced. A handler whose
store was closed under it fails (`StoreOpen`). A follow by token and `feed
--all-likes` wait for another zen (`AskZen`) with no deadline after the dial, until
`ZenAnswers`, which need not come. `applied` and `raced` are history:
how often a command's write reached the store, and the daemons in which two
changes of the transport key overlapped. The six commands that sign an event are
one command here, and so are the four that set a local mark: they make the same
calls and differ in the record they write, which is Store's subject.

## 3. Runs

| Run | Result | Question |
|---|---|---|
| `LogSync_pull` | pass | cursors never skip (`CursorSafe`), the proof's invariant holds (`IndInv`), everything arrives (`Converges`) |
| `LogSync_import` | violation | a restored backup's old events are behind the cursors of readers |
| `SyncSession_sessions` | pass | on an unbuffered connection that breaks, with both zens writing: the ends never read a message they do not expect (`InStep`), sessions end (`Terminates`), an unbroken one is complete (`SessionComplete`), and all of it implements LogSync (`ImplementsLogSync`) |
| `Store_concurrent` | pass | `OneLikePerPost`, `LikeTakesEffect`, `PinnedAreFollowed`, `ImportRestores` with two handlers, a crash, two imports |
| `Store_drift` | violation | `CacheMatchesLog` with two handlers |
| `FeedPush_push` | pass | `CacheCurrent`, `NoPostLost`, `PostsReachViewers`, and `PanelsConverge` with two goroutines on one zen and one follow edge |
| `FeedPush_close` | violation | `DropIsSafe`: a subscriber's channel is closed twice |
| `FeedRead_list` | pass | `ListingComplete`, `ListingEnds` while the timeline moves, from a cold, warm or stale cache; `LikesHonest`, `LikesFetched` with zens that fail, hang up or lie, and keys on two machines |
| `Crawler_passes` | pass | `CacheBounded`, `FrontierKept`, `CrawlExact`, `CrawlCompletes` under misses, lock, cancel, full cache |
| `Daemon_safety` | pass | `RoutingTruthful`, `RoundDialsFollowed`, `SignalKept` under failing dials, a restart and a zen that changes its identity |
| `Daemon_liveness` | pass | `FollowResolves` from a locked start with a restart and a zen that changes its identity; `SeedsTried` from a locked start with failing dials, a lock and a restart |
| `Control_commands` | pass | `IdentityMatchesKey`, `UnlockedIsStored`, `AppliedOnce`, `RunningReachable`, `AddressPersisted`, `Settles` for every command against two daemons, with a crash |

Run one with `tlc -config <run>.cfg MC<module>`. Deadlock checking is off where
the bounded writers, sessions or calls of an instance really come to rest
(SyncSession, Store, FeedPush, FeedRead, Control); LogSync, Crawler and Daemon
always have a step.

### Bounds

* LogSync: two events, a clock of four, a skew window of two, a lag of one, two
  overlapping pulls of one log, one broken connection. Two events are the least
  with an order to get wrong, four clock values let an event be appended late,
  after a newer one was pulled and the cursor moved; one cursor moves twice.
* SyncSession: two sessions, so that the second starts from a cursor and the
  other zen may open it; two events, of one zen or of both, in batches of one, so
  that an answer is several messages; no buffer; one break, anywhere. A last batch
  that is shorter than the others is left to `SessionsComplete`.
* Store: two handlers suffice for every race of two transactions; three events
  let follow, unfollow and follow again meet. `Store_drift` has no crash: two
  callers are enough for what it shows.
* FeedPush: a queue of one is full at the second diff; a page of one is left by
  the second post; four subscriptions cover every drop and break of the run.
  `Scenario` says what may happen in one behaviour: two posts with one change of the
  follow graph or one break, or, without posts, three changes and breaks, so that a
  record is made, removed and made again by either goroutine.
* FeedRead: pages of one post and four posts, so that a listing takes several
  pages and posts arrive between two of them, and two follow changes, so that a
  timeline is stale before the listing and rebuilt during it. Or, by `Scenario`,
  `feed --all-likes` with one post, three likes, two other zens, so that answers come
  in either order and one relays what the other signed, and two machines.
* Crawler: a follows b, c follows b and is found only as b's follower, d is
  connected to nobody; passes of two levels do not reach the end. The cache of
  three holds the component of a, b and c, and overflows when d is seeded too.
* Daemon: two identities and two tokens, any answering anywhere at first; two
  calls, one restart, one identity that moves, and, beside at most one of these, zens
  that name any identity for any token (`NamesOrChanges`). In the liveness run nobody
  names an identity, one token never fails and the other may, and `Scenario` allows either a call with a restart or a
  move and no seeds, or a file of one or two seeds with a restart or one more lock,
  with two bootstrap goroutines at a time if it has one seed.
* Control: two daemons, because the end of one meets the start of the next; one
  command, any of them with any passphrase, over a store that is empty or
  initialised; two keys and two transport keys, so that each can be replaced; one
  crash, of a daemon or of the command. Two commands at once are not in the run;
  a signal beside a Stop RPC gives two stops at once.

`Scenario` restricts what users, zens and the network do. Where fairness asks for a
step it is never held back, except that an unlock in `Daemon_liveness` may have to
wait for a bootstrap to end, which it does.

Symmetry is used in `Store_concurrent` (handlers) and `Daemon_safety` (handler
goroutines, and, without seeds, identities and tokens), which check only
invariants.

### Fairness

* LogSync: strong fairness of `Request` for each key (the sync loop starts a
  round on every tick; whether a pull slot is free alternates), weak fairness of
  the steps of a pull whose connection holds. `Tick`, `Sign` and faults are not
  fair: nobody has to write.
* SyncSession: weak fairness of each end's code. `Break` is not fair.
* FeedPush: handlers and broadcasts run to their end, the TUI reads its stream
  and reconnects, and a closed `done` is noticed, since `select` picks among
  ready cases at random. A session need not end.
* FeedRead: the call is served, and every zen that was dialed answers, fails or
  hangs up. The code bounds only the dial (15 s); a zen that stays silent after
  it would hold the page for ever, and the fairness excludes that.
* Crawler: every tick starts a pass and every fetch returns. `CrawlCompletes` is
  about the walks in which every fetch was answered: a missed one is not retried.
* Control: main, the handlers, Stop and the commands run, and each of the waits of
  these steps has a deadline in the code (the file lock 5 s, the drain
  `gracefulStopTimeout`, the restart's poll 5 s). Nobody has to start, stop or
  crash anything, or to quit a terminal UI, and another zen need not answer:
  `ZenAnswers` is not fair, and `Settles` leaves out a command that waits for one
  in a daemon nobody stops (`WaitsForZen`). No process loops, so weak fairness of
  the disjunction of the steps is enough.
* Daemon: goroutines and the sync loop run, sessions end, and the user unlocks a
  locked key. `FollowResolves` is about the tokens at which dials do not fail, since
  one that never answers resolves nothing.

## 4. What disagrees

* `LogSync_import`. The design document promises that importing an older backup
  "merges cleanly"; events restored with timestamps below a follower's cursor
  are never sent to that follower.
* `Store_drift`. The follow-state cache is "kept in sync with the signed, synced
  ProfileLog by store.Follow and store.Unfollow"; the append and the cache update
  are two transactions, and a concurrent Follow and Unfollow leave the cache
  saying the opposite of the log.
* `FeedPush_close`. A subscriber whose queue is full "is dropped"; two
  broadcasts that drop the same one both close its channel, and the second close
  panics.
Other places where the code's own behaviour limits what the properties claim. Each
is a behaviour of the models, and the property named leaves it out:

* Panels (`PanelsConverge`). `followByToken` (`daemon.go:1357`) and `rehydrateZens`
  (`daemon.go:602`) record a zen without a diff, and a viewer whose snapshot is older
  does not show it, although `server_grpc.go:393` says that a change is in the
  snapshot or comes as a diff. A diff is sent after the unlock: the removal of a zen
  can overtake its last status, and the panel shows the removed zen until the viewer
  reconnects or the zen changes again. The model marks both `loose`.
* Listing (`ListingComplete`). An unfollow does not invalidate the cached timeline
  (`daemon.go:1425`); whether it came before the listing or during it, the next
  rebuild is shorter, what is left moves to pages already printed, and the listing
  skips as many posts that were there all the time, although `root.go:387` reads
  "until limit is reached or the feed is exhausted". The model marks it `shrunk`.
* Own likes (`LikesHonest`). An own like that a zen sends back is stored in the crawl
  bucket, whose dedup does not look into the own log, and is counted twice.
* Whom a session is with (`RoundDialsFollowed`). `connectAndSync` does not compare
  who answers with the identity it dials for, so a zen that imported another identity
  and kept its address is synced and bound, although `daemon.go:1789` says that
  syncing with a token that is not a followed identity would leak its posts. A round
  that read the follow graph before an unfollow binds the identity after it. A follow
  by pubkey dials the token some zen named for it, and follows whoever answers.
* Seeds (`SeedsTried`). A seed that cannot be dialed has had its turn:
  `bootstrapDone` is set all the same, and the next start tries it again. One whose
  token came in by exchange first is skipped and not followed, although SECURITY.md
  says that seeds are followed.
* A merge that fails is logged, and the next event moves the cursor past it
  (`pullLog`). Sequence numbers may repeat under concurrent callers. A repeated
  follow takes a pin off. A crawl fetch that failed, or a bootstrap seed that
  could not be dialed, is not tried again while the daemon runs.
* `Stop` called by an RPC and a signal at once. The call that finds nothing to
  close gets to `close(d.done)` first, main closes the store, and the next daemon
  may start while the other call still drains; that call then unlinks the new
  daemon's socket file. Both may also pass the guard of the close, and the second
  close panics. `RunningReachable` is stated for daemons that are not stopped
  twice.
* A rotation that overlaps `Start` or another rotation (`raced`) is left out of
  `AddressPersisted`: it can delete the key that `Start` has just stored, and if its
  own listener then fails the daemon goes on at an address that is not stored. One
  that fails leaves `tcListener` naming a closed listener, which `AddressPersisted`
  allows.
* A zen that stops answering holds a follow by token, or a `feed --all-likes`, for
  ever, and with it the user's command (`WaitsForZen`). Stop ends it.
* A key imported with a wrong passphrase leaves a store with a key and no
  identity, and unlocking the key does not set it.

## 5. Proofs

| Theorem | Statement |
|---|---|
| `LogSync_proofs!TypeCorrect` | `Spec => []TypeOK` |
| `LogSync_proofs!Inductive` | `Spec => []IndInv` |
| `LogSync_proofs!CursorNeverSkips` | `Spec => []CursorSafe` |
| `SyncSession_proofs!SessionsStayInStep` | `Spec => []InStep` |
| `SyncSession_proofs!SessionsImplementLogSync` | `Spec => ImplementsLogSync` |
| `SyncSession_proofs!SessionsKeepCursorsSafe` | `Spec => []LS!CursorSafe` |
| `SyncSession_proofs!SessionsComplete` | `Spec => []SessionComplete` |
| `Store_proofs!StoreTypeCorrect` | `Spec => []TypeOK` |
| `Store_proofs!LikesAreUnique` | `Spec => []OneLikePerPost` |
| `Store_proofs!LikesTakeEffect` | `Spec => []LikeTakesEffect` |
| `Store_proofs!PinsHaveEdges` | `Spec => []PinnedAreFollowed` |
| `Store_proofs!ImportsRestore` | `Spec => []ImportRestores` |
| `FeedPush_proofs!FeedTypeCorrect` | `Spec => []TypeOK` |
| `FeedPush_proofs!CacheNeverBehind` | `Spec => []CacheCurrent` |
| `FeedPush_proofs!NoPostFallsBetween` | `Spec => []NoPostLost` |
| `FeedPush_proofs!PanelsSettle` | `Spec => []PanelsConverge` |
| `FeedRead_proofs!NothingLeftOut` | `Spec => []ListingComplete` |
| `FeedRead_proofs!CountsAreHonest` | `Spec => []LikesHonest` |
| `FeedRead_proofs!FetchedLikesCount` | `Spec => []LikesFetched` |
| `Crawler_proofs!CrawlTypeCorrect` | `Spec => []TypeOK` |
| `Crawler_proofs!NothingForgotten` | `Spec => []FrontierKept` |
| `Crawler_proofs!WalkIsExact` | `Spec => []CrawlExact` |
| `Crawler_proofs!VisitedBounded` | `Spec => []CacheBounded` |
| `Daemon_proofs!DaemonTypeCorrect` | `Spec => []TypeOK` |
| `Daemon_proofs!RoutingNeverLies` | `Spec => []RoutingTruthful` |
| `Daemon_proofs!RoundNeverDialsHearsay` | `Spec => []RoundDialsFollowed` |
| `Daemon_proofs!NoSignalLost` | `Spec => []SignalKept` |
| `Control_proofs!ControlTypeCorrect` | `Spec => []TypeOK` |
| `Control_proofs!IdentityIsTheKeys` | `Spec => []IdentityMatchesKey` |
| `Control_proofs!CommandsWriteOnce` | `Spec => []AppliedOnce` |
| `Control_proofs!UnlockedKeyIsStored` | `Spec => []UnlockedIsStored` |
| `Control_proofs!RunningIsReachable` | `Spec => []RunningReachable` |
| `Control_proofs!AddressIsStored` | `Spec => []AddressPersisted` |

They hold for all sets of authors, readers, logs, pulls, handlers, writers,
viewers, targets, identities, daemons, commands and keys, all graphs, all queue,
page, batch and buffer sizes, from the named assumptions of the modules:

* `SkewAssumption` (`Lag < Skew`), `BoundAssumption`, `LikesAssumption`;
* `SessionAssumption` (two zens, a batch is not empty) and SyncSession's
  `StoreAssumption`, which is LogSync's three and says that the two logs are two;
* Store's `StoreAssumption` (bounds are numbers);
* `FeedAssumption` (posts are numbered by age, a queue and a page hold at least
  one, `Nil` is no diff), `FeedReadAssumption` (finitely many other zens);
* `CrawlAssumption` (finitely many identities), `DaemonAssumption` (`Nil`
  is neither identity nor token; of who answers where nothing is assumed);
* `ControlAssumption` (daemons, commands and Nil are distinct).

TLC evaluates each in every run of its module. No theorem has another hypothesis.

**CursorNeverSkips.** `CursorSafe` is not inductive: a cursor moves to the
largest timestamp of a stream less the skew, and nothing in `CursorSafe` says
what may still be appended below that. `IndInv` adds that cursors and requests
are *settled* (zero, or a skew window behind the author's clock), so that no
pending event can land below them (`TimestampBounds` with `Lag < Skew`); that a
stream is a snapshot delivered in order (`StreamOrdered`); and that each event of
a log being pulled is *accounted for*: held, still in the stream, or appended
after the snapshot and then less than a skew window behind everything the pull
sees (`StreamAccounted`). When the stream ends or breaks, everything at or below
`maxTS - Skew` falls in the first case. One lemma per action.

**SessionsStayInStep.** `Talk` is the state of a conversation on a connection
that is up: for each pair of program counters, what may be on the wire in each
direction and what is left of an answer (`StepInv`). A dead connection has lost
the pairing, and what survives is that whatever is still on the wire has a case
where it will be read (`AllReadable`).

**SessionsImplementLogSync.** Each action of SyncSession is shown to be the
LogSync action of the same name or a stutter, under the mapping of section 2.
Three facts about the mapped state are needed. The request, the rest of the
answer, the messages on the wire and the batch are one stream in time order
(`PullsInv`), so that the event a zen merges is a least one of `rest`, and cutting
an answer into batches leaves `rest` as it was. At most one request is under way
in each direction (`Talk`). And the pulls cut short are at most two per session
(`CutInv`), which is LogSync's bound on faults.

**SessionsKeepCursorsSafe.** LogSync's inductive invariant, instantiated under
the mapping, is preserved by every step of a session, because each is a step of
LogSync or a stutter: `CursorSafe` carries over to the sessions, without a second
proof. The same instance provides that the events between a cursor and the
author's snapshot are held or in the stream, which the last theorem uses.

**SessionsComplete.** `ProgressInv` says for every point of an unbroken session
what each zen has already got: with a pull of a log over, everything the peer had
of that log at the start (`Got`), with the tokens read, all the peer knew
(`Told`), and the initiator only gets to its next phase with the earlier ones
over. `HistoryInv` says that the logs and tokens at the start are still there.
A pull that is over has an empty stream, and `IndInv` of LogSync then gives all
of the log: what is behind the cursor was held before.

**LikesAreUnique.** The check in `SignAndAppend` does not make likes unique, the
second check inside `AppendOwnEvent`'s transaction does. `LikeInv` adds that the
PostLog holds likes only and that a handler about to append holds an event of the
operation it was called for. `LikesTakeEffect` adds what was answered (`ReplyInv`):
"already liked" is answered only when the log has the like.

**StoreTypeCorrect.** A sequence number is one more than the length of a log, so
its bound needs that a log is no longer than the clock: no two events, of either
log or in a handler, have the same timestamp (`SignedOnce`), and a set with one
event per timestamp is counted by an injection into `1 .. clock - 1`.

**PinsHaveEdges.** Inductive as it stands: each transaction that writes the
record writes both flags.

**ImportsRestore.** `ImportInv`, phase by phase: an event of the backup is stored
or still to be imported; after the rebuild the cache is the replay of the log and
nothing is pinned; then the pins are the backup's, where there is an edge. It
needs that no handler runs beside an import, which the command's lock gives.

**CacheNeverBehind.** Needs only the types beside it. The store is read under the
lock the cache is written under, so what is cached has every post stored by then;
a post stored later becomes published only in `invalidateFeed`, which drops the
cache.

**NoPostFallsBetween.** `DueInv`, for every viewer from the moment its snapshot's
feed is read: a published post is shown, hidden by a full page of newer ones,
queued, or *due*, which is that some writer holds its diff and has not yet copied
the subscribers or has this one still to send to. A viewer is registered before
it reads the feed (`SubsInv`), so a writer that copies afterwards copies it. That
showing one more post hides no post that is not behind a full page is a lemma
on pages, from the cardinality of the newer posts.

**PanelsSettle.** `EntriesInv`: for every entry of a keyed panel that is not
`loose` and every viewer that is not being dropped, with no diff about the entry
still coming from a writer, the last queued diff about it says what the daemon
has, and without a queued one the panel does. `OwnInv`: a diff about such an entry
that is being sent is still true, whoever sends it. Several goroutines may edit
the same key; what `loose` leaves out is what the code gets wrong, a change without
a diff and a diff that crosses a contrary one, and the next change that is
broadcast alone ends it.

**NothingLeftOut.** `Listed`: a post that has been in the feed since the command
began has been printed, is on the page at hand, or had a rank beyond it in the
timeline of the last page; a timeline that loses nothing pushes posts down, never
up. Of the cached timeline it needs only that it is ordered (`CacheSound`), not
that it is what a rebuild would give, so the theorem holds for stale caches. The
lemmas on `Rank` and `NewestFirst` count the newer posts of a finite set and say
which ranks the page `items[p * limit ..]` holds.

**CountsAreHonest, FetchedLikesCount.** `LikesInv`: what is in the crawl bucket,
in another zen's store or in a result on the channel was signed, because
`FetchLikes` verifies it and sessions merge what its author signed; the bucket has
one like of a post by each author, which `PutKeeps` shows of `PutCrawledEvent` for
whatever comes in; and a like a zen sent for this page is in the bucket, itself or
as another like of that post by that author, or in a result still on the channel,
until the collector is through. `LikesForPosts` adds up what is stored, so the
user's own likes, in two places, are not bounded by one.

**NothingForgotten, WalkIsExact.** `CrawlInv`: what has been visited or is
pending is within the seeds' component, a level's working sets are empty between
levels, and every known edge ends in a visited or pending identity. At rest with
nothing pending and all fetched, the visited set is closed under the edges, and
the component, the smallest closed set with the seeds, is within it.

**RoutingNeverLies, RoundNeverDialsHearsay, NoSignalLost.** One invariant,
`DaemonInv`: a goroutine that is about to write a binding carries the identity it
authenticated at that very token (`ProcCarries`); what a round has left to do is
part of the follow graph it read, a session of it knows who authenticated, and
none is under way before the graph is read (`RoundInv`); and with the three
properties themselves it is inductive. Nothing is said of who answers at the next
dial: the code does not check it (section 4).

**IdentityIsTheKeys.** `DbInv` adds only the record's shape: `PutEncryptedKey`
clears the identity in the transaction that replaces the key, and `SetIdentity`
takes it from the key that is there.

**CommandsWriteOnce.** `OnceInv`, per command: as long as it may still write
(`MayWrite`: not yet decided between daemon and store, a write at the head of its
list, or a handler running for its write) it has written nothing. That needs two
more facts. A handler that runs for a command was called after the command
decided for the daemon, so the command is waiting or over, never on its way to
the store. And in each of `Commands` a write is the only call or transaction of
its list (`CommandShape`), so nothing is left to do after it. Most steps are
*quiet* for a command (`Quiet`): a handler ends or the command does.

**UnlockedKeyIsStored.** `KeyInv` adds who has the lock: a command in the store
has it, so a key import excludes every daemon, and a daemon that has not opened
the store has neither the lock nor a key. Then a handler takes the stored key
only when its own daemon has the store open, and the key is right when
`OpenStore` takes the lock.

**ControlTypeCorrect.** `TypeInv` is `OnceInv` and the types by component, with one
more fact: a handler that runs is in some daemon, so what it writes to is there.

**RunningIsReachable.** Who unlinks the socket path must have the store's lock,
which a serving daemon has. `ProcInv`, per daemon: main has the lock from opening
the store to closing it (`Owning`); before Start has listened nobody serves or
stops; and a Stop that is not over keeps main from closing the store, unless
there are two. The last needs that `done` is set by a Stop that is over, and that
a handler calls Stop only in a daemon that is still there, which is what
`Unserved` says of the others. That one command does not stop a daemon twice
(`StopsOnce`) is again the shape of `Commands`: a Stop is the only call of its
list. Two Stops, of an RPC and a signal, do break it: main returns when the first
is over and frees the lock, and the second then unlinks the socket of the next
daemon. The property's premise excludes exactly that.

**AddressIsStored.** `AddrInv`, per daemon: nothing listens before Start; unless
changes overlapped there is one worker on the transport; what that worker has
done so far (`WorkAddr`: the old listener is closed until a new one is open, the
key it listens with is stored or fresh, the key it has yet to store is the one in
use); and with no worker, the key in use is the stored one. It rests on the
invariant of the previous theorem: the daemon that serves has the lock, so nobody
else writes to the store. `ClientWork` says that a handler at work is a rotation
under way, so that a worker never changes daemons.

## 6. Only model-checked

Liveness (`Converges`, `Terminates`, `PostsReachViewers`, `CrawlCompletes`,
`SeedsTried`, `FollowResolves`, `ListingEnds`, `Settles`), which needs fairness
and ENABLED and is out of the proof system's reach. Every invariant of a passing
run is proved.

## 7. Plan

Done: LogSync, SyncSession over it, Store, FeedPush, Crawler, Daemon, Control
over Commands, FeedRead, in the order of how much depends on them; the proofs of
all eight.

Next: the name cache (`displayName`, `invalidateNames`).

## 8. Not modelled

* Signatures, canonical CBOR, key encryption, the bootstrap file's signature and
  the commands that make such files: cryptography and pure encoding. An event is
  its content, which stands for its ID; a session knows the other side after
  `Authed`; a passphrase is right or wrong.
* What tailcat does below a listener and its connections; the ephemeral transport
  key, which is never stored.
* What commands print; the relay commands, which do nothing yet; names, texts and
  media; profile, detail and tombstone projections, which displays read (no
  command signs a Delete).
* Key bindings, scrolling, layout and rendering of the TUI, generated protobuf
  code, the test-database script.
* Database errors outside Control, where any handler and any offline step may
  fail: elsewhere a transaction that is not cut off by a crash succeeds.
* Silent peers in Daemon and FeedRead: a session has no deadline after its dial, so
  a peer that stops answering holds it for ever, a sync round with it; the fairness
  above excludes that there, and not in Control.
* Data races on Go maps (`knownRefsList`), which are below the model's steps.
