------------------------------ MODULE LogSync ------------------------------
(***************************************************************************)
(* Incremental replication of signed logs between zens, as the sync        *)
(* package does it (internal/sync/session.go, internal/store/store.go).    *)
(*                                                                         *)
(* Every zen is the single writer of its own logs.  A reader that syncs    *)
(* with it requests the events whose timestamp is greater than a cursor it *)
(* keeps per (zen, log), merges the answer into its store as a set union,  *)
(* and then moves the cursor to the largest timestamp received minus a     *)
(* skew window.  Timestamps are taken from the author's wall clock before  *)
(* the event is written, writers run concurrently, several pulls of the    *)
(* same log may overlap, and a connection may end anywhere in a stream.    *)
(*                                                                         *)
(* A zen is both an author and a reader; the two roles do not share state  *)
(* here, so they are two sets.  An event's ID is the hash of its content:  *)
(* it is the record itself.                                                *)
(***************************************************************************)
EXTENDS Integers, FiniteSets

CONSTANTS
    Authors,    \* zens in the role of log writers
    Readers,    \* zens in the role of pullers
    Logs,       \* the synced logs
    PostLog,    \* the log that Likes are written to
    Bodies,     \* payloads of events
    Likes,      \* the payloads that are Likes, one per target post
    Pulls,      \* slots for pulls that run at the same time
    Skew,       \* cursorSkewWindow
    Lag,        \* bound on how far behind its author's clock an event lands
    MaxClock,   \* bound: largest clock value
    MaxEvents,  \* bound: events one author signs
    MaxFaults   \* bound: connections that break

(***************************************************************************)
(* Lag bounds two things together: how far the wall clock may step back,   *)
(* and how long an event may stay signed but not yet appended.  The code   *)
(* relies on their sum being below the five minutes of the skew window.    *)
(***************************************************************************)
ASSUME SkewAssumption == Skew \in Nat /\ Lag \in Nat /\ Lag < Skew

ASSUME BoundAssumption == MaxClock \in Nat /\ MaxEvents \in Nat /\ MaxFaults \in Nat

ASSUME LikesAssumption == Likes \subseteq Bodies /\ PostLog \in Logs

Event == [log : Logs, ts : 1 .. MaxClock, body : Bodies]

\* What a sync cursor is kept for: one reader's view of one log of one zen.
Key == [reader : Readers, author : Authors, log : Logs]

VARIABLES
    own,      \* own[a]: the events in author a's own logs
    pending,  \* pending[a]: events a has signed and not yet appended
    clock,    \* clock[a]: the highest wall-clock value a has seen
    held,     \* held[r][a]: the events of a in r's crawl bucket
    cursor,   \* cursor[k]: the stored high-water timestamp of key k
    phase,    \* phase[p]: progress of pull p
    key,      \* key[p]: what pull p is pulling
    after,    \* after[p]: the timestamp its request carries
    rest,     \* rest[p]: events of the answer that have not arrived yet
    maxTS,    \* maxTS[p]: largest timestamp merged so far
    faults    \* broken connections so far

pullVars == <<phase, key, after, rest, maxTS>>
vars == <<own, pending, clock, held, cursor, pullVars, faults>>

----------------------------------------------------------------------------
(* Set union with one Like per author and target.                          *)

\* A set of one author's events already says what e says: e itself is there,
\* or e is a Like and another Like of the same target is.
Covered(e, S) ==
    \/ e \in S
    \/ e.body \in Likes /\ \E f \in S : f.body = e.body

\* AppendOwnEvent and PutCrawledEvent: skip what is present, drop a second Like.
Insert(e, S) == IF Covered(e, S) THEN S ELSE S \cup {e}

----------------------------------------------------------------------------
(* The author's side.                                                      *)

\* Time passes.  It does not outrun a writer by more than Lag.
Tick(a) ==
    /\ clock[a] < MaxClock
    /\ \A e \in pending[a] : clock[a] + 1 - e.ts <= Lag
    /\ clock' = [clock EXCEPT ![a] = @ + 1]
    /\ UNCHANGED <<own, pending, held, cursor, pullVars, faults>>

\* SignAndAppend up to the signature: the Like check, then Now64, then Sign.
Sign(a, l, b) ==
    /\ Cardinality(own[a] \cup pending[a]) < MaxEvents
    /\ b \in Likes => l = PostLog /\ \A e \in own[a] : e.body # b
    /\ \E t \in 1 .. clock[a] :
          /\ clock[a] - t <= Lag
          /\ pending' = [pending EXCEPT ![a] = @ \cup {[log |-> l, ts |-> t, body |-> b]}]
    /\ UNCHANGED <<own, clock, held, cursor, pullVars, faults>>

\* SignAndAppend's last step, the AppendOwnEvent transaction.
AppendOwnEvent(a, e) ==
    /\ e \in pending[a]
    /\ own' = [own EXCEPT ![a] = Insert(e, @)]
    /\ pending' = [pending EXCEPT ![a] = @ \ {e}]
    /\ UNCHANGED <<clock, held, cursor, pullVars, faults>>

\* The writer fails or the process dies between signing and appending.
LoseSigned(a, e) ==
    /\ e \in pending[a]
    /\ pending' = [pending EXCEPT ![a] = @ \ {e}]
    /\ UNCHANGED <<own, clock, held, cursor, pullVars, faults>>

----------------------------------------------------------------------------
(* The reader's side: pullLog.                                             *)

\* pullLog reads the cursor (a store that cannot be read counts as 0) and
\* writes the request.
Request(p, k) ==
    /\ phase[p] = "idle"
    /\ phase' = [phase EXCEPT ![p] = "asked"]
    /\ key' = [key EXCEPT ![p] = k]
    /\ \E c \in {0, cursor[k]} : after' = [after EXCEPT ![p] = c]
    /\ UNCHANGED <<own, pending, clock, held, cursor, rest, maxTS, faults>>

\* Mutant: the server answers with what is at least as new as the cursor's
\* successor only.
fetchOwnEventsOffByOne(a, l, t) == {e \in own[a] : e.log = l /\ e.ts > t + 1}

\* What the author's zen answers to a request: its events of the log that are
\* newer than the request's timestamp, read in one transaction.
fetchOwnEvents(a, l, t) == {e \in own[a] : e.log = l /\ e.ts > t}

\* handleRequest: the answer is fixed here, and streamed in time order.
Serve(p) ==
    /\ phase[p] = "asked"
    /\ phase' = [phase EXCEPT ![p] = "stream"]
    /\ rest' = [rest EXCEPT ![p] = fetchOwnEvents(key[p].author, key[p].log, after[p])]
    /\ UNCHANGED <<own, pending, clock, held, cursor, key, after, maxTS, faults>>

\* Mutant: the answer is not sorted before it is streamed.
NextInStreamUnsorted(S) == S

\* The events that may arrive next: the stream is sorted by timestamp (events
\* of one timestamp are in some order).
NextInStream(S) == {e \in S : \A f \in S : e.ts <= f.ts}

\* One event is read, verified and merged.
Merge(p) ==
    /\ phase[p] = "stream"
    /\ \E e \in NextInStream(rest[p]) :
          /\ held' = [held EXCEPT ![key[p].reader][key[p].author] = Insert(e, @)]
          /\ rest' = [rest EXCEPT ![p] = @ \ {e}]
          /\ maxTS' = [maxTS EXCEPT ![p] = IF e.ts > @ THEN e.ts ELSE @]
    /\ UNCHANGED <<own, pending, clock, cursor, phase, key, after, faults>>

\* Mutant: no skew window.
NewCursorNoSkew(prevAfter, max) == IF max < prevAfter THEN prevAfter ELSE max

\* Mutant: the cursor may fall behind what the pull started from.
NewCursorUnclamped(prevAfter, max) == max - Skew

\* The value a finished pull stores: the largest timestamp received minus the
\* skew window, but never below what it started from.
NewCursor(prevAfter, max) ==
    IF max - Skew < prevAfter THEN prevAfter ELSE max - Skew

\* advanceCursor, which leaves the cursor alone when nothing was received.
advanceCursor(p) ==
    cursor' = IF maxTS[p] = 0 THEN cursor
              ELSE [cursor EXCEPT ![key[p]] = NewCursor(after[p], maxTS[p])]

\* pullLog returns; its locals are gone.
Return(p) ==
    /\ phase' = [phase EXCEPT ![p] = "idle"]
    /\ after' = [after EXCEPT ![p] = 0]
    /\ rest' = [rest EXCEPT ![p] = {}]
    /\ maxTS' = [maxTS EXCEPT ![p] = 0]
    /\ UNCHANGED key

\* MsgDone arrives behind the last event.
Done(p) ==
    /\ phase[p] = "stream"
    /\ rest[p] = {}
    /\ advanceCursor(p)
    /\ Return(p)
    /\ UNCHANGED <<own, pending, clock, held, faults>>

\* The connection closes early.  pullLog takes it for the end of the stream
\* and advances the cursor over what it has.
EndOfFile(p) ==
    /\ phase[p] \in {"asked", "stream"}
    /\ faults < MaxFaults
    /\ faults' = faults + 1
    /\ advanceCursor(p)
    /\ Return(p)
    /\ UNCHANGED <<own, pending, clock, held>>

\* Any other read or write error, a failed cursor write, or a crash of the
\* reader: what is merged stays merged and the cursor stays where it is.
Fail(p) ==
    /\ phase[p] \in {"asked", "stream"}
    /\ faults < MaxFaults
    /\ faults' = faults + 1
    /\ Return(p)
    /\ UNCHANGED <<own, pending, clock, held, cursor>>

----------------------------------------------------------------------------
Init ==
    /\ own = [a \in Authors |-> {}]
    /\ pending = [a \in Authors |-> {}]
    /\ clock = [a \in Authors |-> 0]
    /\ held = [r \in Readers |-> [a \in Authors |-> {}]]
    /\ cursor = [k \in Key |-> 0]
    /\ phase = [p \in Pulls |-> "idle"]
    /\ key \in [Pulls -> Key]
    /\ after = [p \in Pulls |-> 0]
    /\ rest = [p \in Pulls |-> {}]
    /\ maxTS = [p \in Pulls |-> 0]
    /\ faults = 0

AuthorStep(a) ==
    \/ Tick(a)
    \/ \E l \in Logs, b \in Bodies : Sign(a, l, b)
    \/ \E e \in Event : AppendOwnEvent(a, e)
    \/ \E e \in Event : LoseSigned(a, e)

PullStep(p) ==
    \/ \E k \in Key : Request(p, k)
    \/ Serve(p)
    \/ Merge(p)
    \/ Done(p)
    \/ EndOfFile(p)
    \/ Fail(p)

Next ==
    \/ \E a \in Authors : AuthorStep(a)
    \/ \E p \in Pulls : PullStep(p)

Spec == Init /\ [][Next]_vars

\* The sync loop keeps starting pulls of every key, and a pull whose
\* connection holds makes progress; only MaxFaults connections break.
Fairness ==
    /\ \A k \in Key : SF_vars(\E p \in Pulls : Request(p, k))
    /\ \A p \in Pulls : WF_vars(Serve(p) \/ Merge(p) \/ Done(p))

FairSpec == Spec /\ Fairness

----------------------------------------------------------------------------
(* Importing a backup is kept out of Spec because CursorSafe does not      *)
(* survive it; it has a run of its own.                                    *)

\* ImportBackup, or merging one's own events from another device: an event
\* with an arbitrarily old timestamp enters the own log.
ImportOwnEvent(a) ==
    /\ Cardinality(own[a] \cup pending[a]) < MaxEvents
    /\ \E l \in Logs, t \in 1 .. clock[a], b \in Bodies :
          own' = [own EXCEPT ![a] = Insert([log |-> l, ts |-> t, body |-> b], @)]
    /\ UNCHANGED <<pending, clock, held, cursor, pullVars, faults>>

SpecWithImport == Init /\ [][Next \/ \E a \in Authors : ImportOwnEvent(a)]_vars

----------------------------------------------------------------------------
(* Properties.                                                             *)

\* Every variable has its type: logs, copies and answers are sets of events,
\* cursors and timestamps are bounded by the clock (state of internal/store
\* and of a running pullLog).
TypeOK ==
    /\ own \in [Authors -> SUBSET Event]
    /\ pending \in [Authors -> SUBSET Event]
    /\ clock \in [Authors -> 0 .. MaxClock]
    /\ held \in [Readers -> [Authors -> SUBSET Event]]
    /\ cursor \in [Key -> 0 .. MaxClock]
    /\ phase \in [Pulls -> {"idle", "asked", "stream"}]
    /\ key \in [Pulls -> Key]
    /\ after \in [Pulls -> 0 .. MaxClock]
    /\ rest \in [Pulls -> SUBSET Event]
    /\ maxTS \in [Pulls -> 0 .. MaxClock]
    /\ faults \in 0 .. MaxFaults

\* No event is lost behind a cursor.  What a cursor has passed will never be
\* requested again, so every event of the author's log at or below it must be
\* in the reader's store (pullLog and advanceCursor), whatever writers were
\* between timestamp and append, however pulls overlapped and wherever their
\* connections broke.
CursorSafe ==
    \A k \in Key : \A e \in own[k.author] :
        (e.log = k.log /\ e.ts <= cursor[k]) => Covered(e, held[k.reader][k.author])

\* Whatever an author has in its own log, every reader that keeps syncing
\* gets (syncLoop retries pullLog for ever and merging is a set union).
Converges ==
    \A r \in Readers, a \in Authors : \A e \in Event :
        (e \in own[a]) ~> Covered(e, held[r][a])

----------------------------------------------------------------------------
(* The inductive invariant behind CursorSafe.                              *)

\* Timestamps do not run ahead of the author's clock, and what is signed but
\* not yet appended is at most Lag behind it.
TimestampBounds ==
    \A a \in Authors :
        /\ \A e \in own[a] : e.ts <= clock[a]
        /\ \A e \in pending[a] : e.ts <= clock[a] /\ clock[a] - e.ts <= Lag

\* A position in a's log is safe if it is the beginning, or lies a skew
\* window behind the author's clock: nothing can still be appended below it.
Settled(t, a) == t = 0 \/ t + Skew <= clock[a]

CursorSettled == \A k \in Key : Settled(cursor[k], k.author)

\* The reader holds every event of a log up to a timestamp.
HoldsUpTo(k, t) ==
    \A e \in own[k.author] :
        (e.log = k.log /\ e.ts <= t) => Covered(e, held[k.reader][k.author])

RequestSettled ==
    \A p \in Pulls : phase[p] # "idle" =>
        /\ Settled(after[p], key[p].author)
        /\ HoldsUpTo(key[p], after[p])

\* A pull streams a snapshot in order: what has not arrived is in the author's
\* log and not older than what has.
StreamOrdered ==
    \A p \in Pulls :
        /\ phase[p] # "stream" => maxTS[p] = 0 /\ rest[p] = {}
        /\ maxTS[p] <= clock[key[p].author]
        /\ \A e \in rest[p] : e \in own[key[p].author] /\ maxTS[p] <= e.ts

\* An event that a pull neither merged nor will still deliver was appended
\* after the snapshot, so it is less than a skew window behind everything the
\* pull has seen or will see.
Accounted(p, e) ==
    \/ Covered(e, held[key[p].reader][key[p].author])
    \/ e \in rest[p]
    \/ /\ e.ts > maxTS[p] - Skew
       /\ \A f \in rest[p] : e.ts > f.ts - Skew

StreamAccounted ==
    \A p \in Pulls : phase[p] = "stream" =>
        \A e \in own[key[p].author] : e.log = key[p].log => Accounted(p, e)

\* The strengthening of CursorSafe that every step preserves: cursors and
\* requests only name settled positions, and each stream accounts for every
\* event of the log it pulls (pullLog, fetchOwnEvents, SignAndAppend).
IndInv ==
    /\ TypeOK
    /\ TimestampBounds
    /\ CursorSettled
    /\ CursorSafe
    /\ RequestSettled
    /\ StreamOrdered
    /\ StreamAccounted

============================================================================
