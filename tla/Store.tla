------------------------------- MODULE Store -------------------------------
(***************************************************************************)
(* The own side of one zen's store (internal/store/store.go, events.go):   *)
(* the own logs, the follow-state cache and backup import, as transactions *)
(* of handlers that run concurrently.                                      *)
(*                                                                         *)
(* bbolt makes each View and Update atomic, but SignAndAppend is three of  *)
(* them, Follow and Unfollow four, ImportBackup many, and no lock spans    *)
(* them: the gRPC server runs handlers in parallel and the process may die *)
(* between any two.                                                        *)
(*                                                                         *)
(* An event's ID is the hash of its content, so an event is its own ID.    *)
(***************************************************************************)
EXTENDS Integers, FiniteSets

CONSTANTS
    Workers,     \* handler goroutines
    Targets,     \* identities that can be followed
    Posts,       \* posts that can be liked
    Nil,
    MaxEvents,   \* bound: events signed
    MaxCrashes,  \* bound: crashes
    MaxImports   \* bound: backup imports

ASSUME StoreAssumption ==
    MaxEvents \in Nat /\ MaxCrashes \in Nat /\ MaxImports \in Nat

Op == [kind : {"like"}, on : Posts] \cup [kind : {"follow", "unfollow"}, on : Targets]

Event == [op : Op, seq : 1 .. MaxEvents + 1, ts : 1 .. MaxEvents]

VARIABLES
    postLog,     \* own PostLog: a set of Like events
    profileLog,  \* own ProfileLog: a set of Follow and Unfollow events
    followed,    \* follow-state cache: identities with the followed flag
    pinned,      \* follow-state cache: identities with the pinned flag
    pc,          \* pc[w]: the next transaction of handler w
    op,          \* op[w]: what handler w was called for
    draft,       \* draft[w]: the event handler w is building
    reply,       \* reply[w]: the event ID of w's last Like call, or Nil
    clock,       \* Now64: nanoseconds, no two calls read the same value
    backup,      \* an exported backup file, or Nil
    import,      \* progress of ImportBackup
    crashes, imports

logVars == <<postLog, profileLog>>
cacheVars == <<followed, pinned>>
workVars == <<pc, op, draft, reply>>
backupVars == <<backup, import, imports>>
vars == <<logVars, cacheVars, workVars, clock, backupVars, crashes>>

----------------------------------------------------------------------------
IsLike(o) == o.kind = "like"

LikesOf(p, S) == {e \in S : IsLike(e.op) /\ e.op.on = p}

\* Mutant: the append trusts the check made in an earlier transaction.
InsertUnchecked(e, S) == S \cup {e}

\* AppendOwnEvent's transaction: a set union in which a second Like of the
\* same post is dropped.
Insert(e, S) ==
    IF IsLike(e.op) /\ LikesOf(e.op.on, S) # {} THEN S ELSE S \cup {e}

\* The order of SortedByTime.
Before(e, f) == e.ts < f.ts \/ (e.ts = f.ts /\ e.seq < f.seq)

\* Log.FollowSet: replaying the log in time order leaves the targets whose
\* last Follow or Unfollow is a Follow.
FollowSet(S) ==
    {t \in Targets : \E e \in S :
        /\ e.op.kind = "follow" /\ e.op.on = t
        /\ \A f \in S : (f.op.on = t /\ f.op.kind = "unfollow") => Before(f, e)}

Log(o) == IF IsLike(o) THEN postLog ELSE profileLog

Idle == \A w \in Workers : pc[w] = "idle"

----------------------------------------------------------------------------
(* SignAndAppend, Follow and Unfollow.                                     *)

\* A handler is called.  A Like first looks for an earlier one.
Begin(w, o) ==
    /\ pc[w] = "idle" /\ import.pc = "off"
    /\ clock <= MaxEvents
    /\ pc' = [pc EXCEPT ![w] = IF IsLike(o) THEN "check" ELSE "count"]
    /\ op' = [op EXCEPT ![w] = o]
    /\ reply' = [reply EXCEPT ![w] = Nil]
    /\ UNCHANGED <<logVars, cacheVars, draft, clock, backupVars, crashes>>

\* View: existingLikeID in the own PostLog; a hit is the reply.
CheckLike(w) ==
    /\ pc[w] = "check"
    /\ \/ /\ LikesOf(op[w].on, postLog) = {}
          /\ pc' = [pc EXCEPT ![w] = "count"]
          /\ UNCHANGED reply
       \/ \E e \in LikesOf(op[w].on, postLog) :
             /\ pc' = [pc EXCEPT ![w] = "idle"]
             /\ reply' = [reply EXCEPT ![w] = e]
    /\ UNCHANGED <<logVars, cacheVars, op, draft, clock, backupVars, crashes>>

\* Mutant: the sequence counts from the events stored, starting at zero.
CountAndSignFromZero(w) ==
    /\ pc[w] = "count"
    /\ clock <= MaxEvents
    /\ draft' = [draft EXCEPT ![w] =
                   [op |-> op[w], seq |-> Cardinality(Log(op[w])), ts |-> clock]]
    /\ clock' = clock + 1
    /\ pc' = [pc EXCEPT ![w] = "append"]
    /\ UNCHANGED <<logVars, cacheVars, op, reply, backupVars, crashes>>

\* Mutant: a Like is answered once it is signed, before it is stored.
CountAndSignReplies(w) ==
    /\ pc[w] = "count"
    /\ clock <= MaxEvents
    /\ draft' = [draft EXCEPT ![w] =
                   [op |-> op[w], seq |-> Cardinality(Log(op[w])) + 1, ts |-> clock]]
    /\ reply' = IF IsLike(op[w]) THEN [reply EXCEPT ![w] = draft'[w]] ELSE reply
    /\ clock' = clock + 1
    /\ pc' = [pc EXCEPT ![w] = "append"]
    /\ UNCHANGED <<logVars, cacheVars, op, backupVars, crashes>>

\* View: OwnEventCount; then Now64 and Sign.
CountAndSign(w) ==
    /\ pc[w] = "count"
    /\ clock <= MaxEvents
    /\ draft' = [draft EXCEPT ![w] =
                   [op |-> op[w], seq |-> Cardinality(Log(op[w])) + 1, ts |-> clock]]
    /\ clock' = clock + 1
    /\ pc' = [pc EXCEPT ![w] = "append"]
    /\ UNCHANGED <<logVars, cacheVars, op, reply, backupVars, crashes>>

\* Update: AppendOwnEvent.  A Like handler answers with the ID of the event it
\* signed; Follow and Unfollow still have the cache to write.
Append(w) ==
    /\ pc[w] = "append"
    /\ IF IsLike(op[w])
       THEN /\ postLog' = Insert(draft[w], postLog)
            /\ reply' = [reply EXCEPT ![w] = draft[w]]
            /\ pc' = [pc EXCEPT ![w] = "idle"]
            /\ UNCHANGED profileLog
       ELSE /\ profileLog' = Insert(draft[w], profileLog)
            /\ pc' = [pc EXCEPT ![w] = "cache"]
            /\ UNCHANGED <<postLog, reply>>
    /\ UNCHANGED <<cacheVars, op, draft, clock, backupVars, crashes>>

\* Mutant: unfollowing clears the followed flag and forgets the pin.
UpdateCacheKeepsPin(w) ==
    /\ pc[w] = "cache"
    /\ followed' = IF op[w].kind = "follow" THEN followed \cup {op[w].on}
                   ELSE followed \ {op[w].on}
    /\ pc' = [pc EXCEPT ![w] = "idle"]
    /\ UNCHANGED <<pinned, logVars, op, draft, reply, clock, backupVars, crashes>>

\* Update: putFollowState{followed: true} or deleteFollowState.  Both write the
\* whole record, so the pin goes either way.
UpdateCache(w) ==
    /\ pc[w] = "cache"
    /\ followed' = IF op[w].kind = "follow" THEN followed \cup {op[w].on}
                   ELSE followed \ {op[w].on}
    /\ pinned' = pinned \ {op[w].on}
    /\ pc' = [pc EXCEPT ![w] = "idle"]
    /\ UNCHANGED <<logVars, op, draft, reply, clock, backupVars, crashes>>

----------------------------------------------------------------------------
(* Pins: one transaction each.                                             *)

PinIdentity(t) ==
    /\ import.pc = "off"
    /\ t \in followed
    /\ pinned' = pinned \cup {t}
    /\ UNCHANGED <<followed, logVars, workVars, clock, backupVars, crashes>>

UnpinIdentity(t) ==
    /\ import.pc = "off"
    /\ pinned' = pinned \ {t}
    /\ UNCHANGED <<followed, logVars, workVars, clock, backupVars, crashes>>

----------------------------------------------------------------------------
(* Backups, written and read by the CLI while the daemon is down: the      *)
(* database file has one opener.                                           *)

ExportBackup ==
    /\ Idle /\ import.pc = "off" /\ backup = Nil
    /\ backup' = [events |-> postLog \cup profileLog, pinned |-> pinned]
    /\ UNCHANGED <<logVars, cacheVars, workVars, clock, import, imports, crashes>>

\* The account moves to a new machine with an empty store.
NewDevice ==
    /\ Idle /\ import.pc = "off" /\ backup # Nil
    /\ postLog' = {} /\ profileLog' = {} /\ followed' = {} /\ pinned' = {}
    /\ reply' = [w \in Workers |-> Nil]
    /\ UNCHANGED <<pc, op, draft, clock, backupVars, crashes>>

BeginImport ==
    /\ Idle /\ import.pc \in {"off", "done"} /\ backup # Nil
    /\ imports < MaxImports
    /\ imports' = imports + 1
    /\ import' = [pc |-> "logs", left |-> backup.events]
    /\ UNCHANGED <<logVars, cacheVars, workVars, clock, backup, crashes>>

\* One AppendOwnEvent of the import.
ImportEvent(e) ==
    /\ import.pc = "logs" /\ e \in import.left
    /\ postLog' = IF IsLike(e.op) THEN Insert(e, postLog) ELSE postLog
    /\ profileLog' = IF IsLike(e.op) THEN profileLog ELSE Insert(e, profileLog)
    /\ import' = [import EXCEPT !.left = @ \ {e}]
    /\ UNCHANGED <<cacheVars, workVars, clock, backup, imports, crashes>>

\* Mutant: the rebuild adds what the log follows and clears nothing.
RebuildAddsOnly ==
    /\ import.pc = "logs" /\ import.left = {}
    /\ followed' = followed \cup FollowSet(profileLog)
    /\ pinned' = pinned
    /\ import' = [import EXCEPT !.pc = "pins"]
    /\ UNCHANGED <<logVars, workVars, clock, backup, imports, crashes>>

\* rebuildFollowState: clear the cache, re-derive it from the log, no pins.
RebuildFollowState ==
    /\ import.pc = "logs" /\ import.left = {}
    /\ followed' = FollowSet(profileLog)
    /\ pinned' = {}
    /\ import' = [import EXCEPT !.pc = "pins"]
    /\ UNCHANGED <<logVars, workVars, clock, backup, imports, crashes>>

\* PutPinnedIdentities: pins of the backup, on the edges that exist.
PutPinnedIdentities ==
    /\ import.pc = "pins"
    /\ pinned' = pinned \cup (backup.pinned \cap followed)
    /\ import' = [import EXCEPT !.pc = "done"]
    /\ UNCHANGED <<followed, logVars, workVars, clock, backup, imports, crashes>>

\* The daemon starts again on the restored store.
Restart ==
    /\ import.pc = "done"
    /\ import' = [import EXCEPT !.pc = "off"]
    /\ UNCHANGED <<logVars, cacheVars, workVars, clock, backup, imports, crashes>>

\* The process dies: whatever was in flight is gone, the database stays.
Crash ==
    /\ crashes < MaxCrashes
    /\ crashes' = crashes + 1
    /\ pc' = [w \in Workers |-> "idle"]
    /\ reply' = [w \in Workers |-> Nil]
    /\ import' = [pc |-> "off", left |-> {}]
    /\ UNCHANGED <<logVars, cacheVars, op, draft, clock, backup, imports>>

----------------------------------------------------------------------------
Init ==
    /\ postLog = {} /\ profileLog = {}
    /\ followed = {} /\ pinned = {}
    /\ pc = [w \in Workers |-> "idle"]
    /\ op = [w \in Workers |-> Nil]
    /\ draft = [w \in Workers |-> Nil]
    /\ reply = [w \in Workers |-> Nil]
    /\ clock = 1
    /\ backup = Nil
    /\ import = [pc |-> "off", left |-> {}]
    /\ crashes = 0 /\ imports = 0

WorkerStep(w) ==
    \/ \E o \in Op : Begin(w, o)
    \/ CheckLike(w)
    \/ CountAndSign(w)
    \/ Append(w)
    \/ UpdateCache(w)

BackupStep ==
    \/ ExportBackup \/ NewDevice \/ BeginImport
    \/ \E e \in Event : ImportEvent(e)
    \/ RebuildFollowState \/ PutPinnedIdentities \/ Restart

Next ==
    \/ \E w \in Workers : WorkerStep(w)
    \/ \E t \in Targets : PinIdentity(t) \/ UnpinIdentity(t)
    \/ BackupStep
    \/ Crash

Spec == Init /\ [][Next]_vars

----------------------------------------------------------------------------
(* Properties that hold however handlers interleave and wherever the       *)
(* process dies.                                                           *)

\* The logs, the cache and the handlers have their types.
TypeOK ==
    /\ postLog \subseteq Event /\ profileLog \subseteq Event
    /\ followed \subseteq Targets /\ pinned \subseteq Targets
    /\ pc \in [Workers -> {"idle", "check", "count", "append", "cache"}]
    /\ op \in [Workers -> Op \cup {Nil}]
    /\ draft \in [Workers -> Event \cup {Nil}]
    /\ reply \in [Workers -> Event \cup {Nil}]
    /\ clock \in 1 .. MaxEvents + 1
    /\ backup \in [events : SUBSET Event, pinned : SUBSET Targets] \cup {Nil}
    /\ import \in [pc : {"off", "logs", "pins", "done"}, left : SUBSET Event]
    /\ crashes \in 0 .. MaxCrashes /\ imports \in 0 .. MaxImports

\* One Like per author per post: parallel Like calls, imports and crashes never
\* leave two in the own log (AppendOwnEvent checks again in its transaction).
OneLikePerPost ==
    \A e, f \in postLog : e.op = f.op => e = f

\* A pin is a property of a follow edge: no interleaving of Follow, Unfollow,
\* PinIdentity and ImportBackup leaves a pinned identity that is not followed.
PinnedAreFollowed == pinned \subseteq followed

\* A completed import restores the account, whatever state or half-finished
\* import it started from: every backed-up event is in the logs, the follow
\* cache is what the log says, and the pins are the backup's (ImportBackup).
ImportRestores ==
    import.pc = "done" =>
        /\ \A e \in backup.events : Insert(e, Log(e.op)) = Log(e.op)
        /\ followed = FollowSet(profileLog)
        /\ pinned = backup.pinned \cap followed

\* A Like call that has answered took effect: some Like of the post is in the own
\* log, although of two parallel calls only one stores the event it signed and
\* both answer (SignAndAppend, AppendOwnEvent).
LikeTakesEffect ==
    \A w \in Workers : reply[w] # Nil => LikesOf(reply[w].op.on, postLog) # {}

\* What makes OneLikePerPost inductive: the PostLog holds Likes only, and a
\* handler about to append holds the event it was called for.
LikeInv ==
    /\ OneLikePerPost
    /\ \A e \in postLog : IsLike(e.op)
    /\ DOMAIN pc = Workers /\ DOMAIN draft = Workers /\ DOMAIN op = Workers
    /\ \A w \in Workers : pc[w] = "append" => draft[w].op = op[w]

----------------------------------------------------------------------------
(* What the code states and concurrent calls break: it has a run of its    *)
(* own.                                                                    *)

\* Whenever no call is in progress the follow-state cache is the projection of
\* the own ProfileLog (Follow, Unfollow, rebuildFollowState; IsFollowed and
\* FollowGraph rely on it).
CacheMatchesLog ==
    (Idle /\ import.pc = "off") => followed = FollowSet(profileLog)

============================================================================
