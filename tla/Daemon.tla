------------------------------- MODULE Daemon -------------------------------
(***************************************************************************)
(* Who a zen's daemon dials (internal/daemon/daemon.go): the follow graph, *)
(* the routing table, the tokens it has heard of, the sync loop with its   *)
(* parallel sessions, the follow and unfollow handlers, the bootstrap file *)
(* and the signing key's lock, across restarts.                            *)
(*                                                                         *)
(* The store's transactions are atomic; a handler is several of them with  *)
(* a dial in between.  What a session transfers is SyncSession's matter:   *)
(* here a session authenticates whoever answers at the token, or fails.    *)
(* Who answers at a token may change: a zen that imports another identity  *)
(* keeps its transport key.                                                *)
(***************************************************************************)
EXTENDS Integers, FiniteSets

CONSTANTS
    Ids,          \* identities of other zens
    Tokens,       \* their transport tokens
    Seeds,        \* tokens the bootstrap file may list
    Hints,        \* bound: identities that refs of the zen exchange may name
    Calls,        \* goroutines of RPC handlers
    Boots,        \* bound: goroutines of dialBootstrapSeeds at one time
    Nil,
    Flaky,        \* tokens at which a dial or a session may fail
    StartLocked,  \* whether the daemon starts without the passphrase
    MaxLocks,     \* bound: times the key is locked again
    syncConcurrency,
    MaxCalls,     \* bound: follow and unfollow calls
    MaxRestarts,  \* bound: restarts
    MaxRekeys     \* bound: identities imported by other zens

ASSUME DaemonAssumption ==
    /\ Seeds \subseteq Tokens /\ Flaky \subseteq Tokens /\ Hints \subseteq Ids
    /\ Nil \notin Ids \cup Tokens /\ Calls \cap Boots = {}
    /\ "none" \notin Ids /\ "bare" \notin Ids
    /\ StartLocked \in BOOLEAN
    /\ syncConcurrency \in Nat \ {0}
    /\ MaxCalls \in Nat /\ MaxRestarts \in Nat /\ MaxLocks \in Nat /\ MaxRekeys \in Nat

Procs == Calls \cup Boots

VARIABLES
    answers,    \* answers[t]: the identity that authenticates at t
    file,       \* the seeds of the bootstrap file
    follows,    \* store: the follow graph of the own ProfileLog
    routing,    \* store: identity -> token, or Nil
    zens,       \* d.zens: "none", "bare", or the identity noted on the record
    known,      \* d.knownTokens
    unlocked,   \* d.unlocked # nil
    bootDone,   \* d.bootstrapDone
    syncNow,    \* whether d.syncNow holds a signal
    loop,       \* syncLoop: where the round is and what is left of it
    active,     \* active[i]: connectAndSync of the round for followed identity i
    proc,       \* proc[p]: a handler or bootstrap goroutine
    met,        \* identities that authenticated here, each with its token (history)
    settled,    \* seeds skipped, failed or followed since the start (history)
    stale,      \* follows changed after the last round read it (history)
    calls, restarts, locks, rekeys

worldVars == <<answers, file, rekeys>>
storeVars == <<follows, routing>>
keyVars == <<unlocked, bootDone>>
loopVars == <<syncNow, loop, active>>
boundVars == <<calls, restarts, locks>>
vars == <<worldVars, storeVars, zens, known, keyVars, loopVars, proc, met, settled, stale,
          boundVars>>

IdleProc == [pc |-> "idle", tok |-> Nil, id |-> Nil, seeds |-> {}]
IdleLoop == [pc |-> "wait", ids |-> {}, bound |-> {}, pending |-> {}, refs |-> {}]
IdleSync == [pc |-> "off", tok |-> Nil, id |-> Nil]

\* No session of the round is under way (wg.Wait returns).
Quiet == \A i \in Ids : active[i].pc = "off"

\* setZenStatus and followByToken keep what a record knows; a new one is bare.
Recorded(t) == IF zens[t] = "none" THEN "bare" ELSE zens[t]

\* Where a goroutine goes when its follow or unfollow is over.
Return(p) == IF p \in Boots THEN "seeds" ELSE "idle"

\* A follow or unfollow is over; in the bootstrap, so is the seed's turn.
Finish(p) ==
    /\ proc' = [proc EXCEPT ![p].pc = Return(p), ![p].tok = Nil, ![p].id = Nil]
    /\ settled' = IF p \in Boots THEN settled \cup {proc[p].tok} ELSE settled

\* The handshake at the start of a session: whoever answers at t authenticates.
Handshake(t) == met' = met \cup {<<answers[t], t>>}

----------------------------------------------------------------------------
(* followByToken, followByPubkey, handleUnfollow.                          *)

\* A Follow call with a token, or with the pubkey that a record notes on the
\* token: the record is marked connecting, then the token is dialed.
CallFollow(p, t) ==
    /\ p \in Calls /\ proc[p].pc = "idle" /\ unlocked
    /\ calls < MaxCalls /\ calls' = calls + 1
    /\ zens' = [zens EXCEPT ![t] = Recorded(t)]
    /\ proc' = [proc EXCEPT ![p].pc = "dial", ![p].tok = t]
    /\ UNCHANGED <<worldVars, storeVars, known, keyVars, loopVars, met, settled, stale, restarts,
                   locks>>

\* A Follow call with a pubkey: tokenForIdentity finds no record of it.
CallFollowPubkey(p, i) ==
    /\ p \in Calls /\ proc[p].pc = "idle" /\ unlocked
    /\ calls < MaxCalls /\ calls' = calls + 1
    /\ \A t \in Tokens : zens[t] # i
    /\ proc' = [proc EXCEPT ![p].pc = "write", ![p].id = i]
    /\ UNCHANGED <<worldVars, storeVars, zens, known, keyVars, loopVars, met, settled, stale,
                   restarts, locks>>

\* The dial; then runSession, which takes the key at its start or fails, and
\* learns from the handshake who answers.
Dial(p, ok) ==
    /\ proc[p].pc = "dial"
    /\ ok => unlocked
    /\ ~ok => (proc[p].tok \in Flaky \/ ~unlocked)
    /\ IF ok
       THEN /\ proc' = [proc EXCEPT ![p].pc = "session", ![p].id = answers[proc[p].tok]]
            /\ Handshake(proc[p].tok) /\ UNCHANGED settled
       ELSE Finish(p) /\ UNCHANGED met
    /\ UNCHANGED <<worldVars, storeVars, zens, known, keyVars, loopVars, stale, boundVars>>

\* The rest of the session.  Any error, however late, ends the call.
Session(p, ok) ==
    /\ proc[p].pc = "session"
    /\ ~ok => proc[p].tok \in Flaky
    /\ IF ok THEN proc' = [proc EXCEPT ![p].pc = "bind"] /\ UNCHANGED settled
             ELSE Finish(p)
    /\ UNCHANGED <<worldVars, storeVars, zens, known, keyVars, loopVars, met, stale, boundVars>>

\* PutRouting, then the token is known.
Bind(p) ==
    /\ proc[p].pc = "bind"
    /\ routing' = [routing EXCEPT ![proc[p].id] = proc[p].tok]
    /\ known' = known \cup {proc[p].tok}
    /\ proc' = [proc EXCEPT ![p].pc = "write"]
    /\ UNCHANGED <<worldVars, follows, zens, keyVars, loopVars, met, settled, stale, boundVars>>

\* writeFollow: the signed Follow event.
WriteFollow(p) ==
    /\ proc[p].pc = "write"
    /\ follows' = follows \cup {proc[p].id}
    /\ stale' = TRUE
    /\ proc' = [proc EXCEPT ![p].pc = "trigger"]
    /\ UNCHANGED <<worldVars, routing, zens, known, keyVars, loopVars, met, settled, boundVars>>

\* handleUnfollow: the signed Unfollow event.
CallUnfollow(p, i) ==
    /\ p \in Calls /\ proc[p].pc = "idle" /\ unlocked
    /\ calls < MaxCalls /\ calls' = calls + 1
    /\ follows' = follows \ {i}
    /\ stale' = TRUE
    /\ proc' = [proc EXCEPT ![p].pc = "unbind", ![p].id = i]
    /\ UNCHANGED <<worldVars, routing, zens, known, keyVars, loopVars, met, settled, restarts,
                   locks>>

\* The token is read before its binding is deleted.
ReadRouting(p) ==
    /\ proc[p].pc = "unbind"
    /\ proc' = [proc EXCEPT ![p].pc = "delete", ![p].tok = routing[proc[p].id]]
    /\ UNCHANGED <<worldVars, storeVars, zens, known, keyVars, loopVars, met, settled, stale,
                   boundVars>>

DeleteRouting(p) ==
    /\ proc[p].pc = "delete"
    /\ routing' = [routing EXCEPT ![proc[p].id] = Nil]
    /\ proc' = [proc EXCEPT ![p].pc = "remove"]
    /\ UNCHANGED <<worldVars, follows, zens, known, keyVars, loopVars, met, settled, stale,
                   boundVars>>

\* removeZen by the token read; without one, by the identity, which no record has.
RemoveZen(p) ==
    /\ proc[p].pc = "remove"
    /\ zens' = [t \in Tokens |-> IF t = proc[p].tok THEN "none" ELSE zens[t]]
    /\ proc' = [proc EXCEPT ![p].pc = "trigger"]
    /\ UNCHANGED <<worldVars, storeVars, known, keyVars, loopVars, met, settled, stale,
                   boundVars>>

\* Mutant: a signal is dropped while a round is running.
TriggerWhenIdle(p) ==
    /\ proc[p].pc = "trigger"
    /\ syncNow' = (syncNow \/ loop.pc = "wait")
    /\ Finish(p)
    /\ UNCHANGED <<worldVars, storeVars, zens, known, keyVars, loop, active, met, stale,
                   boundVars>>

\* triggerSyncNow: a pending signal is enough.
Trigger(p) ==
    /\ proc[p].pc = "trigger"
    /\ syncNow' = TRUE
    /\ Finish(p)
    /\ UNCHANGED <<worldVars, storeVars, zens, known, keyVars, loop, active, met, stale,
                   boundVars>>

----------------------------------------------------------------------------
(* The other zens.                                                         *)

\* Another zen imports an identity: it answers at its old token as identity i.
Rekey(t, i) ==
    /\ rekeys < MaxRekeys /\ rekeys' = rekeys + 1
    /\ answers' = [answers EXCEPT ![t] = i]
    /\ UNCHANGED <<file, storeVars, zens, known, keyVars, loopVars, proc, met, settled, stale,
                   boundVars>>

\* Mutant: a ref without a token is recorded like any other.
LearnAnyRef(t, hint) ==
    /\ unlocked
    /\ known' = known \cup {t}
    /\ zens' = [u \in Tokens |-> IF u = t /\ hint # Nil THEN hint
                                 ELSE IF u = t THEN Recorded(u) ELSE zens[u]]
    /\ UNCHANGED <<worldVars, storeVars, keyVars, loopVars, proc, met, settled, stale, boundVars>>

\* learnZenRef, in a session of either direction: sessions need the key.  A ref
\* without a token is dropped.  A new token gets a record; the identity in the
\* ref, which nobody has verified, is noted on it.
LearnZenRef(t, hint) ==
    /\ unlocked /\ t # Nil
    /\ known' = known \cup {t}
    /\ zens' = [zens EXCEPT ![t] = IF hint = Nil THEN Recorded(t) ELSE hint]
    /\ UNCHANGED <<worldVars, storeVars, keyVars, loopVars, proc, met, settled, stale, boundVars>>

----------------------------------------------------------------------------
(* The signing key and the bootstrap file.                                 *)

\* Lock RPC, or the idle lock found by signingKey.
Lock ==
    /\ unlocked /\ locks < MaxLocks
    /\ unlocked' = FALSE /\ locks' = locks + 1
    /\ UNCHANGED <<worldVars, storeVars, zens, known, bootDone, loopVars, proc, met, settled,
                   stale, calls, restarts>>

\* A free bootstrap goroutine runs dialBootstrapSeeds.
StartBoot(b) == proc' = [proc EXCEPT ![b] = [IdleProc EXCEPT !.pc = "boot"]]

\* Mutant: unlocking leaves the deferred bootstrap to the next restart.
handleUnlockOnly ==
    /\ unlocked' = TRUE
    /\ UNCHANGED <<worldVars, storeVars, zens, known, bootDone, loopVars, proc, met, settled, stale,
                   boundVars>>

\* handleUnlock, by an Unlock RPC or by any signing RPC that brings the
\* passphrase, locked or not: the key is cached; while the bootstrap is not
\* done every unlock starts another run of it.
handleUnlock ==
    /\ unlocked' = TRUE
    /\ IF bootDone THEN UNCHANGED proc
       ELSE \E b \in Boots : proc[b].pc = "idle" /\ StartBoot(b)
    /\ UNCHANGED <<worldVars, storeVars, zens, known, bootDone, loopVars, met, settled, stale,
                   boundVars>>

\* dialBootstrapSeeds: with the key locked the auto-follow is left to the unlock.
BootCheckKey(b) ==
    /\ proc[b].pc = "boot"
    /\ proc' = [proc EXCEPT ![b].pc = IF unlocked THEN "seeds" ELSE "idle",
                            ![b].seeds = IF unlocked THEN file ELSE {}]
    /\ UNCHANGED <<worldVars, storeVars, zens, known, keyVars, loopVars, met, settled, stale,
                   boundVars>>

\* The next seed: skipped if its token is known, otherwise upsertZen (which
\* replaces the record) and followByToken.
BootSeed(b, t) ==
    /\ proc[b].pc = "seeds" /\ t \in proc[b].seeds
    /\ IF t \in known
       THEN /\ proc' = [proc EXCEPT ![b].seeds = @ \ {t}]
            /\ settled' = settled \cup {t} /\ UNCHANGED zens
       ELSE /\ zens' = [zens EXCEPT ![t] = "bare"]
            /\ proc' = [proc EXCEPT ![b].pc = "dial", ![b].tok = t, ![b].seeds = @ \ {t}]
            /\ UNCHANGED settled
    /\ UNCHANGED <<worldVars, storeVars, known, keyVars, loopVars, met, stale, boundVars>>

\* Every seed was tried: bootstrapDone.
BootEnd(b) ==
    /\ proc[b].pc = "seeds" /\ proc[b].seeds = {}
    /\ bootDone' = TRUE
    /\ proc' = [proc EXCEPT ![b] = IdleProc]
    /\ UNCHANGED <<worldVars, storeVars, zens, known, unlocked, loopVars, met, settled, stale,
                   boundVars>>

----------------------------------------------------------------------------
(* syncLoop and syncAllZens.                                               *)

\* A signal or the ticker starts a round.
TakeSignal(tick) ==
    /\ loop.pc = "wait" /\ (tick \/ syncNow)
    /\ syncNow' = (tick /\ syncNow)
    /\ loop' = [loop EXCEPT !.pc = "round"]
    /\ UNCHANGED <<worldVars, storeVars, zens, known, keyVars, active, proc, met, settled,
                   stale, boundVars>>

\* Mutant: a follow without a token is left out of the round.
ReadFollowGraphBoundOnly ==
    /\ loop.pc = "round"
    /\ loop' = [loop EXCEPT !.pc = "bound", !.ids = follows,
                            !.bound = {i \in follows : routing[i] # Nil}]
    /\ stale' = FALSE
    /\ UNCHANGED <<worldVars, storeVars, zens, known, keyVars, syncNow, active, proc, met,
                   settled, boundVars>>

\* FollowGraph and the split into bound and pending follows.
ReadFollowGraph ==
    /\ loop.pc = "round"
    /\ loop' = [loop EXCEPT !.pc = "bound", !.ids = follows,
                            !.bound = {i \in follows : routing[i] # Nil},
                            !.pending = {i \in follows : routing[i] = Nil}]
    /\ stale' = FALSE
    /\ UNCHANGED <<worldVars, storeVars, zens, known, keyVars, syncNow, active, proc, met,
                   settled, boundVars>>

\* One bound follow: its token is read again, and a goroutine dials it when
\* one of syncConcurrency slots is free.  A token deleted meanwhile dials nobody.
SpawnSync(i) ==
    /\ loop.pc = "bound" /\ i \in loop.bound
    /\ Cardinality({j \in Ids : active[j].pc # "off"}) < syncConcurrency
    /\ loop' = [loop EXCEPT !.bound = @ \ {i}]
    /\ active' = IF routing[i] = Nil THEN active
                 ELSE [active EXCEPT ![i] = [pc |-> "dial", tok |-> routing[i], id |-> Nil]]
    /\ UNCHANGED <<worldVars, storeVars, zens, known, keyVars, syncNow, proc, met, settled,
                   stale, boundVars>>

\* connectAndSync: the dial, the key at the session's start, and the handshake.
\* Nobody compares who answers with the identity the token was bound to.
SyncDial(i, ok) ==
    /\ active[i].pc = "dial"
    /\ ok => unlocked
    /\ ~ok => (active[i].tok \in Flaky \/ ~unlocked)
    /\ IF ok
       THEN /\ active' = [active EXCEPT ![i].pc = "session", ![i].id = answers[active[i].tok]]
            /\ Handshake(active[i].tok)
       ELSE active' = [active EXCEPT ![i] = IdleSync] /\ UNCHANGED met
    /\ UNCHANGED <<worldVars, storeVars, zens, known, keyVars, syncNow, loop, proc, settled, stale,
                   boundVars>>

\* Mutant: the goroutines of a round share the loop's token variable.
SyncSessionSharedToken(i) ==
    /\ active[i].pc = "session"
    /\ \E j \in {x \in Ids : active[x].pc # "off"} :
         routing' = [routing EXCEPT ![active[i].id] = active[j].tok]
    /\ active' = [active EXCEPT ![i] = IdleSync]
    /\ UNCHANGED <<worldVars, follows, zens, known, keyVars, syncNow, loop, proc, met, settled,
                   stale, boundVars>>

\* The session ends, well or not: the identity that authenticated is bound to
\* the token.
SyncSession(i) ==
    /\ active[i].pc = "session"
    /\ routing' = [routing EXCEPT ![active[i].id] = active[i].tok]
    /\ active' = [active EXCEPT ![i] = IdleSync]
    /\ UNCHANGED <<worldVars, follows, zens, known, keyVars, syncNow, loop, proc, met, settled,
                   stale, boundVars>>

\* wg.Wait, then the known tokens are probed for pending follows.
StartResolve ==
    /\ loop.pc = "bound" /\ loop.bound = {} /\ Quiet
    /\ loop' = IF loop.pending = {} \/ ~unlocked THEN IdleLoop
               ELSE [loop EXCEPT !.pc = "resolve", !.refs = known]
    /\ UNCHANGED <<worldVars, storeVars, zens, known, keyVars, syncNow, active, proc, met,
                   settled, stale, boundVars>>

\* Mutant: every token that answers is bound and synced.
ProbeAll(t, ok) ==
    /\ loop.pc = "resolve" /\ t \in loop.refs /\ Quiet
    /\ ~ok => t \in Flaky
    /\ loop' = [loop EXCEPT !.refs = @ \ {t}]
    /\ IF ok
       THEN /\ Handshake(t)
            /\ routing' = [routing EXCEPT ![answers[t]] = t]
            /\ active' = [active EXCEPT ![answers[t]] = [pc |-> "dial", tok |-> t, id |-> Nil]]
       ELSE UNCHANGED <<met, routing, active>>
    /\ UNCHANGED <<worldVars, follows, zens, known, keyVars, syncNow, proc, settled, stale,
                   boundVars>>

\* One known token: a handshake tells who answers; a pending follow is bound and
\* synced, anyone else is left alone.
Probe(t, ok) ==
    /\ loop.pc = "resolve" /\ t \in loop.refs /\ Quiet
    /\ ~ok => t \in Flaky
    /\ loop' = [loop EXCEPT !.refs = @ \ {t}]
    /\ IF ok THEN Handshake(t) ELSE UNCHANGED met
    /\ IF ok /\ answers[t] \in loop.pending
       THEN /\ routing' = [routing EXCEPT ![answers[t]] = t]
            /\ active' = [active EXCEPT ![answers[t]] = [pc |-> "dial", tok |-> t, id |-> Nil]]
       ELSE UNCHANGED <<routing, active>>
    /\ UNCHANGED <<worldVars, follows, zens, known, keyVars, syncNow, proc, settled, stale,
                   boundVars>>

EndRound ==
    /\ loop.pc = "resolve" /\ loop.refs = {} /\ Quiet
    /\ loop' = IdleLoop
    /\ UNCHANGED <<worldVars, storeVars, zens, known, keyVars, syncNow, active, proc, met,
                   settled, stale, boundVars>>

----------------------------------------------------------------------------
\* The record rehydrateZens makes of a token: one of the identities bound to it.
Rehydrated(t) == {i \in Ids : routing[i] = t}

\* The process dies and starts again: the store stays.  Start signals a round,
\* rehydrates the zens from the routing table, and runs the bootstrap.
Restart ==
    /\ restarts < MaxRestarts /\ restarts' = restarts + 1
    /\ zens' \in {z \in [Tokens -> {"none"} \cup Ids] :
                    \A t \in Tokens : IF Rehydrated(t) = {} THEN z[t] = "none"
                                      ELSE z[t] \in Rehydrated(t)}
    /\ known' = {} /\ unlocked' = ~StartLocked /\ bootDone' = FALSE /\ settled' = {}
    /\ syncNow' = TRUE /\ loop' = IdleLoop /\ active' = [i \in Ids |-> IdleSync]
    /\ \E b \in Boots :
         proc' = [p \in Procs |-> IF p = b THEN [IdleProc EXCEPT !.pc = "boot"] ELSE IdleProc]
    /\ UNCHANGED <<worldVars, storeVars, met, stale, calls, locks>>

Init ==
    /\ answers \in [Tokens -> Ids] /\ file \in SUBSET Seeds /\ rekeys = 0
    /\ follows = {} /\ routing = [i \in Ids |-> Nil]
    /\ zens = [t \in Tokens |-> "none"]
    /\ known = {} /\ unlocked = ~StartLocked /\ bootDone = FALSE
    /\ syncNow = TRUE /\ loop = IdleLoop /\ active = [i \in Ids |-> IdleSync]
    /\ proc \in {[p \in Procs |-> IF p = b THEN [IdleProc EXCEPT !.pc = "boot"] ELSE IdleProc] :
                   b \in Boots}
    /\ met = {} /\ settled = {} /\ stale = FALSE
    /\ calls = 0 /\ restarts = 0 /\ locks = 0

Call(p) ==
    \/ \E t \in Tokens : CallFollow(p, t)
    \/ \E i \in Ids : CallFollowPubkey(p, i) \/ CallUnfollow(p, i)

ProcStep(p) ==
    \/ \E ok \in BOOLEAN : Dial(p, ok) \/ Session(p, ok)
    \/ Bind(p) \/ WriteFollow(p)
    \/ ReadRouting(p) \/ DeleteRouting(p) \/ RemoveZen(p)
    \/ Trigger(p)
    \/ BootCheckKey(p) \/ BootEnd(p)
    \/ \E t \in Tokens : BootSeed(p, t)

LoopStep ==
    \/ \E tick \in BOOLEAN : TakeSignal(tick)
    \/ ReadFollowGraph \/ StartResolve \/ EndRound
    \/ \E i \in Ids : SpawnSync(i) \/ SyncSession(i)
    \/ \E i \in Ids, ok \in BOOLEAN : SyncDial(i, ok)
    \/ \E t \in Tokens, ok \in BOOLEAN : Probe(t, ok)

Next ==
    \/ \E p \in Calls : Call(p)
    \/ \E p \in Procs : ProcStep(p)
    \/ LoopStep
    \/ \E t \in Tokens, i \in Ids : Rekey(t, i)
    \/ \E t \in Tokens \cup {Nil}, hint \in Hints \cup {Nil} : LearnZenRef(t, hint)
    \/ Lock \/ handleUnlock
    \/ Restart

Spec == Init /\ [][Next]_vars

\* Goroutines run, the ticker ticks, dials time out and sessions end, and the
\* user unlocks a locked key.
Fairness ==
    /\ \A p \in Procs : WF_vars(ProcStep(p))
    /\ WF_vars(LoopStep)
    /\ WF_vars(~unlocked /\ handleUnlock)

FairSpec == Spec /\ Fairness

----------------------------------------------------------------------------
\* Every variable has its type.
TypeOK ==
    /\ answers \in [Tokens -> Ids] /\ file \subseteq Seeds
    /\ follows \subseteq Ids /\ routing \in [Ids -> Tokens \cup {Nil}]
    /\ zens \in [Tokens -> {"none", "bare"} \cup Ids] /\ known \subseteq Tokens
    /\ unlocked \in BOOLEAN /\ bootDone \in BOOLEAN /\ syncNow \in BOOLEAN
    /\ loop \in [pc : {"wait", "round", "bound", "resolve"}, ids : SUBSET Ids,
                 bound : SUBSET Ids, pending : SUBSET Ids, refs : SUBSET Tokens]
    /\ active \in [Ids -> [pc : {"off", "dial", "session"}, tok : Tokens \cup {Nil},
                           id : Ids \cup {Nil}]]
    /\ proc \in [Procs ->
         [pc : {"idle", "boot", "seeds", "dial", "session", "bind", "write",
                "unbind", "delete", "remove", "trigger"},
          tok : Tokens \cup {Nil}, id : Ids \cup {Nil}, seeds : SUBSET Seeds]]
    /\ met \subseteq Ids \X Tokens /\ settled \subseteq Tokens /\ stale \in BOOLEAN
    /\ calls \in 0 .. MaxCalls /\ restarts \in 0 .. MaxRestarts /\ locks \in 0 .. MaxLocks
    /\ rekeys \in 0 .. MaxRekeys

\* The routing table never makes a binding up: a token is bound to an identity
\* only if that identity authenticated at that token, through concurrent follows,
\* unfollows, rounds and restarts, and whatever zens say of each other in the
\* exchange (PutRouting is only ever called with an authenticated identity).
RoutingTruthful ==
    \A i \in Ids : routing[i] # Nil => <<i, routing[i]>> \in met

\* A round dials nobody on hearsay: a token is dialed on behalf of an identity of
\* the follow graph the round read, and only if that identity authenticated at
\* the token, although tokens are bound, probed, deleted and taken over by other
\* identities while the round runs (syncAllZens, resolvePendingFollows).
RoundDialsFollowed ==
    \A i \in Ids : active[i].pc # "off" => i \in loop.ids /\ <<i, active[i].tok>> \in met

\* No change of the follow graph waits for the ticker: from the moment a handler
\* changes it until a round reads it, a signal is pending, its handler is about
\* to send it, or a round is about to read it (triggerSyncNow drops a signal when
\* one is pending).
SignalKept ==
    stale => \/ syncNow \/ loop.pc = "round"
             \/ \E p \in Procs : proc[p].pc \in {"unbind", "delete", "remove", "trigger"}

\* A followed identity that answers at a known token, where dials do not fail, is
\* bound eventually (syncAllZens, resolvePendingFollows), whatever fails elsewhere,
\* unless it is unfollowed or leaves the token.
FollowResolves ==
    \A t \in Tokens \ Flaky, i \in Ids :
        (i \in follows /\ t \in known /\ answers[t] = i)
            ~> (routing[i] # Nil \/ i \notin follows \/ t \notin known \/ answers[t] # i)

\* A bootstrap deferred by a locked key is not forgotten: although dials fail and
\* the key is locked again or the daemon restarts in the middle, in the end every
\* seed had its turn in the running process; it was followed, its dial or session
\* failed, or its token was known (dialBootstrapSeeds, handleUnlock).
SeedsTried == <>[](file \subseteq settled)
============================================================================
