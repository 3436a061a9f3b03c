---------------------------- MODULE Daemon_proofs ---------------------------
(***************************************************************************)
(* Proofs about Daemon, for any sets of identities, tokens, handlers and   *)
(* bootstrap goroutines, and whoever answers at the tokens: the routing    *)
(* table makes no binding up, a round dials only tokens at which someone   *)
(* it read as followed authenticated, and no change of the follow graph is *)
(* left to the ticker.                                                     *)
(***************************************************************************)
EXTENDS Daemon, TLAPS

\* What a goroutine carries between its store transactions: the token it dials,
\* and the identity a session authenticated at that token.
ProcCarries ==
    \A p \in Procs :
        /\ proc[p].pc \in {"dial", "session", "bind"} => proc[p].tok \in Tokens
        /\ proc[p].pc \in {"session", "bind"} => <<proc[p].id, proc[p].tok>> \in met
        /\ proc[p].pc \in {"session", "bind", "write", "unbind", "delete", "remove"}
             => proc[p].id \in Ids
        /\ p \in Boots => proc[p].pc \notin {"unbind", "delete", "remove"}
        /\ p \in Boots /\ proc[p].pc \in {"write", "trigger"} => proc[p].tok \in Tokens

\* What a round has left to do is part of the follow graph it read, no session
\* is under way before it is read, and a session knows who authenticated.
RoundInv ==
    /\ loop.bound \subseteq loop.ids /\ loop.pending \subseteq loop.ids
    /\ \A i \in Ids : active[i].pc = "session" =>
          active[i].id \in Ids /\ <<active[i].id, active[i].tok>> \in met
    /\ loop.pc \in {"wait", "round"} => Quiet

\* The inductive invariant.
DaemonInv ==
    /\ TypeOK /\ ProcCarries /\ RoundInv
    /\ RoutingTruthful /\ RoundDialsFollowed /\ SignalKept

\* Where a goroutine can be, and what it can carry there.
ProcType ==
    [pc : {"idle", "boot", "seeds", "dial", "session", "bind", "write",
           "unbind", "delete", "remove", "trigger"},
     tok : Tokens \cup {Nil}, id : Ids \cup {Nil}, seeds : SUBSET Seeds]

\* A counter below its bound stays within it.
LEMMA CountUp == \A m \in Nat : \A n \in 0 .. m : n < m => n + 1 \in 0 .. m
  OBVIOUS

\* Where a goroutine can be.
ProcPcs ==
    {"idle", "boot", "seeds", "dial", "session", "bind", "write",
     "unbind", "delete", "remove", "trigger"}

\* A goroutine that moves on is well typed.
LEMMA ProcMove ==
  ASSUME NEW f \in [Procs -> ProcType], NEW p \in Procs, NEW a \in ProcPcs
  PROVE  [f EXCEPT ![p].pc = a] \in [Procs -> ProcType]
  <1>1. [f[p] EXCEPT !.pc = a] \in ProcType
    BY DEF ProcType, ProcPcs
  <1>2. \A r \in ProcType : [f EXCEPT ![p] = r] \in [Procs -> ProcType]
    OBVIOUS
  <1> QED BY <1>1, <1>2

\* So is one that takes an identity along.
LEMMA ProcLearn ==
  ASSUME NEW f \in [Procs -> ProcType], NEW p \in Procs, NEW a \in ProcPcs, NEW i \in Ids
  PROVE  [f EXCEPT ![p].pc = a, ![p].id = i] \in [Procs -> ProcType]
  <1>1. [f[p] EXCEPT !.pc = a, !.id = i] \in ProcType
    BY DEF ProcType, ProcPcs
  <1>2. \A r \in ProcType : [f EXCEPT ![p] = r] \in [Procs -> ProcType]
    OBVIOUS
  <1> QED BY <1>1, <1>2

\* So is one that dials a token.
LEMMA ProcDial ==
  ASSUME NEW f \in [Procs -> ProcType], NEW p \in Procs, NEW a \in ProcPcs, NEW t \in Tokens
  PROVE  [f EXCEPT ![p].pc = a, ![p].tok = t] \in [Procs -> ProcType]
  <1>1. [f[p] EXCEPT !.pc = a, !.tok = t] \in ProcType
    BY DEF ProcType, ProcPcs
  <1>2. \A r \in ProcType : [f EXCEPT ![p] = r] \in [Procs -> ProcType]
    OBVIOUS
  <1> QED BY <1>1, <1>2

\* So is one that is done.
LEMMA ProcFinish ==
  ASSUME NEW f \in [Procs -> ProcType], NEW p \in Procs, NEW a \in ProcPcs
  PROVE  [f EXCEPT ![p].pc = a, ![p].tok = Nil, ![p].id = Nil] \in [Procs -> ProcType]
  <1>1. [f[p] EXCEPT !.pc = a, !.tok = Nil, !.id = Nil] \in ProcType
    BY DEF ProcType, ProcPcs
  <1>2. \A r \in ProcType : [f EXCEPT ![p] = r] \in [Procs -> ProcType]
    OBVIOUS
  <1> QED BY <1>1, <1>2

\* A goroutine that is idle or starts the bootstrap is well typed.
LEMMA StartTypes == IdleProc \in ProcType /\ [IdleProc EXCEPT !.pc = "boot"] \in ProcType
  BY DEF IdleProc, ProcType

\* The initial states satisfy the invariant.
LEMMA DaemonInit == Init => DaemonInv
  <1> SUFFICES ASSUME Init PROVE DaemonInv
    OBVIOUS
  <1> USE DaemonAssumption DEF Init, IdleProc, IdleLoop
  <1>0. PICK b \in Boots :
          proc = [p \in Procs |-> IF p = b THEN [IdleProc EXCEPT !.pc = "boot"] ELSE IdleProc]
    OBVIOUS
  <1>1. TypeOK
    <2>1. proc \in [Procs -> ProcType]
      BY <1>0, StartTypes
    <2>2. calls \in 0 .. MaxCalls /\ restarts \in 0 .. MaxRestarts /\ locks \in 0 .. MaxLocks
      OBVIOUS
    <2>3. unlocked \in BOOLEAN /\ bootDone \in BOOLEAN /\ syncNow \in BOOLEAN /\ stale \in BOOLEAN
      OBVIOUS
    <2>4. routing \in [Ids -> Tokens \cup {Nil}] /\ zens \in [Tokens -> {"none", "bare"} \cup Ids]
      OBVIOUS
    <2>5. active \in [Ids -> [pc : {"off", "dial", "session"}, tok : Tokens \cup {Nil},
                             id : Ids \cup {Nil}]]
      BY DEF IdleSync
    <2> QED BY <2>1, <2>2, <2>3, <2>4, <2>5 DEF TypeOK, ProcType
  <1>2. ProcCarries
    BY <1>0 DEF ProcCarries
  <1>3. RoundInv /\ RoundDialsFollowed
    BY DEF RoundInv, Quiet, RoundDialsFollowed, IdleSync
  <1>4. RoutingTruthful
    BY DEF RoutingTruthful
  <1>5. SignalKept
    BY DEF SignalKept
  <1> QED BY <1>1, <1>2, <1>3, <1>4, <1>5 DEF DaemonInv

\* Every step preserves the types.
LEMMA DaemonTypes == DaemonInv /\ [Next]_vars => TypeOK'
  <1> SUFFICES ASSUME DaemonInv, [Next]_vars PROVE TypeOK'
    OBVIOUS
  <1> USE DaemonAssumption DEF DaemonInv, TypeOK, worldVars, storeVars, keyVars, loopVars, boundVars, Procs
  <1>1. ASSUME NEW p \in Calls, NEW t \in Tokens, CallFollow(p, t) PROVE TypeOK'
    <2>1. calls' \in 0 .. MaxCalls
      BY <1>1, CountUp DEF CallFollow
    <2>2. proc' \in [Procs -> ProcType]
      <3>1. p \in Procs /\ proc \in [Procs -> ProcType]
        BY DEF ProcType
      <3>2. proc' = [proc EXCEPT ![p].pc = "dial", ![p].tok = t]
        BY <1>1 DEF CallFollow
      <3>3. {"dial", "write", "unbind"} \subseteq ProcPcs
        BY DEF ProcPcs
      <3> QED BY <3>1, <3>2, <3>3, ProcDial
    <2> QED BY <1>1, <2>1, <2>2 DEF CallFollow, ProcType, Recorded
  <1>2. ASSUME NEW p \in Calls, NEW i \in Ids, CallFollowPubkey(p, i) PROVE TypeOK'
    <2>1. calls' \in 0 .. MaxCalls
      BY <1>2, CountUp DEF CallFollowPubkey
    <2>2. proc' \in [Procs -> ProcType]
      <3>1. p \in Procs /\ proc \in [Procs -> ProcType]
        BY DEF ProcType
      <3>2. proc' = [proc EXCEPT ![p].pc = "write", ![p].id = i]
        BY <1>2 DEF CallFollowPubkey
      <3>3. {"dial", "write", "unbind"} \subseteq ProcPcs
        BY DEF ProcPcs
      <3> QED BY <3>1, <3>2, <3>3, ProcLearn
    <2> QED BY <1>2, <2>1, <2>2 DEF CallFollowPubkey, ProcType
  <1>3. ASSUME NEW p \in Calls, NEW i \in Ids, CallUnfollow(p, i) PROVE TypeOK'
    <2>1. calls' \in 0 .. MaxCalls
      BY <1>3, CountUp DEF CallUnfollow
    <2>2. proc' \in [Procs -> ProcType]
      <3>1. p \in Procs /\ proc \in [Procs -> ProcType]
        BY DEF ProcType
      <3>2. proc' = [proc EXCEPT ![p].pc = "unbind", ![p].id = i]
        BY <1>3 DEF CallUnfollow
      <3>3. {"dial", "write", "unbind"} \subseteq ProcPcs
        BY DEF ProcPcs
      <3> QED BY <3>1, <3>2, <3>3, ProcLearn
    <2> QED BY <1>3, <2>1, <2>2 DEF CallUnfollow, ProcType
  <1>4. ASSUME NEW p \in Procs, NEW ok \in BOOLEAN, Dial(p, ok) PROVE TypeOK'
    <2>1. proc[p].tok \in Tokens /\ answers[proc[p].tok] \in Ids
      BY <1>4 DEF Dial, ProcCarries
    <2>2. proc' \in [Procs -> ProcType]
      <3>1. proc \in [Procs -> ProcType] /\ Return(p) \in ProcPcs /\ "session" \in ProcPcs
        BY DEF ProcType, ProcPcs, Return
      <3>2. \/ proc' = [proc EXCEPT ![p].pc = "session", ![p].id = answers[proc[p].tok]]
            \/ proc' = [proc EXCEPT ![p].pc = Return(p), ![p].tok = Nil, ![p].id = Nil]
        BY <1>4 DEF Dial, Finish
      <3>3. [proc EXCEPT ![p].pc = "session", ![p].id = answers[proc[p].tok]] \in [Procs -> ProcType]
        BY <2>1, <3>1, ProcLearn
      <3>4. [proc EXCEPT ![p].pc = Return(p), ![p].tok = Nil, ![p].id = Nil]
              \in [Procs -> ProcType]
        BY <3>1, ProcFinish
      <3> QED BY <3>2, <3>3, <3>4
    <2>3. met' \subseteq Ids \X Tokens /\ settled' \subseteq Tokens
      BY <1>4, <2>1 DEF Dial, Finish, Handshake
    <2> QED BY <1>4, <2>2, <2>3 DEF Dial, ProcType
  <1>5. ASSUME NEW p \in Procs, NEW ok \in BOOLEAN, Session(p, ok) PROVE TypeOK'
    <2>1. proc[p].tok \in Tokens
      BY <1>5 DEF Session, ProcCarries
    <2>2. proc' \in [Procs -> ProcType]
      <3>1. proc \in [Procs -> ProcType] /\ Return(p) \in ProcPcs /\ "bind" \in ProcPcs
        BY DEF ProcType, ProcPcs, Return
      <3>2. \/ proc' = [proc EXCEPT ![p].pc = "bind"]
            \/ proc' = [proc EXCEPT ![p].pc = Return(p), ![p].tok = Nil, ![p].id = Nil]
        BY <1>5 DEF Session, Finish
      <3>3. [proc EXCEPT ![p].pc = "bind"] \in [Procs -> ProcType]
        BY <3>1, ProcMove
      <3>4. [proc EXCEPT ![p].pc = Return(p), ![p].tok = Nil, ![p].id = Nil]
              \in [Procs -> ProcType]
        BY <3>1, ProcFinish
      <3> QED BY <3>2, <3>3, <3>4
    <2>3. settled' \subseteq Tokens
      BY <1>5, <2>1 DEF Session, Finish
    <2> QED BY <1>5, <2>2, <2>3 DEF Session, ProcType
  <1>6. ASSUME NEW p \in Procs, Bind(p) PROVE TypeOK'
    <2>2. proc' \in [Procs -> ProcType]
      <3>1. proc \in [Procs -> ProcType] /\ "write" \in ProcPcs
        BY DEF ProcType, ProcPcs
      <3>2. proc' = [proc EXCEPT ![p].pc = "write"]
        BY <1>6 DEF Bind
      <3> HIDE DaemonAssumption DEF DaemonInv, TypeOK, Procs
      <3> QED BY <3>1, <3>2, ProcMove
    <2>3. routing' \in [Ids -> Tokens \cup {Nil}] /\ known' \subseteq Tokens
      BY <1>6 DEF Bind, ProcCarries
    <2> QED BY <1>6, <2>2, <2>3 DEF Bind, ProcType
  <1>7. ASSUME NEW p \in Procs, WriteFollow(p) PROVE TypeOK'
    <2>2. proc' \in [Procs -> ProcType]
      <3>1. proc \in [Procs -> ProcType] /\ "trigger" \in ProcPcs
        BY DEF ProcType, ProcPcs
      <3>2. proc' = [proc EXCEPT ![p].pc = "trigger"]
        BY <1>7 DEF WriteFollow
      <3> HIDE DaemonAssumption DEF DaemonInv, TypeOK, Procs
      <3> QED BY <3>1, <3>2, ProcMove
    <2>3. follows' \subseteq Ids
      BY <1>7 DEF WriteFollow, ProcCarries
    <2> QED BY <1>7, <2>2, <2>3 DEF WriteFollow, ProcType
  <1>8. ASSUME NEW p \in Procs, ReadRouting(p) PROVE TypeOK'
    BY <1>8 DEF ReadRouting, ProcCarries
  <1>9. ASSUME NEW p \in Procs, DeleteRouting(p) PROVE TypeOK'
    <2>2. proc' \in [Procs -> ProcType]
      <3>1. proc \in [Procs -> ProcType] /\ "remove" \in ProcPcs
        BY DEF ProcType, ProcPcs
      <3>2. proc' = [proc EXCEPT ![p].pc = "remove"]
        BY <1>9 DEF DeleteRouting
      <3> HIDE DaemonAssumption DEF DaemonInv, TypeOK, Procs
      <3> QED BY <3>1, <3>2, ProcMove
    <2>3. routing' \in [Ids -> Tokens \cup {Nil}]
      BY <1>9 DEF DeleteRouting, ProcCarries
    <2> QED BY <1>9, <2>2, <2>3 DEF DeleteRouting, ProcType
  <1>10. ASSUME NEW p \in Procs, RemoveZen(p) PROVE TypeOK'
    BY <1>10 DEF RemoveZen
  <1>11. ASSUME NEW p \in Procs, Trigger(p) PROVE TypeOK'
    <2>2. proc' \in [Procs -> ProcType]
      <3>1. proc \in [Procs -> ProcType] /\ Return(p) \in ProcPcs
        BY DEF ProcType, ProcPcs, Return
      <3>2. proc' = [proc EXCEPT ![p].pc = Return(p), ![p].tok = Nil, ![p].id = Nil]
        BY <1>11 DEF Trigger, Finish
      <3> HIDE DaemonAssumption DEF DaemonInv, TypeOK, Procs
      <3> QED BY <3>1, <3>2, ProcFinish
    <2>3. settled' \subseteq Tokens
      BY <1>11 DEF Trigger, Finish, ProcCarries
    <2> QED BY <1>11, <2>2, <2>3 DEF Trigger, ProcType
  <1>12. ASSUME NEW p \in Procs, BootCheckKey(p) PROVE TypeOK'
    BY <1>12 DEF BootCheckKey
  <1>13. ASSUME NEW p \in Procs, BootEnd(p) PROVE TypeOK'
    BY <1>13 DEF BootEnd, IdleProc
  <1>14. ASSUME NEW p \in Procs, NEW t \in Tokens, BootSeed(p, t) PROVE TypeOK'
    BY <1>14 DEF BootSeed
  <1>15. ASSUME NEW tick \in BOOLEAN, TakeSignal(tick) PROVE TypeOK'
    BY <1>15 DEF TakeSignal
  <1>16. CASE ReadFollowGraph
    BY <1>16 DEF ReadFollowGraph
  <1>17. CASE StartResolve
    BY <1>17 DEF StartResolve, IdleLoop
  <1>18. CASE EndRound
    BY <1>18 DEF EndRound, IdleLoop
  <1>19. ASSUME NEW i \in Ids, SpawnSync(i) PROVE TypeOK'
    BY <1>19 DEF SpawnSync
  <1>20. ASSUME NEW i \in Ids, NEW ok \in BOOLEAN, SyncDial(i, ok) PROVE TypeOK'
    <2>1. active[i].tok \in Tokens /\ answers[active[i].tok] \in Ids
      <3>1. <<i, active[i].tok>> \in met
        BY <1>20 DEF SyncDial, RoundDialsFollowed
      <3> QED BY <3>1
    <2>2. active' \in [Ids -> [pc : {"off", "dial", "session"}, tok : Tokens \cup {Nil},
                              id : Ids \cup {Nil}]]
      BY <1>20, <2>1 DEF SyncDial, IdleSync
    <2>3. met' \subseteq Ids \X Tokens
      BY <1>20, <2>1 DEF SyncDial, Handshake
    <2> QED BY <1>20, <2>2, <2>3 DEF SyncDial
  <1>21. ASSUME NEW i \in Ids, SyncSession(i) PROVE TypeOK'
    <2>1. routing' \in [Ids -> Tokens \cup {Nil}]
      BY <1>21 DEF SyncSession, RoundInv
    <2>2. active' \in [Ids -> [pc : {"off", "dial", "session"}, tok : Tokens \cup {Nil},
                              id : Ids \cup {Nil}]]
      BY <1>21 DEF SyncSession, IdleSync
    <2> QED BY <1>21, <2>1, <2>2 DEF SyncSession
  <1>22. ASSUME NEW t \in Tokens, NEW ok \in BOOLEAN, Probe(t, ok) PROVE TypeOK'
    BY <1>22 DEF Probe, Handshake
  <1>23. ASSUME NEW t \in Tokens \cup {Nil}, NEW hint \in Hints \cup {Nil}, LearnZenRef(t, hint) PROVE TypeOK'
    BY <1>23 DEF LearnZenRef, Recorded
  <1>24. CASE Lock
    <2>1. locks' \in 0 .. MaxLocks
      BY <1>24, CountUp DEF Lock
    <2> QED BY <1>24, <2>1 DEF Lock
  <1>25. CASE handleUnlock
    <2>1. proc' \in [Procs -> ProcType]
      <3>1. CASE UNCHANGED proc
        BY <3>1 DEF ProcType
      <3>2. ASSUME NEW b \in Boots, StartBoot(b) PROVE proc' \in [Procs -> ProcType]
        BY <3>2, StartTypes DEF StartBoot, ProcType
      <3> QED BY <1>25, <3>1, <3>2 DEF handleUnlock
    <2> QED BY <1>25, <2>1 DEF handleUnlock, ProcType
  <1>26. CASE Restart
    <2>1. proc' \in [Procs -> ProcType]
      BY <1>26, StartTypes DEF Restart
    <2>2. restarts' \in 0 .. MaxRestarts
      BY <1>26, CountUp DEF Restart
    <2>3. zens' \in [Tokens -> {"none", "bare"} \cup Ids]
      BY <1>26 DEF Restart
    <2>4. active' \in [Ids -> [pc : {"off", "dial", "session"}, tok : Tokens \cup {Nil},
                              id : Ids \cup {Nil}]]
      BY <1>26 DEF Restart, IdleSync
    <2> QED BY <1>26, <2>1, <2>2, <2>3, <2>4 DEF Restart, IdleLoop, ProcType
  <1>28. ASSUME NEW t \in Tokens, NEW i \in Ids, Rekey(t, i) PROVE TypeOK'
    <2>1. rekeys' \in 0 .. MaxRekeys
      BY <1>28, CountUp DEF Rekey
    <2> QED BY <1>28, <2>1 DEF Rekey
  <1>27. CASE UNCHANGED vars
    BY <1>27 DEF vars
  <1> HIDE DaemonAssumption DEF DaemonInv, TypeOK
  <1> QED BY <1>1, <1>2, <1>3, <1>4, <1>5, <1>6, <1>7, <1>8, <1>9, <1>10, <1>11, <1>12, <1>13,
             <1>14, <1>15, <1>16, <1>17, <1>18, <1>19, <1>20, <1>21, <1>22, <1>23, <1>24, <1>25,
             <1>26, <1>27, <1>28
          DEF Next, Call, ProcStep, LoopStep, Procs

\* A goroutine carries the token it dialed and the identity that answered there.
LEMMA DaemonCarries == DaemonInv /\ [Next]_vars => ProcCarries'
  <1> SUFFICES ASSUME DaemonInv, [Next]_vars PROVE ProcCarries'
    OBVIOUS
  <1> USE DaemonAssumption DEF DaemonInv, TypeOK, ProcCarries, Procs, worldVars
  <1>1. ASSUME NEW p \in Calls, NEW t \in Tokens, CallFollow(p, t) PROVE ProcCarries'
    BY <1>1 DEF CallFollow
  <1>2. ASSUME NEW p \in Calls, NEW i \in Ids, CallFollowPubkey(p, i) PROVE ProcCarries'
    BY <1>2 DEF CallFollowPubkey
  <1>3. ASSUME NEW p \in Calls, NEW i \in Ids, CallUnfollow(p, i) PROVE ProcCarries'
    BY <1>3 DEF CallUnfollow
  <1>4. ASSUME NEW p \in Procs, NEW ok \in BOOLEAN, Dial(p, ok) PROVE ProcCarries'
    BY <1>4 DEF Dial, Handshake, Finish, Return
  <1>5. ASSUME NEW p \in Procs, NEW ok \in BOOLEAN, Session(p, ok) PROVE ProcCarries'
    BY <1>5 DEF Session, Finish, Return
  <1>6. ASSUME NEW p \in Procs, Bind(p) PROVE ProcCarries'
    BY <1>6 DEF Bind
  <1>7. ASSUME NEW p \in Procs, WriteFollow(p) PROVE ProcCarries'
    BY <1>7 DEF WriteFollow
  <1>8. ASSUME NEW p \in Procs, ReadRouting(p) PROVE ProcCarries'
    BY <1>8 DEF ReadRouting
  <1>9. ASSUME NEW p \in Procs, DeleteRouting(p) PROVE ProcCarries'
    BY <1>9 DEF DeleteRouting
  <1>10. ASSUME NEW p \in Procs, RemoveZen(p) PROVE ProcCarries'
    BY <1>10 DEF RemoveZen
  <1>11. ASSUME NEW p \in Procs, Trigger(p) PROVE ProcCarries'
    BY <1>11 DEF Trigger, Finish, Return
  <1>12. ASSUME NEW p \in Procs, BootCheckKey(p) PROVE ProcCarries'
    BY <1>12 DEF BootCheckKey
  <1>13. ASSUME NEW p \in Procs, BootEnd(p) PROVE ProcCarries'
    BY <1>13 DEF BootEnd, IdleProc
  <1>14. ASSUME NEW p \in Procs, NEW t \in Tokens, BootSeed(p, t) PROVE ProcCarries'
    BY <1>14 DEF BootSeed
  <1>15. ASSUME NEW tick \in BOOLEAN, TakeSignal(tick) PROVE ProcCarries'
    BY <1>15 DEF TakeSignal
  <1>16. CASE ReadFollowGraph
    BY <1>16 DEF ReadFollowGraph
  <1>17. CASE StartResolve
    BY <1>17 DEF StartResolve
  <1>18. CASE EndRound
    BY <1>18 DEF EndRound
  <1>19. ASSUME NEW i \in Ids, SpawnSync(i) PROVE ProcCarries'
    BY <1>19 DEF SpawnSync
  <1>20. ASSUME NEW i \in Ids, NEW ok \in BOOLEAN, SyncDial(i, ok) PROVE ProcCarries'
    BY <1>20 DEF SyncDial, Handshake
  <1>21. ASSUME NEW i \in Ids, SyncSession(i) PROVE ProcCarries'
    BY <1>21 DEF SyncSession
  <1>22. ASSUME NEW t \in Tokens, NEW ok \in BOOLEAN, Probe(t, ok) PROVE ProcCarries'
    BY <1>22 DEF Probe, Handshake
  <1>23. ASSUME NEW t \in Tokens \cup {Nil}, NEW hint \in Hints \cup {Nil}, LearnZenRef(t, hint) PROVE ProcCarries'
    BY <1>23 DEF LearnZenRef
  <1>24. CASE Lock
    BY <1>24 DEF Lock
  <1>25. CASE handleUnlock
    BY <1>25 DEF handleUnlock, StartBoot, IdleProc
  <1>26. CASE Restart
    BY <1>26 DEF Restart, IdleProc
  <1>28. ASSUME NEW t \in Tokens, NEW i \in Ids, Rekey(t, i) PROVE ProcCarries'
    BY <1>28 DEF Rekey
  <1>27. CASE UNCHANGED vars
    BY <1>27 DEF vars
  <1> HIDE DaemonAssumption DEF DaemonInv, TypeOK, ProcCarries
  <1> QED BY <1>1, <1>2, <1>3, <1>4, <1>5, <1>6, <1>7, <1>8, <1>9, <1>10, <1>11, <1>12,
             <1>13, <1>14, <1>15, <1>16, <1>17, <1>18, <1>19, <1>20, <1>21, <1>22, <1>23,
             <1>24, <1>25, <1>26, <1>27, <1>28
          DEF Next, Call, ProcStep, LoopStep, Procs

\* Every step keeps the routing table truthful.
LEMMA DaemonRouting == DaemonInv /\ [Next]_vars => RoutingTruthful'
  <1> SUFFICES ASSUME DaemonInv, [Next]_vars PROVE RoutingTruthful'
    OBVIOUS
  <1> USE DaemonAssumption DEF DaemonInv, TypeOK, RoutingTruthful, ProcCarries, RoundInv, storeVars
  <1>1. ASSUME NEW p \in Calls, NEW t \in Tokens, CallFollow(p, t) PROVE RoutingTruthful'
    BY <1>1 DEF CallFollow
  <1>2. ASSUME NEW p \in Calls, NEW i \in Ids, CallFollowPubkey(p, i) PROVE RoutingTruthful'
    BY <1>2 DEF CallFollowPubkey
  <1>3. ASSUME NEW p \in Calls, NEW i \in Ids, CallUnfollow(p, i) PROVE RoutingTruthful'
    BY <1>3 DEF CallUnfollow
  <1>4. ASSUME NEW p \in Procs, NEW ok \in BOOLEAN, Dial(p, ok) PROVE RoutingTruthful'
    BY <1>4 DEF Dial, Handshake
  <1>5. ASSUME NEW p \in Procs, NEW ok \in BOOLEAN, Session(p, ok) PROVE RoutingTruthful'
    BY <1>5 DEF Session
  <1>6. ASSUME NEW p \in Procs, Bind(p) PROVE RoutingTruthful'
    BY <1>6 DEF Bind
  <1>7. ASSUME NEW p \in Procs, WriteFollow(p) PROVE RoutingTruthful'
    BY <1>7 DEF WriteFollow
  <1>8. ASSUME NEW p \in Procs, ReadRouting(p) PROVE RoutingTruthful'
    BY <1>8 DEF ReadRouting
  <1>9. ASSUME NEW p \in Procs, DeleteRouting(p) PROVE RoutingTruthful'
    BY <1>9 DEF DeleteRouting
  <1>10. ASSUME NEW p \in Procs, RemoveZen(p) PROVE RoutingTruthful'
    BY <1>10 DEF RemoveZen
  <1>11. ASSUME NEW p \in Procs, Trigger(p) PROVE RoutingTruthful'
    BY <1>11 DEF Trigger
  <1>12. ASSUME NEW p \in Procs, BootCheckKey(p) PROVE RoutingTruthful'
    BY <1>12 DEF BootCheckKey
  <1>13. ASSUME NEW p \in Procs, BootEnd(p) PROVE RoutingTruthful'
    BY <1>13 DEF BootEnd
  <1>14. ASSUME NEW p \in Procs, NEW t \in Tokens, BootSeed(p, t) PROVE RoutingTruthful'
    BY <1>14 DEF BootSeed
  <1>15. ASSUME NEW tick \in BOOLEAN, TakeSignal(tick) PROVE RoutingTruthful'
    BY <1>15 DEF TakeSignal
  <1>16. CASE ReadFollowGraph
    BY <1>16 DEF ReadFollowGraph
  <1>17. CASE StartResolve
    BY <1>17 DEF StartResolve
  <1>18. CASE EndRound
    BY <1>18 DEF EndRound
  <1>19. ASSUME NEW i \in Ids, SpawnSync(i) PROVE RoutingTruthful'
    BY <1>19 DEF SpawnSync
  <1>20. ASSUME NEW i \in Ids, NEW ok \in BOOLEAN, SyncDial(i, ok) PROVE RoutingTruthful'
    BY <1>20 DEF SyncDial, Handshake
  <1>21. ASSUME NEW i \in Ids, SyncSession(i) PROVE RoutingTruthful'
    BY <1>21 DEF SyncSession
  <1>22. ASSUME NEW t \in Tokens, NEW ok \in BOOLEAN, Probe(t, ok) PROVE RoutingTruthful'
    BY <1>22 DEF Probe, Handshake
  <1>23. ASSUME NEW t \in Tokens \cup {Nil}, NEW hint \in Hints \cup {Nil}, LearnZenRef(t, hint) PROVE RoutingTruthful'
    BY <1>23 DEF LearnZenRef
  <1>24. CASE Lock
    BY <1>24 DEF Lock
  <1>25. CASE handleUnlock
    BY <1>25 DEF handleUnlock
  <1>26. CASE Restart
    BY <1>26 DEF Restart
  <1>28. ASSUME NEW t \in Tokens, NEW i \in Ids, Rekey(t, i) PROVE RoutingTruthful'
    BY <1>28 DEF Rekey
  <1>27. CASE UNCHANGED vars
    BY <1>27 DEF vars
  <1> HIDE DaemonAssumption DEF DaemonInv, TypeOK, RoutingTruthful, ProcCarries, RoundInv
  <1> QED BY <1>1, <1>2, <1>3, <1>4, <1>5, <1>6, <1>7, <1>8, <1>9, <1>10, <1>11, <1>12,
             <1>13, <1>14, <1>15, <1>16, <1>17, <1>18, <1>19, <1>20, <1>21, <1>22, <1>23,
             <1>24, <1>25, <1>26, <1>27, <1>28
          DEF Next, Call, ProcStep, LoopStep, Procs

\* Every step keeps a round within the follow graph it read.
LEMMA DaemonRound == DaemonInv /\ [Next]_vars => (RoundInv /\ RoundDialsFollowed)'
  <1> SUFFICES ASSUME DaemonInv, [Next]_vars PROVE (RoundInv /\ RoundDialsFollowed)'
    OBVIOUS
  <1> USE DaemonAssumption DEF DaemonInv, TypeOK, RoundInv, RoundDialsFollowed, Quiet, RoutingTruthful, loopVars
  <1>1. ASSUME NEW p \in Calls, NEW t \in Tokens, CallFollow(p, t) PROVE (RoundInv /\ RoundDialsFollowed)'
    BY <1>1 DEF CallFollow
  <1>2. ASSUME NEW p \in Calls, NEW i \in Ids, CallFollowPubkey(p, i) PROVE (RoundInv /\ RoundDialsFollowed)'
    BY <1>2 DEF CallFollowPubkey
  <1>3. ASSUME NEW p \in Calls, NEW i \in Ids, CallUnfollow(p, i) PROVE (RoundInv /\ RoundDialsFollowed)'
    BY <1>3 DEF CallUnfollow
  <1>4. ASSUME NEW p \in Procs, NEW ok \in BOOLEAN, Dial(p, ok) PROVE (RoundInv /\ RoundDialsFollowed)'
    BY <1>4 DEF Dial, Handshake
  <1>5. ASSUME NEW p \in Procs, NEW ok \in BOOLEAN, Session(p, ok) PROVE (RoundInv /\ RoundDialsFollowed)'
    BY <1>5 DEF Session
  <1>6. ASSUME NEW p \in Procs, Bind(p) PROVE (RoundInv /\ RoundDialsFollowed)'
    BY <1>6 DEF Bind
  <1>7. ASSUME NEW p \in Procs, WriteFollow(p) PROVE (RoundInv /\ RoundDialsFollowed)'
    BY <1>7 DEF WriteFollow
  <1>8. ASSUME NEW p \in Procs, ReadRouting(p) PROVE (RoundInv /\ RoundDialsFollowed)'
    BY <1>8 DEF ReadRouting
  <1>9. ASSUME NEW p \in Procs, DeleteRouting(p) PROVE (RoundInv /\ RoundDialsFollowed)'
    BY <1>9 DEF DeleteRouting
  <1>10. ASSUME NEW p \in Procs, RemoveZen(p) PROVE (RoundInv /\ RoundDialsFollowed)'
    BY <1>10 DEF RemoveZen
  <1>11. ASSUME NEW p \in Procs, Trigger(p) PROVE (RoundInv /\ RoundDialsFollowed)'
    BY <1>11 DEF Trigger
  <1>12. ASSUME NEW p \in Procs, BootCheckKey(p) PROVE (RoundInv /\ RoundDialsFollowed)'
    BY <1>12 DEF BootCheckKey
  <1>13. ASSUME NEW p \in Procs, BootEnd(p) PROVE (RoundInv /\ RoundDialsFollowed)'
    BY <1>13 DEF BootEnd
  <1>14. ASSUME NEW p \in Procs, NEW t \in Tokens, BootSeed(p, t) PROVE (RoundInv /\ RoundDialsFollowed)'
    BY <1>14 DEF BootSeed
  <1>15. ASSUME NEW tick \in BOOLEAN, TakeSignal(tick) PROVE (RoundInv /\ RoundDialsFollowed)'
    BY <1>15 DEF TakeSignal
  <1>16. CASE ReadFollowGraph
    BY <1>16 DEF ReadFollowGraph
  <1>17. CASE StartResolve
    BY <1>17 DEF StartResolve, IdleLoop
  <1>18. CASE EndRound
    BY <1>18 DEF EndRound, IdleLoop
  <1>19. ASSUME NEW i \in Ids, SpawnSync(i) PROVE (RoundInv /\ RoundDialsFollowed)'
    BY <1>19 DEF SpawnSync
  <1>20. ASSUME NEW i \in Ids, NEW ok \in BOOLEAN, SyncDial(i, ok) PROVE (RoundInv /\ RoundDialsFollowed)'
    <2>0. active[i].pc = "dial"
      BY <1>20 DEF SyncDial
    <2>4. <<i, active[i].tok>> \in met /\ met \subseteq Ids \X Tokens
      BY <2>0
    <2>1. active[i].tok \in Tokens /\ answers[active[i].tok] \in Ids
      BY <2>4
    <2>2. CASE ok
      <3>1. active' = [active EXCEPT ![i].pc = "session", ![i].id = answers[active[i].tok]]
        BY <1>20, <2>2 DEF SyncDial
      <3>2. active'[i].id = answers[active[i].tok] /\ active'[i].tok = active[i].tok
        BY <3>1
      <3>3. \A j \in Ids \ {i} : active'[j] = active[j]
        BY <3>1
      <3>4. met' = met \cup {<<answers[active[i].tok], active[i].tok>>} /\ loop' = loop
        BY <1>20, <2>2 DEF SyncDial, Handshake
      <3>5. loop.pc \notin {"wait", "round"} /\ i \in loop.ids /\ <<i, active[i].tok>> \in met
        BY <1>20 DEF SyncDial
      <3> QED BY <2>1, <3>2, <3>3, <3>4, <3>5
    <2>3. CASE ~ok
      BY <1>20, <2>3 DEF SyncDial, IdleSync
    <2> QED BY <2>2, <2>3
  <1>21. ASSUME NEW i \in Ids, SyncSession(i) PROVE (RoundInv /\ RoundDialsFollowed)'
    <2>1. active' = [active EXCEPT ![i] = IdleSync] /\ loop' = loop /\ met' = met
      BY <1>21 DEF SyncSession
    <2> QED BY <2>1 DEF IdleSync
  <1>22. ASSUME NEW t \in Tokens, NEW ok \in BOOLEAN, Probe(t, ok) PROVE (RoundInv /\ RoundDialsFollowed)'
    <2>1. loop'.ids = loop.ids /\ loop'.bound = loop.bound /\ loop'.pending = loop.pending
          /\ loop'.pc = "resolve"
      BY <1>22 DEF Probe
    <2>2. met \subseteq met' /\ (ok => <<answers[t], t>> \in met') /\ answers[t] \in Ids
      BY <1>22 DEF Probe, Handshake
    <2>3. CASE ok /\ answers[t] \in loop.pending
      <3>1. active' = [active EXCEPT ![answers[t]] = [pc |-> "dial", tok |-> t, id |-> Nil]]
        BY <1>22, <2>3 DEF Probe
      <3>2. /\ active'[answers[t]] = [pc |-> "dial", tok |-> t, id |-> Nil]
            /\ \A j \in Ids \ {answers[t]} : active'[j] = active[j]
        BY <2>2, <3>1
      <3>3. answers[t] \in loop.ids
        BY <2>3
      <3>4. RoundDialsFollowed'
        <4>1. ASSUME NEW j \in Ids, active'[j].pc # "off"
              PROVE  j \in loop'.ids /\ <<j, active'[j].tok>> \in met'
          <5>1. CASE j = answers[t]
            BY <2>1, <2>2, <2>3, <3>2, <3>3, <5>1
          <5>2. CASE j # answers[t]
            BY <2>1, <2>2, <3>2, <4>1, <5>2
          <5> QED BY <5>1, <5>2
        <4> QED BY <4>1
      <3> QED BY <2>1, <2>2, <3>2, <3>4
    <2>4. CASE ~(ok /\ answers[t] \in loop.pending)
      <3>1. active' = active
        BY <1>22, <2>4 DEF Probe
      <3> QED BY <2>1, <2>2, <3>1
    <2> QED BY <2>3, <2>4
  <1>23. ASSUME NEW t \in Tokens \cup {Nil}, NEW hint \in Hints \cup {Nil}, LearnZenRef(t, hint) PROVE (RoundInv /\ RoundDialsFollowed)'
    BY <1>23 DEF LearnZenRef
  <1>24. CASE Lock
    BY <1>24 DEF Lock
  <1>25. CASE handleUnlock
    BY <1>25 DEF handleUnlock
  <1>26. CASE Restart
    BY <1>26 DEF Restart, IdleLoop, IdleSync
  <1>28. ASSUME NEW t \in Tokens, NEW i \in Ids, Rekey(t, i) PROVE (RoundInv /\ RoundDialsFollowed)'
    BY <1>28 DEF Rekey
  <1>27. CASE UNCHANGED vars
    BY <1>27 DEF vars
  <1> HIDE DaemonAssumption DEF DaemonInv, TypeOK, RoundInv, RoundDialsFollowed, Quiet, RoutingTruthful
  <1> QED BY <1>1, <1>2, <1>3, <1>4, <1>5, <1>6, <1>7, <1>8, <1>9, <1>10, <1>11, <1>12,
             <1>13, <1>14, <1>15, <1>16, <1>17, <1>18, <1>19, <1>20, <1>21, <1>22, <1>23,
             <1>24, <1>25, <1>26, <1>27, <1>28
          DEF Next, Call, ProcStep, LoopStep, Procs

\* Every step keeps the signal of a changed follow graph.
LEMMA DaemonSignal == DaemonInv /\ [Next]_vars => SignalKept'
  <1> SUFFICES ASSUME DaemonInv, [Next]_vars PROVE SignalKept'
    OBVIOUS
  <1> USE DEF DaemonInv, TypeOK, SignalKept, loopVars, Procs
  <1>1. ASSUME NEW p \in Calls, NEW t \in Tokens, CallFollow(p, t) PROVE SignalKept'
    BY <1>1 DEF CallFollow
  <1>2. ASSUME NEW p \in Calls, NEW i \in Ids, CallFollowPubkey(p, i) PROVE SignalKept'
    BY <1>2 DEF CallFollowPubkey
  <1>3. ASSUME NEW p \in Calls, NEW i \in Ids, CallUnfollow(p, i) PROVE SignalKept'
    BY <1>3 DEF CallUnfollow
  <1>4. ASSUME NEW p \in Procs, NEW ok \in BOOLEAN, Dial(p, ok) PROVE SignalKept'
    BY <1>4 DEF Dial, Handshake, Finish, Return
  <1>5. ASSUME NEW p \in Procs, NEW ok \in BOOLEAN, Session(p, ok) PROVE SignalKept'
    BY <1>5 DEF Session, Finish, Return
  <1>6. ASSUME NEW p \in Procs, Bind(p) PROVE SignalKept'
    BY <1>6 DEF Bind
  <1>7. ASSUME NEW p \in Procs, WriteFollow(p) PROVE SignalKept'
    BY <1>7 DEF WriteFollow
  <1>8. ASSUME NEW p \in Procs, ReadRouting(p) PROVE SignalKept'
    BY <1>8 DEF ReadRouting
  <1>9. ASSUME NEW p \in Procs, DeleteRouting(p) PROVE SignalKept'
    BY <1>9 DEF DeleteRouting
  <1>10. ASSUME NEW p \in Procs, RemoveZen(p) PROVE SignalKept'
    BY <1>10 DEF RemoveZen
  <1>11. ASSUME NEW p \in Procs, Trigger(p) PROVE SignalKept'
    BY <1>11 DEF Trigger, Finish, Return
  <1>12. ASSUME NEW p \in Procs, BootCheckKey(p) PROVE SignalKept'
    BY <1>12 DEF BootCheckKey
  <1>13. ASSUME NEW p \in Procs, BootEnd(p) PROVE SignalKept'
    BY <1>13 DEF BootEnd, IdleProc
  <1>14. ASSUME NEW p \in Procs, NEW t \in Tokens, BootSeed(p, t) PROVE SignalKept'
    BY <1>14 DEF BootSeed
  <1>15. ASSUME NEW tick \in BOOLEAN, TakeSignal(tick) PROVE SignalKept'
    BY <1>15 DEF TakeSignal
  <1>16. CASE ReadFollowGraph
    BY <1>16 DEF ReadFollowGraph
  <1>17. CASE StartResolve
    BY <1>17 DEF StartResolve
  <1>18. CASE EndRound
    BY <1>18 DEF EndRound
  <1>19. ASSUME NEW i \in Ids, SpawnSync(i) PROVE SignalKept'
    BY <1>19 DEF SpawnSync
  <1>20. ASSUME NEW i \in Ids, NEW ok \in BOOLEAN, SyncDial(i, ok) PROVE SignalKept'
    BY <1>20 DEF SyncDial, Handshake
  <1>21. ASSUME NEW i \in Ids, SyncSession(i) PROVE SignalKept'
    BY <1>21 DEF SyncSession
  <1>22. ASSUME NEW t \in Tokens, NEW ok \in BOOLEAN, Probe(t, ok) PROVE SignalKept'
    BY <1>22 DEF Probe, Handshake
  <1>23. ASSUME NEW t \in Tokens \cup {Nil}, NEW hint \in Hints \cup {Nil}, LearnZenRef(t, hint) PROVE SignalKept'
    BY <1>23 DEF LearnZenRef
  <1>24. CASE Lock
    BY <1>24 DEF Lock
  <1>25. CASE handleUnlock
    BY <1>25 DEF handleUnlock, StartBoot, IdleProc
  <1>26. CASE Restart
    BY <1>26 DEF Restart, IdleLoop
  <1>28. ASSUME NEW t \in Tokens, NEW i \in Ids, Rekey(t, i) PROVE SignalKept'
    BY <1>28 DEF Rekey
  <1>27. CASE UNCHANGED vars
    BY <1>27 DEF vars
  <1> HIDE DaemonAssumption DEF DaemonInv, TypeOK, SignalKept
  <1> QED BY <1>1, <1>2, <1>3, <1>4, <1>5, <1>6, <1>7, <1>8, <1>9, <1>10, <1>11, <1>12,
             <1>13, <1>14, <1>15, <1>16, <1>17, <1>18, <1>19, <1>20, <1>21, <1>22, <1>23,
             <1>24, <1>25, <1>26, <1>27, <1>28
          DEF Next, Call, ProcStep, LoopStep, Procs

\* The inductive invariant holds in every reachable state.
LEMMA DaemonInvariant == Spec => []DaemonInv
  <1>1. DaemonInv /\ [Next]_vars => DaemonInv'
    BY DaemonTypes, DaemonCarries, DaemonRouting, DaemonRound, DaemonSignal DEF DaemonInv
  <1> QED BY DaemonInit, <1>1, PTL DEF Spec

\* Every variable of the daemon keeps its type.
THEOREM DaemonTypeCorrect == Spec => []TypeOK
  <1>1. DaemonInv => TypeOK
    BY DEF DaemonInv
  <1> QED BY <1>1, DaemonInvariant, PTL

\* The routing table binds a token only to an identity that authenticated there
\* (PutRouting in followByToken, connectAndSync and resolvePendingFollows,
\* DeleteRouting in handleUnfollow).
THEOREM RoutingNeverLies == Spec => []RoutingTruthful
  <1>1. DaemonInv => RoutingTruthful
    BY DEF DaemonInv
  <1> QED BY <1>1, DaemonInvariant, PTL

\* A round dials a token only for an identity of the follow graph it read that
\* authenticated at that token, whoever answers there by now (syncAllZens,
\* resolvePendingFollows).
THEOREM RoundNeverDialsHearsay == Spec => []RoundDialsFollowed
  <1>1. DaemonInv => RoundDialsFollowed
    BY DEF DaemonInv
  <1> QED BY <1>1, DaemonInvariant, PTL

\* No change of the follow graph is left to the ticker (triggerSyncNow).
THEOREM NoSignalLost == Spec => []SignalKept
  <1>1. DaemonInv => SignalKept
    BY DEF DaemonInv
  <1> QED BY <1>1, DaemonInvariant, PTL
============================================================================
