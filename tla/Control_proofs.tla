--------------------------- MODULE Control_proofs ---------------------------
(***************************************************************************)
(* Theorems about Control: key and identity in the store, that a command   *)
(* writes at most once, the key in a daemon's memory, the types, that a    *)
(* daemon nobody stopped can be reached, and that its address is the one   *)
(* stored.                                                                 *)
(***************************************************************************)
EXTENDS Control, SequenceTheorems, TLAPS

\* The calls and transactions that write an event or a mark.
Writes == {"Sign", "Mark", "Follow", "SignAndAppend"}

\* Each of them is all a command does, and so is stopping the daemon.
Alone == Writes \cup {"Stop"}

\* The others.
Others ==
    {"InitIdentity", "Whoami", "Identity", "Read", "FeedPage", "EncryptedKey",
     "PutEncryptedKey", "SetIdentity", "SealTransportKey", "ImportBackup", "PutTransportKey",
     "Unlock", "Lock", "RotateKey", "UnlockIfLocked", "Subscribe"}

\* A list of calls or transactions that writes or stops does nothing else.
Once(s) == \A i \in 1 .. Len(s) : s[i] \in Alone => Len(s) = 1

\* A list as a command has it.
List(s) == s \in Seq(Alone \cup Others) /\ Once(s)

\* Short lists are sequences.
LEMMA Tuples ==
    ASSUME NEW S
    PROVE  /\ <<>> \in Seq(S)
           /\ \A a \in S : <<a>> \in Seq(S)
           /\ \A a, b \in S : <<a, b>> \in Seq(S)
           /\ \A a, b, c \in S : <<a, b, c>> \in Seq(S)
  OBVIOUS

\* No call or transaction is in both sets.
LEMMA Disjoint == Alone \cap Others = {}
  BY DEF Alone, Writes, Others

\* The lists that occur in Commands.
LEMMA Lists ==
    /\ List(<<>>)
    /\ \A a \in Alone \cup Others : List(<<a>>) /\ Len(<<a>>) = 1
    /\ \A a, b \in Others : List(<<a, b>>) /\ Len(<<a, b>>) = 2
    /\ \A a, b, c \in Others : List(<<a, b, c>>) /\ Len(<<a, b, c>>) = 3
  <1>1. List(<<>>)
    BY Tuples DEF List, Once
  <1>2. ASSUME NEW a \in Alone \cup Others PROVE List(<<a>>) /\ Len(<<a>>) = 1
    BY Tuples DEF List, Once
  <1>3. ASSUME NEW a \in Others, NEW b \in Others
        PROVE  List(<<a, b>>) /\ Len(<<a, b>>) = 2
    <2>1. Len(<<a, b>>) = 2 /\ <<a, b>>[1] = a /\ <<a, b>>[2] = b
      OBVIOUS
    <2>2. \A i \in 1 .. 2 : i = 1 \/ i = 2
      OBVIOUS
    <2>3. Once(<<a, b>>)
      BY <2>1, <2>2, Disjoint DEF Once
    <2> QED BY <2>1, <2>3, Tuples DEF List
  <1>4. ASSUME NEW a \in Others, NEW b \in Others, NEW c \in Others
        PROVE  List(<<a, b, c>>) /\ Len(<<a, b, c>>) = 3
    <2>1. Len(<<a, b, c>>) = 3 /\ <<a, b, c>>[1] = a /\ <<a, b, c>>[2] = b /\ <<a, b, c>>[3] = c
      OBVIOUS
    <2>2. \A i \in 1 .. 3 : i = 1 \/ i = 2 \/ i = 3
      OBVIOUS
    <2>3. Once(<<a, b, c>>)
      BY <2>1, <2>2, Disjoint DEF Once
    <2> QED BY <2>1, <2>3, Tuples DEF List
  <1> QED BY <1>1, <1>2, <1>3, <1>4

\* What is left of a list after its first entry.
LEMMA ListTail ==
    ASSUME NEW s, List(s), Len(s) > 1
    PROVE  List(Tail(s)) /\ Len(Tail(s)) > 0
           /\ Head(Tail(s)) \notin Writes /\ Head(Tail(s)) # "Stop"
  <1>1. /\ Tail(s) \in Seq(Alone \cup Others) /\ Len(Tail(s)) = Len(s) - 1
        /\ \A i \in 1 .. Len(Tail(s)) : Tail(s)[i] = s[i + 1]
    BY DEF List
  <1>2. \A i \in 1 .. Len(Tail(s)) : Tail(s)[i] \notin Alone
    BY <1>1 DEF List, Once
  <1>3. Head(Tail(s)) = Tail(s)[1] /\ 1 \in 1 .. Len(Tail(s))
    BY <1>1 DEF List
  <1> QED BY <1>1, <1>2, <1>3 DEF List, Once, Alone

\* The lengths of a list.
LEMMA ListEmpty ==
    ASSUME NEW s, List(s)
    PROVE  /\ s = <<>> <=> Len(s) = 0
           /\ Len(s) = 0 \/ Len(s) = 1 \/ Len(s) > 1
           /\ Len(s) > 0 <=> Len(s) # 0
  <1>1. (s = <<>> <=> Len(s) = 0) /\ Len(s) \in Nat
    BY EmptySeq DEF List
  <1>2. \A n \in Nat : (n = 0 \/ n = 1 \/ n > 1) /\ (n > 0 <=> n # 0)
    OBVIOUS
  <1> QED BY <1>1, <1>2

\* A command has lists, and something to do.
CmdShape(cmd) ==
    /\ List(cmd.rpcs) /\ List(cmd.steps)
    /\ Len(cmd.rpcs) > 0 \/ Len(cmd.steps) > 0

\* What a command needs to have that shape.
LEMMA CmdShapes ==
    ASSUME NEW r, NEW s, NEW p, List(r), List(s), Len(r) > 0 \/ Len(s) > 0
    PROVE  CmdShape(Cmd(r, s, p))
  BY DEF CmdShape, Cmd

\* The CLI's commands all have it.
LEMMA CommandShape == \A cmd \in Commands : CmdShape(cmd)
  <1> DEFINE Word(w) == w \in Others
             Any(w) == w \in Alone \cup Others
  <1>w. /\ Word("InitIdentity") /\ Word("Whoami") /\ Word("Identity") /\ Word("Read")
        /\ Word("EncryptedKey") /\ Word("PutEncryptedKey") /\ Word("SetIdentity")
        /\ Word("SealTransportKey") /\ Word("ImportBackup") /\ Word("PutTransportKey")
        /\ Word("FeedPage") /\ Word("Unlock") /\ Word("Lock") /\ Word("RotateKey")
        /\ Word("UnlockIfLocked") /\ Word("Subscribe")
    BY DEF Others
  <1>a. Any("Sign") /\ Any("Follow") /\ Any("SignAndAppend") /\ Any("Mark") /\ Any("Stop")
    BY DEF Alone, Writes
  <1>1. CmdShape(Signing) /\ CmdShape(Marking) /\ CmdShape(followCmd)
    BY <1>a, Lists, CmdShapes DEF Signing, Marking, followCmd
  <1>2. \A cmd \in {initCmd, whoamiCmd, feedCmd, followsCmd, followersCmd, keyExportCmd} :
            CmdShape(cmd)
    BY <1>w, Lists, CmdShapes
    DEF initCmd, whoamiCmd, feedCmd, followsCmd, followersCmd, keyExportCmd
  <1>3. \A cmd \in {keyImportCmd, backupExportCmd, backupImportCmd, tuiCmd} : CmdShape(cmd)
    BY <1>w, Lists, CmdShapes DEF keyImportCmd, backupExportCmd, backupImportCmd, tuiCmd
  <1>4. \A cmd \in {daemonUnlockCmd, daemonLockCmd, daemonStopCmd, daemonStatusCmd,
                    zensListCmd, syncCmd, rotateKeyCmd} : CmdShape(cmd)
    BY <1>a, <1>w, Lists, CmdShapes
    DEF daemonUnlockCmd, daemonLockCmd, daemonStopCmd, daemonStatusCmd, zensListCmd,
        syncCmd, rotateKeyCmd
  <1>5. CmdShape(daemonRestartCmd)
    BY <1>4 DEF daemonRestartCmd, CmdShape, daemonStopCmd, Cmd
  <1> QED
    BY <1>1, <1>2, <1>3, <1>4, <1>5
    DEF Commands, postCmd, likeCmd, followCmd, unfollowCmd, profileCmd, detailCmd,
        zensVerifyCmd, zensUnverifyCmd, zensPinCmd, zensUnpinCmd

----------------------------------------------------------------------------
(* The key and the identity in the store.                                  *)

DbShape == db = [key |-> db.key, identity |-> db.identity, transport |-> db.transport]

\* What every step preserves of the store.
DbInv == DbShape /\ IdentityMatchesKey

\* The offline steps: each leaves a key with its own identity or with none.
LEMMA StepKeepsIdentity ==
    ASSUME DbInv, NEW c, NEW step, NEW k, NEW t,
           NEW r, r = StepResult(c, step, k, t), r # Nil
    PROVE  /\ r = [key |-> r.key, identity |-> r.identity, transport |-> r.transport]
           /\ r.identity # Nil => r.identity = r.key
  BY DEF StepResult, InitIdentity, Identity, EncryptedKey, PutEncryptedKey, SetIdentity,
         PutTransportKey, DbInv, DbShape, IdentityMatchesKey

\* The steps that write to the store.
LEMMA NextDbInv == DbInv /\ [Next]_vars => DbInv'
  <1> SUFFICES ASSUME DbInv, [Next]_vars PROVE DbInv'
    OBVIOUS
  <1>1. ASSUME NEW c \in Clients, OfflineStep(c) PROVE DbInv'
    <2>1. \/ Transact(c, Head(cli[c].todo), Nil)
          \/ \E k, t : Transact(c, Head(cli[c].todo), StepResult(c, Head(cli[c].todo), k, t))
      BY <1>1 DEF OfflineStep
    <2>2. \/ db' = db
          \/ \E k, t : db' # Nil /\ db' = StepResult(c, Head(cli[c].todo), k, t)
      BY <2>1 DEF Transact
    <2> QED BY <2>2, StepKeepsIdentity DEF DbInv, DbShape, IdentityMatchesKey
  <1>2. ASSUME NEW c \in Clients, RotateDelete(c) PROVE DbInv'
    BY <1>2 DEF RotateDelete, DeleteTransportKey, DbInv, DbShape, IdentityMatchesKey
  <1>3. ASSUME NEW a \in Daemons \cup Clients, TransportPersist(a) PROVE DbInv'
    BY <1>3 DEF TransportPersist, PutTransportKey, DbInv, DbShape, IdentityMatchesKey
  <1>4. ASSUME UNCHANGED db PROVE DbInv'
    BY <1>4 DEF DbInv, DbShape, IdentityMatchesKey
  <1>5. ASSUME NEW d \in Daemons, Launch(d) \/ MainStep(d) \/ Signal(d) \/ Crash(d)
        PROVE  UNCHANGED db
    BY <1>5 DEF Launch, MainStep, OpenStore, OpenTimeout, Start, StartFails, CloseStore, Exit,
                Signal, Crash, Die, fileVars
  <1>6. ASSUME NEW d \in Daemons, NEW s \in Stoppers, StopStep(d, s) PROVE UNCHANGED db
    BY <1>6 DEF StopStep, StopTake, StopAccepting, StopDrained, StopDeadline, StopListeners,
                StopDone, Die, fileVars
  <1>7. ASSUME NEW a \in Daemons \cup Clients,
               TransportRead(a) \/ TransportListen(a) \/ TransportFails(a)
        PROVE  UNCHANGED db
    BY <1>7 DEF TransportRead, TransportListen, TransportFails, fileVars
  <1>8. ASSUME NEW c \in Clients,
               \/ HandlerFails(c) \/ HandleRead(c) \/ HandleWhoami(c) \/ HandleMark(c)
               \/ HandleUnlock(c) \/ HandleLock(c) \/ HandleSign(c) \/ HandleStop(c)
               \/ RotateClose(c) \/ Answer(c) \/ EndSubscribe(c) \/ AskZen(c) \/ ZenAnswers(c)
        PROVE  UNCHANGED db
    BY <1>8 DEF HandlerFails, HandleRead, HandleWhoami, HandleMark, HandleUnlock, HandleLock,
                HandleSign, HandleStop, RotateClose, Answer, EndSubscribe, AskZen, ZenAnswers,
                fileVars
  <1>9. ASSUME NEW c \in Clients,
               \/ DialClient(c) \/ Call(c) \/ OpenAt(c) \/ CloseAt(c)
               \/ WaitForSocketGone(c) \/ SpawnDetached(c) \/ Interrupt(c)
        PROVE  UNCHANGED db
    BY <1>9 DEF DialClient, Call, OpenAt, CloseAt, WaitForSocketGone, SpawnDetached,
                Interrupt, fileVars
  <1>10. ASSUME NEW c \in Clients, NEW cmd \in Commands, NEW pass \in Pass, Run(c, cmd, pass)
         PROVE  UNCHANGED db
    BY <1>10 DEF Run, fileVars
  <1>11. CASE UNCHANGED vars
    BY <1>4, <1>11 DEF vars, fileVars
  <1> QED
    BY <1>1, <1>2, <1>3, <1>4, <1>5, <1>6, <1>7, <1>8, <1>9, <1>10, <1>11
    DEF Next, TransportStep, HandlerStep, ClientStep

\* The stored identity is the stored key's, for every number of daemons and
\* commands, through imports with a wrong passphrase and interrupted ones
\* (InitIdentity, PutEncryptedKey, SetIdentity).
THEOREM IdentityIsTheKeys == Spec => []IdentityMatchesKey
  <1>1. Init => DbInv
    BY DEF Init, DbInv, DbShape, IdentityMatchesKey
  <1>2. DbInv => IdentityMatchesKey
    BY DEF DbInv
  <1> QED BY <1>1, <1>2, NextDbInv, PTL DEF Spec

----------------------------------------------------------------------------
(* A command writes at most once.                                          *)

\* Where a handler is that is at work or waits for another zen.
InHandler == {"run", "zen"}

\* Command c may still write: it has not yet decided between the daemon and
\* the store, its next call or transaction is a write, or a handler runs for
\* its write.
MayWrite(c) ==
    \/ cli[c].pc \in {"idle", "probe", "open"}
    \/ cli[c].pc \in {"call", "step"} /\ Head(cli[c].todo) \in Writes
    \/ rpc[c].pc \in InHandler /\ rpc[c].op \in Writes

\* The records of a command and of a handler.
CliShape(r) == r = [pc |-> r.pc, cmd |-> r.cmd, pass |-> r.pass, todo |-> r.todo, ok |-> r.ok]

RpcShape(r) == r = [pc |-> r.pc, at |-> r.at, op |-> r.op]

\* Where a command is that has nothing more to ask or to write.
Over == {"gone", "spawn", "ok", "failed"}

\* Of one command: it has written nothing as long as it may still write; a
\* handler that runs for it runs after it decided for the daemon.
ClientInv(c) ==
    /\ CliShape(cli[c]) /\ RpcShape(rpc[c])
    /\ applied[c] \in {0, 1}
    /\ MayWrite(c) => applied[c] = 0
    /\ rpc[c].pc \in InHandler => cli[c].pc \in Over \cup {"wait"}
    /\ cli[c].pc \in {"probe", "call", "wait", "open", "step"}
         => List(cli[c].todo) /\ Len(cli[c].todo) > 0
    /\ cli[c].pc = "probe" => CmdShape(cli[c].cmd)

\* Of all commands: the inductive invariant.
OnceInv ==
    /\ cli = [c \in Clients |-> cli[c]]
    /\ rpc = [c \in Clients |-> rpc[c]]
    /\ applied = [c \in Clients |-> applied[c]]
    /\ \A c \in Clients : ClientInv(c)

\* What most steps do to a client: nothing, or its handler goes on or is over, or
\* the command is.
Quiet(c) ==
    /\ applied'[c] = applied[c]
    /\ \/ rpc'[c] = rpc[c]
       \/ /\ RpcShape(rpc'[c])
          /\ rpc'[c].pc \in InHandler => rpc[c].pc \in InHandler /\ rpc'[c].op = rpc[c].op
          /\ rpc'[c].pc = "run" => rpc[c].pc = "run"
    /\ cli'[c] = cli[c] \/ \E w \in Over : cli'[c] = NewCli(w)

AllQuiet ==
    /\ cli' = [c \in Clients |-> cli'[c]]
    /\ rpc' = [c \in Clients |-> rpc'[c]]
    /\ applied' = [c \in Clients |-> applied'[c]]
    /\ \A c \in Clients : Quiet(c)

\* A client to which nothing more happens keeps its part of the invariant.
LEMMA QuietKeeps == ASSUME NEW c, ClientInv(c), Quiet(c) PROVE ClientInv(c)'
  <1>1. CASE cli'[c] = cli[c]
    BY <1>1 DEF InHandler, ClientInv, Quiet, MayWrite
  <1>2. ASSUME NEW w \in Over, cli'[c] = NewCli(w) PROVE ClientInv(c)'
    <2>1. CliShape(cli'[c]) /\ cli'[c].pc = w
      BY <1>2 DEF NewCli, CliShape
    <2>2. w \notin {"idle", "probe", "call", "wait", "open", "step"}
      BY DEF Over
    <2>3. rpc'[c].pc \in InHandler => rpc[c].pc \in InHandler /\ rpc'[c].op = rpc[c].op
      BY DEF Quiet
    <2> QED BY <2>1, <2>2, <2>3 DEF InHandler, ClientInv, Quiet, MayWrite
  <1> QED BY <1>1, <1>2 DEF Quiet

\* So does the whole, when nothing more happens to any client.
LEMMA AllQuietKeeps == OnceInv /\ AllQuiet => OnceInv'
  BY QuietKeeps DEF OnceInv, AllQuiet

\* A step of one client leaves the others alone.
LEMMA OthersKept ==
    ASSUME NEW c \in Clients, OnceInv,
           NEW cl, NEW rp, NEW ap,
           cli' = [cli EXCEPT ![c] = cl],
           rpc' = [rpc EXCEPT ![c] = rp],
           applied' = [applied EXCEPT ![c] = ap],
           ClientInv(c)'
    PROVE  OnceInv'
  <1>1. \A x \in Clients \ {c} : /\ cli'[x] = cli[x] /\ rpc'[x] = rpc[x]
                                 /\ applied'[x] = applied[x]
    BY DEF OnceInv
  <1>2. \A x \in Clients \ {c} : Quiet(x)
    BY <1>1 DEF Quiet
  <1>3. \A x \in Clients \ {c} : ClientInv(x)'
    BY <1>2, QuietKeeps DEF OnceInv
  <1>4. \A x \in Clients : ClientInv(x)'
    BY <1>3
  <1> QED BY <1>4 DEF OnceInv

\* The end of a daemon and the hard Stop.
LEMMA DieQuiet == ASSUME NEW d, OnceInv, Die(d) PROVE AllQuiet
  <1>1. ASSUME NEW c \in Clients PROVE Quiet(c)
    <2>1. applied'[c] = applied[c]
      BY DEF Die
    <2>2. rpc'[c] = rpc[c] \/ rpc'[c] = NoRpc
      BY DEF Die
    <2>3. cli'[c] = cli[c] \/ cli'[c] = CutOff(c)
      BY DEF Die
    <2> QED BY <2>1, <2>2, <2>3 DEF Quiet, NoRpc, RpcShape, CutOff, Over, InHandler
  <1> QED BY <1>1 DEF AllQuiet, Die, OnceInv

\* The hard Stop cuts connections, it repeats nothing.
LEMMA StopDeadlineQuiet ==
    ASSUME NEW d, NEW s, OnceInv, StopDeadline(d, s) PROVE AllQuiet
  <1>1. ASSUME NEW c \in Clients PROVE Quiet(c)
    <2>1. applied'[c] = applied[c]
      BY DEF StopDeadline
    <2>2. rpc'[c] = rpc[c] \/ rpc'[c] = NoRpc
      BY DEF StopDeadline
    <2>3. cli'[c] = cli[c] \/ cli'[c] = CutOff(c)
      BY DEF StopDeadline
    <2> QED BY <2>1, <2>2, <2>3 DEF Quiet, NoRpc, RpcShape, CutOff, Over, InHandler
  <1> QED BY <1>1 DEF AllQuiet, StopDeadline, OnceInv

\* A handler, or the end of a rotation, answers without a write.
LEMMA ReplyQuiet ==
    ASSUME NEW c \in Clients, NEW how, how # "run", how = "zen" => rpc[c].pc \in InHandler, OnceInv,
           Reply(c, how), UNCHANGED <<cli, applied>>
    PROVE  AllQuiet
  <1>1. rpc'[c] = [rpc[c] EXCEPT !.pc = how] /\ RpcShape(rpc[c])
    BY DEF Reply, OnceInv, ClientInv
  <1>2. RpcShape(rpc'[c]) /\ rpc'[c].pc = how /\ rpc'[c].op = rpc[c].op
    BY <1>1 DEF RpcShape
  <1>3. \A x \in Clients \ {c} : rpc'[x] = rpc[x]
    BY DEF Reply, OnceInv
  <1>4. rpc' = [x \in Clients |-> rpc'[x]]
    BY DEF Reply, OnceInv
  <1> QED BY <1>2, <1>3, <1>4 DEF AllQuiet, Quiet, OnceInv, InHandler

\* The command of c is over.
LEMMA EndCliQuiet ==
    ASSUME NEW c \in Clients, NEW w \in Over, OnceInv, EndCli(c, w), UNCHANGED <<rpc, applied>>
    PROVE  AllQuiet
  <1>1. cli'[c] = NewCli(w) /\ \A x \in Clients \ {c} : cli'[x] = cli[x]
    BY DEF EndCli, OnceInv
  <1>2. cli' = [x \in Clients |-> cli'[x]]
    BY DEF EndCli, OnceInv
  <1> QED BY <1>1, <1>2 DEF AllQuiet, Quiet, OnceInv

\* A step that is no client's business.
LEMMA IdleQuiet == OnceInv /\ UNCHANGED clientVars => AllQuiet
  BY DEF clientVars, AllQuiet, Quiet, OnceInv

\* A handler that writes: its command has written nothing yet.
LEMMA WriteKeeps ==
    ASSUME NEW c \in Clients, NEW how, how \notin InHandler, OnceInv,
           rpc[c].pc \in InHandler, rpc[c].op \in Writes, Reply(c, how), UNCHANGED cli,
           applied' = applied \/ applied' = [applied EXCEPT ![c] = @ + 1]
    PROVE  OnceInv'
  <1>1. CASE applied' = applied
    BY <1>1, ReplyQuiet, AllQuietKeeps DEF InHandler
  <1>2. CASE applied' = [applied EXCEPT ![c] = @ + 1]
    <2>1. /\ ClientInv(c) /\ MayWrite(c) /\ cli[c].pc \in Over \cup {"wait"}
          /\ applied[c] = 0
      BY DEF InHandler, OnceInv, ClientInv, MayWrite
    <2>2. applied'[c] = 1 /\ cli'[c] = cli[c]
      BY <1>2, <2>1 DEF OnceInv
    <2>3. RpcShape(rpc'[c]) /\ rpc'[c].pc = how
      <3>1. rpc'[c] = [rpc[c] EXCEPT !.pc = how] /\ RpcShape(rpc[c])
        BY DEF Reply, OnceInv, ClientInv
      <3> QED BY <3>1 DEF RpcShape
    <2>4. ~ MayWrite(c)'
      BY <2>1, <2>2, <2>3 DEF InHandler, MayWrite, Over
    <2>5. ClientInv(c)'
      BY <2>1, <2>2, <2>3, <2>4 DEF ClientInv, Over
    <2>6. \A x \in Clients \ {c} : /\ cli'[x] = cli[x] /\ rpc'[x] = rpc[x]
                                   /\ applied'[x] = applied[x]
      BY <1>2 DEF Reply, OnceInv
    <2>7. \A x \in Clients \ {c} : ClientInv(x)'
      BY <2>6, QuietKeeps DEF Quiet, OnceInv
    <2>8. \A x \in Clients : ClientInv(x)'
      BY <2>5, <2>7
    <2>9. /\ rpc' = [x \in Clients |-> rpc'[x]] /\ applied' = [x \in Clients |-> applied'[x]]
          /\ cli' = [x \in Clients |-> cli'[x]]
      BY <1>2 DEF Reply, OnceInv
    <2> QED BY <2>8, <2>9 DEF OnceInv
  <1> QED BY <1>1, <1>2

\* The command that is run has everything before it.
LEMMA RunKeeps ==
    ASSUME NEW c \in Clients, NEW cmd \in Commands, NEW pass, OnceInv, Run(c, cmd, pass)
    PROVE  OnceInv'
  <1> DEFINE new == [pc |-> IF cmd.rpcs = <<>> THEN "open" ELSE "probe",
                     cmd |-> cmd, pass |-> pass,
                     todo |-> IF cmd.rpcs = <<>> THEN cmd.steps ELSE cmd.rpcs,
                     ok |-> TRUE]
  <1>1. rpc' = rpc /\ applied' = applied
    BY DEF Run
  <1>2. CASE EndCli(c, "failed")
    BY <1>1, <1>2, EndCliQuiet, AllQuietKeeps DEF Over
  <1>3. CASE cli' = [cli EXCEPT ![c] = new]
    <2>1. CmdShape(cmd)
      BY CommandShape
    <2>2. List(new.todo) /\ Len(new.todo) > 0
      BY <2>1, ListEmpty DEF CmdShape
    <2>3. cli'[c] = new /\ CliShape(new) /\ new.pc \in {"open", "probe"} /\ new.cmd = cmd
      BY <1>3 DEF OnceInv, CliShape
    <2>4. cli[c].pc = "idle" /\ ClientInv(c)
      BY DEF Run, OnceInv
    <2>5. applied[c] = 0 /\ rpc[c].pc \notin InHandler
      BY <2>4 DEF InHandler, ClientInv, MayWrite, Over
    <2> HIDE DEF new
    <2>6. ClientInv(c)'
      BY <1>1, <2>1, <2>2, <2>3, <2>4, <2>5 DEF InHandler, ClientInv, MayWrite
    <2>7. rpc' = [rpc EXCEPT ![c] = rpc[c]] /\ applied' = [applied EXCEPT ![c] = applied[c]]
      BY <1>1 DEF OnceInv
    <2> QED BY <1>3, <2>6, <2>7, OthersKept
  <1> QED BY <1>2, <1>3 DEF Run, EndCli

\* The probe decides between the daemon and the store.
LEMMA DialKeeps ==
    ASSUME NEW c \in Clients, OnceInv, DialClient(c)
    PROVE  OnceInv'
  <1>1. rpc' = rpc /\ applied' = applied
    BY DEF DialClient
  <1>2. /\ cli[c].pc = "probe" /\ ClientInv(c) /\ applied[c] = 0 /\ rpc[c].pc \notin InHandler
        /\ List(cli[c].todo) /\ Len(cli[c].todo) > 0
        /\ CmdShape(cli[c].cmd) /\ CliShape(cli[c])
    BY DEF InHandler, DialClient, OnceInv, ClientInv, MayWrite, Over
  <1>3. rpc' = [rpc EXCEPT ![c] = rpc[c]] /\ applied' = [applied EXCEPT ![c] = applied[c]]
    BY <1>1 DEF OnceInv
  <1>4. CASE SetCli(c, "call")
    <2>1. cli' = [cli EXCEPT ![c] = [cli[c] EXCEPT !.pc = "call"]]
      BY <1>4 DEF SetCli
    <2>2. cli'[c] = [cli[c] EXCEPT !.pc = "call"]
      BY <2>1 DEF OnceInv
    <2>3. CliShape(cli'[c]) /\ cli'[c].pc = "call" /\ cli'[c].todo = cli[c].todo
      BY <1>2, <2>2 DEF CliShape
    <2>4. ClientInv(c)'
      BY <1>1, <1>2, <2>3 DEF InHandler, ClientInv, MayWrite
    <2> QED BY <1>3, <2>1, <2>4, OthersKept
  <1>5. CASE cli' = [cli EXCEPT ![c] = CutOff(c)]
    BY <1>1, <1>5, EndCliQuiet, AllQuietKeeps DEF CutOff, EndCli, Over
  <1>6. CASE /\ cli[c].cmd.steps # <<>>
             /\ cli' = [cli EXCEPT ![c] = [cli[c] EXCEPT !.pc = "open",
                                                         !.todo = cli[c].cmd.steps]]
    <2>1. cli'[c] = [cli[c] EXCEPT !.pc = "open", !.todo = cli[c].cmd.steps]
      BY <1>6 DEF OnceInv
    <2>2. CliShape(cli'[c]) /\ cli'[c].pc = "open" /\ cli'[c].todo = cli[c].cmd.steps
      BY <1>2, <2>1 DEF CliShape
    <2>3. List(cli[c].cmd.steps) /\ Len(cli[c].cmd.steps) > 0
      BY <1>2, <1>6, ListEmpty DEF CmdShape
    <2>4. ClientInv(c)'
      BY <1>1, <1>2, <2>2, <2>3 DEF InHandler, ClientInv, MayWrite
    <2> QED BY <1>3, <1>6, <2>4, OthersKept
  <1> QED BY <1>4, <1>5, <1>6 DEF DialClient

\* The call reaches a daemon, or fails.
LEMMA CallKeeps ==
    ASSUME NEW c \in Clients, OnceInv, Call(c)
    PROVE  OnceInv'
  <1>1. applied' = applied
    BY DEF Call
  <1>2. /\ cli[c].pc = "call" /\ ClientInv(c) /\ CliShape(cli[c])
        /\ List(cli[c].todo) /\ Len(cli[c].todo) > 0
    BY DEF Call, OnceInv, ClientInv
  <1>3. CASE /\ SetCli(c, "wait")
             /\ rpc' = [rpc EXCEPT ![c] = [pc |-> "run", at |-> sock, op |-> Head(cli[c].todo)]]
    <2>1. cli' = [cli EXCEPT ![c] = [cli[c] EXCEPT !.pc = "wait"]]
      BY <1>3 DEF SetCli
    <2>2. cli'[c] = [cli[c] EXCEPT !.pc = "wait"]
      BY <2>1 DEF OnceInv
    <2>3. CliShape(cli'[c]) /\ cli'[c].pc = "wait" /\ cli'[c].todo = cli[c].todo
      BY <1>2, <2>2 DEF CliShape
    <2>4. rpc'[c] = [pc |-> "run", at |-> sock, op |-> Head(cli[c].todo)]
      BY <1>3 DEF OnceInv
    <2>5. RpcShape(rpc'[c]) /\ rpc'[c].op = Head(cli[c].todo)
      BY <2>4 DEF RpcShape
    <2>6. rpc'[c].op \in Writes => MayWrite(c)
      BY <1>2, <2>5 DEF InHandler, MayWrite
    <2>7. ClientInv(c)'
      BY <1>1, <1>2, <2>3, <2>5, <2>6 DEF InHandler, ClientInv, MayWrite
    <2>8. applied' = [applied EXCEPT ![c] = applied[c]]
      BY <1>1 DEF OnceInv
    <2> QED BY <1>3, <2>1, <2>7, <2>8, OthersKept
  <1>4. CASE cli' = [cli EXCEPT ![c] = CutOff(c)] /\ UNCHANGED rpc
    BY <1>1, <1>4, EndCliQuiet, AllQuietKeeps DEF CutOff, EndCli, Over
  <1> QED BY <1>3, <1>4 DEF Call

\* The command gets the store, or fails.
LEMMA OpenKeeps ==
    ASSUME NEW c \in Clients, OnceInv, OpenAt(c)
    PROVE  OnceInv'
  <1>1. rpc' = rpc /\ applied' = applied
    BY DEF OpenAt
  <1>2. /\ cli[c].pc = "open" /\ ClientInv(c) /\ applied[c] = 0 /\ rpc[c].pc \notin InHandler
        /\ List(cli[c].todo) /\ Len(cli[c].todo) > 0 /\ CliShape(cli[c])
    BY DEF InHandler, OpenAt, OnceInv, ClientInv, MayWrite, Over
  <1>3. CASE SetCli(c, "step")
    <2>1. cli' = [cli EXCEPT ![c] = [cli[c] EXCEPT !.pc = "step"]]
      BY <1>3 DEF SetCli
    <2>2. cli'[c] = [cli[c] EXCEPT !.pc = "step"]
      BY <2>1 DEF OnceInv
    <2>3. CliShape(cli'[c]) /\ cli'[c].pc = "step" /\ cli'[c].todo = cli[c].todo
      BY <1>2, <2>2 DEF CliShape
    <2>4. ClientInv(c)'
      BY <1>1, <1>2, <2>3 DEF InHandler, ClientInv, MayWrite
    <2>5. rpc' = [rpc EXCEPT ![c] = rpc[c]] /\ applied' = [applied EXCEPT ![c] = applied[c]]
      BY <1>1 DEF OnceInv
    <2> QED BY <2>1, <2>4, <2>5, OthersKept
  <1>4. CASE EndCli(c, "failed")
    BY <1>1, <1>4, EndCliQuiet, AllQuietKeeps DEF Over
  <1> QED BY <1>3, <1>4 DEF OpenAt

\* An offline transaction: the one that writes is the only one of its command.
LEMMA OfflineKeeps ==
    ASSUME NEW c \in Clients, OnceInv, OfflineStep(c)
    PROVE  OnceInv'
  <1> DEFINE todo == cli[c].todo
  <1>1. /\ cli[c].pc = "step" /\ ClientInv(c) /\ CliShape(cli[c])
        /\ List(todo) /\ Len(todo) > 0 /\ rpc[c].pc \notin InHandler
        /\ Head(todo) \in Writes => applied[c] = 0
        /\ applied[c] \in {0, 1}
    BY DEF InHandler, OfflineStep, OnceInv, ClientInv, MayWrite, Over
  <1>2. PICK new : Transact(c, Head(todo), new)
    BY DEF OfflineStep
  <1> DEFINE last == new = Nil \/ Len(todo) = 1
             where == IF last THEN "close" ELSE "step"
             cl == [pc |-> where, cmd |-> cli[c].cmd, pass |-> cli[c].pass,
                    todo |-> Tail(todo), ok |-> new # Nil]
  <1>3. cli' = [cli EXCEPT ![c] = cl] /\ CliShape(cl) /\ cl.pc = where /\ cl.todo = Tail(todo)
    <2>1. cli' = [cli EXCEPT ![c] = cl]
      BY <1>2 DEF Transact
    <2>2. CliShape(cl) /\ cl.pc = where /\ cl.todo = Tail(todo)
      BY DEF CliShape
    <2> QED BY <2>1, <2>2
  <1> HIDE DEF cl
  <1>4. PICK ap \in {0, 1} :
            /\ applied' = [applied EXCEPT ![c] = ap]
            /\ ap # applied[c] => Head(todo) \in Writes
    <2>1. CASE applied' = applied
      BY <1>1, <2>1 DEF OnceInv
    <2>2. CASE /\ Head(todo) \in {"SignAndAppend", "Mark"}
               /\ applied' = [applied EXCEPT ![c] = @ + 1]
      <3>1. Head(todo) \in Writes /\ applied[c] = 0
        BY <1>1, <2>2 DEF Writes
      <3>2. applied' = [applied EXCEPT ![c] = 1]
        BY <2>2, <3>1 DEF OnceInv
      <3> QED BY <3>1, <3>2
    <2> QED BY <1>2, <2>1, <2>2 DEF Transact
  <1>5. cli'[c] = cl /\ rpc'[c] = rpc[c] /\ applied'[c] = ap
    BY <1>3, <1>4 DEF OfflineStep, OnceInv
  <1>6. ~ last => List(cl.todo) /\ Len(cl.todo) > 0 /\ Head(cl.todo) \notin Writes
    BY <1>1, <1>3, ListEmpty, ListTail
  <1>7. ~ MayWrite(c)'
    BY <1>1, <1>3, <1>5, <1>6 DEF InHandler, MayWrite
  <1>8. ClientInv(c)'
    <2>1. CliShape(cli'[c]) /\ RpcShape(rpc'[c]) /\ applied'[c] \in {0, 1}
      BY <1>1, <1>3, <1>4, <1>5 DEF ClientInv
    <2>2. cli'[c].pc \in {"step", "close"} /\ rpc'[c].pc \notin InHandler
      BY <1>1, <1>3, <1>5
    <2>3. cli'[c].pc = "step" => List(cli'[c].todo) /\ Len(cli'[c].todo) > 0
      BY <1>3, <1>5, <1>6
    <2> QED BY <1>7, <2>1, <2>2, <2>3 DEF ClientInv
  <1>9. rpc' = [rpc EXCEPT ![c] = rpc[c]]
    BY DEF OfflineStep, OnceInv
  <1> QED BY <1>3, <1>4, <1>8, <1>9, OthersKept

\* The answer: the next call of a command with several, none of which writes.
LEMMA AnswerKeeps ==
    ASSUME NEW c \in Clients, OnceInv, Answer(c)
    PROVE  OnceInv'
  <1>1. applied' = applied /\ applied' = [applied EXCEPT ![c] = applied[c]]
    BY DEF Answer, OnceInv
  <1>2. /\ rpc' = [rpc EXCEPT ![c] = NoRpc] /\ rpc'[c] = NoRpc
        /\ RpcShape(NoRpc) /\ NoRpc.pc = "none"
    BY DEF Answer, NoRpc, RpcShape, OnceInv
  <1>3. ClientInv(c)
    BY DEF OnceInv
  <1>4. CASE cli' = cli
    <2>1. cli' = [cli EXCEPT ![c] = cli[c]]
      BY <1>4 DEF OnceInv
    <2>2. ClientInv(c)'
      BY <1>1, <1>2, <1>3, <1>4, QuietKeeps DEF Quiet, InHandler
    <2> QED BY <1>1, <1>2, <2>1, <2>2, OthersKept
  <1>5. ASSUME NEW w \in Over, cli' = [cli EXCEPT ![c] = NewCli(w)] PROVE OnceInv'
    <2>1. cli'[c] = NewCli(w)
      BY <1>5 DEF OnceInv
    <2>2. ClientInv(c)'
      BY <1>1, <1>2, <1>3, <2>1, QuietKeeps DEF Quiet, InHandler
    <2> QED BY <1>1, <1>2, <1>5, <2>2, OthersKept
  <1>6. CASE /\ cli[c].pc = "wait" /\ Len(cli[c].todo) > 1
             /\ cli' = [cli EXCEPT ![c] = [cli[c] EXCEPT !.pc = "call", !.todo = Tail(@)]]
    <2>1. CliShape(cli[c]) /\ List(cli[c].todo)
      BY <1>3, <1>6 DEF ClientInv
    <2>2. cli'[c] = [cli[c] EXCEPT !.pc = "call", !.todo = Tail(cli[c].todo)]
      BY <1>6, <2>1 DEF OnceInv, CliShape
    <2>3. CliShape(cli'[c]) /\ cli'[c].pc = "call" /\ cli'[c].todo = Tail(cli[c].todo)
      BY <2>1, <2>2 DEF CliShape
    <2>4. List(cli'[c].todo) /\ Len(cli'[c].todo) > 0 /\ Head(cli'[c].todo) \notin Writes
      BY <1>6, <2>1, <2>3, ListTail
    <2>5. ClientInv(c)'
      BY <1>1, <1>2, <1>3, <2>3, <2>4 DEF InHandler, ClientInv, MayWrite
    <2> QED BY <1>1, <1>2, <1>6, <2>5, OthersKept
  <1> QED
    BY <1>4, <1>5, <1>6 DEF Answer, CutOff, Over

\* Every step, action by action.
LEMMA NextOnceInv == OnceInv /\ [Next]_vars => OnceInv'
  <1> SUFFICES ASSUME OnceInv, [Next]_vars PROVE OnceInv'
    OBVIOUS
  <1>q. AllQuiet => OnceInv'
    BY AllQuietKeeps
  <1>i. UNCHANGED clientVars => OnceInv'
    BY <1>q, IdleQuiet
  <1>1. ASSUME NEW d \in Daemons, Launch(d) \/ MainStep(d) \/ Signal(d) \/ Crash(d)
        PROVE  OnceInv'
    <2>1. CASE Exit(d) \/ Crash(d)
      BY <1>q, <2>1, DieQuiet DEF Exit, Crash
    <2>2. CASE \/ Launch(d) \/ Signal(d) \/ OpenStore(d) \/ OpenTimeout(d) \/ Start(d)
               \/ StartFails(d) \/ CloseStore(d)
      BY <1>i, <2>2 DEF Launch, OpenStore, OpenTimeout, Start, StartFails, CloseStore, Signal
    <2> QED BY <1>1, <2>1, <2>2 DEF MainStep
  <1>2. ASSUME NEW d \in Daemons, NEW s \in Stoppers, StopStep(d, s) PROVE OnceInv'
    <2>1. CASE StopDeadline(d, s)
      BY <1>q, <2>1, StopDeadlineQuiet
    <2>2. CASE StopDone(d, s)
      BY <1>i, <1>q, <2>2, DieQuiet DEF StopDone
    <2>3. CASE \/ StopTake(d, s) \/ StopAccepting(d, s) \/ StopDrained(d, s)
               \/ StopListeners(d, s)
      BY <1>i, <2>3 DEF StopTake, StopAccepting, StopDrained, StopListeners
    <2> QED BY <1>2, <2>1, <2>2, <2>3 DEF StopStep
  <1>3. ASSUME NEW a \in Daemons \cup Clients, NEW ok \in BOOLEAN, TransportDone(a, ok),
               UNCHANGED <<cli, applied>>
        PROVE  OnceInv'
    <2>1. CASE a \in Daemons
      BY <1>3, <1>i, <2>1 DEF TransportDone, clientVars
    <2>2. CASE a \notin Daemons
      BY <1>3, <1>q, <2>2, ReplyQuiet DEF TransportDone, Reply, InHandler
    <2> QED BY <2>1, <2>2
  <1>4. ASSUME NEW a \in Daemons \cup Clients, TransportStep(a) PROVE OnceInv'
    <2>1. CASE TransportRead(a)
      BY <1>i, <2>1 DEF TransportRead
    <2>2. CASE TransportListen(a)
      BY <1>3, <1>i, <2>2 DEF TransportListen, clientVars
    <2>3. CASE TransportFails(a) \/ TransportPersist(a)
      BY <1>3, <2>3 DEF TransportFails, TransportPersist
    <2> QED BY <1>4, <2>1, <2>2, <2>3 DEF TransportStep
  <1>5. ASSUME NEW c \in Clients, HandlerStep(c) \/ EndSubscribe(c) \/ ZenAnswers(c) PROVE OnceInv'
    <2>1. CASE HandlerFails(c) \/ HandleRead(c) \/ HandleWhoami(c) \/ EndSubscribe(c)
      BY <1>q, <2>1, ReplyQuiet
      DEF HandlerFails, HandleRead, HandleWhoami, EndSubscribe, InHandler
    <2>2. CASE HandleUnlock(c) \/ HandleLock(c) \/ HandleStop(c)
      BY <1>q, <2>2, ReplyQuiet DEF HandleUnlock, HandleLock, HandleStop, InHandler
    <2>3. CASE HandleMark(c)
      BY <2>3, WriteKeeps DEF HandleMark, Handling, InHandler, Writes
    <2>4. CASE HandleSign(c)
      BY <2>4, WriteKeeps DEF HandleSign, Handling, InHandler, Writes
    <2>5. CASE RotateClose(c)
      BY <1>i, <2>5 DEF RotateClose
    <2>6. CASE RotateDelete(c)
      BY <1>3, <1>i, <2>6 DEF RotateDelete, clientVars
    <2>7. CASE Answer(c)
      BY <2>7, AnswerKeeps
    <2>8. CASE AskZen(c)
      <3>1. /\ rpc[c].pc \in InHandler /\ UNCHANGED <<cli, applied>>
            /\ \E how \in {"err", "zen"} : Reply(c, how)
        BY <2>8 DEF AskZen, Handling, InHandler
      <3> QED BY <1>q, <3>1, ReplyQuiet
    <2>9. CASE ZenAnswers(c)
      <3>1. /\ rpc[c].pc \in InHandler /\ UNCHANGED cli
            /\ \E how \in {"ok", "err"} : Reply(c, how)
            /\ \/ UNCHANGED applied
               \/ rpc[c].op = "Follow" /\ applied' = [applied EXCEPT ![c] = @ + 1]
        BY <2>9 DEF ZenAnswers, InHandler
      <3>2. CASE UNCHANGED applied
        BY <1>q, <3>1, <3>2, ReplyQuiet
      <3>3. CASE rpc[c].op = "Follow" /\ applied' = [applied EXCEPT ![c] = @ + 1]
        BY <3>1, <3>3, WriteKeeps DEF InHandler, Writes
      <3> QED BY <3>1, <3>2, <3>3
    <2> QED BY <1>5, <2>1, <2>2, <2>3, <2>4, <2>5, <2>6, <2>7, <2>8, <2>9 DEF HandlerStep
  <1>6. ASSUME NEW c \in Clients, ClientStep(c) \/ Interrupt(c) PROVE OnceInv'
    <2>1. CASE DialClient(c) \/ Call(c) \/ OpenAt(c) \/ OfflineStep(c)
      BY <2>1, DialKeeps, CallKeeps, OpenKeeps, OfflineKeeps
    <2>2. CASE CloseAt(c) \/ WaitForSocketGone(c) \/ SpawnDetached(c) \/ Interrupt(c)
      BY <1>q, <2>2, EndCliQuiet
      DEF CloseAt, WaitForSocketGone, SpawnDetached, Interrupt, Over
    <2> QED BY <1>6, <2>1, <2>2 DEF ClientStep
  <1>7. ASSUME NEW c \in Clients, NEW cmd \in Commands, NEW pass \in Pass, Run(c, cmd, pass)
        PROVE  OnceInv'
    BY <1>7, RunKeeps
  <1>8. CASE UNCHANGED vars
    BY <1>i, <1>8 DEF vars
  <1> QED BY <1>1, <1>2, <1>4, <1>5, <1>6, <1>7, <1>8 DEF Next

\* Before a command is run it has written nothing.
LEMMA InitOnceInv == Init => OnceInv
  <1> SUFFICES ASSUME Init PROVE OnceInv
    OBVIOUS
  <1>1. ASSUME NEW c \in Clients PROVE ClientInv(c)
    BY DEF InHandler, Init, ClientInv, CliShape, RpcShape, MayWrite, NewCli, NoRpc
  <1> QED BY <1>1 DEF Init, OnceInv

\* A command writes at most once, for every number of daemons and commands:
\* neither the hard Stop, nor a daemon's death, nor an interrupt, nor the
\* socket that changes hands between the probe and the call makes a command
\* whose write was sent do it again on the store (DialClient, Call, OfflineStep).
THEOREM CommandsWriteOnce == Spec => []AppliedOnce
  <1>1. OnceInv => AppliedOnce
    BY DEF OnceInv, ClientInv, AppliedOnce
  <1> QED BY <1>1, InitOnceInv, NextOnceInv, PTL DEF Spec

----------------------------------------------------------------------------
(* The key in a daemon's memory.                                           *)

DaemonShape(r) == r = [srv |-> r.srv, tc |-> r.tc, unlocked |-> r.unlocked, done |-> r.done]

\* A daemon that has not opened the store has no key and not the lock.
DaemonInv(d) ==
    /\ DaemonShape(daemon[d])
    /\ main[d] \in {"off", "open"} => daemon[d].unlocked = Nil /\ lock # d
    /\ lock = d /\ daemon[d].unlocked # Nil => daemon[d].unlocked = db.key

\* The inductive invariant: and who works on the store file has its lock.
KeyInv ==
    /\ main = [d \in Daemons |-> main[d]]
    /\ daemon = [d \in Daemons |-> daemon[d]]
    /\ \A d \in Daemons : DaemonInv(d)
    /\ \A c \in Clients : cli[c].pc \in InStore => lock = c

\* A daemon keeps its key, forgets it, or takes the one in the store it has
\* open.
KeyStep(d) ==
    /\ DaemonShape(daemon'[d])
    /\ \/ daemon'[d].unlocked \in {daemon[d].unlocked, Nil}
       \/ lock = d /\ daemon'[d].unlocked = db.key

\* main never goes back.
MainMoves(d) ==
    main'[d] \in {"off", "open"} => main[d] \in {"off", "open"}

\* A step of that kind keeps a daemon's part, if the stored key stays.
LEMMA DaemonKept ==
    ASSUME NEW d \in Daemons, DaemonInv(d), KeyStep(d), MainMoves(d),
           db'.key = db.key, lock' = lock \/ lock' \notin Daemons
    PROVE  DaemonInv(d)'
  BY DEF DaemonInv, KeyStep, MainMoves

\* Fields other than the key.
LEMMA FieldKept ==
    ASSUME KeyInv, NEW x, NEW v,
           SetField(x, "srv", v) \/ SetField(x, "tc", v) \/ SetField(x, "done", v)
    PROVE  daemon' = [d \in Daemons |-> daemon'[d]] /\ \A d \in Daemons : KeyStep(d)
  <1>1. daemon' = [d \in Daemons |-> daemon'[d]]
    BY DEF SetField, KeyInv
  <1>2. ASSUME NEW d \in Daemons PROVE KeyStep(d)
    <2>1. DaemonShape(daemon[d])
      BY DEF KeyInv, DaemonInv
    <2>2. CASE daemon'[d] = daemon[d]
      BY <2>1, <2>2 DEF KeyStep
    <2>3. CASE daemon'[d] = [daemon[d] EXCEPT !["srv"] = v]
      BY <2>1, <2>3 DEF KeyStep, DaemonShape
    <2>4. CASE daemon'[d] = [daemon[d] EXCEPT !["tc"] = v]
      BY <2>1, <2>4 DEF KeyStep, DaemonShape
    <2>5. CASE daemon'[d] = [daemon[d] EXCEPT !["done"] = v]
      BY <2>1, <2>5 DEF KeyStep, DaemonShape
    <2> QED BY <2>2, <2>3, <2>4, <2>5 DEF SetField, KeyInv
  <1> QED BY <1>1, <1>2

\* The key itself.
LEMMA UnlockedSet ==
    ASSUME KeyInv, NEW x, NEW k, SetField(x, "unlocked", k),
           x \in Daemons => \/ k \in {daemon[x].unlocked, Nil}
                            \/ lock = x /\ k = db.key
    PROVE  daemon' = [d \in Daemons |-> daemon'[d]] /\ \A d \in Daemons : KeyStep(d)
  <1>1. daemon' = [d \in Daemons |-> daemon'[d]]
    BY DEF SetField, KeyInv
  <1>2. ASSUME NEW d \in Daemons PROVE KeyStep(d)
    <2>1. DaemonShape(daemon[d])
      BY DEF KeyInv, DaemonInv
    <2>2. CASE d # x
      BY <2>1, <2>2 DEF KeyStep, SetField, KeyInv
    <2>3. CASE d = x
      <3>1. daemon'[d] = [daemon[d] EXCEPT !["unlocked"] = k]
        BY <2>3 DEF SetField, KeyInv
      <3>2. DaemonShape(daemon'[d]) /\ daemon'[d].unlocked = k
        BY <2>1, <3>1 DEF DaemonShape
      <3> QED BY <2>3, <3>2 DEF KeyStep
    <2> QED BY <2>2, <2>3
  <1> QED BY <1>1, <1>2

\* A step that leaves the daemons' fields alone.
LEMMA DaemonSame ==
    ASSUME KeyInv, daemon' = daemon
    PROVE  daemon' = [d \in Daemons |-> daemon'[d]] /\ \A d \in Daemons : KeyStep(d)
  BY DEF KeyInv, KeyStep, DaemonInv

\* A step of main, which leaves "off" once.
LEMMA MainSet ==
    ASSUME KeyInv, NEW x, NEW w, SetMain(x, w),
           w \notin {"off", "open"} \/ main[x] = "off"
    PROVE  main' = [d \in Daemons |-> main'[d]] /\ \A d \in Daemons : MainMoves(d)
  BY DEF SetMain, KeyInv, MainMoves

\* A step that leaves main alone.
LEMMA MainSame ==
    ASSUME KeyInv, main' = main
    PROVE  main' = [d \in Daemons |-> main'[d]] /\ \A d \in Daemons : MainMoves(d)
  BY DEF KeyInv, MainMoves

\* No command gets into the store.
CliKept == \A c \in Clients : cli'[c] = cli[c] \/ cli'[c].pc \notin InStore

\* What most steps do to main and to the daemons' fields.
MainOk == main' = [d \in Daemons |-> main'[d]] /\ \A d \in Daemons : MainMoves(d)

DaemonOk == daemon' = [d \in Daemons |-> daemon'[d]] /\ \A d \in Daemons : KeyStep(d)

\* The steps in which no store is opened and no command writes to it.
LEMMA KeyKept ==
    ASSUME KeyInv, MainOk, DaemonOk, CliKept, db'.key = db.key,
           lock' = lock \/ (lock \in Daemons /\ lock' = Nil)
    PROVE  KeyInv'
  <1>1. \A d \in Daemons : DaemonInv(d)'
    BY DaemonKept, ControlAssumption DEF KeyInv, MainOk, DaemonOk
  <1>2. \A c \in Clients : cli'[c].pc \in InStore => lock' = c
    BY ControlAssumption DEF KeyInv, CliKept
  <1> QED BY <1>1, <1>2 DEF KeyInv, MainOk, DaemonOk

\* A step that leaves the commands alone.
LEMMA CliSame == cli' = cli => CliKept
  BY DEF CliKept

\* A command that is over is not in the store.
LEMMA QuietKept == AllQuiet => CliKept
  <1> SUFFICES ASSUME AllQuiet, NEW c \in Clients
               PROVE  cli'[c] = cli[c] \/ cli'[c].pc \notin InStore
    BY DEF CliKept
  <1>1. ASSUME NEW w \in Over, cli'[c] = NewCli(w) PROVE cli'[c].pc \notin InStore
    BY <1>1 DEF NewCli, InStore, Over
  <1> QED BY <1>1 DEF AllQuiet, Quiet

\* A command that moves on to anywhere else.
LEMMA OneCliKept ==
    ASSUME OnceInv, NEW c \in Clients, NEW cl, cli' = [cli EXCEPT ![c] = cl], cl.pc \notin InStore
    PROVE  CliKept
  BY DEF OnceInv, CliKept

\* The end of a process.
LEMMA DieKeeps ==
    ASSUME OnceInv, KeyInv, NEW d \in Daemons, Die(d)
    PROVE  KeyInv'
  <1>1. MainOk
    BY MainSet DEF Die, MainOk
  <1>2. DaemonOk
    <2>1. \A x \in Daemons : daemon'[x] = daemon[x] \/ daemon'[x] = NewDaemon
      BY DEF Die, KeyInv
    <2>2. \A x \in Daemons : KeyStep(x)
      BY <2>1 DEF KeyStep, KeyInv, DaemonInv, NewDaemon, DaemonShape
    <2> QED BY <2>2 DEF DaemonOk, Die, KeyInv
  <1>3. CliKept
    BY DieQuiet, QuietKept
  <1>4. lock' = lock \/ (lock \in Daemons /\ lock' = Nil)
    BY DEF Die
  <1> QED BY <1>1, <1>2, <1>3, <1>4, KeyKept DEF Die

\* The store is opened: there was no key in memory, and the one asked for is
\* the one in the store.
LEMMA OpenStoreKeeps ==
    ASSUME KeyInv, NEW d \in Daemons, OpenStore(d)
    PROVE  KeyInv'
  <1>1. /\ lock = Nil /\ lock' = d /\ db' = db /\ cli' = cli
        /\ DaemonShape(daemon[d]) /\ daemon[d].unlocked = Nil
    BY DEF OpenStore, KeyInv, DaemonInv, clientVars
  <1>2. MainOk /\ main'[d] \notin {"off", "open"}
    BY MainSet DEF OpenStore, MainOk, SetMain, KeyInv
  <1>3. CASE daemon' = daemon
    <2>1. ASSUME NEW x \in Daemons PROVE DaemonInv(x)'
      BY <1>1, <1>2, <1>3 DEF DaemonInv, KeyInv, MainOk, MainMoves
    <2>2. \A c \in Clients : cli[c].pc \notin InStore
      BY <1>1, ControlAssumption DEF KeyInv
    <2> QED BY <1>1, <1>2, <1>3, <2>1, <2>2 DEF KeyInv, MainOk
  <1>4. CASE SetField(d, "unlocked", db.key)
    <2>1. daemon'[d] = [daemon[d] EXCEPT !["unlocked"] = db.key]
      BY <1>4 DEF SetField, KeyInv
    <2>2. DaemonShape(daemon'[d]) /\ daemon'[d].unlocked = db.key
      BY <1>1, <2>1 DEF DaemonShape
    <2>3. \A x \in Daemons \ {d} : daemon'[x] = daemon[x]
      BY <1>4 DEF SetField, KeyInv
    <2>4. DaemonInv(d)'
      BY <1>1, <1>2, <2>2 DEF DaemonInv
    <2>5. \A x \in Daemons \ {d} : DaemonInv(x)'
      BY <1>1, <1>2, <2>3 DEF DaemonInv, KeyInv, MainOk, MainMoves
    <2>6. \A c \in Clients : cli[c].pc \notin InStore
      BY <1>1, ControlAssumption DEF KeyInv
    <2>7. daemon' = [x \in Daemons |-> daemon'[x]]
      BY <1>4 DEF SetField, KeyInv
    <2> QED BY <1>1, <1>2, <2>4, <2>5, <2>6, <2>7 DEF KeyInv, MainOk
  <1> QED BY <1>3, <1>4 DEF OpenStore

\* A command gets the store, which no daemon then has.
LEMMA OpenAtKeeps ==
    ASSUME OnceInv, KeyInv, NEW c \in Clients, OpenAt(c)
    PROVE  KeyInv'
  <1>1. UNCHANGED <<db, main, daemon>>
    BY DEF OpenAt, daemonVars
  <1>2. CASE lock # Nil
    <2>1. CliKept
      BY <1>2, EndCliQuiet, QuietKept DEF OpenAt, Over
    <2>2. lock' = lock
      BY <1>2 DEF OpenAt
    <2> QED BY <1>1, <2>1, <2>2, KeyKept, MainSame, DaemonSame DEF MainOk, DaemonOk
  <1>3. CASE lock = Nil
    <2>1. lock' = c /\ c \notin Daemons
      BY <1>3, ControlAssumption DEF OpenAt
    <2>2. \A d \in Daemons : DaemonInv(d)'
      BY <1>1, <2>1 DEF DaemonInv, KeyInv
    <2>3. \A x \in Clients \ {c} : cli'[x] = cli[x] /\ cli[x].pc \notin InStore
      BY <1>3, ControlAssumption DEF OpenAt, SetCli, KeyInv, OnceInv
    <2> QED BY <1>1, <2>1, <2>2, <2>3 DEF KeyInv
  <1> QED BY <1>2, <1>3

\* A command that writes to the store has the lock, so no daemon has it.
LEMMA OfflineKey ==
    ASSUME OnceInv, KeyInv, NEW c \in Clients, OfflineStep(c)
    PROVE  KeyInv'
  <1>1. UNCHANGED <<lock, main, daemon>> /\ cli[c].pc = "step"
    BY DEF OfflineStep, daemonVars
  <1>2. lock = c /\ lock \notin Daemons
    BY <1>1, ControlAssumption DEF KeyInv, InStore
  <1>3. \A d \in Daemons : DaemonInv(d)'
    BY <1>1, <1>2 DEF DaemonInv, KeyInv
  <1>4. \A x \in Clients \ {c} : cli'[x] = cli[x]
    BY DEF OfflineStep, Transact, OnceInv
  <1> QED BY <1>1, <1>2, <1>3, <1>4 DEF KeyInv

\* A command that is over gives the lock up.
LEMMA CloseKey ==
    ASSUME OnceInv, KeyInv, NEW c \in Clients, NEW w \in Over, EndCli(c, w),
           lock' = lock \/ (lock = c /\ lock' = Nil), UNCHANGED <<db, main, daemon>>
    PROVE  KeyInv'
  <1>1. \A d \in Daemons : DaemonInv(d)'
    BY ControlAssumption DEF DaemonInv, KeyInv
  <1>2. cli'[c].pc \notin InStore /\ \A x \in Clients \ {c} : cli'[x] = cli[x]
    BY DEF EndCli, NewCli, OnceInv, Over, InStore
  <1>3. \A x \in Clients : cli'[x].pc \in InStore => lock' = x
    BY <1>2 DEF KeyInv
  <1> QED BY <1>1, <1>3 DEF KeyInv

\* The handlers that change the key: what they put there is the stored key, or
\* what was there.
LEMMA HandlersKey ==
    ASSUME KeyInv, NEW c \in Clients,
           HandleUnlock(c) \/ HandleSign(c) \/ HandleLock(c) \/ AskZen(c)
    PROVE  DaemonOk
  <1> DEFINE d == rpc[c].at
  <1>1. Decrypt(c) = Nil \/ (lock = d /\ Decrypt(c) = db.key)
    BY DEF Decrypt, StoreOpen
  <1>2. CASE HandleUnlock(c)
    <2>1. PICK k : /\ k = daemon[d].unlocked \/ k = Decrypt(c)
                   /\ daemon' = daemon \/ SetField(d, "unlocked", k)
      BY <1>2 DEF HandleUnlock
    <2> QED BY <1>1, <2>1, DaemonSame, UnlockedSet DEF DaemonOk
  <1>3. CASE HandleSign(c) \/ AskZen(c)
    <2>1. PICK idle \in BOOLEAN : daemon' = daemon \/ SetField(d, "unlocked", signingKey(c, idle))
      BY <1>3 DEF HandleSign, AskZen, KeepKey
    <2>2. signingKey(c, idle) \in {Decrypt(c), Nil, daemon[d].unlocked}
      BY DEF signingKey
    <2> QED BY <1>1, <2>1, <2>2, DaemonSame, UnlockedSet DEF DaemonOk
  <1>4. CASE HandleLock(c)
    BY <1>4, UnlockedSet DEF HandleLock, DaemonOk
  <1> QED BY <1>2, <1>3, <1>4

\* Every step, action by action.
LEMMA NextKeyInv == OnceInv /\ DbInv /\ KeyInv /\ [Next]_vars => KeyInv'
  <1> SUFFICES ASSUME OnceInv, DbInv, KeyInv, [Next]_vars PROVE KeyInv'
    OBVIOUS
  <1>m. main' = main => MainOk
    BY MainSame DEF MainOk
  <1>d. daemon' = daemon => DaemonOk
    BY DaemonSame DEF DaemonOk
  <1>1. ASSUME NEW d \in Daemons, Launch(d) \/ MainStep(d) \/ Signal(d) \/ Crash(d)
        PROVE  KeyInv'
    <2>1. CASE Exit(d) \/ Crash(d)
      BY <2>1, DieKeeps DEF Exit, Crash
    <2>2. CASE OpenStore(d)
      BY <2>2, OpenStoreKeeps
    <2>3. CASE Start(d)
      <3>1. MainOk /\ DaemonOk
        BY <2>3, MainSet, FieldKept DEF Start, MainOk, DaemonOk
      <3> QED BY <2>3, <3>1, CliSame, KeyKept DEF Start, clientVars
    <2>4. CASE Launch(d) \/ OpenTimeout(d) \/ StartFails(d) \/ Signal(d) \/ CloseStore(d)
      <3>1. MainOk
        BY <2>4, MainSet DEF Launch, OpenTimeout, StartFails, Signal, CloseStore, MainOk
      <3>2. UNCHANGED <<db, daemon, cli>>
        BY <2>4 DEF Launch, OpenTimeout, StartFails, Signal, CloseStore, clientVars, fileVars
      <3>3. lock' = lock \/ (lock = d /\ lock' = Nil)
        BY <2>4 DEF Launch, OpenTimeout, StartFails, Signal, CloseStore, fileVars
      <3> QED BY <1>d, <3>1, <3>2, <3>3, CliSame, KeyKept
    <2> QED BY <1>1, <2>1, <2>2, <2>3, <2>4 DEF MainStep
  <1>2. ASSUME NEW d \in Daemons, NEW s \in Stoppers, StopStep(d, s) PROVE KeyInv'
    <2>1. CASE StopDeadline(d, s)
      BY <1>d, <1>m, <2>1, StopDeadlineQuiet, QuietKept, KeyKept DEF StopDeadline, fileVars
    <2>2. CASE StopDone(d, s) /\ Die(d)
      BY <2>2, DieKeeps
    <2>3. CASE StopDone(d, s) /\ ~ Die(d)
      <3>1. SetField(d, "done", TRUE) /\ UNCHANGED <<fileVars, main, clientVars>>
        BY <2>3 DEF StopDone
      <3>2. DaemonOk
        BY <3>1, FieldKept DEF DaemonOk
      <3> QED BY <1>m, <3>1, <3>2, CliSame, KeyKept DEF fileVars, clientVars
    <2>4. CASE StopTake(d, s)
      <3>1. \A x \in Daemons : \/ daemon'[x] = daemon[x]
                               \/ daemon'[x] = [NewDaemon EXCEPT !.done = daemon[d].done]
        BY <2>4 DEF StopTake, KeyInv
      <3>2. \A x \in Daemons : KeyStep(x)
        BY <3>1 DEF KeyStep, KeyInv, DaemonInv, NewDaemon, DaemonShape
      <3>3. DaemonOk
        BY <2>4, <3>2 DEF StopTake, DaemonOk, KeyInv
      <3> QED BY <1>m, <2>4, <3>3, CliSame, KeyKept DEF StopTake, fileVars, clientVars
    <2>5. CASE StopAccepting(d, s) \/ StopDrained(d, s) \/ StopListeners(d, s)
      BY <1>d, <1>m, <2>5, CliSame, KeyKept
      DEF StopAccepting, StopDrained, StopListeners, fileVars, clientVars
    <2> QED BY <1>2, <2>1, <2>2, <2>3, <2>4, <2>5 DEF StopStep
  <1>3. ASSUME NEW a \in Daemons \cup Clients, NEW ok \in BOOLEAN, TransportDone(a, ok)
        PROVE  MainOk
    BY <1>3, <1>m, MainSet DEF TransportDone, MainOk
  <1>4. ASSUME NEW a \in Daemons \cup Clients, TransportStep(a) PROVE KeyInv'
    <2>1. MainOk
      BY <1>3, <1>4, <1>m
      DEF TransportStep, TransportRead, TransportListen, TransportFails, TransportPersist
    <2>2. DaemonOk
      BY <1>4, <1>d, FieldKept
      DEF TransportStep, TransportRead, TransportListen, TransportFails, TransportPersist, DaemonOk
    <2>3. UNCHANGED <<lock, cli>>
      BY <1>4 DEF TransportStep, TransportRead, TransportListen, TransportFails,
                  TransportPersist, fileVars, clientVars
    <2>4. db'.key = db.key
      BY <1>4 DEF TransportStep, TransportRead, TransportListen, TransportFails,
                  TransportPersist, PutTransportKey, DbInv, DbShape, fileVars
    <2> QED BY <2>1, <2>2, <2>3, <2>4, CliSame, KeyKept
  <1>5. ASSUME NEW c \in Clients, HandlerStep(c) \/ EndSubscribe(c) \/ ZenAnswers(c) PROVE KeyInv'
    <2>1. CASE HandleUnlock(c) \/ HandleSign(c) \/ HandleLock(c) \/ AskZen(c)
      BY <1>m, <2>1, HandlersKey, CliSame, KeyKept
      DEF HandleUnlock, HandleSign, HandleLock, AskZen, fileVars
    <2>2. CASE \/ HandlerFails(c) \/ HandleRead(c) \/ HandleWhoami(c) \/ HandleMark(c)
               \/ HandleStop(c) \/ EndSubscribe(c) \/ RotateClose(c) \/ ZenAnswers(c)
      <3>1. UNCHANGED <<fileVars, main, daemon, cli>>
        BY <2>2 DEF HandlerFails, HandleRead, HandleWhoami, HandleMark, HandleStop,
                    EndSubscribe, RotateClose, ZenAnswers, daemonVars, clientVars
      <3> QED BY <1>d, <1>m, <3>1, CliSame, KeyKept DEF fileVars
    <2>3. CASE RotateDelete(c)
      <3>1. MainOk /\ UNCHANGED <<lock, daemon, cli>>
        BY <1>3, <1>m, <2>3 DEF RotateDelete
      <3>2. db'.key = db.key
        BY <2>3 DEF RotateDelete, DeleteTransportKey, DbInv, DbShape
      <3> QED BY <1>d, <3>1, <3>2, CliSame, KeyKept
    <2>4. CASE Answer(c)
      <3>1. CliKept
        <4>1. CliShape(cli[c])
          BY DEF OnceInv, ClientInv
        <4>2. \/ cli' = cli \/ \E w \in Over : cli' = [cli EXCEPT ![c] = NewCli(w)]
              \/ cli' = [cli EXCEPT ![c] = [cli[c] EXCEPT !.pc = "call", !.todo = Tail(@)]]
          BY <2>4 DEF Answer, CutOff, Over
        <4>3. \A w \in Over : NewCli(w).pc \notin InStore
          BY DEF NewCli, Over, InStore
        <4>4. [cli[c] EXCEPT !.pc = "call", !.todo = Tail(@)].pc \notin InStore
          BY <4>1 DEF CliShape, InStore
        <4> QED BY <4>2, <4>3, <4>4, CliSame, OneCliKept
      <3> QED BY <1>d, <1>m, <2>4, <3>1, KeyKept DEF Answer, fileVars, daemonVars
    <2> QED BY <1>5, <2>1, <2>2, <2>3, <2>4 DEF HandlerStep
  <1>6. ASSUME NEW c \in Clients, ClientStep(c) \/ Interrupt(c) PROVE KeyInv'
    <2>1. CASE OpenAt(c) \/ OfflineStep(c)
      BY <2>1, OpenAtKeeps, OfflineKey
    <2>2. CASE CloseAt(c) \/ Interrupt(c)
      <3>1. CASE CloseAt(c)
        <4>1. lock = c
          BY <3>1 DEF CloseAt, KeyInv, InStore
        <4> QED BY <3>1, <4>1, CloseKey DEF CloseAt, daemonVars, Over
      <3>2. CASE Interrupt(c)
        BY <3>2, CloseKey DEF Interrupt, daemonVars, Over
      <3> QED BY <2>2, <3>1, <3>2
    <2>3. CASE WaitForSocketGone(c)
      BY <2>3, CloseKey DEF WaitForSocketGone, daemonVars, fileVars, Over
    <2>4. CASE SpawnDetached(c)
      <3>1. MainOk
        BY <2>4, <1>m, MainSet DEF SpawnDetached, MainOk
      <3>2. CliKept
        BY <2>4, EndCliQuiet, QuietKept DEF SpawnDetached, Over
      <3> QED BY <1>d, <2>4, <3>1, <3>2, KeyKept DEF SpawnDetached, fileVars
    <2>5. CASE DialClient(c)
      <3>1. CliShape(cli[c])
        BY DEF OnceInv, ClientInv
      <3>2. CASE SetCli(c, "call")
        <4>1. cli' = [cli EXCEPT ![c] = [cli[c] EXCEPT !.pc = "call"]]
          BY <3>2 DEF SetCli
        <4>2. [cli[c] EXCEPT !.pc = "call"].pc \notin InStore
          BY <3>1 DEF CliShape, InStore
        <4> QED BY <1>d, <1>m, <2>5, <4>1, <4>2, OneCliKept, KeyKept
                DEF DialClient, fileVars, daemonVars
      <3>3. CASE cli' = [cli EXCEPT ![c] = CutOff(c)]
        <4>1. CutOff(c).pc \notin InStore
          BY DEF CutOff, NewCli, InStore
        <4> QED BY <1>d, <1>m, <2>5, <3>3, <4>1, OneCliKept, KeyKept
                DEF DialClient, fileVars, daemonVars
      <3>4. CASE cli' = [cli EXCEPT ![c] = [cli[c] EXCEPT !.pc = "open",
                                                          !.todo = cli[c].cmd.steps]]
        <4>1. [cli[c] EXCEPT !.pc = "open", !.todo = cli[c].cmd.steps].pc \notin InStore
          BY <3>1 DEF CliShape, InStore
        <4> QED BY <1>d, <1>m, <2>5, <3>4, <4>1, OneCliKept, KeyKept
                DEF DialClient, fileVars, daemonVars
      <3> QED BY <2>5, <3>2, <3>3, <3>4 DEF DialClient
    <2>6. CASE Call(c)
      <3>1. CliShape(cli[c])
        BY DEF OnceInv, ClientInv
      <3>2. PICK cl : cli' = [cli EXCEPT ![c] = cl] /\ cl.pc \notin InStore
        BY <2>6, <3>1 DEF Call, SetCli, CutOff, NewCli, CliShape, InStore
      <3> QED BY <1>d, <1>m, <2>6, <3>2, OneCliKept, KeyKept DEF Call, fileVars, daemonVars
    <2> QED BY <1>6, <2>1, <2>2, <2>3, <2>4, <2>5, <2>6 DEF ClientStep
  <1>7. ASSUME NEW c \in Clients, NEW cmd \in Commands, NEW pass \in Pass, Run(c, cmd, pass)
        PROVE  KeyInv'
    <2> DEFINE new == [pc |-> IF cmd.rpcs = <<>> THEN "open" ELSE "probe",
                       cmd |-> cmd, pass |-> pass,
                       todo |-> IF cmd.rpcs = <<>> THEN cmd.steps ELSE cmd.rpcs,
                       ok |-> TRUE]
    <2>a. NewCli("failed").pc \notin InStore /\ new.pc \notin InStore
      BY DEF NewCli, InStore
    <2>b. cli' = [cli EXCEPT ![c] = NewCli("failed")] \/ cli' = [cli EXCEPT ![c] = new]
      BY <1>7 DEF Run
    <2> HIDE DEF new
    <2>1. PICK cl : cli' = [cli EXCEPT ![c] = cl] /\ cl.pc \notin InStore
      BY <2>a, <2>b
    <2> QED BY <1>d, <1>m, <1>7, <2>1, OneCliKept, KeyKept DEF Run, fileVars, daemonVars
  <1>8. CASE UNCHANGED vars
    BY <1>d, <1>m, <1>8, CliSame, KeyKept DEF vars, fileVars, daemonVars, clientVars
  <1> QED BY <1>1, <1>2, <1>4, <1>5, <1>6, <1>7, <1>8 DEF Next

\* The key a daemon signs with is the key in the store it has open, for every
\* number of daemons and commands: nothing can import a key beside it, and no
\* key survives from before the store was opened (OpenStore, handleUnlock,
\* signingKey).
THEOREM UnlockedKeyIsStored == Spec => []UnlockedIsStored
  <1> DEFINE Inv == OnceInv /\ DbInv /\ KeyInv
  <1>1. Init => Inv
    <2> SUFFICES ASSUME Init PROVE Inv
      OBVIOUS
    <2>1. OnceInv
      BY InitOnceInv
    <2>2. DbInv
      BY DEF Init, DbInv, DbShape, IdentityMatchesKey
    <2>3. KeyInv
      <3>1. \A d \in Daemons : DaemonInv(d)
        BY ControlAssumption DEF Init, DaemonInv, DaemonShape, NewDaemon
      <3>2. \A c \in Clients : cli[c].pc \notin InStore
        BY DEF Init, NewCli, InStore
      <3> QED BY <3>1, <3>2 DEF Init, KeyInv
    <2> QED BY <2>1, <2>2, <2>3
  <1>2. Inv /\ [Next]_vars => Inv'
    BY NextOnceInv, NextDbInv, NextKeyInv
  <1>3. Inv => UnlockedIsStored
    BY DEF KeyInv, DaemonInv, UnlockedIsStored
  <1> QED BY <1>1, <1>2, <1>3, PTL DEF Spec

----------------------------------------------------------------------------
(* Types.                                                                  *)

CliPcs == InStore \cup {"idle", "probe", "call", "wait", "open", "gone", "spawn", "ok", "failed"}

\* The record of a command and the record of a handler, as TypeOK has them; a
\* handler that runs is in some daemon.
CliRec(r) ==
    r.pc \in CliPcs /\ r.cmd \in Commands \cup {NoCmd} /\ r.pass \in Pass /\ r.ok \in BOOLEAN

RpcRec(r) ==
    /\ r.pc \in {"none", "run", "zen", "ok", "err"} /\ r.at \in Daemons \cup {Nil}
    /\ r.pc = "run" => r.at \in Daemons

CliTypes == \A c \in Clients : CliRec(cli[c])

RpcTypes == \A c \in Clients : RpcRec(rpc[c])

\* The files and the daemons.
FileTypes ==
    /\ db \in [key : Keys \cup {Nil}, identity : Keys \cup {Nil}, transport : Tokens \cup {Nil}]
    /\ lock \in Daemons \cup Clients \cup {Nil}
    /\ sock \in Daemons \cup {Nil}

StopRec == [pc : {"off", "take", "graceful", "drain", "listeners", "done", "end"},
            srv : BOOLEAN, tc : Tokens \cup {Nil}]

WorkRec == [pc : {"off", "delete", "read", "listen", "persist"}, key : Tokens \cup {Nil}]

Mains == Owning \cup {"off", "open", "exiting", "exit"}

DaemonTypes ==
    /\ accepting \subseteq Daemons
    /\ main \in [Daemons -> Mains]
    /\ daemon \in [Daemons -> Field]
    /\ inbound \in [Daemons -> SUBSET Tokens]
    /\ stop \in [Daemons -> [Stoppers -> StopRec]]
    /\ work \in [Daemons \cup Clients -> WorkRec]
    /\ raced \subseteq Daemons
    /\ tokens \in 0 .. MaxTokens

\* TypeOK by parts; OnceInv has the type of applied.
LEMMA TypeParts ==
    ASSUME OnceInv, FileTypes, DaemonTypes, CliTypes, RpcTypes, crashes \in 0 .. MaxCrashes
    PROVE  TypeOK
  <1>1. applied \in [Clients -> Nat]
    BY DEF OnceInv, ClientInv
  <1> QED BY <1>1 DEF TypeOK, FileTypes, DaemonTypes, CliTypes, RpcTypes, CliRec, RpcRec, CliPcs,
                      StopRec, WorkRec, Mains

\* A command that is over, and the commands of a quiet step.
LEMMA NewCliType == \A w \in CliPcs : CliRec(NewCli(w))
  BY DEF NewCli, CliRec, Pass

\* The commands' records after a quiet step.
LEMMA QuietCliTypes == CliTypes /\ AllQuiet => CliTypes'
  <1> SUFFICES ASSUME CliTypes, AllQuiet, NEW c \in Clients PROVE CliRec(cli'[c])
    BY DEF CliTypes
  <1>1. \A w \in Over : CliRec(NewCli(w))
    BY NewCliType DEF Over, CliPcs
  <1>2. CliRec(cli[c])
    BY DEF CliTypes
  <1> QED BY <1>1, <1>2 DEF AllQuiet, Quiet

\* A step of one command.
LEMMA OneCliType ==
    ASSUME OnceInv, CliTypes, NEW c \in Clients, NEW cl, cli' = [cli EXCEPT ![c] = cl], CliRec(cl)
    PROVE  CliTypes'
  <1>1. \A x \in Clients : cli'[x] = cl \/ cli'[x] = cli[x]
    BY DEF OnceInv
  <1> QED BY <1>1 DEF CliTypes

\* The commands' records, action by action.
LEMMA CliTypesKept == OnceInv /\ CliTypes /\ [Next]_vars => CliTypes'
  <1> SUFFICES ASSUME OnceInv, CliTypes, [Next]_vars PROVE CliTypes'
    OBVIOUS
  <1>u. cli' = cli => CliTypes'
    BY DEF CliTypes
  <1>s. ASSUME NEW c \in Clients, NEW w \in CliPcs, SetCli(c, w) PROVE CliTypes'
    <2>1. cli' = [cli EXCEPT ![c] = [cli[c] EXCEPT !.pc = w]]
      BY <1>s DEF SetCli
    <2>2. CliRec(cli[c]) /\ CliShape(cli[c])
      BY DEF CliTypes, OnceInv, ClientInv
    <2>3. CliRec([cli[c] EXCEPT !.pc = w])
      BY <2>2 DEF CliRec, CliShape
    <2> QED BY <2>1, <2>3, OneCliType
  <1>n. ASSUME NEW c \in Clients, NEW w \in CliPcs, cli' = [cli EXCEPT ![c] = NewCli(w)]
        PROVE  CliTypes'
    BY <1>n, NewCliType, OneCliType
  <1>1. ASSUME NEW d \in Daemons, Launch(d) \/ MainStep(d) \/ Signal(d) \/ Crash(d)
        PROVE  CliTypes'
    <2>1. CASE Exit(d) \/ Crash(d)
      BY <2>1, DieQuiet, QuietCliTypes DEF Exit, Crash
    <2>2. CASE ~ (Exit(d) \/ Crash(d))
      BY <1>u, <1>1, <2>2
      DEF Launch, MainStep, OpenStore, OpenTimeout, Start, StartFails, CloseStore, Signal, clientVars
    <2> QED BY <2>1, <2>2
  <1>2. ASSUME NEW d \in Daemons, NEW s \in Stoppers, StopStep(d, s) PROVE CliTypes'
    <2>1. CASE StopDeadline(d, s)
      BY <2>1, StopDeadlineQuiet, QuietCliTypes
    <2>2. CASE StopDone(d, s)
      BY <1>u, <2>2, DieQuiet, QuietCliTypes DEF StopDone, clientVars
    <2>3. CASE StopTake(d, s) \/ StopAccepting(d, s) \/ StopDrained(d, s) \/ StopListeners(d, s)
      BY <1>u, <2>3 DEF StopTake, StopAccepting, StopDrained, StopListeners, clientVars
    <2> QED BY <1>2, <2>1, <2>2, <2>3 DEF StopStep
  <1>3. ASSUME NEW a \in Daemons \cup Clients, TransportStep(a) PROVE CliTypes'
    BY <1>u, <1>3 DEF TransportStep, TransportRead, TransportListen, TransportFails,
                      TransportPersist, clientVars
  <1>4. ASSUME NEW c \in Clients, HandlerStep(c) \/ EndSubscribe(c) \/ ZenAnswers(c) PROVE CliTypes'
    <2>1. CASE Answer(c)
      <3>1. CASE cli' = [cli EXCEPT ![c] = [cli[c] EXCEPT !.pc = "call", !.todo = Tail(@)]]
        <4>1. CliRec(cli[c]) /\ CliShape(cli[c])
          BY DEF CliTypes, OnceInv, ClientInv
        <4>2. CliRec([cli[c] EXCEPT !.pc = "call", !.todo = Tail(@)])
          BY <4>1 DEF CliRec, CliShape, CliPcs
        <4> QED BY <3>1, <4>2, OneCliType
      <3>2. {"spawn", "failed", "gone", "ok"} \subseteq CliPcs
        BY DEF CliPcs
      <3> QED BY <1>u, <1>n, <2>1, <3>1, <3>2 DEF Answer, CutOff
    <2>2. CASE ~ Answer(c)
      BY <1>u, <1>4, <2>2
      DEF HandlerStep, HandlerFails, HandleRead, HandleWhoami, HandleMark, HandleUnlock, HandleLock,
          HandleSign, HandleStop, RotateClose, RotateDelete, EndSubscribe, AskZen, ZenAnswers,
          clientVars
    <2> QED BY <2>1, <2>2
  <1>5. ASSUME NEW c \in Clients, ClientStep(c) \/ Interrupt(c) PROVE CliTypes'
    <2>0. CliRec(cli[c]) /\ CliShape(cli[c])
      BY DEF CliTypes, OnceInv, ClientInv
    <2>p. {"call", "wait", "step", "spawn", "failed", "ok"} \subseteq CliPcs
      BY DEF CliPcs, InStore
    <2>1. CASE DialClient(c)
      <3>1. CASE cli' = [cli EXCEPT ![c] = [cli[c] EXCEPT !.pc = "open", !.todo = cli[c].cmd.steps]]
        <4>1. CliRec([cli[c] EXCEPT !.pc = "open", !.todo = cli[c].cmd.steps])
          BY <2>0 DEF CliRec, CliShape, CliPcs
        <4> QED BY <3>1, <4>1, OneCliType
      <3> QED BY <1>s, <1>n, <2>1, <2>p, <3>1 DEF DialClient, CutOff
    <2>2. CASE Call(c)
      BY <1>s, <1>n, <2>2, <2>p DEF Call, CutOff
    <2>3. CASE OpenAt(c)
      BY <1>s, <1>n, <2>3, <2>p DEF OpenAt, EndCli
    <2>4. CASE OfflineStep(c)
      <3>1. PICK new : Transact(c, Head(cli[c].todo), new)
        BY <2>4 DEF OfflineStep
      <3> DEFINE cl == [pc |-> IF new = Nil \/ Len(cli[c].todo) = 1 THEN "close" ELSE "step",
                        cmd |-> cli[c].cmd, pass |-> cli[c].pass,
                        todo |-> Tail(cli[c].todo), ok |-> new # Nil]
      <3>2. cli' = [cli EXCEPT ![c] = cl]
        BY <3>1 DEF Transact
      <3>3. CliRec(cl)
        BY <2>0 DEF CliRec, CliPcs, InStore
      <3> HIDE DEF cl
      <3> QED BY <3>2, <3>3, OneCliType
    <2>5. CASE CloseAt(c) \/ WaitForSocketGone(c) \/ SpawnDetached(c) \/ Interrupt(c)
      BY <1>n, <2>5, <2>p DEF CloseAt, WaitForSocketGone, SpawnDetached, Interrupt, EndCli
    <2> QED BY <1>5, <2>1, <2>2, <2>3, <2>4, <2>5 DEF ClientStep
  <1>6. ASSUME NEW c \in Clients, NEW cmd \in Commands, NEW pass \in Pass, Run(c, cmd, pass)
        PROVE  CliTypes'
    <2> DEFINE cl == [pc |-> IF cmd.rpcs = <<>> THEN "open" ELSE "probe",
                      cmd |-> cmd, pass |-> pass,
                      todo |-> IF cmd.rpcs = <<>> THEN cmd.steps ELSE cmd.rpcs,
                      ok |-> TRUE]
    <2>1. CliRec(cl)
      BY DEF CliRec, CliPcs
    <2>2. cli' = [cli EXCEPT ![c] = NewCli("failed")] \/ cli' = [cli EXCEPT ![c] = cl]
      BY <1>6 DEF Run
    <2>3. "failed" \in CliPcs
      BY DEF CliPcs
    <2> HIDE DEF cl
    <2> QED BY <1>n, <2>1, <2>2, <2>3, OneCliType
  <1>7. CASE UNCHANGED vars
    BY <1>u, <1>7 DEF vars, clientVars
  <1> QED BY <1>1, <1>2, <1>3, <1>4, <1>5, <1>6, <1>7 DEF Next

\* The handlers' records, action by action.
LEMMA RpcTypesKept == OnceInv /\ FileTypes /\ DaemonTypes /\ RpcTypes /\ [Next]_vars => RpcTypes'
  <1> SUFFICES ASSUME OnceInv, FileTypes, DaemonTypes, RpcTypes, [Next]_vars PROVE RpcTypes'
    OBVIOUS
  <1>u. rpc' = rpc => RpcTypes'
    BY DEF RpcTypes
  <1>n. RpcRec(NoRpc)
    BY DEF RpcRec, NoRpc
  <1>r. ASSUME NEW c \in Clients, NEW how \in {"ok", "err", "zen"}, Reply(c, how) PROVE RpcTypes'
    <2>1. \A x \in Clients : rpc'[x] = rpc[x] \/ rpc'[x] = [rpc[x] EXCEPT !.pc = how]
      BY <1>r DEF Reply, OnceInv
    <2>2. \A x \in Clients : RpcShape(rpc[x]) /\ RpcRec(rpc[x])
      BY DEF OnceInv, ClientInv, RpcTypes
    <2>3. ASSUME NEW x \in Clients PROVE RpcRec([rpc[x] EXCEPT !.pc = how])
      <3>1. PICK r : r = rpc[x] /\ r = [pc |-> r.pc, at |-> r.at, op |-> r.op]
        BY <2>2 DEF RpcShape
      <3>2. r.at \in Daemons \cup {Nil}
        BY <2>2, <3>1 DEF RpcRec
      <3>3. [r EXCEPT !.pc = how] = [pc |-> how, at |-> r.at, op |-> r.op]
        BY <3>1
      <3> QED BY <3>1, <3>2, <3>3 DEF RpcRec
    <2> QED BY <2>1, <2>2, <2>3 DEF RpcTypes
  <1>d. ASSUME NEW d, Die(d) PROVE RpcTypes'
    BY <1>n, <1>d DEF Die, RpcTypes
  <1>t. ASSUME NEW a \in Daemons \cup Clients, NEW ok \in BOOLEAN, TransportDone(a, ok)
        PROVE  RpcTypes'
    <2>1. a \in Clients => \E how \in {"ok", "err"} : Reply(a, how) \/ rpc' = rpc
      BY <1>t DEF TransportDone, Reply
    <2> QED BY <1>u, <1>r, <1>t, <2>1 DEF TransportDone
  <1>1. ASSUME NEW d \in Daemons, Launch(d) \/ MainStep(d) \/ Signal(d) \/ Crash(d)
        PROVE  RpcTypes'
    <2>1. CASE Exit(d) \/ Crash(d)
      BY <1>d, <2>1 DEF Exit, Crash
    <2>2. CASE ~ (Exit(d) \/ Crash(d))
      BY <1>u, <1>1, <2>2
      DEF Launch, MainStep, OpenStore, OpenTimeout, Start, StartFails, CloseStore, Signal, clientVars
    <2> QED BY <2>1, <2>2
  <1>2. ASSUME NEW d \in Daemons, NEW s \in Stoppers, StopStep(d, s) PROVE RpcTypes'
    <2>1. CASE StopDeadline(d, s)
      BY <1>n, <2>1 DEF StopDeadline, RpcTypes
    <2>2. CASE StopDone(d, s)
      BY <1>u, <1>d, <2>2 DEF StopDone, clientVars
    <2>3. CASE StopTake(d, s) \/ StopAccepting(d, s) \/ StopDrained(d, s) \/ StopListeners(d, s)
      BY <1>u, <2>3 DEF StopTake, StopAccepting, StopDrained, StopListeners, clientVars
    <2> QED BY <1>2, <2>1, <2>2, <2>3 DEF StopStep
  <1>3. ASSUME NEW a \in Daemons \cup Clients, TransportStep(a) PROVE RpcTypes'
    BY <1>u, <1>t, <1>3 DEF TransportStep, TransportRead, TransportListen, TransportFails,
                            TransportPersist, clientVars
  <1>4. ASSUME NEW c \in Clients, HandlerStep(c) \/ EndSubscribe(c) \/ ZenAnswers(c) PROVE RpcTypes'
    <2>1. CASE Answer(c)
      <3>1. \A x \in Clients : rpc'[x] = rpc[x] \/ rpc'[x] = NoRpc
        BY <2>1 DEF Answer, OnceInv
      <3> QED BY <1>n, <3>1 DEF RpcTypes
    <2>2. CASE RotateClose(c) \/ RotateDelete(c)
      BY <1>u, <1>t, <2>2 DEF RotateClose, RotateDelete, clientVars
    <2>3. CASE HandleUnlock(c) \/ HandleSign(c) \/ HandleWhoami(c) \/ AskZen(c) \/ ZenAnswers(c)
      BY <1>r, <2>3 DEF HandleUnlock, HandleSign, HandleWhoami, AskZen, ZenAnswers
    <2>4. CASE \/ HandlerFails(c) \/ HandleRead(c) \/ HandleMark(c) \/ HandleLock(c)
               \/ HandleStop(c) \/ EndSubscribe(c)
      BY <1>r, <2>4 DEF HandlerFails, HandleRead, HandleMark, HandleLock, HandleStop, EndSubscribe
    <2> QED BY <1>4, <2>1, <2>2, <2>3, <2>4 DEF HandlerStep
  <1>5. ASSUME NEW c \in Clients, ClientStep(c) \/ Interrupt(c) PROVE RpcTypes'
    <2>1. CASE Call(c)
      <3>1. CASE sock \in accepting
        <4>1. sock \in Daemons
          BY <3>1 DEF DaemonTypes
        <4>2. RpcRec([pc |-> "run", at |-> sock, op |-> Head(cli[c].todo)])
          BY <4>1 DEF RpcRec
        <4>3. \A x \in Clients : \/ rpc'[x] = rpc[x]
                                 \/ rpc'[x] = [pc |-> "run", at |-> sock, op |-> Head(cli[c].todo)]
          BY <2>1, <3>1 DEF Call, OnceInv
        <4> QED BY <4>2, <4>3 DEF RpcTypes
      <3> QED BY <1>u, <2>1, <3>1 DEF Call
    <2>2. CASE ~ Call(c)
      BY <1>u, <1>5, <2>2 DEF ClientStep, DialClient, OpenAt, OfflineStep, CloseAt,
                              WaitForSocketGone, SpawnDetached, Interrupt
    <2> QED BY <2>1, <2>2
  <1>6. ASSUME NEW c \in Clients, NEW cmd \in Commands, NEW pass \in Pass, Run(c, cmd, pass)
        PROVE  RpcTypes'
    BY <1>u, <1>6 DEF Run
  <1>7. CASE UNCHANGED vars
    BY <1>u, <1>7 DEF vars, clientVars
  <1> QED BY <1>1, <1>2, <1>3, <1>4, <1>5, <1>6, <1>7 DEF Next

\* What an offline step leaves in the store has the store's type.
StoreRec == [key : Keys \cup {Nil}, identity : Keys \cup {Nil}, transport : Tokens \cup {Nil}]

\* An offline transaction leaves a store record.
LEMMA StepType ==
    ASSUME db \in StoreRec, NEW c, NEW step, NEW k \in Keys, NEW t \in Tokens \cup {Nil},
           NEW r, r = StepResult(c, step, k, t), r # Nil
    PROVE  r \in StoreRec
  <1>1. /\ InitIdentity(k) \in StoreRec \cup {Nil} /\ Identity \in StoreRec \cup {Nil}
        /\ EncryptedKey \in StoreRec \cup {Nil} /\ PutEncryptedKey(k) \in StoreRec
    BY DEF InitIdentity, Identity, EncryptedKey, PutEncryptedKey, StoreRec
  <1>2. /\ SetIdentity(cli[c].pass) \in StoreRec \cup {Nil}
        /\ t # Nil => PutTransportKey(t) \in StoreRec
    BY DEF SetIdentity, PutTransportKey, StoreRec
  <1> QED BY <1>1, <1>2 DEF StepResult

\* The files, action by action.
LEMMA FileTypesKept ==
    FileTypes /\ DaemonTypes /\ [Next]_vars => FileTypes'
  <1> SUFFICES ASSUME FileTypes, DaemonTypes, [Next]_vars PROVE FileTypes'
    OBVIOUS
  <1>f. FileTypes <=> /\ db \in StoreRec
                      /\ lock \in Daemons \cup Clients \cup {Nil} /\ sock \in Daemons \cup {Nil}
    BY DEF FileTypes, StoreRec
  <1>g. FileTypes' <=> /\ db' \in StoreRec
                       /\ lock' \in Daemons \cup Clients \cup {Nil} /\ sock' \in Daemons \cup {Nil}
    BY DEF FileTypes, StoreRec
  <1>u. ASSUME UNCHANGED db, lock' \in Daemons \cup Clients \cup {Nil}, sock' \in Daemons \cup {Nil}
        PROVE  FileTypes'
    BY <1>f, <1>g, <1>u
  <1>1. ASSUME NEW d \in Daemons, Launch(d) \/ MainStep(d) \/ Signal(d) \/ Crash(d)
        PROVE  FileTypes'
    <2>1. UNCHANGED db
      BY <1>1 DEF Launch, MainStep, OpenStore, OpenTimeout, Start, StartFails, CloseStore, Exit,
                  Signal, Crash, Die, fileVars
    <2>2. lock' \in {lock, d, Nil} /\ sock' \in {sock, d, Nil}
      BY <1>1 DEF Launch, MainStep, OpenStore, OpenTimeout, Start, StartFails, CloseStore, Exit,
                  Signal, Crash, Die, fileVars
    <2> QED BY <1>f, <1>u, <2>1, <2>2
  <1>2. ASSUME NEW d \in Daemons, NEW s \in Stoppers, StopStep(d, s) PROVE FileTypes'
    <2>1. UNCHANGED db /\ lock' \in {lock, Nil} /\ sock' \in {sock, Nil}
      BY <1>2 DEF StopStep, StopTake, StopAccepting, StopDrained, StopDeadline, StopListeners,
                  StopDone, Die, fileVars
    <2> QED BY <1>f, <1>u, <2>1
  <1>3. ASSUME NEW a \in Daemons \cup Clients, TransportStep(a) PROVE FileTypes'
    <2>1. UNCHANGED <<lock, sock>>
      BY <1>3 DEF TransportStep, TransportRead, TransportListen, TransportFails,
                  TransportPersist, fileVars
    <2>2. db' = db \/ db' = PutTransportKey(work[a].key)
      BY <1>3 DEF TransportStep, TransportRead, TransportListen, TransportFails,
                  TransportPersist, fileVars
    <2>3. work[a].key \in Tokens \cup {Nil}
      BY DEF DaemonTypes, WorkRec
    <2>4. db' \in StoreRec
      BY <1>f, <2>2, <2>3 DEF PutTransportKey, StoreRec
    <2> QED BY <1>f, <1>g, <2>1, <2>4
  <1>4. ASSUME NEW c \in Clients, HandlerStep(c) \/ EndSubscribe(c) \/ ZenAnswers(c) PROVE FileTypes'
    <2>1. UNCHANGED <<lock, sock>>
      BY <1>4 DEF HandlerStep, HandlerFails, HandleRead, HandleWhoami, HandleMark, HandleUnlock,
                  HandleLock, HandleSign, HandleStop, RotateClose, RotateDelete, Answer,
                  EndSubscribe, AskZen, ZenAnswers, fileVars
    <2>2. db' = db \/ db' = DeleteTransportKey
      BY <1>4 DEF HandlerStep, HandlerFails, HandleRead, HandleWhoami, HandleMark, HandleUnlock,
                  HandleLock, HandleSign, HandleStop, RotateClose, RotateDelete, Answer,
                  EndSubscribe, AskZen, ZenAnswers, fileVars
    <2>3. db' \in StoreRec
      BY <1>f, <2>2 DEF DeleteTransportKey, StoreRec
    <2> QED BY <1>f, <1>g, <2>1, <2>3
  <1>5. ASSUME NEW c \in Clients, ClientStep(c) \/ Interrupt(c) PROVE FileTypes'
    <2>1. CASE OfflineStep(c)
      <3>1. UNCHANGED <<lock, sock>>
        BY <2>1 DEF OfflineStep
      <3>2. PICK k \in Keys, t \in (1 .. tokens) \cup {Nil}, fails \in BOOLEAN :
                Transact(c, Head(cli[c].todo),
                         IF fails THEN Nil ELSE StepResult(c, Head(cli[c].todo), k, t))
        BY <2>1 DEF OfflineStep
      <3>3. t \in Tokens \cup {Nil}
        BY ControlAssumption DEF DaemonTypes, Tokens
      <3>4. \/ db' = db
            \/ db' # Nil /\ db' = StepResult(c, Head(cli[c].todo), k, t)
        BY <3>2 DEF Transact
      <3>5. db' \in StoreRec
        BY <1>f, <3>3, <3>4, StepType
      <3> QED BY <1>f, <1>g, <3>1, <3>5
    <2>2. CASE ~ OfflineStep(c)
      <3>1. UNCHANGED <<db, sock>> /\ lock' \in {lock, c, Nil}
        BY <1>5, <2>2 DEF ClientStep, DialClient, Call, OpenAt, CloseAt, WaitForSocketGone,
                          SpawnDetached, Interrupt, fileVars
      <3> QED BY <1>f, <1>u, <3>1
    <2> QED BY <2>1, <2>2
  <1>6. ASSUME NEW c \in Clients, NEW cmd \in Commands, NEW pass \in Pass, Run(c, cmd, pass)
        PROVE  FileTypes'
    BY <1>f, <1>u, <1>6 DEF Run, fileVars
  <1>7. CASE UNCHANGED vars
    BY <1>f, <1>u, <1>7 DEF vars, fileVars
  <1> QED BY <1>1, <1>2, <1>3, <1>4, <1>5, <1>6, <1>7 DEF Next

\* A field of a daemon.
LEMMA FieldType ==
    ASSUME daemon \in [Daemons -> Field], NEW d,
           \/ \E v \in BOOLEAN : SetField(d, "srv", v) \/ SetField(d, "done", v)
           \/ \E v \in Tokens \cup {Nil} : SetField(d, "tc", v)
           \/ \E v \in Keys \cup {Nil} : SetField(d, "unlocked", v)
    PROVE  daemon' \in [Daemons -> Field]
  BY DEF SetField, Field

\* The end of startTransport.
LEMMA TransportDoneType ==
    ASSUME DaemonTypes, NEW a \in Daemons \cup Clients, NEW ok, TransportDone(a, ok)
    PROVE  main' \in [Daemons -> Mains] /\ work' \in [Daemons \cup Clients -> WorkRec]
  <1>1. NoWork \in WorkRec /\ "run" \in Mains
    BY DEF NoWork, WorkRec, Mains, Owning
  <1>2. main' \in [Daemons -> Mains]
    BY <1>1 DEF TransportDone, SetMain, DaemonTypes
  <1>3. work' \in [Daemons \cup Clients -> WorkRec]
    BY <1>1 DEF TransportDone, DaemonTypes
  <1> QED BY <1>2, <1>3

\* The end of a process.
LEMMA DieType ==
    ASSUME DaemonTypes, NEW d \in Daemons, Die(d)
    PROVE  DaemonTypes'
  <1>1. NewDaemon \in Field /\ NoWork \in WorkRec /\ "exit" \in Mains
    BY DEF NewDaemon, Field, NoWork, WorkRec, Mains
  <1>2. NewStop("off") \in StopRec /\ NewStop("end") \in StopRec
    BY DEF NewStop, StopRec
  <1>3. main' \in [Daemons -> Mains] /\ daemon' \in [Daemons -> Field]
    BY <1>1 DEF Die, SetMain, DaemonTypes
  <1>4. inbound' \in [Daemons -> SUBSET Tokens]
    BY DEF Die, DaemonTypes
  <1>5. stop' \in [Daemons -> [Stoppers -> StopRec]]
    <2> DEFINE S == [s \in Stoppers |-> NewStop(IF stop[d][s].pc = "off" THEN "off" ELSE "end")]
    <2>1. S \in [Stoppers -> StopRec]
      BY <1>2
    <2>2. stop' = [stop EXCEPT ![d] = S]
      BY DEF Die
    <2> HIDE DEF S
    <2> QED BY <2>1, <2>2 DEF DaemonTypes
  <1>6. work' \in [Daemons \cup Clients -> WorkRec]
    <2>1. \A a \in Daemons \cup Clients : work'[a] = NoWork \/ work'[a] = work[a]
      BY DEF Die
    <2>2. work' = [a \in Daemons \cup Clients |-> work'[a]]
      BY DEF Die
    <2> QED BY <1>1, <2>1, <2>2 DEF DaemonTypes
  <1>7. accepting' \subseteq Daemons /\ UNCHANGED <<raced, tokens>>
    BY DEF Die, DaemonTypes
  <1> QED BY <1>3, <1>4, <1>5, <1>6, <1>7 DEF DaemonTypes

\* The daemons' part, action by action.
LEMMA DaemonTypesKept ==
    FileTypes /\ DaemonTypes /\ RpcTypes /\ [Next]_vars => DaemonTypes'
  <1> SUFFICES ASSUME FileTypes, DaemonTypes, RpcTypes, [Next]_vars PROVE DaemonTypes'
    OBVIOUS
  <1>m. ASSUME NEW d \in Daemons, NEW w \in Mains, SetMain(d, w) PROVE main' \in [Daemons -> Mains]
    BY <1>m DEF SetMain, DaemonTypes
  <1>p. {"open", "listen", "close", "exit", "transport", "stopping", "exiting", "run"} \subseteq Mains
    BY DEF Mains, Owning
  <1>b. BOOLEAN = {TRUE, FALSE} /\ Nil \in Keys \cup {Nil} /\ Nil \in Tokens \cup {Nil}
    OBVIOUS
  <1>k. db.key \in Keys \cup {Nil} /\ db.transport \in Tokens \cup {Nil}
    BY DEF FileTypes
  <1>s. ASSUME NEW d \in Daemons, NEW s \in Stoppers,
               NEW w \in {"take", "drain", "listeners", "done", "end"},
               SetStop(d, s, w) \/ stop' = [stop EXCEPT ![d][s].pc = w]
        PROVE  stop' \in [Daemons -> [Stoppers -> StopRec]]
    <2>1. PICK r \in StopRec : r = stop[d][s]
      BY DEF DaemonTypes
    <2>2. [r EXCEPT !.pc = w] \in StopRec
      BY DEF StopRec
    <2>3. stop' = [stop EXCEPT ![d] = [stop[d] EXCEPT ![s] = [r EXCEPT !.pc = w]]]
      BY <1>s, <2>1 DEF SetStop
    <2>4. [stop[d] EXCEPT ![s] = [r EXCEPT !.pc = w]] \in [Stoppers -> StopRec]
      BY <2>2 DEF DaemonTypes
    <2> QED BY <2>3, <2>4 DEF DaemonTypes
  <1>1. ASSUME NEW d \in Daemons, Launch(d) \/ MainStep(d) \/ Signal(d) \/ Crash(d)
        PROVE  DaemonTypes'
    <2>1. CASE Exit(d) \/ Crash(d)
      BY <2>1, DieType DEF Exit, Crash
    <2>2. CASE Launch(d) \/ OpenTimeout(d) \/ StartFails(d) \/ CloseStore(d)
      <3>1. main' \in [Daemons -> Mains]
        BY <1>m, <1>p, <2>2 DEF Launch, OpenTimeout, StartFails, CloseStore
      <3>2. UNCHANGED <<accepting, daemon, inbound, stop, work, raced, tokens>>
        BY <2>2 DEF Launch, OpenTimeout, StartFails, CloseStore
      <3> QED BY <3>1, <3>2 DEF DaemonTypes
    <2>3. CASE OpenStore(d)
      <3>1. main' \in [Daemons -> Mains]
        BY <1>m, <1>p, <2>3 DEF OpenStore
      <3>2. daemon' = daemon \/ SetField(d, "unlocked", db.key)
        BY <2>3 DEF OpenStore
      <3>3. daemon' \in [Daemons -> Field]
        BY <1>k, <3>2, FieldType DEF DaemonTypes
      <3>4. UNCHANGED <<accepting, inbound, stop, work, raced, tokens>>
        BY <2>3 DEF OpenStore
      <3> QED BY <3>1, <3>3, <3>4 DEF DaemonTypes
    <2>4. CASE Start(d)
      <3>1. main' \in [Daemons -> Mains]
        BY <1>m, <1>p, <2>4 DEF Start
      <3>2. daemon' \in [Daemons -> Field]
        BY <1>b, <2>4, FieldType DEF Start, DaemonTypes
      <3>3. [pc |-> "read", key |-> Nil] \in WorkRec
        BY DEF WorkRec
      <3>4. work' \in [Daemons \cup Clients -> WorkRec]
        BY <2>4, <3>3 DEF Start, DaemonTypes
      <3>5. accepting' \subseteq Daemons /\ UNCHANGED <<inbound, stop, raced, tokens>>
        BY <2>4 DEF Start, DaemonTypes
      <3> QED BY <3>1, <3>2, <3>4, <3>5 DEF DaemonTypes
    <2>5. CASE Signal(d)
      <3>1. main' \in [Daemons -> Mains]
        BY <1>m, <1>p, <2>5 DEF Signal
      <3>2. stop' \in [Daemons -> [Stoppers -> StopRec]]
        BY <1>s, <2>5 DEF Signal, Stoppers
      <3>3. UNCHANGED <<accepting, daemon, inbound, work, raced, tokens>>
        BY <2>5 DEF Signal
      <3> QED BY <3>1, <3>2, <3>3 DEF DaemonTypes
    <2> QED BY <1>1, <2>1, <2>2, <2>3, <2>4, <2>5 DEF MainStep
  <1>2. ASSUME NEW d \in Daemons, NEW s \in Stoppers, StopStep(d, s) PROVE DaemonTypes'
    <2>1. CASE StopTake(d, s)
      <3>1. daemon[d] \in Field
        BY DEF DaemonTypes
      <3>2. [NewDaemon EXCEPT !.done = daemon[d].done] \in Field
        BY <3>1 DEF NewDaemon, Field
      <3>3. [pc |-> IF daemon[d].srv THEN "graceful" ELSE "listeners",
             srv |-> daemon[d].srv, tc |-> daemon[d].tc] \in StopRec
        BY <3>1 DEF Field, StopRec
      <3>4. daemon' \in [Daemons -> Field]
        BY <2>1, <3>2 DEF StopTake, DaemonTypes
      <3>5. stop' \in [Daemons -> [Stoppers -> StopRec]]
        BY <2>1, <3>3 DEF StopTake, DaemonTypes
      <3>6. UNCHANGED <<accepting, main, inbound, work, raced, tokens>>
        BY <2>1 DEF StopTake
      <3> QED BY <3>4, <3>5, <3>6 DEF DaemonTypes
    <2>2. CASE StopAccepting(d, s) \/ StopDrained(d, s) \/ StopDeadline(d, s) \/ StopListeners(d, s)
      <3>1. stop' \in [Daemons -> [Stoppers -> StopRec]]
        BY <1>s, <2>2 DEF StopAccepting, StopDrained, StopDeadline, StopListeners
      <3>2. inbound' \in [Daemons -> SUBSET Tokens]
        BY <2>2 DEF StopAccepting, StopDrained, StopDeadline, StopListeners, DaemonTypes
      <3>3. accepting' \subseteq Daemons /\ UNCHANGED <<main, daemon, work, raced, tokens>>
        BY <2>2 DEF StopAccepting, StopDrained, StopDeadline, StopListeners, DaemonTypes
      <3> QED BY <3>1, <3>2, <3>3 DEF DaemonTypes
    <2>3. CASE StopDone(d, s)
      <3>1. CASE Die(d)
        BY <3>1, DieType
      <3>2. CASE ~ Die(d)
        <4>1. SetField(d, "done", TRUE) /\ SetStop(d, s, "end")
          BY <2>3, <3>2 DEF StopDone
        <4>2. UNCHANGED <<accepting, main, inbound, work, raced, tokens>>
          BY <2>3, <3>2 DEF StopDone
        <4>3. daemon' \in [Daemons -> Field]
          BY <1>b, <4>1, FieldType DEF DaemonTypes
        <4>4. stop' \in [Daemons -> [Stoppers -> StopRec]]
          BY <1>s, <4>1
        <4> QED BY <4>2, <4>3, <4>4 DEF DaemonTypes
      <3> QED BY <3>1, <3>2
    <2> QED BY <1>2, <2>1, <2>2, <2>3 DEF StopStep
  <1>3. ASSUME NEW a \in Daemons \cup Clients, TransportStep(a) PROVE DaemonTypes'
    <2>1. CASE TransportRead(a)
      <3>1. [pc |-> "listen", key |-> IF lock = Host(a) THEN db.transport ELSE Nil] \in WorkRec
        BY <1>k DEF WorkRec
      <3>2. work' \in [Daemons \cup Clients -> WorkRec]
        BY <2>1, <3>1 DEF TransportRead, DaemonTypes
      <3>3. UNCHANGED <<accepting, main, daemon, inbound, stop, raced, tokens>>
        BY <2>1 DEF TransportRead
      <3> QED BY <3>2, <3>3 DEF DaemonTypes
    <2>2. CASE TransportListen(a)
      <3>0. work[a].key \in Tokens \cup {Nil} /\ tokens \in 0 .. MaxTokens
        BY DEF DaemonTypes, WorkRec
      <3>1. PICK key : /\ key = IF work[a].key = Nil THEN tokens + 1 ELSE work[a].key
                       /\ work[a].key = Nil => tokens < MaxTokens
                       /\ tokens' = IF work[a].key = Nil THEN tokens + 1 ELSE tokens
                       /\ inbound' = [inbound EXCEPT ![Host(a)] = @ \cup {key}]
                       /\ SetField(Host(a), "tc", key)
                       /\ \/ /\ work' = [work EXCEPT ![a] = [pc |-> "persist", key |-> key]]
                             /\ UNCHANGED main
                          \/ TransportDone(a, TRUE)
        BY <2>2 DEF TransportListen
      <3>2. key \in Tokens /\ tokens' \in 0 .. MaxTokens
        BY <3>0, <3>1, ControlAssumption DEF Tokens
      <3>3. inbound' \in [Daemons -> SUBSET Tokens]
        BY <3>1, <3>2 DEF DaemonTypes
      <3>4. daemon' \in [Daemons -> Field]
        BY <3>1, <3>2, FieldType DEF DaemonTypes
      <3>5. [pc |-> "persist", key |-> key] \in WorkRec
        BY <3>2 DEF WorkRec
      <3>6. main' \in [Daemons -> Mains] /\ work' \in [Daemons \cup Clients -> WorkRec]
        BY <3>1, <3>5, TransportDoneType DEF DaemonTypes
      <3>7. UNCHANGED <<accepting, stop, raced>>
        BY <2>2 DEF TransportListen
      <3> QED BY <3>2, <3>3, <3>4, <3>6, <3>7 DEF DaemonTypes
    <2>3. CASE TransportFails(a) \/ TransportPersist(a)
      <3>1. \E ok \in BOOLEAN : TransportDone(a, ok)
        BY <1>b, <2>3 DEF TransportFails, TransportPersist
      <3>2. UNCHANGED <<accepting, daemon, inbound, stop, raced, tokens>>
        BY <2>3 DEF TransportFails, TransportPersist
      <3> QED BY <3>1, <3>2, TransportDoneType DEF DaemonTypes
    <2> QED BY <1>3, <2>1, <2>2, <2>3 DEF TransportStep
  <1>4. ASSUME NEW c \in Clients, HandlerStep(c) \/ EndSubscribe(c) \/ ZenAnswers(c) PROVE DaemonTypes'
    <2>0. rpc[c].pc = "run" => rpc[c].at \in Daemons
      BY DEF RpcTypes, RpcRec
    <2>1. CASE HandlerFails(c) \/ HandleRead(c) \/ HandleWhoami(c) \/ HandleMark(c) \/ Answer(c)
               \/ EndSubscribe(c) \/ ZenAnswers(c)
      BY <2>1 DEF HandlerFails, HandleRead, HandleWhoami, HandleMark, Answer, EndSubscribe,
                  ZenAnswers, daemonVars, DaemonTypes
    <2>2. CASE HandleUnlock(c) \/ HandleLock(c) \/ HandleSign(c) \/ AskZen(c)
      <3>1. UNCHANGED <<accepting, main, inbound, stop, work, raced, tokens>>
        BY <2>2 DEF HandleUnlock, HandleLock, HandleSign, AskZen
      <3>2. daemon[rpc[c].at].unlocked \in Keys \cup {Nil} \/ rpc[c].at \notin Daemons
        BY DEF DaemonTypes, Field
      <3>3. Decrypt(c) \in Keys \cup {Nil}
        BY <1>k DEF Decrypt
      <3>4. \/ daemon' = daemon
            \/ \E v : /\ SetField(rpc[c].at, "unlocked", v)
                      /\ v \in Keys \cup {Nil} \/ v = daemon[rpc[c].at].unlocked
        BY <2>2, <3>3 DEF HandleUnlock, HandleLock, HandleSign, AskZen, KeepKey, signingKey
      <3>5. CASE rpc[c].at \in Daemons
        BY <3>1, <3>2, <3>4, <3>5, FieldType DEF DaemonTypes
      <3>6. CASE rpc[c].at \notin Daemons
        <4>1. daemon' \in [Daemons -> Field]
          BY <3>4, <3>6 DEF SetField, DaemonTypes
        <4> QED BY <3>1, <4>1 DEF DaemonTypes
      <3> QED BY <3>5, <3>6
    <2>3. CASE HandleStop(c)
      <3>1. stop' \in [Daemons -> [Stoppers -> StopRec]]
        BY <1>s, <2>0, <2>3 DEF HandleStop, Handling, Stoppers
      <3>2. UNCHANGED <<accepting, main, daemon, inbound, work, raced, tokens>>
        BY <2>3 DEF HandleStop
      <3> QED BY <3>1, <3>2 DEF DaemonTypes
    <2>4. CASE RotateClose(c)
      <3>1. [pc |-> "delete", key |-> Nil] \in WorkRec
        BY DEF WorkRec
      <3>2. work' \in [Daemons \cup Clients -> WorkRec]
        BY <2>4, <3>1 DEF RotateClose, DaemonTypes
      <3>3. inbound' \in [Daemons -> SUBSET Tokens]
        BY <2>4 DEF RotateClose, DaemonTypes
      <3>4. raced' \subseteq Daemons
        BY <2>0, <2>4 DEF RotateClose, DaemonTypes
      <3>5. UNCHANGED <<accepting, main, daemon, stop, tokens>>
        BY <2>4 DEF RotateClose
      <3> QED BY <3>2, <3>3, <3>4, <3>5 DEF DaemonTypes
    <2>5. CASE RotateDelete(c)
      <3>1. UNCHANGED <<accepting, daemon, inbound, stop, raced, tokens>>
        BY <2>5 DEF RotateDelete
      <3>2. \/ work' = [work EXCEPT ![c].pc = "read"] /\ UNCHANGED main
            \/ TransportDone(c, FALSE)
        BY <2>5 DEF RotateDelete
      <3>3. CASE work' = [work EXCEPT ![c].pc = "read"] /\ UNCHANGED main
        BY <3>1, <3>3 DEF DaemonTypes, WorkRec
      <3> QED BY <3>1, <3>2, <3>3, TransportDoneType DEF DaemonTypes
    <2> QED BY <1>4, <2>1, <2>2, <2>3, <2>4, <2>5 DEF HandlerStep
  <1>5. ASSUME NEW c \in Clients, ClientStep(c) \/ Interrupt(c) PROVE DaemonTypes'
    <2>1. CASE SpawnDetached(c)
      <3>1. main' \in [Daemons -> Mains]
        BY <1>m, <1>p, <2>1 DEF SpawnDetached, DaemonTypes
      <3>2. UNCHANGED <<accepting, daemon, inbound, stop, work, raced, tokens>>
        BY <2>1 DEF SpawnDetached
      <3> QED BY <3>1, <3>2 DEF DaemonTypes
    <2>2. CASE ~ SpawnDetached(c)
      BY <1>5, <2>2 DEF ClientStep, DialClient, Call, OpenAt, OfflineStep, CloseAt,
                        WaitForSocketGone, Interrupt, daemonVars, DaemonTypes
    <2> QED BY <2>1, <2>2
  <1>6. ASSUME NEW c \in Clients, NEW cmd \in Commands, NEW pass \in Pass, Run(c, cmd, pass)
        PROVE  DaemonTypes'
    BY <1>6 DEF Run, daemonVars, DaemonTypes
  <1>7. CASE UNCHANGED vars
    BY <1>7 DEF vars, daemonVars, DaemonTypes
  <1> QED BY <1>1, <1>2, <1>3, <1>4, <1>5, <1>6, <1>7 DEF Next

\* Every variable has its type, for every number of daemons and commands.
TypeInv ==
    OnceInv /\ FileTypes /\ DaemonTypes /\ CliTypes /\ RpcTypes /\ crashes \in 0 .. MaxCrashes

\* It holds initially.
LEMMA InitTypes == Init => TypeInv
  <1> SUFFICES ASSUME Init PROVE TypeInv
    OBVIOUS
  <1>1. FileTypes
    BY DEF Init, FileTypes
  <1>2. DaemonTypes
    <2>1. NewDaemon \in Field /\ NoWork \in WorkRec /\ "off" \in Mains /\ NewStop("off") \in StopRec
      BY DEF NewDaemon, Field, NoWork, WorkRec, Mains, NewStop, StopRec
    <2>2. 0 \in 0 .. MaxTokens
      BY ControlAssumption
    <2> QED BY <2>1, <2>2 DEF Init, DaemonTypes
  <1>3. CliTypes
    BY NewCliType DEF Init, CliTypes, CliPcs
  <1>4. RpcTypes
    BY DEF Init, RpcTypes, RpcRec, NoRpc
  <1>5. crashes \in 0 .. MaxCrashes
    BY ControlAssumption DEF Init
  <1> QED BY <1>1, <1>2, <1>3, <1>4, <1>5, InitOnceInv DEF TypeInv

\* No more processes are killed than the bound says.
LEMMA CrashesKept == crashes \in 0 .. MaxCrashes /\ [Next]_vars => crashes' \in 0 .. MaxCrashes
  <1> SUFFICES ASSUME crashes \in 0 .. MaxCrashes, [Next]_vars PROVE crashes' \in 0 .. MaxCrashes
    OBVIOUS
  <1>1. crashes' = crashes \/ (crashes < MaxCrashes /\ crashes' = crashes + 1)
    <2>1. ASSUME NEW d \in Daemons, Launch(d) \/ MainStep(d) \/ Signal(d) \/ Crash(d)
          PROVE  crashes' = crashes \/ (crashes < MaxCrashes /\ crashes' = crashes + 1)
      BY <2>1 DEF Launch, MainStep, OpenStore, OpenTimeout, Start, StartFails, CloseStore, Exit,
                  Signal, Crash
    <2>2. ASSUME NEW d \in Daemons, NEW s \in Stoppers, StopStep(d, s) PROVE crashes' = crashes
      BY <2>2 DEF StopStep, StopTake, StopAccepting, StopDrained, StopDeadline, StopListeners,
                  StopDone
    <2>3. ASSUME NEW a \in Daemons \cup Clients, TransportStep(a) PROVE crashes' = crashes
      BY <2>3 DEF TransportStep, TransportRead, TransportListen, TransportFails, TransportPersist
    <2>4. ASSUME NEW c \in Clients, HandlerStep(c) \/ EndSubscribe(c) \/ ZenAnswers(c)
          PROVE  crashes' = crashes
      BY <2>4 DEF HandlerStep, HandlerFails, HandleRead, HandleWhoami, HandleMark, HandleUnlock,
                  HandleLock, HandleSign, HandleStop, RotateClose, RotateDelete, Answer,
                  EndSubscribe, AskZen, ZenAnswers
    <2>5. ASSUME NEW c \in Clients, ClientStep(c) \/ Interrupt(c)
          PROVE  crashes' = crashes \/ (crashes < MaxCrashes /\ crashes' = crashes + 1)
      BY <2>5 DEF ClientStep, DialClient, Call, OpenAt, OfflineStep, CloseAt, WaitForSocketGone,
                  SpawnDetached, Interrupt
    <2>6. ASSUME NEW c \in Clients, NEW cmd \in Commands, NEW pass \in Pass, Run(c, cmd, pass)
          PROVE  crashes' = crashes
      BY <2>6 DEF Run
    <2>7. CASE UNCHANGED vars
      BY <2>7 DEF vars
    <2> QED BY <2>1, <2>2, <2>3, <2>4, <2>5, <2>6, <2>7 DEF Next
  <1> QED BY <1>1, ControlAssumption

\* Every step keeps the types.
LEMMA NextTypes == TypeInv /\ [Next]_vars => TypeInv'
  BY NextOnceInv, FileTypesKept, DaemonTypesKept, CliTypesKept, RpcTypesKept, CrashesKept DEF TypeInv

\* Whatever daemons and commands run, stop and crash, every variable keeps its
\* type: a handler left running by a hard Stop, and a listener opened by a
\* rotation, write nothing into the fields that does not belong there.
THEOREM ControlTypeCorrect == Spec => []TypeOK
  <1>1. TypeInv => TypeOK
    BY TypeParts DEF TypeInv
  <1> QED BY <1>1, InitTypes, NextTypes, PTL DEF Spec

----------------------------------------------------------------------------
(* A daemon that nobody stopped can be reached.                            *)

\* A call of Stop that is not over.
Busy == {"take", "graceful", "drain", "listeners", "done"}

\* Where main is when the daemon has served nobody: before Start has listened,
\* and on the way out when it could not.
Before == {"off", "open", "listen", "close"}

\* Command c may still stop a daemon.
MayStop(c) ==
    \/ cli[c].pc \in {"idle", "probe"}
    \/ cli[c].pc = "call" /\ Head(cli[c].todo) = "Stop"
    \/ rpc[c].pc = "run" /\ rpc[c].op = "Stop"

\* Nobody can call daemon d, and no call is under way in it.
Unserved(d) == d \notin accepting /\ \A c \in Clients : ~ Serving(c, d)

\* Of one daemon: main has the lock from the moment it opens the store until it
\* closes it, and it closes it only when every Stop is over, unless there are
\* two.
ProcInv(d) ==
    /\ main[d] \in Owning => lock = d
    /\ main[d] \in Before => Unserved(d) /\ ~ StopBegun(d)
    /\ main[d] = "exit" => Unserved(d)
    /\ main[d] = "exiting" => Unserved(d) \/ StopBegun(d)
    /\ stop[d]["signal"].pc # "off" => main[d] \in {"stopping", "exiting", "exit"}
    /\ daemon[d].done => \E s \in Stoppers : stop[d][s].pc = "end"
    /\ work[d].pc # "off" => main[d] = "transport"
    /\ \A s \in Stoppers : stop[d][s].pc \in Busy => main[d] \in Owning \/ StoppedTwice(d)

\* A command stops one daemon, once.
StopsOnce == \A c \in Clients : MayStop(c) => \A d \in Daemons : stop[d][c].pc = "off"

ReachInv == (\A d \in Daemons : ProcInv(d)) /\ StopsOnce /\ RunningReachable

\* A command that has stopped a daemon is not going to stop one: quiet steps.
LEMMA QuietStops == ASSUME NEW c, Quiet(c), MayStop(c)' PROVE MayStop(c)
  <1>1. ASSUME NEW w \in Over, cli'[c] = NewCli(w)
        PROVE  cli'[c].pc \notin {"idle", "probe", "call"}
    BY <1>1 DEF NewCli, Over
  <1> QED BY <1>1 DEF Quiet, MayStop, InHandler

\* A step of the command itself, whose handler does not begin to run.
LEMMA OneStops ==
    ASSUME OnceInv, NEW c \in Clients, NEW cl, cli' = [cli EXCEPT ![c] = cl],
           \A x \in Clients : rpc'[x] = rpc[x] \/ rpc'[x].pc # "run",
           \/ MayStop(c)
           \/ cl.pc \notin {"idle", "probe", "call"}
           \/ cl.pc = "call" /\ Head(cl.todo) # "Stop"
    PROVE  \A x \in Clients : MayStop(x)' => MayStop(x)
  <1>1. cli'[c] = cl /\ \A x \in Clients \ {c} : cli'[x] = cli[x]
    BY DEF OnceInv
  <1>2. ASSUME NEW x \in Clients, MayStop(x)' PROVE MayStop(x)
    <2>1. CASE x # c
      BY <1>1, <1>2, <2>1 DEF MayStop
    <2>2. CASE x = c
      BY <1>1, <1>2, <2>2 DEF MayStop
    <2> QED BY <2>1, <2>2
  <1> QED BY <1>2

\* Action by action.
LEMMA StopsBack == OnceInv /\ [Next]_vars => \A c \in Clients : MayStop(c)' => MayStop(c)
  <1> DEFINE Back == \A c \in Clients : MayStop(c)' => MayStop(c)
  <1> SUFFICES ASSUME OnceInv, [Next]_vars PROVE Back
    OBVIOUS
  <1>q. AllQuiet => Back
    BY QuietStops DEF AllQuiet
  <1>i. UNCHANGED <<cli, rpc>> => Back
    BY DEF MayStop
  <1>r. ASSUME NEW c \in Clients, NEW how, how # "run", Reply(c, how), UNCHANGED cli PROVE Back
    <2>1. \A x \in Clients : rpc'[x] = rpc[x] \/ rpc'[x].pc # "run"
      <3>1. rpc'[c] = [rpc[c] EXCEPT !.pc = how] /\ RpcShape(rpc[c])
        BY <1>r DEF Reply, OnceInv, ClientInv
      <3>2. rpc'[c].pc = how
        BY <3>1 DEF RpcShape
      <3>3. \A x \in Clients \ {c} : rpc'[x] = rpc[x]
        BY <1>r DEF Reply, OnceInv
      <3> QED BY <1>r, <3>2, <3>3
    <2> QED BY <1>r, <2>1 DEF MayStop
  <1>t. ASSUME NEW a \in Daemons \cup Clients, NEW ok \in BOOLEAN, TransportDone(a, ok),
               UNCHANGED cli
        PROVE  Back
    <2>1. CASE a \in Daemons
      BY <1>i, <1>t, <2>1 DEF TransportDone
    <2>2. CASE a \notin Daemons
      <3>1. Reply(a, IF ok THEN "ok" ELSE "err")
        BY <1>t, <2>2 DEF TransportDone, Reply
      <3> QED BY <1>r, <1>t, <2>2, <3>1
    <2> QED BY <2>1, <2>2
  <1>e. ASSUME NEW c \in Clients, NEW w \in Over, cli' = [cli EXCEPT ![c] = NewCli(w)],
               \A x \in Clients : rpc'[x] = rpc[x] \/ rpc'[x].pc # "run"
        PROVE  Back
    <2>1. NewCli(w).pc \notin {"idle", "probe", "call"}
      BY DEF NewCli, Over
    <2> QED BY <1>e, <2>1, OneStops
  <1> HIDE DEF Back
  <1>1. ASSUME NEW d \in Daemons, Launch(d) \/ MainStep(d) \/ Signal(d) \/ Crash(d) PROVE Back
    <2>1. CASE Exit(d) \/ Crash(d)
      BY <1>q, <2>1, DieQuiet DEF Exit, Crash
    <2>2. CASE ~ (Exit(d) \/ Crash(d))
      BY <1>i, <1>1, <2>2
      DEF Launch, MainStep, OpenStore, OpenTimeout, Start, StartFails, CloseStore, Signal, clientVars
    <2> QED BY <2>1, <2>2
  <1>2. ASSUME NEW d \in Daemons, NEW s \in Stoppers, StopStep(d, s) PROVE Back
    <2>1. CASE StopDeadline(d, s)
      BY <1>q, <2>1, StopDeadlineQuiet
    <2>2. CASE StopDone(d, s)
      BY <1>i, <1>q, <2>2, DieQuiet DEF StopDone, clientVars
    <2>3. CASE StopTake(d, s) \/ StopAccepting(d, s) \/ StopDrained(d, s) \/ StopListeners(d, s)
      BY <1>i, <2>3 DEF StopTake, StopAccepting, StopDrained, StopListeners, clientVars
    <2> QED BY <1>2, <2>1, <2>2, <2>3 DEF StopStep
  <1>3. ASSUME NEW a \in Daemons \cup Clients, TransportStep(a) PROVE Back
    BY <1>i, <1>t, <1>3 DEF TransportStep, TransportRead, TransportListen, TransportFails,
                            TransportPersist, clientVars
  <1>4. ASSUME NEW c \in Clients, HandlerStep(c) \/ EndSubscribe(c) \/ ZenAnswers(c) PROVE Back
    <2>1. CASE Answer(c)
      <3>1. \A x \in Clients : rpc'[x] = rpc[x] \/ rpc'[x].pc # "run"
        BY <2>1 DEF Answer, OnceInv, NoRpc
      <3>2. CASE /\ cli[c].pc = "wait" /\ Len(cli[c].todo) > 1
                 /\ cli' = [cli EXCEPT ![c] = [cli[c] EXCEPT !.pc = "call", !.todo = Tail(@)]]
        <4>1. CliShape(cli[c]) /\ List(cli[c].todo)
          BY <3>2 DEF OnceInv, ClientInv
        <4>2. PICK cl : /\ cli' = [cli EXCEPT ![c] = cl]
                        /\ cl = [cli[c] EXCEPT !.pc = "call", !.todo = Tail(cli[c].todo)]
          BY <3>2, <4>1 DEF CliShape
        <4>3. cl.pc = "call" /\ cl.todo = Tail(cli[c].todo)
          BY <4>1, <4>2 DEF CliShape
        <4>4. Head(cl.todo) # "Stop"
          BY <3>2, <4>1, <4>3, ListTail
        <4> QED BY <3>1, <4>2, <4>3, <4>4, OneStops DEF Back
      <3>3. CASE cli' = cli
        BY <3>1, <3>3 DEF MayStop, Back
      <3> QED BY <1>e, <2>1, <3>1, <3>2, <3>3 DEF Answer, CutOff, Over
    <2>2. CASE RotateClose(c) \/ RotateDelete(c)
      BY <1>i, <1>t, <2>2 DEF RotateClose, RotateDelete, clientVars
    <2>3. CASE HandleUnlock(c) \/ HandleSign(c) \/ HandleWhoami(c) \/ AskZen(c) \/ ZenAnswers(c)
      BY <1>r, <2>3 DEF HandleUnlock, HandleSign, HandleWhoami, AskZen, ZenAnswers
    <2>4. CASE \/ HandlerFails(c) \/ HandleRead(c) \/ HandleMark(c) \/ HandleLock(c)
               \/ HandleStop(c) \/ EndSubscribe(c)
      BY <1>r, <2>4 DEF HandlerFails, HandleRead, HandleMark, HandleLock, HandleStop, EndSubscribe
    <2> QED BY <1>4, <2>1, <2>2, <2>3, <2>4 DEF HandlerStep
  <1>5. ASSUME NEW c \in Clients, ClientStep(c) \/ Interrupt(c) PROVE Back
    <2>1. CASE DialClient(c)
      <3>1. MayStop(c) /\ UNCHANGED rpc
        BY <2>1 DEF DialClient, MayStop
      <3>2. \E cl : cli' = [cli EXCEPT ![c] = cl]
        BY <2>1 DEF DialClient, SetCli
      <3> QED BY <3>1, <3>2, OneStops DEF Back
    <2>2. CASE Call(c) /\ sock \in accepting
      <3>1. /\ cli' = [cli EXCEPT ![c].pc = "wait"] /\ cli[c].pc = "call"
            /\ rpc' = [rpc EXCEPT ![c] = [pc |-> "run", at |-> sock, op |-> Head(cli[c].todo)]]
        BY <2>2 DEF Call, SetCli
      <3>2. CliShape(cli[c])
        BY DEF OnceInv, ClientInv
      <3>3. cli'[c].pc = "wait" /\ rpc'[c].op = Head(cli[c].todo)
        BY <3>1, <3>2 DEF OnceInv, CliShape
      <3>4. MayStop(c)' => MayStop(c)
        BY <3>1, <3>3 DEF MayStop
      <3>5. \A x \in Clients \ {c} : cli'[x] = cli[x] /\ rpc'[x] = rpc[x]
        BY <3>1 DEF OnceInv
      <3> QED BY <3>4, <3>5 DEF MayStop, Back
    <2>3. CASE Call(c) /\ sock \notin accepting
      BY <1>e, <2>3 DEF Call, CutOff, Over
    <2>4. CASE OpenAt(c)
      <3>1. CASE SetCli(c, "step")
        <4>1. CliShape(cli[c])
          BY DEF OnceInv, ClientInv
        <4>2. [cli[c] EXCEPT !.pc = "step"].pc \notin {"idle", "probe", "call"}
          BY <4>1 DEF CliShape
        <4>3. UNCHANGED rpc
          BY <2>4 DEF OpenAt
        <4> QED BY <3>1, <4>2, <4>3, OneStops DEF SetCli, Back
      <3> QED BY <1>e, <2>4, <3>1 DEF OpenAt, EndCli, Over
    <2>5. CASE OfflineStep(c)
      <3>1. PICK new : Transact(c, Head(cli[c].todo), new)
        BY <2>5 DEF OfflineStep
      <3> DEFINE cl == [pc |-> IF new = Nil \/ Len(cli[c].todo) = 1 THEN "close" ELSE "step",
                        cmd |-> cli[c].cmd, pass |-> cli[c].pass,
                        todo |-> Tail(cli[c].todo), ok |-> new # Nil]
      <3>2. cli' = [cli EXCEPT ![c] = cl]
        BY <3>1 DEF Transact
      <3>3. cl.pc \notin {"idle", "probe", "call"}
        OBVIOUS
      <3>4. UNCHANGED rpc
        BY <2>5 DEF OfflineStep
      <3> HIDE DEF cl
      <3> QED BY <3>2, <3>3, <3>4, OneStops DEF Back
    <2>6. CASE CloseAt(c) \/ WaitForSocketGone(c) \/ SpawnDetached(c) \/ Interrupt(c)
      BY <1>e, <2>6 DEF CloseAt, WaitForSocketGone, SpawnDetached, Interrupt, EndCli, Over
    <2> QED BY <1>5, <2>1, <2>2, <2>3, <2>4, <2>5, <2>6 DEF ClientStep
  <1>6. ASSUME NEW c \in Clients, NEW cmd \in Commands, NEW pass \in Pass, Run(c, cmd, pass)
        PROVE  Back
    <2>1. MayStop(c) /\ UNCHANGED rpc /\ \E cl : cli' = [cli EXCEPT ![c] = cl]
      BY <1>6 DEF Run, MayStop
    <2> QED BY <2>1, OneStops DEF Back
  <1>7. CASE UNCHANGED vars
    BY <1>i, <1>7 DEF vars, clientVars
  <1> QED BY <1>1, <1>2, <1>3, <1>4, <1>5, <1>6, <1>7 DEF Next

\* A handler that works on the transport is a rotation under way.
Rotating(c) == rpc[c].pc = "run" /\ rpc[c].op = "RotateKey"

ClientWork == \A c \in Clients : work[c].pc # "off" => Rotating(c)

\* Action by action: no handler ends while its rotation works, but with the
\* daemon.
LEMMA ClientWorkKept == TypeInv /\ ClientWork /\ [Next]_vars => ClientWork'
  <1> SUFFICES ASSUME TypeInv, ClientWork, [Next]_vars PROVE ClientWork'
    OBVIOUS
  <1>t. /\ work \in [Daemons \cup Clients -> WorkRec]
        /\ rpc = [c \in Clients |-> rpc[c]]
        /\ \A c \in Clients : RpcShape(rpc[c]) /\ c \notin Daemons
    BY ControlAssumption DEF TypeInv, DaemonTypes, OnceInv, ClientInv
  <1>i. UNCHANGED <<work, rpc>> => ClientWork'
    BY DEF ClientWork, Rotating
  <1>r. ASSUME UNCHANGED work, NEW c \in Clients, work[c].pc = "off",
               \A x \in Clients \ {c} : rpc'[x] = rpc[x]
        PROVE  ClientWork'
    BY <1>r DEF ClientWork, Rotating
  <1>o. ASSUME NEW c \in Clients, ~ Rotating(c), UNCHANGED work,
               \/ \E how : Reply(c, how)
               \/ \E r : rpc' = [rpc EXCEPT ![c] = r]
        PROVE  ClientWork'
    <2>1. work[c].pc = "off"
      BY <1>o DEF ClientWork
    <2>2. \A x \in Clients \ {c} : rpc'[x] = rpc[x]
      BY <1>o, <1>t DEF Reply
    <2> QED BY <1>o, <1>r, <2>1, <2>2
  <1>d. ASSUME NEW a \in Daemons \cup Clients, NEW ok, TransportDone(a, ok) PROVE ClientWork'
    <2>1. work'[a].pc = "off" /\ \A x \in Clients \ {a} : work'[x] = work[x] /\ rpc'[x] = rpc[x]
      BY <1>d, <1>t DEF TransportDone, NoWork
    <2> QED BY <2>1 DEF ClientWork, Rotating
  <1>w. ASSUME NEW a \in Daemons \cup Clients, work[a].pc # "off" \/ a \in Daemons, UNCHANGED rpc,
               \A x \in Clients \ {a} : work'[x] = work[x]
        PROVE  ClientWork'
    BY <1>t, <1>w DEF ClientWork, Rotating
  <1>x. ASSUME NEW d \in Daemons, Die(d) PROVE ClientWork'
    <2>1. ASSUME NEW c \in Clients, work'[c].pc # "off"
          PROVE  work'[c] = work[c] /\ rpc'[c] = rpc[c]
      <3>1. work'[c] = work[c] /\ rpc[c].at # d
        BY <1>x, <2>1 DEF Die, NoWork
      <3> QED BY <1>x, <3>1 DEF Die, Serving
    <2> QED BY <2>1 DEF ClientWork, Rotating
  <1>1. ASSUME NEW d \in Daemons, Launch(d) \/ MainStep(d) \/ Signal(d) \/ Crash(d)
        PROVE  ClientWork'
    <2>1. CASE Exit(d) \/ Crash(d)
      BY <1>x, <2>1 DEF Exit, Crash
    <2>2. CASE Start(d)
      BY <1>t, <1>w, <2>2 DEF Start, clientVars
    <2>3. CASE Launch(d) \/ OpenStore(d) \/ OpenTimeout(d) \/ StartFails(d) \/ CloseStore(d) \/ Signal(d)
      BY <1>i, <2>3 DEF Launch, OpenStore, OpenTimeout, StartFails, CloseStore, Signal, clientVars
    <2> QED BY <1>1, <2>1, <2>2, <2>3 DEF MainStep
  <1>2. ASSUME NEW d \in Daemons, NEW s \in Stoppers, StopStep(d, s) PROVE ClientWork'
    <2>1. CASE StopDeadline(d, s)
      <3>1. \A c \in Clients : rpc'[c] = rpc[c] \/ ~ Rotating(c)
        BY <2>1 DEF StopDeadline, Rotating
      <3>2. work' = work
        BY <2>1 DEF StopDeadline
      <3> QED BY <3>1, <3>2 DEF ClientWork, Rotating
    <2>2. CASE StopDone(d, s)
      BY <1>i, <1>x, <2>2 DEF StopDone, clientVars
    <2>3. CASE StopTake(d, s) \/ StopAccepting(d, s) \/ StopDrained(d, s) \/ StopListeners(d, s)
      BY <1>i, <2>3 DEF StopTake, StopAccepting, StopDrained, StopListeners, clientVars
    <2> QED BY <1>2, <2>1, <2>2, <2>3 DEF StopStep
  <1>3. ASSUME NEW a \in Daemons \cup Clients, TransportStep(a) PROVE ClientWork'
    <2>1. work[a].pc # "off"
      BY <1>3 DEF TransportStep, TransportRead, TransportListen, TransportFails, TransportPersist
    <2>2. \/ \E ok : TransportDone(a, ok)
          \/ (\E v : work' = [work EXCEPT ![a] = v]) /\ UNCHANGED rpc
      BY <1>3 DEF TransportStep, TransportRead, TransportListen, TransportFails, TransportPersist,
                  clientVars
    <2> QED BY <1>d, <1>t, <1>w, <2>1, <2>2
  <1>4. ASSUME NEW c \in Clients, HandlerStep(c) \/ EndSubscribe(c) \/ ZenAnswers(c) PROVE ClientWork'
    <2>1. CASE RotateClose(c)
      <3>1. Rotating(c) /\ UNCHANGED rpc /\ \A x \in Clients \ {c} : work'[x] = work[x]
        BY <1>t, <2>1 DEF RotateClose, Rotating, clientVars
      <3> QED BY <3>1 DEF ClientWork, Rotating
    <2>2. CASE RotateDelete(c)
      <3>1. \/ TransportDone(c, FALSE)
            \/ work[c].pc # "off" /\ UNCHANGED rpc /\ work' = [work EXCEPT ![c].pc = "read"]
        BY <2>2 DEF RotateDelete
      <3> QED BY <1>d, <1>t, <1>w, <3>1
    <2>3. CASE HandlerFails(c)
      <3>1. work[c].pc = "off" /\ UNCHANGED work /\ \A x \in Clients \ {c} : rpc'[x] = rpc[x]
        BY <1>t, <2>3 DEF HandlerFails, Reply, daemonVars
      <3> QED BY <1>r, <3>1
    <2>4. CASE Answer(c)
      <3>1. ~ Rotating(c) /\ UNCHANGED work /\ \E r : rpc' = [rpc EXCEPT ![c] = r]
        BY <2>4 DEF Answer, Rotating, daemonVars
      <3> QED BY <1>o, <3>1
    <2>5. CASE \/ HandleRead(c) \/ HandleWhoami(c) \/ HandleMark(c) \/ HandleUnlock(c)
               \/ HandleLock(c) \/ HandleSign(c) \/ HandleStop(c) \/ EndSubscribe(c)
               \/ AskZen(c) \/ ZenAnswers(c)
      <3>1. ~ Rotating(c) /\ UNCHANGED work /\ \E how : Reply(c, how)
        BY <2>5 DEF HandleRead, HandleWhoami, HandleMark, HandleUnlock, HandleLock, HandleSign,
                    HandleStop, EndSubscribe, AskZen, ZenAnswers, Handling, Rotating, daemonVars
      <3> QED BY <1>o, <3>1
    <2> QED BY <1>4, <2>1, <2>2, <2>3, <2>4, <2>5 DEF HandlerStep
  <1>5. ASSUME NEW c \in Clients, ClientStep(c) \/ Interrupt(c) PROVE ClientWork'
    <2>1. CASE Call(c) /\ sock \in accepting
      <3>1. UNCHANGED work /\ cli[c].pc = "call" /\ \E r : rpc' = [rpc EXCEPT ![c] = r]
        BY <2>1 DEF Call, daemonVars
      <3>2. ~ Rotating(c)
        BY <3>1 DEF TypeInv, OnceInv, ClientInv, InHandler, Over, Rotating
      <3> QED BY <1>o, <3>1, <3>2
    <2>2. CASE ~ (Call(c) /\ sock \in accepting)
      BY <1>i, <1>5, <2>2 DEF ClientStep, DialClient, Call, OpenAt, OfflineStep, CloseAt,
                              WaitForSocketGone, SpawnDetached, Interrupt, daemonVars
    <2> QED BY <2>1, <2>2
  <1>6. ASSUME NEW c \in Clients, NEW cmd \in Commands, NEW pass \in Pass, Run(c, cmd, pass)
        PROVE  ClientWork'
    BY <1>i, <1>6 DEF Run, daemonVars
  <1>7. CASE UNCHANGED vars
    BY <1>i, <1>7 DEF vars, daemonVars, clientVars
  <1> QED BY <1>1, <1>2, <1>3, <1>4, <1>5, <1>6, <1>7 DEF Next

\* What a step of others leaves of daemon d.
StopsSame(d) == \A s \in Stoppers : stop'[d][s].pc = stop[d][s].pc

ProcSame(d) ==
    /\ main'[d] = main[d]
    /\ lock = d => lock' = d
    /\ StopsSame(d)
    /\ daemon'[d].done => daemon[d].done
    /\ work'[d].pc # "off" => work[d].pc # "off"
    /\ Unserved(d) => Unserved(d)'

\* No call comes to a daemon: those under way go on or end.
RpcOld ==
    /\ accepting' \subseteq accepting
    /\ \A c \in Clients : rpc'[c].pc # "none" => rpc[c].pc # "none" /\ rpc'[c].at = rpc[c].at

\* A daemon nobody can call stays one, when no call comes.
LEMMA UnservedKept == ASSUME RpcOld, NEW d, Unserved(d) PROVE Unserved(d)'
  BY DEF RpcOld, Unserved, Serving

\* Such a step keeps the daemon's part of the invariant.
LEMMA ProcKept == ASSUME NEW d \in Daemons, ProcInv(d), ProcSame(d) PROVE ProcInv(d)'
  <1>1. StopBegun(d)' <=> StopBegun(d)
    BY DEF ProcSame, StopsSame, StopBegun
  <1>2. StoppedTwice(d)' <=> StoppedTwice(d)
    BY DEF ProcSame, StopsSame, StoppedTwice
  <1>3. "signal" \in Stoppers
    BY DEF Stoppers
  <1> QED BY <1>1, <1>2, <1>3 DEF ProcInv, ProcSame, StopsSame

\* One call of Stop moves on.
StopSet(d, s, w) ==
    /\ stop'[d][s].pc = w
    /\ \A t \in Stoppers \ {s} : stop'[d][t].pc = stop[d][t].pc
    /\ \A x \in Daemons \ {d} : StopsSame(x)

\* Stop's assignments are steps of that kind.
LEMMA StopMoves ==
    ASSUME DaemonTypes, NEW d \in Daemons, NEW s \in Stoppers, NEW w
    PROVE  /\ stop' = [stop EXCEPT ![d][s].pc = w] => StopSet(d, s, w)
           /\ \A r : stop' = [stop EXCEPT ![d][s] = r] => StopSet(d, s, r.pc)
  <1>1. /\ stop \in [Daemons -> [Stoppers -> StopRec]] /\ stop[d] \in [Stoppers -> StopRec]
        /\ stop[d][s] \in StopRec
    BY DEF DaemonTypes
  <1>2. ASSUME NEW r, stop' = [stop EXCEPT ![d][s] = r] PROVE StopSet(d, s, r.pc)
    <2>1. stop'[d] = [stop[d] EXCEPT ![s] = r] /\ \A x \in Daemons \ {d} : stop'[x] = stop[x]
      BY <1>1, <1>2
    <2>2. stop'[d][s] = r /\ \A t \in Stoppers \ {s} : stop'[d][t] = stop[d][t]
      BY <1>1, <2>1
    <2> QED BY <2>1, <2>2 DEF StopSet, StopsSame
  <1>3. ASSUME stop' = [stop EXCEPT ![d][s].pc = w] PROVE StopSet(d, s, w)
    <2>1. PICK r : r = [stop[d][s] EXCEPT !.pc = w]
      OBVIOUS
    <2>2. stop' = [stop EXCEPT ![d][s] = r] /\ r.pc = w
      BY <1>1, <1>3, <2>1 DEF StopRec
    <2> QED BY <1>2, <2>2
  <1> QED BY <1>2, <1>3

\* The end of a process.
LEMMA DieProc ==
    ASSUME TypeInv, NEW d \in Daemons, Die(d), \A x \in Daemons : ProcInv(x)
    PROVE  /\ \A x \in Daemons : ProcInv(x)'
           /\ \A x \in Daemons, s \in Stoppers : (stop'[x][s].pc = "off") = (stop[x][s].pc = "off")
  <1>t. /\ main \in [Daemons -> Mains] /\ daemon \in [Daemons -> Field]
        /\ stop \in [Daemons -> [Stoppers -> StopRec]]
    BY DEF TypeInv, DaemonTypes
  <1>1. RpcOld
    BY DEF Die, RpcOld, NoRpc
  <1>2. /\ main'[d] = "exit" /\ \A x \in Daemons \ {d} : main'[x] = main[x]
        /\ daemon'[d].done = FALSE /\ \A x \in Daemons \ {d} : daemon'[x] = daemon[x]
    BY <1>t DEF Die, SetMain, NewDaemon
  <1>3. \A s \in Stoppers : stop'[d][s].pc = IF stop[d][s].pc = "off" THEN "off" ELSE "end"
    BY <1>t DEF Die, NewStop
  <1>4. \A x \in Daemons \ {d} : stop'[x] = stop[x]
    BY <1>t DEF Die
  <1>5. \A x \in Daemons : work'[x].pc # "off" => x # d /\ work[x].pc # "off"
    BY DEF Die, NoWork
  <1>6. Unserved(d)'
    BY DEF Die, Unserved, Serving, NoRpc
  <1>7. ProcInv(d)'
    <2>1. "exit" \notin Owning /\ "exit" \notin Before /\ "end" \notin Busy /\ "off" \notin Busy
      BY DEF Owning, Before, Busy
    <2> QED BY <1>2, <1>3, <1>5, <1>6, <2>1 DEF ProcInv
  <1>8. ASSUME NEW x \in Daemons \ {d} PROVE ProcInv(x)'
    <2>1. lock = x => lock' = x
      BY DEF Die
    <2>2. ProcSame(x)
      BY <1>1, <1>2, <1>4, <1>5, <2>1, UnservedKept DEF ProcSame, StopsSame
    <2> QED BY <2>2, ProcKept
  <1> QED BY <1>3, <1>4, <1>7, <1>8

\* A step of daemon d itself: what is left to show.
LEMMA OneProc ==
    ASSUME NEW d \in Daemons, \A x \in Daemons : ProcInv(x), ProcInv(d)',
           \A x \in Daemons \ {d} : ProcSame(x)
    PROVE  \A x \in Daemons : ProcInv(x)'
  BY ProcKept

\* What a step of main leaves of the others.
LEMMA OthersSame ==
    ASSUME TypeInv, NEW d \in Daemons, RpcOld \/ UNCHANGED <<rpc, accepting>>,
           NEW w, SetMain(d, w) \/ UNCHANGED main,
           lock' = lock \/ lock = Nil \/ lock = d,
           \A x \in Daemons \ {d} : /\ StopsSame(x) /\ daemon'[x].done = daemon[x].done
                                    /\ work'[x].pc = work[x].pc
    PROVE  \A x \in Daemons \ {d} : ProcSame(x)
  <1>1. \A x \in Daemons \ {d} : main'[x] = main[x]
    BY DEF SetMain, TypeInv, DaemonTypes
  <1>2. \A x \in Daemons \ {d} : lock = x => lock' = x
    BY ControlAssumption
  <1>3. \A x \in Daemons \ {d} : Unserved(x) => Unserved(x)'
    BY UnservedKept DEF Unserved, Serving
  <1> QED BY <1>1, <1>2, <1>3 DEF ProcSame

\* The steps of main before Start and on the way out.
LEMMA MainProc ==
    ASSUME TypeInv, NEW d \in Daemons, \A x \in Daemons : ProcInv(x),
           \/ Launch(d) \/ OpenStore(d) \/ OpenTimeout(d) \/ StartFails(d) \/ CloseStore(d)
           \/ main[d] = "off" /\ SetMain(d, "open") /\ UNCHANGED <<lock, accepting, daemon, stop, work, rpc>>
    PROVE  \A x \in Daemons : ProcInv(x)'
  <1>t. /\ main \in [Daemons -> Mains] /\ daemon \in [Daemons -> Field] /\ "signal" \in Stoppers
        /\ d # Nil /\ ProcInv(d)
    BY ControlAssumption DEF TypeInv, DaemonTypes, Stoppers
  <1>1. UNCHANGED <<accepting, stop, work, rpc>>
    BY DEF Launch, OpenStore, OpenTimeout, StartFails, CloseStore, clientVars
  <1>2. \A x \in Daemons : daemon'[x].done = daemon[x].done
    BY <1>t DEF Launch, OpenStore, OpenTimeout, StartFails, CloseStore, SetField, Field
  <1>3. \E w : SetMain(d, w)
    BY DEF Launch, OpenStore, OpenTimeout, StartFails, CloseStore
  <1>4. lock' = lock \/ lock = Nil \/ lock = d
    BY DEF Launch, OpenStore, OpenTimeout, StartFails, CloseStore, fileVars
  <1>5. \A x \in Daemons \ {d} : ProcSame(x)
    BY <1>1, <1>2, <1>3, <1>4, OthersSame DEF StopsSame
  <1>6. (StopBegun(d)' <=> StopBegun(d)) /\ (StoppedTwice(d)' <=> StoppedTwice(d))
        /\ (Unserved(d)' <=> Unserved(d))
    BY <1>1 DEF StopBegun, StoppedTwice, Unserved, Serving
  <1>b. main[d] \in Before => \A s \in Stoppers : stop[d][s].pc = "off"
    BY <1>t DEF ProcInv, StopBegun
  <1>w. work[d].pc # "off" => main[d] = "transport"
    BY <1>t DEF ProcInv
  <1>7. CASE Launch(d) \/ OpenTimeout(d) \/ StartFails(d) \/ OpenStore(d) \/ main[d] = "off"
    <2>1. /\ main[d] \in {"off", "open", "listen"} /\ main'[d] \in {"open", "listen", "close", "exit"}
          /\ main'[d] \in {"listen", "close"} => lock' = d \/ (lock' = lock /\ main[d] = "listen")
      BY <1>t, <1>7 DEF Launch, OpenStore, OpenTimeout, StartFails, CloseStore, SetMain, fileVars
    <2>2. Unserved(d) /\ ~ StopBegun(d) /\ (main[d] = "listen" => lock = d) /\ ~ daemon[d].done
      BY <1>t, <1>b, <2>1 DEF ProcInv, Before, Owning
    <2>3. main'[d] \in Owning => lock' = d
      BY <2>1, <2>2 DEF Owning
    <2>4. \A s \in Stoppers : stop'[d][s].pc = "off"
      BY <1>1, <2>1, <1>b DEF Before
    <2>5. "off" \notin Busy
      BY DEF Busy
    <2> QED BY <1>t, <1>1, <1>2, <1>5, <1>6, <1>w, <2>1, <2>2, <2>3, <2>4, <2>5, OneProc DEF ProcInv
  <1>8. CASE CloseStore(d)
    <2>1. main'[d] = "exiting" /\ (main[d] = "close" \/ (main[d] = "run" /\ daemon[d].done)
                                   \/ (main[d] = "stopping" /\ stop[d]["signal"].pc = "end"))
      BY <1>t, <1>8 DEF CloseStore, SetMain
    <2>2. main[d] = "close" => Unserved(d) /\ \A s \in Stoppers : stop[d][s].pc = "off"
      BY <1>t, <1>b DEF ProcInv, Before
    <2>3. main[d] # "close" => \E s \in Stoppers : stop[d][s].pc = "end"
      BY <1>t, <2>1 DEF ProcInv
    <2>4. Unserved(d) \/ StopBegun(d)
      BY <2>2, <2>3 DEF StopBegun
    <2>5. \A s \in Stoppers : stop[d][s].pc \in Busy => StoppedTwice(d)
      BY <2>2, <2>3 DEF StoppedTwice, Busy
    <2>6. "exiting" \notin Owning /\ "exiting" \notin Before /\ main[d] # "transport"
      BY <2>1 DEF Owning, Before
    <2> QED BY <1>t, <1>1, <1>2, <1>5, <1>6, <1>w, <2>1, <2>4, <2>5, <2>6, OneProc DEF ProcInv
  <1> QED BY <1>7, <1>8

\* Start and the signal.
LEMMA StartProc ==
    ASSUME TypeInv, NEW d \in Daemons, \A x \in Daemons : ProcInv(x), Start(d) \/ Signal(d)
    PROVE  \A x \in Daemons : ProcInv(x)'
  <1>t. /\ main \in [Daemons -> Mains] /\ daemon \in [Daemons -> Field] /\ "signal" \in Stoppers
        /\ work \in [Daemons \cup Clients -> WorkRec] /\ ProcInv(d)
    BY DEF TypeInv, DaemonTypes, Stoppers
  <1>1. CASE Start(d)
    <2>1. /\ main[d] = "listen" /\ main'[d] = "transport" /\ UNCHANGED <<lock, stop>>
          /\ daemon'[d].done = daemon[d].done
      BY <1>t, <1>1 DEF Start, SetMain, SetField, Field
    <2>2. \A s \in Stoppers : stop[d][s].pc = "off"
      BY <1>t, <2>1 DEF ProcInv, Before, StopBegun
    <2>3. "transport" \in Owning /\ "transport" \notin Before /\ "listen" \in Owning /\ "off" \notin Busy
      BY DEF Owning, Before, Busy
    <2>4. ProcInv(d)'
      BY <1>t, <2>1, <2>2, <2>3 DEF ProcInv
    <2>5. \A x \in Daemons \ {d} : /\ daemon'[x] = daemon[x] /\ work'[x] = work[x]
                                   /\ main'[x] = main[x]
      BY <1>t, <1>1 DEF Start, SetField, SetMain
    <2>6. \A x \in Daemons \ {d} : Unserved(x) => Unserved(x)'
      BY <1>1 DEF Start, Unserved, Serving, clientVars
    <2>7. \A x \in Daemons \ {d} : ProcSame(x)
      BY <2>1, <2>5, <2>6 DEF ProcSame, StopsSame
    <2> QED BY <2>4, <2>7, OneProc
  <1>2. CASE Signal(d)
    <2>1. /\ main[d] = "run" /\ main'[d] = "stopping"
          /\ UNCHANGED <<lock, daemon, work, rpc, accepting>>
      BY <1>t, <1>2 DEF Signal, SetMain, clientVars, fileVars
    <2>2. StopSet(d, "signal", "take")
      BY <1>t, <1>2, StopMoves DEF Signal, TypeInv
    <2>3. "stopping" \in Owning /\ "stopping" \notin Before /\ "run" \in Owning
      BY DEF Owning, Before
    <2>4. stop[d]["signal"].pc = "off"
      BY <1>t, <2>1 DEF ProcInv
    <2>5. daemon[d].done => \E s \in Stoppers : stop'[d][s].pc = "end"
      BY <1>t, <2>2, <2>4 DEF ProcInv, StopSet
    <2>6. ProcInv(d)'
      BY <1>t, <2>1, <2>3, <2>5 DEF ProcInv
    <2>7. \A x \in Daemons \ {d} : ProcSame(x)
      BY <1>2, <2>1, <2>2, OthersSame DEF StopSet, Signal
    <2> QED BY <2>6, <2>7, OneProc
  <1> QED BY <1>1, <1>2

\* Stop's own steps.
LEMMA StopProc ==
    ASSUME TypeInv, NEW d \in Daemons, NEW s \in Stoppers, \A x \in Daemons : ProcInv(x),
           StopStep(d, s)
    PROVE  \A x \in Daemons : ProcInv(x)'
  <1>t. /\ main \in [Daemons -> Mains] /\ daemon \in [Daemons -> Field] /\ "signal" \in Stoppers
        /\ DaemonTypes /\ ProcInv(d)
    BY DEF TypeInv, DaemonTypes, Stoppers
  <1>1. CASE Die(d)
    BY <1>1, DieProc
  <1>2. ASSUME NEW w \in Busy \cup {"end"}, stop[d][s].pc \in Busy, StopSet(d, s, w), RpcOld,
               UNCHANGED <<main, lock, work>>,
               \A x \in Daemons \ {d} : daemon'[x] = daemon[x],
               daemon'[d].done => daemon[d].done \/ w = "end"
        PROVE  \A x \in Daemons : ProcInv(x)'
    <2>1. \A x \in Daemons \ {d} : ProcSame(x)
      BY <1>2, UnservedKept DEF ProcSame, StopSet
    <2>2. \A t \in Stoppers : stop'[d][t].pc = "off" <=> stop[d][t].pc = "off"
      BY <1>2 DEF StopSet, Busy
    <2>3. (StopBegun(d)' <=> StopBegun(d)) /\ (StoppedTwice(d)' <=> StoppedTwice(d)) /\ StopBegun(d)
      BY <1>2, <2>2 DEF StopBegun, StoppedTwice, Busy
    <2>4. Unserved(d) => Unserved(d)'
      BY <1>2, UnservedKept
    <2>5. daemon'[d].done => \E t \in Stoppers : stop'[d][t].pc = "end"
      <3>1. CASE w = "end"
        BY <1>2, <3>1 DEF StopSet
      <3>2. CASE w # "end" /\ daemon'[d].done
        <4>1. PICK t \in Stoppers : stop[d][t].pc = "end"
          BY <1>t, <1>2, <3>2 DEF ProcInv
        <4>2. t # s
          BY <1>2, <4>1 DEF Busy
        <4> QED BY <1>2, <4>1, <4>2 DEF StopSet
      <3> QED BY <3>1, <3>2
    <2>6. \A t \in Stoppers : stop'[d][t].pc \in Busy => stop[d][t].pc \in Busy
      BY <1>2 DEF StopSet
    <2>7. ProcInv(d)'
      BY <1>t, <1>2, <2>2, <2>3, <2>4, <2>5, <2>6 DEF ProcInv
    <2> QED BY <2>1, <2>7, OneProc
  <1>3. CASE StopTake(d, s)
    <2>1. PICK r : /\ stop' = [stop EXCEPT ![d][s] = r]
                   /\ r = [pc |-> IF daemon[d].srv THEN "graceful" ELSE "listeners",
                           srv |-> daemon[d].srv, tc |-> daemon[d].tc]
      BY <1>3 DEF StopTake
    <2>2. StopSet(d, s, r.pc) /\ r.pc \in Busy /\ stop[d][s].pc \in Busy
      BY <1>t, <1>3, <2>1, StopMoves DEF Busy, StopTake
    <2>3. daemon'[d].done = daemon[d].done /\ \A x \in Daemons \ {d} : daemon'[x] = daemon[x]
      BY <1>t, <1>3 DEF StopTake, NewDaemon
    <2>4. RpcOld /\ UNCHANGED <<main, lock, work>>
      BY <1>3 DEF StopTake, RpcOld, clientVars, fileVars
    <2> QED BY <1>2, <2>2, <2>3, <2>4
  <1>4. CASE StopAccepting(d, s) \/ StopDrained(d, s) \/ StopListeners(d, s)
    <2>1. PICK w \in Busy \cup {"end"} : SetStop(d, s, w) /\ stop[d][s].pc \in Busy
      BY <1>4 DEF StopAccepting, StopDrained, StopListeners, Busy
    <2>2. RpcOld /\ UNCHANGED <<main, lock, work, daemon>>
      BY <1>4 DEF StopAccepting, StopDrained, StopListeners, RpcOld, clientVars, fileVars
    <2>3. StopSet(d, s, w)
      BY <1>t, <2>1, StopMoves DEF SetStop
    <2> QED BY <1>2, <2>1, <2>2, <2>3
  <1>5. CASE StopDeadline(d, s)
    <2>1. SetStop(d, s, "listeners") /\ stop[d][s].pc \in Busy /\ "listeners" \in Busy
      BY <1>5 DEF StopDeadline, Busy
    <2>2. RpcOld /\ UNCHANGED <<main, lock, work, daemon>>
      BY <1>5 DEF StopDeadline, RpcOld, NoRpc, fileVars
    <2>3. StopSet(d, s, "listeners")
      BY <1>t, <2>1, StopMoves DEF SetStop
    <2> QED BY <1>2, <2>1, <2>2, <2>3
  <1>6. CASE StopDone(d, s) /\ ~ Die(d)
    <2>1. SetStop(d, s, "end") /\ stop[d][s].pc \in Busy /\ SetField(d, "done", TRUE)
      BY <1>6 DEF StopDone, Busy
    <2>2. RpcOld /\ UNCHANGED <<main, lock, work>>
      BY <1>6 DEF StopDone, RpcOld, clientVars, fileVars
    <2>3. StopSet(d, s, "end")
      BY <1>t, <2>1, StopMoves DEF SetStop
    <2>4. \A x \in Daemons \ {d} : daemon'[x] = daemon[x]
      BY <1>t, <2>1 DEF SetField
    <2> QED BY <1>2, <2>1, <2>2, <2>3, <2>4
  <1> QED BY <1>1, <1>3, <1>4, <1>5, <1>6 DEF StopStep

\* Steps of handlers and commands that leave every daemon's main and Stop alone.
LEMMA AllSame ==
    ASSUME \A x \in Daemons : ProcInv(x), UNCHANGED <<main, stop>>,
           lock' = lock \/ lock \notin Daemons,
           \A x \in Daemons : daemon'[x].done = daemon[x].done,
           \A x \in Daemons : work'[x].pc # "off" => work[x].pc # "off",
           \A x \in Daemons : Unserved(x) => Unserved(x)'
    PROVE  \A x \in Daemons : ProcInv(x)'
  <1>1. \A x \in Daemons : ProcSame(x)
    BY DEF ProcSame, StopsSame
  <1> QED BY <1>1, ProcKept

\* startTransport.
LEMMA TransportProc ==
    ASSUME TypeInv, ClientWork, \A x \in Daemons : ProcInv(x),
           NEW a \in Daemons \cup Clients,
           TransportStep(a) \/ (a \in Clients /\ (RotateDelete(a) \/ RotateClose(a)))
    PROVE  \A x \in Daemons : ProcInv(x)'
  <1>t. /\ main \in [Daemons -> Mains] /\ daemon \in [Daemons -> Field] /\ "signal" \in Stoppers
        /\ work \in [Daemons \cup Clients -> WorkRec]
        /\ rpc = [c \in Clients |-> rpc[c]] /\ \A c \in Clients : RpcShape(rpc[c])
        /\ Daemons \cap Clients = {}
    BY ControlAssumption DEF TypeInv, DaemonTypes, Stoppers, OnceInv, ClientInv
  <1>1. UNCHANGED <<lock, accepting, stop>>
    BY DEF TransportStep, TransportRead, TransportListen, TransportFails, TransportPersist,
           RotateDelete, RotateClose, fileVars
  <1>2. \A x \in Daemons : daemon'[x].done = daemon[x].done
    <2>1. daemon' = daemon \/ \E q, k : SetField(q, "tc", k)
      BY DEF TransportStep, TransportRead, TransportListen, TransportFails, TransportPersist,
             RotateDelete, RotateClose
    <2> QED BY <1>t, <2>1 DEF SetField, Field
  <1>3. \/ \E ok : TransportDone(a, ok) /\ work[a].pc # "off"
        \/ /\ UNCHANGED <<main, rpc>>
           /\ work[a].pc # "off" \/ a \in Clients
           /\ (\E v : work' = [work EXCEPT ![a] = v]) \/ work' = [work EXCEPT ![a].pc = "read"]
    BY DEF TransportStep, TransportRead, TransportListen, TransportFails, TransportPersist,
           RotateDelete, RotateClose, clientVars
  <1>4. \A x \in Daemons \ {a} : work'[x] = work[x]
    BY <1>t, <1>3 DEF TransportDone
  <1>5. CASE UNCHANGED <<main, rpc>>
    <2>1. \A x \in Daemons : work'[x].pc # "off" => work[x].pc # "off"
      BY <1>3, <1>4, <1>t DEF TransportDone, NoWork
    <2>2. \A x \in Daemons : Unserved(x) => Unserved(x)'
      BY <1>1, <1>5 DEF Unserved, Serving
    <2> QED BY <1>1, <1>2, <1>5, <2>1, <2>2, AllSame
  <1>6. ASSUME NEW ok, TransportDone(a, ok), work[a].pc # "off", a \in Clients
        PROVE  \A x \in Daemons : ProcInv(x)'
    <2>1. Rotating(a) /\ UNCHANGED main /\ \E how : rpc' = [rpc EXCEPT ![a].pc = how]
      BY <1>t, <1>6 DEF ClientWork, TransportDone
    <2>2. /\ rpc'[a].at = rpc[a].at /\ rpc[a].pc # "none"
          /\ \A c \in Clients \ {a} : rpc'[c] = rpc[c]
      BY <1>t, <1>6, <2>1 DEF RpcShape, Rotating
    <2>3. RpcOld
      BY <1>1, <2>2 DEF RpcOld
    <2>4. \A x \in Daemons : work'[x].pc # "off" => work[x].pc # "off"
      BY <1>4, <1>6, <1>t
    <2> QED BY <1>1, <1>2, <2>1, <2>3, <2>4, UnservedKept, AllSame
  <1>7. ASSUME NEW ok, TransportDone(a, ok), work[a].pc # "off", a \in Daemons
        PROVE  \A x \in Daemons : ProcInv(x)'
    <2>1. /\ main[a] = "transport" /\ main'[a] = "run" /\ SetMain(a, "run") /\ UNCHANGED rpc
          /\ work'[a].pc = "off"
      BY <1>t, <1>7 DEF TransportDone, NoWork, SetMain, ProcInv
    <2>2. "run" \in Owning /\ "run" \notin Before /\ "transport" \in Owning
      BY DEF Owning, Before
    <2>3. \A x \in Daemons \ {a} : ProcSame(x)
      BY <1>1, <1>2, <1>4, <1>7, <2>1, OthersSame DEF StopsSame
    <2>4. ProcInv(a)
      BY <1>7
    <2>5. ProcInv(a)'
      BY <1>t, <1>1, <1>2, <1>7, <2>1, <2>2, <2>4 DEF ProcInv
    <2> QED BY <1>7, <2>3, <2>5, OneProc
  <1>8. ASSUME NEW ok, TransportDone(a, ok), work[a].pc # "off"
        PROVE  \A x \in Daemons : ProcInv(x)'
    <2>1. CASE a \in Daemons
      BY <1>7, <1>8, <2>1
    <2>2. CASE a \in Clients
      BY <1>6, <1>8, <2>2
    <2> QED BY <2>1, <2>2
  <1>9. UNCHANGED <<main, rpc>> \/ \E ok : TransportDone(a, ok) /\ work[a].pc # "off"
    BY <1>3
  <1> QED BY <1>5, <1>8, <1>9, Zenon

\* The handlers.
LEMMA HandlerProc ==
    ASSUME TypeInv, \A x \in Daemons : ProcInv(x), NEW c \in Clients,
           \/ HandlerFails(c) \/ HandleRead(c) \/ HandleWhoami(c) \/ HandleMark(c)
           \/ HandleUnlock(c) \/ HandleLock(c) \/ HandleSign(c) \/ EndSubscribe(c) \/ Answer(c)
           \/ AskZen(c) \/ ZenAnswers(c)
    PROVE  \A x \in Daemons : ProcInv(x)'
  <1>t. /\ daemon \in [Daemons -> Field]
        /\ rpc = [x \in Clients |-> rpc[x]] /\ RpcShape(rpc[c])
    BY DEF TypeInv, DaemonTypes, OnceInv, ClientInv
  <1>1. UNCHANGED <<main, stop, lock, work, accepting>>
    BY DEF HandlerFails, HandleRead, HandleWhoami, HandleMark, HandleUnlock, HandleLock,
           HandleSign, EndSubscribe, AskZen, ZenAnswers, KeepKey, Answer, fileVars, daemonVars
  <1>2. \A x \in Daemons : daemon'[x].done = daemon[x].done
    <2>1. daemon' = daemon \/ \E q, k : SetField(q, "unlocked", k)
      BY DEF HandlerFails, HandleRead, HandleWhoami, HandleMark, HandleUnlock, HandleLock,
             HandleSign, EndSubscribe, AskZen, ZenAnswers, KeepKey, Answer, daemonVars
    <2> QED BY <1>t, <2>1 DEF SetField, Field
  <1>3. rpc[c].pc # "none"
    BY DEF HandlerFails, HandleRead, HandleWhoami, HandleMark, HandleUnlock, HandleLock,
           HandleSign, EndSubscribe, AskZen, ZenAnswers, KeepKey, Answer, Handling
  <1>4. (\E how : Reply(c, how)) \/ rpc' = [rpc EXCEPT ![c] = NoRpc]
    BY DEF HandlerFails, HandleRead, HandleWhoami, HandleMark, HandleUnlock, HandleLock,
           HandleSign, EndSubscribe, AskZen, ZenAnswers, KeepKey, Answer
  <1>5. /\ \A x \in Clients \ {c} : rpc'[x] = rpc[x]
        /\ rpc'[c].pc = "none" \/ rpc'[c].at = rpc[c].at
    BY <1>t, <1>4 DEF Reply, RpcShape, NoRpc
  <1>6. RpcOld
    BY <1>1, <1>3, <1>5 DEF RpcOld
  <1> QED BY <1>1, <1>2, <1>6, UnservedKept, AllSame

\* Stop's handler: the daemon is served, so it is not over; if main has closed
\* the store, another Stop has begun.
LEMMA HandleStopProc ==
    ASSUME TypeInv, \A x \in Daemons : ProcInv(x), StopsOnce, NEW c \in Clients, HandleStop(c)
    PROVE  \A x \in Daemons : ProcInv(x)'
  <1>t. /\ main \in [Daemons -> Mains] /\ "signal" \in Stoppers /\ c \in Stoppers /\ c # "signal"
        /\ DaemonTypes
        /\ rpc = [x \in Clients |-> rpc[x]] /\ RpcShape(rpc[c])
    BY ControlAssumption DEF TypeInv, DaemonTypes, Stoppers, OnceInv, ClientInv
  <1>1. /\ rpc[c].pc = "run" /\ rpc[c].op = "Stop" /\ Reply(c, "ok")
        /\ UNCHANGED <<main, lock, daemon, work, accepting>>
    BY DEF HandleStop, Handling, fileVars
  <1>2. PICK d \in Daemons : d = rpc[c].at /\ Serving(c, d)
    BY <1>1 DEF TypeInv, RpcTypes, RpcRec, Serving
  <1>3. StopSet(d, c, "take") /\ stop[d][c].pc = "off"
    <2>1. stop' = [stop EXCEPT ![d][c].pc = "take"]
      BY <1>2 DEF HandleStop
    <2>2. MayStop(c)
      BY <1>1 DEF MayStop
    <2> QED BY <1>t, <1>2, <2>1, <2>2, StopMoves DEF StopsOnce
  <1>4. RpcOld
    <2>1. rpc'[c].at = rpc[c].at /\ \A x \in Clients \ {c} : rpc'[x] = rpc[x]
      BY <1>t, <1>1 DEF Reply, RpcShape
    <2> QED BY <1>1, <2>1 DEF RpcOld
  <1>5. \A x \in Daemons \ {d} : ProcSame(x)
    BY <1>1, <1>2, <1>3, <1>4, UnservedKept DEF ProcSame, StopSet
  <1>6. ProcInv(d) /\ ~ Unserved(d)
    BY <1>2 DEF Unserved
  <1>7. main[d] \in Owning \/ (main[d] = "exiting" /\ StopBegun(d))
    BY <1>t, <1>2, <1>6 DEF ProcInv, Mains, Before
  <1>8. StopBegun(d)' /\ (StopBegun(d) => StoppedTwice(d)')
    <2>1. ASSUME NEW s \in Stoppers, stop[d][s].pc # "off" PROVE StoppedTwice(d)'
      <3>1. s # c /\ stop'[d][s].pc # "off"
        BY <1>3, <2>1 DEF StopSet
      <3> QED BY <1>t, <1>3, <3>1 DEF StoppedTwice, StopSet
    <2> QED BY <1>t, <1>3, <2>1 DEF StopBegun, StopSet
  <1>9. \A t \in Stoppers : t # c => stop'[d][t].pc = stop[d][t].pc
    BY <1>3 DEF StopSet
  <1>10. daemon[d].done => \E t \in Stoppers : stop'[d][t].pc = "end"
    BY <1>3, <1>6, <1>9 DEF ProcInv
  <1>11. main[d] \notin Before /\ main[d] # "exit"
    BY <1>6 DEF ProcInv
  <1>12. \A t \in Stoppers : stop'[d][t].pc \in Busy => main[d] \in Owning \/ StoppedTwice(d)'
    BY <1>7, <1>8
  <1>13. stop'[d]["signal"].pc = stop[d]["signal"].pc
    BY <1>t, <1>9
  <1>14. ProcInv(d)'
    BY <1>1, <1>6, <1>8, <1>10, <1>11, <1>12, <1>13 DEF ProcInv
  <1> QED BY <1>2, <1>5, <1>14, OneProc

\* The commands.
LEMMA ClientProc ==
    ASSUME TypeInv, KeyInv, \A x \in Daemons : ProcInv(x), NEW c \in Clients,
           ClientStep(c) \/ Interrupt(c)
    PROVE  \A x \in Daemons : ProcInv(x)'
  <1>1. CASE SpawnDetached(c)
    <2>1. UNCHANGED <<lock, accepting, daemon, stop, work, rpc>>
      BY <1>1 DEF SpawnDetached, fileVars
    <2>2. CASE UNCHANGED main
      <3>1. \A x \in Daemons : Unserved(x) => Unserved(x)'
        BY <2>1 DEF Unserved, Serving
      <3> QED BY <2>1, <2>2, <3>1, AllSame
    <2>3. ASSUME NEW d \in Daemons, main[d] = "off", SetMain(d, "open")
          PROVE  \A x \in Daemons : ProcInv(x)'
      BY <2>1, <2>3, MainProc
    <2> QED BY <1>1, <2>2, <2>3 DEF SpawnDetached
  <1>2. CASE ~ SpawnDetached(c)
    <2>1. UNCHANGED <<main, stop, daemon, work, accepting>>
      BY <1>2 DEF ClientStep, DialClient, Call, OpenAt, OfflineStep, CloseAt, WaitForSocketGone,
                  Interrupt, daemonVars
    <2>2. lock' = lock \/ lock \notin Daemons
      <3>1. CASE CloseAt(c)
        BY <3>1, ControlAssumption DEF CloseAt, KeyInv, InStore
      <3>2. CASE ~ CloseAt(c)
        BY <1>2, <3>2, ControlAssumption
        DEF ClientStep, DialClient, Call, OpenAt, OfflineStep, WaitForSocketGone, Interrupt, fileVars
      <3> QED BY <3>1, <3>2
    <2>3. ASSUME NEW x \in Daemons, Unserved(x) PROVE Unserved(x)'
      <3>1. CASE UNCHANGED rpc
        BY <2>1, <2>3, <3>1 DEF Unserved, Serving
      <3>2. CASE ~ UNCHANGED rpc
        <4>1. /\ sock \in accepting
              /\ rpc' = [rpc EXCEPT ![c] = [pc |-> "run", at |-> sock, op |-> Head(cli[c].todo)]]
          BY <1>2, <3>2 DEF ClientStep, DialClient, Call, OpenAt, OfflineStep, CloseAt,
                            WaitForSocketGone, Interrupt
        <4>2. rpc'[c].at = sock /\ \A y \in Clients \ {c} : rpc'[y] = rpc[y]
          BY <4>1 DEF TypeInv, OnceInv
        <4> QED BY <2>1, <2>3, <4>1, <4>2 DEF Unserved, Serving
      <3> QED BY <3>1, <3>2
    <2> QED BY <2>1, <2>2, <2>3, AllSame
  <1> QED BY <1>1, <1>2

\* Every step.
LEMMA ProcsKept ==
    TypeInv /\ KeyInv /\ ClientWork /\ (\A x \in Daemons : ProcInv(x)) /\ StopsOnce /\ [Next]_vars
        => \A x \in Daemons : ProcInv(x)'
  <1> SUFFICES ASSUME TypeInv, KeyInv, ClientWork, \A x \in Daemons : ProcInv(x), StopsOnce,
                      [Next]_vars
               PROVE  \A x \in Daemons : ProcInv(x)'
    OBVIOUS
  <1>1. ASSUME NEW d \in Daemons, Launch(d) \/ MainStep(d) \/ Signal(d) \/ Crash(d)
        PROVE  \A x \in Daemons : ProcInv(x)'
    BY <1>1, MainProc, StartProc, DieProc DEF MainStep, Exit, Crash
  <1>2. ASSUME NEW d \in Daemons, NEW s \in Stoppers, StopStep(d, s)
        PROVE  \A x \in Daemons : ProcInv(x)'
    BY <1>2, StopProc
  <1>3. ASSUME NEW a \in Daemons \cup Clients, TransportStep(a)
        PROVE  \A x \in Daemons : ProcInv(x)'
    BY <1>3, TransportProc
  <1>4. ASSUME NEW c \in Clients, HandlerStep(c) \/ EndSubscribe(c) \/ ZenAnswers(c)
        PROVE  \A x \in Daemons : ProcInv(x)'
    BY <1>4, TransportProc, HandlerProc, HandleStopProc DEF HandlerStep
  <1>5. ASSUME NEW c \in Clients, ClientStep(c) \/ Interrupt(c)
        PROVE  \A x \in Daemons : ProcInv(x)'
    BY <1>5, ClientProc
  <1>6. ASSUME UNCHANGED <<main, stop, lock, daemon, work, accepting, rpc>>
        PROVE  \A x \in Daemons : ProcInv(x)'
    <2>1. \A x \in Daemons : Unserved(x) => Unserved(x)'
      BY <1>6 DEF Unserved, Serving
    <2> QED BY <1>6, <2>1, AllSame
  <1>7. ASSUME NEW c \in Clients, NEW cmd \in Commands, NEW pass \in Pass, Run(c, cmd, pass)
        PROVE  \A x \in Daemons : ProcInv(x)'
    BY <1>6, <1>7 DEF Run, fileVars, daemonVars
  <1>8. CASE UNCHANGED vars
    BY <1>6, <1>8 DEF vars, fileVars, daemonVars, clientVars
  <1> QED BY <1>1, <1>2, <1>3, <1>4, <1>5, <1>7, <1>8 DEF Next

\* A call of Stop, once begun, is never forgotten; only the handler of a command
\* begins the command's.
LEMMA StopsChange ==
    TypeInv /\ (\A x \in Daemons : ProcInv(x)) /\ [Next]_vars =>
        /\ \A x \in Daemons, s \in Stoppers : stop[x][s].pc # "off" => stop'[x][s].pc # "off"
        /\ \A x \in Daemons, c \in Clients :
             stop'[x][c].pc # "off" => stop[x][c].pc # "off" \/ HandleStop(c)
  <1> DEFINE Grows == \A x \in Daemons, s \in Stoppers : stop[x][s].pc # "off" => stop'[x][s].pc # "off"
             News == \A x \in Daemons, c \in Clients :
                        stop'[x][c].pc # "off" => stop[x][c].pc # "off" \/ HandleStop(c)
  <1> SUFFICES ASSUME TypeInv, \A x \in Daemons : ProcInv(x), [Next]_vars PROVE Grows /\ News
    OBVIOUS
  <1>t. DaemonTypes /\ Clients \subseteq Stoppers /\ "signal" \in Stoppers \ Clients
    BY ControlAssumption DEF TypeInv, Stoppers
  <1>i. UNCHANGED stop => Grows /\ News
    OBVIOUS
  <1>s. ASSUME NEW d \in Daemons, NEW s \in Stoppers, NEW w, w # "off", StopSet(d, s, w),
               stop[d][s].pc # "off" \/ s = "signal" \/ HandleStop(s)
        PROVE  Grows /\ News
    <2>1. \A x \in Daemons, t \in Stoppers :
            stop'[x][t].pc = stop[x][t].pc \/ (x = d /\ t = s /\ stop'[x][t].pc = w)
      BY <1>s DEF StopSet, StopsSame
    <2> QED BY <1>s, <1>t, <2>1
  <1>d. ASSUME NEW d \in Daemons, Die(d) PROVE Grows /\ News
    <2>1. \A x \in Daemons, s \in Stoppers : (stop'[x][s].pc = "off") = (stop[x][s].pc = "off")
      BY <1>d, DieProc
    <2> QED BY <1>t, <2>1
  <1> HIDE DEF Grows, News
  <1>1. ASSUME NEW d \in Daemons, Launch(d) \/ MainStep(d) \/ Signal(d) \/ Crash(d)
        PROVE  Grows /\ News
    <2>1. CASE Exit(d) \/ Crash(d)
      BY <1>d, <2>1 DEF Exit, Crash
    <2>2. CASE Signal(d)
      <3>1. StopSet(d, "signal", "take")
        BY <1>t, <2>2, StopMoves DEF Signal
      <3> QED BY <1>s, <1>t, <3>1
    <2>3. CASE Launch(d) \/ OpenStore(d) \/ OpenTimeout(d) \/ Start(d) \/ StartFails(d) \/ CloseStore(d)
      BY <1>i, <2>3 DEF Launch, OpenStore, OpenTimeout, Start, StartFails, CloseStore
    <2> QED BY <1>1, <2>1, <2>2, <2>3 DEF MainStep
  <1>2. ASSUME NEW d \in Daemons, NEW s \in Stoppers, StopStep(d, s) PROVE Grows /\ News
    <2>1. CASE Die(d)
      BY <1>d, <2>1
    <2>2. CASE ~ Die(d)
      <3>1. /\ stop[d][s].pc # "off"
            /\ \/ \E w : w # "off" /\ SetStop(d, s, w)
               \/ \E r : r.pc # "off" /\ stop' = [stop EXCEPT ![d][s] = r]
        BY <1>2, <2>2 DEF StopStep, StopTake, StopAccepting, StopDrained, StopDeadline,
                          StopListeners, StopDone
      <3>2. \E w : w # "off" /\ StopSet(d, s, w)
        BY <1>t, <3>1, StopMoves DEF SetStop
      <3> QED BY <1>s, <3>1, <3>2
    <2> QED BY <2>1, <2>2
  <1>3. ASSUME NEW a \in Daemons \cup Clients, TransportStep(a) PROVE Grows /\ News
    BY <1>i, <1>3 DEF TransportStep, TransportRead, TransportListen, TransportFails, TransportPersist
  <1>4. ASSUME NEW c \in Clients, HandlerStep(c) \/ EndSubscribe(c) \/ ZenAnswers(c)
        PROVE  Grows /\ News
    <2>1. CASE HandleStop(c)
      <3>1. PICK d \in Daemons : d = rpc[c].at
        BY <2>1 DEF HandleStop, Handling, TypeInv, RpcTypes, RpcRec
      <3>2. stop' = [stop EXCEPT ![d][c].pc = "take"]
        BY <2>1, <3>1 DEF HandleStop
      <3>3. StopSet(d, c, "take")
        BY <1>t, <3>2, StopMoves
      <3> QED BY <1>s, <1>t, <2>1, <3>3
    <2>2. CASE ~ HandleStop(c)
      BY <1>i, <1>4, <2>2
      DEF HandlerStep, HandlerFails, HandleRead, HandleWhoami, HandleMark, HandleUnlock,
          HandleLock, HandleSign, RotateClose, RotateDelete, Answer, EndSubscribe, AskZen,
          ZenAnswers, daemonVars
    <2> QED BY <2>1, <2>2
  <1>5. ASSUME NEW c \in Clients, ClientStep(c) \/ Interrupt(c) PROVE Grows /\ News
    BY <1>i, <1>5 DEF ClientStep, DialClient, Call, OpenAt, OfflineStep, CloseAt,
                      WaitForSocketGone, SpawnDetached, Interrupt, daemonVars
  <1>6. ASSUME NEW c \in Clients, NEW cmd \in Commands, NEW pass \in Pass, Run(c, cmd, pass)
        PROVE  Grows /\ News
    BY <1>i, <1>6 DEF Run, daemonVars
  <1>7. CASE UNCHANGED vars
    BY <1>i, <1>7 DEF vars, daemonVars
  <1>8. Grows /\ News
    BY <1>1, <1>2, <1>3, <1>4, <1>5, <1>6, <1>7 DEF Next
  <1> QED BY <1>8 DEF Grows, News

\* A command whose handler has called Stop is answered and asks for nothing more.
LEMMA StopsOnceKept ==
    TypeInv /\ (\A x \in Daemons : ProcInv(x)) /\ StopsOnce /\ [Next]_vars => StopsOnce'
  <1> SUFFICES ASSUME TypeInv, \A x \in Daemons : ProcInv(x), StopsOnce, [Next]_vars,
                      NEW c \in Clients, MayStop(c)', NEW d \in Daemons
               PROVE  stop'[d][c].pc = "off"
    BY DEF StopsOnce
  <1>1. MayStop(c) /\ stop[d][c].pc = "off"
    BY StopsBack DEF TypeInv, StopsOnce
  <1>2. ASSUME HandleStop(c) PROVE FALSE
    <2>1. /\ rpc' = [rpc EXCEPT ![c].pc = "ok"] /\ rpc[c].pc = "run" /\ cli' = cli
          /\ RpcShape(rpc[c]) /\ rpc = [x \in Clients |-> rpc[x]]
      BY <1>2 DEF HandleStop, Handling, Reply, TypeInv, OnceInv, ClientInv
    <2>2. rpc'[c].pc = "ok"
      BY <2>1 DEF RpcShape
    <2>3. cli[c].pc \in Over \cup {"wait"}
      BY <2>1 DEF TypeInv, OnceInv, ClientInv, InHandler
    <2> QED BY <2>1, <2>2, <2>3 DEF MayStop, Over
  <1> QED BY <1>1, <1>2, StopsChange

\* Where main is when the daemon serves.
Serves == {"transport", "run"}

\* A daemon that served before and whose path and listener stay.
LEMMA ReachKept ==
    ASSUME RunningReachable, TypeInv,
           \A x \in Daemons, s \in Stoppers : stop[x][s].pc # "off" => stop'[x][s].pc # "off",
           (\A q \in Daemons : ~ StoppedTwice(q)) =>
             \A x \in Daemons :
               main'[x] \in Serves /\ ~ StopBegun(x)' =>
                 \/ main[x] \in Serves /\ sock' = sock /\ (x \in accepting => x \in accepting')
                 \/ sock' = x /\ x \in accepting'
    PROVE  RunningReachable'
  <1>1. \A x \in Daemons : (StopBegun(x) => StopBegun(x)') /\ (StoppedTwice(x) => StoppedTwice(x)')
    BY DEF StopBegun, StoppedTwice
  <1> QED BY <1>1 DEF RunningReachable, Serves

\* Every step.
LEMMA ReachableKept ==
    TypeInv /\ (\A x \in Daemons : ProcInv(x)) /\ RunningReachable /\ [Next]_vars
        => RunningReachable'
  <1> SUFFICES ASSUME TypeInv, \A x \in Daemons : ProcInv(x), RunningReachable, [Next]_vars
               PROVE  RunningReachable'
    OBVIOUS
  <1>t. /\ main \in [Daemons -> Mains] /\ DaemonTypes
        /\ \A x \in Daemons, s \in Stoppers : stop[x][s].pc # "off" => stop'[x][s].pc # "off"
    BY StopsChange DEF TypeInv, DaemonTypes
  <1>s. "transport" \in Owning /\ "run" \in Owning
    BY DEF Owning
  <1>i. ASSUME UNCHANGED <<sock, accepting>>,
               \A x \in Daemons : main'[x] \in Serves => main[x] \in Serves
        PROVE  RunningReachable'
    BY <1>i, <1>t, ReachKept
  <1>m. ASSUME NEW d \in Daemons, NEW w, SetMain(d, w), w \notin Serves \/ main[d] \in Serves,
               UNCHANGED <<sock, accepting>>
        PROVE  RunningReachable'
    BY <1>i, <1>m, <1>t DEF SetMain
  \* A daemon that has the lock is the only one that serves.
  <1>l. ASSUME NEW d \in Daemons, lock = d, NEW x \in Daemons \ {d} PROVE main[x] \notin Serves
    BY <1>l, <1>s DEF ProcInv, Serves
  <1>d. ASSUME NEW d \in Daemons, Die(d) PROVE RunningReachable'
    <2>1. main'[d] = "exit" /\ \A x \in Daemons \ {d} : main'[x] = main[x]
      BY <1>d, <1>t DEF Die, SetMain
    <2>2. sock' = sock /\ accepting' = accepting \ {d}
      BY <1>d DEF Die
    <2>3. \A x \in Daemons : main'[x] \in Serves =>
            main[x] \in Serves /\ (x \in accepting => x \in accepting')
      BY <2>1, <2>2 DEF Serves
    <2> QED BY <1>t, <2>2, <2>3, ReachKept
  <1>1. ASSUME NEW d \in Daemons, Launch(d) \/ MainStep(d) \/ Signal(d) \/ Crash(d)
        PROVE  RunningReachable'
    <2>1. CASE Exit(d) \/ Crash(d)
      BY <1>d, <2>1 DEF Exit, Crash
    <2>2. CASE Start(d) \/ StartFails(d)
      <3>1. lock = d
        BY <2>2 DEF Start, StartFails, ProcInv, Owning
      <3>2. \A x \in Daemons \ {d} : main'[x] = main[x]
        BY <1>t, <2>2 DEF Start, StartFails, SetMain
      <3>3. main'[d] \in Serves => sock' = d /\ d \in accepting'
        BY <1>t, <2>2 DEF Start, StartFails, SetMain, Serves
      <3>4. \A x \in Daemons : main'[x] \in Serves => sock' = x /\ x \in accepting'
        BY <1>l, <3>1, <3>2, <3>3
      <3> QED BY <1>t, <3>4, ReachKept
    <2>3. CASE Launch(d) \/ OpenStore(d) \/ OpenTimeout(d) \/ CloseStore(d) \/ Signal(d)
      <3>1. UNCHANGED <<sock, accepting>>
        BY <2>3 DEF Launch, OpenStore, OpenTimeout, CloseStore, Signal, fileVars
      <3>2. \E w : SetMain(d, w) /\ w \notin Serves
        BY <2>3 DEF Launch, OpenStore, OpenTimeout, CloseStore, Signal, Serves
      <3> QED BY <1>m, <3>1, <3>2
    <2> QED BY <1>1, <2>1, <2>2, <2>3 DEF MainStep
  <1>2. ASSUME NEW d \in Daemons, NEW s \in Stoppers, StopStep(d, s) PROVE RunningReachable'
    <2>1. CASE Die(d)
      BY <1>d, <2>1
    <2>2. CASE StopAccepting(d, s) \/ StopListeners(d, s)
      <3>1. stop[d][s].pc \in Busy /\ stop[d][s].pc # "off" /\ UNCHANGED main
        BY <2>2 DEF StopAccepting, StopListeners, Busy
      <3>2. StopBegun(d)'
        BY <1>t, <3>1 DEF StopBegun
      <3>3. ~ StoppedTwice(d) => lock = d
        BY <3>1 DEF ProcInv
      <3>4. (\A q \in Daemons : ~ StoppedTwice(q)) =>
               \A x \in Daemons : ~ (main'[x] \in Serves /\ ~ StopBegun(x)')
        BY <1>l, <3>1, <3>2, <3>3
      <3> QED BY <1>t, <3>4, ReachKept
    <2>3. CASE /\ ~ Die(d)
               /\ StopTake(d, s) \/ StopDrained(d, s) \/ StopDeadline(d, s) \/ StopDone(d, s)
      BY <1>i, <2>3 DEF StopTake, StopDrained, StopDeadline, StopDone, fileVars
    <2> QED BY <1>2, <2>1, <2>2, <2>3 DEF StopStep
  <1>3. ASSUME NEW a \in Daemons \cup Clients, NEW ok, TransportDone(a, ok), work[a].pc # "off",
               UNCHANGED <<sock, accepting>>
        PROVE  RunningReachable'
    <2>1. CASE a \in Daemons
      <3>1. main[a] = "transport" /\ SetMain(a, "run")
        BY <1>3, <2>1 DEF ProcInv, TransportDone
      <3> QED BY <1>3, <1>m, <2>1, <3>1 DEF Serves
    <2>2. CASE a \notin Daemons
      BY <1>3, <1>i, <2>2 DEF TransportDone
    <2> QED BY <2>1, <2>2
  <1>4. ASSUME NEW a \in Daemons \cup Clients, TransportStep(a) PROVE RunningReachable'
    <2>1. UNCHANGED <<sock, accepting>>
      BY <1>4 DEF TransportStep, TransportRead, TransportListen, TransportFails, TransportPersist,
                  fileVars
    <2>2. UNCHANGED main \/ \E ok : TransportDone(a, ok) /\ work[a].pc # "off"
      BY <1>4 DEF TransportStep, TransportRead, TransportListen, TransportFails, TransportPersist
    <2> QED BY <1>3, <1>i, <2>1, <2>2
  <1>5. ASSUME NEW c \in Clients, HandlerStep(c) \/ EndSubscribe(c) \/ ZenAnswers(c)
        PROVE  RunningReachable'
    <2>1. CASE RotateDelete(c)
      <3>1. UNCHANGED main \/ (TransportDone(c, FALSE) /\ work[c].pc # "off")
        BY <2>1 DEF RotateDelete
      <3> QED BY <1>3, <1>i, <2>1, <3>1 DEF RotateDelete
    <2>2. CASE ~ RotateDelete(c)
      BY <1>i, <1>5, <2>2
      DEF HandlerStep, HandlerFails, HandleRead, HandleWhoami, HandleMark, HandleUnlock,
          HandleLock, HandleSign, HandleStop, RotateClose, Answer, EndSubscribe, AskZen,
          ZenAnswers, daemonVars, fileVars
    <2> QED BY <2>1, <2>2
  <1>6. ASSUME NEW c \in Clients, ClientStep(c) \/ Interrupt(c) PROVE RunningReachable'
    <2>1. CASE SpawnDetached(c)
      <3>1. UNCHANGED <<sock, accepting>> /\ "open" \notin Serves
        BY <2>1 DEF SpawnDetached, fileVars, Serves
      <3> QED BY <1>i, <1>m, <2>1, <3>1 DEF SpawnDetached
    <2>2. CASE ~ SpawnDetached(c)
      BY <1>i, <1>6, <2>2 DEF ClientStep, DialClient, Call, OpenAt, OfflineStep, CloseAt,
                              WaitForSocketGone, Interrupt, daemonVars, fileVars
    <2> QED BY <2>1, <2>2
  <1>7. ASSUME NEW c \in Clients, NEW cmd \in Commands, NEW pass \in Pass, Run(c, cmd, pass)
        PROVE  RunningReachable'
    BY <1>i, <1>7 DEF Run, daemonVars, fileVars
  <1>8. CASE UNCHANGED vars
    BY <1>i, <1>8 DEF vars, daemonVars, fileVars
  <1> QED BY <1>1, <1>2, <1>4, <1>5, <1>6, <1>7, <1>8 DEF Next

\* What holds of the files, of the keys and of the daemons together.
StoreInv == TypeInv /\ DbInv /\ KeyInv /\ ClientWork /\ ReachInv

\* It holds initially.
LEMMA InitStoreInv == Init => StoreInv
  <1> SUFFICES ASSUME Init PROVE StoreInv
    OBVIOUS
  <1>1. DbInv
    BY DEF Init, DbInv, DbShape, IdentityMatchesKey
  <1>2. KeyInv
    <2>1. \A d \in Daemons : DaemonInv(d)
      BY ControlAssumption DEF Init, DaemonInv, NewDaemon, DaemonShape
    <2>2. \A c \in Clients : cli[c].pc \notin InStore
      BY DEF Init, NewCli, InStore
    <2> QED BY <2>1, <2>2 DEF Init, KeyInv
  <1>3. ClientWork
    BY DEF Init, ClientWork, NoWork
  <1>4. ReachInv
    <2>1. "signal" \in Stoppers /\ Clients \subseteq Stoppers /\ "off" \notin Owning /\ "off" \notin Busy
      BY DEF Stoppers, Owning, Busy
    <2>2. \A d \in Daemons : /\ main[d] = "off" /\ ~ daemon[d].done /\ work[d].pc = "off"
                             /\ \A s \in Stoppers : stop[d][s].pc = "off"
      BY DEF Init, NewDaemon, NoWork, NewStop
    <2>3. \A d \in Daemons : Unserved(d)
      BY DEF Init, Unserved, Serving, NoRpc
    <2>4. \A d \in Daemons : ProcInv(d)
      BY <2>1, <2>2, <2>3 DEF ProcInv, StopBegun
    <2> QED BY <2>1, <2>2, <2>4 DEF ReachInv, StopsOnce, RunningReachable
  <1> QED BY <1>1, <1>2, <1>3, <1>4, InitTypes DEF StoreInv

\* Every step keeps it.
LEMMA NextStoreInv == StoreInv /\ [Next]_vars => StoreInv'
  <1> SUFFICES ASSUME StoreInv, [Next]_vars PROVE StoreInv'
    OBVIOUS
  <1>1. TypeInv' /\ DbInv' /\ KeyInv' /\ ClientWork'
    BY NextTypes, NextDbInv, NextKeyInv, ClientWorkKept DEF StoreInv, TypeInv
  <1>2. ReachInv'
    BY ProcsKept, StopsOnceKept, ReachableKept DEF StoreInv, ReachInv
  <1> QED BY <1>1, <1>2 DEF StoreInv

\* A daemon that serves and that nobody stopped is the one at the socket path,
\* for every number of daemons and commands: the unlinks of Start and of the
\* two places in Stop never hit another daemon's socket, because whoever
\* unlinks has the store's lock, as long as no daemon is stopped twice.
THEOREM RunningIsReachable == Spec => []RunningReachable
  <1>1. StoreInv => RunningReachable
    BY DEF StoreInv, ReachInv
  <1> QED BY <1>1, InitStoreInv, NextStoreInv, PTL DEF Spec

----------------------------------------------------------------------------
(* The address in use is the one stored.                                   *)

Workers == Daemons \cup Clients

\* a is at work on the transport of daemon d.
Working(a, d) == Host(a) = d /\ work[a].pc # "off"

\* Where main is before Start.
Unborn == {"off", "open", "listen"}

\* Daemon d serves, and its transport was changed by one worker at a time.
Known(d) == main[d] \in Serves /\ ~ StopBegun(d) /\ d \notin raced

\* What a worker has done so far: the old listener is closed until a new one is
\* open; the key it listens with is the stored one, or fresh; the key it has yet
\* to store is the one in use.
WorkAddr(a, d) ==
    /\ work[a].pc \in {"delete", "read", "listen"} => daemon[d].tc \notin inbound[d]
    /\ work[a].pc = "listen" => work[a].key \in {Nil, db.transport}
    /\ work[a].pc = "persist" => work[a].key = daemon[d].tc

\* And between two workers the key in use is the stored one.
StoredAddr(d) == daemon[d].tc \in inbound[d] => db.transport = daemon[d].tc

OneWorker(d) == \A a, b \in Workers : Working(a, d) /\ Working(b, d) => a = b

AddrInv(d) ==
    /\ main[d] \in Unborn => inbound[d] = {}
    /\ d \notin raced => OneWorker(d)
    /\ Known(d) => /\ \A a \in Workers : Working(a, d) => WorkAddr(a, d)
                   /\ (\A a \in Workers : ~ Working(a, d)) => StoredAddr(d)

\* A step of others.
AddrSame(d) ==
    /\ main'[d] \in Unborn => main[d] \in Unborn
    /\ main'[d] \in Serves => main[d] \in Serves
    /\ inbound'[d] = inbound[d]
    /\ d \in raced => d \in raced'
    /\ StopBegun(d) => StopBegun(d)'
    /\ \A a \in Workers : /\ Working(a, d)' <=> Working(a, d)
                          /\ Working(a, d) => work'[a] = work[a]
    /\ Known(d) /\ ~ StopBegun(d)' =>
         daemon'[d].tc = daemon[d].tc /\ db'.transport = db.transport

\* Such a step keeps the daemon's part.
LEMMA AddrKept == ASSUME NEW d \in Daemons, AddrInv(d), AddrSame(d) PROVE AddrInv(d)'
  <1>1. main'[d] \in Unborn => inbound'[d] = {}
    BY DEF AddrInv, AddrSame
  <1>2. d \notin raced' => OneWorker(d)'
    <2> SUFFICES ASSUME d \notin raced' PROVE OneWorker(d)'
      OBVIOUS
    <2>1. OneWorker(d)
      BY DEF AddrInv, AddrSame
    <2> QED BY <2>1 DEF OneWorker, AddrSame
  <1>3. ASSUME Known(d)'
        PROVE  /\ \A a \in Workers : Working(a, d)' => WorkAddr(a, d)'
               /\ (\A a \in Workers : ~ Working(a, d)') => StoredAddr(d)'
    <2>1. Known(d) /\ daemon'[d].tc = daemon[d].tc /\ db'.transport = db.transport
          /\ inbound'[d] = inbound[d]
      BY <1>3 DEF AddrSame, Known
    <2>2. ASSUME NEW a \in Workers, Working(a, d)' PROVE WorkAddr(a, d)'
      <3>1. Working(a, d) /\ work'[a] = work[a]
        BY <2>2 DEF AddrSame
      <3>2. WorkAddr(a, d)
        BY <2>1, <3>1 DEF AddrInv
      <3> QED BY <2>1, <3>1, <3>2 DEF WorkAddr
    <2>3. ASSUME \A a \in Workers : ~ Working(a, d)' PROVE StoredAddr(d)'
      <3>1. \A a \in Workers : ~ Working(a, d)
        BY <2>3 DEF AddrSame
      <3>2. StoredAddr(d)
        BY <2>1, <3>1 DEF AddrInv
      <3> QED BY <2>1, <3>2 DEF StoredAddr
    <2> QED BY <2>2, <2>3
  <1> QED BY <1>1, <1>2, <1>3 DEF AddrInv

\* A daemon that is told to stop or is over: nobody else begins to work in it.
LEMMA AddrOut ==
    ASSUME NEW d \in Daemons, AddrInv(d), main'[d] \notin Unborn,
           main'[d] \notin Serves \/ StopBegun(d)',
           d \in raced => d \in raced',
           \A a \in Workers : Working(a, d)' => Working(a, d)
    PROVE  AddrInv(d)'
  <1>1. ~ Known(d)'
    BY DEF Known
  <1>2. d \notin raced' => OneWorker(d)'
    <2> SUFFICES ASSUME d \notin raced' PROVE OneWorker(d)'
      OBVIOUS
    <2>1. OneWorker(d)
      BY DEF AddrInv
    <2> QED BY <2>1 DEF OneWorker
  <1> QED BY <1>1, <1>2 DEF AddrInv

\* Who works in which daemon, when nobody begins to work.
HostSame == \A a \in Workers : work[a].pc # "off" => Host(a)' = Host(a)

\* The step of a worker a, in daemon q.
LEMMA WorkerStep ==
    ASSUME StoreInv, \A x \in Daemons : AddrInv(x),
           NEW a \in Workers, NEW q \in Daemons, Working(a, q), HostSame,
           \A b \in Workers \ {a} : work'[b] = work[b],
           \A x \in Daemons \ {q} : /\ inbound'[x] = inbound[x] /\ daemon'[x].tc = daemon[x].tc
                                    /\ main'[x] = main[x],
           main'[q] = main[q] \/ (main[q] = "transport" /\ main'[q] = "run"),
           UNCHANGED <<raced, stop>>,
           lock # q => db'.transport = db.transport,
           Known(q) /\ WorkAddr(a, q) /\ lock = q =>
             IF work'[a].pc = "off" THEN StoredAddr(q)' ELSE WorkAddr(a, q)'
    PROVE  \A x \in Daemons : AddrInv(x)'
  <1>s. /\ \A x \in Daemons : ProcInv(x) /\ (StopBegun(x)' <=> StopBegun(x))
        /\ "transport" \in Serves /\ "run" \in Serves /\ Serves \cap Unborn = {}
        /\ Serves \subseteq Owning /\ Unborn \subseteq Before
    BY DEF StoreInv, ReachInv, StopBegun, Serves, Unborn, Owning, Before
  <1>1. ASSUME NEW x \in Daemons \ {q} PROVE AddrInv(x)'
    <2>1. \A b \in Workers : (Working(b, x)' <=> Working(b, x)) /\ (Working(b, x) => work'[b] = work[b])
      BY DEF Working, HostSame
    <2>2. Known(x) => db'.transport = db.transport
      BY <1>s DEF Known, ProcInv
    <2>3. AddrSame(x)
      BY <1>s, <2>1, <2>2 DEF AddrSame
    <2> QED BY <2>3, AddrKept
  <1>2. AddrInv(q)'
    <2>1. main[q] \notin Unborn /\ main'[q] \notin Unborn
      <3>1. main[q] \in Unborn => Unserved(q) /\ work[q].pc = "off"
        BY <1>s DEF ProcInv, Unborn
      <3>2. a \in Clients \ Daemons => Serving(a, q)
        BY DEF Working, Host, StoreInv, ClientWork, Rotating, Serving
      <3> QED BY <1>s, <3>1, <3>2 DEF Working, Host, Unserved, Workers
    <2>2. \A b \in Workers : Working(b, q)' => Working(b, q)
      BY DEF Working, HostSame
    <2>3. CASE ~ Known(q)'
      BY <1>s, <2>1, <2>2, <2>3, AddrOut DEF Known, AddrInv, OneWorker
    <2>4. CASE Known(q)'
      <3>1. Known(q) /\ lock = q
        BY <1>s, <2>4 DEF Known, ProcInv
      <3>2. WorkAddr(a, q) /\ OneWorker(q)
        BY <3>1 DEF AddrInv, Known
      <3>3. \A b \in Workers : Working(b, q)' => b = a
        BY <2>2, <3>2 DEF OneWorker
      <3>4. Working(a, q)' <=> work'[a].pc # "off"
        BY DEF Working, HostSame
      <3>5. OneWorker(q)'
        BY <3>3 DEF OneWorker
      <3>6. /\ \A b \in Workers : Working(b, q)' => WorkAddr(b, q)'
            /\ (\A b \in Workers : ~ Working(b, q)') => StoredAddr(q)'
        BY <3>1, <3>2, <3>3, <3>4
      <3> QED BY <2>1, <3>5, <3>6 DEF AddrInv
    <2> QED BY <2>3, <2>4
  <1> QED BY <1>1, <1>2

\* A step that ends no rotation leaves every worker in its daemon.
LEMMA HostsSame ==
    ASSUME StoreInv,
           \/ UNCHANGED rpc
           \/ \E c \in Clients : \E how : Reply(c, how)
           \/ \E c \in Clients : \E r : ~ Rotating(c) /\ rpc' = [rpc EXCEPT ![c] = r]
           \/ \A c \in Clients : rpc'[c] = rpc[c] \/ ~ Rotating(c)
    PROVE  HostSame
  <1>t. rpc = [c \in Clients |-> rpc[c]] /\ \A c \in Clients : RpcShape(rpc[c])
    BY DEF StoreInv, TypeInv, OnceInv, ClientInv
  <1>1. \A c \in Clients : rpc'[c].at = rpc[c].at \/ ~ Rotating(c)
    BY <1>t DEF Reply, RpcShape
  <1> QED BY <1>1 DEF HostSame, Host, StoreInv, ClientWork, Workers

\* The daemon a worker is in.
LEMMA WorkerHost ==
    ASSUME StoreInv, NEW a \in Workers, work[a].pc # "off"
    PROVE  Host(a) \in Daemons
  BY DEF StoreInv, ClientWork, Rotating, TypeInv, RpcTypes, RpcRec, Host, Workers

\* The end of startTransport: what it leaves alone.
LEMMA DoneSame ==
    ASSUME StoreInv, NEW a \in Workers, NEW ok, TransportDone(a, ok), work[a].pc # "off"
    PROVE  /\ HostSame /\ work'[a].pc = "off"
           /\ \A b \in Workers \ {a} : work'[b] = work[b]
           /\ \A q \in Daemons : Host(a) = q =>
                /\ \A x \in Daemons \ {q} : main'[x] = main[x]
                /\ main'[q] = main[q] \/ (main[q] = "transport" /\ main'[q] = "run")
  <1>t. /\ main \in [Daemons -> Mains] /\ work \in [Workers -> WorkRec]
        /\ \A x \in Daemons : ProcInv(x)
    BY DEF StoreInv, ReachInv, TypeInv, DaemonTypes, Workers
  <1>1. work'[a].pc = "off" /\ \A b \in Workers \ {a} : work'[b] = work[b]
    BY <1>t DEF TransportDone, NoWork
  <1>2. CASE a \in Daemons
    <2>1. main[a] = "transport" /\ SetMain(a, "run") /\ UNCHANGED rpc
      BY <1>t, <1>2 DEF TransportDone, ProcInv
    <2>2. main'[a] = "run" /\ \A x \in Daemons \ {a} : main'[x] = main[x]
      BY <1>t, <1>2, <2>1 DEF SetMain
    <2> QED BY <1>1, <1>2, <2>1, <2>2, HostsSame DEF Host
  <1>3. CASE a \notin Daemons
    <2>1. UNCHANGED main /\ \E how : Reply(a, how)
      BY <1>3 DEF TransportDone, Reply
    <2>2. HostSame
      BY <1>3, <2>1, HostsSame DEF Workers
    <2> QED BY <1>1, <2>1, <2>2
  <1> QED BY <1>2, <1>3

\* The steps of startTransport and of rotateKey.
LEMMA TransportAddr ==
    ASSUME StoreInv, \A x \in Daemons : AddrInv(x), NEW a \in Workers,
           TransportStep(a) \/ (a \in Clients /\ RotateDelete(a))
    PROVE  \A x \in Daemons : AddrInv(x)'
  <1>t. /\ daemon \in [Daemons -> Field] /\ inbound \in [Daemons -> SUBSET Tokens]
        /\ work \in [Workers -> WorkRec] /\ tokens \in 0 .. MaxTokens
        /\ DbShape /\ work[a] \in WorkRec
    BY DEF StoreInv, TypeInv, DaemonTypes, Workers, DbInv
  <1>1. work[a].pc # "off" /\ UNCHANGED <<raced, stop, lock>>
    BY DEF TransportStep, TransportRead, TransportListen, TransportFails, TransportPersist,
           RotateDelete, fileVars
  <1>2. PICK q \in Daemons : q = Host(a)
    BY <1>1, WorkerHost
  <1>3. Working(a, q)
    BY <1>1, <1>2 DEF Working
  <1>4. CASE TransportRead(a)
    <2>1. /\ work' = [work EXCEPT ![a] = [pc |-> "listen", key |-> IF lock = q THEN db.transport ELSE Nil]]
          /\ UNCHANGED <<db, main, daemon, inbound, rpc>> /\ work[a].pc = "read"
      BY <1>2, <1>4 DEF TransportRead, clientVars, fileVars
    <2>2. /\ work'[a].pc = "listen"
          /\ lock = q => work'[a].key = db.transport
          /\ \A b \in Workers \ {a} : work'[b] = work[b]
      BY <1>t, <2>1
    <2>3. WorkAddr(a, q) /\ lock = q => WorkAddr(a, q)'
      BY <2>1, <2>2 DEF WorkAddr
    <2>4. HostSame
      BY <2>1, HostsSame
    <2> QED BY <1>1, <1>3, <2>1, <2>2, <2>3, <2>4, WorkerStep
  <1>5. CASE TransportListen(a)
    <2>1. PICK key : /\ key = IF work[a].key = Nil THEN tokens + 1 ELSE work[a].key
                     /\ inbound' = [inbound EXCEPT ![q] = @ \cup {key}]
                     /\ SetField(q, "tc", key)
      BY <1>2, <1>5 DEF TransportListen
    <2>2. /\ inbound'[q] = inbound[q] \cup {key} /\ daemon'[q].tc = key
          /\ \A x \in Daemons \ {q} : inbound'[x] = inbound[x] /\ daemon'[x] = daemon[x]
      BY <1>t, <2>1 DEF SetField, Field
    <2>3. UNCHANGED db /\ work[a].pc = "listen"
      BY <1>5 DEF TransportListen, fileVars
    <2>4. CASE work[a].key = Nil
      <3>1. work' = [work EXCEPT ![a] = [pc |-> "persist", key |-> key]] /\ UNCHANGED <<main, rpc>>
        BY <1>5, <2>1, <2>4 DEF TransportListen
      <3>2. work'[a].pc = "persist" /\ work'[a].key = key /\ \A b \in Workers \ {a} : work'[b] = work[b]
        BY <1>t, <3>1
      <3>3. WorkAddr(a, q)'
        BY <2>2, <3>2 DEF WorkAddr
      <3>4. HostSame
        BY <3>1, HostsSame
      <3> QED BY <1>1, <1>3, <2>2, <2>3, <3>1, <3>2, <3>3, <3>4, WorkerStep
    <2>5. CASE work[a].key # Nil
      <3>1. TransportDone(a, TRUE)
        BY <1>5, <2>5 DEF TransportListen
      <3>2. WorkAddr(a, q) => StoredAddr(q)'
        BY <2>1, <2>2, <2>3, <2>5 DEF WorkAddr, StoredAddr
      <3>3. /\ HostSame /\ work'[a].pc = "off" /\ \A b \in Workers \ {a} : work'[b] = work[b]
            /\ \A x \in Daemons \ {q} : main'[x] = main[x]
            /\ main'[q] = main[q] \/ (main[q] = "transport" /\ main'[q] = "run")
        BY <1>1, <1>2, <3>1, DoneSame
      <3> QED BY <1>1, <1>3, <2>2, <2>3, <3>2, <3>3, WorkerStep
    <2> QED BY <2>4, <2>5
  <1>6. ASSUME NEW ok, TransportDone(a, ok), UNCHANGED <<daemon, inbound>>,
               db' = db \/ (lock = q /\ db' = [db EXCEPT !.transport = work[a].key]),
               lock = q => db' # db \/ work[a].pc # "persist" \/ db.transport = work[a].key
        PROVE  \A x \in Daemons : AddrInv(x)'
    <2>1. /\ HostSame /\ work'[a].pc = "off" /\ \A b \in Workers \ {a} : work'[b] = work[b]
          /\ \A x \in Daemons \ {q} : main'[x] = main[x]
          /\ main'[q] = main[q] \/ (main[q] = "transport" /\ main'[q] = "run")
      BY <1>1, <1>2, <1>6, DoneSame
    <2>2. db' # db => db'.transport = work[a].key /\ lock = q
      BY <1>t, <1>6 DEF DbShape
    <2>3. WorkAddr(a, q) /\ lock = q => StoredAddr(q)'
      BY <1>t, <1>1, <1>6, <2>2 DEF WorkAddr, StoredAddr, WorkRec
    <2>4. lock # q => db'.transport = db.transport
      BY <1>6
    <2> QED BY <1>1, <1>3, <1>6, <2>1, <2>3, <2>4, WorkerStep
  <1>7. CASE TransportFails(a)
    BY <1>6, <1>7 DEF TransportFails, fileVars
  <1>8. CASE TransportPersist(a)
    <2>1. /\ TransportDone(a, TRUE) /\ UNCHANGED <<daemon, inbound>>
          /\ IF lock = q THEN db' = [db EXCEPT !.transport = work[a].key] ELSE db' = db
      BY <1>2, <1>8 DEF TransportPersist, PutTransportKey
    <2>2. lock = q => db'.transport = work[a].key
      BY <1>t, <2>1 DEF DbShape
    <2> QED BY <1>6, <2>1, <2>2
  <1>9. CASE a \in Clients /\ RotateDelete(a)
    <2>0. q = rpc[a].at
      BY <1>2, <1>9, ControlAssumption DEF Host
    <2>1. CASE lock = q
      <3>1. /\ db' = [db EXCEPT !.transport = Nil] /\ work' = [work EXCEPT ![a].pc = "read"]
            /\ UNCHANGED <<main, rpc, daemon, inbound>> /\ work[a].pc = "delete"
        BY <1>9, <2>0, <2>1 DEF RotateDelete, DeleteTransportKey
      <3>2. work'[a].pc = "read" /\ \A b \in Workers \ {a} : work'[b] = work[b]
        BY <1>t, <3>1 DEF WorkRec
      <3>3. WorkAddr(a, q) => WorkAddr(a, q)'
        BY <3>1, <3>2 DEF WorkAddr
      <3>4. HostSame
        BY <3>1, HostsSame
      <3> QED BY <1>1, <1>3, <2>1, <3>1, <3>2, <3>3, <3>4, WorkerStep
    <2>2. CASE lock # q
      <3>1. TransportDone(a, FALSE) /\ UNCHANGED <<daemon, inbound, db>>
        BY <1>9, <2>0, <2>2 DEF RotateDelete
      <3> QED BY <1>6, <2>2, <3>1
    <2> QED BY <2>1, <2>2
  <1> QED BY <1>4, <1>5, <1>7, <1>8, <1>9 DEF TransportStep

\* Steps that touch no listener and no worker.
LEMMA AddrIdle ==
    ASSUME \A x \in Daemons : AddrInv(x), UNCHANGED <<inbound, work, raced>>, HostSame,
           \A x \in Daemons : StopBegun(x) => StopBegun(x)',
           \A x \in Daemons : /\ main'[x] \in Unborn => main[x] \in Unborn
                              /\ main'[x] \in Serves => main[x] \in Serves,
           \A x \in Daemons : Known(x) /\ ~ StopBegun(x)' =>
              daemon'[x].tc = daemon[x].tc /\ db'.transport = db.transport
    PROVE  \A x \in Daemons : AddrInv(x)'
  <1> SUFFICES ASSUME NEW x \in Daemons PROVE AddrInv(x)'
    OBVIOUS
  <1>1. \A a \in Workers : (Working(a, x)' <=> Working(a, x)) /\ work'[a] = work[a]
    BY DEF Working, HostSame
  <1>2. AddrSame(x)
    BY <1>1 DEF AddrSame
  <1> QED BY <1>2, AddrKept

\* The end of a process: its workers end with it.
LEMMA DieAddr ==
    ASSUME StoreInv, \A x \in Daemons : AddrInv(x), NEW d \in Daemons, Die(d),
           \A x \in Daemons : StopBegun(x) => StopBegun(x)'
    PROVE  \A x \in Daemons : AddrInv(x)'
  <1>t. /\ main \in [Daemons -> Mains] /\ daemon \in [Daemons -> Field]
        /\ inbound \in [Daemons -> SUBSET Tokens] /\ \A c \in Clients : c \notin Daemons
    BY ControlAssumption DEF StoreInv, TypeInv, DaemonTypes
  <1>1. /\ main'[d] = "exit" /\ UNCHANGED <<raced, db>>
        /\ \A x \in Daemons \ {d} : main'[x] = main[x] /\ daemon'[x] = daemon[x] /\ inbound'[x] = inbound[x]
    BY <1>t DEF Die, SetMain
  <1>2. ASSUME NEW a \in Workers
        PROVE  IF Host(a) = d THEN work'[a].pc = "off" ELSE work'[a] = work[a]
    BY <1>t DEF Die, Host, NoWork, Workers
  <1>3. ASSUME NEW a \in Workers, work[a].pc # "off", Host(a) # d PROVE Host(a)' = Host(a)
    <2>1. CASE a \in Daemons
      BY <2>1 DEF Host
    <2>2. CASE a \notin Daemons
      <3>1. a \in Clients /\ rpc[a].at # d
        BY <1>3, <2>2 DEF Host, Workers
      <3>2. rpc'[a] = rpc[a]
        BY <3>1 DEF Die, Serving
      <3> QED BY <2>2, <3>2 DEF Host
    <2> QED BY <2>1, <2>2
  <1>4. AddrInv(d)'
    <2>1. "exit" \notin Unborn /\ "exit" \notin Serves
      BY DEF Unborn, Serves
    <2>2. \A a \in Workers : Working(a, d)' => Working(a, d)
      <3> SUFFICES ASSUME NEW a \in Workers, Working(a, d)', ~ Working(a, d) PROVE FALSE
        OBVIOUS
      <3>1. work'[a].pc # "off" /\ Host(a)' = d
        BY DEF Working
      <3>2. Host(a) # d /\ work[a].pc # "off"
        BY <1>2, <3>1
      <3> QED BY <1>3, <3>1, <3>2
    <2> QED BY <1>1, <2>1, <2>2, AddrOut
  <1>5. ASSUME NEW x \in Daemons \ {d} PROVE AddrInv(x)'
    <2>1. ASSUME NEW a \in Workers
          PROVE  (Working(a, x)' <=> Working(a, x)) /\ (Working(a, x) => work'[a] = work[a])
      <3>1. CASE Host(a) = d
        BY <1>2, <3>1 DEF Working
      <3>2. CASE Host(a) # d
        BY <1>2, <1>3, <3>2 DEF Working
      <3> QED BY <3>1, <3>2
    <2>2. AddrSame(x)
      BY <1>1, <2>1 DEF AddrSame
    <2> QED BY <2>2, AddrKept
  <1> QED BY <1>4, <1>5

\* Start begins to work in a daemon that serves nobody.
LEMMA StartAddr ==
    ASSUME StoreInv, \A x \in Daemons : AddrInv(x), NEW d \in Daemons, Start(d)
    PROVE  \A x \in Daemons : AddrInv(x)'
  <1>t. /\ main \in [Daemons -> Mains] /\ daemon \in [Daemons -> Field]
        /\ work \in [Workers -> WorkRec] /\ \A c \in Clients : c \notin Daemons
        /\ ProcInv(d)
    BY ControlAssumption DEF StoreInv, ReachInv, TypeInv, DaemonTypes, Workers
  <1>1. /\ main[d] = "listen" /\ main'[d] = "transport" /\ UNCHANGED <<inbound, raced, db, stop, rpc>>
        /\ \A x \in Daemons \ {d} : main'[x] = main[x] /\ daemon'[x] = daemon[x]
    BY <1>t DEF Start, SetMain, SetField, clientVars
  <1>2. work'[d].pc = "read" /\ \A a \in Workers \ {d} : work'[a] = work[a]
    BY <1>t DEF Start, Workers
  <1>3. \A a \in Workers : Host(a)' = Host(a) /\ Host(d) = d
    BY <1>1 DEF Host
  <1>4. inbound[d] = {} /\ Unserved(d)
    BY <1>t, <1>1 DEF AddrInv, Unborn, ProcInv, Before
  <1>5. \A a \in Workers \ {d} : ~ Working(a, d)
    <2> SUFFICES ASSUME NEW a \in Workers \ {d}, Working(a, d) PROVE FALSE
      OBVIOUS
    <2>1. a \in Clients /\ rpc[a].at = d /\ Rotating(a)
      BY <1>t DEF Working, Host, Workers, StoreInv, ClientWork
    <2> QED BY <1>4, <2>1 DEF Unserved, Serving, Rotating
  <1>6. \A a \in Workers : Working(a, d)' => a = d
    BY <1>2, <1>3, <1>5 DEF Working
  <1>7. AddrInv(d)'
    <2>1. "transport" \notin Unborn
      BY DEF Unborn
    <2>2. OneWorker(d)'
      BY <1>6 DEF OneWorker
    <2>3. Working(d, d)' /\ d \in Workers
      BY <1>2, <1>3 DEF Working, Workers
    <2>4. WorkAddr(d, d)'
      BY <1>1, <1>2, <1>4 DEF WorkAddr
    <2>5. \A a \in Workers : Working(a, d)' => WorkAddr(a, d)'
      BY <1>6, <2>4
    <2> QED BY <1>1, <2>1, <2>2, <2>3, <2>5 DEF AddrInv
  <1>8. ASSUME NEW x \in Daemons \ {d} PROVE AddrInv(x)'
    <2>1. \A a \in Workers : (Working(a, x)' <=> Working(a, x)) /\ (Working(a, x) => work'[a] = work[a])
      BY <1>2, <1>3 DEF Working
    <2>2. StopBegun(x)' <=> StopBegun(x)
      BY <1>1 DEF StopBegun
    <2>3. AddrSame(x)
      BY <1>1, <2>1, <2>2 DEF AddrSame
    <2> QED BY <2>3, AddrKept
  <1> QED BY <1>7, <1>8

\* A rotation begins: beside another worker it is a race, alone it closes the
\* listener in use.
LEMMA RotateAddr ==
    ASSUME StoreInv, \A x \in Daemons : AddrInv(x), NEW c \in Clients, RotateClose(c)
    PROVE  \A x \in Daemons : AddrInv(x)'
  <1>t. /\ inbound \in [Daemons -> SUBSET Tokens] /\ work \in [Workers -> WorkRec]
        /\ c \in Workers /\ c \notin Daemons
    BY ControlAssumption DEF StoreInv, TypeInv, DaemonTypes, Workers
  <1>1. PICK q \in Daemons : q = rpc[c].at
    BY DEF RotateClose, StoreInv, TypeInv, RpcTypes, RpcRec
  <1>2. /\ inbound' = [inbound EXCEPT ![q] = @ \ {daemon[q].tc}]
        /\ work' = [work EXCEPT ![c] = [pc |-> "delete", key |-> Nil]]
        /\ raced' = IF \E a \in Workers : Working(a, q) THEN raced \cup {q} ELSE raced
        /\ UNCHANGED <<main, daemon, db, stop, rpc>> /\ rpc[c].pc = "run" /\ work[c].pc = "off"
    BY <1>1 DEF RotateClose, Working, Workers, clientVars, fileVars
  <1>3. /\ inbound'[q] = inbound[q] \ {daemon[q].tc}
        /\ \A x \in Daemons \ {q} : inbound'[x] = inbound[x]
        /\ work'[c].pc = "delete" /\ \A a \in Workers \ {c} : work'[a] = work[a]
    BY <1>t, <1>2
  <1>4. /\ \A a \in Workers : Host(a)' = Host(a)
        /\ Host(c) = q
    BY <1>t, <1>1, <1>2 DEF Host
  <1>5. \A x \in Daemons : StopBegun(x)' <=> StopBegun(x)
    BY <1>2 DEF StopBegun
  <1>6. ASSUME NEW x \in Daemons \ {q} PROVE AddrInv(x)'
    <2>1. \A a \in Workers : (Working(a, x)' <=> Working(a, x)) /\ (Working(a, x) => work'[a] = work[a])
      BY <1>3, <1>4 DEF Working
    <2>2. AddrSame(x)
      BY <1>2, <1>3, <1>5, <2>1 DEF AddrSame
    <2> QED BY <2>2, AddrKept
  <1>7. AddrInv(q)'
    <2>1. main'[q] \in Unborn => inbound'[q] = {}
      BY <1>2, <1>3 DEF AddrInv
    <2>2. CASE \E a \in Workers : Working(a, q)
      <3>1. q \in raced'
        BY <1>2, <2>2
      <3> QED BY <2>1, <3>1 DEF AddrInv, Known
    <2>3. CASE \A a \in Workers : ~ Working(a, q)
      <3>1. \A a \in Workers : Working(a, q)' => a = c
        <4> SUFFICES ASSUME NEW a \in Workers \ {c}, Working(a, q)' PROVE FALSE
          OBVIOUS
        <4>1. Host(a) = q /\ work[a].pc # "off"
          BY <1>3, <1>4 DEF Working
        <4> QED BY <2>3, <4>1 DEF Working
      <3>2. OneWorker(q)'
        BY <3>1 DEF OneWorker
      <3>3. Working(c, q)'
        BY <1>t, <1>3, <1>4 DEF Working
      <3>4. WorkAddr(c, q)'
        BY <1>2, <1>3 DEF WorkAddr
      <3>5. \A a \in Workers : Working(a, q)' => WorkAddr(a, q)'
        BY <3>1, <3>4
      <3> QED BY <1>t, <2>1, <3>2, <3>3, <3>5 DEF AddrInv
    <2> QED BY <2>2, <2>3
  <1> QED BY <1>6, <1>7

\* The listeners that Stop closes.
LEMMA StopAddr ==
    ASSUME StoreInv, \A x \in Daemons : AddrInv(x), NEW d \in Daemons, NEW s \in Stoppers,
           StopListeners(d, s), \A x \in Daemons : StopBegun(x) => StopBegun(x)'
    PROVE  \A x \in Daemons : AddrInv(x)'
  <1>t. inbound \in [Daemons -> SUBSET Tokens] /\ ProcInv(d)
    BY DEF StoreInv, ReachInv, TypeInv, DaemonTypes
  <1>1. /\ UNCHANGED <<main, daemon, work, raced, db, rpc>> /\ StopBegun(d)
        /\ \A x \in Daemons \ {d} : inbound'[x] = inbound[x]
    BY <1>t DEF StopListeners, StopBegun, clientVars
  <1>2. main[d] \notin Unborn
    BY <1>t, <1>1 DEF ProcInv, Before, Unborn
  <1>3. \A x \in Daemons, a \in Workers : Working(a, x)' <=> Working(a, x)
    BY <1>1 DEF Working, Host
  <1>4. AddrInv(d)'
    BY <1>1, <1>2, <1>3, AddrOut
  <1>5. ASSUME NEW x \in Daemons \ {d} PROVE AddrInv(x)'
    <2>1. AddrSame(x)
      BY <1>1, <1>3 DEF AddrSame
    <2> QED BY <2>1, AddrKept
  <1> QED BY <1>4, <1>5

\* Every step.
LEMMA AddrsKept ==
    StoreInv /\ (\A x \in Daemons : AddrInv(x)) /\ [Next]_vars => \A x \in Daemons : AddrInv(x)'
  <1> DEFINE Goal == \A x \in Daemons : AddrInv(x)'
  <1> SUFFICES ASSUME StoreInv, \A x \in Daemons : AddrInv(x), [Next]_vars PROVE Goal
    OBVIOUS
  <1>t. /\ main \in [Daemons -> Mains] /\ daemon \in [Daemons -> Field]
        /\ \A x \in Daemons : ProcInv(x)
    BY DEF StoreInv, ReachInv, TypeInv, DaemonTypes
  <1>b. \A x \in Daemons : StopBegun(x) => StopBegun(x)'
    BY StopsChange DEF StoreInv, ReachInv, StopBegun
  <1>h. UNCHANGED rpc => HostSame
    BY HostsSame
  <1>i. ASSUME UNCHANGED <<inbound, work, raced, db>>, HostSame,
               \/ UNCHANGED main
               \/ \E d \in Daemons : \E w :
                     SetMain(d, w) /\ w \notin Serves /\ (w \in Unborn => main[d] \in Unborn),
               \A x \in Daemons : daemon'[x].tc = daemon[x].tc \/ StopBegun(x)
        PROVE  Goal
    <2>1. \A x \in Daemons : /\ main'[x] \in Unborn => main[x] \in Unborn
                             /\ main'[x] \in Serves => main[x] \in Serves
      BY <1>t, <1>i DEF SetMain
    <2>2. \A x \in Daemons : Known(x) /\ ~ StopBegun(x)' =>
              daemon'[x].tc = daemon[x].tc /\ db'.transport = db.transport
      BY <1>i DEF Known
    <2> QED BY <1>b, <1>i, <2>1, <2>2, AddrIdle
  <1>u. ASSUME NEW q, NEW k, SetField(q, "unlocked", k) \/ SetField(q, "done", k)
        PROVE  \A x \in Daemons : daemon'[x].tc = daemon[x].tc
    BY <1>t, <1>u DEF SetField, Field
  <1> HIDE DEF Goal
  <1>1. ASSUME NEW d \in Daemons, Launch(d) \/ MainStep(d) \/ Signal(d) \/ Crash(d) PROVE Goal
    <2>1. CASE Exit(d) \/ Crash(d)
      BY <1>b, <2>1, DieAddr DEF Exit, Crash, Goal
    <2>2. CASE Start(d)
      BY <2>2, StartAddr DEF Goal
    <2>3. CASE Launch(d) \/ OpenStore(d) \/ OpenTimeout(d) \/ StartFails(d) \/ CloseStore(d) \/ Signal(d)
      <3>1. UNCHANGED <<inbound, work, raced, db, rpc>>
        BY <2>3 DEF Launch, OpenStore, OpenTimeout, StartFails, CloseStore, Signal, fileVars, clientVars
      <3>2. \E w : SetMain(d, w) /\ w \notin Serves /\ (w \in Unborn => main[d] \in Unborn)
        BY <2>3 DEF Launch, OpenStore, OpenTimeout, StartFails, CloseStore, Signal, Serves, Unborn
      <3>3. daemon' = daemon \/ SetField(d, "unlocked", db.key)
        BY <2>3 DEF Launch, OpenStore, OpenTimeout, StartFails, CloseStore, Signal
      <3> QED BY <1>h, <1>i, <1>u, <3>1, <3>2, <3>3
    <2> QED BY <1>1, <2>1, <2>2, <2>3 DEF MainStep
  <1>2. ASSUME NEW d \in Daemons, NEW s \in Stoppers, StopStep(d, s) PROVE Goal
    <2>1. CASE Die(d)
      BY <1>b, <2>1, DieAddr DEF Goal
    <2>2. CASE StopListeners(d, s)
      BY <1>b, <2>2, StopAddr DEF Goal
    <2>3. CASE StopTake(d, s)
      <3>1. StopBegun(d) /\ \A x \in Daemons \ {d} : daemon'[x] = daemon[x]
        BY <1>t, <2>3 DEF StopTake, StopBegun
      <3>2. UNCHANGED <<inbound, work, raced, db, rpc, main>>
        BY <2>3 DEF StopTake, fileVars, clientVars
      <3> QED BY <1>h, <1>i, <3>1, <3>2
    <2>4. CASE StopAccepting(d, s) \/ StopDrained(d, s)
      BY <1>h, <1>i, <2>4 DEF StopAccepting, StopDrained, fileVars, clientVars
    <2>5. CASE StopDeadline(d, s)
      <3>1. \A c \in Clients : rpc'[c] = rpc[c] \/ ~ Rotating(c)
        BY <2>5 DEF StopDeadline, Rotating
      <3>2. HostSame
        BY <3>1, HostsSame
      <3> QED BY <1>i, <2>5, <3>2 DEF StopDeadline, fileVars
    <2>6. CASE StopDone(d, s) /\ ~ Die(d)
      <3>1. SetField(d, "done", TRUE) /\ UNCHANGED <<inbound, work, raced, db, rpc, main>>
        BY <2>6 DEF StopDone, fileVars, clientVars
      <3> QED BY <1>h, <1>i, <1>u, <3>1
    <2> QED BY <1>2, <2>1, <2>2, <2>3, <2>4, <2>5, <2>6 DEF StopStep
  <1>3. ASSUME NEW a \in Daemons \cup Clients, TransportStep(a) PROVE Goal
    BY <1>3, TransportAddr DEF Workers, Goal
  <1>4. ASSUME NEW c \in Clients, HandlerStep(c) \/ EndSubscribe(c) \/ ZenAnswers(c) PROVE Goal
    <2>1. CASE RotateClose(c) \/ RotateDelete(c)
      BY <2>1, RotateAddr, TransportAddr DEF Workers, Goal
    <2>2. CASE Answer(c)
      <3>1. /\ ~ Rotating(c) /\ rpc' = [rpc EXCEPT ![c] = NoRpc]
            /\ UNCHANGED <<inbound, work, raced, db, main, daemon>>
        BY <2>2 DEF Answer, Rotating, daemonVars, fileVars
      <3>2. HostSame
        BY <3>1, HostsSame
      <3> QED BY <1>i, <3>1, <3>2
    <2>3. CASE \/ HandlerFails(c) \/ HandleRead(c) \/ HandleWhoami(c) \/ HandleMark(c)
               \/ HandleUnlock(c) \/ HandleLock(c) \/ HandleSign(c) \/ HandleStop(c) \/ EndSubscribe(c)
               \/ AskZen(c) \/ ZenAnswers(c)
      <3>1. \E how : Reply(c, how)
        BY <2>3 DEF HandlerFails, HandleRead, HandleWhoami, HandleMark, HandleUnlock, HandleLock,
                    HandleSign, HandleStop, EndSubscribe, AskZen, ZenAnswers, KeepKey
      <3>2. HostSame
        BY <3>1, HostsSame
      <3>3. UNCHANGED <<inbound, work, raced, db, main>>
        BY <2>3 DEF HandlerFails, HandleRead, HandleWhoami, HandleMark, HandleUnlock, HandleLock,
                    HandleSign, HandleStop, EndSubscribe, AskZen, ZenAnswers, KeepKey, daemonVars, fileVars
      <3>4. daemon' = daemon \/ \E q, k : SetField(q, "unlocked", k)
        BY <2>3 DEF HandlerFails, HandleRead, HandleWhoami, HandleMark, HandleUnlock, HandleLock,
                    HandleSign, HandleStop, EndSubscribe, AskZen, ZenAnswers, KeepKey, daemonVars
      <3> QED BY <1>i, <1>u, <3>2, <3>3, <3>4
    <2> QED BY <1>4, <2>1, <2>2, <2>3 DEF HandlerStep
  <1>5. ASSUME NEW c \in Clients, ClientStep(c) \/ Interrupt(c) PROVE Goal
    <2>1. CASE SpawnDetached(c)
      <3>1. UNCHANGED <<inbound, work, raced, db, rpc, daemon>>
        BY <2>1 DEF SpawnDetached, fileVars
      <3>2. \/ UNCHANGED main
            \/ \E d \in Daemons : \E w :
                  SetMain(d, w) /\ w \notin Serves /\ (w \in Unborn => main[d] \in Unborn)
        BY <2>1 DEF SpawnDetached, Serves, Unborn
      <3> QED BY <1>h, <1>i, <3>1, <3>2
    <2>2. CASE Call(c)
      <3>1. /\ \E r : rpc' = [rpc EXCEPT ![c] = r] \/ UNCHANGED rpc
            /\ UNCHANGED <<inbound, work, raced, db, daemon, main>> /\ cli[c].pc = "call"
        BY <2>2 DEF Call, fileVars, daemonVars
      <3>2. ~ Rotating(c)
        BY <3>1 DEF StoreInv, TypeInv, OnceInv, ClientInv, InHandler, Over, Rotating
      <3>3. HostSame
        BY <3>1, <3>2, HostsSame
      <3> QED BY <1>i, <3>1, <3>3
    <2>3. CASE OfflineStep(c)
      <3>1. UNCHANGED <<inbound, work, raced, rpc, daemon, main>> /\ cli[c].pc = "step"
        BY <2>3 DEF OfflineStep, daemonVars
      <3>2. lock \notin Daemons
        BY <3>1, ControlAssumption DEF StoreInv, KeyInv, InStore
      <3>3. \A x \in Daemons : ~ Known(x)
        BY <1>t, <3>2 DEF ProcInv, Known, Serves, Owning
      <3> QED BY <1>b, <1>h, <3>1, <3>3, AddrIdle DEF Goal
    <2>4. CASE \/ DialClient(c) \/ OpenAt(c) \/ CloseAt(c) \/ WaitForSocketGone(c) \/ Interrupt(c)
      BY <1>h, <1>i, <2>4 DEF DialClient, OpenAt, CloseAt, WaitForSocketGone, Interrupt, daemonVars,
                              fileVars
    <2> QED BY <1>5, <2>1, <2>2, <2>3, <2>4 DEF ClientStep
  <1>6. ASSUME NEW c \in Clients, NEW cmd \in Commands, NEW pass \in Pass, Run(c, cmd, pass)
        PROVE  Goal
    BY <1>h, <1>i, <1>6 DEF Run, daemonVars, fileVars
  <1>7. CASE UNCHANGED vars
    BY <1>h, <1>i, <1>7 DEF vars, daemonVars, fileVars, clientVars
  <1> QED BY <1>1, <1>2, <1>3, <1>4, <1>5, <1>6, <1>7 DEF Next

\* The address a daemon answers on is the stored one whenever no change of the
\* transport key is under way and no two overlapped, for every number of
\* daemons, commands and rotations, through rotations that fail half-way and
\* daemons killed between listening and storing (startTransport, rotateKey).
THEOREM AddressIsStored == Spec => []AddressPersisted
  <1> DEFINE Inv == StoreInv /\ \A d \in Daemons : AddrInv(d)
  <1>1. Init => Inv
    <2> SUFFICES ASSUME Init PROVE \A d \in Daemons : AddrInv(d)
      BY InitStoreInv
    <2>1. \A a \in Workers : work[a].pc = "off"
      BY DEF Init, Workers, NoWork
    <2>2. \A d \in Daemons : inbound[d] = {} /\ main[d] = "off"
      BY DEF Init
    <2> QED BY <2>1, <2>2 DEF AddrInv, OneWorker, Working, Known, Serves
  <1>2. Inv /\ [Next]_vars => Inv'
    BY NextStoreInv, AddrsKept
  <1>3. Inv => AddressPersisted
    <2> SUFFICES ASSUME Inv, NEW d \in Daemons, main[d] = "run", ~ StopBegun(d), d \notin raced,
                        \A a \in Daemons \cup Clients : Host(a) = d => work[a].pc = "off",
                        daemon[d].tc \in inbound[d]
                 PROVE  db.transport = daemon[d].tc
      BY DEF AddressPersisted
    <2>1. Known(d) /\ \A a \in Workers : ~ Working(a, d)
      BY DEF Known, Serves, Workers, Working
    <2> QED BY <2>1 DEF AddrInv, StoredAddr
  <1> QED BY <1>1, <1>2, <1>3, PTL DEF Spec

============================================================================
