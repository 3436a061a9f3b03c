------------------------------ MODULE Control ------------------------------
(***************************************************************************)
(* One store file, the daemons started on it and the commands run against  *)
(* them (internal/cli/root.go, internal/daemon/daemon.go and               *)
(* server_grpc.go): the store's file lock, the control socket, Start and   *)
(* Stop, the RPC handlers, and the key material the store keeps.           *)
(*                                                                         *)
(* Processes share only the file system.  bbolt locks the store file from  *)
(* Open to Close and waits 5 s for a lock; the socket is a path, which     *)
(* names the listener of whoever bound it last until somebody unlinks it.  *)
(* Inside a daemon, main, the gRPC handlers and the Stop goroutines run    *)
(* concurrently.                                                           *)
(*                                                                         *)
(* A key is its own identity; a transport key is its own address token.    *)
(* The own logs are Store's: here a write is counted, not stored.          *)
(***************************************************************************)
EXTENDS Commands, Naturals, FiniteSets

CONSTANTS
    Daemons,     \* daemon processes, each started at most once
    Clients,     \* command processes, each run at most once
    Keys,        \* identity keys
    Nil,
    MaxTokens,   \* bound: transport keys generated
    MaxCrashes   \* bound: processes killed

ASSUME ControlAssumption ==
    /\ MaxTokens \in Nat /\ MaxCrashes \in Nat
    /\ Nil \notin Daemons \cup Clients \cup Keys \cup Nat
    /\ Daemons \cap Clients = {}
    /\ "signal" \notin Clients

VARIABLES
    db,        \* the store file: [key, identity, transport]
    lock,      \* the process that holds the store file's lock, or Nil
    sock,      \* the daemon whose socket file is at the path, or Nil
    accepting, \* daemons whose control listener is open
    main,      \* main[d]: where the daemon command of d is
    daemon,    \* daemon[d]: the Daemon's fields srv, tc, unlocked and done
    inbound,   \* inbound[d]: keys of d's open tailcat listeners
    stop,      \* stop[d][s]: the Stop call of s in d and what it took
    work,      \* work[a]: the startTransport that a daemon or a RotateKey runs
    cli,       \* cli[c]: a command process
    rpc,       \* rpc[c]: the handler that serves c
    applied,   \* applied[c]: how often c's write reached the store
    raced,     \* daemons in which two transport changes overlapped
    tokens, crashes

fileVars == <<db, lock, sock>>
daemonVars == <<accepting, main, daemon, inbound, stop, work, raced, tokens>>
clientVars == <<cli, rpc, applied>>
vars == <<fileVars, daemonVars, clientVars, crashes>>

Stoppers == Clients \cup {"signal"}
Tokens == 1 .. MaxTokens
Pass == {"none", "right", "wrong"}

NoCmd == Cmd(<<>>, <<>>, "never")
NoWork == [pc |-> "off", key |-> Nil]
NoRpc == [pc |-> "none", at |-> Nil, op |-> "Read"]
NewDaemon == [srv |-> FALSE, tc |-> Nil, unlocked |-> Nil, done |-> FALSE]
NewStop(where) == [pc |-> where, srv |-> FALSE, tc |-> Nil]

\* A command process that does nothing, or is over with the given outcome.
NewCli(where) == [pc |-> where, cmd |-> NoCmd, pass |-> "none", todo |-> <<>>, ok |-> TRUE]

\* Where main is when the daemon has the store open.
Owning == {"listen", "transport", "run", "stopping", "close"}
\* Where a command is when it has the store open.
InStore == {"step", "close"}

Alive(d) == main[d] \notin {"off", "exit"}
Serving(c, d) == rpc[c].pc # "none" /\ rpc[c].at = d
StopBegun(d) == \E s \in Stoppers : stop[d][s].pc # "off"
StoppedTwice(d) ==
    \E s, t \in Stoppers : s # t /\ stop[d][s].pc # "off" /\ stop[d][t].pc # "off"

SetMain(d, where) == main' = [main EXCEPT ![d] = where]
SetField(d, f, v) == daemon' = [daemon EXCEPT ![d][f] = v]

----------------------------------------------------------------------------
(* The store's operations on the key material: what is in the file after    *)
(* each, or Nil when it returns an error.                                   *)

InitIdentity(k) ==
    IF db.key = Nil THEN [db EXCEPT !.key = k, !.identity = k] ELSE Nil

Identity == IF db.identity # Nil THEN db ELSE Nil

EncryptedKey == IF db.key # Nil THEN db ELSE Nil

\* Mutant: the identity of the key that is replaced stays.
PutEncryptedKeyOnly(k) == [db EXCEPT !.key = k]

PutEncryptedKey(k) == [db EXCEPT !.key = k, !.identity = Nil]

\* Importing decrypts the key again to learn its identity.
SetIdentity(pass) == IF pass = "right" THEN [db EXCEPT !.identity = db.key] ELSE Nil

\* Mutant: the transport key is written under the encrypted key's name.
PutTransportKeyAsKey(t) == [db EXCEPT !.key = t]

PutTransportKey(t) == [db EXCEPT !.transport = t]

DeleteTransportKey == [db EXCEPT !.transport = Nil]

----------------------------------------------------------------------------
(* The daemon command: open the store, Start, wait, close.                 *)

\* The user runs `driftnode daemon`, in the foreground or detached.
Launch(d) ==
    /\ main[d] = "off"
    /\ SetMain(d, "open")
    /\ UNCHANGED <<fileVars, accepting, daemon, inbound, stop, work, raced, tokens,
                   clientVars, crashes>>

\* openStoreAt: the file lock is free.  On a terminal the passphrase is then
\* asked for: the key is installed, or left locked, or the wrong passphrase
\* ends the command.
OpenStore(d) ==
    /\ main[d] = "open" /\ lock = Nil
    /\ lock' = d
    /\ \/ SetMain(d, "listen") /\ UNCHANGED daemon
       \/ /\ db.key # Nil
          /\ SetField(d, "unlocked", db.key)
          /\ SetMain(d, "listen")
       \/ /\ db.key # Nil
          /\ SetMain(d, "close")
          /\ UNCHANGED daemon
    /\ UNCHANGED <<db, sock, accepting, inbound, stop, work, raced, tokens,
                   clientVars, crashes>>

\* Mutant: a daemon that cannot lock the store starts all the same.
OpenTimeoutIgnored(d) ==
    /\ main[d] = "open" /\ lock # Nil
    /\ SetMain(d, "listen")
    /\ UNCHANGED <<fileVars, accepting, daemon, inbound, stop, work, raced, tokens,
                   clientVars, crashes>>

\* openStoreAt: the lock stayed taken for 5 s; the command fails.
OpenTimeout(d) ==
    /\ main[d] = "open" /\ lock # Nil
    /\ SetMain(d, "exit")
    /\ UNCHANGED <<fileVars, accepting, daemon, inbound, stop, work, raced, tokens,
                   clientVars, crashes>>

\* Start: unlink whatever is at the socket path, listen, publish the fields
\* and serve; then startTransport.
Start(d) ==
    /\ main[d] = "listen"
    /\ sock' = d
    /\ accepting' = accepting \cup {d}
    /\ SetField(d, "srv", TRUE)
    /\ work' = [work EXCEPT ![d] = [pc |-> "read", key |-> Nil]]
    /\ SetMain(d, "transport")
    /\ UNCHANGED <<db, lock, inbound, stop, raced, tokens, clientVars, crashes>>

\* Start: the socket cannot be bound; the stale file is gone all the same.
StartFails(d) ==
    /\ main[d] = "listen"
    /\ sock' = Nil
    /\ SetMain(d, "close")
    /\ UNCHANGED <<db, lock, accepting, daemon, inbound, stop, work, raced, tokens,
                   clientVars, crashes>>

\* SIGINT or SIGTERM: main calls Stop itself.
Signal(d) ==
    /\ main[d] = "run"
    /\ stop' = [stop EXCEPT ![d]["signal"].pc = "take"]
    /\ SetMain(d, "stopping")
    /\ UNCHANGED <<fileVars, accepting, daemon, inbound, work, raced, tokens,
                   clientVars, crashes>>

\* main returns, from an early error or from its select: the done channel is
\* closed, or its own Stop is over.  The deferred s.Close() frees the lock; the
\* process is still there.
CloseStore(d) ==
    /\ \/ main[d] = "close"
       \/ main[d] = "run" /\ daemon[d].done
       \/ main[d] = "stopping" /\ stop[d]["signal"].pc = "end"
    /\ lock' = IF lock = d THEN Nil ELSE lock
    /\ SetMain(d, "exiting")
    /\ UNCHANGED <<db, sock, accepting, daemon, inbound, stop, work, raced, tokens,
                   clientVars, crashes>>

\* Mutant: any RPC error sends the command down its offline path.
CutOffRetries(c) ==
    IF cli[c].cmd.steps # <<>> THEN [cli[c] EXCEPT !.pc = "open", !.todo = cli[c].cmd.steps]
    ELSE NewCli(IF cli[c].cmd.spawn THEN "spawn" ELSE "failed")

\* A command whose RPC ends without an answer fails, but a restart goes on.
CutOff(c) ==
    NewCli(IF cli[c].cmd.spawn THEN "spawn" ELSE "failed")

\* The end of process d: its listeners close, its handlers are gone and who
\* waited for one gets an error.  A socket file stays.
Die(d) ==
    /\ SetMain(d, "exit")
    /\ accepting' = accepting \ {d}
    /\ inbound' = [inbound EXCEPT ![d] = {}]
    /\ lock' = IF lock = d THEN Nil ELSE lock
    /\ daemon' = [daemon EXCEPT ![d] = NewDaemon]
    /\ stop' = [stop EXCEPT ![d] = [s \in Stoppers |->
                  NewStop(IF stop[d][s].pc = "off" THEN "off" ELSE "end")]]
    /\ rpc' = [c \in Clients |-> IF Serving(c, d) THEN NoRpc ELSE rpc[c]]
    /\ cli' = [c \in Clients |->
                 IF Serving(c, d) /\ cli[c].pc = "wait" THEN CutOff(c) ELSE cli[c]]
    /\ work' = [a \in Daemons \cup Clients |->
                  IF a = d \/ (a \in Clients /\ rpc[a].at = d)
                  THEN NoWork ELSE work[a]]
    /\ UNCHANGED <<db, sock, applied, raced, tokens>>

Exit(d) == main[d] = "exiting" /\ Die(d) /\ UNCHANGED crashes

\* kill -9, or the machine goes down.
Crash(d) ==
    /\ Alive(d) /\ crashes < MaxCrashes
    /\ Die(d)
    /\ crashes' = crashes + 1

----------------------------------------------------------------------------
(* startTransport, run by Start and by rotateKey.                          *)

\* The daemon in which a works on the transport.
Host(a) == IF a \in Daemons THEN a ELSE rpc[a].at

\* What follows the last step of startTransport for a.
TransportDone(a, ok) ==
    /\ work' = [work EXCEPT ![a] = NoWork]
    /\ IF a \in Daemons
       THEN SetMain(a, "run") /\ UNCHANGED rpc
       ELSE /\ rpc' = [rpc EXCEPT ![a].pc = IF ok THEN "ok" ELSE "err"]
            /\ UNCHANGED main

\* rotateKey: read the listener under the lock, then close it.
RotateClose(c) ==
    /\ rpc[c].pc = "run" /\ rpc[c].op = "RotateKey" /\ work[c].pc = "off"
    /\ LET d == rpc[c].at
       IN  /\ inbound' = [inbound EXCEPT ![d] = @ \ {daemon[d].tc}]
           /\ raced' = IF \E a \in Daemons \cup Clients : Host(a) = d /\ work[a].pc # "off"
                       THEN raced \cup {d} ELSE raced
    /\ work' = [work EXCEPT ![c] = [pc |-> "delete", key |-> Nil]]
    /\ UNCHANGED <<fileVars, accepting, main, daemon, stop, tokens, clientVars, crashes>>

\* rotateKey: DeleteTransportKey, which fails on a closed store.
RotateDelete(c) ==
    /\ work[c].pc = "delete"
    /\ IF lock = rpc[c].at
       THEN /\ db' = DeleteTransportKey
            /\ work' = [work EXCEPT ![c].pc = "read"]
            /\ UNCHANGED <<main, rpc>>
       ELSE TransportDone(c, FALSE) /\ UNCHANGED db
    /\ UNCHANGED <<lock, sock, accepting, daemon, inbound, stop, raced, tokens,
                   cli, applied, crashes>>

\* startTransport: the stored key, if there is one that can be read.
TransportRead(a) ==
    /\ work[a].pc = "read"
    /\ work' = [work EXCEPT ![a] =
                  [pc |-> "listen", key |-> IF lock = Host(a) THEN db.transport ELSE Nil]]
    /\ UNCHANGED <<fileVars, accepting, main, daemon, inbound, stop, raced, tokens,
                   clientVars, crashes>>

\* startTransport: listen with the stored key or with a fresh one, and publish
\* the listener.
TransportListen(a) ==
    /\ work[a].pc = "listen"
    /\ LET d == Host(a)
           fresh == work[a].key = Nil
           key == IF fresh THEN tokens + 1 ELSE work[a].key
       IN  /\ fresh => tokens < MaxTokens
           /\ tokens' = IF fresh THEN tokens + 1 ELSE tokens
           /\ inbound' = [inbound EXCEPT ![d] = @ \cup {key}]
           /\ SetField(d, "tc", key)
           /\ IF fresh
              THEN /\ work' = [work EXCEPT ![a] = [pc |-> "persist", key |-> key]]
                   /\ UNCHANGED <<main, rpc>>
              ELSE TransportDone(a, TRUE)
    /\ UNCHANGED <<fileVars, accepting, stop, raced, cli, applied, crashes>>

\* startTransport: no listener.  Start goes on without one.
TransportFails(a) ==
    /\ work[a].pc = "listen"
    /\ TransportDone(a, FALSE)
    /\ UNCHANGED <<fileVars, accepting, daemon, inbound, stop, raced, tokens,
                   cli, applied, crashes>>

\* Mutant: the fresh key is never written.
TransportPersistSkipped(a) ==
    /\ work[a].pc = "persist"
    /\ TransportDone(a, TRUE)
    /\ UNCHANGED <<fileVars, accepting, daemon, inbound, stop, raced, tokens,
                   cli, applied, crashes>>

\* startTransport: PutTransportKey of a fresh key; a failure is only logged.
TransportPersist(a) ==
    /\ work[a].pc = "persist"
    /\ db' = IF lock = Host(a) THEN PutTransportKey(work[a].key) ELSE db
    /\ TransportDone(a, TRUE)
    /\ UNCHANGED <<lock, sock, accepting, daemon, inbound, stop, raced, tokens,
                   cli, applied, crashes>>

TransportStep(a) ==
    \/ TransportRead(a) \/ TransportListen(a)
    \/ TransportFails(a) \/ TransportPersist(a)

----------------------------------------------------------------------------
(* Daemon.Stop, called by s in daemon d.                                   *)

SetStop(d, s, where) == stop' = [stop EXCEPT ![d][s].pc = where]

\* Under the lock: take the server, the listeners and the socket path, so a
\* second Stop finds nothing to close; the key is forgotten.
StopTake(d, s) ==
    /\ Alive(d) /\ stop[d][s].pc = "take"
    /\ stop' = [stop EXCEPT ![d][s] =
                  [pc |-> IF daemon[d].srv THEN "graceful" ELSE "listeners",
                   srv |-> daemon[d].srv, tc |-> daemon[d].tc]]
    /\ daemon' = [daemon EXCEPT ![d] = [NewDaemon EXCEPT !.done = daemon[d].done]]
    /\ UNCHANGED <<fileVars, accepting, main, inbound, work, raced, tokens,
                   clientVars, crashes>>

\* GracefulStop first closes the control listener, which unlinks its path.
StopAccepting(d, s) ==
    /\ Alive(d) /\ stop[d][s].pc = "graceful"
    /\ accepting' = accepting \ {d}
    /\ sock' = Nil
    /\ SetStop(d, s, "drain")
    /\ UNCHANGED <<db, lock, main, daemon, inbound, work, raced, tokens, clientVars, crashes>>

\* GracefulStop returns when no RPC is in flight.
StopDrained(d, s) ==
    /\ Alive(d) /\ stop[d][s].pc = "drain"
    /\ \A c \in Clients : ~ Serving(c, d)
    /\ SetStop(d, s, "listeners")
    /\ UNCHANGED <<fileVars, accepting, main, daemon, inbound, work, raced, tokens,
                   clientVars, crashes>>

\* Mutant: Stop waits for GracefulStop however long it takes.
StopDeadlineNever(d, s) == FALSE /\ UNCHANGED vars

\* After gracefulStopTimeout a hard Stop cuts the connections.  Handlers that
\* do not watch their context run on.
StopDeadline(d, s) ==
    /\ Alive(d) /\ stop[d][s].pc = "drain"
    /\ \E c \in Clients : Serving(c, d)
    /\ SetStop(d, s, "listeners")
    /\ cli' = [c \in Clients |->
                 IF Serving(c, d) /\ cli[c].pc = "wait" THEN CutOff(c) ELSE cli[c]]
    /\ rpc' = [c \in Clients |->
                 IF Serving(c, d) /\ rpc[c].op = "Subscribe"
                 THEN NoRpc ELSE rpc[c]]
    /\ UNCHANGED <<fileVars, accepting, main, daemon, inbound, work, raced, tokens,
                   applied, crashes>>

\* Close the tailcat listener, stop the sync loop, unlink the socket path, and
\* evaluate the guard of close(d.done).
StopListeners(d, s) ==
    /\ Alive(d) /\ stop[d][s].pc = "listeners"
    /\ inbound' = [inbound EXCEPT ![d] = @ \ {stop[d][s].tc}]
    /\ sock' = IF stop[d][s].srv THEN Nil ELSE sock
    /\ SetStop(d, s, IF daemon[d].done THEN "end" ELSE "done")
    /\ UNCHANGED <<db, lock, accepting, main, daemon, work, raced, tokens, clientVars, crashes>>

\* close(d.done).  Closing it again panics and ends the process.
StopDone(d, s) ==
    /\ Alive(d) /\ stop[d][s].pc = "done"
    /\ \/ /\ ~ daemon[d].done
          /\ SetField(d, "done", TRUE)
          /\ SetStop(d, s, "end")
          /\ UNCHANGED <<fileVars, accepting, main, inbound, work, raced, tokens, clientVars>>
       \/ /\ daemon[d].done
          /\ Die(d)
    /\ UNCHANGED crashes

StopStep(d, s) ==
    \/ StopTake(d, s) \/ StopAccepting(d, s) \/ StopDrained(d, s) \/ StopDeadline(d, s)
    \/ StopListeners(d, s) \/ StopDone(d, s)

----------------------------------------------------------------------------
(* The RPC handlers.                                                       *)

Reply(c, how) == rpc' = [rpc EXCEPT ![c].pc = how]

Handling(c, ops) == rpc[c].pc = "run" /\ rpc[c].op \in ops

\* The store is open in the daemon that serves c.
StoreOpen(c) == lock = rpc[c].at

\* Any handler may refuse its arguments or fail, with no effect.  A terminal UI
\* whose Status fails goes on without unlocking.
HandlerFails(c) ==
    /\ rpc[c].pc = "run" /\ work[c].pc = "off"
    /\ rpc[c].op \notin {"Stop", "Lock", "Subscribe"}
    /\ \/ Reply(c, "err")
       \/ rpc[c].op = "UnlockIfLocked" /\ Reply(c, "ok")
    /\ UNCHANGED <<fileVars, daemonVars, cli, applied, crashes>>

\* Status, Sync, FeedPage without all_likes and the snapshot a Subscribe begins
\* with.
HandleRead(c) ==
    /\ Handling(c, {"Read", "FeedPage"})
    /\ Reply(c, "ok")
    /\ UNCHANGED <<fileVars, daemonVars, cli, applied, crashes>>

HandleWhoami(c) ==
    /\ Handling(c, {"Whoami"})
    /\ Reply(c, IF StoreOpen(c) /\ db.identity # Nil THEN "ok" ELSE "err")
    /\ UNCHANGED <<fileVars, daemonVars, cli, applied, crashes>>

\* Verify, Unverify, Pin and Unpin.
HandleMark(c) ==
    /\ Handling(c, {"Mark"}) /\ StoreOpen(c)
    /\ applied' = [applied EXCEPT ![c] = @ + 1]
    /\ Reply(c, "ok")
    /\ UNCHANGED <<fileVars, daemonVars, cli, crashes>>

\* handleUnlock: decrypt the stored key and keep it.
Decrypt(c) == IF StoreOpen(c) /\ cli[c].pass = "right" THEN db.key ELSE Nil

\* Unlock and, for the terminal UI, Status and then Unlock.  A wrong
\* passphrase leaves the key that is there.
HandleUnlock(c) ==
    /\ Handling(c, {"Unlock", "UnlockIfLocked"})
    /\ LET d == rpc[c].at
           kept == rpc[c].op = "UnlockIfLocked" /\ daemon[d].unlocked # Nil
           k == IF kept THEN daemon[d].unlocked ELSE Decrypt(c)
       IN  /\ IF k = Nil THEN UNCHANGED daemon ELSE SetField(d, "unlocked", k)
           /\ Reply(c, IF k = Nil THEN "err" ELSE "ok")
    /\ UNCHANGED <<fileVars, accepting, main, inbound, stop, work, raced, tokens,
                   cli, applied, crashes>>

HandleLock(c) ==
    /\ Handling(c, {"Lock"})
    /\ SetField(rpc[c].at, "unlocked", Nil)
    /\ Reply(c, "ok")
    /\ UNCHANGED <<fileVars, accepting, main, inbound, stop, work, raced, tokens,
                   cli, applied, crashes>>

\* A passphrase unlocks; without one the cached key signs, unless the idle lock
\* has run out.
signingKey(c, idle) ==
    IF cli[c].pass # "none" THEN Decrypt(c)
    ELSE IF idle THEN Nil ELSE daemon[rpc[c].at].unlocked

\* What signingKey leaves of the cached key when it returned k.
KeepKey(c, k) ==
    IF cli[c].pass = "none" \/ k # Nil THEN SetField(rpc[c].at, "unlocked", k)
    ELSE UNCHANGED daemon

\* Post, Like, Profile, Detail, Unfollow, and Follow of a pubkey nobody has named
\* a token for: signingKey, then the append.
HandleSign(c) ==
    /\ Handling(c, {"Sign", "Follow"})
    /\ \E idle \in BOOLEAN :
         LET k == signingKey(c, idle)
             ok == k # Nil /\ StoreOpen(c)
         IN  /\ KeepKey(c, k)
             /\ applied' = IF ok THEN [applied EXCEPT ![c] = @ + 1] ELSE applied
             /\ Reply(c, IF ok THEN "ok" ELSE "err")
    /\ UNCHANGED <<fileVars, accepting, main, inbound, stop, work, raced, tokens, cli, crashes>>

\* Follow of a token: signingKey, the dial and a session with whoever answers.
\* FeedPage with all_likes: every connected zen is asked for its likes.  The dial
\* has a deadline; what comes after it has none, and watches no context.
AskZen(c) ==
    /\ Handling(c, {"Follow", "FeedPage"})
    /\ IF rpc[c].op = "Follow"
       THEN \E idle \in BOOLEAN :
              LET k == signingKey(c, idle)
              IN  KeepKey(c, k) /\ Reply(c, IF k = Nil THEN "err" ELSE "zen")
       ELSE Reply(c, "zen") /\ UNCHANGED daemon
    /\ UNCHANGED <<fileVars, accepting, main, inbound, stop, work, raced, tokens, cli, applied,
                   crashes>>

\* The other zen is done, or hangs up: writeFollow appends the event, FeedPage
\* answers with the likes it has.
ZenAnswers(c) ==
    /\ rpc[c].pc = "zen"
    /\ \E ok \in BOOLEAN :
         /\ rpc[c].op = "Follow" /\ ok => StoreOpen(c)
         /\ applied' = IF rpc[c].op = "Follow" /\ ok THEN [applied EXCEPT ![c] = @ + 1] ELSE applied
         /\ Reply(c, IF ok THEN "ok" ELSE "err")
    /\ UNCHANGED <<fileVars, daemonVars, cli, crashes>>

\* Stop answers at once; a goroutine of its own calls Daemon.Stop.
HandleStop(c) ==
    /\ Handling(c, {"Stop"})
    /\ stop' = [stop EXCEPT ![rpc[c].at][c].pc = "take"]
    /\ Reply(c, "ok")
    /\ UNCHANGED <<fileVars, accepting, main, daemon, inbound, work, raced, tokens,
                   cli, applied, crashes>>

\* The subscription of a terminal UI ends when its user quits, or when Stop
\* has closed the subscriber and the pump is not stuck in Send.
EndSubscribe(c) ==
    /\ Handling(c, {"Subscribe"})
    /\ Reply(c, "ok")
    /\ UNCHANGED <<fileVars, daemonVars, cli, applied, crashes>>

\* The answer reaches the client, if it still waits: the next RPC of the
\* command, or its end.
Answer(c) ==
    /\ rpc[c].pc \in {"ok", "err"}
    /\ rpc' = [rpc EXCEPT ![c] = NoRpc]
    /\ cli' = IF cli[c].pc # "wait" THEN cli
              ELSE [cli EXCEPT ![c] =
                 IF rpc[c].pc = "err" THEN CutOff(c)
                 ELSE IF Len(cli[c].todo) > 1
                      THEN [cli[c] EXCEPT !.pc = "call", !.todo = Tail(@)]
                 ELSE NewCli(IF cli[c].cmd.spawn THEN "gone" ELSE "ok")]
    /\ UNCHANGED <<fileVars, daemonVars, applied, crashes>>

HandlerStep(c) ==
    \/ HandlerFails(c) \/ HandleRead(c) \/ HandleWhoami(c) \/ HandleMark(c)
    \/ HandleUnlock(c) \/ HandleLock(c) \/ HandleSign(c) \/ AskZen(c) \/ HandleStop(c)
    \/ RotateClose(c) \/ RotateDelete(c) \/ Answer(c)

----------------------------------------------------------------------------
(* The command process.                                                    *)

SetCli(c, where) == cli' = [cli EXCEPT ![c].pc = where]
EndCli(c, where) == cli' = [cli EXCEPT ![c] = NewCli(where)]

Run(c, cmd, pass) ==
    /\ cli[c].pc = "idle"
    /\ UsesPass(cmd) \/ pass = "none"
    /\ cli' = [cli EXCEPT ![c] =
                 IF cmd.pass = "always" /\ pass = "none" THEN NewCli("failed")
                 ELSE [pc |-> IF cmd.rpcs = <<>> THEN "open" ELSE "probe",
                       cmd |-> cmd, pass |-> pass,
                       todo |-> IF cmd.rpcs = <<>> THEN cmd.steps ELSE cmd.rpcs,
                       ok |-> TRUE]]
    /\ UNCHANGED <<fileVars, daemonVars, rpc, applied, crashes>>

\* DialClient: the probe connects, or the daemon is not running; then the
\* command goes offline if it can, and a restart goes on to the spawn.
DialClient(c) ==
    /\ cli[c].pc = "probe"
    /\ IF sock \in accepting
       THEN SetCli(c, "call")
       ELSE LET cmd == cli[c].cmd IN
            cli' = [cli EXCEPT ![c] =
                      IF cmd.steps = <<>> \/ (cmd.pass = "offline" /\ cli[c].pass = "none")
                      THEN CutOff(c)
                      ELSE [cli[c] EXCEPT !.pc = "open", !.todo = cmd.steps]]
    /\ UNCHANGED <<fileVars, daemonVars, rpc, applied, crashes>>

\* The RPC connects anew, to whoever is at the path by now.  An RPC error is
\* never ErrNotRunning, so it never leads to the offline path.
Call(c) ==
    /\ cli[c].pc = "call"
    /\ IF sock \in accepting
       THEN /\ rpc' = [rpc EXCEPT ![c] = [pc |-> "run", at |-> sock, op |-> Head(cli[c].todo)]]
            /\ SetCli(c, "wait")
       ELSE cli' = [cli EXCEPT ![c] = CutOff(c)] /\ UNCHANGED rpc
    /\ UNCHANGED <<fileVars, daemonVars, applied, crashes>>

\* Mutant: after 5 s the command goes on without the lock.
OpenAtAnyway(c) ==
    /\ cli[c].pc = "open"
    /\ lock' = IF lock = Nil THEN c ELSE lock
    /\ SetCli(c, "step")
    /\ UNCHANGED <<db, sock, daemonVars, rpc, applied, crashes>>

\* openStoreAt: the lock, or an error after 5 s.
OpenAt(c) ==
    /\ cli[c].pc = "open"
    /\ IF lock = Nil
       THEN lock' = c /\ SetCli(c, "step")
       ELSE EndCli(c, "failed") /\ UNCHANGED lock
    /\ UNCHANGED <<db, sock, daemonVars, rpc, applied, crashes>>

\* What one offline step leaves in the store.  k and t are the key and the
\* transport key in the file that is imported.
StepResult(c, step, k, t) ==
    CASE step = "InitIdentity" -> InitIdentity(k)
      [] step = "Identity" -> Identity
      [] step = "EncryptedKey" -> EncryptedKey
      [] step = "SignAndAppend" -> IF cli[c].pass = "right" THEN EncryptedKey ELSE Nil
      [] step = "PutEncryptedKey" -> PutEncryptedKey(k)
      [] step = "SetIdentity" -> SetIdentity(cli[c].pass)
      [] step = "SealTransportKey" ->
           IF db.transport # Nil /\ cli[c].pass = "none" THEN Nil ELSE db
      [] step = "PutTransportKey" ->
           IF t = Nil THEN db ELSE IF cli[c].pass = "right" THEN PutTransportKey(t) ELSE Nil
      [] OTHER -> db

\* One transaction of the offline path and what it leaves, Nil when it fails:
\* the next one, or the store is closed.
Transact(c, step, new) ==
    /\ db' = IF new = Nil THEN db ELSE new
    /\ applied' = IF new # Nil /\ step \in {"SignAndAppend", "Mark"}
                  THEN [applied EXCEPT ![c] = @ + 1] ELSE applied
    /\ cli' = [cli EXCEPT ![c] =
                 [pc |-> IF new = Nil \/ Len(cli[c].todo) = 1 THEN "close" ELSE "step",
                  cmd |-> cli[c].cmd, pass |-> cli[c].pass,
                  todo |-> Tail(cli[c].todo), ok |-> new # Nil]]

\* Reading the file or parsing the argument may fail, too.
OfflineStep(c) ==
    /\ cli[c].pc = "step"
    /\ \E k \in Keys, t \in (1 .. tokens) \cup {Nil}, fails \in BOOLEAN :
         LET step == Head(cli[c].todo)
         IN  /\ step \notin {"InitIdentity", "PutEncryptedKey"} => k = CHOOSE x \in Keys : TRUE
             /\ step # "PutTransportKey" => t = Nil
             /\ Transact(c, step, IF fails THEN Nil ELSE StepResult(c, step, k, t))
    /\ UNCHANGED <<lock, sock, daemonVars, rpc, crashes>>

CloseAt(c) ==
    /\ cli[c].pc = "close"
    /\ lock' = Nil
    /\ EndCli(c, IF cli[c].ok THEN "ok" ELSE "failed")
    /\ UNCHANGED <<db, sock, daemonVars, rpc, applied, crashes>>

\* Restart: poll until the path refuses connections, for at most 5 s.
WaitForSocketGone(c) ==
    /\ cli[c].pc = "gone"
    /\ EndCli(c, IF sock \in accepting THEN "failed" ELSE "spawn")
    /\ UNCHANGED <<fileVars, daemonVars, rpc, applied, crashes>>

\* spawnDetachedDaemon.  The parent does not wait for the child's Start.
SpawnDetached(c) ==
    /\ cli[c].pc = "spawn"
    /\ \/ \E d \in Daemons : main[d] = "off" /\ SetMain(d, "open")
       \/ (\A d \in Daemons : main[d] # "off") /\ UNCHANGED main
    /\ EndCli(c, "ok")
    /\ UNCHANGED <<fileVars, accepting, daemon, inbound, stop, work, raced, tokens,
                   rpc, applied, crashes>>

\* Ctrl-C on a command: the kernel frees the lock, the handler runs on.
Interrupt(c) ==
    /\ cli[c].pc \notin {"idle", "ok", "failed"} /\ crashes < MaxCrashes
    /\ EndCli(c, "failed")
    /\ lock' = IF lock = c THEN Nil ELSE lock
    /\ crashes' = crashes + 1
    /\ UNCHANGED <<db, sock, daemonVars, rpc, applied>>

ClientStep(c) ==
    \/ DialClient(c) \/ Call(c) \/ OpenAt(c) \/ OfflineStep(c) \/ CloseAt(c)
    \/ WaitForSocketGone(c) \/ SpawnDetached(c)

----------------------------------------------------------------------------
MainStep(d) ==
    \/ OpenStore(d) \/ OpenTimeout(d) \/ Start(d) \/ StartFails(d)
    \/ CloseStore(d) \/ Exit(d)

\* A store is empty, or holds the key of `driftnode init`.
Init ==
    /\ \E k \in Keys \cup {Nil} : db = [key |-> k, identity |-> k, transport |-> Nil]
    /\ lock = Nil /\ sock = Nil /\ accepting = {}
    /\ main = [d \in Daemons |-> "off"]
    /\ daemon = [d \in Daemons |-> NewDaemon]
    /\ inbound = [d \in Daemons |-> {}]
    /\ stop = [d \in Daemons |-> [s \in Stoppers |-> NewStop("off")]]
    /\ work = [a \in Daemons \cup Clients |-> NoWork]
    /\ cli = [c \in Clients |-> NewCli("idle")]
    /\ rpc = [c \in Clients |-> NoRpc]
    /\ applied = [c \in Clients |-> 0]
    /\ raced = {} /\ tokens = 0 /\ crashes = 0

Next ==
    \/ \E d \in Daemons : Launch(d) \/ MainStep(d) \/ Signal(d) \/ Crash(d)
    \/ \E d \in Daemons, s \in Stoppers : StopStep(d, s)
    \/ \E a \in Daemons \cup Clients : TransportStep(a)
    \/ \E c \in Clients : HandlerStep(c) \/ EndSubscribe(c) \/ ZenAnswers(c)
    \/ \E c \in Clients : ClientStep(c) \/ Interrupt(c)
    \/ \E c \in Clients, cmd \in Commands, pass \in Pass : Run(c, cmd, pass)

\* What happens by itself.  The Go scheduler runs what can run, and each wait of
\* these steps has a deadline: the lock 5 s, the drain gracefulStopTimeout, the
\* poll 5 s.  Nobody has to start, stop or kill anything, or to quit a terminal
\* UI, and another zen may stay silent for ever (ZenAnswers).  No process loops,
\* so it is enough that one of the steps is taken.
Progress ==
    \/ \E d \in Daemons : MainStep(d) \/ \E s \in Stoppers : StopStep(d, s)
    \/ \E a \in Daemons \cup Clients : TransportStep(a)
    \/ \E c \in Clients : HandlerStep(c) \/ ClientStep(c)

Fairness == WF_vars(Progress)

Spec == Init /\ [][Next]_vars /\ Fairness

----------------------------------------------------------------------------
Field == [srv : BOOLEAN, tc : Tokens \cup {Nil}, unlocked : Keys \cup {Nil}, done : BOOLEAN]

TypeOK ==
    /\ db \in [key : Keys \cup {Nil}, identity : Keys \cup {Nil}, transport : Tokens \cup {Nil}]
    /\ lock \in Daemons \cup Clients \cup {Nil}
    /\ sock \in Daemons \cup {Nil}
    /\ accepting \subseteq Daemons
    /\ main \in [Daemons -> Owning \cup {"off", "open", "exiting", "exit"}]
    /\ daemon \in [Daemons -> Field]
    /\ inbound \in [Daemons -> SUBSET Tokens]
    /\ stop \in [Daemons -> [Stoppers ->
         [pc : {"off", "take", "graceful", "drain", "listeners", "done", "end"},
          srv : BOOLEAN, tc : Tokens \cup {Nil}]]]
    /\ work \in [Daemons \cup Clients ->
         [pc : {"off", "delete", "read", "listen", "persist"}, key : Tokens \cup {Nil}]]
    /\ \A c \in Clients :
         /\ cli[c].pc \in InStore \cup {"idle", "probe", "call", "wait", "open", "gone",
                                        "spawn", "ok", "failed"}
         /\ cli[c].cmd \in Commands \cup {NoCmd}
         /\ cli[c].pass \in Pass /\ cli[c].ok \in BOOLEAN
         /\ rpc[c].pc \in {"none", "run", "zen", "ok", "err"}
         /\ rpc[c].at \in Daemons \cup {Nil}
    /\ applied \in [Clients -> Nat]
    /\ raced \subseteq Daemons
    /\ tokens \in 0 .. MaxTokens
    /\ crashes \in 0 .. MaxCrashes

\* The stored identity is the stored key's, whatever sequence of init, key
\* import with a right or a wrong passphrase, and interrupted import came
\* before: an interrupted import leaves a key without an identity, never with
\* another key's.
IdentityMatchesKey == db.identity # Nil => db.identity = db.key

\* The key a daemon keeps in memory is the key in the store for as long as it
\* has the store open: what it signs belongs to the identity it announces, and
\* no key import can slip in beside a running daemon.
UnlockedIsStored ==
    \A d \in Daemons : lock = d /\ daemon[d].unlocked # Nil => daemon[d].unlocked = db.key

\* One command writes once: an RPC whose answer was lost, because Stop cut the
\* connection, the daemon died or the command was interrupted, is not repeated
\* on the store.
AppliedOnce == \A c \in Clients : applied[c] <= 1

\* A daemon that nobody stopped can be reached: the start of another daemon
\* and the end of an earlier one, which unlinks the path twice, leave its
\* socket file alone.  The store's lock is what orders them; a daemon stopped
\* by an RPC and a signal at once gives the lock up before it is done.
RunningReachable ==
    (\A q \in Daemons : ~ StoppedTwice(q)) =>
        \A d \in Daemons : main[d] \in {"transport", "run"} /\ ~ StopBegun(d)
                              => sock = d /\ d \in accepting

\* The address a running daemon answers on is the one stored, which the next
\* start will use again, unless two changes of the transport key overlapped.
AddressPersisted ==
    \A d \in Daemons :
        /\ main[d] = "run" /\ ~ StopBegun(d) /\ d \notin raced
        /\ daemon[d].tc # Nil
        /\ \A a \in Daemons \cup Clients : Host(a) = d => work[a].pc = "off"
        => \/ db.transport = daemon[d].tc /\ daemon[d].tc \in inbound[d]
           \* a rotation closed the listener and failed to open another
           \/ daemon[d].tc \notin inbound[d]

\* The command waits for a handler that waits for another zen, in a daemon that
\* nobody stops: neither has a deadline.
WaitsForZen(c) == cli[c].pc = "wait" /\ rpc[c].pc = "zen" /\ ~ StopBegun(rpc[c].at)

\* A daemon that is told to stop exits, whatever its handlers, its subscribers
\* and the zens they wait for do, and every command comes to an end but a
\* terminal UI and a follow or feed that waits for another zen: nobody waits for
\* ever for a lock, for a drain, for a socket to go or for a daemon that stops.
Settled ==
    /\ \A d \in Daemons : StopBegun(d) => main[d] = "exit"
    /\ \A c \in Clients :
         cli[c].pc \in {"idle", "ok", "failed"} \/ cli[c].cmd = tuiCmd \/ WaitsForZen(c)

Settles == <>[]Settled
============================================================================
