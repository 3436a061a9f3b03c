---------------------------- MODULE SyncSession ----------------------------
(***************************************************************************)
(* Sync sessions between two zens (internal/sync/session.go, the Session   *)
(* type): the concurrent handshake, the initiator's pulls of both logs,    *)
(* the exchange of zen tokens, the role reversal, the listener's pulls,    *)
(* and the close.  Both zens keep writing to their own logs meanwhile, and *)
(* the connection may break at any point.                                  *)
(*                                                                         *)
(* A connection is a pair of streams.  WriteMsg returns once at most Cap   *)
(* messages are unread; Cap = 0 is an unbuffered pipe, on which a write    *)
(* returns when its message has been read.  The logs, copies and cursors   *)
(* are those of LogSync, which this module implements.                     *)
(***************************************************************************)
EXTENDS Integers, FiniteSets, Sequences, SequencesExt

CONSTANTS
    Zens,         \* the two zens
    PostLog, ProfileLog,
    Bodies, Likes,
    First,        \* the zen that dials first; the two are alike, so either will do
    Writers,      \* the zens that write to their logs meanwhile
    Skew, Lag, MaxClock, MaxEvents,   \* as in LogSync
    BatchSize,    \* events per MsgEvents
    Cap,          \* messages a stream buffers
    MaxSessions,  \* bound: sessions run
    MaxBreaks     \* bound: connections the network breaks

ASSUME SessionAssumption ==
    /\ IsFiniteSet(Zens) /\ Cardinality(Zens) = 2
    /\ Writers \subseteq Zens /\ First \in Zens
    /\ BatchSize \in Nat \ {0} /\ Cap \in Nat
    /\ MaxSessions \in Nat /\ MaxBreaks \in Nat

\* What LogSync assumes, and that the two logs are two.
ASSUME StoreAssumption ==
    /\ Skew \in Nat /\ Lag \in Nat /\ Lag < Skew
    /\ MaxClock \in Nat /\ MaxEvents \in Nat
    /\ Likes \subseteq Bodies /\ PostLog # ProfileLog

Logs == {PostLog, ProfileLog}
Peer(z) == CHOOSE y \in Zens : y # z

VARIABLES
    own, pending, clock, held, cursor,   \* the stores: see LogSync
    pc,        \* pc[z]: where z's RunInitiator or RunListener is
    initiator, \* the zen that dialled
    up,        \* the connection delivers
    wire,      \* wire[z]: messages z has written and its peer has not read
    answer,    \* answer[z]: messages handleRequest of z has still to write
    batch,     \* batch[z]: events of the message z is merging
    log,       \* log[z]: the log z is pulling, or pulled last
    after,     \* after[z]: pullLog's after
    maxTS,     \* maxTS[z]: pullLog's maxTS
    known,     \* known[z]: the zens whose tokens z knows, itself first of all
    sessions, breaks, cuts,  \* counters: sessions, breaks, pulls cut short
    atStart    \* history: logs and tokens of each zen when the session began

storeVars == <<own, pending, clock, held, cursor>>
pullVars == <<batch, log, after, maxTS>>
connVars == <<pc, initiator, up, wire, answer>>
countVars == <<sessions, breaks, cuts, atStart>>
sessionVars == <<connVars, pullVars, known, countVars>>
vars == <<storeVars, sessionVars>>

----------------------------------------------------------------------------
(* What LogSync sees of a session: each zen is an author, a reader and the *)
(* owner of one pull.                                                      *)

HasRequest(z) == \E i \in DOMAIN wire[z] : wire[z][i].kind = "request"

EventsIn(msgs) ==
    UNION {IF m.kind = "events" THEN Range(m.items) ELSE {} : m \in Range(msgs)}

PullPhase(z) ==
    IF pc[z] \notin {"reading", "merging"} THEN "idle"
    ELSE IF HasRequest(z) THEN "asked" ELSE "stream"

InTransit(z) ==
    IF PullPhase(z) = "stream"
    THEN EventsIn(answer[Peer(z)]) \cup EventsIn(wire[Peer(z)]) \cup Range(batch[z])
    ELSE {}

LS == INSTANCE LogSync WITH
    Authors <- Zens, Readers <- Zens, Pulls <- Zens,
    MaxFaults <- 2 * MaxSessions,
    phase <- [z \in Zens |-> PullPhase(z)],
    key <- [z \in Zens |-> [reader |-> z, author |-> Peer(z), log |-> log[z]]],
    rest <- [z \in Zens |-> InTransit(z)],
    faults <- cuts

----------------------------------------------------------------------------
(* Messages.                                                               *)

Hello == [kind |-> "hello"]
Auth == [kind |-> "auth"]
Request(l, t) == [kind |-> "request", log |-> l, after |-> t]
Events(s) == [kind |-> "events", items |-> s]
DoneMsg == [kind |-> "done"]
ZensMsg(R) == [kind |-> "zens", refs |-> R]
ReverseMsg == [kind |-> "reverse"]

\* z's last write has returned.
Flushed(z) == Len(wire[z]) <= Cap

\* z writes m; on a dead connection the write fails (Abort).
Write(z, m) ==
    /\ up
    /\ wire' = [wire EXCEPT ![z] = Append(@, m)]

\* The next message z reads has this kind.
Incoming(z, kind) == wire[Peer(z)] # <<>> /\ Head(wire[Peer(z)]).kind = kind

Msg(z) == Head(wire[Peer(z)])

Consume(z) == wire' = [wire EXCEPT ![Peer(z)] = Tail(@)]

Goto(z, l) == pc' = [pc EXCEPT ![z] = l]

----------------------------------------------------------------------------
(* The connection.                                                         *)

\* A zen dials the other: connectAndSync on one side, the accept loop on the
\* other.  Both write Hello from a goroutine of their own.
Connect(z) ==
    /\ \A y \in Zens : pc[y] = "off"
    /\ sessions < MaxSessions
    /\ sessions = 0 => z = First
    /\ sessions' = sessions + 1
    /\ initiator' = z
    /\ up' = TRUE
    /\ pc' = [y \in Zens |-> "hello"]
    /\ wire' = [y \in Zens |-> <<Hello>>]
    /\ answer' = [y \in Zens |-> <<>>]
    /\ atStart' = [own |-> own, known |-> known, broken |-> FALSE]
    /\ UNCHANGED <<storeVars, pullVars, known, breaks, cuts>>

\* The network breaks the connection.
Break ==
    /\ up /\ \E z \in Zens : pc[z] # "off"
    /\ breaks < MaxBreaks
    /\ breaks' = breaks + 1
    /\ up' = FALSE
    /\ atStart' = [atStart EXCEPT !.broken = TRUE]
    /\ UNCHANGED <<storeVars, pc, initiator, wire, answer, pullVars, known, sessions, cuts>>

\* RunInitiator or RunListener returns and its caller closes the connection.
Close(z) == Goto(z, "off") /\ up' = FALSE

\* A read or write of z fails: the session returns the error.  A pull that is
\* running ends without moving its cursor.
Abort(z) ==
    /\ ~up
    /\ pc[z] \notin {"off", "merging"}
    /\ Goto(z, "off")
    /\ after' = [after EXCEPT ![z] = 0]
    /\ maxTS' = [maxTS EXCEPT ![z] = 0]
    /\ cuts' = IF pc[z] = "reading" THEN cuts + 1 ELSE cuts
    /\ UNCHANGED <<storeVars, initiator, up, wire, answer, batch, log, known, sessions, breaks, atStart>>

----------------------------------------------------------------------------
(* Handshake: send and receive run concurrently, in two rounds.            *)

\* Mutant: write Hello and wait for it before reading.
ReadHelloAfterWrite(z) ==
    /\ pc[z] = "hello" /\ Flushed(z) /\ Incoming(z, "hello")
    /\ Consume(z) /\ Goto(z, "gotHello")
    /\ UNCHANGED <<storeVars, initiator, up, answer, pullVars, known, countVars>>

\* The peer's Hello is read while z's own may still be unread.
ReadHello(z) ==
    /\ pc[z] = "hello" /\ Incoming(z, "hello")
    /\ Consume(z) /\ Goto(z, "gotHello")
    /\ UNCHANGED <<storeVars, initiator, up, answer, pullVars, known, countVars>>

\* writeErr of the Hello is collected; Auth is written by a new goroutine.
SendAuth(z) ==
    /\ pc[z] = "gotHello" /\ Flushed(z)
    /\ Write(z, Auth) /\ Goto(z, "auth")
    /\ UNCHANGED <<storeVars, initiator, up, answer, pullVars, known, countVars>>

ReadAuth(z) ==
    /\ pc[z] = "auth" /\ Incoming(z, "auth")
    /\ Consume(z) /\ Goto(z, "gotAuth")
    /\ UNCHANGED <<storeVars, initiator, up, answer, pullVars, known, countVars>>

\* The signature verifies: the initiator pulls, the listener serves.
Authed(z) ==
    /\ pc[z] = "gotAuth" /\ Flushed(z)
    /\ Goto(z, IF z = initiator THEN "pullPost" ELSE "serve")
    /\ UNCHANGED <<storeVars, initiator, up, wire, answer, pullVars, known, countVars>>

----------------------------------------------------------------------------
(* pullLog.                                                                *)

SendRequest(z) ==
    /\ pc[z] \in {"pullPost", "pullProfile"} /\ Flushed(z)
    /\ LET l == IF pc[z] = "pullPost" THEN PostLog ELSE ProfileLog
           c == cursor[[reader |-> z, author |-> Peer(z), log |-> l]]
       IN  /\ Write(z, Request(l, c))
           /\ log' = [log EXCEPT ![z] = l]
           /\ after' = [after EXCEPT ![z] = c]
    /\ Goto(z, "reading")
    /\ UNCHANGED <<storeVars, initiator, up, answer, batch, maxTS, known, countVars>>

ReadEvents(z) ==
    /\ pc[z] = "reading" /\ Flushed(z) /\ Incoming(z, "events")
    /\ batch' = [batch EXCEPT ![z] = Msg(z).items]
    /\ Consume(z) /\ Goto(z, "merging")
    /\ UNCHANGED <<storeVars, initiator, up, answer, log, after, maxTS, known, countVars>>

\* One event of the message is merged, in a transaction of its own.
MergeEvent(z) ==
    /\ pc[z] = "merging"
    /\ LET e == Head(batch[z])
       IN  /\ held' = [held EXCEPT ![z][Peer(z)] = LS!Insert(e, @)]
           /\ maxTS' = [maxTS EXCEPT ![z] = IF e.ts > @ THEN e.ts ELSE @]
    /\ batch' = [batch EXCEPT ![z] = Tail(@)]
    /\ Goto(z, IF Len(batch[z]) = 1 THEN "reading" ELSE "merging")
    /\ UNCHANGED <<own, pending, clock, cursor, initiator, up, wire, answer, log, after, known, countVars>>

\* Where a zen goes when pullLog returns nil: to the other log, then on to the
\* token exchange (initiator) or out of the session (listener).
AfterPull(z) ==
    \/ log[z] = PostLog /\ Goto(z, "pullProfile") /\ up' = up
    \/ log[z] # PostLog /\ z = initiator /\ Goto(z, "zens") /\ up' = up
    \/ log[z] # PostLog /\ z # initiator /\ Close(z)

\* Mutant: the cursor goes right to the newest event received.
FinishPullNoSkew(z) ==
    /\ LET k == [reader |-> z, author |-> Peer(z), log |-> log[z]]
       IN  cursor' = IF maxTS[z] = 0 THEN cursor ELSE [cursor EXCEPT ![k] = maxTS[z]]
    /\ after' = [after EXCEPT ![z] = 0]
    /\ maxTS' = [maxTS EXCEPT ![z] = 0]
    /\ AfterPull(z)

\* advanceCursor, and pullLog's locals are gone.
FinishPull(z) ==
    /\ LET k == [reader |-> z, author |-> Peer(z), log |-> log[z]]
       IN  cursor' = IF maxTS[z] = 0 THEN cursor
                     ELSE [cursor EXCEPT ![k] = LS!NewCursor(after[z], maxTS[z])]
    /\ after' = [after EXCEPT ![z] = 0]
    /\ maxTS' = [maxTS EXCEPT ![z] = 0]
    /\ AfterPull(z)

ReadDone(z) ==
    /\ pc[z] = "reading" /\ Flushed(z) /\ Incoming(z, "done")
    /\ Consume(z)
    /\ FinishPull(z)
    /\ UNCHANGED <<own, pending, clock, held, initiator, answer, batch, log, known, countVars>>

\* End of file in the middle of an answer counts as its end; what was in
\* flight is not read any more.
PullEOF(z) ==
    /\ ~up
    /\ pc[z] = "reading"
    /\ FinishPull(z)
    /\ cuts' = cuts + 1
    /\ UNCHANGED <<own, pending, clock, held, initiator, wire, answer, batch, log, known, sessions, breaks, atStart>>

----------------------------------------------------------------------------
(* serve, serveWithZens and handleRequest.                                 *)

\* Mutant: the loop over the batches ends one too early.
BatchesButLast(s) ==
    [i \in 1 .. ((Len(s) - 1) \div BatchSize) |->
        Events(SubSeq(s, (i - 1) * BatchSize + 1, i * BatchSize))]

\* Consecutive slices of at most BatchSize events.
Batches(s) ==
    [i \in 1 .. ((Len(s) + BatchSize - 1) \div BatchSize) |->
        Events(SubSeq(s, (i - 1) * BatchSize + 1,
                      IF i * BatchSize < Len(s) THEN i * BatchSize ELSE Len(s)))]

\* The events of S in time order; events of one timestamp are in some order.
TimeOrders(S) ==
    {s \in [1 .. Cardinality(S) -> S] :
        /\ \A e \in S : \E i \in DOMAIN s : s[i] = e
        /\ \A i, j \in DOMAIN s : i < j => s[i].ts <= s[j].ts}

\* fetchOwnEvents and handleRequest: events in time order, in batches, then Done.
Answers(z, req) ==
    {Append(Batches(s), DoneMsg) : s \in TimeOrders(LS!fetchOwnEvents(z, req.log, req.after))}

ReadRequest(z) ==
    /\ pc[z] = "serve" /\ Flushed(z) /\ Incoming(z, "request")
    /\ \E a \in Answers(z, Msg(z)) : answer' = [answer EXCEPT ![z] = a]
    /\ Consume(z) /\ Goto(z, "answer")
    /\ UNCHANGED <<storeVars, initiator, up, pullVars, known, countVars>>

WriteAnswer(z) ==
    /\ pc[z] = "answer" /\ Flushed(z)
    /\ Write(z, Head(answer[z]))
    /\ answer' = [answer EXCEPT ![z] = Tail(@)]
    /\ Goto(z, IF Len(answer[z]) = 1 THEN "serve" ELSE "answer")
    /\ UNCHANGED <<storeVars, initiator, up, pullVars, known, countVars>>

\* serveWithZens: learn the initiator's tokens, reply with one's own (a reply
\* written to a dead connection reaches nobody).
ReplyZens(z) ==
    /\ pc[z] = "serve" /\ Flushed(z) /\ Incoming(z, "zens")
    /\ known' = [known EXCEPT ![z] = @ \cup Msg(z).refs]
    /\ wire' = [wire EXCEPT ![Peer(z)] = Tail(@),
                            ![z] = IF up THEN Append(@, ZensMsg(known'[z])) ELSE @]
    /\ UNCHANGED <<storeVars, pc, initiator, up, answer, pullVars, countVars>>

\* Role reversal: the listener stops serving and pulls.
ReadReverse(z) ==
    /\ pc[z] = "serve" /\ Flushed(z) /\ Incoming(z, "reverse")
    /\ Consume(z) /\ Goto(z, "pullPost")
    /\ UNCHANGED <<storeVars, initiator, up, answer, pullVars, known, countVars>>

\* End of file while serving: the initiator is done, the listener goes on to
\* its pulls (and fails there).
ServeEOF(z) ==
    /\ ~up /\ pc[z] = "serve"
    /\ IF z = initiator THEN Close(z) ELSE Goto(z, "pullPost") /\ up' = up
    /\ UNCHANGED <<storeVars, initiator, wire, answer, pullVars, known, countVars>>

----------------------------------------------------------------------------
(* The initiator between its pulls and its turn to serve.                  *)

\* Mutant: the initiator does not wait for the reply to its tokens.
SendZensOnly(z) ==
    /\ pc[z] = "zens" /\ Flushed(z)
    /\ Write(z, ZensMsg(known[z])) /\ Goto(z, "reverse")
    /\ UNCHANGED <<storeVars, initiator, up, answer, pullVars, known, countVars>>

SendZens(z) ==
    /\ pc[z] = "zens" /\ Flushed(z)
    /\ Write(z, ZensMsg(known[z])) /\ Goto(z, "zensWait")
    /\ UNCHANGED <<storeVars, initiator, up, answer, pullVars, known, countVars>>

ReadZens(z) ==
    /\ pc[z] = "zensWait" /\ Flushed(z) /\ Incoming(z, "zens")
    /\ known' = [known EXCEPT ![z] = @ \cup Msg(z).refs]
    /\ Consume(z) /\ Goto(z, "reverse")
    /\ UNCHANGED <<storeVars, initiator, up, answer, pullVars, countVars>>

SendReverse(z) ==
    /\ pc[z] = "reverse" /\ Flushed(z)
    /\ Write(z, ReverseMsg) /\ Goto(z, "serve")
    /\ UNCHANGED <<storeVars, initiator, up, answer, pullVars, known, countVars>>

----------------------------------------------------------------------------
Init ==
    /\ pc = [z \in Zens |-> "off"]
    /\ initiator = CHOOSE z \in Zens : TRUE
    /\ up = FALSE
    /\ wire = [z \in Zens |-> <<>>]
    /\ answer = [z \in Zens |-> <<>>]
    /\ batch = [z \in Zens |-> <<>>]
    /\ log = [z \in Zens |-> PostLog]
    /\ known = [z \in Zens |-> {z}]
    /\ sessions = 0 /\ breaks = 0
    /\ LS!Init
    /\ atStart = [own |-> own, known |-> known, broken |-> FALSE]

\* SignAndAppend by the zens themselves while sessions run.
AuthorStep(z) == UNCHANGED sessionVars /\ LS!AuthorStep(z)

SessionStep(z) ==
    \/ ReadHello(z) \/ SendAuth(z) \/ ReadAuth(z) \/ Authed(z)
    \/ SendRequest(z) \/ ReadEvents(z) \/ MergeEvent(z) \/ ReadDone(z) \/ PullEOF(z)
    \/ ReadRequest(z) \/ WriteAnswer(z) \/ ReplyZens(z) \/ ReadReverse(z) \/ ServeEOF(z)
    \/ SendZens(z) \/ ReadZens(z) \/ SendReverse(z)
    \/ Abort(z)

\* The bounds MaxClock and MaxEvents hold for the two zens together.
Bounded ==
    /\ FoldFunction(+, 0, clock) <= MaxClock
    /\ FoldFunction(+, 0, [z \in Zens |-> Cardinality(own[z] \cup pending[z])]) <= MaxEvents

Next ==
    \/ Break
    \/ \E z \in Zens : Connect(z) \/ SessionStep(z)
    \/ \E z \in Writers : AuthorStep(z) /\ Bounded'

\* A session's goroutines run whenever they are not all blocked.
Spec == Init /\ [][Next]_vars /\ WF_vars(\E z \in Zens : SessionStep(z))

----------------------------------------------------------------------------
(* Properties.                                                             *)

\* The kinds of message z's code has a case for at the place it reads.
Expected(z) ==
    CASE pc[z] = "hello" -> {"hello"}
      [] pc[z] = "auth" -> {"auth"}
      [] pc[z] = "reading" -> {"events", "done"}
      [] pc[z] = "zensWait" -> {"zens"}
      [] pc[z] = "serve" /\ z = initiator -> {"request"}
      [] pc[z] = "serve" /\ z # initiator -> {"request", "zens", "reverse"}
      [] OTHER -> {"hello", "auth", "request", "events", "done", "zens", "reverse"}

\* The two state machines stay in step: a zen that waits for a message never
\* finds one of a kind it treats as unexpected (the default branches of
\* pullLog, serve, serveWithZens and exchangeZens), also when the connection
\* breaks and messages in flight are still read.
InStep ==
    \A z \in Zens : wire[Peer(z)] # <<>> => Msg(z).kind \in Expected(z)

\* A session that the network did not break leaves each zen with every event
\* and every token the other one had when it began (RunInitiator and
\* RunListener together: pull, exchange, reverse, pull).
SessionComplete ==
    (sessions > 0 /\ ~atStart.broken /\ \A z \in Zens : pc[z] = "off") =>
        \A z \in Zens :
            /\ \A e \in atStart.own[Peer(z)] : LS!Covered(e, held[z][Peer(z)])
            /\ atStart.known[Peer(z)] \subseteq known[z]

\* Every session ends on both sides: the handshake does not deadlock on an
\* unbuffered connection, and nobody waits for a message that is not coming
\* (Handshake, RunInitiator, RunListener).
Terminates == <>[](\A z \in Zens : pc[z] = "off")

\* Sessions implement the incremental replication of LogSync: messages,
\* batches and roles add nothing to what a pull may do to the stores.
ImplementsLogSync == LS!Spec

============================================================================
