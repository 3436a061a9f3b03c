------------------------------ MODULE MCDaemon ------------------------------
(* Instances of Daemon for TLC. *)
EXTENDS Daemon, TLC

CallSymmetry == Permutations(Calls) \cup Permutations(Boots)

\* Sound without seeds: then no token and no identity is distinguished.
FullSymmetry == CallSymmetry \cup Permutations(Ids) \cup Permutations(Tokens)

\* Tokens that are noted under an identity, and those noted under one that has
\* never answered there.
Named == {t \in Tokens : zens[t] \in Ids}
Hearsay == {t \in Named : <<zens[t], t>> \notin met}

\* The bound on one behaviour of Daemon_safety: zens name identities for tokens
\* beside one call, restart or imported identity; a restart notes what is bound.
NamesOrChanges ==
    \/ Named = {}
    \/ calls + restarts + rekeys <= 1
    \/ restarts = 1 /\ Hearsay = {}

\* The bound on one behaviour of Daemon_liveness.  Either nothing is bootstrapped
\* and there is a call, and a restart or an imported identity; or the bootstrap file
\* lists a seed that may fail and there is a restart or a lock, with two bootstraps
\* at a time if it lists only that one.  A step that fairness asks for is at most
\* put off until a bootstrap has ended.
Booting == {b \in Boots : proc[b].pc # "idle"}
Scenario ==
    \/ /\ file = {} /\ locks = 0 /\ restarts + rekeys <= 1
       /\ Cardinality(Booting) <= 1
    \/ /\ file \cap Flaky # {} /\ calls + rekeys = 0 /\ restarts + locks <= 1
       /\ Cardinality(file) = 1 \/ Cardinality(Booting) <= 1
============================================================================
