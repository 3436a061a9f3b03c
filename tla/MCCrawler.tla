----------------------------- MODULE MCCrawler -----------------------------
(* An instance of Crawler for TLC. *)
EXTENDS Crawler

CONSTANTS a, b, c, d

\* Three levels from a, the last of which is found only by asking b who follows
\* it; with d, a zen nobody knows, there is one more than the cache holds.
Chain == [i \in Ids |-> IF i \in {a, c} THEN {b} ELSE {}]
============================================================================
