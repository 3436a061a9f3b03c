----------------------------- MODULE MCLogSync -----------------------------
(***************************************************************************)
(* Instances of LogSync for TLC.                                           *)
(***************************************************************************)
EXTENDS LogSync

CONSTANTS a1, r1, p1, p2, post, like

============================================================================
