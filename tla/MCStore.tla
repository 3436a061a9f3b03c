------------------------------ MODULE MCStore ------------------------------
(***************************************************************************)
(* Instances of Store for TLC.                                             *)
(***************************************************************************)
EXTENDS Store, TLC

CONSTANTS w1, w2, t1, t2, p1

WorkerSymmetry == Permutations(Workers)

============================================================================
