--------------------------- MODULE MCSyncSession ---------------------------
(***************************************************************************)
(* Instances of SyncSession for TLC.                                       *)
(***************************************************************************)
EXTENDS SyncSession

CONSTANTS z1, z2, post, like

============================================================================
