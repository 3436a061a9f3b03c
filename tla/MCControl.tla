----------------------------- MODULE MCControl -----------------------------
(* A small instance of Control for TLC.                                    *)
EXTENDS Control
============================================================================
