---------------------------- MODULE MCWorldAgent -----------------------------
(* An instance of WorldAgent for TLC. *)
EXTENDS WorldAgent

CONSTANTS Twin
=============================================================================
