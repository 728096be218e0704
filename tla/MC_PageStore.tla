---------------------------- MODULE MC_PageStore ----------------------------
(* Small instances of PageStore for TLC. *)
EXTENDS PageStore
=============================================================================
