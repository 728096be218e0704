---------------------------- MODULE MC_ReadPaths ----------------------------
(* Small instances of ReadPaths for TLC. *)
EXTENDS ReadPaths
=============================================================================
