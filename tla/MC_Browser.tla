------------------------------ MODULE MC_Browser -----------------------------
(* Small instances of Browser for TLC. *)
EXTENDS Browser

CONSTANTS a, b

(* The reading handle is opened in every way, its rival eagerly. *)
MCOpenModes == [h \in Handles |-> IF h = a THEN {"eager", "paged", "current"} ELSE {"eager"}]
=============================================================================
