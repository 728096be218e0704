---------------------------- MODULE MC_WalLedger ----------------------------
(* Small instances of WalLedger for TLC. *)
EXTENDS WalLedgerImage
=============================================================================
