--------------------------- MODULE WalLedgerImage ---------------------------
(***************************************************************************)
(* The image of WalLedger as an implementation of AtomicImage: the ledger  *)
(* asks no more of page 0 than PageStore is shown to give.                 *)
(***************************************************************************)
EXTENDS WalLedger

ImageView(img) == [last |-> img.last, facts |-> img.facts]
Page0 == INSTANCE AtomicImage WITH written <- ImageView(image),
                                   durable <- ImageView(stable)

(* Page 0, as checkpoints, their failures and crashes change it, is the    *)
(* atomic image: it never loses a fact or goes back behind its watermark   *)
(* except to the version last synced (save: page 0 is the last write).     *)
ImageIsAtomic == Page0!AtomicSpec
=============================================================================
