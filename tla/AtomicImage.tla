----------------------------- MODULE AtomicImage -----------------------------
(***************************************************************************)
(* What page 0 promises to the write path: the published image changes in  *)
(* one step, to one that keeps its facts and its checkpoint watermark, and *)
(* a crash leaves either the image last written or the one last synced.    *)
(* WalLedger assumes this of its `image`; PageStore is shown to implement  *)
(* it with pages.                                                          *)
(***************************************************************************)
EXTENDS Naturals

VARIABLES
    written,   \* the image a reader of the file finds: [last, facts]
    durable    \* the image a power loss may fall back to

Extends(new, old) == new.last >= old.last /\ old.facts \subseteq new.facts

AtomicInit ==
    /\ written = [last |-> 0, facts |-> {}]
    /\ durable = written

(* The file is synced, or page 0 is written over (after a sync or not). *)
Publish ==
    /\ durable' \in {durable, written}
    /\ Extends(written', written)

Synced == durable' = written /\ written' = written

Lost == written' = durable /\ durable' = durable

AtomicNext == Publish \/ Synced \/ Lost

AtomicSpec == AtomicInit /\ [][AtomicNext]_<<written, durable>>
=============================================================================
