----------------------------- MODULE Projection ------------------------------
(***************************************************************************)
(* Current projections (graph/current_projection.rs and                    *)
(* storage/current_projection_image.rs): images of one attribute's         *)
(* standing windows, the resident tail that brings an image up to a later  *)
(* transaction, and the aggregate query of db.rs that reads both while     *)
(* writers and checkpoints go on.  An image's identity is the publication  *)
(* it was built from.                                                      *)
(***************************************************************************)
EXTENDS Cursors

CONSTANTS MaxTail,     \* CURRENT_PROJECTION_TAIL_MAX_FACTS, _MAX_HISTORY and _MAX_REPLACEMENTS
          MaxImages    \* rebuilds kept in the two catalog slots

VARIABLES images,      \* the selectable images, the newest first
          tail,        \* CurrentProjectionTailCache
          client       \* what the reader asks for: ledger requests, which never
                       \* look at an image, or projected queries

pvars == <<vars, images, tail, client>>

NoTail == [overlay |-> {}, rejected |-> {}]

PInit == Init /\ images = <<>> /\ tail = NoTail /\ client \in {"ledger", "projected"}

-----------------------------------------------------------------------------

\* CurrentProjectionBuilder over the attribute cursor: rows that end at the
\* floor or before it are dropped.
build_current_projection_candidate(a, floor) ==
    SelectSeq(StepCursor(current_attribute_cursor_starting_at(a, 0, count, {}), 999).rows,
              LAMBDA r : r[4] > floor)

\* rebuild_current_projections: under the write lock, a checkpoint and the
\* image of what it published.  An image of another publication is no longer
\* selectable.  The cursor is evaluated on the layers before the checkpoint
\* moves their records, which it does not tell apart.
Rebuild(a, floor) ==
    /\ Free
    /\ todo = <<>>
    /\ Packable
    /\ Len(images) < MaxImages
    /\ runs' = NoRuns
    /\ delta' = delta \cup PendingRecords(runs)
    /\ gen' = gen + Bit(runs # NoRuns)
    /\ rd' = Idle
    /\ UNCHANGED <<log, trees, count, todo>>
    /\ images' = << [id |-> gen', a |-> a, floor |-> floor, tx |-> count,
                     rows |-> build_current_projection_candidate(a, floor)] >>
                    \o SelectSeq(images, LAMBDA i : i.id = gen')
    /\ tail' = NoTail

\* A recompaction empties the tail cache when idle maintenance runs it.
Recompact ==
    /\ publish_committed_readers
    /\ tail' \in {tail, NoTail}
    /\ UNCHANGED images

-----------------------------------------------------------------------------
(* The projected query.  A watermark is read in two parts: the generation  *)
(* under the data lock, then the transaction counter.                      *)

Projecting(st) == rd.role = "projected" /\ rd.st = st

BeginProjected(a, view, t) ==
    /\ Free
    /\ images # <<>>
    /\ rd' = [role |-> "projected", st |-> "capture", a |-> a, view |-> view, t |-> t, half |-> {},
              mark |-> <<>>, inner |-> <<>>, descs |-> <<>>, overlay |-> {}, touched |-> <<>>,
              repl |-> <<>>, c |-> {}, pos |-> 0, out |-> <<>>]
    /\ UNCHANGED <<data, images, tail>>

Waiting == rd.role = "projected" /\ rd.st \in {"capture", "tail", "scanned", "replaced", "finish"}

ReadGeneration ==
    /\ Waiting
    /\ rd.half = {}
    /\ rd' = [rd EXCEPT !.half = {gen}]
    /\ UNCHANGED <<data, images, tail>>

\* The watermark, once its second part is read.
Mark == <<CHOOSE g \in rd.half : TRUE, count>>
Read == Waiting /\ rd.half # {}

Image == Head(rd.descs)
NextDescriptor == [rd EXCEPT !.st = "select", !.descs = Tail(@), !.out = <<>>, !.overlay = {}, !.half = {}]

\* Mutant: whatever the floor of the image.
scan_descriptors_unfloored(a, view, t) ==
    LET usable == SelectSeq(images, LAMBDA i : i.tx <= view /\ i.a = a)
    IN  SortSeq(usable, LAMBDA x, y : x.tx > y.tx)

scan_descriptors(a, view, t) ==
    LET usable == SelectSeq(images, LAMBDA i : i.tx <= view /\ i.a = a /\ i.floor <= t)
    IN  SortSeq(usable, LAMBDA x, y : x.tx > y.tx)

\* A view that is not the current one is left to the ledger.
Capture ==
    /\ Read /\ rd.st = "capture"
    /\ rd' = IF count # rd.view THEN Idle
             ELSE [rd EXCEPT !.st = "select", !.mark = Mark, !.half = {},
                             !.descs = scan_descriptors(rd.a, rd.view, rd.t)]
    /\ UNCHANGED <<data, images, tail>>

\* The resident overlay of an image, or a new one with nothing replaced.
Matching(image) == {o \in tail.overlay : o.image = image}
OverlayFor(image) ==
    IF Matching(image) # {} THEN CHOOSE o \in Matching(image) : TRUE
    ELSE [image |-> image, tx |-> image.tx, rows |-> <<>>]

\* Nothing left falls back to the ledger; CurrentProjectionTailCache::prepare
\* finds the tail rejected, resident, or in need of a refresh.
Select ==
    /\ Projecting("select")
    /\ rd' = IF rd.descs = <<>> THEN Idle
             ELSE IF Image.tx = rd.view THEN [rd EXCEPT !.st = "scan", !.pos = 0]
             ELSE IF <<Image, rd.view>> \in tail.rejected THEN NextDescriptor
             ELSE IF OverlayFor(Image).tx > rd.view THEN Idle
             ELSE [rd EXCEPT !.overlay = {OverlayFor(Image)}, !.pos = 0,
                             !.st = IF OverlayFor(Image).tx = rd.view THEN "scan" ELSE "tail"]
    /\ UNCHANGED <<data, images, tail>>

Overlay == CHOOSE o \in rd.overlay : TRUE

\* A tail over a budget is remembered and the next image tried.
OverBudget ==
    /\ tail' = [tail EXCEPT !.rejected = {<<Image, rd.view>>}]
    /\ rd' = NextDescriptor

\* refresh_current_projection_tail_overlay: the records after the overlay...
ScanTail ==
    /\ Read /\ rd.st = "tail"
    /\ LET since == {f \in log : f.tc > Overlay.tx /\ f.tc <= rd.view}
           touched == {f.e : f \in {g \in since : g.a = rd.a}}
       IN  IF count # rd.view THEN rd' = Idle /\ UNCHANGED tail
           ELSE IF Cardinality(since) > MaxTail THEN OverBudget
           ELSE /\ rd' = [rd EXCEPT !.st = "scanned", !.inner = Mark, !.half = {}, !.repl = <<>>,
                                    !.touched = SortSeq(Listed(touched), <)]
                /\ UNCHANGED tail
    /\ UNCHANGED <<data, images>>

RecheckTail ==
    /\ Read /\ rd.st = "scanned"
    /\ rd' = IF Mark # rd.inner THEN Idle
             ELSE [rd EXCEPT !.half = {}, !.st = IF rd.touched = <<>> THEN "replaced" ELSE "replace"]
    /\ UNCHANGED <<data, images, tail>>

\* ... every entity they touch, through a cursor of its own ...
OpenTouched ==
    /\ Projecting("replace") /\ rd.c = {}
    /\ LET range == ExactRange(Head(rd.touched), rd.a)
       IN  IF Overflows(range) THEN OverBudget
           ELSE rd' = [rd EXCEPT !.c = {NewCursor(range, rd.view, {})}] /\ UNCHANGED tail
    /\ UNCHANGED <<data, images>>

StepTouched ==
    /\ Projecting("replace")
    /\ \E c \in rd.c : \E s \in {StepCursor(c, MaxTail + 1)} :
          LET kept == SelectSeq(s.rows, LAMBDA r : r[4] > Image.floor)
              left == Tail(rd.touched)
          IN  IF c.gen # gen THEN rd' = Idle /\ UNCHANGED tail
              ELSE IF ~s.c.complete THEN OverBudget
              ELSE /\ rd' = [rd EXCEPT !.c = {}, !.touched = left,
                                       !.repl = Append(@, <<Head(rd.touched), kept>>),
                                       !.st = IF left = <<>> THEN "replaced" ELSE "replace"]
                   /\ UNCHANGED tail
    /\ UNCHANGED <<data, images>>

\* ... and the replacement of all their rows at once.
install(o, view, repl) ==
    LET gone == {repl[i][1] : i \in DOMAIN repl}
    IN  [o EXCEPT !.tx = view, !.rows = SelectSeq(@, LAMBDA x : x[1] \notin gone) \o repl]

Install ==
    /\ Read /\ rd.st = "replaced"
    /\ LET next == install(Overlay, rd.view, rd.repl)
       IN  IF Mark # rd.inner THEN rd' = Idle /\ UNCHANGED tail
           ELSE IF Len(next.rows) > MaxTail THEN OverBudget
           ELSE /\ tail' = [overlay |-> {next}, rejected |-> {}]
                /\ rd' = [rd EXCEPT !.overlay = {next}, !.half = {}, !.st = "scan"]
    /\ UNCHANGED <<data, images>>

-----------------------------------------------------------------------------
(* The scan of the image's pages: it suppresses the replaced entities, and *)
(* an unreadable or mismatching page gives the image up.                   *)

Suppressed(e) == \E o \in rd.overlay : \E i \in DOMAIN o.rows : o.rows[i][1] = e

AtPoint(rows) == SelectSeq(rows, LAMBDA r : ShownAt(r, rd.t))

OverlayRows == IF rd.overlay = {} THEN <<>>
               ELSE AtPoint(FlattenSeq([i \in DOMAIN Overlay.rows |-> Overlay.rows[i][2]]))

ScanImage(n) ==
    /\ Projecting("scan")
    /\ LET upto == AtMost(rd.pos + n, Len(Image.rows))
           page == SubSeq(Image.rows, rd.pos + 1, upto)
           base == SelectSeq(AtPoint(page), LAMBDA r : ~Suppressed(r[1]))
       IN  rd' = IF upto < Len(Image.rows) THEN [rd EXCEPT !.pos = upto, !.out = @ \o base]
                 ELSE [rd EXCEPT !.st = "finish", !.out = @ \o base \o OverlayRows]
    /\ UNCHANGED <<data, images, tail>>

ScanFails ==
    /\ Projecting("scan")
    /\ rd' = NextDescriptor
    /\ UNCHANGED <<data, images, tail>>

\* The answer stands only if nothing was published since the capture.
Finish ==
    /\ Read /\ rd.st = "finish"
    /\ rd' = IF Mark # rd.mark THEN Idle ELSE [rd EXCEPT !.st = "done", !.half = {}]
    /\ UNCHANGED <<data, images, tail>>

Projected ==
    \/ \E a \in Attrs, t \in Instants :
          \/ Rebuild(a, t)
          \/ \E v \in 1..Complete : BeginProjected(a, v, t)
    \/ ReadGeneration
    \/ Capture
    \/ Select
    \/ ScanTail
    \/ RecheckTail
    \/ OpenTouched
    \/ StepTouched
    \/ Install
    \/ \E n \in StepSizes : ScanImage(n)
    \/ ScanFails
    \/ Finish

PNext ==
    /\ \/ Write /\ UNCHANGED <<images, tail>>
       \/ Recompact
       \/ client = "ledger" /\ Fits /\ Request /\ UNCHANGED <<images, tail>>
       \/ client = "projected" /\ Fits /\ Projected
       \/ GiveUp /\ UNCHANGED <<images, tail>>
    /\ UNCHANGED client

PSpec == PInit /\ [][PNext]_pvars

-----------------------------------------------------------------------------

\* Whatever was written, checkpointed or refused while it was refreshed, the
\* resident tail replaces exactly the entities whose history its image does
\* not cover, with the rows the ledger reduces to at the tail's transaction;
\* and an aggregate answered from the image and the tail sees each window the
\* ledger shows at its view and instant once, unless an attribute extends the
\* image's name (install, scan_descriptors).
ProjectedReadExact ==
    /\ \A o \in tail.overlay :
        /\ {o.rows[i][1] : i \in DOMAIN o.rows} =
               {f.e : f \in {g \in log : g.a = o.image.a /\ g.tc > o.image.tx /\ g.tc <= o.tx}}
        /\ \A i \in DOMAIN o.rows :
               Range(o.rows[i][2]) = {<<f.e, f.v, f.vf, f.vt>> :
                   f \in {g \in Live(o.tx, o.image.a, {}) : g.e = o.rows[i][1] /\ g.vt > o.image.floor}}
    /\ rd.role = "projected" /\ rd.st = "done" /\ PrefixFree(rd.a) =>
        LET live == Live(rd.view, rd.a, {rd.t})
        IN  /\ Range(rd.out) = {<<f.e, f.v, f.vf, f.vt>> : f \in live}
            /\ Len(rd.out) = Cardinality(live)
=============================================================================
