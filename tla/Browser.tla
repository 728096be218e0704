------------------------------- MODULE Browser -------------------------------
(***************************************************************************)
(* BrowserDb handles over one IndexedDB object store (browser/mod.rs,      *)
(* browser/indexeddb.rs, browser/maintenance.rs).  JavaScript runs one     *)
(* continuation at a time, so a step here is the code between two awaits;  *)
(* between them other calls on the same handle, and other handles (tabs),  *)
(* run.  Page 0 is the authority of the store: a handle pins it when it    *)
(* opens, every read checks it and every write compares and swaps it.      *)
(***************************************************************************)
EXTENDS Naturals, Sequences

CONSTANTS
    Handles,    \* independent handles, each in its own tab
    Readers,    \* the handles that read (reads touch nothing but their handle)
    OpenModes,  \* how each handle is opened: "eager", "paged", "current"
    MaxImages,  \* bound on images built by maintenance and imports
    MaxFaults,  \* bound on IndexedDB failures and refused saves
    Batches,    \* load_page_range calls of an export or a paged scan
    None

(* A ledger entry is its write call and the ledger length it was computed  *)
(* from; an image has page-0 bytes (`page0`), its ledger and its format:   *)
(* current, legacy (migrated on open) or truncated (a recovered v10 image, *)
(* read-only).                                                             *)
Entry == [id : Nat, saw : Nat]
Images == [page0 : Nat, ledger : Seq(Entry), format : {"current", "legacy", "truncated"}]

(* A suspended call: what it does, where it is, the image it writes, and   *)
(* the number of a mutation or how an open opens.                          *)
Places == {"page0", "metadata", "eager", "prefetch", "build", "tx", "committed", "aborted"}
Opens == [kind : {"open"}, at : Places, next : Images \cup {None},
          id : {"eager", "paged", "current"}]
Mutations == [kind : {"write", "maintain", "rebuild", "import"}, at : Places,
              next : Images \cup {None}, id : Nat \cup {None}]

ASSUME BrowserAssumption ==
    /\ Readers \subseteq Handles
    /\ OpenModes \in [Handles -> SUBSET {"eager", "paged", "current"}]
    /\ {MaxImages, MaxFaults, Batches} \subseteq Nat
    /\ None \notin Images \cup Opens \cup Mutations

VARIABLES
    store,      \* the published image in IndexedDB, None before the first open
    db,         \* BrowserDbInner and the suspended calls of every handle
    images,     \* number of the next image, and of the write that builds it
    faults,     \* failures so far
    rejected,   \* history: write calls that returned Err
    published   \* history: images that were published

vars == <<store, db, images, faults, rejected, published>>

Image(n, ledger, format) == [page0 |-> n, ledger |-> ledger, format |-> format]

(* BrowserDbInner; `op` is the suspended mutation or open, `rd` the read.  *)
Closed == [status |-> "closed", mode |-> None, paged |-> FALSE, live |-> None,
           pinned |-> None, mutation |-> FALSE, poisoned |-> FALSE,
           rolledBack |-> FALSE, advanced |-> FALSE, pagedRead |-> FALSE,
           op |-> None, rd |-> None, view |-> None]

(* build_header_page and a migration write the same bytes every time. *)
Legacy == Image(0, <<[id |-> 0, saw |-> 0]>>, "legacy")
Fresh == Image(1, <<>>, "current")
Migrated == Image(2, Legacy.ledger, "current")

Init ==
    /\ store \in {None, Legacy}
    /\ db = [h \in Handles |-> Closed]
    /\ images = 3 /\ faults = 0
    /\ rejected = {}
    /\ published = {store} \ {None}

histories == <<rejected, published>>

(* Ledger `t` is `s` with more entries behind it. *)
IsPrefix(s, t) == Len(s) <= Len(t) /\ \A i \in DOMAIN s : t[i] = s[i]

Set(h, d) == db' = [db EXCEPT ![h] = d]

-----------------------------------------------------------------------------
(* The guards of a handle.                                                 *)

(* Mutant of EnsureUsable: a mutation awaiting durability is not excluded. *)
EnsureUsableInFlight(d) == d.status = "open" /\ ~d.poisoned /\ ~d.pagedRead

(* ensure_usable: not poisoned, no mutation and no paged read awaited. *)
EnsureUsable(d) ==
    d.status = "open" /\ ~d.poisoned /\ ~d.mutation /\ ~d.pagedRead

(* begin_paged_read on a usable handle: only a paged one takes the guard. *)
BeginPagedRead(d, rd) == [d EXCEPT !.pagedRead = d.paged, !.rd = rd]

(* finish_paged_read: the guard falls and staged pages are dropped. *)
FinishPagedRead(d) == [d EXCEPT !.pagedRead = FALSE, !.rd = None]

(* begin_mutation: its refusals, and its assignments. *)
MayMutate(d) ==
    d.status = "open" /\ ~d.poisoned /\ ~d.mutation /\ ~d.pagedRead
BeginMutation(d) ==
    [d EXCEPT !.mutation = TRUE, !.rolledBack = FALSE, !.advanced = FALSE]

(* Mutant of FinishMutation: an advanced handle stays usable. *)
FinishMutationUnpoisoned(d, failed) ==
    [d EXCEPT !.mutation = FALSE, !.rolledBack = FALSE, !.advanced = FALSE, !.op = None]

(* finish_mutation: a failure that advanced live state and was not rolled  *)
(* back poisons the handle.                                                *)
FinishMutation(d, failed) ==
    [d EXCEPT !.mutation = FALSE, !.op = None,
              !.poisoned = @ \/ (failed /\ d.advanced /\ ~d.rolledBack),
              !.rolledBack = FALSE, !.advanced = FALSE]

Op(kind, at, next, id) == [kind |-> kind, at |-> at, next |-> next, id |-> id]
At(h, where) == db[h].op # None /\ db[h].op.at = where

-----------------------------------------------------------------------------
(* IndexedDB.                                                              *)

(* Mutant of Authority: page 0 is not compared. *)
AuthorityUnchecked(h) == TRUE

(* ensure_pinned_authority / ensure_expected_authority: page 0 of the      *)
(* store is byte for byte the one this handle pinned.                      *)
Authority(h) == db[h].pinned = store

(* A readwrite transaction of write_pages or replace_all_pages: page 0 is  *)
(* read first, then every put is queued and all of them commit at once.    *)
CommitTransaction(h) ==
    /\ At(h, "tx") /\ Authority(h)
    /\ store' = db[h].op.next
    /\ published' = published \cup {store'}
    /\ Set(h, [db[h] EXCEPT !.op.at = "committed"])
    /\ UNCHANGED <<images, faults, rejected>>

(* Mutant of AbortTransaction: an abort without a request error settles    *)
(* nothing (no onabort handler).                                           *)
AbortTransactionSilently(h) ==
    /\ At(h, "tx")
    /\ ~Authority(h) \/ faults < MaxFaults
    /\ faults' = IF Authority(h) THEN faults + 1 ELSE faults
    /\ Set(h, [db[h] EXCEPT !.op.at = "lost"])
    /\ UNCHANGED <<store, images, histories>>

(* The transaction aborts: another handle published, or an enqueue, quota  *)
(* or commit failure; the promise rejects.                                 *)
AbortTransaction(h) ==
    /\ At(h, "tx")
    /\ ~Authority(h) \/ faults < MaxFaults
    /\ faults' = IF Authority(h) THEN faults + 1 ELSE faults
    /\ Set(h, [db[h] EXCEPT !.op.at = "aborted"])
    /\ UNCHANGED <<store, images, histories>>

(* A load fails: stale authority, or a read error. *)
LoadFails(h) == ~Authority(h) \/ faults < MaxFaults
CountFault(h) == faults' = IF Authority(h) THEN faults + 1 ELSE faults

-----------------------------------------------------------------------------
(* Opening, and reopening the durable image after a failed commit or a     *)
(* projection rebuild (open_persistent_storage).                           *)

(* IndexedDbBackend::open: page 0 is pinned.  openCurrent differs from     *)
(* openPaged in what it refuses to open.                                   *)
Open(h, mode) ==
    /\ db[h].status = "closed"
    /\ Set(h, [Closed EXCEPT !.status = "opening", !.pinned = store,
                             !.mode = IF mode = "eager" THEN "eager" ELSE "paged",
                             !.op = Op("open", "page0", None, mode)])
    /\ UNCHANGED <<store, images, faults, histories>>

(* Only a write changes live state before its transaction. *)
Restoring(op) == op.kind = "write"

(* The reopened image replaces the live one: from_persistent_storage for a *)
(* new handle, the end of flush_dirty_pages_or_restore for a failed write  *)
(* (which still reports the error), the end of a projection rebuild.       *)
Opened(h, image, paged) ==
    LET op == db[h].op
        d == [db[h] EXCEPT !.live = image, !.paged = paged, !.status = "open"]
    IN  IF op.kind = "open" THEN [d EXCEPT !.op = None]
        ELSE IF Restoring(op) THEN FinishMutation([d EXCEPT !.rolledBack = TRUE], TRUE)
        ELSE FinishMutation(d, FALSE)

OpenFailed(h) ==
    IF db[h].op.kind = "open" THEN Closed
    ELSE FinishMutation(db[h], Restoring(db[h].op))

Rejects(op) == IF op.kind = "write" THEN rejected \cup {op.id} ELSE rejected

(* open_current_persistent_storage: openCurrent takes a current image only. *)
RefusesOlder(h) == db[h].op.id = "current"

(* load_page_if_present(0): a fresh store gets a header page, a current    *)
(* image goes on with its metadata, an older one with load_all_pages;      *)
(* openCurrent refuses the older one.                                      *)
LoadPage0(h) ==
    /\ At(h, "page0") /\ Authority(h)
    /\ Set(h, CASE store = None -> [db[h] EXCEPT !.op.at = "tx", !.op.next = Fresh]
                [] store # None /\ store.format = "current" ->
                     [db[h] EXCEPT !.op.at = "metadata"]
                [] store # None /\ store.format # "current" ->
                     IF RefusesOlder(h) THEN OpenFailed(h)
                     ELSE [db[h] EXCEPT !.op.at = "eager"])
    /\ UNCHANGED <<store, images, faults, histories>>

(* open_current_sparse_storage: manifests, catalogs and segments, in later *)
(* transactions that check page 0 again; eager handles prefetch the rest.  *)
LoadMetadata(h) ==
    /\ At(h, "metadata") /\ Authority(h)
    /\ Set(h, Opened(h, store, db[h].mode # "eager"))
    /\ rejected' = Rejects(db[h].op)
    /\ UNCHANGED <<store, images, faults, published>>

(* open_eager_or_migrate_storage: a legacy image is migrated and published *)
(* before the handle exists; a truncated one is read-only, and too little  *)
(* for a paged handle.                                                     *)
LoadAllOrMigrate(h) ==
    /\ At(h, "eager") /\ Authority(h)
    /\ Set(h, CASE store.format = "legacy" ->
                     [db[h] EXCEPT !.op.at = "tx", !.op.next = Migrated]
                [] store.format # "legacy" ->
                     IF db[h].mode = "eager" THEN Opened(h, store, FALSE) ELSE OpenFailed(h))
    /\ rejected' = IF store.format = "legacy" THEN rejected ELSE Rejects(db[h].op)
    /\ UNCHANGED <<store, images, faults, published>>

(* Any of these loads fails; an eager handle whose metadata could not be   *)
(* read goes on with load_all_pages.                                       *)
FailOpen(h) ==
    /\ \E where \in {"page0", "metadata", "eager"} : At(h, where)
    /\ LoadFails(h) /\ CountFault(h)
    /\ IF At(h, "metadata") /\ db[h].mode = "eager"
       THEN Set(h, [db[h] EXCEPT !.op.at = "eager"]) /\ UNCHANGED rejected
       ELSE Set(h, OpenFailed(h)) /\ rejected' = Rejects(db[h].op)
    /\ UNCHANGED <<store, images, published>>

-----------------------------------------------------------------------------
(* Mutations.                                                              *)

(* A write of an entry computed from a ledger of length `saw`: live state  *)
(* advances and is saved into dirty pages, which a transaction will write. *)
Advance(d, saw) ==
    LET next == Image(images, Append(d.live.ledger, [id |-> images, saw |-> saw]), "current")
    IN  [BeginMutation(d) EXCEPT !.advanced = TRUE, !.live = next,
                                 !.op = Op("write", "tx", next, images)]

(* apply_write, and apply_atomic_write past its size checks: transact,     *)
(* retract and executeAtomic on a usable handle.                           *)
ApplyWrite(h) ==
    /\ EnsureUsable(db[h]) /\ MayMutate(db[h]) /\ db[h].live.format = "current"
    /\ images < MaxImages /\ images' = images + 1
    /\ Set(h, Advance(db[h], Len(db[h].live.ledger)))
    /\ UNCHANGED <<store, faults, histories>>

(* The save of a write fails (always on a read-only recovered image): live *)
(* state has advanced and nothing takes it back.                           *)
SaveFails(h) ==
    /\ EnsureUsable(db[h]) /\ MayMutate(db[h])
    /\ db[h].live.format = "truncated" \/ faults < MaxFaults
    /\ images < MaxImages /\ images' = images + 1
    /\ faults' = IF db[h].live.format = "truncated" THEN faults ELSE faults + 1
    /\ Set(h, FinishMutation(Advance(db[h], Len(db[h].live.ledger)), TRUE))
    /\ rejected' = rejected \cup {images}
    /\ UNCHANGED <<store, published>>

(* executeAtomic: a fact over the slot size is refused inside the mutation *)
(* and before anything advances.                                           *)
RefuseAtomic(h) ==
    /\ EnsureUsable(db[h])
    /\ Set(h, FinishMutation(BeginMutation(db[h]), TRUE))
    /\ UNCHANGED <<store, images, faults, histories>>

(* execute_prepared_forget, in the same step as the end of the paged read  *)
(* that resolved it: begin_mutation may still refuse.                      *)
ExecutePreparedForget(h) ==
    LET d == FinishPagedRead(db[h]) IN
    /\ db[h].rd # None /\ db[h].rd.kind = "forget" /\ Len(db[h].rd.parts) = Batches
    /\ IF MayMutate(d) /\ d.live.format = "current" /\ db[h].rd.saw > 0
       THEN /\ images < MaxImages /\ images' = images + 1
            /\ Set(h, Advance(d, db[h].rd.saw))
       ELSE Set(h, d) /\ UNCHANGED images
    /\ UNCHANGED <<store, faults, histories>>

(* checkpoint: writes are written through, so a usable handle has nothing  *)
(* dirty and the mutation ends as it began.                                *)
Checkpoint(h) ==
    /\ MayMutate(db[h])
    /\ Set(h, FinishMutation([BeginMutation(db[h]) EXCEPT !.advanced = TRUE], FALSE))
    /\ UNCHANGED <<store, images, faults, histories>>

(* run_idle_maintenance when delta pressure asks for it, and               *)
(* rebuild_current_projections: a paged handle first fetches the source    *)
(* pages (prefetch_full_scan_pages, prefetch_projection_source_pages).     *)
BeginMaintenance(h, kind) ==
    /\ MayMutate(db[h]) /\ images < MaxImages /\ images' = images + 1
    /\ kind = "rebuild" => db[h].live.format = "current"
    /\ Set(h, [BeginMutation(db[h]) EXCEPT
                 !.op = Op(kind, IF db[h].paged THEN "prefetch" ELSE "build", None, images)])
    /\ UNCHANGED <<store, faults, histories>>

Prefetch(h) ==
    /\ At(h, "prefetch")
    /\ \/ Authority(h) /\ Set(h, [db[h] EXCEPT !.op.at = "build"]) /\ UNCHANGED faults
       \/ LoadFails(h) /\ Set(h, FinishMutation(db[h], FALSE)) /\ CountFault(h)
    /\ UNCHANGED <<store, images, histories>>

(* The compact copy or projection plan is built beside the live image. *)
BuildCandidate(h) ==
    /\ At(h, "build")
    /\ Set(h, [db[h] EXCEPT !.op.at = "tx",
                            !.op.next = Image(db[h].op.id, db[h].live.ledger, "current")])
    /\ UNCHANGED <<store, images, faults, histories>>

(* A blob to import: an exported image, or a native file. *)
Blobs ==
    LET native == <<[id |-> 1, saw |-> 0], [id |-> 2, saw |-> 1]>>
    IN  {image \in published : image.format = "current"}
        \cup {Image(images, native, f) : f \in {"current", "truncated"}}

(* import_graph_with_policy: the candidate is validated beside the live    *)
(* image and replaces the store; strict import refuses what openPaged      *)
(* could not open.                                                         *)
ImportGraph(h, strict) ==
    /\ MayMutate(db[h]) /\ images < MaxImages /\ images' = images + 1
    /\ \E blob \in Blobs :
        /\ strict => blob.format = "current"
        /\ Set(h, [BeginMutation(db[h]) EXCEPT !.op = Op("import", "tx", blob, None)])
    /\ UNCHANGED <<store, faults, histories>>

(* The continuation of a committed transaction: the new page 0 is pinned;  *)
(* a write is acknowledged, maintenance and import swap the live image, a  *)
(* rebuild reopens what it published.                                      *)
Committed(h) ==
    LET d == [db[h] EXCEPT !.pinned = db[h].op.next]
        swapped == [d EXCEPT !.live = d.op.next,
                             !.paged = d.mode # "eager" /\ d.op.next.format = "current"]
    IN
    /\ At(h, "committed")
    /\ Set(h, CASE d.op.kind = "open" -> [swapped EXCEPT !.status = "open", !.op = None]
                [] d.op.kind = "write" -> FinishMutation(d, FALSE)
                [] d.op.kind = "maintain" -> FinishMutation(swapped, FALSE)
                [] d.op.kind = "import" ->
                     FinishMutation([swapped EXCEPT !.view =
                         IF @ = None THEN None ELSE [@ EXCEPT !.replaced = TRUE]], FALSE)
                [] d.op.kind = "rebuild" -> [d EXCEPT !.op.at = "page0"])
    /\ UNCHANGED <<store, images, faults, histories>>

(* The continuation of an aborted one (flush_dirty_pages_or_restore): a    *)
(* write reopens the durable image, the others leave live state alone.     *)
Aborted(h) ==
    /\ At(h, "aborted")
    /\ Set(h, CASE db[h].op.kind = "open" -> Closed
                [] db[h].op.kind = "write" -> [db[h] EXCEPT !.op.at = "page0"]
                [] OTHER -> FinishMutation(db[h], FALSE))
    /\ UNCHANGED <<store, images, faults, histories>>

-----------------------------------------------------------------------------
(* Reads.                                                                  *)

Take(ledger, n) == SubSeq(ledger, 1, IF n < Len(ledger) THEN n ELSE Len(ledger))

(* A paged query, export (export_graph_from_idb) or the resolution of a    *)
(* forget (prepare_forget) starts under the read guard.  An aggregate      *)
(* query of an eager handle yields as well: it fetches nothing and steps   *)
(* like the read of a view made as it starts (CreateReadView, below).      *)
BeginRead(h, kind) ==
    /\ EnsureUsable(db[h]) /\ db[h].paged
    /\ Set(h, BeginPagedRead(db[h], [kind |-> kind, parts |-> <<>>,
                                     saw |-> Len(db[h].live.ledger)]))
    /\ UNCHANGED <<store, images, faults, histories>>

Complete(rd) == Len(rd.parts) = IF rd.kind = "view" THEN 2 ELSE Batches
Scanning(h) == db[h].rd # None /\ db[h].rd.kind # "view" /\ ~Complete(db[h].rd)

(* load_page_range, load_page_window, load_page: one transaction that      *)
(* reads page 0 with the pages; an export compares it with the live one.   *)
LoadBatch(h) ==
    /\ Scanning(h) /\ Authority(h)
    /\ db[h].rd.kind = "export" => store.page0 = db[h].live.page0
    /\ Set(h, [db[h] EXCEPT !.rd.parts = Append(@, store)])
    /\ UNCHANGED <<store, images, faults, histories>>

FailRead(h) ==
    /\ Scanning(h)
    /\ LoadFails(h) \/ (db[h].rd.kind = "export" /\ store.page0 # db[h].live.page0)
    /\ faults' = IF Authority(h) /\ faults < MaxFaults THEN faults + 1 ELSE faults
    /\ Set(h, FinishPagedRead(db[h]))
    /\ UNCHANGED <<store, images, histories>>

(* The call returns what it collected, a query with the live tail. *)
EndRead(h) ==
    /\ db[h].rd # None /\ Complete(db[h].rd) /\ db[h].rd.kind # "forget"
    /\ Set(h, FinishPagedRead(db[h]))
    /\ UNCHANGED <<store, images, faults, histories>>

(* Mutant of CreateReadView: a view of a mutation that awaits durability. *)
CreateReadViewInFlight(h) ==
    /\ db[h].status = "open" /\ ~db[h].poisoned /\ db[h].view = None
    /\ Set(h, [db[h] EXCEPT !.view = [ledger |-> db[h].live.ledger, replaced |-> FALSE]])
    /\ UNCHANGED <<store, images, faults, histories>>

(* create_read_view: the transaction counter of a usable handle. *)
CreateReadView(h) ==
    /\ EnsureUsable(db[h]) /\ db[h].view = None
    /\ Set(h, [db[h] EXCEPT !.view = [ledger |-> db[h].live.ledger, replaced |-> FALSE]])
    /\ UNCHANGED <<store, images, faults, histories>>

(* Reads of a view in several steps with a yield or a fetch between them   *)
(* (read_current_entities, read_current_refs, read_entity_attribute_history*)
(* and read_valid_time_diff): each takes what the handle holds then.       *)
BeginViewRead(h) ==
    /\ EnsureUsable(db[h]) /\ db[h].view # None /\ db[h].rd = None
    /\ Set(h, BeginPagedRead(db[h],
                 [kind |-> "view", saw |-> 0,
                  parts |-> <<Take(db[h].live.ledger, Len(db[h].view.ledger))>>]))
    /\ UNCHANGED <<store, images, faults, histories>>

StepViewRead(h) ==
    /\ db[h].rd # None /\ db[h].rd.kind = "view" /\ ~Complete(db[h].rd)
    /\ db[h].paged => Authority(h)
    /\ Set(h, [db[h] EXCEPT !.rd.parts =
                Append(@, Take(db[h].live.ledger, Len(db[h].view.ledger)))])
    /\ UNCHANGED <<store, images, faults, histories>>

(* The tab goes away; a transaction that has not committed is aborted. *)
Close(h) ==
    /\ db[h].status # "closed" /\ Set(h, Closed)
    /\ UNCHANGED <<store, images, faults, histories>>

-----------------------------------------------------------------------------
(* Steps that IndexedDB and the event loop take once they are possible. *)
Settle(h) ==
    \/ CommitTransaction(h) \/ AbortTransaction(h) \/ Committed(h) \/ Aborted(h)
    \/ LoadPage0(h) \/ LoadMetadata(h) \/ LoadAllOrMigrate(h) \/ FailOpen(h)
    \/ Prefetch(h) \/ BuildCandidate(h)

Call(h) ==
    \/ \E mode \in OpenModes[h] : Open(h, mode)
    \/ ApplyWrite(h) \/ SaveFails(h) \/ RefuseAtomic(h) \/ ExecutePreparedForget(h)
    \/ Checkpoint(h)
    \/ \E kind \in {"maintain", "rebuild"} : BeginMaintenance(h, kind)
    \/ \E strict \in BOOLEAN : ImportGraph(h, strict)
    \/ LoadBatch(h) \/ FailRead(h) \/ EndRead(h) \/ StepViewRead(h)
    \/ /\ h \in Readers
       /\ \/ \E kind \in {"query", "export", "forget"} : BeginRead(h, kind)
          \/ CreateReadView(h) \/ BeginViewRead(h)
    \/ Close(h)

Next == \E h \in Handles : Settle(h) \/ Call(h)

Spec == Init /\ [][Next]_vars
FairSpec == Spec /\ \A h \in Readers : WF_vars(Settle(h))

-----------------------------------------------------------------------------
(* Properties.                                                             *)

(* A handle that is usable holds exactly the ledger of the image whose     *)
(* page 0 it pinned: a failed write is either rolled back or poisons       *)
(* (finish_mutation, flush_dirty_pages_or_restore, import, maintenance).   *)
(* A view keeps denoting the ledger it was created on, through rollbacks   *)
(* and compactions, until an import replaces the graph (create_read_view). *)
LiveIsDurable ==
    \A h \in Handles :
        db[h].status = "open" /\ ~db[h].poisoned =>
            /\ ~db[h].mutation => db[h].live.ledger = db[h].pinned.ledger
            /\ db[h].view # None /\ ~db[h].view.replaced =>
                 IsPrefix(db[h].view.ledger, db[h].live.ledger)

(* A write that returned an error is in no ledger ever published, not even *)
(* as a passenger of a later write of the same handle (finish_mutation);   *)
(* and a forget closes what it resolved: no transaction lies between the   *)
(* ledger its pages were read from and its own (prepare_forget).           *)
PublishedLedgersSound ==
    \A m \in published : \A i \in DOMAIN m.ledger :
        m.ledger[i].id \notin rejected /\ m.ledger[i].saw = i - 1

(* What a query or an export returns is the ledger of one published image, *)
(* with no page of another one, whatever the handle or another tab was     *)
(* doing while it awaited IndexedDB: of a usable handle that needs no page *)
(* the live ledger (execute_read_command, export_graph), otherwise the     *)
(* pages it fetched (ensure_pinned_authority) and the live tail.           *)
ReadsOnePublishedImage ==
    \A h \in Handles :
        LET d == db[h] IN
        /\ EnsureUsable(d) => \E m \in published : m.ledger = d.live.ledger
        /\ d.rd # None /\ d.rd.kind \in {"query", "export"} =>
            /\ \A i \in DOMAIN d.rd.parts : d.rd.parts[i].ledger = d.live.ledger
            /\ d.rd.kind = "export" =>
                \A i \in DOMAIN d.rd.parts : d.rd.parts[i] = d.rd.parts[1]

(* Whatever two tabs do, a publication other than an import extends the    *)
(* published ledger: nobody's transaction is lost (page-0 compare and swap *)
(* in write_pages and replace_all_pages).                                  *)
Importing == \E h \in Handles : At(h, "tx") /\ db[h].op.kind = "import"
NoLostUpdate ==
    [][store # None /\ ~Importing => IsPrefix(store.ledger, store'.ledger)]_vars

(* Every mutation settles: the guard of a handle is not held for ever      *)
(* (transaction_to_promise, flush_dirty_pages_or_restore).  Stated, with   *)
(* its fairness, for the handles that read; the handles run the same code. *)
MutationSettles ==
    \A h \in Readers : db[h].mutation ~> ~db[h].mutation
=============================================================================
