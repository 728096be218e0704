----------------------------- MODULE Publication -----------------------------
(***************************************************************************)
(* The memory a handle's readers and its one writer share, and the writer: *)
(* the pending overlay, the committed readers, the two page-range atomics  *)
(* behind them and the publication generation (graph/storage.rs,           *)
(* persistent_facts.rs, db.rs).  The write lock is held whenever `writer`  *)
(* is not idle; `data` is a reader-writer lock, and `reading` says that a  *)
(* reader is inside it.  Durability is WalLedger's and PageStore's         *)
(* subject; here a save is the moment its pages and page 0 are in the file.*)
(*                                                                         *)
(* A fact is [tx, entity].  Base facts lie in packed pages of PageCapacity *)
(* facts; the index, the catalog, a segment and a manifest take one page.  *)
(***************************************************************************)
EXTENDS Integers, Sequences

CONSTANTS
    MaxTx,         \* bound: transaction numbers
    MaxSaves,      \* bound: checkpoints and recompactions
    BatchSize,     \* bound: facts of one transaction
    PageCapacity,  \* facts of a packed page
    None           \* no catalog, no save under way

ASSUME PublicationAssumption ==
    /\ MaxTx \in Nat /\ MaxSaves \in Nat /\ BatchSize \in Nat
    /\ PageCapacity \in Nat \ {0}

VARIABLES
    writer,    \* idle, wal, load, count, start, wire, clear
    todo,      \* facts of the batch still to load
    counter,   \* FactStorage::tx_counter
    pending,   \* FactData::pending, in insertion order
    committed, \* FactData::committed and committed_index_reader:
               \*   [catalog, root, layered]
    delta,     \* resident_delta_facts, shared by the layered readers
    gen,       \* FactData::publication_generation
    count,     \* committed_fact_pages
    start,     \* committed_fact_page_start
    file,      \* packed fact pages and index pages: page -> [kind, facts]
    pages,     \* page_count of page 0
    next,      \* what the running save publishes
    flush,     \* wal_entry_count > 0
    saves,     \* saves so far
    reading,   \* a reader holds data.read
    log        \* history: the facts in the order they were loaded

shared == <<writer, todo, counter, pending, committed, delta, gen, count, start,
            file, pages, next, flush, saves, log>>

Facts == [tx : 1..MaxTx, entity : 1..BatchSize]

PublicationInit ==
    /\ writer = "idle" /\ todo = 0 /\ counter = 0 /\ pending = <<>>
    /\ committed = [catalog |-> None, root |-> <<>>, layered |-> FALSE]
    /\ delta = <<>> /\ gen = 0 /\ count = 0 /\ start = 1
    /\ file = [p \in {} |-> <<>>] /\ pages = 1 /\ next = None
    /\ flush = FALSE /\ saves = 0 /\ reading = FALSE /\ log = <<>>

-----------------------------------------------------------------------------
(* A transaction.                                                          *)

(* execute and commit: take the write lock and a number, for k facts. *)
Begin(k) ==
    /\ writer = "idle" /\ counter < MaxTx
    /\ counter' = counter + 1 /\ todo' = k /\ writer' = "wal"
    /\ UNCHANGED <<pending, committed, delta, gen, count, start, file, pages,
                   next, flush, saves, reading, log>>

(* The WAL append succeeds, or the number is burned. *)
WalAppend ==
    /\ writer = "wal"
    /\ \/ writer' = "load" /\ flush' = TRUE /\ UNCHANGED todo
       \/ writer' = "idle" /\ todo' = 0 /\ UNCHANGED flush
    /\ UNCHANGED <<counter, pending, committed, delta, gen, count, start, file,
                   pages, next, saves, reading, log>>

(* load_fact: each fact of the batch under a data.write of its own. *)
LoadFact ==
    /\ writer = "load" /\ todo > 0 /\ ~reading
    /\ LET fact == [tx |-> counter, entity |-> todo]
       IN pending' = Append(pending, fact) /\ log' = Append(log, fact)
    /\ gen' = gen + 1 /\ todo' = todo - 1
    /\ UNCHANGED <<writer, counter, committed, delta, count, start, file, pages,
                   next, flush, saves, reading>>

(* The batch is loaded; what follows is a checkpoint or the return, also   *)
(* with the error of a checkpoint that failed and changed nothing here.    *)
Loaded == writer = "load" /\ todo = 0

Return ==
    /\ Loaded
    /\ writer' = "idle"
    /\ UNCHANGED <<todo, counter, pending, committed, delta, gen, count, start,
                   file, pages, next, flush, saves, reading, log>>

-----------------------------------------------------------------------------
(* Saves, up to page 0 in the file.                                        *)

CanSave == (writer = "idle" \/ Loaded) /\ saves < MaxSaves
Rooted == committed.catalog # None

(* pack_facts, which packs an empty page for no facts. *)
PagesFor(facts) ==
    IF facts = <<>> THEN 1 ELSE (Len(facts) + PageCapacity - 1) \div PageCapacity
PageOf(facts, i) ==
    SubSeq(facts, i * PageCapacity + 1,
           IF (i + 1) * PageCapacity <= Len(facts) THEN (i + 1) * PageCapacity
           ELSE Len(facts))

(* `facts` packed from page `at` on, and the index over `all` behind them. *)
WriteBase(at, facts, all) ==
    LET index == at + PagesFor(facts) IN
    file' = [p \in DOMAIN file \cup at..index |->
                IF p \notin at..index THEN file[p]
                ELSE IF p = index THEN [kind |-> "index", facts |-> all]
                ELSE [kind |-> "facts", facts |-> PageOf(facts, p - at)]]

(* A base of n fact pages at `at`; index and catalog pages follow, and the *)
(* catalog has the checksums (contents) of fact and index pages.           *)
PublishBase(at, n, facts) ==
    /\ next' = [kind |-> "base", start |-> at, count |-> n, root |-> facts,
                catalog |-> [p \in at..(at + n) |-> file'[p]]]
    /\ pages' = at + n + 2
    /\ writer' = "count" /\ saves' = saves + 1
    /\ UNCHANGED <<todo, counter, pending, committed, delta, gen, count, start,
                   flush, reading, log>>

(* save over a base: one more segment and manifest. *)
SaveDelta ==
    /\ CanSave /\ flush /\ pending # <<>> /\ Rooted
    /\ next' = [kind |-> "delta"] /\ pages' = pages + 2
    /\ writer' = "wire" /\ saves' = saves + 1
    /\ UNCHANGED <<todo, counter, pending, committed, delta, gen, count, start,
                   file, flush, reading, log>>

(* save without a manifest: pending facts, or an empty page, go behind the *)
(* fact pages, over the old index, and the indexes are rebuilt behind them.*)
SaveFull ==
    /\ CanSave /\ flush /\ ~(pending # <<>> /\ Rooted) /\ ~committed.layered
    /\ WriteBase(start + count, pending, committed.root \o pending)
    /\ PublishBase(start, count + PagesFor(pending), committed.root \o pending)

(* A manifest and nothing pending: save, or idle maintenance, copies what  *)
(* is visible behind the published pages.                                  *)
SaveRecompact ==
    /\ CanSave /\ pending = <<>> /\ committed.layered
    /\ WriteBase(pages, committed.root \o delta, committed.root \o delta)
    /\ PublishBase(pages, PagesFor(committed.root \o delta), committed.root \o delta)

-----------------------------------------------------------------------------
(* Saves, from page 0 on: memory follows the file.                         *)

StoreCount ==
    /\ writer = "count"
    /\ count' = next.count /\ writer' = "start"
    /\ UNCHANGED <<todo, counter, pending, committed, delta, gen, start, file,
                   pages, next, flush, saves, reading, log>>

StoreStart ==
    /\ writer = "start"
    /\ start' = next.start /\ writer' = "wire"
    /\ UNCHANGED <<todo, counter, pending, committed, delta, gen, count, file,
                   pages, next, flush, saves, reading, log>>

(* Mutant of Wire: the generation is left to post_checkpoint_clear. *)
WireQuietly ==
    /\ writer = "wire" /\ ~reading
    /\ IF next.kind = "delta"
       THEN /\ committed' = [committed EXCEPT !.layered = TRUE]
            /\ delta' = delta \o pending
       ELSE /\ committed' = [catalog |-> next.catalog, root |-> next.root,
                             layered |-> FALSE]
            /\ delta' = <<>>
    /\ pending' = <<>>
    /\ writer' = "clear"
    /\ UNCHANGED <<todo, counter, gen, count, start, file, pages, next, flush,
                   saves, reading, log>>

(* wire_committed_readers (publish_committed_readers), or from the second  *)
(* segment on append_resident_delta_segment: one data.write swaps or       *)
(* extends the readers and clears pending.                                 *)
Wire ==
    /\ writer = "wire" /\ ~reading
    /\ IF next.kind = "delta"
       THEN /\ committed' = [committed EXCEPT !.layered = TRUE]
            /\ delta' = delta \o pending
       ELSE /\ committed' = [catalog |-> next.catalog, root |-> next.root,
                             layered |-> FALSE]
            /\ delta' = <<>>
    /\ pending' = <<>> /\ gen' = gen + 1
    /\ writer' = "clear"
    /\ UNCHANGED <<todo, counter, count, start, file, pages, next, flush, saves,
                   reading, log>>

(* post_checkpoint_clear; do_checkpoint then deletes the WAL or fails to. *)
Clear ==
    /\ writer = "clear" /\ ~reading
    /\ pending' = <<>> /\ gen' = gen + 1
    /\ flush' \in {flush, FALSE}
    /\ next' = None /\ writer' = "idle"
    /\ UNCHANGED <<todo, counter, committed, delta, count, start, file, pages,
                   saves, reading, log>>

Publish ==
    \/ \E k \in 0..BatchSize : Begin(k)
    \/ WalAppend \/ LoadFact \/ Return
    \/ SaveDelta \/ SaveFull \/ SaveRecompact
    \/ StoreCount \/ StoreStart \/ Wire \/ Clear
=============================================================================
