------------------------------ MODULE PageStore ------------------------------
(***************************************************************************)
(* The paged file behind a checkpoint: base, delta segments, manifests and *)
(* the integrity catalog, published through page 0 (persistent_facts.rs,   *)
(* delta_manifest.rs, header_extension.rs, page_integrity.rs).             *)
(*                                                                         *)
(* A fact is its tx_count; the facts a save packs, the four B+trees, a     *)
(* segment, a manifest and the catalog take one page each.  A checksum is  *)
(* the content it covers.  `file` is what reads return, `disk` what a power    *)
(* loss is sure to leave: between two syncs every page written may or may  *)
(* not reach the disk.                                                     *)
(***************************************************************************)
EXTENDS Integers, Sequences

CONSTANTS
    MaxTx,        \* bound: transaction numbers
    MaxPage,      \* bound: highest page of the file
    MaxCrashes,   \* bound: kills and power losses
    MaxFailures,  \* bound: saves and WAL deletions that return an error
    MaxRetries,   \* bound: page-0 writes after a failed page-0 sync
    None          \* no slot, no manifest, no page 0 under way

Slots == {"primary", "secondary"}

ASSUME StoreAssumption ==
    /\ MaxTx \in Nat /\ MaxPage \in Nat /\ MaxCrashes \in Nat
    /\ MaxFailures \in Nat /\ MaxRetries \in Nat /\ None \notin Slots

VARIABLES
    file, disk,   \* page number -> content
    pc,           \* closed, idle, data, header, sync, retire
    next,         \* the page 0 the running save will publish
    mem,          \* manifest selection, base catalog and base range in memory
    counter,      \* FactStorage::tx_counter
    pending,      \* facts not yet checkpointed
    shown,        \* facts behind the committed readers
    flush,        \* wal_entry_count > 0 or the storage is dirty
    doubt,        \* history: this process saw the sync of page 0 fail
    wal,          \* entries of the WAL: [tx, empty]
    acked,        \* history: transactions acknowledged with a fact
    rewritten,    \* history: a published base was written over in place
    retries,      \* history: page 0 was written again in that process
    crashes, failures

process == <<pc, next, mem, counter, pending, shown, flush, doubt>>
history == <<acked, rewritten, retries>>
vars == <<file, disk, process, wal, history, crashes, failures>>

Blank == [kind |-> "blank"]

(* An all-zero descriptor: HeaderManifestSlot::empty and the like. *)
Empty == [page |-> 0, content |-> Blank]

NoSlots == [s \in Slots |-> Empty]

(* FileHeader::new: no roots, no catalog, both manifest slots empty. *)
FreshHeader ==
    [kind |-> "header", pages |-> 1, last |-> 0, root |-> 0, start |-> 1,
     count |-> 0, catalog |-> Empty, slots |-> NoSlots]

FreshMem ==
    [slot |-> None, manifest |-> None, catalog |-> Empty, start |-> 1, count |-> 0]

MaxOf(a, b) == IF a >= b THEN a ELSE b

-----------------------------------------------------------------------------
(* Reading an image.                                                       *)

(* verify_base_integrity_pages. *)
Verified(f, c) ==
    \A p \in DOMAIN c.content.sums : f[p] = c.content.sums[p]

(* load_v11_base_integrity, and the page checks base reads go through. *)
BaseIntact(f) ==
    LET h == f[0] IN
    \/ h.root = 0 /\ h.catalog = Empty
    \/ /\ h.root # 0 /\ h.catalog # Empty
       /\ f[h.catalog.page] = h.catalog.content
       /\ Verified(f, h.catalog)

BaseFacts(f) == UNION {f[p].facts : p \in f[0].start..(f[0].start + f[0].count - 1)}

(* read_manifest_from_descriptor and read_delta_segment_from_descriptor. *)
SlotUsable(f, s) ==
    LET d == f[0].slots[s] IN
    /\ d # Empty
    /\ d.page < f[0].pages /\ f[d.page] = d.content
    /\ \A i \in DOMAIN d.content.segs :
          /\ d.content.segs[i].page < f[0].pages
          /\ f[d.content.segs[i].page] = d.content.segs[i]

(* load_usable_delta_selection: newest generation first, primary on a tie. *)
Selected(f) ==
    LET usable == {s \in Slots : SlotUsable(f, s)} IN
    IF usable = {} THEN None
    ELSE IF usable = Slots
         THEN IF f[0].slots["primary"].content.gen >= f[0].slots["secondary"].content.gen
              THEN "primary" ELSE "secondary"
    ELSE CHOOSE s \in usable : TRUE

Manifest(f) == f[0].slots[Selected(f)].content

(* DeltaBaseIdentity::from_header. *)
BaseIdentity(h) ==
    [pages |-> h.pages, count |-> h.count, last |-> h.last, root |-> h.root,
     sums |-> h.catalog.content.sums]

(* DeltaBaseIdentity::validate_against_header. *)
BaseMatches(base, h) ==
    /\ base.pages <= h.pages /\ base.count = h.count /\ base.last <= h.last
    /\ base.root = h.root /\ base.sums = h.catalog.content.sums

(* load: the file opens, and what it then shows. *)
LoadOk(f) ==
    /\ BaseIntact(f)
    /\ f[0].slots # NoSlots =>
          Selected(f) # None /\ BaseMatches(Manifest(f).base, f[0])

Segments(f) == IF Selected(f) = None THEN <<>> ELSE Manifest(f).segs
SegmentFacts(segs) == UNION {segs[i].facts : i \in DOMAIN segs}
LoadedFacts(f) == BaseFacts(f) \cup SegmentFacts(Segments(f))

-----------------------------------------------------------------------------
(* Opening and writing.                                                    *)

Init ==
    /\ file = [p \in 0..MaxPage |-> IF p = 0 THEN FreshHeader ELSE Blank]
    /\ disk = file
    /\ pc = "closed" /\ next = None /\ mem = FreshMem
    /\ counter = 0 /\ pending = {} /\ shown = {} /\ flush = FALSE /\ doubt = FALSE
    /\ wal = {} /\ acked = {} /\ rewritten = FALSE /\ retries = 0
    /\ crashes = 0 /\ failures = 0

(* replay_wal: the entries above the watermark of page 0. *)
Replayable(f) == {e \in wal : e.tx > f[0].last}
ReplayedFacts(f) == {e.tx : e \in {x \in Replayable(f) : ~x.empty}}

(* restore_tx_counter_from: the watermark, or the newest replayed fact. *)
RestoredCounter(f) ==
    LET seen == {f[0].last} \cup ReplayedFacts(f)
    IN  CHOOSE n \in seen : \A t \in seen : n >= t

(* PersistentFactStorage::load, then replay_wal. *)
Load ==
    /\ pc = "closed" /\ LoadOk(file)
    /\ mem' = [slot |-> Selected(file),
               manifest |-> IF Selected(file) = None THEN None ELSE Manifest(file),
               catalog |-> file[0].catalog, start |-> file[0].start,
               count |-> file[0].count]
    /\ shown' = LoadedFacts(file)
    /\ pending' = ReplayedFacts(file)
    /\ counter' = RestoredCounter(file)
    /\ flush' = (Replayable(file) # {})
    /\ pc' = "idle"
    /\ UNCHANGED <<file, disk, next, doubt, wal, history, crashes, failures>>

(* One transaction through the WAL into the pending overlay (WalLedger     *)
(* has its steps); an empty one leaves a WAL entry without facts.          *)
Transact(empty) ==
    /\ pc = "idle" /\ counter < MaxTx
    /\ counter' = counter + 1 /\ flush' = TRUE
    /\ wal' = wal \cup {[tx |-> counter', empty |-> empty]}
    /\ LET facts == IF empty THEN {} ELSE {counter'}
       IN pending' = pending \cup facts /\ acked' = acked \cup facts
    /\ UNCHANGED <<file, disk, pc, next, mem, shown, doubt, rewritten, retries,
                   crashes, failures>>

-----------------------------------------------------------------------------
(* save.                                                                   *)

Header == file[0]

(* DeltaManifest::validate. *)
SegmentsOrdered(base, segs) ==
    /\ \A i \in DOMAIN segs : /\ segs[i].page >= base.pages
                               /\ \A t \in segs[i].facts : base.last < t
    /\ \A i, j \in DOMAIN segs : i < j =>
          \A t \in segs[i].facts, u \in segs[j].facts : t < u

NewSegment == [kind |-> "segment", page |-> Header.pages, facts |-> pending]

(* Greater than the watermark, so than every generation published before.  *)
NextGeneration == MaxOf(MaxOf(counter, Header.last + 1), 1)

(* Mutant of NewManifest: earlier segments are dropped. *)
NewManifestLastOnly ==
    [kind |-> "manifest", gen |-> NextGeneration,
     base |-> IF mem.slot # None THEN mem.manifest.base ELSE BaseIdentity(Header),
     segs |-> <<NewSegment>>]

(* The manifest a delta checkpoint writes: base identity and earlier       *)
(* segments come from memory when a manifest is selected, else from page 0.*)
NewManifest ==
    LET known == mem.slot # None IN
    [kind |-> "manifest", gen |-> NextGeneration,
     base |-> IF known THEN mem.manifest.base ELSE BaseIdentity(Header),
     segs |-> Append(IF known THEN mem.manifest.segs ELSE <<>>, NewSegment)]

(* build_next_manifest_extension: replace the slot memory does not use. *)
PublishedSlot == IF mem.slot = "primary" THEN "secondary" ELSE "primary"

NextSlots(d) ==
    [(IF mem.slot = None THEN NoSlots ELSE Header.slots) EXCEPT ![PublishedSlot] = d]

TakesDelta == pending # {} /\ Header.root # 0
DeltaValid == SegmentsOrdered(NewManifest.base, NewManifest.segs)

(* try_save_delta_segment up to its first sync. *)
WriteDelta ==
    /\ pc = "idle" /\ flush /\ TakesDelta /\ DeltaValid
    /\ Header.pages + 1 <= MaxPage
    /\ file' = [file EXCEPT ![Header.pages] = NewSegment,
                            ![Header.pages + 1] = NewManifest]
    /\ next' = [Header EXCEPT
                  !.pages = Header.pages + 2, !.last = counter,
                  !.slots = NextSlots([page |-> Header.pages + 1,
                                       content |-> NewManifest])]
    /\ pc' = "header"
    /\ UNCHANGED <<disk, mem, counter, pending, shown, flush, doubt, wal,
                   history, crashes, failures>>

(* The segment page is written before the manifest is found invalid. *)
RefuseDelta ==
    /\ pc = "idle" /\ flush /\ TakesDelta /\ ~DeltaValid
    /\ Header.pages <= MaxPage
    /\ file' = [file EXCEPT ![Header.pages] = NewSegment]
    /\ UNCHANGED <<disk, process, wal, history, crashes, failures>>

(* A base at `start`: its `old` fact pages, one more (an empty one too) with *)
(* the facts `fresh`, and the index page over `all` of them.               *)
WriteBase(start, old, fresh, all) ==
    /\ start + old + 2 <= MaxPage
    /\ file' = [file EXCEPT ![start + old] = [kind |-> "facts", facts |-> fresh],
                            ![start + old + 1] = [kind |-> "index", facts |-> all]]
    /\ next' = [FreshHeader EXCEPT
                  !.pages = start + old + 3, !.last = counter,
                  !.root = start + old + 1, !.start = start, !.count = old + 1]
    /\ pc' = "data"
    /\ UNCHANGED <<disk, mem, counter, pending, shown, flush, doubt, wal, acked,
                   retries, crashes, failures>>

Indexed == IF Header.root = 0 THEN {} ELSE file[Header.root].facts

(* save without a manifest, where the base is: a fact page behind the fact *)
(* pages and the rebuilt indexes behind it.  Only the first save brings    *)
(* facts; a later one packs an empty page over the published index, and    *)
(* the new index over the published catalog.                               *)
WriteFull ==
    /\ pc = "idle" /\ flush /\ ~TakesDelta /\ mem.slot = None
    /\ mem.catalog # Empty => Verified(file, mem.catalog)
    /\ WriteBase(mem.start, mem.count, pending, Indexed \cup pending)
    /\ rewritten' = (rewritten \/ Header.root # 0)

(* Mutant of WriteRecompact: the new base is written over the old one. *)
WriteRecompactInPlace ==
    /\ pc = "idle" /\ pending = {} /\ mem.slot # None
    /\ WriteBase(Header.start, 0, shown, shown)
    /\ UNCHANGED rewritten

(* write_recompact_candidate_from_visible_facts, after the published       *)
(* pages: a save with nothing pending over a manifest, or idle maintenance *)
(* when there is nothing left to flush.                                    *)
WriteRecompact ==
    /\ pc = "idle" /\ pending = {} /\ mem.slot # None
    /\ WriteBase(Header.pages, 0, shown, shown)
    /\ UNCHANGED rewritten

(* write_base_integrity_catalog, after the data pages are synced. *)
WriteCatalog ==
    /\ pc = "data"
    /\ disk' = file
    /\ LET c == [kind |-> "catalog",
                 gen |-> 1 + (IF mem.catalog = Empty THEN 0 ELSE mem.catalog.content.gen),
                 sums |-> [p \in next.start..(next.pages - 2) |-> file[p]]]
       IN /\ file' = [file EXCEPT ![next.pages - 1] = c]
          /\ next' = [next EXCEPT !.catalog = [page |-> next.pages - 1, content |-> c]]
    /\ pc' = "header"
    /\ UNCHANGED <<mem, counter, pending, shown, flush, doubt, wal, history,
                   crashes, failures>>

(* Mutant of WriteHeader: page 0 is written before the sync. *)
WriteHeaderUnsynced ==
    /\ pc = "header" /\ (doubt => retries < MaxRetries)
    /\ file' = [file EXCEPT ![0] = next]
    /\ retries' = IF doubt THEN retries + 1 ELSE retries
    /\ pc' = "sync"
    /\ UNCHANGED <<disk, next, mem, counter, pending, shown, flush, doubt, wal, acked,
                   rewritten, crashes, failures>>

(* Everything page 0 will point to is synced, then page 0 is written. *)
WriteHeader ==
    /\ pc = "header" /\ (doubt => retries < MaxRetries)
    /\ disk' = file
    /\ file' = [file EXCEPT ![0] = next]
    /\ retries' = IF doubt THEN retries + 1 ELSE retries
    /\ pc' = "sync"
    /\ UNCHANGED <<next, mem, counter, pending, shown, flush, doubt, wal, acked,
                   rewritten, crashes, failures>>

(* An I/O error: before page 0 is written, or from the sync after it.  The *)
(* caller keeps pending facts, WAL and the manifest selection it had.      *)
SaveFails ==
    /\ pc \in {"data", "header", "sync"} /\ failures < MaxFailures
    /\ failures' = failures + 1
    /\ disk' \in {disk, file}
    /\ doubt' = (doubt \/ pc = "sync")
    /\ pc' = "idle" /\ next' = None
    /\ UNCHANGED <<file, mem, counter, pending, shown, flush, wal, history, crashes>>

(* Page 0 is durable: memory follows it and pending is cleared.  A save    *)
(* goes on to retire the WAL, idle maintenance is done.                    *)
SyncHeader ==
    /\ pc = "sync"
    /\ disk' = file
    /\ mem' = IF next.slots = NoSlots
              THEN [slot |-> None, manifest |-> None, catalog |-> next.catalog,
                    start |-> next.start, count |-> next.count]
              ELSE [mem EXCEPT !.slot = PublishedSlot,
                               !.manifest = next.slots[PublishedSlot].content]
    /\ shown' = shown \cup pending /\ pending' = {}
    /\ next' = None
    /\ pc' = IF flush THEN "retire" ELSE "idle"
    /\ UNCHANGED <<file, counter, flush, doubt, wal, history, crashes, failures>>

RetireWal ==
    /\ pc = "retire"
    /\ wal' = {} /\ flush' = FALSE /\ pc' = "idle"
    /\ UNCHANGED <<file, disk, next, mem, counter, pending, shown, doubt, history,
                   crashes, failures>>

RetireFails ==
    /\ pc = "retire" /\ failures < MaxFailures
    /\ failures' = failures + 1 /\ pc' = "idle"
    /\ UNCHANGED <<file, disk, next, mem, counter, pending, shown, flush, doubt, wal,
                   history, crashes>>

-----------------------------------------------------------------------------
(* Crashes.                                                                *)

Stop ==
    /\ crashes < MaxCrashes /\ crashes' = crashes + 1
    /\ pc' = "closed" /\ next' = None /\ mem' = FreshMem
    /\ counter' = 0 /\ pending' = {} /\ shown' = {} /\ flush' = FALSE /\ doubt' = FALSE
    /\ UNCHANGED <<wal, history, failures>>

Kill ==
    /\ pc # "closed"
    /\ Stop
    /\ UNCHANGED <<file, disk>>

(* Each page written since the last sync reaches the disk or does not. *)
PowerLoss ==
    /\ \E kept \in SUBSET {p \in DOMAIN file : file[p] # disk[p]} :
          file' = [p \in DOMAIN file |-> IF p \in kept THEN file[p] ELSE disk[p]]
    /\ disk' = file'
    /\ Stop

Next ==
    \/ Load
    \/ \E empty \in BOOLEAN : Transact(empty)
    \/ WriteDelta \/ RefuseDelta \/ WriteFull \/ WriteRecompact
    \/ WriteCatalog \/ WriteHeader \/ SaveFails \/ SyncHeader
    \/ RetireWal \/ RetireFails \/ Kill \/ PowerLoss

Spec == Init /\ [][Next]_vars

-----------------------------------------------------------------------------
(* Properties.                                                             *)

(* A published page 0 never points to incomplete, overwritten or unsynced  *)
(* pages: whatever a crash keeps of the pages written, the file opens      *)
(* (save, try_save_delta_segment and publish_recompact_candidate sync      *)
(* everything before page 0), and shows what the open handle shows,        *)
(* before, during and after every checkpoint and recompaction.  Not so     *)
(* for a base rewritten in place, nor for a save that is retried after a   *)
(* failed sync of page 0.                                                  *)
ReopenAgrees ==
    retries = 0 =>
        /\ ~rewritten => LoadOk(file) /\ LoadOk(disk)
        /\ pc # "closed" =>
             \A f \in {file, disk} : LoadedFacts(f) \cup ReplayedFacts(f) = shown \cup pending

Holds(t, f) == t \in LoadedFacts(f) \/ t \in ReplayedFacts(f)

(* An acknowledged fact is in the base, in a segment of the manifest load  *)
(* selects, or in the WAL above the watermark, in both versions of the     *)
(* file a crash can leave; and an image that opens never holds it in two   *)
(* of its layers: DeltaManifest::validate refuses a delta retried over a   *)
(* base that already has its facts, also when page 0 is ahead of memory.   *)
AckedHeldOnce ==
    /\ retries = 0 => \A t \in acked : Holds(t, file) /\ Holds(t, disk)
    /\ \A f \in {file, disk} : LoadOk(f) =>
        LET segs == Segments(f) IN
        /\ BaseFacts(f) \cap SegmentFacts(segs) = {}
        /\ \A i, j \in DOMAIN segs : i # j => segs[i].facts \cap segs[j].facts = {}

(* Pages page 0 names: base, catalog, and both manifests with segments. *)
Named(f) ==
    LET h == f[0]
        ds == {h.slots[s] : s \in {x \in Slots : h.slots[x] # Empty}}
    IN  (IF h.catalog = Empty THEN {} ELSE {h.catalog.page} \cup DOMAIN h.catalog.content.sums)
        \cup {d.page : d \in ds}
        \cup UNION {{d.content.segs[i].page : i \in DOMAIN d.content.segs} : d \in ds}

(* Copy on write: no step changes a page that the durable page 0 names, in *)
(* the selected manifest or in the one kept to fall back on.               *)
NamedPagesKept ==
    [][~rewritten' => \A p \in Named(disk) \cup Named(file) :
                         p \in Named(file') => file'[p] = file[p]]_vars

(* A file that is refused has no image. *)
Abstract(f) == IF LoadOk(f) THEN [last |-> f[0].last, facts |-> LoadedFacts(f)] ELSE None
Atomic == INSTANCE AtomicImage WITH written <- Abstract(file), durable <- Abstract(disk)

(* Checkpoints and recompactions, page by page, implement the atomic image *)
(* the write path relies on: at every step the file and what a power loss  *)
(* leaves of it open, and they change as AtomicImage allows.  Up to the    *)
(* first base rewritten in place (save) or page 0 written again after its  *)
(* sync failed, which may leave a file that is refused.                    *)
ImplementsAtomicImage ==
    /\ Atomic!AtomicInit
    /\ [][~rewritten' /\ retries' = 0 =>
              /\ LoadOk(file') /\ LoadOk(disk')
              /\ Atomic!AtomicNext]_<<Abstract(file), Abstract(disk)>>
=============================================================================
