------------------------------ MODULE Bootstrap -------------------------------
(***************************************************************************)
(* Opening a .graph image kept in IndexedDB (browser/mod.rs, the bounded   *)
(* plan in storage/persistent_facts.rs).  A paged handle fetches page 0,   *)
(* the integrity catalog, the manifests and their segments, and runs the   *)
(* ordinary load over those pages alone; an eager handle loads every page. *)
(*                                                                         *)
(* A behaviour is that of a native process (tab is Off) or of one browser  *)
(* handle over the same images: file is then the object store, records of  *)
(* it may rot or vanish between two awaits, and another tab may replace    *)
(* the whole image.  Reads of one step that IndexedDB serves one after the *)
(* other are taken together, since each compares page 0 with the pinned.   *)
(***************************************************************************)
EXTENDS ImageOpen

CONSTANTS Stored,         \* the images that a browser keeps
          Others,         \* images that another tab may publish
          MaxManifest,    \* segments of a manifest within the bootstrap limit
          ExportBatch     \* BROWSER_IDB_BATCH_PAGES

ASSUME BootstrapBounds == MaxManifest \in Nat /\ ExportBatch \in Nat \ {0}

VARIABLE tab

NoPages == [p \in 0..MaxPage |-> Absent]

\* pc is "closed", "metadata", "segments", "eager", "migrate", "open",
\* "export", "exported" or "failed"; mode is "paged", "current" or "eager".
Tab(step, mode, now) ==
    [pc |-> step, mode |-> mode, now |-> now, page0 |-> Absent, pages |-> NoPages, paged |-> FALSE,
     segs |-> {}, ledger |-> NoLedger, next |-> 0, exact |-> {}, blob |-> NoPages]

Off == [pc |-> "off"]
native == <<image, file, synced, opened, pc, plan, ledger, answer, faults, losses>>
bvars == <<native, tab>>

Resident(f, S) == [p \in DOMAIN f |-> IF p \in S THEN f[p] ELSE Absent]
Held(f) == {p \in DOMAIN f : Present(f, p)}

-----------------------------------------------------------------------------
\* BrowserV11BootstrapPlan: ranges are sets of pages.

bounded(first, n, h) == first + n <= h.pages

base_covered_range(e) ==
    IF IntegrityEmpty(e.integrity) THEN {}
    ELSE e.integrity.start..(e.integrity.start + e.integrity.covered - 1)
required_ranges(e) == IF IntegrityEmpty(e.integrity) THEN {} ELSE {e.integrity.page}
Immutable(e) == base_covered_range(e) \cup required_ranges(e)

\* validate_browser_manifest_resource_policy: the length is in the slot.
Oversized(slot) == slot.sum.k = "manifest" /\ Len(slot.sum.segs) > MaxManifest

\* plan_browser_manifest_candidates: {} refuses.  A slot out of bounds is
\* passed over; one that the bounded open does not support is not.
plan_browser_manifest_candidates(h, e) ==
    LET selectable == SelectSeq(Newest(e.slots), LAMBDA i : is_selectable(e.slots[i]))
        cands == SelectSeq(selectable, LAMBDA i : bounded(e.slots[i].page, 1, h))
    IN  IF \/ \E i \in ToSet(selectable) : Oversized(e.slots[i])
           \/ \E i \in ToSet(cands) : e.slots[i].page \in Immutable(e)
           \/ cands = <<>> /\ \E i \in 1..2 : ~is_empty(e.slots[i])
        THEN {} ELSE {cands}

DescriptorValid(h, e) ==
    IF IntegrityEmpty(e.integrity) THEN CanonicalEmpty(h, e) ELSE DescriptorFits(h, e)

from_page0(page0) ==
    LET h == from_bytes(page0)
        e == CHOOSE x \in read_from_page0(h) : TRUE
    IN  IF \/ page0.k # "header" \/ ~validate(h)
           \/ h.version \notin INTEGRITY_FORMAT_VERSION..PROJECTION_CATALOG_FILE_FORMAT_VERSION
           \/ h.crc # NoCrc /\ h.crc # HeaderBytes(h)
           \/ read_from_page0(h) = {}
        THEN {}
        ELSE IF ~DescriptorValid(h, e) \/ ~bounded(e.start, h.count, h) THEN {}
        ELSE {[page0 |-> page0, h |-> h, e |-> e, cands |-> c] : c \in plan_browser_manifest_candidates(h, e)}

\* projection_catalog_ranges: {} refuses.
projection_catalog_ranges(b) ==
    LET slots == {i \in 1..2 : is_selectable(b.e.projections[i])}
    IN  IF \A i \in slots : bounded(b.e.projections[i].page, 1, b.h)
        THEN {{b.e.projections[i].page : i \in slots}} ELSE {}

\* plan_browser_manifest_segments: the first segment that does not fit decides.
SegmentFlaw(b, slot, seg) ==
    IF ~bounded(seg.page, 1, b.h) THEN "bounds"
    ELSE IF seg.page + 1 > slot.page \/ seg.page \in Immutable(b.e) THEN "unsupported"
    ELSE "none"
plan_browser_manifest_segments(b, slot, m) ==
    LET bad == SelectSeq(m.segs, LAMBDA s : SegmentFlaw(b, slot, s) # "none")
    IN  IF bad = <<>> THEN "none" ELSE SegmentFlaw(b, slot, bad[1])

\* plan_resident_metadata over the pages fetched so far: the candidates that
\* remain, each with its manifest; {} refuses.
plan_resident_metadata(b, f) ==
    LET ManifestOf(i) == read_manifest_from_descriptor(f, b.h, b.e.slots[i])
        read == SelectSeq(b.cands, LAMBDA i : \E m \in ManifestOf(i) : BaseMatches(m.base, b.h))
        Plan(i) == plan_browser_manifest_segments(b, b.e.slots[i], CHOOSE m \in ManifestOf(i) : TRUE)
        kept == SelectSeq(read, LAMBDA i : Plan(i) = "none")
    IN  IF \/ f[0] # b.page0
           \/ load_v11_base_integrity(f, b.h, b.e) = {}
           \/ \E i \in ToSet(read) : Plan(i) = "unsupported"
           \/ b.cands # <<>> /\ kept = <<>>
        THEN {}
        ELSE {[j \in DOMAIN kept |-> [slot |-> kept[j], m |-> CHOOSE m \in ManifestOf(kept[j]) : TRUE]]}

SegmentPages(m) == {m.segs[j].page : j \in DOMAIN m.segs}

\* Every candidate's segments, so that load can fall back.
candidate_segment_ranges(kept) == UNION {SegmentPages(kept[j].m) : j \in DOMAIN kept}

authority_pin_ids(b, kept, f) ==
    Held(f) \cap ({0} \cup required_ranges(b.e) \cup candidate_segment_ranges(kept)
                  \cup {b.e.slots[kept[j].slot].page : j \in DOMAIN kept})

-----------------------------------------------------------------------------
\* IndexedDB.

\* ensure_pinned_authority.
Authority == file[0] = tab.page0

Failed(t) == [t EXCEPT !.pc = "failed", !.pages = NoPages, !.segs = {}]

\* open_persistent_storage after a refused bounded open: an eager handle
\* retries with the complete image, a stale one fails there.
Refused(t) == IF t.mode = "eager" THEN [t EXCEPT !.pc = "eager", !.pages = NoPages, !.segs = {}] ELSE Failed(t)

Opened(t, f, l, paged) == [t EXCEPT !.pc = "open", !.pages = f, !.ledger = l, !.paged = paged, !.segs = {}]

Current(page0) == page0.k = "header" /\ from_bytes(page0).version \in {FORMAT_VERSION, PROJECTION_CATALOG_FILE_FORMAT_VERSION}

\* IndexedDbBackend::open pins page 0; then the version decides.
BrowserOpen(mode) ==
    /\ tab.pc = "closed"
    /\ image' = tab.now /\ opened' = file /\ answer' = Unread
    /\ LET t == [Tab("metadata", mode, tab.now) EXCEPT !.page0 = file[0]] IN
       IF Present(file, 0)
       THEN /\ tab' = IF file[0].k # "header" \/ (mode = "current" /\ ~validate(from_bytes(file[0]))) THEN Failed(t)
                      ELSE IF Current(file[0]) THEN t
                      ELSE IF mode = "current" THEN Failed(t)
                      ELSE [t EXCEPT !.pc = "eager"]
            /\ UNCHANGED <<file, synced>>
       ELSE IF Held(file) # {} THEN tab' = Failed(t) /\ UNCHANGED <<file, synced>>
       ELSE /\ file' = [file EXCEPT ![0] = FreshHeader] /\ synced' = file'
            /\ tab' = [Opened(t, file', Wired(FreshHeader, 1, Nothing, <<>>, {}, FALSE), mode # "eager")
                          EXCEPT !.page0 = FreshHeader]
    /\ UNCHANGED <<pc, plan, ledger, faults, losses>>

\* open_current_sparse_storage up to plan_resident_metadata: the catalog must
\* be there, manifests and projection catalogs may be missing.
LoadMetadata ==
    /\ tab.pc = "metadata"
    /\ LET plans == from_page0(tab.page0)
           b     == CHOOSE x \in plans : TRUE
           projections == projection_catalog_ranges(b)
           asked == required_ranges(b.e) \cup {b.e.slots[i].page : i \in ToSet(b.cands)}
                    \cup UNION projections
           got   == Resident(file, {0} \cup asked)
           kept  == plan_resident_metadata(b, got)
       IN  tab' = IF plans = {} \/ (asked # {} /\ ~Authority) THEN Refused(tab)
                  ELSE IF required_ranges(b.e) \subseteq Held(file) /\ projections # {} /\ kept # {}
                  THEN [tab EXCEPT !.pc = "segments", !.pages = got,
                                   !.segs = candidate_segment_ranges(CHOOSE k \in kept : TRUE)]
                  ELSE Refused(tab)
    /\ UNCHANGED native

\* Mutant: the segments are fetched as one range.
load_optional_exact_ranges_merged(S) == IF S \subseteq Held(file) THEN S ELSE {}

\* A missing page costs its own segment only.
load_optional_exact_ranges(S) == S \cap Held(file)

\* PersistentFactStorage::new over what is resident;
\* prefetch_eager_compatibility_pages adds the rest.
LoadSegments ==
    /\ tab.pc = "segments"
    /\ LET f == [p \in DOMAIN file |-> IF p \in load_optional_exact_ranges(tab.segs) THEN file[p]
                                        ELSE tab.pages[p]]
           l == load(f)
           reads == tab.segs # {} \/ tab.mode = "eager"
           all == [p \in DOMAIN file |-> IF Present(f, p) THEN f[p]
                                         ELSE IF p < f[0].pages THEN file[p] ELSE Absent]
       IN  tab' = IF (reads /\ ~Authority) \/ l.r # "ready" THEN Refused(tab)
                  ELSE Opened(tab, IF tab.mode = "eager" THEN all ELSE f, l.ledger, tab.mode # "eager")
    /\ UNCHANGED native

-----------------------------------------------------------------------------
\* open_eager_or_migrate_storage.

\* A migration of load, in the buffer.
Rebuilt(f, p) ==
    LET data == IF p.k = "base" THEN Put(f, p.first, BasePages(p)) ELSE f
        full == IF p.k = "empty" THEN data ELSE [data EXCEPT ![CatalogPage(p)] = Catalog(data, p)]
    IN  [full EXCEPT ![0] = NextHeader(full, p)]

\* recompact_visible_delta of an older format: {} when its facts cannot be read.
Recompacted(f, l) ==
    LET read == ScanFrom(f, l, 0, 0)
        p == [k |-> "base", facts |-> read.facts, first |-> f[0].pages, last |-> HighTx(read.facts),
              version |-> FORMAT_VERSION, gen |-> 1 + IF l.catalog.k = "none" THEN 0 ELSE l.catalog.gen]
    IN  IF read.k = "facts" THEN {Rebuilt(f, p)} ELSE {}

retain_declared_prefix(f) == Resident(f, 0..(f[0].pages - 1))

\* What the buffer holds when load, and for a paged handle the maintenance,
\* are done: {} refuses.
EagerImage(f, mode) ==
    LET Maintained(g, l) ==
            IF l.r # "ready" THEN {}
            ELSE IF mode = "paged" /\ from_bytes(g[0]).version < FORMAT_VERSION
            THEN {retain_declared_prefix(x) : x \in Recompacted(g, l.ledger)}
            ELSE {retain_declared_prefix(g)}
        Again(g) == Maintained(g, load(g))
        First(l) == IF l.r = "refuse" THEN {}
                    ELSE Again(IF l.r = "write" THEN Rebuilt(f, l.plan) ELSE f)
    IN  First(load(f))

OpenEager ==
    /\ tab.pc = "eager"
    /\ LET Migrating(f) == [tab EXCEPT !.pc = "migrate", !.pages = f,
                                       !.segs = {p \in DOMAIN f : f[p] # file[p] /\ Present(f, p)},
                                       !.ledger = load(f).ledger]
       IN  \E images \in {EagerImage(file, tab.mode)} :
               tab' = IF ~Authority \/ images = {} THEN Failed(tab)
                      ELSE Migrating(CHOOSE f \in images : TRUE)
    /\ UNCHANGED native

\* sparse_authority_pin_ids and configure_sparse_residency: {} refuses.
configure_sparse_authority(f) ==
    {authority_pin_ids(b, kept, f) :
        <<b, kept>> \in {x \in UNION {{b} \X plan_resident_metadata(b, f) : b \in from_page0(f[0])} :
                            /\ has_complete_page_prefix(f, f[0].pages) /\ Current(f[0])
                            /\ \A m \in load_usable_delta_selection(f, x[1].h, x[1].e) :
                                  m.k = "none" \/ \E j \in DOMAIN x[2] : x[2][j].m = m}}

\* The pages that were written go out in one transaction, which clears the
\* store first when the image became shorter; then a paged handle becomes
\* sparse.
FlushMigration ==
    /\ tab.pc = "migrate"
    /\ LET f     == tab.pages
           dirty == tab.segs
           clear == f[0].pages < Cardinality(Held(opened))
           pins  == configure_sparse_authority(f)
           pinned == IF dirty = {} THEN tab.page0 ELSE f[0]
       IN  IF dirty # {} /\ ~Authority THEN tab' = Failed(tab) /\ UNCHANGED <<file, synced>>
           ELSE /\ file' = IF dirty = {} THEN file
                           ELSE [p \in DOMAIN file |-> IF clear \/ p \in dirty THEN f[p] ELSE file[p]]
                /\ synced' = file'
                /\ tab' = IF tab.mode = "eager" THEN [Opened(tab, f, tab.ledger, FALSE) EXCEPT !.page0 = pinned]
                          ELSE IF pins = {} THEN Failed(tab)
                          ELSE [Opened(tab, Resident(f, CHOOSE S \in pins : TRUE), tab.ledger, TRUE)
                                   EXCEPT !.page0 = pinned]
    /\ UNCHANGED <<image, opened, pc, plan, ledger, answer, faults, losses>>

-----------------------------------------------------------------------------
\* Reads and export.

\* A paged handle fetches the base pages it needs; each await checks page 0.
Visible ==
    [p \in DOMAIN file |-> IF Present(tab.pages, p) \/ ~tab.paged THEN tab.pages[p] ELSE file[p]]

BrowserRead ==
    /\ tab.pc = "open" /\ answer = Unread
    /\ answer' \in IF tab.paged /\ ~Authority /\ tab.ledger.count > 0 THEN {ReadFails(0)}
                   ELSE {ScanFrom(Visible, tab.ledger, 0, 0), IndexScan(Visible, tab.ledger)}
    /\ UNCHANGED <<image, file, synced, opened, pc, plan, ledger, faults, losses, tab>>

\* verify_browser_published_page_bytes.
PublishedOk(p, page) ==
    LET c == tab.ledger.catalog IN
    /\ p < tab.pages[0].pages
    /\ p = 0 => page = tab.pages[0]
    /\ c.k = "catalog" /\ p \in c.start..(c.start + Len(c.sums) - 1) => verify_page(c, p, page)

\* begin_browser_export_verification: the pages whose bytes this handle
\* validated, {} when one of them is not resident.
ExactResident ==
    LET h == from_bytes(tab.pages[0])
        e == CHOOSE x \in read_from_page0(h) : TRUE
        selected == {i \in 1..2 : \E m \in load_usable_delta_selection(tab.pages, h, e) :
                                     m.k # "none" /\ e.slots[i].page > 0 /\ tab.pages[e.slots[i].page] = m}
        exact == required_ranges(e) \cup {e.slots[i].page : i \in selected}
                 \cup UNION {SegmentPages(tab.pages[e.slots[i].page]) : i \in selected}
    IN  IF exact \subseteq Held(tab.pages) THEN {exact} ELSE {}

\* export_graph of an eager handle, export_graph_async of a paged one.
BeginExport ==
    /\ tab.pc = "open"
    /\ tab' = IF tab.paged
              THEN IF ExactResident = {} THEN tab
                   ELSE [tab EXCEPT !.pc = "export", !.next = 0, !.exact = CHOOSE x \in ExactResident : TRUE]
              ELSE IF /\ has_complete_page_prefix(tab.pages, tab.pages[0].pages)
                      /\ \A p \in 0..(tab.pages[0].pages - 1) : PublishedOk(p, tab.pages[p])
              THEN [tab EXCEPT !.pc = "exported", !.blob = retain_declared_prefix(tab.pages)]
              ELSE tab
    /\ UNCHANGED native

\* Mutant: only what the catalog covers is verified.
ExportedOkCovered(p) == Present(file, p) /\ PublishedOk(p, file[p])

\* verify_browser_export_batch for one page.
ExportedOk(p) ==
    /\ Present(file, p) /\ PublishedOk(p, file[p])
    /\ p \in tab.exact => file[p] = tab.pages[p]

ExportGraph ==
    /\ tab.pc = "export"
    /\ LET end == tab.pages[0].pages
           S   == {p \in tab.next..(tab.next + ExportBatch - 1) : p < end}
           t   == [tab EXCEPT !.blob = [p \in DOMAIN @ |-> IF p \in S THEN file[p] ELSE @[p]],
                              !.next = @ + Cardinality(S)]
       IN  tab' = IF ~Authority \/ \E p \in S : ~ExportedOk(p)
                  THEN [tab EXCEPT !.pc = "open", !.next = 0, !.exact = {}, !.blob = NoPages]
                  ELSE IF t.next < end THEN t
                  ELSE [t EXCEPT !.pc = "exported", !.next = 0, !.exact = {}]
    /\ UNCHANGED native

CloseTab ==
    /\ tab.pc \in {"open", "exported", "failed"}
    /\ tab' = Tab("closed", "paged", tab.now)
    /\ answer' = Unread
    /\ UNCHANGED <<image, file, synced, opened, pc, plan, ledger, faults, losses>>

-----------------------------------------------------------------------------
\* Around the handle.

\* Another tab publishes: every record of the store is replaced.
OtherTab ==
    /\ tab.pc # "closed" /\ tab.now \notin Others
    /\ \E o \in Others :
          /\ file' = o.file /\ synced' = o.file
          /\ tab' = [tab EXCEPT !.now = o]
    /\ UNCHANGED <<image, opened, pc, plan, ledger, answer, faults, losses>>

\* A record is lost.
Missing ==
    /\ Len(faults) < MaxFaults /\ image.protected
    /\ \E p \in Held(file) : file' = [file EXCEPT ![p] = Absent]
    /\ synced' = file' /\ faults' = Append(faults, "missing")
    /\ UNCHANGED <<image, opened, pc, plan, ledger, answer, losses, tab>>

BrowserNext ==
    \/ \E mode \in {"paged", "current", "eager"} : BrowserOpen(mode)
    \/ LoadMetadata \/ LoadSegments \/ OpenEager \/ FlushMigration
    \/ BrowserRead \/ BeginExport \/ ExportGraph \/ CloseTab
    \/ OtherTab \/ Missing
    \/ Damage /\ UNCHANGED tab

BootInit == Init /\ tab \in {Off} \cup (IF image \in Stored THEN {Tab("closed", "paged", image)} ELSE {})
BootNext == \/ tab = Off /\ Next /\ UNCHANGED tab
            \/ tab # Off /\ BrowserNext
BootSpec == BootInit /\ [][BootNext]_bvars

-----------------------------------------------------------------------------
\* Properties.

\* An image that the bounded open leaves to the eager one.
Unsupported(f) ==
    LET h == from_bytes(f[0]) IN
    \E i \in 1..2 : is_selectable(h.ext.slots[i]) /\ Oversized(h.ext.slots[i])

\* At every moment of a migration, whatever part of the unsynced pages a power
\* failure keeps, the file that is left opens and holds the log that was
\* migrated: page 0 is published after everything it names.  A browser
\* replaces the image in one transaction and never over another tab's.
MigrationSurvives ==
    faults = <<>> => \A f \in Survivors : Holds(f) = {IF tab = Off THEN image.log ELSE tab.now.log}

\* A bounded open comes to the same result as a load of the complete image
\* whose page 0 it pinned: it wires up the same base, catalog, delta and
\* projections, so it never shows an older manifest than a native open would,
\* and never pages that another tab published between its awaits; and it
\* refuses what load accepts only when the image changed or its metadata is
\* beyond the limit (plan_resident_metadata, open_current_sparse_storage).
SparseOpenAgrees ==
    [][LET l == load(opened)
           same == file = opened IN
       /\ tab.pc = "metadata" /\ tab'.pc \in {"failed", "eager"} /\ same =>
             l.r # "ready" \/ Unsupported(file)
       /\ tab.pc = "segments" /\ tab'.pc \in {"failed", "eager"} /\ same => l.r # "ready"
       /\ tab.pc = "segments" /\ tab'.pc = "open" /\ (same \/ faults = <<>>) =>
             l.r = "ready" /\ tab'.ledger = l.ledger]_bvars

\* A finished export is a file that opens natively and holds exactly what the
\* exporting handle shows, a published state of the image it was opened on:
\* neither a record that rotted nor another tab's publication between two
\* batches gets into it (begin_browser_export_verification,
\* verify_browser_export_batch).
ExportOpens ==
    tab # Off /\ tab.pc = "exported" /\ faults # <<"version">> =>
        LET shown == ScanFrom(tab.blob, tab.ledger, 0, 0)
        IN  /\ shown.k = "facts"
            /\ Holds(tab.blob) = {shown.facts}
            /\ \E c \in Shown : shown.facts = SubSeq(image.log, 1, c)
=============================================================================
