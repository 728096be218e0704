------------------------------- MODULE Formats -------------------------------
(***************************************************************************)
(* The .graph file formats 1 to 13 as the loader reads them: page 0 with   *)
(* its extension, packed and one-per-page fact pages, the integrity        *)
(* catalog, delta segments and manifests, projection catalogs              *)
(* (src/storage/).                                                         *)
(*                                                                         *)
(* A file is a function from page numbers to pages.  A page is a record    *)
(* whose field k is its page type; "absent" lies past the end of the file  *)
(* and "zero" is a hole.  A structure takes one page, the four index roots *)
(* one root, and a checksum is the content it covers.  A fact is           *)
(* [x, id, tc, vf, on]: its triple, wall-clock transaction id, transaction *)
(* count, start of validity and whether it asserts.  Version 1 facts have  *)
(* only x, id and on.                                                      *)
(***************************************************************************)
EXTENDS Integers, Sequences, FiniteSets, SequencesExt

CONSTANTS MaxPage,    \* last page number of the model
          PerPage     \* facts a packed page takes

ASSUME FormatBounds == MaxPage \in Nat /\ PerPage \in Nat \ {0}

FORMAT_VERSION == 12
INTEGRITY_FORMAT_VERSION == 11
PROJECTION_CATALOG_FILE_FORMAT_VERSION == 13
RETRACT_ALL_VALID_FROM == -1

Absent == [k |-> "absent"]
Zero == [k |-> "zero"]
Nothing == [k |-> "none"]
NoCrc == <<>>

Present(file, p) == p \in 0..MaxPage /\ file[p].k # "absent"
has_complete_page_prefix(file, n) == \A p \in 0..(n - 1) : Present(file, p)
Span(file, first, n) == [i \in 1..n |-> file[first + i - 1]]
Readable(file, first, n) == \A i \in 0..(n - 1) : Present(file, first + i)

\* compute_page_checksum of a range of pages, and the v4 checksum of facts.
PageSum(file, first, n) == [k |-> "pages", span |-> Span(file, first, n)]
compute_index_checksum(facts) == [k |-> "facts", of |-> ToSet(facts)]

-----------------------------------------------------------------------------
\* Packed fact pages.

Packed(facts) == [k |-> "packed", rows |-> facts]

\* Facts in order, a new page when the current one is full; the last page is
\* written even when it is empty.
pack_facts(facts) ==
    LET n == IF facts = <<>> THEN 1 ELSE (Len(facts) + PerPage - 1) \div PerPage
    IN  [i \in 1..n |-> Packed(SubSeq(facts, (i - 1) * PerPage + 1,
                                      IF i * PerPage < Len(facts) THEN i * PerPage ELSE Len(facts)))]

AllPacked(file, first, n) ==
    \A i \in 0..(n - 1) : Present(file, first + i) /\ file[first + i].k = "packed"

read_all_from_pages(file, first, n) == FlattenSeq([i \in 1..n |-> file[first + i - 1].rows])

\* The page maximum, or no answer for an empty or foreign page.
last_tx_count(page) ==
    IF page.k # "packed" \/ page.rows = <<>> THEN {} ELSE {Last(page.rows).tc}

FactRefs(pages, start) ==
    FlattenSeq([i \in DOMAIN pages |-> [j \in DOMAIN pages[i].rows |-> <<start + i - 1, j>>]])

-----------------------------------------------------------------------------
\* Page 0.

HeaderBytes(h) == <<h.version, h.pages, h.nodes, h.last, h.root, h.sum, h.fmt, h.count>>

\* FileHeader::from_bytes: a field the version did not have reads as zero.
from_bytes(h) ==
    [h EXCEPT !.root  = IF h.version <= 3 THEN 0 ELSE @,
              !.sum   = IF h.version <= 3 THEN Nothing ELSE @,
              !.fmt   = IF h.version <= 3 THEN 0 ELSE @,
              !.count = IF h.version <= 5 THEN 0 ELSE @,
              !.crc   = IF h.version <= 6 THEN NoCrc ELSE @]

validate(h) ==
    /\ h.version \in 1..13
    /\ h.pages > 0
    /\ h.root < h.pages
    /\ h.count <= h.pages

\* A slot of page 0 that names a page: a manifest or a projection catalog.
EmptySlot == [gen |-> 0, page |-> 0, sum |-> Nothing, crc |-> NoCrc]
SlotBytes(s) == <<s.gen, s.page, s.sum>>
Slot(gen, page, content) == [gen |-> gen, page |-> page, sum |-> content, crc |-> <<gen, page, content>>]
is_empty(s) == s.gen = 0 /\ s.page = 0 /\ s.sum.k = "none" /\ s.crc = NoCrc
is_selectable(s) == s.gen > 0 /\ s.page > 0 /\ s.crc = SlotBytes(s)

EmptyIntegrity == [gen |-> 0, start |-> 0, covered |-> 0, page |-> 0, sum |-> Nothing, crc |-> NoCrc]
IntegrityBytes(d) == <<d.gen, d.start, d.covered, d.page, d.sum>>
IntegrityEmpty(d) == d.covered = 0 /\ d.page = 0 /\ d.gen = 0 /\ d.start = 0 /\ d.crc = NoCrc

\* BasePageIntegrityDescriptor::validate_layout.
validate_layout(d) ==
    /\ d.gen > 0 /\ d.start > 0 /\ d.covered > 0
    /\ d.page >= d.start + d.covered

Magic(v) == IF v = 10 THEN 1 ELSE IF v <= 12 THEN 2 ELSE 3

Extension(v, slots, start, integrity, projections) ==
    [k |-> "ext", magic |-> Magic(v), ver |-> v, slots |-> slots,
     start |-> start, startCrc |-> <<start>>,
     integrity |-> integrity, projections |-> projections]

NoSlots == <<EmptySlot, EmptySlot>>

\* What read_from_page0 hands on: {} refuses, {Nothing} is a format without
\* an extension.  Two zero fields are the tail of an early v10 file.
read_from_page0(h) ==
    LET e == h.ext
        start == IF e.start = 0 /\ e.startCrc = NoCrc THEN 1 ELSE e.start
        seen == [e EXCEPT !.start = start,
                          !.integrity = IF h.version < 11 THEN EmptyIntegrity ELSE @,
                          !.projections = IF h.version < 13 THEN NoSlots ELSE @]
    IN  IF h.version < 10 THEN {Nothing}
        ELSE IF \/ e.k = "none"
                \/ e.magic # Magic(h.version) \/ e.ver # h.version
                \/ e.startCrc \notin {<<start>>, NoCrc}
                \/ e.startCrc = NoCrc /\ e.start # 0
                \/ /\ ~IntegrityEmpty(seen.integrity)
                   /\ \/ seen.integrity.crc # IntegrityBytes(seen.integrity)
                      \/ ~validate_layout(seen.integrity)
                      \/ seen.integrity.start # start
             THEN {}
             ELSE {seen}

-----------------------------------------------------------------------------
\* The base: integrity catalog and legacy ranges.

PageChecksum(gen, p, page) == [gen |-> gen, p |-> p, page |-> page]

BasePageIntegrityCatalog(file, gen, start, n) ==
    [k |-> "catalog", gen |-> gen, start |-> start,
     sums |-> [i \in 1..n |-> PageChecksum(gen, start + i - 1, file[start + i - 1])]]

\* A covered page is used only as the catalog knows it.
verify_page(catalog, p, page) ==
    /\ p \in catalog.start..(catalog.start + Len(catalog.sums) - 1)
    /\ catalog.sums[p - catalog.start + 1] = PageChecksum(catalog.gen, p, page)

\* validate_v11_base_integrity_descriptor for a protected base.
DescriptorFits(h, e) ==
    LET d == e.integrity IN
    /\ d.page + 1 <= h.pages
    /\ e.start + h.count <= d.start + d.covered
    /\ h.count > 0
    /\ h.root \in d.start..(d.start + d.covered - 1)

\* ... and for an empty one.
CanonicalEmpty(h, e) ==
    /\ h.count = 0 /\ h.nodes = 0 /\ h.root = 0 /\ e.start = 1
    /\ \/ h.pages = 1
       \/ /\ h.version >= PROJECTION_CATALOG_FILE_FORMAT_VERSION
          /\ \E i \in 1..2 : ~is_empty(e.projections[i])
          /\ \A i \in 1..2 : is_selectable(e.projections[i]) => e.projections[i].page + 1 <= h.pages

\* read_base_integrity_catalog.
CatalogIntact(file, d) ==
    /\ Present(file, d.page)
    /\ file[d.page].k = "catalog"
    /\ d.sum = file[d.page]
    /\ file[d.page].gen = d.gen /\ file[d.page].start = d.start
    /\ Len(file[d.page].sums) = d.covered

\* load_v11_base_integrity: the catalog if any, {} for a refusal.
load_v11_base_integrity(file, h, e) ==
    IF IntegrityEmpty(e.integrity)
    THEN IF CanonicalEmpty(h, e) THEN {Nothing} ELSE {}
    ELSE IF DescriptorFits(h, e) /\ CatalogIntact(file, e.integrity)
         THEN {file[e.integrity.page]} ELSE {}

\* The end of the facts of a one-per-page image, if its fields agree.
legacy_one_per_page_fact_end(h) ==
    LET end == IF h.root > 0 THEN h.root ELSE h.pages
    IN  IF end > h.pages \/ end # h.nodes + 1 THEN {} ELSE {end}

-----------------------------------------------------------------------------
\* Delta segments and manifests.

Txs(facts) == {facts[i].tc : i \in DOMAIN facts}
LowTx(facts) == IF facts = <<>> THEN 0 ELSE CHOOSE n \in Txs(facts) : \A m \in Txs(facts) : n <= m
HighTx(facts) == IF facts = <<>> THEN 0 ELSE CHOOSE n \in Txs(facts) : \A m \in Txs(facts) : m <= n

\* DeltaSegment::from_facts and encode: facts keep the references they would
\* have as packed pages from the segment's first page on.
SegmentBody(s) == <<s.start, s.low, s.high, s.refs, s.facts>>
Segment(facts, start) ==
    LET refs == FactRefs(pack_facts(facts), start)
    IN  [k |-> "segment", start |-> start, low |-> LowTx(facts), high |-> HighTx(facts),
         refs |-> refs, facts |-> facts,
         crc |-> <<start, LowTx(facts), HighTx(facts), refs, facts>>, marker |-> TRUE]

\* DeltaSegment::decode and validate.
SegmentIntact(s) ==
    /\ s.k = "segment" /\ s.marker /\ s.crc = SegmentBody(s)
    /\ Len(s.refs) = Len(s.facts)
    /\ s.low = LowTx(s.facts) /\ s.high = HighTx(s.facts)
    /\ \A i \in DOMAIN s.refs : s.refs[i][1] >= s.start
    /\ \A i, j \in DOMAIN s.refs : i # j => s.refs[i] # s.refs[j]

SegmentEntry(page, s) == [page |-> page, start |-> s.start, low |-> s.low, high |-> s.high]

BaseIdentity(h) == [pages |-> h.pages, count |-> h.count, last |-> h.last, sum |-> h.sum, root |-> h.root]

\* DeltaBaseIdentity::validate_against_header.
BaseMatches(b, h) ==
    /\ b.pages <= h.pages /\ b.last <= h.last
    /\ b.count = h.count /\ b.sum = h.sum /\ b.root = h.root

ManifestBody(m) == <<m.gen, m.base, m.segs>>
Manifest(gen, base, segs) ==
    [k |-> "manifest", gen |-> gen, base |-> base, segs |-> segs,
     crc |-> <<gen, base, segs>>, marker |-> TRUE]

\* DeltaManifest::decode and validate.
ManifestIntact(m) ==
    /\ m.k = "manifest" /\ m.marker /\ m.crc = ManifestBody(m)
    /\ m.segs # <<>> => m.base.last < m.segs[1].low
    /\ \A i \in DOMAIN m.segs : m.segs[i].low <= m.segs[i].high
    /\ \A i \in 1..(Len(m.segs) - 1) : /\ m.segs[i].high < m.segs[i + 1].low
                                       /\ m.segs[i].page < m.segs[i + 1].page

read_manifest_from_descriptor(file, h, slot) ==
    IF /\ slot.page + 1 <= h.pages /\ Present(file, slot.page)
       /\ slot.sum = file[slot.page] /\ ManifestIntact(file[slot.page])
       /\ file[slot.page].gen = slot.gen
    THEN {file[slot.page]} ELSE {}

SegmentReadable(file, h, entry) ==
    /\ entry.page + 1 <= h.pages /\ Present(file, entry.page)
    /\ SegmentIntact(file[entry.page])
    /\ file[entry.page].start = entry.start
    /\ file[entry.page].low = entry.low /\ file[entry.page].high = entry.high

\* Slots of page 0, newest generation first, the primary on a tie.
Newest(slots) == IF slots[1].gen >= slots[2].gen THEN <<1, 2>> ELSE <<2, 1>>

\* load_usable_delta_selection: the manifest in use, no manifest, or {} when
\* recovery is required.
load_usable_delta_selection(file, h, e) ==
    IF e.k = "none" THEN {Nothing}
    ELSE LET slots  == e.slots
             tried  == SelectSeq(Newest(slots), LAMBDA i : is_selectable(slots[i]))
             Usable(i) == \E m \in read_manifest_from_descriptor(file, h, slots[i]) :
                             \A j \in DOMAIN m.segs : SegmentReadable(file, h, m.segs[j])
             usable == SelectSeq(tried, Usable)
         IN  IF tried = <<>>
             THEN IF \A i \in 1..2 : is_empty(slots[i]) THEN {Nothing} ELSE {}
             ELSE IF usable = <<>> THEN {}
             ELSE read_manifest_from_descriptor(file, h, slots[usable[1]])

SegmentFacts(file, m) ==
    IF m.k = "none" THEN <<>> ELSE FlattenSeq([j \in DOMAIN m.segs |-> file[m.segs[j].page].facts])

-----------------------------------------------------------------------------
\* Projection catalogs.

\* An entry is the page of a projection image and the facts it was built of.
ProjectionCatalog(gen, identity, entries) ==
    [k |-> "projections", gen |-> gen, identity |-> identity, entries |-> entries,
     crc |-> <<gen, identity, entries>>]

\* validate_projection_catalog_layout: images lie before their catalog.
LayoutValid(catalog, slot) ==
    /\ \A i \in DOMAIN catalog.entries : catalog.entries[i].page \in 1..(slot.page - 1)
    /\ \A i, j \in DOMAIN catalog.entries : i # j => catalog.entries[i].page # catalog.entries[j].page

persisted_projection_identity(h, catalog, m) ==
    LET gen == IF catalog.k = "none" THEN 0 ELSE catalog.gen
    IN  IF m.k = "none" THEN <<gen, 0, h.last>>
        ELSE LET high == IF m.segs = <<>> THEN 0 ELSE Last(m.segs).high
             IN  <<gen, m.gen, IF h.last > high THEN h.last ELSE high>>

CandidateUsableAnyLedger(file, h, slot, identity) ==
    /\ is_selectable(slot)
    /\ slot.page + 1 <= h.pages /\ Present(file, slot.page)
    /\ file[slot.page].k = "projections"
    /\ slot.sum = file[slot.page]
    /\ file[slot.page].gen = slot.gen

\* A catalog written for another ledger is passed over.
CandidateUsable(file, h, slot, identity) ==
    /\ is_selectable(slot)
    /\ slot.page + 1 <= h.pages /\ Present(file, slot.page)
    /\ file[slot.page].k = "projections"
    /\ slot.sum = file[slot.page]
    /\ file[slot.page].crc = <<file[slot.page].gen, file[slot.page].identity, file[slot.page].entries>>
    /\ file[slot.page].gen = slot.gen
    /\ file[slot.page].identity = identity
    /\ LayoutValid(file[slot.page], slot)

load_projection_catalog_candidates(file, h, e, identity) ==
    IF h.version < PROJECTION_CATALOG_FILE_FORMAT_VERSION THEN {}
    ELSE {file[e.projections[i].page] :
             i \in {j \in 1..2 : CandidateUsable(file, h, e.projections[j], identity)}}
=============================================================================
