------------------------------ MODULE ImageOpen -------------------------------
(***************************************************************************)
(* Opening a .graph file of any format: FileBackend::open, then            *)
(* PersistentFactStorage::load with its migrations, then reads of the      *)
(* committed facts (src/storage/persistent_facts.rs, backend/file.rs).     *)
(*                                                                         *)
(* The file may have been damaged on its medium before it is opened, and   *)
(* power may fail during a migration: pages written since the last sync    *)
(* are then kept or lost one by one.  A write of page 0 is atomic.         *)
(***************************************************************************)
EXTENDS Formats

CONSTANTS Images,      \* the files to open: [file, log, cuts, protected]
          MaxFaults,   \* damaged fields or pages
          MaxLosses    \* power failures

VARIABLES image,       \* the member of Images that was written
          file,        \* the file as the process sees it
          synced,      \* what is on the medium for certain
          opened,      \* the file when this open began
          pc,          \* "closed", "data", "catalog", "page0", "publish", "open", "refused"
          plan,        \* what a migration is writing
          ledger,      \* what load wired up
          answer,      \* [k, since, facts] of the last read
          faults, losses

vars == <<image, file, synced, opened, pc, plan, ledger, answer, faults, losses>>

Unread == [k |-> "unread", since |-> 0, facts |-> <<>>]
NoPlan == [k |-> "none"]
NoLedger == [k |-> "none"]

-----------------------------------------------------------------------------
\* load.

Refuse == [r |-> "refuse"]

\* wire_committed_readers: where the base is, its catalog, the delta facts.
Wired(h, start, catalog, delta, candidates, blocked) ==
    [k |-> "ledger", start |-> start, count |-> h.count, root |-> h.root, catalog |-> catalog,
     delta |-> delta, candidates |-> candidates, blocked |-> blocked]

Ready(l) == [r |-> "ready", ledger |-> l]

\* A new base with these facts written from page first on.
Rewrite(facts, first, last, version) ==
    [r |-> "write", plan |-> [k |-> "base", facts |-> facts, first |-> first, last |-> last, version |-> version,
                              gen |-> 1]]

normalize_legacy_retractions(facts) ==
    [i \in DOMAIN facts |-> IF facts[i].on THEN facts[i]
                            ELSE [facts[i] EXCEPT !.vf = RETRACT_ALL_VALID_FROM]]

Greater(a, b) == IF a > b THEN a ELSE b

\* publish_legacy_facts_as_v11: copy-on-write behind the legacy image.
publish_legacy_facts_as_v11(f, h, read) ==
    LET facts == IF h.version < 9 THEN normalize_legacy_retractions(read) ELSE read
    IN  IF Len(facts) # h.nodes \/ ~has_complete_page_prefix(f, h.pages) THEN Refuse
        ELSE Rewrite(facts, h.pages, Greater(HighTx(facts), h.last), Greater(h.version, FORMAT_VERSION))

\* migrate_v1_to_v2: sorted by transaction id, one count for each id.
Migrated(old) ==
    LET order == SetToSortSeq(DOMAIN old, LAMBDA i, j : old[i].id < old[j].id \/ (old[i].id = old[j].id /\ i < j))
        Count(i) == Cardinality({old[j].id : j \in {x \in DOMAIN old : old[x].id <= old[i].id}})
        Fact(o, n) == [x |-> o.x, id |-> o.id, tc |-> n, on |-> o.on,
                       vf |-> IF o.on THEN o.id ELSE RETRACT_ALL_VALID_FROM]
    IN  [i \in DOMAIN order |-> Fact(old[order[i]], Count(order[i]))]

\* One-per-page images: v1, and v2 to v4 by their page format.
OnePerPage(f, h, kind) ==
    \E end \in legacy_one_per_page_fact_end(h) :
        \A p \in 1..(end - 1) : Present(f, p) /\ f[p].k = kind

migrate_v1_to_v2(f, h) ==
    IF OnePerPage(f, h, "v1")
    THEN publish_legacy_facts_as_v11(f, h, Migrated([p \in 1..h.nodes |-> f[p].old]))
    ELSE Refuse

read_one_per_page_legacy(f, h) ==
    IF ~OnePerPage(f, h, "one") THEN Refuse
    ELSE LET facts == [p \in 1..h.nodes |-> f[p].row]
         IN  IF h.version = 4 /\ compute_index_checksum(facts) # h.sum THEN Refuse
             ELSE publish_legacy_facts_as_v11(f, h, facts)

FirstIndexPage(h) == IF h.root > 0 THEN h.root ELSE h.pages

migrate_v5_to_v6(f, h) ==
    LET n == FirstIndexPage(h) - 1
    IN  IF \/ n = 0 /\ (h.nodes > 0 \/ h.root > 0)
           \/ ~Readable(f, 1, n)
           \/ n > 0 /\ PageSum(f, 1, n) # h.sum
           \/ ~AllPacked(f, 1, n)
        THEN Refuse
        ELSE publish_legacy_facts_as_v11(f, h, read_all_from_pages(f, 1, n))


\* v6 to v9: either legacy checksum rule, then the facts.
LegacyPacked(f, h, n) ==
    LET full == h.pages - 1
    IN  IF \/ n = 0 /\ (h.nodes > 0 \/ h.root > 0)
           \/ ~Readable(f, 1, n)
           \/ /\ n > 0 /\ PageSum(f, 1, n) # h.sum
              /\ ~Readable(f, 1, full) \/ PageSum(f, 1, full) # h.sum
           \/ ~AllPacked(f, 1, n)
        THEN Refuse
        ELSE publish_legacy_facts_as_v11(f, h, read_all_from_pages(f, 1, n))

\* migrate_v10_to_v11: {} refuses, {Nothing} keeps the v10 file read-only,
\* a plan appends the catalog and then publishes page 0.
migrate_v10_to_v11(f, h, e, m) ==
    LET end     == IF m.k = "none" THEN h.pages ELSE m.base.pages
        covered == end - e.start
        intact  == Readable(f, e.start, covered) /\ PageSum(f, e.start, covered) = h.sum
        canonical == /\ e.start = 1 /\ h.count = 0 /\ h.nodes = 0 /\ h.root = 0
                     /\ m.k = "none" \/ m.segs = <<>>
    IN  IF end < e.start THEN {}
        ELSE IF covered = 0 THEN IF canonical THEN {[k |-> "empty", h |-> h, gen |-> 1]} ELSE {}
        ELSE IF ~intact THEN {}
        ELSE IF ~has_complete_page_prefix(f, h.pages) THEN {Nothing}
        ELSE {[k |-> "upgrade", h |-> h, e |-> e, covered |-> covered, gen |-> 1]}

\* Is an unprotected v10 base to be indexed again?
ChecksumsFail(f, h, start, n) ==
    /\ ~Readable(f, start, h.pages - start) \/ PageSum(f, start, h.pages - start) # h.sum
    /\ ~Readable(f, start, n) \/ PageSum(f, start, n) # h.sum

\* The rest of load, once the delta selection and a v10 upgrade are settled.
LoadBase(f, h, e, catalog, m, blocked) ==
    LET start   == IF e.k = "none" THEN 1 ELSE e.start
        n       == IF h.version >= 10 \/ (h.version >= 6 /\ h.count > 0) THEN h.count ELSE FirstIndexPage(h) - 1
        hasSegs == m.k # "none" /\ m.segs # <<>>
        upgrade == h.version < INTEGRITY_FORMAT_VERSION /\ ~blocked
        rebuild == IF upgrade /\ n > 0 THEN TRUE
                   ELSE IF n = 0 \/ h.root = 0 THEN n > 0
                   ELSE IF h.version >= INTEGRITY_FORMAT_VERSION THEN FALSE
                   ELSE ChecksumsFail(f, h, start, n)
        read    == read_all_from_pages(f, start, n)
        facts   == IF h.version < 9 THEN normalize_legacy_retractions(read) ELSE read
        found   == load_projection_catalog_candidates(f, h, e, persisted_projection_identity(h, catalog, m))
    IN  IF h.fmt \in {0, 1} THEN read_one_per_page_legacy(f, h)
        ELSE IF h.version \in 6..9 THEN LegacyPacked(f, h, n)
        ELSE IF hasSegs /\ (upgrade \/ h.root = 0 \/ ~BaseMatches(m.base, h)) THEN Refuse
        ELSE IF hasSegs \/ ~rebuild
        THEN Ready(Wired(h, start, catalog, SegmentFacts(f, m), found, blocked))
        ELSE IF AllPacked(f, start, n) THEN Rewrite(facts, 1, HighTx(facts), FORMAT_VERSION)
        ELSE Refuse

\* A v10 file is upgraded first, or kept as it is if it cannot be written to.
LoadSelected(f, h, e, catalog, m) ==
    LET Upgraded(steps) == IF steps = {} THEN Refuse
                           ELSE IF steps = {Nothing} THEN LoadBase(f, h, e, catalog, m, TRUE)
                           ELSE [r |-> "write", plan |-> CHOOSE p \in steps : TRUE]
    IN  IF h.version # 10 THEN LoadBase(f, h, e, catalog, m, FALSE)
        ELSE Upgraded(migrate_v10_to_v11(f, h, e, m))

\* load once page 0 and its extension e are read.
LoadExtended(f, h, e) ==
    LET start == IF e.k = "none" THEN 1 ELSE e.start
        Selection(catalogs, manifests) ==
            IF catalogs = {} \/ manifests = {} THEN Refuse
            ELSE LoadSelected(f, h, e, CHOOSE c \in catalogs : TRUE, CHOOSE m \in manifests : TRUE)
    IN  IF h.count > 0 /\ (start = 0 \/ start >= h.pages) THEN Refuse
        ELSE Selection(IF h.version >= INTEGRITY_FORMAT_VERSION THEN load_v11_base_integrity(f, h, e)
                       ELSE {Nothing},
                       load_usable_delta_selection(f, h, e))

\* The checks before it, in the order load makes them.
load(f) ==
    LET Extended(h, found) ==
            IF found = {} THEN Refuse ELSE LoadExtended(f, h, CHOOSE e \in found : TRUE)
        Loaded(h) ==
            IF f[0].k # "header" \/ ~validate(h) THEN Refuse
            ELSE IF h.version < 2 THEN migrate_v1_to_v2(f, h)
            ELSE IF h.version = 5 THEN migrate_v5_to_v6(f, h)
            ELSE IF h.version >= 7 /\ h.crc # NoCrc /\ h.crc # HeaderBytes(h) THEN Refuse
            ELSE Extended(h, read_from_page0(h))
    IN  Loaded(from_bytes(f[0]))

-----------------------------------------------------------------------------
\* Reads of the committed facts.

\* MutexStorageBackend::read_page: what the catalog covers is verified.
PageOk(f, l, p) == Present(f, p) /\ (l.catalog.k = "none" \/ verify_page(l.catalog, p, f[p]))

Answer(kind, since, facts) == [k |-> kind, since |-> since, facts |-> facts]
ReadFails(since) == Answer("error", since, <<>>)

After(facts, since) == SelectSeq(facts, LAMBDA fact : fact.tc > since)

\* for_each_from_pages over the fact pages from offset lo on, then the delta.
ScanFrom(f, l, lo, since) ==
    IF \A i \in lo..(l.count - 1) : PageOk(f, l, l.start + i) /\ f[l.start + i].k = "packed"
    THEN Answer("facts", since,
                After(read_all_from_pages(f, l.start + lo, l.count - lo) \o l.delta, since))
    ELSE ReadFails(since)

\* The first page whose maximum is beyond since, by bisection; -1 is an
\* unreadable page and -2 one without a maximum.
FirstTailPage(f, l, since) ==
    LET probe[lo \in 0..l.count, hi \in 0..l.count] ==
            IF lo >= hi THEN lo
            ELSE LET mid  == lo + (hi - lo) \div 2
                     page == f[l.start + mid]
                 IN  IF ~PageOk(f, l, l.start + mid) THEN -1
                     ELSE IF last_tx_count(page) = {} THEN -2
                     ELSE IF \E n \in last_tx_count(page) : n > since THEN probe[lo, mid]
                     ELSE probe[mid + 1, hi]
    IN  probe[0, l.count]

for_each_fact_since(f, l, since) ==
    LET lo == FirstTailPage(f, l, since)
    IN  IF lo = -1 THEN ReadFails(since)
        ELSE ScanFrom(f, l, IF lo = -2 THEN 0 ELSE lo, since)

\* A scan of an index: every reference is resolved through read_slot.
IndexScan(f, l) ==
    LET refs == IF l.root = 0 THEN <<>> ELSE f[l.root].refs
        Resolves(ref) == /\ PageOk(f, l, ref[1]) /\ f[ref[1]].k = "packed"
                         /\ ref[2] \in DOMAIN f[ref[1]].rows
    IN  IF l.root # 0 /\ (~PageOk(f, l, l.root) \/ f[l.root].k # "index") THEN ReadFails(0)
        ELSE IF \A i \in DOMAIN refs : Resolves(refs[i])
        THEN Answer("index", 0, [i \in DOMAIN refs |-> f[refs[i][1]].rows[refs[i][2]]] \o l.delta)
        ELSE ReadFails(0)

-----------------------------------------------------------------------------
\* What a migration writes.

NewPages(p) == pack_facts(p.facts)

\* Fact pages, then the index.
BasePages(p) ==
    LET pages == NewPages(p)
    IN  [i \in 1..(Len(pages) + 1) |->
            IF i <= Len(pages) THEN pages[i] ELSE [k |-> "index", refs |-> FactRefs(pages, p.first)]]

Put(f, first, pages) ==
    [q \in DOMAIN f |-> IF q \in first..(first + Len(pages) - 1) THEN pages[q - first + 1] ELSE f[q]]

\* Where write_base_integrity_catalog puts the catalog, and what it covers.
Covered(p) == IF p.k = "base" THEN Len(NewPages(p)) + 1 ELSE p.covered
CoveredStart(p) == IF p.k = "base" THEN p.first ELSE p.e.start
CatalogPage(p) == IF p.k = "base" THEN p.first + Covered(p) ELSE p.h.pages
Catalog(f, p) == BasePageIntegrityCatalog(f, p.gen, CoveredStart(p), Covered(p))

Descriptor(f, p) ==
    LET d == [gen |-> p.gen, start |-> CoveredStart(p), covered |-> Covered(p), page |-> CatalogPage(p),
              sum |-> f[CatalogPage(p)], crc |-> NoCrc]
    IN  [d EXCEPT !.crc = IntegrityBytes(d)]

Sealed(h) == [h EXCEPT !.crc = HeaderBytes(h)]

FreshHeader ==
    [k |-> "header", version |-> FORMAT_VERSION, pages |-> 1, nodes |-> 0, last |-> 0, root |-> 0,
     sum |-> Nothing, fmt |-> 2, count |-> 0, crc |-> NoCrc,
     ext |-> Extension(FORMAT_VERSION, NoSlots, 1, EmptyIntegrity, NoSlots)]

\* The page 0 each plan ends with.
NextHeader(f, p) ==
    CASE p.k = "base" ->
           Sealed([FreshHeader EXCEPT
               !.version = p.version, !.pages = CatalogPage(p) + 1, !.nodes = Len(p.facts), !.last = p.last,
               !.root = p.first + Len(NewPages(p)), !.sum = PageSum(f, p.first, Covered(p)),
               !.count = Len(NewPages(p)),
               !.ext = Extension(p.version, NoSlots, p.first, Descriptor(f, p), NoSlots)])
      [] p.k = "upgrade" ->
           Sealed([p.h EXCEPT
               !.version = FORMAT_VERSION, !.pages = CatalogPage(p) + 1,
               !.ext = Extension(FORMAT_VERSION, p.e.slots, p.e.start, Descriptor(f, p), NoSlots)])
      [] p.k = "empty" ->
           Sealed([p.h EXCEPT !.version = FORMAT_VERSION, !.pages = 1, !.ext = FreshHeader.ext])

-----------------------------------------------------------------------------

Init ==
    /\ image \in Images
    /\ file = image.file /\ synced = image.file /\ opened = image.file
    /\ pc = "closed" /\ plan = NoPlan /\ ledger = NoLedger /\ answer = Unread
    /\ faults = <<>> /\ losses = 0

\* FileBackend::open on a file without a byte writes a fresh page 0.
Create ==
    /\ pc = "closed" /\ ~Present(file, 0)
    /\ opened' = file
    /\ file' = [file EXCEPT ![0] = FreshHeader] /\ synced' = file'
    /\ pc' = "open" /\ ledger' = Wired(FreshHeader, 1, Nothing, <<>>, {}, FALSE)
    /\ UNCHANGED <<image, plan, answer, faults, losses>>

\* FileBackend::open and load up to its first write.
Open ==
    /\ pc \in {"closed", "reload"} /\ Present(file, 0)
    /\ opened' = IF pc = "closed" THEN file ELSE opened
    /\ \E l \in {load(file)} :
       CASE l.r = "refuse" -> pc' = "refused" /\ UNCHANGED <<plan, ledger>>
         [] l.r = "ready"  -> pc' = "open" /\ ledger' = l.ledger /\ UNCHANGED plan
         [] l.r = "write"  -> /\ pc' = CASE l.plan.k = "base" -> "data" [] l.plan.k = "upgrade" -> "catalog"
                                         [] OTHER -> "page0"
                              /\ plan' = l.plan /\ UNCHANGED ledger
    /\ UNCHANGED <<image, file, synced, answer, faults, losses>>

WriteData ==
    /\ pc = "data" /\ pc' = "catalog"
    /\ file' = Put(file, plan.first, BasePages(plan))
    /\ UNCHANGED <<image, synced, opened, plan, ledger, answer, faults, losses>>

WriteCatalog ==
    /\ pc = "catalog" /\ pc' = "page0"
    /\ synced' = file
    /\ file' = [file EXCEPT ![CatalogPage(plan)] = Catalog(file, plan)]
    /\ UNCHANGED <<image, opened, plan, ledger, answer, faults, losses>>

WritePage0Unsynced ==
    /\ pc = "page0" /\ pc' = "publish"
    /\ file' = [file EXCEPT ![0] = NextHeader(file, plan)]
    /\ UNCHANGED <<image, synced, opened, plan, ledger, answer, faults, losses>>

\* The sync at the end of write_base_integrity_catalog comes before page 0.
WritePage0 ==
    /\ pc = "page0" /\ pc' = "publish"
    /\ synced' = file
    /\ file' = [file EXCEPT ![0] = NextHeader(file, plan)]
    /\ UNCHANGED <<image, opened, plan, ledger, answer, faults, losses>>

\* A migrated v10 file is loaded again.
SyncPage0 ==
    /\ pc = "publish"
    /\ synced' = file /\ plan' = NoPlan
    /\ IF plan.k = "base"
       THEN /\ pc' = "open"
            /\ ledger' = Wired(file[0], plan.first, file[CatalogPage(plan)], <<>>, {}, FALSE)
       ELSE pc' = "reload" /\ UNCHANGED ledger
    /\ UNCHANGED <<image, file, opened, answer, faults, losses>>

Read ==
    /\ pc = "open" /\ answer = Unread
    /\ \/ answer' = ScanFrom(file, ledger, 0, 0)
       \/ \E n \in 0..Len(image.log) : answer' = for_each_fact_since(file, ledger, n)
       \/ answer' = IndexScan(file, ledger)
    /\ UNCHANGED <<image, file, synced, opened, pc, plan, ledger, faults, losses>>

Close ==
    /\ pc \in {"open", "refused"} /\ pc' = "closed"
    /\ ledger' = NoLedger /\ answer' = Unread
    /\ UNCHANGED <<image, file, synced, opened, plan, faults, losses>>

\* Past the last kept page the file ends; a lost page before it is a hole.
Settled(f) ==
    [p \in DOMAIN f |-> IF f[p].k = "absent" /\ \E q \in DOMAIN f : q > p /\ f[q].k # "absent"
                        THEN Zero ELSE f[p]]
Survivors ==
    {Settled([p \in DOMAIN file |-> IF p \in kept THEN file[p] ELSE synced[p]]) :
        kept \in SUBSET {p \in DOMAIN file : file[p] # synced[p]}}

PowerLoss ==
    /\ pc \notin {"closed", "open", "refused"} /\ losses < MaxLosses
    /\ losses' = losses + 1
    /\ file' \in Survivors /\ synced' = file'
    /\ pc' = "closed" /\ plan' = NoPlan /\ ledger' = NoLedger /\ answer' = Unread
    /\ UNCHANGED <<image, opened, faults>>

-----------------------------------------------------------------------------
\* Damage on the medium, one field or page at a time.

Near(n) == {n + 1} \cup (IF n > 0 THEN {n - 1, 0} ELSE {})
BitFlips(n) == {IF (n \div b) % 2 = 1 THEN n - b ELSE n + b : b \in {1, 2, 4, 8, 16}}
Garbage == [k |-> "garbage"]

\* The bytes the header checksum covers, and the checksum itself.
DamagedFields(h) ==
    {[h EXCEPT !.version = v] : v \in BitFlips(h.version)}
    \cup {[h EXCEPT !.pages = n] : n \in Near(h.pages)} \cup {[h EXCEPT !.nodes = n] : n \in Near(h.nodes)}
    \cup {[h EXCEPT !.last = n] : n \in Near(h.last)}   \cup {[h EXCEPT !.root = n] : n \in Near(h.root)}
    \cup {[h EXCEPT !.fmt = n] : n \in Near(h.fmt)}     \cup {[h EXCEPT !.count = n] : n \in Near(h.count)}
    \cup {[h EXCEPT !.sum = Garbage]}
DamagedCrc(h) == {[h EXCEPT !.crc = c] : c \in {NoCrc, <<0>>} \ {h.crc}}

DamagedSlot(s) ==
    {EmptySlot, [s EXCEPT !.gen = @ + 1], [s EXCEPT !.page = @ + 1], [s EXCEPT !.crc = NoCrc], [s EXCEPT !.sum = Garbage]}

DamagedExtension(e) ==
    IF e.k = "none" THEN {}
    ELSE {Nothing, [e EXCEPT !.magic = @ + 1], [e EXCEPT !.ver = @ + 1], [e EXCEPT !.start = @ + 1],
          [e EXCEPT !.start = 0], [e EXCEPT !.startCrc = NoCrc],
          [e EXCEPT !.integrity = EmptyIntegrity], [e EXCEPT !.integrity.covered = @ + 1],
          [e EXCEPT !.integrity.page = @ + 1], [e EXCEPT !.integrity.sum = Garbage]}
         \cup UNION {{[e EXCEPT !.slots[i] = s] : s \in DamagedSlot(e.slots[i])} : i \in 1..2}
         \cup UNION {{[e EXCEPT !.projections[i] = s] : s \in DamagedSlot(e.projections[i])} : i \in 1..2}

\* A page lost, or still decodable and no longer what was written.
DamagedPage(page) ==
    {Garbage, Zero} \cup
    CASE page.k = "packed" /\ page.rows # <<>> -> {[page EXCEPT !.rows[1].x = "z"], Packed(Front(page.rows))}
      [] page.k = "one"         -> {[page EXCEPT !.row.x = "z"]}
      [] page.k = "index" /\ page.refs # <<>> -> {[page EXCEPT !.refs = Tail(@)]}
      [] page.k = "segment"     -> {[page EXCEPT !.facts[1].x = "z"], [page EXCEPT !.marker = FALSE]}
      [] page.k = "manifest"    -> {[page EXCEPT !.segs = Front(@)], [page EXCEPT !.gen = @ + 1]}
      [] page.k = "catalog"     -> {[page EXCEPT !.gen = @ + 1], [page EXCEPT !.sums = Front(@)]}
      [] page.k = "projections" -> {[page EXCEPT !.entries = <<>>], [page EXCEPT !.identity[3] = @ + 1]}
      [] OTHER -> {}

Length(f) == Cardinality({p \in DOMAIN f : Present(f, p)})
Misplaced(f, p) == {f[q] : q \in {x \in DOMAIN f : x # p /\ f[x].k = f[p].k}} \ {f[p]}

Damage ==
    /\ pc = "closed" /\ Len(faults) < MaxFaults /\ image.protected /\ Present(file, 0)
    /\ LET h == file[0] IN
       \/ \E g \in DamagedFields(h) :
             /\ faults' = Append(faults, IF g.version < 7 /\ h.version >= 7 THEN "version" ELSE "header")
             /\ file' = [file EXCEPT ![0] = g]
       \/ faults' = Append(faults, "crc") /\ \E g \in DamagedCrc(h) : file' = [file EXCEPT ![0] = g]
       \/ faults' = Append(faults, "extension")
          /\ \E e \in DamagedExtension(h.ext) : file' = [file EXCEPT ![0].ext = e]
       \/ faults' = Append(faults, "page")
          /\ \E p \in 1..(Length(file) - 1) : \E g \in DamagedPage(file[p]) \cup Misplaced(file, p) :
                file' = [file EXCEPT ![p] = g]
       \/ faults' = Append(faults, "tail")
          /\ \E n \in 1..(Length(file) - 1) :
                file' = [p \in DOMAIN file |-> IF p < n THEN file[p] ELSE Absent]
    /\ synced' = file'
    /\ UNCHANGED <<image, opened, pc, plan, ledger, answer, losses>>

Next == Create \/ Open \/ WriteData \/ WriteCatalog \/ WritePage0 \/ SyncPage0 \/ Read \/ Close \/ PowerLoss \/ Damage

Spec == Init /\ [][Next]_vars

-----------------------------------------------------------------------------
\* Properties.

Published(c, since) == After(SubSeq(image.log, 1, c), since)

\* The checkpoints that a file may show: the last one, or the one before,
\* which the other manifest slot describes, when something outside the fixed
\* header rotted.
Shown ==
    {c \in image.cuts :
        Cardinality({d \in image.cuts : d > c})
            <= IF ToSet(faults) \subseteq {"version", "header", "crc"} THEN 0 ELSE 1}


\* The documented answer to a damaged header: whoever finds a stored header
\* checksum that does not match opens nothing and writes nothing.
HeaderDamageRefused ==
    /\ pc \notin {"closed", "refused"}
    /\ opened[0].k = "header" /\ image.file[0].k = "header" /\ image.file[0].version >= 7
    => opened[0].crc \in {NoCrc, HeaderBytes(opened[0])}

\* What the facts of a file are once it is opened: {} if it is refused.
Holds(f) ==
    LET h == from_bytes(f[0])
        m == CHOOSE x \in load_usable_delta_selection(f, h, h.ext) : TRUE
        Facts(l) ==
            CASE l.r = "refuse" -> {}
              [] l.r = "ready"  -> {ScanFrom(f, l.ledger, 0, 0).facts}
              [] l.plan.k = "base"    -> {l.plan.facts}
              [] l.plan.k = "upgrade" -> {read_all_from_pages(f, h.ext.start, h.count) \o SegmentFacts(f, m)}
              [] l.plan.k = "empty"   -> {<<>>}
    IN  IF ~Present(f, 0) THEN {<<>>} ELSE Facts(load(f))

\* A projection catalog kept by load was built from exactly the facts of the
\* ledger that was loaded with it, also when a damaged manifest made load fall
\* back to an older one.
ProjectionMatchesLedger ==
    pc = "open" =>
        \A c \in ledger.candidates : \A i \in DOMAIN c.entries :
            ScanFrom(file, ledger, 0, 0).k = "facts" =>
                ToSet(c.entries[i].facts) = ToSet(ScanFrom(file, ledger, 0, 0).facts)
=============================================================================
