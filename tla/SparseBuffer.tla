---------------------------- MODULE SparseBuffer -----------------------------
(***************************************************************************)
(* The page buffer of a paged browser handle (browser/buffer.rs): page 0   *)
(* and the metadata stay, base pages are fetched from IndexedDB when a     *)
(* query misses them and dropped afterwards (browser/mod.rs).  The same    *)
(* page cache as in a native process lies between the queries and the      *)
(* buffer.  A behaviour is that of a native process or of a paged handle.  *)
(***************************************************************************)
EXTENDS PageCache

CONSTANTS
    Roles,       \* subset of {"native", "browser", "scan"}
    FactEnd,     \* base facts are on pages 1..FactEnd
    Base,        \* the base ends with page Base; one page of metadata follows
    Batch,       \* pages of a demand window and of a prefetch
    Limit,       \* BROWSER_AGGREGATE_RESIDENT_PAGE_LIMIT
    MaxWrites,   \* bound on publications in IndexedDB
    Reads        \* reads, see Read

ASSUME SparseBufferAssumption ==
    /\ Roles \subseteq {"native", "browser", "scan"}
    /\ {FactEnd, Base, Batch, Limit, MaxWrites} \subseteq Nat /\ FactEnd <= Base /\ Batch > 0

VARIABLES
    role,
    idb,      \* the object store: publication, pages, pages that rotted
    buf,      \* BrowserBufferBackend
    pin,      \* the publication whose page 0 this handle holds
    rd,       \* the paged read in progress
    flush     \* the pages that a write awaits IndexedDB for

browser == <<idb, buf, pin, rd, flush>>
vars == <<cache, image, count, native, tries, faults, role, browser>>

(* A read is a sequence of steps; each step visits its pages in order and  *)
(* starts over after a miss.  A query is one step; a cursor session (an    *)
(* aggregate, a history, a diff) keeps its place between steps.            *)
Read(kind, steps) == [kind |-> kind, steps |-> steps]

Session == rd.kind = "session"
Meta == Base + 1
Pages == 0..(count - 1)

-----------------------------------------------------------------------------
(* BrowserBufferBackend.                                                   *)

(* Mutant of Evictable: pinned pages go as well. *)
EvictablePinned(b) == DOMAIN b.pages \ b.dirty

Evictable(b) == DOMAIN b.pages \ (b.dirty \cup b.pinned)

(* evict_clean_unpinned_to: the lowest page ids first. *)
evict_clean_unpinned_to(b, limit) ==
    LET free == Evictable(b)
        over == Cardinality(DOMAIN b.pages) - limit
        gone == {p \in free : Cardinality({q \in free : q < p}) < over}
    IN  IF Cardinality(DOMAIN b.pages) <= limit THEN b ELSE [b EXCEPT !.pages = Without(@, gone)]

evict_all_clean_unpinned(b) == evict_clean_unpinned_to(b, 0)

(* Mutant of AggregateEviction: the bound of a finished read. *)
AggregateEvictionAll(b) == evict_all_clean_unpinned(b)

(* evict_aggregate_staging. *)
AggregateEviction(b) == evict_clean_unpinned_to(b, Limit)

(* stage_clean_pages refuses what is outside the image or dirty. *)
Stageable(b, got) == DOMAIN got \cap b.dirty = {} /\ DOMAIN got \subseteq Pages
stage_clean_pages(b, got) == [b EXCEPT !.pages = got @@ @]

write_page(b, p, x) == [b EXCEPT !.pages = With(@, p, x), !.dirty = @ \cup {p}]
take_dirty(b) == [b EXCEPT !.dirty = {}]

(* sparse_authority_pin_ids: page 0, the metadata and the delta segments. *)
authority_pin_ids(last) == {0} \cup Meta..last

(* open_current_sparse_storage: the pages a paged handle starts with. *)
load_sparse_pages(pages) ==
    LET pins == authority_pin_ids(Cardinality(DOMAIN pages) - 1)
    IN  [pages |-> [p \in pins |-> pages[p]], dirty |-> {}, pinned |-> pins]

-----------------------------------------------------------------------------
(* Reads.                                                                  *)

Usable == role = "browser" /\ rd = None /\ flush = None /\ buf.dirty = {}
Authority == pin = idb.at

(* finish_paged_read: what was staged is dropped. *)
FinishRead ==
    rd' = None /\ buf' = evict_all_clean_unpinned(buf)

(* execute_read_command: a full scan prefetches the base facts. *)
BeginRead(r) ==
    /\ Usable
    /\ rd' = [kind |-> r.kind, steps |-> r.steps, at |-> 1, pos |-> 1, asked |-> {}, miss |-> {},
              prefetch |-> IF r.kind = "scan" THEN 1 ELSE FactEnd + 1]
    /\ UNCHANGED <<cache, image, count, native, tries, faults, role, idb, buf, pin, flush>>

(* verify_browser_fetched_page against the integrity catalog. *)
Verified(S) == S \ idb.rotten
Fetched(S) == [p \in S |-> IF p \in idb.rotten THEN None ELSE idb.pages[p]]

(* prefetch_full_scan_pages: every page of a batch must verify. *)
Prefetch ==
    LET S == rd.prefetch..Min({rd.prefetch + Batch - 1, FactEnd})
    IN
    /\ rd # None /\ rd.prefetch <= FactEnd /\ Authority
    /\ IF Verified(S) = S /\ Stageable(buf, Fetched(S))
       THEN /\ buf' = stage_clean_pages(buf, Fetched(S))
            /\ rd' = [rd EXCEPT !.prefetch = @ + Batch]
       ELSE FinishRead
    /\ UNCHANGED <<cache, image, count, native, tries, faults, role, idb, pin, flush>>

(* One page of the running step: it comes from the cache, or the buffer,   *)
(* or is not resident (PageNotResident).  No other call of the handle runs *)
(* between the pages of a step.  A query that misses a page twice gives    *)
(* up; a session that has visited its share of entries yields and evicts.  *)
Step ==
    LET page == rd.steps[rd.at][rd.pos] IN
    /\ rd # None /\ rd.prefetch > FactEnd /\ rd.miss = {}
    /\ IF Cached(cache, page) \/ page \in DOMAIN buf.pages
       THEN /\ cache' = IF Cached(cache, page) THEN cache ELSE insert(cache, page, buf.pages[page])
            /\ IF rd.pos < Len(rd.steps[rd.at])
               THEN rd' = [rd EXCEPT !.pos = @ + 1] /\ UNCHANGED buf
               ELSE IF rd.at < Len(rd.steps)
               THEN /\ rd' = [rd EXCEPT !.at = @ + 1, !.pos = 1]
                    /\ buf' \in {buf, AggregateEviction(buf)}
               ELSE FinishRead
       ELSE /\ UNCHANGED cache
            /\ IF ~Session /\ page \in rd.asked THEN FinishRead
               ELSE rd' = [rd EXCEPT !.miss = {page}, !.asked = @ \cup {page}] /\ UNCHANGED buf
    /\ UNCHANGED <<image, count, native, tries, faults, role, idb, pin, flush>>

(* fetch_and_stage_page_window: the aligned window around the page, of     *)
(* which what fails to verify is left out, unless it is the page itself.   *)
Window(p) == LET start == (p \div Batch) * Batch IN (start..(start + Batch - 1)) \cap Pages

Fetch ==
    /\ rd # None /\ rd.miss # {} /\ Authority
    /\ LET got == Fetched(Verified(UNION {Window(p) : p \in rd.miss}))
           b   == stage_clean_pages(buf, got)
       IN  IF rd.miss \subseteq DOMAIN got /\ rd.miss \cap idb.rotten = {} /\ Stageable(buf, got)
           THEN /\ rd' = [rd EXCEPT !.miss = {}, !.pos = 1]
                /\ buf' = IF Session THEN AggregateEviction(b) ELSE b
           ELSE FinishRead
    /\ UNCHANGED <<cache, image, count, native, tries, faults, role, idb, pin, flush>>

(* Another handle published, or the request fails: the read fails. *)
FailRead ==
    /\ rd # None /\ (rd.miss # {} \/ rd.prefetch <= FactEnd)
    /\ ~Authority \/ faults < MaxFaults
    /\ faults' = IF Authority THEN faults + 1 ELSE faults
    /\ FinishRead
    /\ UNCHANGED <<cache, image, count, native, tries, role, idb, pin, flush>>

-----------------------------------------------------------------------------
(* Writes and maintenance.                                                 *)

(* apply_write: save appends a delta page and rewrites page 0; the dirty   *)
(* pages are taken for IndexedDB and pinned (configure_sparse_authority).  *)
ApplyWrite ==
    LET n == tries + 1
        b == write_page(write_page(buf, count, n), 0, n)
    IN
    /\ Usable /\ tries < MaxWrites /\ tries' = n
    /\ cache' = invalidate_from(cache, count)
    /\ image' = With(With(image, count, n), 0, n)
    /\ count' = count + 1
    /\ flush' = [p \in b.dirty |-> b.pages[p]]
    /\ buf' = [take_dirty(b) EXCEPT !.pinned = authority_pin_ids(count)]
    /\ UNCHANGED <<native, faults, role, idb, pin, rd>>

(* The save fails half way: dirty pages stay and the handle is poisoned. *)
SaveFails ==
    /\ Usable /\ faults < MaxFaults /\ faults' = faults + 1
    /\ tries < MaxWrites /\ tries' = tries + 1
    /\ cache' = invalidate_from(cache, count)
    /\ buf' = write_page(buf, count, tries')
    /\ image' = With(image, count, tries')
    /\ count' = count + 1
    /\ UNCHANGED <<native, role, idb, pin, rd, flush>>

Store(at, pages, rotten) == [at |-> at, pages |-> pages, rotten |-> rotten]

(* write_pages commits: page 0 is new, and what was staged is dropped. *)
CommitFlush ==
    /\ role = "browser" /\ flush # None /\ Authority
    /\ idb' = Store(tries, flush @@ idb.pages, idb.rotten)
    /\ pin' = tries /\ flush' = None
    /\ buf' = evict_all_clean_unpinned(buf)
    /\ UNCHANGED <<cache, image, count, native, tries, faults, role, rd>>

(* The handle starts again from the store: after a failed flush (a stale   *)
(* handle fails that too), or a new one after a poisoned one.              *)
Reopen ==
    /\ role = "browser" /\ rd = None
    /\ flush # None \/ buf.dirty # {} \/ ~Authority
    /\ IF flush # None /\ Authority THEN faults < MaxFaults /\ faults' = faults + 1
       ELSE UNCHANGED faults
    /\ image' = idb.pages /\ count' = Cardinality(DOMAIN idb.pages)
    /\ buf' = load_sparse_pages(idb.pages)
    /\ cache' = Empty /\ pin' = idb.at /\ flush' = None
    /\ UNCHANGED <<native, tries, role, idb, rd>>

(* A compact copy of the image: its pages have the old page numbers. *)
Compact(n) == [p \in 0..Meta |-> n]

(* The compact copy has its own page cache, with its index pages. *)
MaintainedCache(n) ==
    LET built[p \in FactEnd..Base] ==
            IF p = FactEnd THEN Empty ELSE LET c == built[p - 1] IN put_dirty(c, p, n)
    IN  built[Base]

(* run_idle_maintenance; the prefetch it starts with refuses a page that   *)
(* does not verify.                                                        *)
Maintain ==
    LET n == tries + 1 IN
    /\ Usable /\ Authority /\ tries < MaxWrites /\ tries' = n
    /\ Verified(1..FactEnd) = 1..FactEnd
    /\ idb' = Store(n, Compact(n), {}) /\ pin' = n
    /\ image' = Compact(n) /\ count' = Meta + 1
    /\ buf' = load_sparse_pages(Compact(n))
    /\ cache' = MaintainedCache(n)
    /\ UNCHANGED <<native, faults, role, rd, flush>>

(* Another tab compacts and publishes. *)
Elsewhere ==
    /\ role = "browser" /\ tries < MaxWrites /\ tries' = tries + 1
    /\ idb' = Store(tries', Compact(tries'), {})
    /\ UNCHANGED <<cache, image, count, native, faults, role, buf, pin, rd, flush>>

-----------------------------------------------------------------------------

NoHandle == [pages |-> <<>>, dirty |-> {}, pinned |-> {}]

BrowserInit ==
    /\ \E S \in {{}} \cup {{p} : p \in 1..Base} : idb = Store(0, Compact(0), S)
    /\ image = Compact(0) /\ count = Meta + 1
    /\ cache = Empty /\ disk = <<>> /\ deltas = <<>> /\ save = None /\ inplace = {}
    /\ lookup = [t \in Threads |-> None]
    /\ tries = 0 /\ faults = 0
    /\ buf = load_sparse_pages(Compact(0)) /\ pin = 0

Init ==
    /\ role \in Roles /\ rd = None /\ flush = None
    /\ IF role = "browser" THEN BrowserInit
       ELSE NativeInit /\ idb = None /\ buf = NoHandle /\ pin = None

Reading == Prefetch \/ Step \/ Fetch \/ FailRead

Next ==
    \/ role = "native" /\ NativeNext /\ UNCHANGED <<role, browser>>
    \/ \E r \in Reads : BeginRead(r)
    \/ Reading
    \/ ApplyWrite \/ SaveFails \/ CommitFlush \/ Reopen \/ Maintain \/ Elsewhere

(* IndexedDB settles every request and the event loop runs what is ready. *)
Spec == Init /\ [][Next]_vars /\ WF_vars(Reading)

-----------------------------------------------------------------------------
(* Properties.                                                             *)

(* A handle can reach every page of its image, and no other page: what is  *)
(* resident is the page of its image, and what is not resident is durable  *)
(* under the page 0 it holds; page 0, the metadata and dirty pages never   *)
(* leave (stage_clean_pages, evict_clean_unpinned_to, take_dirty_pages,    *)
(* configure_sparse_authority, verify_browser_fetched_page).               *)
ImageReachable ==
    role = "browser" =>
        /\ \A p \in DOMAIN buf.pages : buf.pages[p] = image[p]
        /\ Authority => \A p \in Pages \ DOMAIN buf.pages : idb.pages[p] = image[p]
        /\ buf.pinned \cup buf.dirty \cup {0} \subseteq DOMAIN buf.pages

(* The limit is used up by pinned pages and by pages above the one that a  *)
(* session waits for: evict_aggregate_staging, which starts with the       *)
(* lowest page, drops that page as soon as it is staged.                   *)
Starved ==
    /\ rd # None /\ Session
    /\ \E p \in rd.miss :
          Limit <= Cardinality({q \in DOMAIN buf.pages \cup Window(p) : q > p \/ q \in buf.pinned})

(* A paged read ends, with its answer or with an error: a page that was    *)
(* fetched is still there when the query or the session goes on, except    *)
(* that a session which goes back to a page below its limit of resident    *)
(* pages fetches it for ever (execute_read_command_with_output_limit,      *)
(* fetch_and_stage_page_window, evict_aggregate_staging).                  *)
PagedReadEnds == rd # None ~> (rd = None \/ Starved)
=============================================================================
