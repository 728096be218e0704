----------------------------- MODULE PageCache -------------------------------
(***************************************************************************)
(* The page cache that queries share (storage/cache.rs) under the saves    *)
(* that write pages behind it (storage/persistent_facts.rs).  A page's     *)
(* content is the number of the save attempt that wrote it.                *)
(***************************************************************************)
EXTENDS Naturals, Sequences, FiniteSets, SequencesExt, FiniteSetsExt

CONSTANTS
    Threads,     \* queries that run beside a save
    Capacity,    \* page_cache_size; 0 never evicts
    FactPages,   \* how many fact pages a rebuilt base may take
    Growth,      \* thresholds of delta_growth.rs, scaled down
    MaxTries,    \* bound on save attempts
    MaxFaults,   \* bound on failed writes, syncs and IndexedDB requests
    None

ASSUME PageCacheAssumption ==
    /\ {Capacity, MaxTries, MaxFaults} \subseteq Nat
    /\ FactPages \subseteq Nat \ {0}

VARIABLES
    cache,   \* CacheInner: the cached pages and their order of eviction
    disk,    \* pages written to the backend
    image,   \* the pages that the wired readers address
    count,   \* page_count of the published header
    deltas,  \* pages of each visible delta segment
    save,    \* the save in progress
    lookup,  \* the get_or_load call of each query
    inplace, \* history: pages of a wired image that a save wrote over
    tries, faults

native == <<disk, deltas, save, lookup, inplace>>

-----------------------------------------------------------------------------
(* CacheInner.                                                             *)

Empty == [data |-> <<>>, order |-> <<>>]
Cached(c, p) == p \in DOMAIN c.data
Without(f, S) == [p \in DOMAIN f \ S |-> f[p]]
With(f, p, x) == (p :> x) @@ f

(* The eviction loop: the front of the order goes while the cache is full. *)
Evicted(c) ==
    LET Oldest(k) == ToSet(SubSeq(c.order, 1, k))
        enough == {k \in 0..Len(c.order) :
                      Cardinality(DOMAIN c.data \ Oldest(k)) < Capacity}
        k == IF Capacity = 0 THEN 0 ELSE IF enough = {} THEN Len(c.order) ELSE Min(enough)
    IN  [data |-> Without(c.data, Oldest(k)), order |-> SubSeq(c.order, k + 1, Len(c.order))]

Added(c, p, x) ==
    LET e == Evicted(c) IN [data |-> With(e.data, p, x), order |-> Append(e.order, p)]

touch(c, p) == [c EXCEPT !.order = Append(SelectSeq(@, LAMBDA q : q # p), p)]

(* The end of get_or_load: another query may have loaded the page. *)
insert(c, p, x) == IF Cached(c, p) THEN c ELSE Added(c, p, x)

(* The dirty flag that put_dirty sets is read by nobody: a page is written *)
(* to the backend before it is put, and flush is not called.               *)
put_dirty(c, p, x) ==
    IF Cached(c, p) THEN touch([c EXCEPT !.data[p] = x], p) ELSE Added(c, p, x)

(* Mutant of invalidate_from: only the first page goes (invalidate). *)
invalidate_from_one(c, p) ==
    [data |-> Without(c.data, {p}), order |-> SelectSeq(c.order, LAMBDA q : q # p)]

invalidate_from(c, p) ==
    [data |-> Without(c.data, {q \in DOMAIN c.data : q >= p}),
     order |-> SelectSeq(c.order, LAMBDA q : q < p)]

-----------------------------------------------------------------------------
(* get_or_load by a query thread; a hit changes nothing.                   *)

Miss(t, p) ==
    /\ lookup[t] = None /\ p \in DOMAIN image /\ ~Cached(cache, p)
    /\ lookup' = [lookup EXCEPT ![t] = [page |-> p, want |-> image[p], data |-> None]]
    /\ UNCHANGED <<cache, disk, image, count, deltas, save, inplace, tries, faults>>

(* The load takes the backend mutex, which most of a save holds, and no    *)
(* lock of the cache.                                                      *)
Load(t) ==
    /\ lookup[t] # None /\ lookup[t].data = None
    /\ save # None => ~save.locked
    /\ lookup' = [lookup EXCEPT ![t].data = disk[lookup[t].page]]
    /\ UNCHANGED <<cache, disk, image, count, deltas, save, inplace, tries, faults>>

Insert(t) ==
    /\ lookup[t] # None /\ lookup[t].data # None
    /\ cache' = insert(cache, lookup[t].page, lookup[t].data)
    /\ lookup' = [lookup EXCEPT ![t] = None]
    /\ UNCHANGED <<disk, image, count, deltas, save, inplace, tries, faults>>

-----------------------------------------------------------------------------
(* delta_growth.rs.                                                        *)

ratio_at_least(value, base, percent) == base > 0 /\ value * 100 >= base * percent

Crosses(segments, pages, base, g) ==
    \/ segments >= g.segments
    \/ pages >= g.pages
    \/ pages >= Growth.floor /\ ratio_at_least(pages, base, g.percent)

decide(segments, pages, base) ==
    CASE Crosses(segments, pages, base, Growth.hard) -> "backpressure"
      [] ~Crosses(segments, pages, base, Growth.hard)
         /\ Crosses(segments, pages, base, Growth.soft) -> "schedule"
      [] OTHER -> "continue"

(* The pages of an older file: facts on page 1, indexes on page 2. *)
Older == [p \in 1..2 |-> 0]
Legacy == image = Older

delta_maintenance_decision ==
    IF Legacy THEN "schedule"
    ELSE IF deltas = <<>> THEN "continue"
    ELSE decide(Len(deltas), FoldLeft(LAMBDA n, d : n + d, 0, deltas), Cardinality(DOMAIN image))

-----------------------------------------------------------------------------
(* Saves.                                                                  *)

(* A save writes `facts` pages and then one page of indexes. *)
Begin(kind, from, facts, locked) ==
    /\ save = None /\ tries < MaxTries /\ tries' = tries + 1
    /\ cache' = invalidate_from(cache, from)
    /\ save' = [kind |-> kind, from |-> from, next |-> from, facts |-> facts,
                locked |-> locked, n |-> tries']
    /\ UNCHANGED <<disk, image, count, deltas, lookup, faults>>

(* save without a manifest, where the base is: a new file, one of a format *)
(* that has no deltas, or, with nothing pending, a published base.  The    *)
(* index pages are overwritten; of nothing, one empty fact page is packed. *)
FullSave == \E n \in FactPages :
    /\ deltas = <<>> /\ (image # <<>> /\ ~Legacy => n = 1)
    /\ LET from == IF image = <<>> THEN 1 ELSE Max(DOMAIN image)
       IN  /\ Begin("full", from, n, TRUE)
           /\ inplace' = inplace \cup {p \in DOMAIN image : p >= from}

(* try_save_delta_segment: pages past the published ones, not cached. *)
DeltaSave ==
    /\ image # <<>> /\ ~Legacy
    /\ Begin("delta", count, 1, TRUE)
    /\ UNCHANGED inplace

(* recompact_visible_delta, by a save with nothing pending over a manifest *)
(* or by run_idle_delta_maintenance: a copy of the base past the published *)
(* pages; the mutex is taken batch by batch while facts are written and    *)
(* held from the first index page on.                                      *)
Recompact == \E n \in FactPages :
    /\ deltas # <<>> \/ delta_maintenance_decision # "continue"
    /\ Begin("recompact", count, n, FALSE)
    /\ UNCHANGED inplace

End(s) == s.from + s.facts + IF s.kind = "delta" THEN 0 ELSE 1

WritePage ==
    /\ save # None /\ save.next < End(save)
    /\ disk' = With(disk, save.next, save.n)
    /\ save' = [save EXCEPT !.next = @ + 1,
                            !.locked = @ \/ save.next >= save.from + save.facts]
    /\ cache' = IF save.next >= save.from + save.facts
                THEN put_dirty(cache, save.next, save.n) ELSE cache
    /\ UNCHANGED <<image, count, deltas, lookup, inplace, tries, faults>>

(* A write or a sync fails: the pages stay, the header does not name them. *)
FailSave ==
    /\ save # None /\ faults < MaxFaults /\ faults' = faults + 1
    /\ save' = None
    /\ UNCHANGED <<cache, disk, image, count, deltas, lookup, inplace, tries>>

(* The header names the new pages and the readers are wired to them; a     *)
(* delta segment is resident beside the base.                              *)
BaseStart == IF save.kind = "full" /\ image # <<>> THEN Min(DOMAIN image) ELSE save.from

Publish ==
    /\ save # None /\ save.next = End(save)
    /\ count' = End(save)
    /\ CASE save.kind = "delta" ->
              deltas' = Append(deltas, save.facts) /\ UNCHANGED image
         [] save.kind # "delta" ->
              /\ deltas' = <<>>
              /\ image' = [p \in BaseStart..(End(save) - 1)
                              |-> disk[p]]
    /\ save' = None
    /\ UNCHANGED <<cache, disk, lookup, inplace, tries, faults>>

-----------------------------------------------------------------------------

NativeInit ==
    /\ image \in {<<>>, Older}
    /\ cache = Empty /\ disk = image
    /\ count = IF Legacy THEN 3 ELSE 1
    /\ inplace = {}
    /\ deltas = <<>> /\ save = None
    /\ lookup = [t \in Threads |-> None]
    /\ tries = 0 /\ faults = 0

NativeNext ==
    \/ FullSave \/ DeltaSave \/ Recompact \/ WritePage \/ FailSave \/ Publish
    \/ \E t \in Threads : Load(t) \/ Insert(t) \/ \E p \in DOMAIN image : Miss(t, p)

-----------------------------------------------------------------------------
(* Properties.                                                             *)

(* A page that a query finds in the cache, or is about to put there, is    *)
(* the page of the image it reads, whatever failed or concurrent save      *)
(* used that page number (get_or_load loads without a lock and inserts     *)
(* later; invalidate_from; build_btree caches pages before the header      *)
(* names them); and the cache never outgrows its capacity nor forgets the  *)
(* order it evicts in, whichever queries load the same page (touch).  Not  *)
(* so for a page that a full save wrote over while readers were wired to   *)
(* it: there a page loaded before the save and inserted after stays.       *)
CacheCoherent ==
    /\ \A p \in (DOMAIN cache.data \cap DOMAIN image) \ inplace : cache.data[p] = image[p]
    /\ \A t \in Threads :
        lookup[t] # None /\ lookup[t].data # None /\ lookup[t].page \notin inplace =>
            lookup[t].data = lookup[t].want
    /\ ToSet(cache.order) = DOMAIN cache.data /\ Len(cache.order) = Cardinality(DOMAIN cache.data)
    /\ Capacity > 0 => Len(cache.order) <= Capacity
=============================================================================
