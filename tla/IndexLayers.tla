----------------------------- MODULE IndexLayers -----------------------------
(***************************************************************************)
(* The three layers an index lookup reads: the pending overlay             *)
(* (graph/pending_overlay.rs), the resident delta entries over the         *)
(* published B+trees (storage/delta_index.rs), and the four key orders     *)
(* (storage/index.rs).                                                     *)
(*                                                                         *)
(* Records are those of Temporal with integer entities and attributes.     *)
(* A value is <<tag, payload>> with the tags of encode_value, and a tag    *)
(* below them all stands for the empty bytes of a range bound.  A string   *)
(* is its length in bytes.  Attribute names are multiples of ten; a name   *)
(* that extends m lies between m + 2 and m + 8, and m followed by a zero   *)
(* byte is m + 1.                                                          *)
(***************************************************************************)
EXTENDS BTree, Temporal

CONSTANT MaxEntity            \* the largest entity id

Orders == {"eavt", "aevt", "avet", "vaet"}

IntTag == 2
StrTag == 4
RefTag == 6
NoBytes == <<-1, -1>>

\* An attribute followed by a zero byte: the least name above it.
Successor(a) == a + 1

\* The least name that does not have the prefix a.
next_string_prefix(a) == IF a % 10 = 0 THEN a + 10 ELSE a + 2

Bit(b) == IF b THEN 1 ELSE 0

KeyOf(order, f) ==
    CASE order = "eavt" -> <<f.e, f.a, f.vf, f.vt, f.tc, f.v[1], f.v[2], f.id, Bit(f.on)>>
      [] order = "aevt" -> <<f.a, f.e, f.vf, f.vt, f.tc, f.v[1], f.v[2], f.id, Bit(f.on)>>
      [] order = "avet" -> <<f.a, f.v[1], f.v[2], f.vf, f.vt, f.e, f.tc, f.id, Bit(f.on)>>
      [] order = "vaet" -> <<f.v[2], f.a, f.vf, f.vt, f.e, f.tc, f.id, Bit(f.on)>>

\* Only references are in VAET.
Indexed(order, f) == order = "vaet" => f.v[1] = RefTag

\* The least record of an entity and an attribute, as range bounds are made.
Bound(e, a, v) == [e |-> e, a |-> a, v |-> v, vf |-> AllFrom, vt |-> AllFrom,
                   tc |-> 0, id |-> 0, on |-> FALSE]

Listed(S) == FoldSet(LAMBDA x, s : Append(s, x), <<>>, S)

SortedBy(order, s) == SortSeq(s, LAMBDA f, g : Less(KeyOf(order, f), KeyOf(order, g)))

\* The place of a value's payload in a key.
PayloadAt == [eavt |-> 7, aevt |-> 7, avet |-> 3, vaet |-> 1]

Extra(f) == IF f.v[1] = StrTag THEN f.v[2] - FieldBytes ELSE 0

EntryOf(order, f) ==
    [key |-> KeyOf(order, f), ref |-> f, at |-> PayloadAt[order], extra |-> Extra(f),
     len |-> Len(KeyOf(order, f)) * FieldBytes + Extra(f) + RefBytes]

\* A fact has the fields of its EAVT key, and a page holds one of this size.
FactBytes(f) == 9 * FieldBytes + Extra(f)
MAX_FACT_BYTES == PAGE_SIZE - 12 - 4

Entries(order, S) ==
    LET Each(s) == [i \in DOMAIN s |-> EntryOf(order, s[i])]
    IN  Each(SortedBy(order, Listed({f \in S : Indexed(order, f)})))

-----------------------------------------------------------------------------
(* The pending overlay: per order, levels of sorted runs; an empty run is  *)
(* an unused level.  A record stands for its id.                           *)

NoRuns == [o \in Orders |-> <<>>]

merge_runs(order, left, right) ==
    MergeOrdered(left, right, LAMBDA f, g : Less(KeyOf(order, f), KeyOf(order, g)))

\* next_power_of_two, as its exponent.
LevelOf(n) == CHOOSE l \in 0..n : 2^l >= n /\ \A m \in 0..(l - 1) : 2^m < n

\* Mutant: the level of the run is overwritten.
RunsInsertOverwrites(levels, order, batch) ==
    LET first == LevelOf(Len(batch)) + 1
    IN  IF batch = <<>> THEN levels
        ELSE [l \in 1..(IF first > Len(levels) THEN first ELSE Len(levels)) |->
                 IF l = first THEN SortedBy(order, batch)
                 ELSE IF l <= Len(levels) THEN levels[l] ELSE <<>>]

\* A run goes to the level of its size and carries upwards.
RunsInsert(levels, order, batch) ==
    LET first == LevelOf(Len(batch)) + 1
        used  == {l \in DOMAIN levels : levels[l] # <<>>}
        free  == CHOOSE l \in first..(Len(levels) + first) :
                     l \notin used /\ \A m \in first..(l - 1) : m \in used
        run   == FoldLeft(LAMBDA r, l : merge_runs(order, levels[l], r),
                          SortedBy(order, batch), [i \in 1..(free - first) |-> first + i - 1])
    IN  IF batch = <<>> THEN levels
        ELSE [l \in 1..(IF free > Len(levels) THEN free ELSE Len(levels)) |->
                 IF l = free THEN run
                 ELSE IF l >= first /\ l < free THEN <<>>
                 ELSE IF l <= Len(levels) THEN levels[l] ELSE <<>>]

PendingRecords(runs) == UNION {Range(runs["eavt"][l]) : l \in DOMAIN runs["eavt"]}

insert_batch(runs, facts, reject_duplicates) ==
    LET new == IF reject_duplicates
               THEN SelectSeq(facts, LAMBDA f : f \notin PendingRecords(runs)) ELSE facts
    IN  [o \in Orders |-> RunsInsert(runs[o], o, SelectSeq(new, LAMBDA f : Indexed(o, f)))]

\* partition_point of a sorted run: how many come before the key.
Before(order, run, key) == Len(SelectSeq(run, LAMBDA f : Less(KeyOf(order, f), key)))

\* The records of a range, merged over the runs, and whether there are more
\* than max of them: one more is returned then.
PendingRange(runs, order, start, end, max) ==
    LET Slice(run) == SubSeq(run, Before(order, run, start) + 1,
                             IF end = {} THEN Len(run)
                             ELSE Before(order, run, CHOOSE k \in end : TRUE))
        Bounded(all) == [recs |-> SubSeq(all, 1, AtMost(Len(all), max + 1)), over |-> Len(all) > max]
    IN  Bounded(FoldLeft(LAMBDA s, run : merge_runs(order, s, Slice(run)), <<>>, runs[order]))

-----------------------------------------------------------------------------
(* The committed layers.                                                   *)

\* A borrowed AEVT entry carries no attribute and is compared without it.
Precedes(order, k, l) == IF order = "aevt" THEN Less(Tail(k), Tail(l)) ELSE Less(k, l)

range_delta_entries(order, delta, start, end) ==
    SelectSeq(Entries(order, delta),
              LAMBDA x : ~Less(x.key, start) /\ \A k \in end : Less(x.key, k))

\* LayeredIndexReader::visit_current_*_entries.
VisitCommitted(tree, delta, order, start, end) ==
    MergeOrdered(visit_current_range(tree, start, end), range_delta_entries(order, delta, start, end),
               LAMBDA d, b : Precedes(order, d.key, b.key))

\* LayeredIndexReader::range_scan_*: merge_entry_refs compares whole keys.
ScanCommitted(tree, delta, order, start, end) ==
    MergeOrdered(range_scan_entries(tree, start, end), range_delta_entries(order, delta, start, end),
               LAMBDA d, b : Less(d.key, b.key))

BuildTrees(S) ==
    LET Built(es) == IF es = <<>> THEN NoTree ELSE build_btree_serialized_results(es)
    IN  [o \in Orders |-> Built(Entries(o, S))]

-----------------------------------------------------------------------------
(* Lookups of FactStorage: a snapshot under one read lock, pending first.  *)

\* The entity after the largest is the nil one, before all others.
EntityRange(e) == [order |-> "eavt", start |-> KeyOf("eavt", Bound(e, 0, NoBytes)),
                   end |-> {KeyOf("eavt", Bound((e + 1) % (MaxEntity + 1), 0, NoBytes))}]

AttributeRange(a) == [order |-> "aevt", start |-> KeyOf("aevt", Bound(0, a, NoBytes)),
                      end |-> {KeyOf("aevt", Bound(0, next_string_prefix(a), NoBytes))}]

PendingIn(runs, r) == PendingRange(runs, r.order, r.start, r.end, 999).recs

CommittedIn(tree, delta, r) ==
    LET Refs(es) == [i \in DOMAIN es |-> es[i].ref]
    IN  Refs(ScanCommitted(tree, delta, r.order, r.start, r.end))

get_facts_by_entity(runs, tree, delta, e) ==
    PendingIn(runs, EntityRange(e)) \o CommittedIn(tree, delta, EntityRange(e))

\* Only the committed records are compared with the attribute.
get_facts_by_attribute(runs, tree, delta, a) ==
    PendingIn(runs, AttributeRange(a))
        \o SelectSeq(CommittedIn(tree, delta, AttributeRange(a)), LAMBDA f : f.a = a)

facts_for_triple(runs, tree, delta, e, a, v) ==
    SelectSeq(get_facts_by_entity(runs, tree, delta, e), LAMBDA f : f.a = a /\ f.v = v)
=============================================================================
