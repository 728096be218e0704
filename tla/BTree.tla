-------------------------------- MODULE BTree --------------------------------
(***************************************************************************)
(* The bulk-built B+tree of storage/btree_v6.rs: packing sorted entries    *)
(* into leaves, building the internal levels, and descending and scanning. *)
(*                                                                         *)
(* A key is a sequence of integers compared field by field.  An entry is   *)
(* [key, ref, at, extra, len]: field `at` of the key has extra bytes, and   *)
(* len is the bytes of its encoded key and reference.  Two encodings share *)
(* the bytes of their common leading fields.                               *)
(***************************************************************************)
EXTENDS Integers, SequencesExt

CONSTANTS
    PAGE_SIZE,
    FillPercent,              \* BtreeBuildOptions::fill_percent
    PREFIX_RESTART_INTERVAL,
    FieldBytes,               \* the encoded size of a key field of fixed width
    RefBytes                  \* the encoded size of a FactRef

LEAF_HEADER_SIZE == 12
INTERNAL_HEADER_SIZE == 12
SLOT_SIZE == 4
PREFIX_RECORD_HEADER_SIZE == 4

fill_bytes == (PAGE_SIZE * FillPercent) \div 100

Less(k, l) == \E i \in DOMAIN k : k[i] < l[i] /\ \A j \in 1..(i - 1) : k[j] = l[j]

AtMost(a, b) == IF a <= b THEN a ELSE b

SumOf(s) == FoldLeft(LAMBDA n, x : n + x, 0, s)

\* Where right comes strictly before left it is taken first; left wins a tie.
MergeOrdered(left, right, Before(_, _)) ==
    LET merge[i \in 1..(Len(left) + 1), j \in 1..(Len(right) + 1)] ==
            IF i > Len(left) THEN SubSeq(right, j, Len(right))
            ELSE IF j <= Len(right) /\ Before(right[j], left[i])
                 THEN <<right[j]>> \o merge[i, j + 1]
                 ELSE <<left[i]>> \o merge[i + 1, j]
    IN  merge[1, 1]

-----------------------------------------------------------------------------
(* Leaves.                                                                 *)

SharedFields(k, l) ==
    CHOOSE n \in 0..Len(k) : /\ \A i \in 1..n : k[i] = l[i]
                             /\ n = Len(k) \/ k[n + 1] # l[n + 1]

SharedBytes(e, n) == n * FieldBytes + (IF n >= e.at THEN e.extra ELSE 0)

\* The stored length of the i-th entry of a leaf of prefix records.
prefix_record_layout(es, i) ==
    LET shared == IF (i - 1) % PREFIX_RESTART_INTERVAL = 0 THEN 0
                  ELSE SharedBytes(es[i], SharedFields(es[i - 1].key, es[i].key))
    IN  PREFIX_RECORD_HEADER_SIZE + es[i].len - shared

RawBytes(es) == SumOf([i \in DOMAIN es |-> es[i].len])
PrefixBytes(es) == SumOf([i \in DOMAIN es |-> prefix_record_layout(es, i)])

LeafBytes(es) ==
    LEAF_HEADER_SIZE + Len(es) * SLOT_SIZE + AtMost(RawBytes(es), PrefixBytes(es))

\* torn: the slot directory and the data overlap.
write_leaf_page(es, next) ==
    [kind |-> "leaf", prefix |-> PrefixBytes(es) < RawBytes(es),
     es |-> [i \in DOMAIN es |-> [key |-> es[i].key, ref |-> es[i].ref]], next |-> next,
     torn |-> LeafBytes(es) > PAGE_SIZE]

\* Phase 1: only the first entry of a leaf is compared with the page.
PackEntry(acc, e) ==
    LET Placed(projected) ==
            IF acc.err \/ (projected > PAGE_SIZE /\ acc.cur = <<>>) THEN [acc EXCEPT !.err = TRUE]
            ELSE IF projected > fill_bytes /\ acc.cur # <<>>
            THEN [acc EXCEPT !.done = Append(acc.done, acc.cur), !.cur = <<e>>]
            ELSE [acc EXCEPT !.cur = Append(acc.cur, e)]
    IN  Placed(LeafBytes(Append(acc.cur, e)))

PackLeaves(es) ==
    LET Packed(acc) == [err |-> acc.err,
                        leaves |-> IF acc.cur = <<>> /\ acc.done # <<>> THEN acc.done
                                   ELSE Append(acc.done, acc.cur)]
    IN  Packed(FoldLeft(PackEntry, [done |-> <<>>, cur |-> <<>>, err |-> FALSE], es))

-----------------------------------------------------------------------------
(* Internal levels.  A level is a sequence of [id, first, len]: a page, the *)
(* first key of its subtree and that key's bytes.                          *)

SepBytes(level, i, j) == SumOf([m \in 1..(j - i) |-> level[i + m].len])

\* What the code foresees when child j joins the node that starts at i: one
\* child pointer less than the page will hold.
InternalProjected(level, i, j) ==
    INTERNAL_HEADER_SIZE + (j - i - 1) * 8 + (j - i) * SLOT_SIZE + SepBytes(level, i, j)

InternalBytes(level, i, j) ==
    INTERNAL_HEADER_SIZE + (j - i) * (8 + SLOT_SIZE) + SepBytes(level, i, j)

\* A node takes two children, then as many as the fill allows.
NodeEnd(level, i) ==
    CHOOSE j \in i..Len(level) :
        /\ j > i \/ i = Len(level)
        /\ \A m \in (i + 2)..j : InternalProjected(level, i, m) <= fill_bytes
        /\ j = Len(level) \/ (j > i /\ InternalProjected(level, i, j + 1) > fill_bytes)

write_internal_page(level, i, j) ==
    [kind |-> "internal",
     children |-> [m \in 1..(j - i + 1) |-> level[i + m - 1].id],
     seps |-> [m \in 1..(j - i) |-> level[i + m].first],
     torn |-> InternalBytes(level, i, j) > PAGE_SIZE]

\* One node, if one starts at i.
PackNode(level, acc, i) ==
    IF i # acc.at \/ acc.err THEN acc
    ELSE LET j == NodeEnd(level, i)
         IN  [at    |-> j + 1,
              err   |-> i < Len(level) /\ InternalProjected(level, i, i + 1) > PAGE_SIZE,
              pages |-> Append(acc.pages, write_internal_page(level, i, j)),
              level |-> Append(acc.level, [level[i] EXCEPT !.id = Len(acc.pages) + 1])]

\* Phase 2: levels on top of each other until one page is left.
PackLevels(leaves, pages) ==
    LET Up(acc, k) ==
            IF Len(acc.level) = 1 \/ acc.err THEN acc
            ELSE FoldLeft(LAMBDA a, i : PackNode(acc.level, a, i),
                          [at |-> 1, err |-> FALSE, pages |-> acc.pages, level |-> <<>>],
                          [i \in DOMAIN acc.level |-> i])
    IN  FoldLeft(Up, [at |-> 1, err |-> FALSE, pages |-> pages, level |-> leaves],
                 [k \in DOMAIN leaves |-> k])

\* Pages are numbered from the tree's first page; 0 is no page.
build_btree_serialized_results(es) ==
    LET Pages(leaves) == [i \in DOMAIN leaves |->
                             write_leaf_page(leaves[i], IF i < Len(leaves) THEN i + 1 ELSE 0)]
        Level(leaves) == [i \in DOMAIN leaves |-> [id |-> i, first |-> leaves[i][1].key,
                                                   len |-> leaves[i][1].len - RefBytes]]
        Rooted(tree) == [err |-> tree.err, root |-> tree.level[1].id, pages |-> tree.pages]
        Over(leaves, pages) ==
            IF Len(leaves) = 1 THEN [err |-> FALSE, root |-> 1, pages |-> pages]
            ELSE Rooted(PackLevels(Level(leaves), pages))
        Built(packed) == IF packed.err THEN [err |-> TRUE, root |-> 0, pages |-> <<>>]
                         ELSE Over(packed.leaves, Pages(packed.leaves))
    IN  Built(PackLeaves(es))

NoTree == [err |-> FALSE, root |-> 0, pages |-> <<>>]

-----------------------------------------------------------------------------
(* Reading.                                                                *)

\* A child lies before its parent, so the descent is a function of the page.
find_leaf_for_key(t, key) ==
    LET descend[p \in DOMAIN t.pages] ==
            IF t.pages[p].kind = "leaf" THEN p
            ELSE LET seps == t.pages[p].seps
                     low  == Len(SelectSeq(seps, LAMBDA s : ~Less(key, s)))
                 IN  descend[t.pages[p].children[low + 1]]
    IN  descend[t.root]

Below(es, key) == Len(SelectSeq(es, LAMBDA e : Less(e.key, key)))

\* The slot of the last restart not after the key (the first without one),
\* then forward within its block.
seek_prefix_lower_bound(es, key) ==
    LET K        == PREFIX_RESTART_INTERVAL
        restarts == SelectSeq([i \in DOMAIN es |-> i], LAMBDA i : (i - 1) % K = 0)
        First(block, end) == IF block = {} THEN end + 1
                             ELSE CHOOSE i \in block : \A j \in block : i <= j
        Within(from, end) == First({i \in from..end : ~Less(es[i].key, key)}, end)
        Block(from) == Within(from, AtMost(Len(es), from + K - 1))
        After(low) == Block(IF low = 0 THEN 1 ELSE (low - 1) * K + 1)
    IN  After(Len(SelectSeq(restarts, LAMBDA i : ~Less(key, es[i].key))))

seek_lower_bound(page, key) ==
    IF page.prefix THEN seek_prefix_lower_bound(page.es, key) ELSE Below(page.es, key) + 1

\* The entries from slot `from` of a leaf on, along the chain of leaves.
EntriesFrom(t, leaf, from) ==
    LET chain[p \in 0..Len(t.pages)] ==
            IF p = 0 THEN <<>> ELSE t.pages[p].es \o chain[t.pages[p].next]
        page == t.pages[leaf]
    IN  SubSeq(page.es, from, Len(page.es)) \o chain[page.next]

\* Up to the first key that is not below the end; end is {} or {key}.
Until(es, end) ==
    LET Cut(stops) == IF stops = {} THEN es
                      ELSE SubSeq(es, 1, (CHOOSE i \in stops : \A j \in stops : i <= j) - 1)
    IN  Cut({i \in DOMAIN es : \E k \in end : ~Less(es[i].key, k)})

range_scan_entries(t, start, end) ==
    IF t.root = 0 THEN <<>>
    ELSE LET From(leaf) == EntriesFrom(t, leaf, seek_lower_bound(t.pages[leaf], start))
         IN  Until(From(find_leaf_for_key(t, start)), end)

\* visit_current_*_range: from a restart before the key on, entries of the
\* first leaf below the key are passed over one by one.
visit_current_range(t, start, end) ==
    IF t.root = 0 THEN <<>>
    ELSE LET K == PREFIX_RESTART_INTERVAL
             First(page, low) == IF page.prefix THEN (IF low = 0 THEN 1 ELSE ((low - 1) \div K) * K + 1)
                                 ELSE low + 1
             Slot(es, from) == from + Below(SubSeq(es, from, Len(es)), start)
             From(leaf, page) == EntriesFrom(t, leaf, Slot(page.es, First(page, Below(page.es, start))))
             Visit(leaf) == From(leaf, t.pages[leaf])
         IN  Until(Visit(find_leaf_for_key(t, start)), end)

stream_all_entries(t) ==
    LET leftmost[p \in DOMAIN t.pages] ==
            IF t.pages[p].kind = "leaf" THEN p ELSE leftmost[t.pages[p].children[1]]
    IN  IF t.root = 0 THEN <<>> ELSE EntriesFrom(t, leftmost[t.root], 1)
=============================================================================
