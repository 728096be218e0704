----------------------------- MODULE MC_ImageOpen ------------------------------
EXTENDS Bootstrap

\* Five facts of four transactions; the third transaction retracts.  A
\* retraction of formats before 9 carried its own time.
Row(x, id, tc, vf, on) == [x |-> x, id |-> id, tc |-> tc, vf |-> vf, on |-> on]
MCLog == <<Row("a", 10, 1, 10, TRUE), Row("b", 10, 1, 10, TRUE), Row("c", 20, 2, 20, TRUE),
           Row("a", 30, 3, RETRACT_ALL_VALID_FROM, FALSE), Row("d", 40, 4, 40, TRUE)>>
Scoped == [MCLog EXCEPT ![4].vf = 30]

\* A version 1 file keeps no transaction counts and no order.
MCOld == <<[x |-> "c", id |-> 20, on |-> TRUE], [x |-> "a", id |-> 10, on |-> TRUE],
           [x |-> "a", id |-> 30, on |-> FALSE], [x |-> "b", id |-> 10, on |-> TRUE],
           [x |-> "d", id |-> 40, on |-> TRUE]>>

Blank == [p \in 0..MaxPage |-> Absent]
PlainHeader(v, pages, nodes) ==
    [FreshHeader EXCEPT !.version = v, !.pages = pages, !.nodes = nodes, !.fmt = 0, !.ext = Nothing]

Image(f, log, cuts, v) ==
    [file |-> f, log |-> log, cuts |-> cuts, protected |-> v >= 4]

OneEach(v, pages) ==
    LET n == Len(pages)
        facts == [i \in 1..n |-> pages[i].row]
        plain == Put(Blank, 1, pages)
        h     == PlainHeader(v, n + 1, n)
    IN  IF v <= 3 THEN [plain EXCEPT ![0] = h]
        ELSE [plain EXCEPT ![n + 1] = [k |-> "blob"],
                           ![0] = [h EXCEPT !.pages = n + 2, !.root = n + 1, !.fmt = 1, !.last = HighTx(facts),
                                            !.sum = compute_index_checksum(facts)]]

\* Formats 5 to 9; the checksum covers the facts alone or all pages.
PackedFile(v, facts, whole) ==
    LET p    == [facts |-> facts, first |-> 1]
        n    == Len(NewPages(p))
        data == Put(Blank, 1, BasePages(p))
        h    == [PlainHeader(v, n + 2, Len(facts)) EXCEPT
                    !.root = n + 1, !.fmt = 2, !.last = HighTx(facts), !.count = IF v = 5 THEN 0 ELSE n,
                    !.sum = PageSum(data, 1, IF whole THEN n + 1 ELSE n)]
    IN  [data EXCEPT ![0] = IF v >= 7 THEN Sealed(h) ELSE h]

\* Formats 10 to 13: the base of the first facts, then one delta per further
\* transaction.  Format 10 has no catalog.
Based(v, facts, first) ==
    LET p    == [k |-> "base", facts |-> facts, first |-> first, last |-> HighTx(facts), version |-> v,
             gen |-> 1]
        data == Put([q \in 0..MaxPage |-> IF q < first THEN Zero ELSE Absent], first, BasePages(p))
        full == [data EXCEPT ![CatalogPage(p)] = Catalog(data, p)]
        h    == NextHeader(full, p)
    IN  IF v >= 11 THEN [full EXCEPT ![0] = h]
        ELSE [data EXCEPT ![0] = Sealed([h EXCEPT !.pages = CatalogPage(p),
                                                  !.ext = Extension(10, NoSlots, first, EmptyIntegrity, NoSlots)])]

WithDelta(f, facts, gen, side) ==
    LET h    == f[0]
        seg  == Segment(facts, h.pages)
        old  == IF h.ext.slots[3 - side].gen > 0 THEN f[h.ext.slots[3 - side].page] ELSE Nothing
        m    == Manifest(gen, IF old.k = "none" THEN BaseIdentity(h) ELSE old.base,
                         (IF old.k = "none" THEN <<>> ELSE old.segs) \o <<SegmentEntry(h.pages, seg)>>)
        at   == h.pages + 1
        next == Sealed([h EXCEPT !.pages = at + 1, !.nodes = @ + Len(facts), !.last = HighTx(facts)])
    IN  [f EXCEPT ![h.pages] = seg, ![at] = m, ![0] = [next EXCEPT !.ext.slots[side] = Slot(gen, at, m)]]

WithProjection(f, facts, gen, side) ==
    LET h  == f[0]
        i  == Newest(h.ext.slots)[1]
        m  == IF h.ext.slots[i].gen > 0 THEN f[h.ext.slots[i].page] ELSE Nothing
        at == h.pages + 1
        c  == ProjectionCatalog(gen, persisted_projection_identity(h, f[h.ext.integrity.page], m),
                                <<[page |-> h.pages, facts |-> facts]>>)
        next == Sealed([h EXCEPT !.pages = at + 1])
    IN  [f EXCEPT ![h.pages] = [k |-> "image"], ![at] = c,
                  ![0] = [next EXCEPT !.ext.projections[side] = Slot(gen, at, c)]]

First3 == SubSeq(MCLog, 1, 3)
OneDelta(v) == WithDelta(Based(v, First3, 1), <<MCLog[4]>>, 3, 1)
TwoDeltas(v, first) == WithDelta(WithDelta(Based(v, First3, first), <<MCLog[4]>>, 3, 1), <<MCLog[5]>>, 4, 2)

\* The newest manifest of this one names more segments than the limit.
ThreeDeltas ==
    WithDelta(WithDelta(WithDelta(Based(12, SubSeq(MCLog, 1, 2), 1), <<MCLog[3]>>, 3, 1), <<MCLog[4]>>, 4, 2), <<MCLog[5]>>, 5, 1)

\* Another history, which another tab imports.
MCElse == <<Row("p", 11, 1, 11, TRUE), Row("q", 21, 2, 21, TRUE), Row("r", 31, 3, 31, TRUE)>>
MCOthers == {Image(WithDelta(Based(12, SubSeq(MCElse, 1, 2), 1), <<MCElse[3]>>, 3, 1), MCElse, {2, 3}, 12)}

MCImages ==
    {Image(Blank, <<>>, {0}, 0),
     Image(ThreeDeltas, MCLog, {2, 3, 4, 5}, 12),
     Image(OneEach(1, [i \in DOMAIN MCOld |-> [k |-> "v1", old |-> MCOld[i]]]), MCLog, {5}, 1)}
    \cup {Image(OneEach(v, [i \in DOMAIN Scoped |-> [k |-> "one", row |-> Scoped[i]]]), MCLog, {5}, v) : v \in {2, 3, 4}}
    \cup {Image(PackedFile(v, IF v = 9 THEN MCLog ELSE Scoped, whole), MCLog, {5}, v) :
             v \in {6, 7, 8, 9}, whole \in BOOLEAN}
    \cup {Image(PackedFile(5, Scoped, FALSE), MCLog, {5}, 5), Image(PackedFile(9, <<>>, TRUE), <<>>, {0}, 9)}
    \cup {Image([Blank EXCEPT ![0] = Sealed([FreshHeader EXCEPT !.version = 10, !.ext = Extension(10, NoSlots, 1, EmptyIntegrity, NoSlots)])], <<>>, {0}, 10)}
    \cup {Image(Based(v, MCLog, 1), MCLog, {5}, v) : v \in 10..12}
    \cup {Image(OneDelta(v), SubSeq(MCLog, 1, 4), {3, 4}, v) : v \in {10, 12}}
    \cup {Image(TwoDeltas(v, first), MCLog, {3, 4, 5}, v) : v \in {10, 11, 12}, first \in {1, 3}}
    \cup {Image(WithProjection(TwoDeltas(13, 1), MCLog, 1, 1), MCLog, {3, 4, 5}, 13),
          Image(WithDelta(WithProjection(OneDelta(13), SubSeq(MCLog, 1, 4), 1, 1), <<MCLog[5]>>, 4, 2), MCLog, {3, 4, 5}, 13),
          Image(WithProjection(WithProjection(OneDelta(13), SubSeq(MCLog, 1, 4), 1, 1), SubSeq(MCLog, 1, 4), 2, 2),
                SubSeq(MCLog, 1, 4), {3, 4}, 13)}

\* One image of each kind the loader treats differently.
MCStored ==
    {Image(Blank, <<>>, {0}, 0), Image(ThreeDeltas, MCLog, {2, 3, 4, 5}, 12), Image(PackedFile(9, MCLog, TRUE), MCLog, {5}, 9),
     Image(Based(11, MCLog, 1), MCLog, {5}, 11), Image(Based(12, MCLog, 1), MCLog, {5}, 12)}
    \cup {Image(TwoDeltas(v, 1), MCLog, {3, 4, 5}, v) : v \in {10, 11}}
    \cup {Image(TwoDeltas(12, 3), MCLog, {3, 4, 5}, 12)}
    \cup {i \in MCImages : i.file[0].k = "header" /\ i.file[0].version = 13}
=============================================================================
