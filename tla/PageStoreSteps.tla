--------------------------- MODULE PageStoreSteps ---------------------------
(***************************************************************************)
(* The other steps of PageStore: what a full save, a recompaction, the     *)
(* catalog behind them, the write of page 0, syncs, failures and crashes   *)
(* do to the images; then what a reopened file shows after each step.      *)
(***************************************************************************)
EXTENDS PageStoreImages

-----------------------------------------------------------------------------
(* Full saves, recompactions and page 0.                                   *)

(* The base a full save or a recompaction writes. *)
LEMMA WriteBaseStep ==
    ASSUME Images, NEW start \in Nat \ {0}, NEW old \in Nat, NEW fresh, NEW all,
           WriteBase(start, old, fresh, all)
    PROVE  /\ pc' = "data" /\ disk' = disk /\ mem' = mem /\ counter' = counter
           /\ pending' = pending /\ shown' = shown /\ wal' = wal
           /\ next' = [k \in HeaderFields |-> next'[k]]
           /\ next'.last = counter /\ next'.catalog = Empty /\ next'.slots = NoSlots
           /\ next'.start = start /\ next'.count = old + 1
           /\ next'.root = start + old + 1 /\ next'.pages = start + old + 3
           /\ next'.pages <= MaxPage + 1
           /\ file' = [p \in 0..MaxPage |-> file'[p]] /\ file'[0] = file[0]
           /\ \A p \in 0..MaxPage : p # start + old /\ p # start + old + 1 => file'[p] = file[p]
           /\ file'[start + old] = [kind |-> "facts", facts |-> fresh]
           /\ file'[start + old + 1].kind = "index"
<1> DEFINE a == start + old + 3
           r == start + old + 1
           e == old + 1
           q == start + old
           v == [kind |-> "facts", facts |-> fresh]
           w == [kind |-> "index", facts |-> all]
           n == next'
<1>1. /\ file' = [file EXCEPT ![q] = v, ![r] = w] /\ start + old + 2 <= MaxPage
      /\ n = [FreshHeader EXCEPT !.pages = a, !.last = counter, !.root = r, !.start = start,
                                 !.count = e]
      /\ pc' = "data" /\ disk' = disk /\ mem' = mem /\ counter' = counter
      /\ pending' = pending /\ shown' = shown /\ wal' = wal
  BY DEF WriteBase
<1>2. FreshHeader = [k \in HeaderFields |-> FreshHeader[k]]
  BY FreshSound DEF HeaderOk, HeaderShape
<1>3. FreshHeader.catalog = Empty /\ FreshHeader.slots = NoSlots BY DEF FreshHeader
<1>4. q \in 0..MaxPage /\ r \in 0..MaxPage /\ q # r /\ 0 # q /\ 0 # r /\ a <= MaxPage + 1
  BY <1>1, StoreAssumption
<1>5. w.kind = "index" OBVIOUS
<1> HIDE DEF a, r, e, q, v, w, n
<1>6. n = [k \in HeaderFields |->
             IF k = "pages" THEN a ELSE IF k = "last" THEN counter ELSE IF k = "root" THEN r
             ELSE IF k = "start" THEN start ELSE IF k = "count" THEN e ELSE FreshHeader[k]]
  BY <1>1, <1>2, Zenon DEF HeaderFields
<1>7. n.pages = a /\ n.last = counter /\ n.root = r /\ n.start = start /\ n.count = e
      /\ n.catalog = Empty /\ n.slots = NoSlots
  BY <1>3, <1>6 DEF HeaderFields
<1>8. n = [k \in HeaderFields |-> n[k]] BY <1>6
<1>9. file = [p \in 0..MaxPage |-> file[p]] BY DEF Images
<1>10. /\ file' = [p \in 0..MaxPage |-> file'[p]] /\ file'[q] = v /\ file'[r] = w
       /\ \A p \in 0..MaxPage : p # q /\ p # r => file'[p] = file[p]
  BY <1>1, <1>4, <1>9, OverwriteTwo, Zenon
<1>11. file'[0] = file[0] BY <1>4, <1>10, StoreAssumption
<1> QED BY <1>1, <1>4, <1>5, <1>7, <1>8, <1>10, <1>11, Zenon DEF a, r, e, q, v, n

(* A recompacted base behind the published pages keeps the invariant. *)
LEMMA WriteRecompactInv1 == Inv1 /\ WriteRecompact => Inv1'
<1> SUFFICES ASSUME Inv1, WriteRecompact PROVE Inv1' OBVIOUS
<1> DEFINE h == file[0]
           n == next'
<1>1. /\ pc = "idle" /\ pending = {} /\ mem.slot # None /\ rewritten' = rewritten
      /\ WriteBase(h.pages, 0, shown, shown)
  BY DEF WriteRecompact, Header
<1>2. Images /\ MemOk /\ Facts /\ Wal BY <1>1 DEF Inv1, Open
<1>3. HeaderOk(h) /\ h.pages \in Nat \ {0}
  <2>1. HeaderOk(h) /\ h.pages \in 1..(MaxPage + 1) BY <1>2, Zenon DEF Images, Sound, HeaderOk
  <2> QED BY <2>1, StoreAssumption
<1>4. /\ pc' = "data" /\ disk' = disk /\ mem' = mem /\ counter' = counter
      /\ pending' = pending /\ shown' = shown /\ wal' = wal
      /\ n = [k \in HeaderFields |-> n[k]]
      /\ n.last = counter /\ n.catalog = Empty /\ n.slots = NoSlots
      /\ n.start = h.pages /\ n.count = 1 /\ n.root = h.pages + 1 /\ n.pages = h.pages + 3
      /\ n.pages <= MaxPage + 1
      /\ file' = [p \in 0..MaxPage |-> file'[p]] /\ file'[0] = h
      /\ \A p \in 0..MaxPage : p # h.pages /\ p # h.pages + 1 => file'[p] = file[p]
      /\ file'[h.pages] = [kind |-> "facts", facts |-> shown]
      /\ file'[h.pages + 1].kind = "index"
  <2> DEFINE q == h.pages
  <2>1. q \in Nat \ {0} BY <1>3
  <2>2. 0 \in Nat /\ q + 0 = q /\ 0 + 1 = 1 /\ q + 0 + 1 = q + 1 /\ q + 0 + 3 = q + 3 BY <2>1
  <2> HIDE DEF q
  <2>3. WriteBase(q, 0, shown, shown) BY <1>1 DEF q
  <2>4. /\ pc' = "data" /\ disk' = disk /\ mem' = mem /\ counter' = counter
        /\ pending' = pending /\ shown' = shown /\ wal' = wal
        /\ next' = [k \in HeaderFields |-> next'[k]]
        /\ next'.last = counter /\ next'.catalog = Empty /\ next'.slots = NoSlots
        /\ next'.start = q /\ next'.count = 0 + 1
        /\ next'.root = q + 0 + 1 /\ next'.pages = q + 0 + 3
        /\ next'.pages <= MaxPage + 1
        /\ file' = [p \in 0..MaxPage |-> file'[p]] /\ file'[0] = file[0]
        /\ \A p \in 0..MaxPage : p # q + 0 /\ p # q + 0 + 1 => file'[p] = file[p]
        /\ file'[q + 0] = [kind |-> "facts", facts |-> shown]
        /\ file'[q + 0 + 1].kind = "index"
    BY <1>2, <2>1, <2>2, <2>3, WriteBaseStep
  <2> QED BY <2>2, <2>4 DEF q
<1>5. \A p \in 1..(h.pages - 1) : file'[p] = file[p]
  <2>1. h.pages <= MaxPage + 1 BY <1>3 DEF HeaderOk
  <2>2. \A p \in 1..(h.pages - 1) : p \in 0..MaxPage /\ p # h.pages /\ p # h.pages + 1
    BY <1>3, <2>1, StoreAssumption
  <2> QED BY <1>4, <2>2
<1>6. Images' BY <1>1, <1>2, <1>4, <1>5, HighPages
<1>7. MemOk' BY <1>2, <1>4, <1>5, MemHigh
<1>8. Facts' BY <1>2, <1>4, FactsFrame
<1>9. FactRange(n) = {h.pages} BY <1>3, <1>4 DEF FactRange
<1>10. NewBase' = shown
  <2>1. NewBase' = UNION {file'[p].facts : p \in FactRange(n)} BY DEF NewBase
  <2>2. file'[h.pages].facts = shown BY <1>4
  <2> QED BY <1>9, <2>1, <2>2
<1>11. NextBase'
  <2>1. shown \subseteq 0..counter /\ HeaderFacts(h) \subseteq shown BY <1>1, <1>2 DEF Facts
  <2>2. file'[h.pages].facts = shown BY <1>4
  <2>3. \A p \in FactRange(n) : file'[p].facts \subseteq 0..counter BY <1>9, <2>1, <2>2, Zenon
  <2>4. /\ n.start \in Nat \ {0} /\ n.count \in Nat \ {0} /\ n.root = n.start + n.count
        /\ n.pages = n.root + 2 /\ n.start >= h.pages
    BY <1>3, <1>4
  <2>5. file'[n.root].kind = "index" BY <1>4
  <2> QED BY <1>4, <1>10, <2>1, <2>3, <2>4, <2>5 DEF NextBase
<1>12. FullSave' BY <1>1, <1>4 DEF FullSave
<1>13. Saving' BY <1>4, <1>11, <1>12 DEF Saving
<1> QED BY <1>2, <1>4, <1>6, <1>7, <1>8, <1>13 DEF Inv1, Open, Wal

(* A step that changes no page below the index of a published base without *)
(* segments.                                                               *)
LEMMA InPlace ==
    ASSUME Images, file' = [p \in 0..MaxPage |-> file'[p]], disk' = disk, rewritten',
           file'[0] = file[0], file[0].root # 0, file[0].slots = NoSlots,
           \A p \in 1..(file[0].root - 1) : file'[p] = file[p]
    PROVE  Images'
<1> DEFINE h == file[0]
           d == disk[0]
<1>1. HeaderOk(h) /\ HeaderOk(d) /\ Follows(h, d) BY DEF Images, Sound
<1>2. /\ h.pages \in Nat /\ h.start \in Nat \ {0} /\ h.count \in Nat /\ h.root \in Nat
      /\ h.root = h.start + h.count /\ h.count > 0 /\ h.root + 1 < h.pages
  BY <1>1, HeaderPages DEF HeaderOk
<1>3. FactRange(h) \subseteq 1..(h.root - 1) BY <1>2 DEF FactRange
<1>4. \A s \in Slots : h.slots[s] = Empty BY DEF NoSlots
<1>5. FactsKept(h, file') BY <1>3, <1>4, Zenon DEF FactsKept, Images, Sound
<1>6. FactsKept(d, file')
  <2>1. CASE d.root = 0 BY <1>1, <2>1, FreshSound DEF HeaderOk
  <2>2. CASE d.root # 0 /\ d.start = h.start /\ d.count <= h.count /\ d.slots = NoSlots
    <3>1. \A s \in Slots : d.slots[s] = Empty BY <2>2 DEF NoSlots
    <3>2. d.count \in Nat BY <1>1 DEF HeaderOk
    <3>3. FactRange(d) \subseteq 1..(h.root - 1)
      <4>1. \A a \in Nat \ {0}, b, c \in Nat : c <= b => a..(a + c - 1) \subseteq 1..(a + b - 1)
        OBVIOUS
      <4>2. FactRange(d) = h.start..(h.start + d.count - 1) BY <2>2 DEF FactRange
      <4>3. h.start..(h.start + d.count - 1) \subseteq 1..(h.start + h.count - 1)
        BY <1>2, <2>2, <3>2, <4>1, Zenon
      <4> QED BY <1>2, <4>2, <4>3
    <3> QED BY <3>1, <3>3, Zenon DEF FactsKept, Images, Sound
  <2>3. CASE d.pages <= h.start
    <3>1. d.pages \in Nat BY <1>1, HeaderNumbers
    <3>2. \A p \in 1..(d.pages - 1) : file'[p] = file[p] BY <1>2, <2>3, <3>1
    <3> QED BY <1>1, <3>2, KeepLow, Zenon DEF Images, Sound
  <2> QED BY <1>1, <2>1, <2>2, <2>3 DEF Follows
<1>7. Sound(h)' /\ Sound(d)' BY <1>1, <1>5, <1>6 DEF Images, Sound
<1> QED BY <1>1, <1>7 DEF Images

(* A full save keeps the invariant, and its base has what was pending. *)
LEMMA WriteFullInv1 ==
    ASSUME Inv1, WriteFull
    PROVE  Inv1' /\ pending \subseteq NewBase'
<1> DEFINE h == file[0]
           n == next'
           q == mem.start
           k == mem.count
<1>1. /\ pc = "idle" /\ mem.slot = None /\ (h.root # 0 => pending = {})
      /\ mem.catalog # Empty => Verified(file, mem.catalog)
      /\ rewritten' = (rewritten \/ h.root # 0)
      /\ WriteBase(q, k, pending, Indexed \cup pending)
  BY DEF WriteFull, Header, TakesDelta
<1>2. Images /\ MemOk /\ Facts /\ Wal BY <1>1 DEF Inv1, Open
<1>3. q \in Nat \ {0} /\ k \in Nat BY <1>2 DEF MemOk, MemShape
<1>4. /\ pc' = "data" /\ disk' = disk /\ mem' = mem /\ counter' = counter
      /\ pending' = pending /\ shown' = shown /\ wal' = wal
      /\ n = [x \in HeaderFields |-> n[x]]
      /\ n.last = counter /\ n.catalog = Empty /\ n.slots = NoSlots
      /\ n.start = q /\ n.count = k + 1 /\ n.root = q + k + 1 /\ n.pages = q + k + 3
      /\ n.pages <= MaxPage + 1
      /\ file' = [p \in 0..MaxPage |-> file'[p]] /\ file'[0] = h
      /\ \A p \in 0..MaxPage : p # q + k /\ p # q + k + 1 => file'[p] = file[p]
      /\ file'[q + k] = [kind |-> "facts", facts |-> pending]
      /\ file'[q + k + 1].kind = "index"
  <2> DEFINE all == Indexed \cup pending
  <2>1. WriteBase(q, k, pending, all) BY <1>1
  <2> HIDE DEF q, k, all
  <2> QED BY <1>2, <1>3, <2>1, WriteBaseStep
<1>5. HeaderOk(h) /\ h.pages \in Nat \ {0}
  <2>1. HeaderOk(h) /\ h.pages \in 1..(MaxPage + 1) BY <1>2, Zenon DEF Images, Sound, HeaderOk
  <2> QED BY <2>1, StoreAssumption
<1>6. Facts' BY <1>2, <1>4, FactsFrame
<1>7. counter \in Nat /\ shown \cup pending \subseteq 0..counter
  BY <1>2, StoreAssumption DEF Facts
<1>8. /\ n.start \in Nat \ {0} /\ n.count \in Nat \ {0} /\ n.root = n.start + n.count
      /\ n.pages = n.root + 2
  <2> HIDE DEF n, q, k
  <2>1. n.start = q /\ n.count = k + 1 /\ n.root = q + k + 1 /\ n.pages = q + k + 3 BY <1>4
  <2> QED BY <1>3, <2>1
<1>9. file'[n.root].kind = "index" BY <1>4
<1>10. FactRange(n) = (q..(q + k - 1)) \cup {q + k}
  <2> HIDE DEF n, q, k
  <2>1. n.start = q /\ n.count = k + 1 BY <1>4
  <2> QED BY <1>3, <2>1 DEF FactRange
<1>11. file'[q + k].facts = pending BY <1>4
<1>12. NewBase' = (UNION {file'[p].facts : p \in q..(q + k - 1)}) \cup pending
  <2>1. NewBase' = UNION {file'[p].facts : p \in FactRange(n)} BY DEF NewBase
  <2> HIDE DEF n, q, k
  <2> QED BY <1>10, <1>11, <2>1
<1>13. SUFFICES Images' /\ MemOk' /\ NextBase' /\ FullSave'
  BY <1>2, <1>4, <1>6, <1>12 DEF Inv1, Open, Wal, Saving
<1>14. CASE h.root = 0
  <2>1. h = FreshHeader /\ h.pages = 1 BY <1>5, <1>14 DEF HeaderOk, FreshHeader
  <2>2. mem.catalog = Empty /\ q = 1 /\ k = 0 BY <1>2, <1>14 DEF MemOk, MemCatalog
  <2>3. rewritten => rewritten' BY <1>1, Zenon
  <2>4. \A p \in 1..(h.pages - 1) : file'[p] = file[p] BY <2>1
  <2>5. Images' BY <1>2, <1>4, <2>3, <2>4, HighPages
  <2>6. MemOk' BY <1>2, <1>4, <2>4, MemHigh
  <2>7. q..(q + k - 1) = {} BY <2>2
  <2>8. NewBase' = pending BY <1>12, <2>7
  <2>9. HeaderFacts(h) = {} BY <2>1, FreshSound
  <2>10. \A p \in FactRange(n) : file'[p].facts \subseteq 0..counter
    BY <1>7, <1>10, <1>11, <2>7
  <2>11. n.start >= h.pages BY <1>4, <2>1, <2>2
  <2>12. NextBase'
    BY <1>4, <1>8, <1>9, <2>8, <2>9, <2>10, <2>11 DEF NextBase
  <2>13. FullSave'
    <3>1. n.start = 1 /\ n.count = 1 /\ q + k = 1 BY <1>4, <2>2
    <3>2. pending = {} => file'[1] = EmptyFacts BY <1>4, <3>1 DEF EmptyFacts
    <3> QED BY <1>4, <2>2, <3>1, <3>2 DEF FullSave
  <2> QED BY <2>5, <2>6, <2>12, <2>13
<1>15. CASE h.root # 0
  <2>1. pending = {} /\ rewritten' BY <1>1, <1>15, Zenon
  <2>2. ~Stale
    <3> SUFFICES ASSUME Stale PROVE FALSE OBVIOUS
    <3>1. mem.catalog # Empty /\ file[MemRoot] # mem.catalog.content.sums[MemRoot] BY DEF Stale
    <3>2. MemRoot \in DOMAIN mem.catalog.content.sums
      <4>1. DOMAIN mem.catalog.content.sums = mem.start..MemRoot
        BY <1>2, <3>1 DEF MemOk, MemCatalog
      <4> QED BY <1>3, <4>1 DEF MemRoot
    <3> QED BY <1>1, <3>1, <3>2 DEF Verified
  <2>3. /\ h.slots = NoSlots
        /\ \/ q = h.start /\ k = h.count /\ mem.catalog = h.catalog
           \/ /\ mem.catalog = Empty /\ h.start = 1 /\ h.count = 1
              /\ Sums(h)[1] = EmptyFacts
    BY <1>1, <1>2, <2>1, <2>2 DEF MemOk, MemBase
  <2>4. /\ h.start \in Nat \ {0} /\ h.count \in Nat /\ h.count > 0 /\ h.root = h.start + h.count
        /\ h.catalog # Empty /\ FactsKept(h, file) /\ h.root + 1 < h.pages
        /\ h.pages <= MaxPage + 1 /\ h.last \in Nat
        /\ \A p \in FactRange(h) : Sums(h)[p].facts \subseteq 0..h.last
    <3>1. FactsKept(h, file) BY <1>2 DEF Images, Sound
    <3>2. h.last \in Nat /\ h.pages <= MaxPage + 1 BY <1>5, HeaderNumbers
    <3> QED BY <1>5, <1>15, <3>1, <3>2 DEF HeaderOk
  <2>5. MemOk'
    <3>1. MemShape' /\ MemManifest' BY <1>1, <1>2, <1>4 DEF MemOk, MemShape, MemManifest
    <3>2. MemCatalog' BY <1>2, <1>4 DEF MemOk, MemCatalog, MemRoot
    <3>3. MemBase' BY <1>4, <2>3 DEF MemBase
    <3> QED BY <3>1, <3>2, <3>3 DEF MemOk
  <2>6. HeaderFacts(h) = HeaderBase(h)
    <3>1. HeaderSelected(h) = None BY <1>5, <2>3, SelectedSlot DEF HeaderOk
    <3>2. SegmentFacts(<<>>) = {} BY DEF SegmentFacts
    <3> QED BY <3>1, <3>2 DEF HeaderFacts, HeaderSegments
  <2>7. HeaderFacts(h) \subseteq shown /\ h.last <= counter BY <1>2, <2>1 DEF Facts
  <2>8. CASE q = h.start /\ k = h.count /\ mem.catalog = h.catalog
    <3>1. q + k = h.root BY <2>4, <2>8
    <3>2. \A p \in 1..(h.root - 1) : file'[p] = file[p]
      <4>1. \A p \in 1..(h.root - 1) : p \in 0..MaxPage /\ p # q + k /\ p # q + k + 1
        BY <1>5, <2>4, <3>1, StoreAssumption
      <4> QED BY <1>4, <4>1
    <3>3. Images' BY <1>2, <1>4, <1>15, <2>1, <2>3, <3>2, InPlace
    <3>4. q..(q + k - 1) = FactRange(h) BY <2>8 DEF FactRange
    <3>5. FactRange(h) \subseteq 1..(h.root - 1) BY <2>4 DEF FactRange
    <3>6. \A p \in FactRange(h) : file'[p] = Sums(h)[p]
      BY <2>4, <3>2, <3>5 DEF FactsKept
    <3>7. NewBase' = HeaderBase(h)
      BY <1>12, <2>1, <3>4, <3>6, Zenon DEF HeaderBase
    <3>8. \A p \in FactRange(n) : file'[p].facts \subseteq 0..counter
      <4>1. 0..h.last \subseteq 0..counter BY <1>7, <2>4, <2>7
      <4> QED BY <1>10, <1>11, <2>1, <2>4, <3>4, <3>6, <4>1, Zenon
    <3>9. h.count <= n.count /\ n.start = h.start BY <1>4, <2>4, <2>8
    <3>10. NextBase'
      BY <1>1, <1>4, <1>8, <1>9, <2>1, <2>3, <2>6, <2>7, <3>7, <3>8, <3>9 DEF NextBase
    <3>11. FullSave'
      <4>1. mem.catalog # Empty BY <2>4, <2>8
      <4>2. mem.catalog.content.sums[MemRoot].kind = "index"
        BY <1>2, <4>1 DEF MemOk, MemCatalog
      <4>3. file'[MemRoot].kind = "facts" BY <1>4 DEF MemRoot
      <4>4. Stale' BY <1>4, <4>1, <4>2, <4>3 DEF Stale, MemRoot
      <4> QED BY <1>4, <4>1, <4>4 DEF FullSave
    <3> QED BY <2>5, <3>3, <3>10, <3>11
  <2>9. CASE mem.catalog = Empty /\ h.start = 1 /\ h.count = 1 /\ Sums(h)[1] = EmptyFacts
    <3>1. q = 1 /\ k = 0 /\ h.root = 2 BY <1>2, <2>4, <2>9 DEF MemOk, MemCatalog
    <3>2. FactRange(h) = {1} BY <2>9 DEF FactRange
    <3>3. file[1] = EmptyFacts BY <2>4, <2>9, <3>2 DEF FactsKept
    <3>4. q + k = 1 /\ file'[1] = EmptyFacts BY <1>4, <2>1, <3>1 DEF EmptyFacts
    <3>5. \A p \in 1..(h.root - 1) : file'[p] = file[p] BY <3>1, <3>3, <3>4
    <3>6. Images' BY <1>2, <1>4, <1>15, <2>1, <2>3, <3>5, InPlace
    <3>7. EmptyFacts.facts = {} BY DEF EmptyFacts
    <3>8. HeaderBase(h) = {} BY <2>9, <3>2, <3>7 DEF HeaderBase
    <3>9. q..(q + k - 1) = {} BY <3>1
    <3>10. NewBase' = {} BY <1>12, <2>1, <3>9
    <3>11. \A p \in FactRange(n) : file'[p].facts \subseteq 0..counter
      BY <1>10, <1>11, <2>1, <3>9
    <3>12. h.count <= n.count /\ n.start = h.start /\ n.start = 1 /\ n.count = 1
      BY <1>4, <2>9, <3>1
    <3>13. NextBase'
      BY <1>1, <1>4, <1>8, <1>9, <2>1, <2>3, <2>6, <2>7, <3>8, <3>10, <3>11, <3>12, Zenon DEF NextBase
    <3>14. FullSave' BY <1>4, <2>9, <3>4, <3>12 DEF FullSave
    <3> QED BY <2>5, <3>6, <3>13, <3>14
  <2> QED BY <2>3, <2>8, <2>9
<1> QED BY <1>14, <1>15

(* The page 0 of a full save or a recompaction shows the base it wrote. *)
LEMMA WriteCatalogInv1 ==
    ASSUME Inv1, WriteCatalog
    PROVE  Inv1' /\ next'.slots = NoSlots /\ HeaderFacts(next') = NewBase
<1> DEFINE h == file[0]
           n == next'
           q == next.start
           r == next.root
           sums == [p \in q..r |-> file[p]]
           c == [kind |-> "catalog",
                 gen |-> 1 + (IF mem.catalog = Empty THEN 0 ELSE mem.catalog.content.gen),
                 sums |-> sums]
           d == [page |-> r + 1, content |-> c]
<1>1. pc = "data" BY DEF WriteCatalog
<1>2. Images /\ MemOk /\ Facts /\ Wal /\ NextBase /\ FullSave BY <1>1 DEF Inv1, Open, Saving
<1>3. /\ q \in Nat \ {0} /\ next.count \in Nat \ {0} /\ r = q + next.count /\ next.pages = r + 2
      /\ next.pages <= MaxPage + 1 /\ next = [k \in HeaderFields |-> next[k]]
      /\ next.last = counter /\ next.slots = NoSlots
  BY <1>2 DEF NextBase
<1>4. r \in Nat /\ r >= 2 /\ r + 1 \in 0..MaxPage /\ next.pages - 2 = r /\ next.pages - 1 = r + 1
  BY <1>3, StoreAssumption
<1>5. /\ pc' = "header" /\ disk' = file /\ mem' = mem /\ counter' = counter
      /\ pending' = pending /\ shown' = shown /\ rewritten' = rewritten /\ wal' = wal
      /\ file' = [file EXCEPT ![r + 1] = c] /\ n = [next EXCEPT !.catalog = d]
  <2>1. /\ pc' = "header" /\ disk' = file /\ mem' = mem /\ counter' = counter
        /\ pending' = pending /\ shown' = shown /\ rewritten' = rewritten /\ wal' = wal
    BY DEF WriteCatalog, history
  <2>2. file' = [file EXCEPT ![r + 1] = c] /\ n = [next EXCEPT !.catalog = d]
    BY <1>4, Zenon DEF WriteCatalog
  <2> QED BY <2>1, <2>2
<1>6. c.kind = "catalog" /\ c.sums = sums /\ d.content = c /\ d.page = r + 1 OBVIOUS
<1>7. d # Empty BY <1>4 DEF Empty
<1>8. DOMAIN sums = q..r /\ \A p \in q..r : sums[p] = file[p] OBVIOUS
<1> HIDE DEF sums, c, d, n
<1>9. /\ n = [k \in HeaderFields |-> n[k]] /\ n.catalog = d /\ n.pages = r + 2 /\ n.last = counter
      /\ n.root = r /\ n.start = q /\ n.count = next.count /\ n.slots = NoSlots
  <2>1. n = [k \in HeaderFields |-> IF k = "catalog" THEN d ELSE next[k]]
    BY <1>3, <1>5 DEF HeaderFields
  <2>2. /\ n.catalog = d /\ n.pages = next.pages /\ n.last = next.last /\ n.root = next.root
        /\ n.start = next.start /\ n.count = next.count /\ n.slots = next.slots
    BY <2>1 DEF HeaderFields
  <2>3. n = [k \in HeaderFields |-> n[k]] BY <2>1
  <2> QED BY <1>3, <2>2, <2>3
<1>10. /\ file' = [p \in 0..MaxPage |-> file'[p]] /\ file'[r + 1] = c
       /\ \A p \in 0..MaxPage : p # r + 1 => file'[p] = file[p]
  <2>1. file = [p \in 0..MaxPage |-> file[p]] BY <1>2 DEF Images
  <2> QED BY <1>4, <1>5, <2>1, Overwrite, Zenon
<1>11. file'[0] = h BY <1>4, <1>10, StoreAssumption
<1>12. /\ HeaderOk(h) /\ h.pages \in Nat /\ FactsKept(h, file) /\ (~rewritten => BaseKept(h, file))
       /\ h.pages <= MaxPage + 1
  <2>1. HeaderOk(h) /\ FactsKept(h, file) /\ (~rewritten => BaseKept(h, file))
    BY <1>2 DEF Images, Sound
  <2>2. h.pages \in Nat BY <2>1, HeaderNumbers
  <2>3. h.pages <= MaxPage + 1 BY <2>1 DEF HeaderOk
  <2> QED BY <2>1, <2>2, <2>3
<1>13. \/ q >= h.pages
       \/ mem.slot = None /\ h = FreshHeader
       \/ /\ mem.slot = None /\ h.slots = NoSlots /\ q = h.start /\ h.count <= next.count
          /\ rewritten /\ h.root # 0
  BY <1>2, <1>12 DEF NextBase, HeaderOk
<1>14. q >= h.pages => \A p \in 1..(h.pages - 1) : file'[p] = file[p]
  <2>1. ASSUME q >= h.pages, NEW p \in 1..(h.pages - 1)
        PROVE  p \in 0..MaxPage /\ p # r + 1
    <3> HIDE DEF q, r, h
    <3> QED BY <1>3, <1>4, <1>12, <2>1, StoreAssumption
  <2> QED BY <1>10, <2>1
<1>15. FactsKept(h, file') /\ (~rewritten => BaseKept(h, file'))
  <2>1. CASE q >= h.pages BY <1>12, <1>14, <2>1, KeepLow
  <2>2. CASE h = FreshHeader BY <2>2, FreshSound
  <2>3. CASE /\ h.slots = NoSlots /\ q = h.start /\ h.count <= next.count /\ rewritten
             /\ h.root # 0
    <3>1. h.count \in Nat BY <1>12 DEF HeaderOk
    <3>2. FactRange(h) \subseteq 0..MaxPage /\ \A p \in FactRange(h) : p # r + 1
      <4>1. FactRange(h) = q..(q + h.count - 1) BY <2>3 DEF FactRange
      <4> HIDE DEF q, r, h
      <4>2. h.count <= next.count BY <2>3
      <4>3. q + h.count - 1 < r BY <1>3, <1>4, <3>1, <4>2
      <4>4. \A p \in q..(q + h.count - 1) : p \in 0..MaxPage /\ p # r + 1
        BY <1>3, <1>4, <3>1, <4>3, StoreAssumption
      <4> QED BY <4>1, <4>4
    <3>3. \A s \in Slots : h.slots[s] = Empty BY <2>3 DEF NoSlots
    <3>4. FactsKept(h, file') BY <1>10, <1>12, <3>2, <3>3, Zenon DEF FactsKept
    <3> QED BY <2>3, <3>4
  <2> QED BY <1>13, <2>1, <2>2, <2>3
<1>16. Images'
  <2>1. Sound(h)'
    <3>1. FactsKept(h, disk') /\ (~rewritten' => BaseKept(h, disk')) BY <1>5, <1>12
    <3>2. FactsKept(h, file') /\ (~rewritten' => BaseKept(h, file')) BY <1>5, <1>15
    <3>3. HeaderOk(h) BY <1>12
    <3>4. h' = h BY <1>11
    <3> QED BY <3>1, <3>2, <3>3, <3>4 DEF Sound
  <2>2. Follows(h, h) BY <1>12, FollowsSelf
  <2>3. disk' = [p \in 0..MaxPage |-> disk'[p]] BY <1>2, <1>5 DEF Images
  <2> QED BY <1>5, <1>10, <1>11, <2>1, <2>2, <2>3 DEF Images
<1>17. Stale => Stale'
  <2> SUFFICES ASSUME Stale PROVE Stale' OBVIOUS
  <2>1. mem.catalog # Empty /\ file[MemRoot] # mem.catalog.content.sums[MemRoot]
    BY DEF Stale
  <2>2. mem.catalog.content.sums[MemRoot].kind = "index" /\ MemRoot < h.pages
    BY <1>2, <2>1 DEF MemOk, MemCatalog
  <2>3. MemRoot \in 0..MaxPage
    BY <1>2, <1>12, <2>2, StoreAssumption DEF MemOk, MemShape, MemRoot
  <2>4. CASE MemRoot = r + 1
    <3>1. file'[MemRoot].kind = "catalog" BY <1>6, <1>10, <2>4
    <3> QED BY <1>5, <2>1, <2>2, <3>1 DEF Stale, MemRoot
  <2>5. CASE MemRoot # r + 1
    <3>1. file'[MemRoot] = file[MemRoot] BY <1>10, <2>3, <2>5
    <3> QED BY <1>5, <2>1, <3>1 DEF Stale, MemRoot
  <2> QED BY <2>4, <2>5
<1>18. MemOk'
  <2>1. MemShape' BY <1>2, <1>5 DEF MemOk, MemShape
  <2>2. MemManifest'
    <3> SUFFICES ASSUME mem.slot # None PROVE MemManifest' BY <1>5 DEF MemManifest
    <3>1. MemManifest /\ ManifestOk(mem.manifest) BY <1>2 DEF MemOk, MemManifest
    <3>2. \A p \in 1..(h.pages - 1) : file'[p] = file[p] BY <1>13, <1>14
    <3>3. \A i \in DOMAIN mem.manifest.segs : mem.manifest.segs[i].page \in 1..(h.pages - 1)
      BY <1>12, <3>1, SegmentPages DEF MemManifest
    <3>4. \A i \in DOMAIN mem.manifest.segs :
              file'[mem.manifest.segs[i].page] = mem.manifest.segs[i]
      BY <3>1, <3>2, <3>3 DEF MemManifest
    <3> QED BY <1>5, <1>11, <3>1, <3>4 DEF MemManifest
  <2>3. MemCatalog' BY <1>2, <1>5, <1>11 DEF MemOk, MemCatalog, MemRoot
  <2>4. MemBase' BY <1>2, <1>5, <1>11, <1>17 DEF MemOk, MemBase
  <2> QED BY <2>1, <2>2, <2>3, <2>4 DEF MemOk
<1>19. Facts' BY <1>2, <1>5, <1>11, FactsFrame
<1>20. FactRange(n) = q..(r - 1) /\ Sums(n) = sums
  <2>1. FactRange(n) = q..(q + next.count - 1) BY <1>9 DEF FactRange
  <2> QED BY <1>3, <1>6, <1>9, <2>1 DEF Sums
<1>21. q..(r - 1) = FactRange(next) /\ q..(r - 1) \subseteq q..r /\ r \in q..r
  <2>1. FactRange(next) = q..(q + next.count - 1) BY DEF FactRange
  <2> HIDE DEF q, r
  <2>2. q + next.count - 1 = r - 1 BY <1>3, <1>4
  <2>3. q..(r - 1) \subseteq q..r /\ r \in q..r BY <1>3, <1>4
  <2> QED BY <2>1, <2>2, <2>3
<1>22. \A p \in q..(r - 1) : sums[p] = file[p] BY <1>8, <1>21
<1>23. \A s \in Slots : n.slots[s] = Empty BY <1>9 DEF NoSlots
<1>24. HeaderOk(n)
  <2>1. HeaderShape(n) BY <1>9 DEF HeaderShape, NoSlots
  <2>2. n.pages \in 1..(MaxPage + 1) /\ n.last \in 0..MaxTx
    BY <1>2, <1>3, <1>4, <1>9, StoreAssumption DEF Facts
  <2>3. /\ n.start \in Nat \ {0} /\ n.root \in Nat /\ n.count \in Nat /\ n.root # 0
        /\ n.root = n.start + n.count /\ n.count > 0 /\ n.root + 1 < n.pages
        /\ n.pages = n.root + 2
    BY <1>3, <1>4, <1>9
  <2>4. \A p \in FactRange(n) : Sums(n)[p].facts \subseteq 0..n.last
    BY <1>2, <1>9, <1>20, <1>21, <1>22, Zenon DEF NextBase
  <2>5. Sums(n)[n.root].kind = "index" /\ DOMAIN Sums(n) = n.start..n.root
    BY <1>2, <1>8, <1>9, <1>20, <1>21, Zenon DEF NextBase
  <2>6. n.catalog # Empty /\ n.catalog.page = n.root + 1 BY <1>6, <1>7, <1>9
  <2> QED BY <1>23, <2>1, <2>2, <2>3, <2>4, <2>5, <2>6 DEF HeaderOk
<1>25. \A p \in q..r : file'[p] = file[p]
  <2>1. \A p \in q..r : p \in 0..MaxPage /\ p # r + 1 
    <3> HIDE DEF q, r
    <3> QED BY <1>3, <1>4, StoreAssumption
  <2> QED BY <1>10, <2>1
<1>26. FactsKept(n, file') /\ BaseKept(n, file')
  <2>1. \A p \in FactRange(n) : file'[p] = Sums(n)[p] BY <1>20, <1>21, <1>22, <1>25
  <2>2. file'[n.root] = Sums(n)[n.root] BY <1>8, <1>9, <1>20, <1>21, <1>25
  <2>3. file'[n.catalog.page] = n.catalog.content BY <1>6, <1>9, <1>10
  <2> QED BY <1>23, <2>1, <2>2, <2>3 DEF FactsKept, BaseKept
<1>27. HeaderFacts(n) = NewBase
  <2>1. HeaderSelected(n) = None BY <1>9, <1>24, SelectedSlot DEF HeaderOk
  <2>2. SegmentFacts(<<>>) = {} BY DEF SegmentFacts
  <2>3. HeaderBase(n) = NewBase BY <1>20, <1>21, <1>22, Zenon DEF HeaderBase, NewBase
  <2> QED BY <2>1, <2>2, <2>3 DEF HeaderFacts, HeaderSegments
<1>28. NextOk'
  <2>1. NextSegments' BY <1>9 DEF NextSegments, n
  <2>2. n.last = counter' /\ n.root # 0 BY <1>4, <1>5, <1>9
  <2>3. HeaderFacts(n) \subseteq shown' \cup pending' BY <1>2, <1>5, <1>27 DEF NextBase
  <2> QED BY <1>24, <1>26, <2>1, <2>2, <2>3 DEF NextOk, n
<1>29. Follows(n, h)
  <2>1. h.last <= n.last BY <1>2, <1>9 DEF Facts
  <2>2. n.root # 0 BY <1>4, <1>9
  <2>3. CASE q >= h.pages
    <3>1. h.pages <= r + 2 /\ h.pages <= q BY <1>3, <1>4, <1>12, <2>3
    <3> QED BY <1>9, <2>1, <3>1 DEF Follows
  <2>4. CASE h = FreshHeader
    <3>1. h.root = 0 /\ h.pages = 1 BY <2>4 DEF FreshHeader
    <3>2. h.pages <= r + 2 BY <1>4, <3>1
    <3> QED BY <1>9, <2>1, <3>1, <3>2 DEF Follows
  <2>5. CASE h.slots = NoSlots /\ q = h.start /\ h.count <= next.count /\ h.root # 0
    <3>1. h.pages = h.start + h.count + 2 /\ h.count \in Nat BY <1>12, <2>5 DEF HeaderOk
    <3>2. h.pages <= r + 2 BY <1>3, <2>5, <3>1
    <3> QED BY <1>9, <2>1, <2>2, <2>5, <3>2 DEF Follows
  <2> QED BY <1>13, <2>3, <2>4, <2>5
<1>30. FullSave'
  <2>1. mem.catalog # Empty /\ mem.slot = None => Stale' BY <1>2, <1>17 DEF FullSave
  <2>2. mem.slot = None /\ mem.catalog = Empty /\ pending = {} =>
          q = 1 /\ next.count = 1 /\ file[1] = EmptyFacts
    BY <1>2 DEF FullSave
  <2>3. file'[1] = file[1] BY <1>4, <1>10, StoreAssumption
  <2> QED BY <1>5, <1>9, <2>1, <2>2, <2>3 DEF FullSave, n
<1>31. HeaderFacts(h) \subseteq HeaderFacts(n) BY <1>2, <1>27 DEF NextBase
<1>32. Saving' BY <1>5, <1>11, <1>28, <1>29, <1>30, <1>31 DEF Saving, n
<1>33. Inv1' BY <1>2, <1>5, <1>16, <1>18, <1>19, <1>32 DEF Inv1, Open, Wal
<1> QED BY <1>9, <1>27, <1>33 DEF n

(* Writing the page 0 that was prepared keeps the invariant. *)
LEMMA WriteHeaderInv1 == Inv1 /\ WriteHeader => Inv1'
<1> SUFFICES ASSUME Inv1, WriteHeader PROVE Inv1' OBVIOUS
<1> DEFINE h == file[0]
<1>1. /\ pc = "header" /\ pc' = "sync" /\ disk' = file /\ file' = [file EXCEPT ![0] = next]
      /\ mem' = mem /\ counter' = counter /\ pending' = pending /\ shown' = shown
      /\ next' = next /\ rewritten' = rewritten /\ wal' = wal
  BY DEF WriteHeader
<1>2. /\ Images /\ MemOk /\ Facts /\ Wal /\ NextOk /\ Follows(next, h)
      /\ HeaderFacts(h) \subseteq HeaderFacts(next) /\ (next.slots = NoSlots => FullSave)
  BY <1>1 DEF Inv1, Open, Saving
<1>3. /\ file' = [p \in 0..MaxPage |-> file'[p]] /\ file'[0] = next
      /\ \A p \in 0..MaxPage : p # 0 => file'[p] = file[p]
  <2>1. file = [p \in 0..MaxPage |-> file[p]] /\ 0 \in 0..MaxPage
    BY <1>2, StoreAssumption DEF Images
  <2> QED BY <1>1, <2>1, Overwrite, Zenon
<1>4. \A p \in 1..MaxPage : file'[p] = file[p] BY <1>3, StoreAssumption
<1>5. /\ HeaderOk(next) /\ FactsKept(next, file) /\ (~rewritten => BaseKept(next, file))
      /\ next.last = counter /\ next.root # 0 /\ HeaderFacts(next) \subseteq shown \cup pending
      /\ NextSegments
  BY <1>2 DEF NextOk
<1>6. HeaderOk(h) /\ FactsKept(h, file) /\ (~rewritten => BaseKept(h, file))
  BY <1>2 DEF Images, Sound
<1>7. /\ h.pages \in Nat /\ h.last \in Nat /\ next.pages \in Nat
      /\ h.pages <= MaxPage + 1 /\ next.pages <= MaxPage + 1
      /\ h.pages <= next.pages /\ h.last <= next.last /\ counter \in Nat
  <2>1. h.pages <= MaxPage + 1 /\ next.pages <= MaxPage + 1 BY <1>5, <1>6, HeaderNumbers
  <2>2. h.pages \in Nat /\ h.last \in Nat /\ next.pages \in Nat BY <1>5, <1>6, HeaderNumbers
  <2>3. h.pages <= next.pages /\ h.last <= next.last BY <1>2 DEF Follows
  <2>4. counter \in Nat BY <1>2, StoreAssumption DEF Facts
  <2> QED BY <2>1, <2>2, <2>3, <2>4
<1>8. /\ \A p \in 1..(h.pages - 1) : file'[p] = file[p]
      /\ \A p \in 1..(next.pages - 1) : file'[p] = file[p]
  BY <1>4, <1>7, StoreAssumption
<1>9. FactsKept(next, file') /\ (~rewritten => BaseKept(next, file'))
  BY <1>5, <1>8, KeepLow
<1>10. FactsKept(h, file') /\ (~rewritten => BaseKept(h, file'))
  BY <1>6, <1>8, KeepLow
<1>11. Images'
  <2>1. disk' = [p \in 0..MaxPage |-> disk'[p]] /\ disk'[0] = h BY <1>1, <1>2 DEF Images
  <2>2. /\ HeaderOk(next) /\ FactsKept(next, file') /\ FactsKept(next, disk')
        /\ ~rewritten' => BaseKept(next, file') /\ BaseKept(next, disk')
    BY <1>1, <1>5, <1>9
  <2>3. /\ HeaderOk(h) /\ FactsKept(h, file') /\ FactsKept(h, disk')
        /\ ~rewritten' => BaseKept(h, file') /\ BaseKept(h, disk')
    BY <1>1, <1>6, <1>10
  <2> QED BY <1>2, <1>3, <2>1, <2>2, <2>3 DEF Images, Sound
<1>12. MemShape /\ MemManifest /\ MemCatalog /\ MemBase BY <1>2 DEF MemOk
<1>13. MemManifest'
  <2> SUFFICES ASSUME mem.slot # None PROVE MemManifest' BY <1>1 DEF MemManifest
  <2>1. ManifestOk(mem.manifest) BY <1>12 DEF MemManifest
  <2>2. mem.manifest.gen \in Nat /\ mem.manifest.gen <= h.last + 1
    BY <1>12, <2>1 DEF MemManifest, ManifestOk
  <2>3. mem.manifest.gen <= next.last + 1 BY <1>5, <1>7, <2>2
  <2>4. ASSUME NEW i \in DOMAIN mem.manifest.segs
        PROVE  /\ mem.manifest.segs[i].page < next.pages
               /\ file'[mem.manifest.segs[i].page] = mem.manifest.segs[i]
               /\ mem.manifest.segs[i].facts \subseteq shown
    <3>1. /\ mem.manifest.segs[i].page < h.pages
          /\ file[mem.manifest.segs[i].page] = mem.manifest.segs[i]
          /\ mem.manifest.segs[i].facts \subseteq shown
      BY <1>12 DEF MemManifest
    <3>2. mem.manifest.segs[i].page \in Nat \ {0} BY <2>1, SegmentPages
    <3>3. mem.manifest.segs[i].page \in 1..(h.pages - 1) BY <1>7, <3>1, <3>2
    <3>4. mem.manifest.segs[i].page < next.pages BY <1>7, <3>1, <3>2
    <3> QED BY <1>8, <3>1, <3>3, <3>4
  <2>5. next.slots[mem.slot] # Empty => next.slots[mem.slot].content = mem.manifest
    <3>1. mem.slot \in Slots BY <1>12 DEF MemShape
    <3>2. CASE next.slots = NoSlots BY <3>1, <3>2 DEF NoSlots
    <3>3. CASE next.slots # NoSlots BY <1>5, <3>3 DEF NextSegments
    <3> QED BY <3>2, <3>3
  <2> QED BY <1>1, <1>3, <1>5, <2>1, <2>3, <2>4, <2>5 DEF MemManifest
<1>14. MemCatalog'
  <2>1. mem.catalog # Empty => MemRoot < next.pages
    <3>1. MemRoot \in Nat BY <1>12 DEF MemShape, MemRoot
    <3>2. mem.catalog # Empty => MemRoot < h.pages BY <1>12 DEF MemCatalog
    <3> QED BY <1>7, <3>1, <3>2
  <2>2. MemRoot' = MemRoot BY <1>1 DEF MemRoot
  <2> QED BY <1>1, <1>3, <1>5, <1>12, <2>1, <2>2 DEF MemCatalog
<1>15. Stale => Stale'
  <2>1. mem.catalog # Empty => MemRoot \in 1..(h.pages - 1)
    <3>1. MemRoot \in Nat \ {0} BY <1>12 DEF MemShape, MemRoot
    <3>2. mem.catalog # Empty => MemRoot < h.pages BY <1>12 DEF MemCatalog
    <3> QED BY <1>7, <3>1, <3>2
  <2>2. MemRoot' = MemRoot BY <1>1 DEF MemRoot
  <2> QED BY <1>1, <1>8, <2>1, <2>2 DEF Stale
<1>16. MemBase'
  <2> SUFFICES ASSUME mem.slot = None, pending = {} PROVE MemBase' BY <1>1 DEF MemBase
  <2>1. next.slots = NoSlots BY <1>5 DEF NextSegments
  <2>2. FullSave BY <1>2, <2>1
  <2>3. CASE mem.catalog # Empty
    <3>1. Stale' BY <1>15, <2>2, <2>3 DEF FullSave
    <3> QED BY <1>3, <2>1, <3>1 DEF MemBase
  <2>4. CASE mem.catalog = Empty
    <3>1. next.start = 1 /\ next.count = 1 /\ file[1] = EmptyFacts BY <2>2, <2>4 DEF FullSave
    <3>2. 1 \in FactRange(next) BY <3>1 DEF FactRange
    <3>3. Sums(next)[1] = EmptyFacts BY <1>5, <3>1, <3>2 DEF FactsKept
    <3> QED BY <1>1, <1>3, <2>1, <2>4, <3>1, <3>3 DEF MemBase
  <2> QED BY <2>3, <2>4
<1>17. MemOk'
  <2>1. MemShape' BY <1>1, <1>12 DEF MemShape
  <2> QED BY <1>13, <1>14, <1>16, <2>1 DEF MemOk
<1>18. SegmentFacts(HeaderSegments(next)) \subseteq MemSegs \cup pending
  <2> DEFINE s == HeaderSelected(next)
  <2>1. s \in Slots \cup {None} /\ (s = None <=> next.slots = NoSlots)
        /\ (s # None => next.slots[s] # Empty)
    BY <1>5, SelectedSlot DEF HeaderOk
  <2>2. CASE next.slots = NoSlots
    <3>1. SegmentFacts(<<>>) = {} BY DEF SegmentFacts
    <3> QED BY <2>1, <2>2, <3>1 DEF HeaderSegments
  <2>3. CASE next.slots # NoSlots
    <3>1. s \in Slots /\ s # None /\ next.slots[s] # Empty BY <2>1, <2>3
    <3>2. HeaderSegments(next) = next.slots[s].content.segs BY <3>1 DEF HeaderSegments
    <3>3. CASE s = PublishedSlot BY <1>5, <2>3, <3>2, <3>3 DEF NextSegments
    <3>4. CASE s # PublishedSlot
      <4>1. mem.slot \in Slots \cup {None} BY <1>12 DEF MemShape
      <4>2. mem.slot # None
        <5> SUFFICES ASSUME mem.slot = None PROVE FALSE OBVIOUS
        <5>1. PublishedSlot = "primary" BY StoreAssumption DEF PublishedSlot, Slots
        <5>2. s = "secondary" BY <3>1, <3>4, <5>1 DEF Slots
        <5> QED BY <1>5, <2>3, <3>1, <5>2 DEF NextSegments
      <4>3. s = mem.slot BY <3>1, <3>4, <4>1, <4>2 DEF PublishedSlot, Slots
      <4>4. next.slots[s].content = mem.manifest BY <1>5, <2>3, <3>1, <4>2, <4>3 DEF NextSegments
      <4> QED BY <3>2, <4>2, <4>4 DEF MemSegs
    <3> QED BY <3>3, <3>4
  <2> QED BY <2>2, <2>3
<1>19. Facts'
  <2>1. counter' \in 0..MaxTx /\ next.last <= counter' /\ shown' \cup pending' \subseteq 0..counter'
    BY <1>1, <1>2, <1>5, <1>7 DEF Facts
  <2>2. MemSegs' = MemSegs BY <1>1 DEF MemSegs
  <2> QED BY <1>1, <1>3, <1>5, <1>18, <2>1, <2>2 DEF Facts
<1>20. NextOk'
  <2>1. NextSegments' BY <1>1, <1>5 DEF NextSegments, PublishedSlot, MemSegs
  <2> QED BY <1>1, <1>5, <1>9, <2>1 DEF NextOk
<1>21. Saving' BY <1>1, <1>3, <1>20 DEF Saving
<1> QED BY <1>1, <1>2, <1>11, <1>17, <1>19, <1>21 DEF Inv1, Open, Wal

-----------------------------------------------------------------------------
(* Syncs, failures and crashes.                                            *)

(* A sync leaves one version of the file. *)
LEMMA SyncedImages ==
    ASSUME Images, file' = file, disk' = file, rewritten' = rewritten
    PROVE  Images'
<1> DEFINE h == file[0]
<1>1. HeaderOk(h) /\ FactsKept(h, file) /\ (~rewritten => BaseKept(h, file)) BY DEF Images, Sound
<1>4. Follows(h, h) BY <1>1, FollowsSelf
<1>5. Sound(h)'
  <2>1. /\ FactsKept(h, file') /\ FactsKept(h, disk')
        /\ ~rewritten' => BaseKept(h, file') /\ BaseKept(h, disk')
    BY <1>1
  <2> QED BY <1>1, <2>1 DEF Sound
<1> QED BY <1>4, <1>5 DEF Images

(* A step that changes neither the file nor the memory of the handle. *)
LEMMA OpenFrame ==
    ASSUME MemOk, Facts, file' = file, mem' = mem, counter' = counter, pending' = pending,
           shown' = shown
    PROVE  MemOk' /\ Facts'
<1>1. MemShape' /\ MemManifest' BY DEF MemOk, MemShape, MemManifest
<1>2. MemCatalog' BY DEF MemOk, MemCatalog, MemRoot
<1>3. MemBase' BY DEF MemOk, MemBase, Stale, MemRoot
<1>4. Facts' BY FactsFrame
<1> QED BY <1>1, <1>2, <1>3, <1>4 DEF MemOk

(* A save that fails anywhere keeps the invariant. *)
LEMMA SaveFailsInv1 == Inv1 /\ SaveFails => Inv1'
<1> SUFFICES ASSUME Inv1, SaveFails PROVE Inv1' OBVIOUS
<1>1. /\ pc # "closed" /\ pc' = "idle" /\ file' = file /\ mem' = mem /\ counter' = counter
      /\ pending' = pending /\ shown' = shown /\ rewritten' = rewritten /\ wal' = wal
      /\ disk' \in {disk, file}
  BY DEF SaveFails, history
<1>2. Images /\ MemOk /\ Facts /\ Wal BY <1>1 DEF Inv1, Open
<1>3. Images'
  <2>1. CASE disk' = disk BY <1>1, <1>2, <2>1 DEF Images, Sound
  <2>2. CASE disk' = file BY <1>1, <1>2, <2>2, SyncedImages
  <2> QED BY <1>1, <2>1, <2>2
<1>4. MemOk' /\ Facts' BY <1>1, <1>2, OpenFrame
<1> QED BY <1>1, <1>2, <1>3, <1>4 DEF Inv1, Open, Saving, Wal

(* Retiring the WAL, or failing to, keeps the invariant. *)
LEMMA RetireInv1 == Inv1 /\ (RetireWal \/ RetireFails) => Inv1'
<1> SUFFICES ASSUME Inv1, RetireWal \/ RetireFails PROVE Inv1' OBVIOUS
<1>1. /\ pc # "closed" /\ pc' = "idle" /\ file' = file /\ disk' = disk /\ mem' = mem
      /\ counter' = counter /\ pending' = pending /\ shown' = shown
      /\ rewritten' = rewritten /\ wal' \subseteq wal
  BY DEF RetireWal, RetireFails, history
<1>2. Images /\ MemOk /\ Facts /\ Wal BY <1>1 DEF Inv1, Open
<1>3. Images' BY <1>1, <1>2 DEF Images, Sound
<1>4. MemOk' /\ Facts' BY <1>1, <1>2, OpenFrame
<1>5. Wal' BY <1>1, <1>2 DEF Wal
<1> QED BY <1>1, <1>3, <1>4, <1>5 DEF Inv1, Open, Saving

(* The sync of page 0 keeps the invariant. *)
LEMMA SyncHeaderInv1 == Inv1 /\ SyncHeader => Inv1'
<1> SUFFICES ASSUME Inv1, SyncHeader PROVE Inv1' OBVIOUS
<1> DEFINE h == file[0]
           s == PublishedSlot
           m == h.slots[s].content
<1>1. /\ pc = "sync" /\ pc' \in {"retire", "idle"} /\ file' = file /\ disk' = file
      /\ counter' = counter /\ shown' = shown \cup pending /\ pending' = {}
      /\ rewritten' = rewritten /\ wal' = wal
  BY DEF SyncHeader, history
<1>2. Images /\ MemOk /\ Facts /\ Wal /\ NextOk /\ h = next
  BY <1>1 DEF Inv1, Open, Saving
<1>3. /\ HeaderOk(h) /\ FactsKept(h, file) /\ h.root # 0 /\ h.last = counter /\ NextSegments
      /\ HeaderFacts(h) \subseteq shown \cup pending
  BY <1>2 DEF NextOk
<1>4. mem' = IF h.slots = NoSlots
             THEN [slot |-> None, manifest |-> None, catalog |-> h.catalog,
                   start |-> h.start, count |-> h.count]
             ELSE [mem EXCEPT !.slot = s, !.manifest = m]
  BY <1>2 DEF SyncHeader
<1>5. Images' BY <1>1, <1>2, SyncedImages
<1>6. /\ h.start \in Nat \ {0} /\ h.count \in Nat /\ h.root \in Nat /\ h.pages \in Nat
      /\ h.root = h.start + h.count /\ h.count > 0 /\ h.root < h.pages /\ h.catalog # Empty
      /\ DOMAIN h.catalog.content.sums = h.start..h.root
      /\ h.catalog.content.sums[h.root].kind = "index"
  <2>1. h.pages \in Nat /\ h.root < h.pages
    <3>1. h.pages \in Nat /\ h.root \in 1..(h.pages - 1) BY <1>3, HeaderPages
    <3> QED BY <3>1
  <2> QED BY <1>3, <2>1 DEF HeaderOk, Sums
<1>7. Facts
  BY <1>2
<1>8. ASSUME MemSegs \cup pending \subseteq MemSegs' \/ SegmentFacts(HeaderSegments(h)) = {}
      PROVE  Facts'
  <2>1. SegmentFacts(HeaderSegments(h)) \subseteq HeaderBase(h) \cup MemSegs' BY <1>7, <1>8 DEF Facts
  <2> QED BY <1>1, <1>3, <1>7, <2>1 DEF Facts
<1>9. SUFFICES MemOk' /\ Facts'
  BY <1>1, <1>2, <1>5 DEF Inv1, Open, Saving, Wal
<1>10. CASE h.slots = NoSlots
  <2>1. mem' = [slot |-> None, manifest |-> None, catalog |-> h.catalog,
                start |-> h.start, count |-> h.count]
    BY <1>4, <1>10
  <2>2. mem' = [k \in MemFields |-> mem'[k]] BY <2>1 DEF MemFields
  <2>3. mem'.slot = None /\ mem'.catalog = h.catalog /\ mem'.start = h.start /\ mem'.count = h.count
    BY <2>1
  <2>4. MemShape' BY <1>6, <2>2, <2>3 DEF MemShape
  <2>5. MemManifest' BY <2>3 DEF MemManifest
  <2>6. MemCatalog'
    <3>1. MemRoot' = h.root BY <1>6, <2>3 DEF MemRoot
    <3>2. h.start..(h.root - 1) = FactRange(h) BY <1>6, SMTT(60) DEF FactRange
    <3>3. \A p \in FactRange(h) : h.catalog.content.sums[p].facts \subseteq 0..counter
      BY <1>3 DEF HeaderOk, Sums
    <3> QED BY <1>1, <1>3, <1>6, <2>3, <3>1, <3>2, <3>3 DEF MemCatalog
  <2>7. MemBase' BY <1>1, <1>10, <2>3 DEF MemBase
  <2>8. SegmentFacts(HeaderSegments(h)) = {}
    <3>1. HeaderSelected(h) = None BY <1>3, <1>10, SelectedSlot DEF HeaderOk
    <3>2. SegmentFacts(<<>>) = {} BY DEF SegmentFacts
    <3> QED BY <3>1, <3>2 DEF HeaderSegments
  <2> QED BY <1>8, <2>4, <2>5, <2>6, <2>7, <2>8 DEF MemOk
<1>11. CASE h.slots # NoSlots
  <2>1. mem' = [mem EXCEPT !.slot = s, !.manifest = m] BY <1>4, <1>11
  <2>2. /\ s \in Slots /\ s # None /\ h.slots[s] # Empty
        /\ SegmentFacts(m.segs) = MemSegs \cup pending
    <3>1. s \in Slots BY DEF PublishedSlot, Slots
    <3> QED BY <1>2, <1>3, <1>11, <3>1, StoreAssumption DEF NextSegments
  <2>3. SlotOk(h, h.slots[s]) BY <1>3, <2>2 DEF HeaderOk
  <2>4. MemShape /\ MemManifest /\ MemCatalog BY <1>2 DEF MemOk
  <2>5. mem = [k \in MemFields |-> mem[k]] BY <2>4 DEF MemShape
  <2> HIDE DEF s, m, h
  <2>6. mem' = [k \in MemFields |-> IF k = "slot" THEN s ELSE IF k = "manifest" THEN m ELSE mem[k]]
    BY <2>1, <2>5, Zenon DEF MemFields
  <2>7. /\ mem'.slot = s /\ mem'.manifest = m /\ mem'.catalog = mem.catalog
        /\ mem'.start = mem.start /\ mem'.count = mem.count
    BY <2>6 DEF MemFields
  <2>8. mem' = [k \in MemFields |-> mem'[k]] BY <2>6
  <2>9. MemShape' BY <2>2, <2>4, <2>7, <2>8 DEF MemShape
  <2>10. MemSegs' = MemSegs \cup pending BY <2>2, <2>7 DEF MemSegs
  <2>11. MemSegs \subseteq shown BY <2>4 DEF MemManifest, MemSegs, SegmentFacts
  <2>12. MemManifest'
    <3>1. ManifestOk(m) /\ m.gen <= h.last + 1 BY <2>3 DEF SlotOk, m
    <3>2. \A i \in DOMAIN m.segs : m.segs[i].page < h.pages BY <2>3 DEF SlotOk, m
    <3>3. \A i \in DOMAIN m.segs : file[m.segs[i].page] = m.segs[i]
      BY <1>3, <2>2 DEF FactsKept, m
    <3>4. \A i \in DOMAIN m.segs : m.segs[i].facts \subseteq shown'
      BY <1>1, <2>2, <2>11 DEF SegmentFacts
    <3> QED BY <1>1, <1>3, <2>7, <3>1, <3>2, <3>3, <3>4, Zenon DEF MemManifest, h, m
  <2>13. MemCatalog'
    <3>1. MemRoot' = MemRoot BY <2>7 DEF MemRoot
    <3> QED BY <1>1, <1>3, <2>4, <2>7, <3>1 DEF MemCatalog, h
  <2>14. MemBase' BY <2>2, <2>7 DEF MemBase
  <2> QED BY <1>8, <2>9, <2>10, <2>12, <2>13, <2>14 DEF MemOk
<1> QED BY <1>10, <1>11

(* The end of the process keeps the invariant. *)
LEMMA KillInv1 == Inv1 /\ Kill => Inv1'
<1> SUFFICES ASSUME Inv1, Kill PROVE Inv1' OBVIOUS
<1>1. pc' = "closed" /\ file' = file /\ disk' = disk /\ rewritten' = rewritten /\ wal' = wal
  BY DEF Kill, Stop, history
<1> QED BY <1>1 DEF Inv1, Images, Sound, Wal

(* What a power loss leaves of each page is what one of two images that    *)
(* both have the page of h has.                                            *)
LEMMA MixedImage ==
    ASSUME NEW h, HeaderOk(h), NEW f, NEW g, NEW x,
           \A p \in 0..MaxPage : x[p] = f[p] \/ x[p] = g[p]
    PROVE  /\ FactsKept(h, f) /\ FactsKept(h, g) => FactsKept(h, x)
           /\ BaseKept(h, f) /\ BaseKept(h, g) => BaseKept(h, x)
<1>1. \A p \in 1..(h.pages - 1) : x[p] = f[p] \/ x[p] = g[p]
  <2>1. h.pages <= MaxPage + 1 /\ h.pages \in Nat BY HeaderNumbers
  <2> QED BY <2>1, StoreAssumption
<1>2. ASSUME FactsKept(h, f), FactsKept(h, g) PROVE FactsKept(h, x)
  <2>1. \A p \in FactRange(h) : x[p] = Sums(h)[p] BY <1>1, <1>2, HeaderPages, Zenon DEF FactsKept
  <2>2. ASSUME NEW s \in Slots, h.slots[s] # Empty
        PROVE  /\ x[h.slots[s].page] = h.slots[s].content
               /\ \A i \in DOMAIN h.slots[s].content.segs :
                     x[h.slots[s].content.segs[i].page] = h.slots[s].content.segs[i]
    <3>1. /\ h.slots[s].page \in 1..(h.pages - 1)
          /\ \A i \in DOMAIN h.slots[s].content.segs :
                h.slots[s].content.segs[i].page \in 1..(h.pages - 1)
      BY <2>2, HeaderPages
    <3>2. x[h.slots[s].page] = h.slots[s].content BY <1>1, <1>2, <2>2, <3>1 DEF FactsKept
    <3>3. ASSUME NEW i \in DOMAIN h.slots[s].content.segs
          PROVE  x[h.slots[s].content.segs[i].page] = h.slots[s].content.segs[i]
      <4> DEFINE v == h.slots[s].content.segs[i]
      <4>1. f[v.page] = v /\ g[v.page] = v BY <1>2, <2>2, <3>3 DEF FactsKept
      <4>2. v.page \in 1..(h.pages - 1) BY <3>1, <3>3
      <4> HIDE DEF v
      <4>3. x[v.page] = v BY <1>1, <4>1, <4>2
      <4> QED BY <4>3 DEF v
    <3> QED BY <3>2, <3>3
  <2> QED BY <2>1, <2>2 DEF FactsKept
<1>3. ASSUME BaseKept(h, f), BaseKept(h, g) PROVE BaseKept(h, x)
  BY <1>1, <1>3, HeaderPages DEF BaseKept
<1> QED BY <1>2, <1>3

(* A power loss keeps the invariant, whichever unsynced pages it keeps. *)
LEMMA PowerLossInv1 == Inv1 /\ PowerLoss => Inv1'
<1> SUFFICES ASSUME Inv1, PowerLoss PROVE Inv1' OBVIOUS
<1>1. pc' = "closed" /\ disk' = file' /\ rewritten' = rewritten /\ wal' = wal
  BY DEF PowerLoss, Stop, history
<1>2. Images /\ Wal BY DEF Inv1
<1>3. PICK kept : file' = [p \in DOMAIN file |-> IF p \in kept THEN file[p] ELSE disk[p]]
  BY DEF PowerLoss
<1>4. DOMAIN file = 0..MaxPage BY <1>2 DEF Images
<1>5. /\ file' = [p \in 0..MaxPage |-> file'[p]]
      /\ \A p \in 0..MaxPage : file'[p] = file[p] \/ file'[p] = disk[p]
  BY <1>3, <1>4
<1> DEFINE h == file'[0]
<1>6. h = file[0] \/ h = disk[0] BY <1>5, StoreAssumption
<1>7. /\ HeaderOk(h) /\ FactsKept(h, file) /\ FactsKept(h, disk)
      /\ ~rewritten => BaseKept(h, file) /\ BaseKept(h, disk)
  BY <1>2, <1>6 DEF Images, Sound
<1>8. FactsKept(h, file') /\ (~rewritten => BaseKept(h, file'))
  <2> HIDE DEF h
  <2> QED BY <1>5, <1>7, MixedImage, Zenon
<1>9. Follows(h, h) BY <1>7, FollowsSelf
<1>10. Images'
  <2>1. /\ FactsKept(h, disk') /\ FactsKept(h, file')
        /\ ~rewritten' => BaseKept(h, file') /\ BaseKept(h, disk')
    BY <1>1, <1>8
  <2> QED BY <1>1, <1>5, <1>7, <1>9, <2>1 DEF Images, Sound
<1> QED BY <1>1, <1>2, <1>10 DEF Inv1, Wal

-----------------------------------------------------------------------------
(* The inductive invariant of what a reopened file shows.                  *)

WalFacts == {e.tx : e \in {x \in wal : ~x.empty}}

(* What the replay over page 0 `h` adds, and what it then shows. *)
Replay(h) == {e.tx : e \in {x \in wal : x.tx > h.last /\ ~x.empty}}
HeaderAll(h) == HeaderFacts(h) \cup Replay(h)

(* Memory is what load would make of page 0 `h`. *)
MemOf(h) ==
    /\ mem.slot = HeaderSelected(h)
    /\ mem.slot # None => mem.manifest = h.slots[mem.slot].content
    /\ mem.catalog = h.catalog /\ mem.start = h.start /\ mem.count = h.count
    /\ shown = HeaderFacts(h)
    /\ \A t \in pending : h.last < t

(* Every manifest of page 0 is over its base and older than the next. *)
SlotsCurrent(h) ==
    \A s \in Slots : h.slots[s] # Empty =>
        h.slots[s].content.gen <= h.last /\ BaseMatches(h.slots[s].content.base, h)

(* What the save will leave in memory is what load would find. *)
NextMem ==
    next.slots # NoSlots =>
        /\ HeaderSelected(next) = PublishedSlot
        /\ mem.catalog = next.catalog /\ mem.start = next.start /\ mem.count = next.count

OpenAgrees ==
    /\ HeaderAll(file[0]) = shown \cup pending /\ HeaderAll(disk[0]) = shown \cup pending
    /\ acked \cup WalFacts \subseteq shown \cup pending
    /\ pc \in {"sync", "retire"} => ~doubt
    /\ ~doubt => IF pc = "sync" THEN MemOf(disk[0]) ELSE MemOf(file[0])
    /\ ~doubt /\ pc = "data" => NewBase = shown \cup pending
    /\ ~doubt /\ pc = "header" => SlotsCurrent(next)
    /\ ~doubt /\ pc \in {"header", "sync"} => NextMem /\ HeaderFacts(next) = shown \cup pending
    /\ pc = "retire" => pending = {} /\ disk[0] = file[0]

Unretried ==
    /\ SlotsCurrent(file[0]) /\ SlotsCurrent(disk[0])
    /\ pc = "closed" =>
          /\ HeaderAll(file[0]) = HeaderAll(disk[0])
          /\ acked \cup WalFacts \subseteq HeaderAll(file[0])
    /\ pc # "closed" => OpenAgrees

Inv2 == retries \in Nat /\ (retries = 0 => Unretried)

-----------------------------------------------------------------------------
(* Every step keeps it.                                                    *)

(* A new file shows what the handle shows. *)
LEMMA InitInv2 == Init => Inv2
<1> SUFFICES ASSUME Init PROVE Inv2 OBVIOUS
<1>1. file[0] = FreshHeader /\ disk[0] = FreshHeader BY StoreAssumption DEF Init
<1>2. \A s \in Slots : FreshHeader.slots[s] = Empty BY FreshSound DEF NoSlots
<1>3. SlotsCurrent(FreshHeader) BY <1>2 DEF SlotsCurrent
<1>4. WalFacts = {} /\ acked = {} /\ pc = "closed" /\ retries = 0 BY DEF Init, WalFacts
<1> QED BY <1>1, <1>3, <1>4 DEF Inv2, Unretried

(* What a file shows depends on its page 0 and on the WAL. *)
LEMMA SameHeaders ==
    ASSUME wal' = wal, file'[0] = file[0], disk'[0] \in {disk[0], file[0]}
    PROVE  /\ HeaderAll(file[0])' = HeaderAll(file[0])
           /\ HeaderAll(disk[0])' \in {HeaderAll(disk[0]), HeaderAll(file[0])}
           /\ WalFacts' = WalFacts
           /\ SlotsCurrent(file[0]) /\ SlotsCurrent(disk[0]) =>
                 SlotsCurrent(file[0])' /\ SlotsCurrent(disk[0])'
<1>1. HeaderAll(file[0])' = HeaderAll(file[0]) BY DEF HeaderAll, Replay
<1>2. disk'[0] = disk[0] => HeaderAll(disk[0])' = HeaderAll(disk[0]) BY DEF HeaderAll, Replay
<1>3. disk'[0] = file[0] => HeaderAll(disk[0])' = HeaderAll(file[0]) BY DEF HeaderAll, Replay
<1>4. WalFacts' = WalFacts BY DEF WalFacts
<1>5. SlotsCurrent(file[0])' = SlotsCurrent(file'[0]) /\ SlotsCurrent(disk[0])' = SlotsCurrent(disk'[0])
  OBVIOUS
<1> QED BY <1>1, <1>2, <1>3, <1>4, <1>5

(* Steps of an open handle that change neither page 0, the WAL nor memory. *)
LEMMA StillAgrees ==
    ASSUME Unretried, pc # "closed", wal' = wal, file'[0] = file[0],
           disk'[0] \in {disk[0], file[0]}, shown' = shown, pending' = pending, acked' = acked
    PROVE  /\ SlotsCurrent(file[0])' /\ SlotsCurrent(disk[0])'
           /\ HeaderAll(file[0])' = shown' \cup pending'
           /\ HeaderAll(disk[0])' = shown' \cup pending'
           /\ acked' \cup WalFacts' \subseteq shown' \cup pending'
BY SameHeaders DEF Unretried, OpenAgrees

(* A transaction puts what it adds in the WAL. *)
LEMMA TransactUnretried ==
    ASSUME Inv1, Unretried, NEW empty \in BOOLEAN, Transact(empty)
    PROVE  Unretried'
<1> DEFINE h == file[0]
           d == disk[0]
           t == counter + 1
           facts == IF empty THEN {} ELSE {t}
           e == [tx |-> t, empty |-> empty]
<1>1. /\ pc = "idle" /\ pc' = "idle" /\ file' = file /\ disk' = disk /\ mem' = mem
      /\ shown' = shown /\ pending' = pending \cup facts /\ acked' = acked \cup facts
      /\ wal' = wal \cup {e} /\ doubt' = doubt
  BY DEF Transact
<1>2. OpenAgrees /\ SlotsCurrent(h) /\ SlotsCurrent(d) BY <1>1 DEF Unretried
<1>3. t > h.last /\ t > d.last /\ t \in Nat
  <2>1. h.last \in Nat /\ d.last \in Nat /\ d.last <= h.last /\ h.last <= counter /\ counter \in Nat
    <3>1. HeaderOk(h) /\ HeaderOk(d) /\ Follows(h, d) BY DEF Inv1, Images, Sound
    <3>2. Facts BY <1>1 DEF Inv1, Open
    <3>3. h.last \in Nat /\ d.last \in Nat BY <3>1, HeaderNumbers
    <3>4. d.last <= h.last BY <3>1, Zenon DEF Follows
    <3>5. h.last <= counter /\ counter \in 0..MaxTx BY <3>2, Zenon DEF Facts
    <3> QED BY <3>3, <3>4, <3>5, StoreAssumption
  <2> QED BY <2>1
<1>4. e.tx = t /\ e.empty = empty OBVIOUS
<1> HIDE DEF t, e
<1>5. ASSUME NEW x, t > x.last
      PROVE  {y.tx : y \in {z \in wal' : z.tx > x.last /\ ~z.empty}} = Replay(x) \cup facts
  <2>1. {z \in wal' : z.tx > x.last /\ ~z.empty} =
          {z \in wal : z.tx > x.last /\ ~z.empty} \cup (IF empty THEN {} ELSE {e})
    BY <1>1, <1>4, <1>5
  <2> QED BY <1>4, <2>1 DEF Replay
<1>6. HeaderAll(h)' = HeaderAll(h) \cup facts /\ HeaderAll(d)' = HeaderAll(d) \cup facts
  <2>1. HeaderFacts(h)' = HeaderFacts(h) /\ HeaderFacts(d)' = HeaderFacts(d) BY <1>1
  <2>2. Replay(h)' = Replay(h) \cup facts
    <3>1. Replay(h)' = {y.tx : y \in {z \in wal' : z.tx > h.last /\ ~z.empty}}
      BY <1>1 DEF Replay
    <3> QED BY <1>3, <1>5, <3>1
  <2>3. Replay(d)' = Replay(d) \cup facts
    <3>1. Replay(d)' = {y.tx : y \in {z \in wal' : z.tx > d.last /\ ~z.empty}}
      BY <1>1 DEF Replay
    <3> QED BY <1>3, <1>5, <3>1
  <2> QED BY <2>1, <2>2, <2>3 DEF HeaderAll
<1>7. WalFacts' = WalFacts \cup facts
  <2>1. {z \in wal' : ~z.empty} = {z \in wal : ~z.empty} \cup (IF empty THEN {} ELSE {e})
    BY <1>1, <1>4
  <2> QED BY <1>4, <2>1 DEF WalFacts
<1>8. ~doubt => MemOf(h)'
  <2> SUFFICES ASSUME ~doubt PROVE MemOf(h)' OBVIOUS
  <2>1. MemOf(h) BY <1>1, <1>2 DEF OpenAgrees
  <2>2. \A u \in pending' : h.last < u BY <1>1, <1>3, <2>1 DEF MemOf
  <2> QED BY <1>1, <2>1, <2>2 DEF MemOf
<1>9. SlotsCurrent(h)' /\ SlotsCurrent(d)' BY <1>1, <1>2
<1> QED BY <1>1, <1>2, <1>6, <1>7, <1>8, <1>9 DEF Unretried, OpenAgrees

(* A delta that is written changes nothing that is shown. *)
LEMMA WriteDeltaUnretried ==
    ASSUME Inv1, Unretried, WriteDelta
    PROVE  Unretried'
<1> DEFINE h == file[0]
           n == next'
           m == NewManifest
           b == IF mem.slot # None THEN mem.manifest.base ELSE BaseIdentity(h)
           d == [page |-> h.pages + 1, content |-> m]
<1>1. /\ pc = "idle" /\ pc' = "header" /\ disk' = disk /\ mem' = mem /\ counter' = counter
      /\ pending' = pending /\ shown' = shown /\ wal' = wal /\ acked' = acked /\ doubt' = doubt
      /\ TakesDelta /\ DeltaValid /\ pending # {} /\ h.root # 0
      /\ file' = [file EXCEPT ![h.pages] = NewSegment, ![h.pages + 1] = m]
  BY DEF WriteDelta, history, Header, TakesDelta
<1>2. Images /\ MemOk /\ Facts BY <1>1 DEF Inv1, Open
<1>3. HeaderOk(h) /\ h.pages \in Nat \ {0} /\ h.last \in Nat
  <2>1. HeaderOk(h) /\ h.pages \in 1..(MaxPage + 1) BY <1>2, Zenon DEF Images, Sound, HeaderOk
  <2> QED BY <2>1, HeaderNumbers
<1>4. file'[0] = h
  <2>1. DOMAIN file = 0..MaxPage /\ 0 # h.pages /\ 0 # h.pages + 1 /\ 0 \in 0..MaxPage
    BY <1>2, <1>3, StoreAssumption DEF Images
  <2> HIDE DEF m
  <2> QED BY <1>1, <2>1
<1>5. /\ n.pages = h.pages + 2 /\ n.last = counter /\ n.root = h.root
      /\ n.start = h.start /\ n.count = h.count /\ n.catalog = h.catalog
      /\ n.slots[PublishedSlot] = d /\ d # Empty /\ PublishedSlot \in Slots
      /\ \A s \in Slots : n.slots[s] # Empty =>
            \/ s = PublishedSlot
            \/ mem.slot # None /\ h.slots[s] # Empty /\ n.slots[s] = h.slots[s]
      /\ n.slots # NoSlots /\ HeaderBase(n) = HeaderBase(h)
  BY <1>2, DeltaHeader
<1>6. /\ SlotsCurrent(h)' /\ SlotsCurrent(disk[0])'
      /\ HeaderAll(h)' = shown' \cup pending' /\ HeaderAll(disk[0])' = shown' \cup pending'
      /\ acked' \cup WalFacts' \subseteq shown' \cup pending'
  BY <1>1, <1>4, StillAgrees, Zenon
<1>7. SUFFICES ASSUME ~doubt
               PROVE  MemOf(h)' /\ SlotsCurrent(n) /\ NextMem' /\ HeaderFacts(n) = shown \cup pending
  BY <1>1, <1>6, Zenon DEF Unretried, OpenAgrees
<1>8. MemOf(h) /\ SlotsCurrent(h) BY <1>1, <1>7 DEF Unretried, OpenAgrees
<1>9. counter \in Nat /\ h.last + 1 <= counter
  <2>1. counter \in Nat /\ pending \subseteq 0..counter BY <1>2, StoreAssumption DEF Facts
  <2>2. PICK t \in pending : h.last < t BY <1>1, <1>8 DEF MemOf
  <2> QED BY <1>3, <2>1, <2>2
<1>9a. /\ h.pages <= n.pages /\ h.last <= n.last /\ h.last < counter /\ n.last = counter
       /\ h.pages \in Nat /\ h.last \in Nat /\ n.pages \in Nat /\ n.last \in Nat
  <2>1. n.pages = h.pages + 2 /\ n.last = counter BY <1>5
  <2>2. h.pages \in Nat /\ h.last \in Nat BY <1>3
  <2> HIDE DEF h, n
  <2> QED BY <1>9, <2>1, <2>2
<1>10. m.gen = counter /\ m.base = b
  <2>1. NextGeneration = counter BY <1>3, <1>9 DEF NextGeneration, MaxOf, Header
  <2> QED BY <2>1 DEF NewManifest, Header
<1>11. SegmentFacts(m.segs) = MemSegs \cup pending BY <1>1, <1>2, NewManifestOk
<1>12. d.content = m OBVIOUS
<1> HIDE DEF m, d
<1>13. ASSUME NEW s \in Slots, h.slots[s] # Empty
       PROVE  /\ h.slots[s].content.gen \in Nat /\ h.slots[s].content.gen <= h.last
              /\ BaseMatches(h.slots[s].content.base, n)
  <2>1. /\ ManifestOk(h.slots[s].content)
        /\ h.slots[s].content.gen <= h.last /\ BaseMatches(h.slots[s].content.base, h)
    BY <1>3, <1>8, <1>13, Zenon DEF HeaderOk, SlotOk, SlotsCurrent
  <2> DEFINE c == h.slots[s].content.base
  <2>2. c.pages \in Nat /\ c.last \in Nat /\ h.slots[s].content.gen \in Nat
    BY <2>1, Zenon DEF ManifestOk
  <2>3. c.pages <= h.pages /\ c.last <= h.last /\ c.count = h.count /\ c.root = h.root
        /\ c.sums = h.catalog.content.sums
    BY <2>1, Zenon DEF BaseMatches
  <2> HIDE DEF c
  <2>4. c.pages <= n.pages /\ c.last <= n.last
    <3>1. c.pages <= h.pages /\ c.last <= h.last BY <2>3
    <3> HIDE DEF h, n
    <3> QED BY <1>9a, <2>2, <3>1
  <2>5. BaseMatches(c, n) BY <1>5, <2>3, <2>4 DEF BaseMatches
  <2> QED BY <2>1, <2>2, <2>5, Zenon DEF c
<1>14. mem.slot # None => mem.slot \in Slots /\ h.slots[mem.slot] # Empty
                          /\ mem.manifest = h.slots[mem.slot].content
  BY <1>3, <1>8, SelectedSlot DEF MemOf, HeaderOk
<1>15. BaseMatches(b, n)
  <2>1. CASE mem.slot # None BY <1>13, <1>14, <2>1
  <2>2. CASE mem.slot = None
    <3>1. h.pages <= n.pages /\ h.last <= n.last BY <1>9a
    <3>2. b.pages = h.pages /\ b.count = h.count /\ b.last = h.last /\ b.root = h.root
          /\ b.sums = h.catalog.content.sums
      BY <2>2 DEF BaseIdentity
    <3> HIDE DEF b
    <3> QED BY <1>5, <3>1, <3>2 DEF BaseMatches
  <2> QED BY <2>1, <2>2
<1>16. SlotsCurrent(n)
  <2> SUFFICES ASSUME NEW s \in Slots, n.slots[s] # Empty
               PROVE  n.slots[s].content.gen <= n.last /\ BaseMatches(n.slots[s].content.base, n)
    BY DEF SlotsCurrent
  <2>1. CASE s = PublishedSlot BY <1>5, <1>9, <1>10, <1>12, <1>15, <2>1
  <2>2. CASE h.slots[s] # Empty /\ n.slots[s] = h.slots[s]
    <3>1. h.slots[s].content.gen <= counter
      <4> DEFINE g == h.slots[s].content.gen
      <4>1. g \in Nat /\ g <= h.last BY <1>13, <2>2
      <4> HIDE DEF g, h, n
      <4>2. g <= counter BY <1>9a, <4>1
      <4> QED BY <4>2 DEF g, h
    <3> QED BY <1>5, <1>13, <2>2, <3>1
  <2> QED BY <1>5, <2>1, <2>2
<1>17. HeaderSelected(n) = PublishedSlot
  <2>1. n.slots[PublishedSlot] # Empty /\ n.slots[PublishedSlot].content.gen = counter
    BY <1>5, <1>10, <1>12
  <2>2. ASSUME NEW s \in Slots, s # PublishedSlot, n.slots[s] # Empty
        PROVE  n.slots[s].content.gen \in Nat /\ n.slots[s].content.gen < counter
    <3>1. h.slots[s] # Empty /\ n.slots[s] = h.slots[s] BY <1>5, <2>2
    <3>2. h.slots[s].content.gen \in Nat /\ h.slots[s].content.gen <= h.last BY <1>13, <3>1
    <3> DEFINE g == h.slots[s].content.gen
    <3>3. g \in Nat /\ g <= h.last BY <3>2
    <3> HIDE DEF g, h, n
    <3>4. g < counter /\ g \in Nat BY <1>9a, <3>3
    <3> QED BY <3>1, <3>4 DEF g
  <2>3. CASE PublishedSlot = "primary"
    <3>1. n.slots["secondary"] # Empty =>
             n.slots["secondary"].content.gen \in Nat /\ n.slots["secondary"].content.gen < counter
      BY <2>2, <2>3 DEF Slots
    <3> QED BY <1>9, <2>1, <2>3, <3>1 DEF HeaderSelected
  <2>4. CASE PublishedSlot = "secondary"
    <3>1. n.slots["primary"] # Empty =>
             n.slots["primary"].content.gen \in Nat /\ n.slots["primary"].content.gen < counter
      BY <2>2, <2>4 DEF Slots
    <3> QED BY <1>9, <2>1, <2>4, <3>1 DEF HeaderSelected
  <2> QED BY <1>5, <2>3, <2>4 DEF Slots
<1>18. HeaderFacts(n) = shown \cup pending
  <2>1. HeaderSegments(n) = m.segs
    BY <1>5, <1>12, <1>17, StoreAssumption DEF HeaderSegments
  <2>2. SegmentFacts(HeaderSegments(h)) = MemSegs
    <3>1. SegmentFacts(<<>>) = {} BY DEF SegmentFacts
    <3>2. mem.slot = HeaderSelected(h) BY <1>8 DEF MemOf
    <3> QED BY <1>14, <3>1, <3>2, Zenon DEF HeaderSegments, MemSegs
  <2>3. shown = HeaderBase(h) \cup MemSegs BY <1>8, <2>2 DEF MemOf, HeaderFacts
  <2> QED BY <1>5, <1>11, <2>1, <2>3 DEF HeaderFacts
<1>19. NextMem'
  <2>1. mem.catalog = h.catalog /\ mem.start = h.start /\ mem.count = h.count BY <1>8 DEF MemOf
  <2>2. PublishedSlot' = PublishedSlot BY <1>1 DEF PublishedSlot
  <2> QED BY <1>1, <1>5, <1>17, <2>1, <2>2 DEF NextMem
<1>20. MemOf(h)' BY <1>1, <1>4, <1>8, Zenon DEF MemOf
<1> QED BY <1>16, <1>18, <1>19, <1>20

(* A refused delta changes nothing that is shown. *)
LEMMA RefuseDeltaUnretried ==
    ASSUME Inv1, Unretried, RefuseDelta
    PROVE  Unretried'
<1> DEFINE h == file[0]
<1>1. /\ pc = "idle" /\ pc' = "idle" /\ disk' = disk /\ mem' = mem /\ pending' = pending
      /\ shown' = shown /\ wal' = wal /\ acked' = acked /\ doubt' = doubt
      /\ file' = [file EXCEPT ![h.pages] = NewSegment]
  BY DEF RefuseDelta, process, history, Header
<1>2. file'[0] = h
  <2>1. Images BY DEF Inv1
  <2>2. DOMAIN file = 0..MaxPage /\ h.pages \in 1..(MaxPage + 1)
    BY <2>1 DEF Images, Sound, HeaderOk
  <2>3. 0 # h.pages /\ 0 \in 0..MaxPage BY <2>2, StoreAssumption
  <2> QED BY <1>1, <2>2, <2>3
<1>3. /\ SlotsCurrent(h)' /\ SlotsCurrent(disk[0])'
      /\ HeaderAll(h)' = shown' \cup pending' /\ HeaderAll(disk[0])' = shown' \cup pending'
      /\ acked' \cup WalFacts' \subseteq shown' \cup pending'
  BY <1>1, <1>2, StillAgrees
<1>4. ~doubt => MemOf(h)' BY <1>1, <1>2 DEF Unretried, OpenAgrees, MemOf
<1> QED BY <1>1, <1>3, <1>4 DEF Unretried, OpenAgrees

(* The base a full save or a recompaction writes holds every fact. *)
LEMMA WriteBaseUnretried ==
    ASSUME Inv1, Unretried, WriteFull \/ WriteRecompact
    PROVE  Unretried'
<1> DEFINE h == file[0]
<1>1. PICK start, old, fresh, all : WriteBase(start, old, fresh, all)
  BY DEF WriteFull, WriteRecompact
<1>2. /\ pc = "idle" /\ pc' = "data" /\ disk' = disk /\ mem' = mem /\ pending' = pending
      /\ shown' = shown /\ wal' = wal /\ acked' = acked /\ doubt' = doubt
  BY <1>1 DEF WriteBase, WriteFull, WriteRecompact
<1>3. Inv1' /\ pending \subseteq NewBase'
  <2>1. CASE WriteFull BY <2>1, WriteFullInv1
  <2>2. CASE WriteRecompact
    <3>1. pending = {} BY <2>2 DEF WriteRecompact
    <3> QED BY <2>2, <3>1, WriteRecompactInv1
  <2> QED BY <2>1, <2>2
<1>4. NextBase' BY <1>2, <1>3 DEF Inv1, Open, Saving
<1>5. file'[0] = h
  <2>1. CASE WriteFull
    <3>1. mem.start \in Nat \ {0} /\ mem.count \in Nat BY <1>2 DEF Inv1, Open, MemOk, MemShape
    <3> DEFINE q == mem.start
               k == mem.count
               a == Indexed \cup pending
    <3>2. WriteBase(q, k, pending, a) BY <2>1 DEF WriteFull
    <3>3. Images BY DEF Inv1
    <3>4. q \in Nat \ {0} /\ k \in Nat BY <3>1
    <3> HIDE DEF q, k, a
    <3> QED BY <3>2, <3>3, <3>4, WriteBaseStep, Zenon
  <2>2. CASE WriteRecompact
    <3> DEFINE q == h.pages
    <3>1. WriteBase(q, 0, shown, shown) BY <2>2 DEF WriteRecompact, Header
    <3>2. Images BY DEF Inv1
    <3>3. q \in 1..(MaxPage + 1) BY <3>2 DEF Images, Sound, HeaderOk
    <3>4. q \in Nat \ {0} /\ 0 \in Nat BY <3>3, StoreAssumption
    <3> HIDE DEF q
    <3> QED BY <3>1, <3>2, <3>4, WriteBaseStep, Zenon
  <2> QED BY <2>1, <2>2
<1>6. /\ SlotsCurrent(h)' /\ SlotsCurrent(disk[0])'
      /\ HeaderAll(h)' = shown' \cup pending' /\ HeaderAll(disk[0])' = shown' \cup pending'
      /\ acked' \cup WalFacts' \subseteq shown' \cup pending'
  BY <1>2, <1>5, StillAgrees
<1>7. ~doubt => MemOf(h)' /\ NewBase' = shown \cup pending
  <2> SUFFICES ASSUME ~doubt PROVE MemOf(h)' /\ NewBase' = shown \cup pending OBVIOUS
  <2>1. MemOf(h) BY <1>2 DEF Unretried, OpenAgrees
  <2>2. MemOf(h)' BY <1>2, <1>5, <2>1 DEF MemOf
  <2>3. HeaderFacts(h) \subseteq NewBase' /\ NewBase' \subseteq shown \cup pending
    BY <1>2, <1>4, <1>5 DEF NextBase
  <2> QED BY <1>3, <2>1, <2>2, <2>3 DEF MemOf
<1> QED BY <1>2, <1>6, <1>7 DEF Unretried, OpenAgrees

(* The catalog page changes nothing that is shown. *)
LEMMA WriteCatalogUnretried ==
    ASSUME Inv1, Unretried, WriteCatalog
    PROVE  Unretried'
<1> DEFINE h == file[0]
<1>1. /\ pc = "data" /\ pc' = "header" /\ disk' = file /\ mem' = mem /\ pending' = pending
      /\ shown' = shown /\ wal' = wal /\ acked' = acked /\ doubt' = doubt
  BY DEF WriteCatalog, history
<1>2. Inv1' /\ next'.slots = NoSlots /\ HeaderFacts(next') = NewBase BY WriteCatalogInv1
<1>3. file'[0] = h
  <2>1. Images /\ NextBase BY <1>1 DEF Inv1, Open, Saving
  <2>2. DOMAIN file = 0..MaxPage BY <2>1 DEF Images
  <2>3. next.pages - 1 # 0
    <3>1. next.root \in Nat \ {0} /\ next.pages = next.root + 2
      <4>1. next.start \in Nat \ {0} /\ next.count \in Nat \ {0} /\ next.root = next.start + next.count
            /\ next.pages = next.root + 2
        BY <2>1 DEF NextBase
      <4> QED BY <4>1
    <3> QED BY <3>1
  <2>4. \E c : file' = [file EXCEPT ![next.pages - 1] = c] BY Zenon DEF WriteCatalog
  <2> QED BY <2>2, <2>3, <2>4, StoreAssumption
<1>4. /\ SlotsCurrent(h)' /\ SlotsCurrent(disk[0])'
      /\ HeaderAll(h)' = shown' \cup pending' /\ HeaderAll(disk[0])' = shown' \cup pending'
      /\ acked' \cup WalFacts' \subseteq shown' \cup pending'
  BY <1>1, <1>3, StillAgrees
<1>5. ~doubt => MemOf(h)' /\ NewBase = shown \cup pending
  <2> SUFFICES ASSUME ~doubt PROVE MemOf(h)' /\ NewBase = shown \cup pending OBVIOUS
  <2>1. MemOf(h) /\ NewBase = shown \cup pending BY <1>1 DEF Unretried, OpenAgrees
  <2> QED BY <1>1, <1>3, <2>1 DEF MemOf
<1>6. NextMem' BY <1>2 DEF NextMem
<1>7. SlotsCurrent(next')
  <2>1. \A s \in Slots : next'.slots[s] = Empty BY <1>2 DEF NoSlots
  <2> QED BY <2>1 DEF SlotsCurrent
<1> QED BY <1>1, <1>2, <1>4, <1>5, <1>6, <1>7 DEF Unretried, OpenAgrees

(* A first write of page 0 shows what the handle shows. *)
LEMMA WriteHeaderUnretried ==
    ASSUME Inv1, Unretried, WriteHeader, ~doubt
    PROVE  Unretried'
<1> DEFINE h == file[0]
<1>1. /\ pc = "header" /\ pc' = "sync" /\ disk' = file /\ file' = [file EXCEPT ![0] = next]
      /\ mem' = mem /\ pending' = pending /\ shown' = shown /\ next' = next /\ wal' = wal
      /\ acked' = acked /\ doubt' = doubt
  BY DEF WriteHeader
<1>2. file'[0] = next
  <2>1. DOMAIN file = 0..MaxPage BY DEF Inv1, Images
  <2> QED BY <1>1, <2>1, StoreAssumption
<1>3. /\ HeaderAll(h) = shown \cup pending /\ acked \cup WalFacts \subseteq shown \cup pending
      /\ MemOf(h) /\ SlotsCurrent(next) /\ SlotsCurrent(h) /\ NextMem
      /\ HeaderFacts(next) = shown \cup pending
  BY <1>1 DEF Unretried, OpenAgrees
<1>4. HeaderAll(next) = shown \cup pending
  <2>1. Replay(next) \subseteq WalFacts BY DEF Replay, WalFacts
  <2> QED BY <1>3, <2>1 DEF HeaderAll
<1>5. HeaderAll(file[0])' = shown' \cup pending'
  BY <1>1, <1>2, <1>4 DEF HeaderAll, Replay
<1>6. HeaderAll(disk[0])' = shown' \cup pending'
  BY <1>1, <1>3 DEF HeaderAll, Replay
<1>7. WalFacts' = WalFacts BY <1>1 DEF WalFacts
<1>8. SlotsCurrent(file[0])' /\ SlotsCurrent(disk[0])' BY <1>1, <1>2, <1>3
<1>9. MemOf(disk[0])' BY <1>1, <1>3 DEF MemOf
<1>10. NextMem' BY <1>1, <1>3 DEF NextMem, PublishedSlot
<1> QED BY <1>1, <1>3, <1>5, <1>6, <1>7, <1>8, <1>9, <1>10 DEF Unretried, OpenAgrees

(* A failed save changes nothing that is shown. *)
LEMMA SaveFailsUnretried ==
    ASSUME Inv1, Unretried, SaveFails
    PROVE  Unretried'
<1>1. /\ pc \in {"data", "header", "sync"} /\ pc' = "idle" /\ file' = file /\ mem' = mem
      /\ pending' = pending /\ shown' = shown /\ wal' = wal /\ acked' = acked
      /\ disk' \in {disk, file} /\ doubt' = (doubt \/ pc = "sync")
  BY DEF SaveFails, history
<1>2. disk'[0] \in {disk[0], file[0]} BY <1>1
<1>3. /\ SlotsCurrent(file[0])' /\ SlotsCurrent(disk[0])'
      /\ HeaderAll(file[0])' = shown' \cup pending' /\ HeaderAll(disk[0])' = shown' \cup pending'
      /\ acked' \cup WalFacts' \subseteq shown' \cup pending'
  BY <1>1, <1>2, StillAgrees
<1>4. ~doubt' => MemOf(file[0])'
  <2> SUFFICES ASSUME ~doubt' PROVE MemOf(file[0])' OBVIOUS
  <2>1. ~doubt /\ pc # "sync" BY <1>1, Zenon
  <2>2. MemOf(file[0]) BY <1>1, <2>1 DEF Unretried, OpenAgrees
  <2> QED BY <1>1, <2>2 DEF MemOf
<1> QED BY <1>1, <1>3, <1>4 DEF Unretried, OpenAgrees

(* After the sync of page 0 both versions of the file show the same. *)
LEMMA SyncHeaderUnretried ==
    ASSUME Inv1, Unretried, SyncHeader
    PROVE  Unretried'
<1> DEFINE h == file[0]
           s == PublishedSlot
           m == h.slots[s].content
<1>1. /\ pc = "sync" /\ pc' \in {"retire", "idle"} /\ file' = file /\ disk' = file
      /\ shown' = shown \cup pending /\ pending' = {} /\ wal' = wal /\ acked' = acked
      /\ doubt' = doubt
  BY DEF SyncHeader, history
<1>2. MemOk /\ NextOk /\ h = next BY <1>1 DEF Inv1, Open, Saving
<1>3. /\ ~doubt /\ HeaderAll(h) = shown \cup pending /\ NextMem
      /\ acked \cup WalFacts \subseteq shown \cup pending
      /\ HeaderFacts(h) = shown \cup pending /\ SlotsCurrent(h)
  BY <1>1, <1>2 DEF Unretried, OpenAgrees
<1>4. mem' = IF h.slots = NoSlots
             THEN [slot |-> None, manifest |-> None, catalog |-> h.catalog,
                   start |-> h.start, count |-> h.count]
             ELSE [mem EXCEPT !.slot = s, !.manifest = m]
  BY <1>2 DEF SyncHeader
<1>5. MemOf(h)'
  <2>1. CASE h.slots = NoSlots
    <3>1. HeaderSelected(h) = None BY <1>2, <2>1, SelectedSlot DEF NextOk, HeaderOk
    <3>2. mem'.slot = None /\ mem'.catalog = h.catalog /\ mem'.start = h.start
          /\ mem'.count = h.count
      BY <1>4, <2>1
    <3> QED BY <1>1, <1>3, <3>1, <3>2 DEF MemOf
  <2>2. CASE h.slots # NoSlots
    <3>1. mem' = [mem EXCEPT !.slot = s, !.manifest = m] BY <1>4, <2>2
    <3>2. mem = [k \in MemFields |-> mem[k]] BY <1>2 DEF MemOk, MemShape
    <3>3. HeaderSelected(h) = s /\ mem.catalog = h.catalog /\ mem.start = h.start
          /\ mem.count = h.count
      BY <1>2, <1>3, <2>2 DEF NextMem
    <3> HIDE DEF s, m, h
    <3>4. mem' = [k \in MemFields |-> IF k = "slot" THEN s ELSE IF k = "manifest" THEN m ELSE mem[k]]
      BY <3>1, <3>2, Zenon DEF MemFields
    <3>5. /\ mem'.slot = s /\ mem'.manifest = m /\ mem'.catalog = mem.catalog
          /\ mem'.start = mem.start /\ mem'.count = mem.count
      BY <3>4 DEF MemFields
    <3>6. mem'.slot = HeaderSelected(file'[0]) /\ mem'.manifest = file'[0].slots[mem'.slot].content
          /\ mem'.catalog = file'[0].catalog /\ mem'.start = file'[0].start
          /\ mem'.count = file'[0].count /\ shown' = HeaderFacts(file'[0])
      BY <1>1, <1>3, <3>3, <3>5 DEF h, m
    <3> QED BY <1>1, <3>6 DEF MemOf, h
  <2> QED BY <2>1, <2>2
<1>6. HeaderAll(file[0])' = HeaderAll(h) /\ HeaderAll(disk[0])' = HeaderAll(h)
  BY <1>1 DEF HeaderAll, Replay
<1>7. WalFacts' = WalFacts BY <1>1 DEF WalFacts
<1>8. SlotsCurrent(file[0])' /\ SlotsCurrent(disk[0])' BY <1>1, <1>3
<1>9. disk'[0] = file'[0] BY <1>1
<1> QED BY <1>1, <1>3, <1>5, <1>6, <1>7, <1>8, <1>9 DEF Unretried, OpenAgrees

(* The WAL is retired after what it holds is in the synced image. *)
LEMMA RetireUnretried ==
    ASSUME Inv1, Unretried, RetireWal \/ RetireFails
    PROVE  Unretried'
<1>1. /\ pc = "retire" /\ pc' = "idle" /\ file' = file /\ disk' = disk /\ mem' = mem
      /\ pending' = pending /\ shown' = shown /\ acked' = acked /\ doubt' = doubt
      /\ wal' = wal \/ wal' = {}
  BY DEF RetireWal, RetireFails, history
<1>2. /\ ~doubt /\ MemOf(file[0]) /\ pending = {} /\ disk[0] = file[0]
      /\ HeaderAll(file[0]) = shown \cup pending /\ SlotsCurrent(file[0])
      /\ acked \cup WalFacts \subseteq shown \cup pending
  BY <1>1, Zenon DEF Unretried, OpenAgrees
<1>3. HeaderFacts(file[0]) = shown BY <1>2 DEF MemOf
<1>4. HeaderAll(file[0])' = shown /\ HeaderAll(disk[0])' = shown /\ WalFacts' \subseteq WalFacts
  <2>1. CASE wal' = wal
    BY <1>1, <1>2, <2>1 DEF HeaderAll, Replay, WalFacts
  <2>2. CASE wal' = {}
    <3>1. Replay(file[0])' = {} /\ Replay(disk[0])' = {} /\ WalFacts' = {}
      BY <2>2 DEF Replay, WalFacts
    <3>2. HeaderFacts(file[0])' = shown /\ HeaderFacts(disk[0])' = shown BY <1>1, <1>2, <1>3
    <3> QED BY <3>1, <3>2 DEF HeaderAll
  <2> QED BY <1>1, <2>1, <2>2
<1>5. MemOf(file[0])' BY <1>1, <1>2 DEF MemOf
<1>6. SlotsCurrent(file[0])' /\ SlotsCurrent(disk[0])' BY <1>1, <1>2
<1> QED BY <1>1, <1>2, <1>4, <1>5, <1>6 DEF Unretried, OpenAgrees

(* A crash leaves an image that, with the WAL, shows what was shown. *)
LEMMA StopUnretried ==
    ASSUME Inv1, Unretried, Kill \/ PowerLoss
    PROVE  Unretried'
<1>1. pc' = "closed" /\ wal' = wal /\ acked' = acked BY DEF Kill, PowerLoss, Stop, history
<1>2. file'[0] \in {file[0], disk[0]} /\ disk'[0] \in {file[0], disk[0]}
  <2>1. CASE Kill BY <2>1 DEF Kill
  <2>2. CASE PowerLoss
    <3>1. DOMAIN file = 0..MaxPage BY DEF Inv1, Images
    <3>2. PICK kept : file' = [p \in DOMAIN file |-> IF p \in kept THEN file[p] ELSE disk[p]]
      BY <2>2 DEF PowerLoss
    <3>3. disk' = file' BY <2>2 DEF PowerLoss
    <3> QED BY <3>1, <3>2, <3>3, StoreAssumption
  <2> QED BY <2>1, <2>2
<1>3. /\ HeaderAll(file[0]) = HeaderAll(disk[0]) /\ SlotsCurrent(file[0]) /\ SlotsCurrent(disk[0])
      /\ acked \cup WalFacts \subseteq HeaderAll(file[0])
  BY DEF Unretried, OpenAgrees
<1>4. HeaderAll(file[0])' \in {HeaderAll(file[0]), HeaderAll(disk[0])}
  <2>1. file'[0] = file[0] => HeaderAll(file[0])' = HeaderAll(file[0])
    BY <1>1 DEF HeaderAll, Replay
  <2>2. file'[0] = disk[0] => HeaderAll(file[0])' = HeaderAll(disk[0])
    BY <1>1 DEF HeaderAll, Replay
  <2> QED BY <1>2, <2>1, <2>2
<1>5. HeaderAll(disk[0])' \in {HeaderAll(file[0]), HeaderAll(disk[0])}
  <2>1. disk'[0] = file[0] => HeaderAll(disk[0])' = HeaderAll(file[0])
    BY <1>1 DEF HeaderAll, Replay
  <2>2. disk'[0] = disk[0] => HeaderAll(disk[0])' = HeaderAll(disk[0])
    BY <1>1 DEF HeaderAll, Replay
  <2> QED BY <1>2, <2>1, <2>2
<1>6. SlotsCurrent(file[0])' /\ SlotsCurrent(disk[0])' BY <1>2, <1>3
<1>7. WalFacts' = WalFacts BY <1>1 DEF WalFacts
<1> QED BY <1>1, <1>3, <1>4, <1>5, <1>6, <1>7 DEF Unretried
=============================================================================
