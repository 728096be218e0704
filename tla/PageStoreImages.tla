-------------------------- MODULE PageStoreImages ---------------------------
(***************************************************************************)
(* PageStore for every bound: what a published page 0 says about the pages *)
(* it names, and the steps of a delta checkpoint.                          *)
(***************************************************************************)
EXTENDS PageStore, TLAPS

-----------------------------------------------------------------------------
(* What page 0 alone says it shows.                                        *)

FactRange(h) == h.start..(h.start + h.count - 1)
Sums(h) == h.catalog.content.sums

HeaderBase(h) == UNION {Sums(h)[p].facts : p \in FactRange(h)}

HeaderSelected(h) ==
    LET first == h.slots["primary"]
        second == h.slots["secondary"]
    IN  IF first # Empty /\ (second = Empty \/ first.content.gen >= second.content.gen)
        THEN "primary"
        ELSE IF second # Empty THEN "secondary" ELSE None

HeaderSegments(h) ==
    IF HeaderSelected(h) = None THEN <<>> ELSE h.slots[HeaderSelected(h)].content.segs

HeaderFacts(h) == HeaderBase(h) \cup SegmentFacts(HeaderSegments(h))

-----------------------------------------------------------------------------
(* The inductive invariant of the images.                                  *)

Segment == [kind : {"segment"}, page : Nat \ {0}, facts : SUBSET Nat]

(* A manifest is what DeltaManifest::validate accepts, over a base whose   *)
(* facts its watermark covers.                                             *)
ManifestOk(m) ==
    /\ m.gen \in Nat /\ m.base.last \in Nat /\ m.base.root \in Nat /\ m.base.pages \in Nat
    /\ m.segs \in Seq(Segment)
    /\ SegmentsOrdered(m.base, m.segs)
    /\ \A p \in DOMAIN m.base.sums :
          p < m.base.root => m.base.sums[p].facts \subseteq 0..m.base.last

SlotOk(h, d) ==
    /\ d.page \in 1..(h.pages - 1)
    /\ ManifestOk(d.content) /\ d.content.gen <= h.last + 1
    /\ \A i \in DOMAIN d.content.segs :
          /\ d.content.segs[i].page < h.pages
          /\ d.content.segs[i].facts \subseteq 0..h.last

HeaderFields == {"kind", "pages", "last", "root", "start", "count", "catalog", "slots"}

HeaderShape(h) ==
    h = [k \in HeaderFields |-> h[k]] /\ h.slots = [s \in Slots |-> h.slots[s]]

HeaderOk(h) ==
    /\ HeaderShape(h)
    /\ h.pages \in 1..(MaxPage + 1) /\ h.last \in 0..MaxTx
    /\ h.start \in Nat \ {0} /\ h.root \in Nat /\ h.count \in Nat
    /\ h.root = 0 => h = FreshHeader
    /\ h.root # 0 =>
          /\ h.root = h.start + h.count /\ h.count > 0 /\ h.root + 1 < h.pages
          /\ h.catalog # Empty /\ h.catalog.page = h.root + 1
          /\ DOMAIN Sums(h) = h.start..h.root
          /\ \A p \in FactRange(h) : Sums(h)[p].facts \subseteq 0..h.last
          /\ Sums(h)[h.root].kind = "index"
          /\ h.slots = NoSlots => h.pages = h.root + 2
    /\ \A s \in Slots : h.slots[s] # Empty => SlotOk(h, h.slots[s])

(* What reading the facts of page 0 `h` needs of the pages f. *)
FactsKept(h, f) ==
    /\ \A p \in FactRange(h) : f[p] = Sums(h)[p]
    /\ \A s \in Slots : h.slots[s] # Empty =>
          /\ f[h.slots[s].page] = h.slots[s].content
          /\ \A i \in DOMAIN h.slots[s].content.segs :
                f[h.slots[s].content.segs[i].page] = h.slots[s].content.segs[i]

(* And what opening it needs besides: the index page and the catalog. *)
BaseKept(h, f) ==
    h.root # 0 => f[h.root] = Sums(h)[h.root] /\ f[h.catalog.page] = h.catalog.content

(* `new` does not take the pages of `old` for something else. *)
Follows(new, old) ==
    /\ old.pages <= new.pages /\ old.last <= new.last
    /\ \/ old.root = 0
       \/ /\ old.start = new.start /\ old.count <= new.count /\ new.root # 0
          /\ new.slots = NoSlots => old.slots = NoSlots
       \/ old.pages <= new.start

(* Page 0 `h` is sound and finds its pages in both versions of the file. *)
Sound(h) ==
    /\ HeaderOk(h)
    /\ FactsKept(h, file) /\ FactsKept(h, disk)
    /\ ~rewritten => BaseKept(h, file) /\ BaseKept(h, disk)

Images ==
    /\ file = [p \in 0..MaxPage |-> file[p]] /\ disk = [p \in 0..MaxPage |-> disk[p]]
    /\ Follows(file[0], disk[0])
    /\ Sound(file[0]) /\ Sound(disk[0])

-----------------------------------------------------------------------------
(* The inductive invariant of an open handle.                              *)

MemSegs == IF mem.slot = None THEN {} ELSE SegmentFacts(mem.manifest.segs)
MemRoot == mem.start + mem.count

(* The base in memory was written over in the file. *)
Stale == mem.catalog # Empty /\ file[MemRoot] # mem.catalog.content.sums[MemRoot]

EmptyFacts == [kind |-> "facts", facts |-> {}]

MemFields == {"slot", "manifest", "catalog", "start", "count"}

MemShape ==
    /\ mem = [k \in MemFields |-> mem[k]]
    /\ mem.slot \in Slots \cup {None} /\ mem.start \in Nat \ {0} /\ mem.count \in Nat

(* The manifest in memory is one the file still has. *)
MemManifest ==
    mem.slot # None =>
        /\ file[0].root # 0 /\ ManifestOk(mem.manifest)
        /\ mem.manifest.gen <= file[0].last + 1
        /\ \A i \in DOMAIN mem.manifest.segs :
              /\ mem.manifest.segs[i].page < file[0].pages
              /\ file[mem.manifest.segs[i].page] = mem.manifest.segs[i]
              /\ mem.manifest.segs[i].facts \subseteq shown
        /\ file[0].slots[mem.slot] # Empty =>
              file[0].slots[mem.slot].content = mem.manifest

MemCatalog ==
    /\ mem.catalog = Empty => mem.start = 1 /\ mem.count = 0
    /\ mem.catalog # Empty =>
          /\ DOMAIN mem.catalog.content.sums = mem.start..MemRoot
          /\ mem.catalog.content.sums[MemRoot].kind = "index"
          /\ MemRoot < file[0].pages /\ mem.count > 0
          /\ \A p \in mem.start..(MemRoot - 1) :
                mem.catalog.content.sums[p].facts \subseteq 0..counter
    /\ file[0].root = 0 => mem.slot = None /\ mem.catalog = Empty

(* A full save over a published base: memory is in step with page 0, or    *)
(* the save will be refused, or it is behind one save without facts.       *)
MemBase ==
    mem.slot = None /\ pending = {} =>
        /\ file[0].slots = NoSlots
        /\ \/ mem.start = file[0].start /\ mem.count = file[0].count
              /\ mem.catalog = file[0].catalog
           \/ Stale
           \/ mem.catalog = Empty /\ file[0].start = 1 /\ file[0].count = 1
              /\ Sums(file[0])[1] = EmptyFacts

MemOk == MemShape /\ MemManifest /\ MemCatalog /\ MemBase

Facts ==
    /\ counter \in 0..MaxTx /\ file[0].last <= counter
    /\ shown \cup pending \subseteq 0..counter
    /\ HeaderFacts(file[0]) \subseteq shown \cup pending
    /\ SegmentFacts(HeaderSegments(file[0])) \subseteq
          HeaderBase(file[0]) \cup MemSegs \cup pending

-----------------------------------------------------------------------------
(* The inductive invariant of a save.                                      *)

NewBase == UNION {file[p].facts : p \in FactRange(next)}

(* The base pages of a full save or a recompaction are written. *)
NextBase ==
    /\ next = [k \in HeaderFields |-> next[k]]
    /\ next.last = counter /\ next.catalog = Empty /\ next.slots = NoSlots
    /\ next.start \in Nat \ {0} /\ next.count \in Nat \ {0}
    /\ next.root = next.start + next.count
    /\ next.pages = next.root + 2 /\ next.pages <= MaxPage + 1
    /\ \A p \in FactRange(next) : file[p].facts \subseteq 0..counter
    /\ file[next.root].kind = "index"
    /\ HeaderFacts(file[0]) \subseteq NewBase
    /\ NewBase \subseteq shown \cup pending
    /\ \/ next.start >= file[0].pages
       \/ /\ mem.slot = None /\ file[0].slots = NoSlots
          /\ next.start = file[0].start /\ file[0].count <= next.count
          /\ rewritten \/ file[0].root = 0

(* Memory is behind once the page 0 of a full save is in the file. *)
FullSave ==
    mem.slot = None =>
       /\ mem.catalog # Empty => Stale
       /\ mem.catalog = Empty /\ pending = {} =>
             next.start = 1 /\ next.count = 1 /\ file[1] = EmptyFacts

NextSegments ==
    \/ next.slots = NoSlots
    \/ /\ pending # {}
       /\ next.slots[PublishedSlot] # Empty
       /\ SegmentFacts(next.slots[PublishedSlot].content.segs) = MemSegs \cup pending
       /\ mem.slot # None /\ next.slots[mem.slot] # Empty =>
             next.slots[mem.slot].content = mem.manifest
       /\ mem.slot = None => next.slots["secondary"] = Empty

(* The page 0 a save is about to write, or has written. *)
NextOk ==
    /\ HeaderOk(next) /\ next.last = counter /\ next.root # 0
    /\ FactsKept(next, file) /\ (~rewritten => BaseKept(next, file))
    /\ HeaderFacts(next) \subseteq shown \cup pending
    /\ NextSegments

Saving ==
    /\ pc = "data" => NextBase /\ FullSave
    /\ pc = "header" =>
          /\ NextOk /\ Follows(next, file[0])
          /\ HeaderFacts(file[0]) \subseteq HeaderFacts(next)
          /\ next.slots = NoSlots => FullSave
    /\ pc = "sync" => NextOk /\ file[0] = next

Wal == \A e \in wal : e.tx \in 0..MaxTx

Open == MemOk /\ Facts /\ Saving

Inv1 ==
    /\ pc \in {"closed", "idle", "data", "header", "sync", "retire"}
    /\ Wal /\ Images
    /\ pc # "closed" => Open

-----------------------------------------------------------------------------
(* Reading an image.                                                       *)

(* The numbers of page 0. *)
LEMMA HeaderNumbers ==
    ASSUME NEW h, HeaderOk(h)
    PROVE  /\ h.pages \in Nat \ {0} /\ h.pages <= MaxPage + 1 /\ h.last \in Nat
           /\ h.start \in Nat \ {0} /\ h.root \in Nat /\ h.count \in Nat
           /\ h.root # 0 => h.root = h.start + h.count /\ h.count > 0 /\ h.root + 1 < h.pages
<1>1. h.pages \in 1..(MaxPage + 1) /\ h.last \in 0..MaxTx BY DEF HeaderOk
<1>2. h.pages \in Nat \ {0} /\ h.pages <= MaxPage + 1 /\ h.last \in Nat
  BY <1>1, StoreAssumption
<1>3. /\ h.start \in Nat \ {0} /\ h.root \in Nat /\ h.count \in Nat
      /\ h.root # 0 => h.root = h.start + h.count /\ h.count > 0 /\ h.root + 1 < h.pages
  BY DEF HeaderOk
<1> QED BY <1>2, <1>3

(* The slot page 0 selects is one it has. *)
LEMMA SelectedSlot ==
    ASSUME NEW h, HeaderShape(h)
    PROVE  /\ HeaderSelected(h) \in Slots \cup {None}
           /\ HeaderSelected(h) = None <=> h.slots = NoSlots
           /\ HeaderSelected(h) # None => h.slots[HeaderSelected(h)] # Empty
<1>1. h.slots = NoSlots <=> \A s \in Slots : h.slots[s] = Empty
  BY DEF HeaderShape, NoSlots
<1> QED BY <1>1, StoreAssumption DEF HeaderSelected, Slots

(* What load finds in a file is what its page 0 says. *)
LEMMA ReadsHeader ==
    ASSUME NEW f, HeaderOk(f[0]), FactsKept(f[0], f)
    PROVE  /\ \A s \in Slots : SlotUsable(f, s) <=> f[0].slots[s] # Empty
           /\ BaseFacts(f) = HeaderBase(f[0])
           /\ Selected(f) = HeaderSelected(f[0])
           /\ Segments(f) = HeaderSegments(f[0])
           /\ LoadedFacts(f) = HeaderFacts(f[0])
<1> DEFINE h == f[0]
<1>1. ASSUME NEW s \in Slots
      PROVE  SlotUsable(f, s) <=> h.slots[s] # Empty
  <2>1. ASSUME h.slots[s] # Empty PROVE SlotUsable(f, s)
    <3>1. SlotOk(h, h.slots[s]) BY <2>1 DEF HeaderOk
    <3>2. h.slots[s].page \in 1..(h.pages - 1) /\ h.pages \in Nat
      BY <3>1, HeaderNumbers DEF SlotOk
    <3>3. h.slots[s].page < h.pages BY <3>2
    <3>4. \A i \in DOMAIN h.slots[s].content.segs : h.slots[s].content.segs[i].page < h.pages
      BY <3>1 DEF SlotOk
    <3> QED BY <2>1, <3>3, <3>4, Zenon DEF FactsKept, SlotUsable
  <2> QED BY <2>1, Zenon DEF SlotUsable
<1>2. BaseFacts(f) = HeaderBase(h)
  BY DEF BaseFacts, HeaderBase, FactsKept, FactRange
<1>3. Selected(f) = HeaderSelected(h)
  <2> DEFINE usable == {s \in Slots : SlotUsable(f, s)}
  <2>1. CASE h.slots["primary"] = Empty /\ h.slots["secondary"] = Empty
    <3>1. usable = {} BY <1>1, <2>1 DEF Slots
    <3> QED BY <2>1, <3>1 DEF Selected, HeaderSelected
  <2>2. CASE h.slots["primary"] # Empty /\ h.slots["secondary"] = Empty
    <3>1. usable = {"primary"} BY <1>1, <2>2 DEF Slots
    <3> QED BY <2>2, <3>1 DEF Selected, HeaderSelected, Slots
  <2>3. CASE h.slots["primary"] = Empty /\ h.slots["secondary"] # Empty
    <3>1. usable = {"secondary"} BY <1>1, <2>3 DEF Slots
    <3> QED BY <2>3, <3>1 DEF Selected, HeaderSelected, Slots
  <2>4. CASE h.slots["primary"] # Empty /\ h.slots["secondary"] # Empty
    <3>1. usable = Slots /\ usable # {} BY <1>1, <2>4 DEF Slots
    <3> QED BY <2>4, <3>1 DEF Selected, HeaderSelected
  <2> QED BY <2>1, <2>2, <2>3, <2>4
<1>4. Segments(f) = HeaderSegments(h)
  BY <1>3 DEF Segments, HeaderSegments, Manifest
<1> QED BY <1>1, <1>2, <1>3, <1>4 DEF LoadedFacts, HeaderFacts

(* The page 0 of a new file. *)
LEMMA FreshSound ==
    /\ HeaderOk(FreshHeader) /\ FreshHeader.slots = NoSlots
    /\ HeaderFacts(FreshHeader) = {}
    /\ \A f : FactsKept(FreshHeader, f) /\ BaseKept(FreshHeader, f)
<1>1. FreshHeader.slots = NoSlots /\ FreshHeader.root = 0 /\ FactRange(FreshHeader) = {}
  BY DEF FreshHeader, FactRange
<1>2. HeaderOk(FreshHeader)
  <2>1. FreshHeader = [k \in HeaderFields |-> FreshHeader[k]]
    BY DEF FreshHeader, HeaderFields
  <2>2. HeaderShape(FreshHeader) BY <1>1, <2>1 DEF HeaderShape, NoSlots
  <2>3. /\ FreshHeader.pages = 1 /\ FreshHeader.last = 0 /\ FreshHeader.start = 1
        /\ FreshHeader.count = 0
    BY DEF FreshHeader
  <2>4. \A s \in Slots : FreshHeader.slots[s] = Empty BY <1>1 DEF NoSlots
  <2> QED BY <1>1, <2>2, <2>3, <2>4, StoreAssumption DEF HeaderOk
<1>3. HeaderSelected(FreshHeader) = None
  BY <1>1, <1>2, SelectedSlot DEF HeaderOk
<1>4. HeaderSegments(FreshHeader) = <<>> BY <1>3 DEF HeaderSegments
<1>5. SegmentFacts(<<>>) = {} BY DEF SegmentFacts
<1>6. HeaderBase(FreshHeader) = {} BY <1>1 DEF HeaderBase
<1>7. HeaderFacts(FreshHeader) = {} BY <1>4, <1>5, <1>6 DEF HeaderFacts
<1>8. \A s \in Slots : FreshHeader.slots[s] = Empty BY <1>1 DEF NoSlots
<1> QED BY <1>1, <1>2, <1>7, <1>8 DEF FactsKept, BaseKept

(* The pages page 0 names lie below its page count. *)
LEMMA HeaderPages ==
    ASSUME NEW h, HeaderOk(h)
    PROVE  /\ h.pages \in Nat /\ h.last \in Nat
           /\ FactRange(h) \subseteq 1..(h.pages - 1)
           /\ h.root # 0 => h.root \in 1..(h.pages - 1) /\ h.catalog.page \in 1..(h.pages - 1)
           /\ \A s \in Slots : h.slots[s] # Empty =>
                 /\ h.slots[s].page \in 1..(h.pages - 1)
                 /\ \A i \in DOMAIN h.slots[s].content.segs :
                       h.slots[s].content.segs[i].page \in 1..(h.pages - 1)
<1>1. h.pages \in Nat /\ h.last \in Nat BY HeaderNumbers
<1>2. FactRange(h) \subseteq 1..(h.pages - 1)
  <2>1. CASE h.root = 0
    <3>1. FactRange(FreshHeader) = {} BY DEF FreshHeader, FactRange
    <3> QED BY <2>1, <3>1 DEF HeaderOk
  <2>2. CASE h.root # 0
    <3>1. h.start \in Nat \ {0} /\ h.count \in Nat /\ h.start + h.count + 1 < h.pages
      BY <2>2, HeaderNumbers
    <3> QED BY <1>1, <3>1 DEF FactRange
  <2> QED BY <2>1, <2>2
<1>3. h.root # 0 => h.root \in 1..(h.pages - 1) /\ h.catalog.page \in 1..(h.pages - 1)
  <2>1. h.root # 0 => h.catalog.page = h.root + 1 BY DEF HeaderOk
  <2> QED BY <1>1, <2>1, HeaderNumbers
<1>4. ASSUME NEW s \in Slots, h.slots[s] # Empty
      PROVE  /\ h.slots[s].page \in 1..(h.pages - 1)
             /\ \A i \in DOMAIN h.slots[s].content.segs :
                   h.slots[s].content.segs[i].page \in 1..(h.pages - 1)
  <2> DEFINE segs == h.slots[s].content.segs
  <2>1. SlotOk(h, h.slots[s]) BY <1>4 DEF HeaderOk
  <2>2. segs \in Seq(Segment) BY <2>1 DEF SlotOk, ManifestOk
  <2>3. ASSUME NEW i \in DOMAIN segs PROVE segs[i].page \in 1..(h.pages - 1)
    <3>1. segs[i] \in Segment BY <2>2
    <3>2. segs[i].page \in Nat \ {0} BY <3>1 DEF Segment
    <3>3. segs[i].page < h.pages BY <2>1 DEF SlotOk
    <3> QED BY <1>1, <3>2, <3>3
  <2> QED BY <2>1, <2>3 DEF SlotOk
<1> QED BY <1>1, <1>2, <1>3, <1>4

(* Steps that leave the pages below the page count alone keep the image. *)
LEMMA KeepLow ==
    ASSUME NEW h, NEW f, NEW g, HeaderOk(h),
           \A p \in 1..(h.pages - 1) : g[p] = f[p]
    PROVE  (FactsKept(h, f) => FactsKept(h, g)) /\ (BaseKept(h, f) => BaseKept(h, g))
<1>1. ASSUME FactsKept(h, f) PROVE FactsKept(h, g)
  <2>1. \A p \in FactRange(h) : g[p] = Sums(h)[p] BY <1>1, HeaderPages DEF FactsKept
  <2>2. ASSUME NEW s \in Slots, h.slots[s] # Empty
        PROVE  /\ g[h.slots[s].page] = h.slots[s].content
               /\ \A i \in DOMAIN h.slots[s].content.segs :
                     g[h.slots[s].content.segs[i].page] = h.slots[s].content.segs[i]
    <3>1. /\ h.slots[s].page \in 1..(h.pages - 1)
          /\ \A i \in DOMAIN h.slots[s].content.segs :
                h.slots[s].content.segs[i].page \in 1..(h.pages - 1)
      BY <2>2, HeaderPages
    <3> QED BY <1>1, <2>2, <3>1, ZenonT(30) DEF FactsKept
  <2> QED BY <2>1, <2>2 DEF FactsKept
<1>2. ASSUME BaseKept(h, f) PROVE BaseKept(h, g)
  BY <1>2, HeaderPages DEF BaseKept
<1> QED BY <1>1, <1>2

(* Every fact page 0 shows lies below its watermark. *)
LEMMA FactsBounded ==
    ASSUME NEW h, HeaderOk(h)
    PROVE  HeaderFacts(h) \subseteq 0..h.last
<1>1. HeaderBase(h) \subseteq 0..h.last
  <2>1. CASE h.root = 0
    <3>1. HeaderBase(h) \subseteq HeaderFacts(FreshHeader) BY <2>1 DEF HeaderOk, HeaderFacts
    <3> QED BY <3>1, FreshSound
  <2>2. CASE h.root # 0
    <3>1. \A p \in FactRange(h) : Sums(h)[p].facts \subseteq 0..h.last BY <2>2 DEF HeaderOk
    <3> QED BY <3>1 DEF HeaderBase
  <2> QED BY <2>1, <2>2
<1>2. SegmentFacts(HeaderSegments(h)) \subseteq 0..h.last
  <2>0. SegmentFacts(<<>>) = {} BY DEF SegmentFacts
  <2>1. CASE HeaderSelected(h) = None
    <3>1. HeaderSegments(h) = <<>> BY <2>1 DEF HeaderSegments
    <3> QED BY <2>0, <3>1
  <2>2. CASE HeaderSelected(h) # None
    <3> DEFINE s == HeaderSelected(h)
    <3>1. s \in Slots /\ h.slots[s] # Empty BY <2>2, SelectedSlot DEF HeaderOk
    <3>2. SlotOk(h, h.slots[s]) BY <3>1 DEF HeaderOk
    <3>3. HeaderSegments(h) = h.slots[s].content.segs BY <2>2 DEF HeaderSegments
    <3> QED BY <3>2, <3>3 DEF SlotOk, SegmentFacts
  <2> QED BY <2>1, <2>2
<1> QED BY <1>1, <1>2 DEF HeaderFacts

(* A page 0 follows itself. *)
LEMMA FollowsSelf ==
    ASSUME NEW h, HeaderOk(h)
    PROVE  Follows(h, h)
<1>1. h.pages \in Nat /\ h.last \in Nat /\ h.count \in Nat BY HeaderNumbers
<1>2. h.pages <= h.pages /\ h.last <= h.last /\ h.count <= h.count BY <1>1
<1> QED BY <1>2 DEF Follows

(* A step that writes only pages beyond the published ones. *)
LEMMA HighPages ==
    ASSUME Images, file' = [p \in 0..MaxPage |-> file'[p]], disk' = disk,
           rewritten => rewritten', file'[0] = file[0],
           \A p \in 1..(file[0].pages - 1) : file'[p] = file[p]
    PROVE  Images'
<1> DEFINE h == file[0]
           d == disk[0]
<1>1. HeaderOk(h) /\ HeaderOk(d) /\ Follows(h, d) BY DEF Images, Sound
<1>2. h.pages \in Nat /\ d.pages \in Nat /\ d.pages <= h.pages
  BY <1>1, HeaderNumbers DEF Follows
<1>3. FactsKept(h, file') /\ (~rewritten => BaseKept(h, file'))
  BY <1>1, KeepLow, Zenon DEF Images, Sound
<1>4. \A p \in 1..(d.pages - 1) : file'[p] = file[p] BY <1>2
<1>5. FactsKept(d, file') /\ (~rewritten => BaseKept(d, file'))
  BY <1>1, <1>4, KeepLow, Zenon DEF Images, Sound
<1>6. Sound(h)' /\ Sound(d)'
  BY <1>1, <1>3, <1>5 DEF Images, Sound
<1> QED BY <1>1, <1>6 DEF Images

(* A new file satisfies the invariant. *)
LEMMA InitInv1 == Init => Inv1
<1> SUFFICES ASSUME Init PROVE Inv1 OBVIOUS
<1>1. file[0] = FreshHeader /\ disk[0] = FreshHeader BY StoreAssumption DEF Init
<1>2. Sound(FreshHeader) BY FreshSound DEF Sound
<1>3. Follows(FreshHeader, FreshHeader) BY DEF Follows, FreshHeader
<1> QED BY <1>1, <1>2, <1>3 DEF Init, Inv1, Images, Wal

-----------------------------------------------------------------------------
(* Writing.                                                                *)

(* A transaction changes no page and keeps the invariant. *)
LEMMA TransactInv1 ==
    ASSUME Inv1, NEW empty \in BOOLEAN, Transact(empty)
    PROVE  Inv1'
<1> DEFINE facts == IF empty THEN {} ELSE {counter'}
<1>1. /\ pc = "idle" /\ pc' = "idle" /\ counter' = counter + 1 /\ counter < MaxTx
      /\ file' = file /\ disk' = disk /\ mem' = mem /\ shown' = shown
      /\ rewritten' = rewritten /\ pending' = pending \cup facts
      /\ wal' = wal \cup {[tx |-> counter', empty |-> empty]}
  BY DEF Transact
<1>2. MemOk /\ Facts BY <1>1 DEF Inv1, Open
<1>3. counter' \in 0..MaxTx /\ counter \in 0..MaxTx /\ 0..counter \subseteq 0..counter'
  BY <1>1, <1>2, StoreAssumption DEF Facts
<1>4. Wal'
  <2> SUFFICES ASSUME NEW e \in wal' PROVE e.tx \in 0..MaxTx BY DEF Wal
  <2> QED BY <1>1, <1>3 DEF Inv1, Wal
<1>5. Images' BY <1>1 DEF Inv1, Images, Sound
<1>6. MemShape' /\ MemManifest' BY <1>1, <1>2 DEF MemOk, MemShape, MemManifest
<1>7. MemCatalog' BY <1>1, <1>2, <1>3 DEF MemOk, MemCatalog, MemRoot
<1>8. MemBase' BY <1>1, <1>2 DEF MemOk, MemBase, Stale, MemRoot
<1>9. Facts'
  <2>1. file[0].last <= counter'
    <3>1. HeaderOk(file[0]) BY Zenon DEF Inv1, Images, Sound
    <3>2. file[0].last \in Nat BY <3>1, HeaderNumbers
    <3>3. file[0].last <= counter BY <1>2, Zenon DEF Facts
    <3> QED BY <1>1, <1>3, <3>2, <3>3
  <2>2. shown' \cup pending' \subseteq 0..counter' BY <1>1, <1>2, <1>3 DEF Facts
  <2>3. HeaderFacts(file[0]) \subseteq shown' \cup pending' BY <1>1, <1>2 DEF Facts
  <2>4. SegmentFacts(HeaderSegments(file[0])) \subseteq HeaderBase(file[0]) \cup MemSegs' \cup pending'
    BY <1>1, <1>2 DEF Facts, MemSegs
  <2> QED BY <1>1, <1>3, <2>1, <2>2, <2>3, <2>4 DEF Facts
<1>10. Saving' BY <1>1 DEF Saving
<1> QED BY <1>1, <1>4, <1>5, <1>6, <1>7, <1>8, <1>9, <1>10 DEF Inv1, Open, MemOk

-----------------------------------------------------------------------------
(* Saves.                                                                  *)

(* Writing one page, and writing two. *)
LEMMA Overwrite ==
    ASSUME NEW f, f = [p \in 0..MaxPage |-> f[p]], NEW q \in 0..MaxPage, NEW v,
           NEW g, g = [f EXCEPT ![q] = v]
    PROVE  /\ g = [p \in 0..MaxPage |-> g[p]] /\ g[q] = v
           /\ \A p \in 0..MaxPage : p # q => g[p] = f[p]
<1>1. DOMAIN f = 0..MaxPage OBVIOUS
<1>2. g = [p \in 0..MaxPage |-> IF p = q THEN v ELSE f[p]] BY <1>1, Zenon
<1>3. \A p \in 0..MaxPage : g[p] = IF p = q THEN v ELSE f[p] BY <1>2
<1>4. g = [p \in 0..MaxPage |-> g[p]] BY <1>2, <1>3, Zenon
<1> QED BY <1>3, <1>4, Zenon

(* What a file is after two of its pages were written. *)
LEMMA OverwriteTwo ==
    ASSUME NEW f, f = [p \in 0..MaxPage |-> f[p]], NEW q \in 0..MaxPage, NEW r \in 0..MaxPage,
           q # r, NEW v, NEW w, NEW g, g = [f EXCEPT ![q] = v, ![r] = w]
    PROVE  /\ g = [p \in 0..MaxPage |-> g[p]] /\ g[q] = v /\ g[r] = w
           /\ \A p \in 0..MaxPage : p # q /\ p # r => g[p] = f[p]
<1> DEFINE m == [f EXCEPT ![q] = v]
<1>1. /\ m = [p \in 0..MaxPage |-> m[p]] /\ m[q] = v
      /\ \A p \in 0..MaxPage : p # q => m[p] = f[p]
  BY Overwrite, Zenon
<1>2. g = [m EXCEPT ![r] = w] OBVIOUS
<1> HIDE DEF m
<1>3. /\ g = [p \in 0..MaxPage |-> g[p]] /\ g[r] = w
      /\ \A p \in 0..MaxPage : p # r => g[p] = m[p]
  BY <1>1, <1>2, Overwrite, Zenon
<1> QED BY <1>1, <1>3, Zenon

(* A segment of a manifest takes a page of its own. *)
LEMMA SegmentPages ==
    ASSUME NEW m, ManifestOk(m)
    PROVE  \A i \in DOMAIN m.segs :
              m.segs[i] \in Segment /\ m.segs[i].page \in Nat \ {0} /\ m.segs[i].facts \subseteq Nat
<1> SUFFICES ASSUME NEW i \in DOMAIN m.segs
             PROVE  m.segs[i] \in Segment /\ m.segs[i].page \in Nat \ {0} /\ m.segs[i].facts \subseteq Nat
  OBVIOUS
<1>1. m.segs \in Seq(Segment) BY DEF ManifestOk
<1>2. m.segs[i] \in Segment BY <1>1
<1> QED BY <1>2 DEF Segment

(* Pages behind the published ones may change under an open handle. *)
LEMMA MemHigh ==
    ASSUME Images, MemOk, file'[0] = file[0], mem' = mem, counter' = counter,
           pending' = pending, shown' = shown,
           \A p \in 1..(file[0].pages - 1) : file'[p] = file[p]
    PROVE  MemOk'
<1>1. file[0].pages \in Nat BY HeaderNumbers DEF Images, Sound
<1>2. MemShape' BY DEF MemOk, MemShape
<1>3. MemManifest'
  <2> SUFFICES ASSUME mem.slot # None PROVE MemManifest' BY DEF MemManifest
  <2>1. MemManifest /\ ManifestOk(mem.manifest) BY DEF MemOk, MemManifest
  <2>2. \A i \in DOMAIN mem.manifest.segs : mem.manifest.segs[i].page \in 1..(file[0].pages - 1)
    BY <1>1, <2>1, SegmentPages DEF MemManifest
  <2>3. \A i \in DOMAIN mem.manifest.segs :
            file'[mem.manifest.segs[i].page] = mem.manifest.segs[i]
    BY <2>1, <2>2 DEF MemManifest
  <2> QED BY <2>1, <2>3 DEF MemManifest
<1>4. MemCatalog' BY DEF MemOk, MemCatalog, MemRoot
<1>5. MemBase'
  <2>1. Stale' = Stale
    <3>1. mem.catalog # Empty => MemRoot \in 1..(file[0].pages - 1)
      BY <1>1 DEF MemOk, MemShape, MemCatalog, MemRoot
    <3>2. MemRoot' = MemRoot BY DEF MemRoot
    <3> QED BY <3>1, <3>2 DEF Stale
  <2> QED BY <2>1 DEF MemOk, MemBase
<1> QED BY <1>2, <1>3, <1>4, <1>5 DEF MemOk

(* What a handle holds only depends on page 0 and its memory. *)
LEMMA FactsFrame ==
    ASSUME Facts, file'[0] = file[0], mem' = mem, counter' = counter,
           pending' = pending, shown' = shown
    PROVE  Facts'
BY DEF Facts, MemSegs

(* A delta checkpoint that is refused keeps the invariant. *)
LEMMA RefuseDeltaInv1 == Inv1 /\ RefuseDelta => Inv1'
<1> SUFFICES ASSUME Inv1, RefuseDelta PROVE Inv1' OBVIOUS
<1>1. /\ pc = "idle" /\ pc' = "idle" /\ disk' = disk /\ mem' = mem /\ counter' = counter
      /\ pending' = pending /\ shown' = shown /\ rewritten' = rewritten /\ wal' = wal
      /\ file' = [file EXCEPT ![file[0].pages] = NewSegment] /\ file[0].pages <= MaxPage
  BY DEF RefuseDelta, process, history, Header
<1>2. Images /\ MemOk /\ Facts /\ Wal BY <1>1 DEF Inv1, Open
<1>3. file[0].pages \in 1..MaxPage /\ file = [p \in 0..MaxPage |-> file[p]]
  BY <1>1, <1>2, StoreAssumption, SMTT(60) DEF Images, Sound, HeaderOk
<1>4. /\ file' = [p \in 0..MaxPage |-> file'[p]] /\ file'[0] = file[0]
      /\ \A p \in 1..(file[0].pages - 1) : file'[p] = file[p]
  <2>1. /\ file' = [p \in 0..MaxPage |-> file'[p]]
        /\ \A p \in 0..MaxPage : p # file[0].pages => file'[p] = file[p]
    BY <1>1, <1>3, Overwrite, StoreAssumption, Zenon
  <2> QED BY <1>3, <2>1, StoreAssumption
<1>5. Images' BY <1>1, <1>2, <1>4, HighPages
<1>6. MemOk' BY <1>1, <1>2, <1>4, MemHigh
<1>7. Facts' BY <1>1, <1>2, <1>4, FactsFrame
<1> QED BY <1>1, <1>2, <1>5, <1>6, <1>7 DEF Inv1, Open, Saving, Wal

(* The manifest a delta checkpoint writes. *)
LEMMA NewManifestOk ==
    ASSUME Images, MemOk, Facts, TakesDelta, DeltaValid
    PROVE  /\ ManifestOk(NewManifest) /\ NewManifest.gen <= counter + 1
           /\ NewManifest.gen >= file[0].last + 1
           /\ \A i \in DOMAIN NewManifest.segs :
                 /\ NewManifest.segs[i].facts \subseteq 0..counter
                 /\ \/ NewManifest.segs[i] = NewSegment
                    \/ /\ NewManifest.segs[i].page \in 1..(file[0].pages - 1)
                       /\ file[NewManifest.segs[i].page] = NewManifest.segs[i]
           /\ SegmentFacts(NewManifest.segs) = MemSegs \cup pending
<1> DEFINE h == file[0]
           known == mem.slot # None
           base == IF known THEN mem.manifest.base ELSE BaseIdentity(h)
           old == IF known THEN mem.manifest.segs ELSE <<>>
           gen == NextGeneration
           m == NewManifest
<1>1. HeaderOk(h) /\ h.root # 0 /\ h.pages \in Nat \ {0} /\ h.last \in Nat
  <2>1. HeaderOk(h) /\ h.root # 0 BY DEF Images, Sound, TakesDelta, Header
  <2>2. h.pages \in 1..(MaxPage + 1) BY <2>1 DEF HeaderOk
  <2> QED BY <2>1, <2>2, HeaderNumbers, StoreAssumption
<1>2. counter \in Nat /\ h.last <= counter /\ pending \subseteq 0..counter
  BY StoreAssumption DEF Facts
<1>3. m = [kind |-> "manifest", gen |-> gen, base |-> base, segs |-> Append(old, NewSegment)]
  BY DEF NewManifest, Header
<1>4. gen \in Nat /\ gen <= counter + 1 /\ gen >= h.last + 1
  BY <1>1, <1>2 DEF NextGeneration, MaxOf, Header
<1>5. NewSegment \in Segment /\ NewSegment.facts = pending
  <2>1. pending \subseteq Nat BY <1>2
  <2> QED BY <1>1, <2>1 DEF NewSegment, Segment, Header
<1>6. /\ base.last \in Nat /\ base.root \in Nat /\ base.pages \in Nat
      /\ \A p \in DOMAIN base.sums : p < base.root => base.sums[p].facts \subseteq 0..base.last
  <2>1. CASE known BY <2>1 DEF MemOk, MemManifest, ManifestOk
  <2>2. CASE ~known
    <3>1. base = [pages |-> h.pages, count |-> h.count, last |-> h.last, root |-> h.root,
                  sums |-> Sums(h)]
      BY <2>2 DEF BaseIdentity, Sums
    <3>2. DOMAIN Sums(h) = h.start..h.root /\ h.root = h.start + h.count
          /\ h.start \in Nat /\ h.count \in Nat /\ h.root \in Nat
      BY <1>1 DEF HeaderOk
    <3>3. ASSUME NEW p \in DOMAIN Sums(h), p < h.root PROVE Sums(h)[p].facts \subseteq 0..h.last
      <4>1. p \in FactRange(h) BY <3>2, <3>3 DEF FactRange
      <4> QED BY <1>1, <4>1 DEF HeaderOk
    <3>4. base.last = h.last /\ base.root = h.root /\ base.pages = h.pages /\ base.sums = Sums(h)
      BY <3>1
    <3> HIDE DEF base
    <3> QED BY <1>1, <3>2, <3>3, <3>4
  <2> QED BY <2>1, <2>2
<1>7. old \in Seq(Segment)
  BY DEF MemOk, MemManifest, ManifestOk
<1>8. \A i \in DOMAIN old :
         /\ old[i].facts \subseteq 0..counter
         /\ old[i].page \in 1..(h.pages - 1) /\ file[old[i].page] = old[i]
  <2>1. CASE known
    <3>1. MemManifest /\ ManifestOk(mem.manifest) BY <2>1 DEF MemOk, MemManifest
    <3>2. \A i \in DOMAIN old : /\ old[i].page < h.pages /\ file[old[i].page] = old[i]
                                /\ old[i].facts \subseteq shown /\ old[i].page \in Nat \ {0}
      BY <2>1, <3>1, SegmentPages DEF MemManifest
    <3> QED BY <1>1, <3>2 DEF Facts
  <2>2. CASE ~known BY <2>2
  <2> QED BY <2>1, <2>2
<1>9. SegmentFacts(old) = MemSegs
  <2>1. SegmentFacts(<<>>) = {} BY DEF SegmentFacts
  <2> QED BY <2>1, Zenon DEF MemSegs
<1> HIDE DEF base, old, gen
<1>10. /\ m.segs = Append(old, NewSegment) /\ m.gen = gen /\ m.base = base
       /\ m.segs \in Seq(Segment)
       /\ DOMAIN m.segs = 1..(Len(old) + 1) /\ Len(old) \in Nat /\ DOMAIN old = 1..Len(old)
       /\ m.segs[Len(old) + 1] = NewSegment
       /\ \A i \in 1..Len(old) : m.segs[i] = old[i]
  BY <1>3, <1>5, <1>7
<1>11. ManifestOk(m)
  BY <1>4, <1>6, <1>10 DEF ManifestOk, DeltaValid
<1>12. \A i \in DOMAIN m.segs : i \in DOMAIN old \/ i = Len(old) + 1
  BY <1>10
<1>13. SegmentFacts(m.segs) = SegmentFacts(old) \cup pending
  BY <1>5, <1>10, <1>12 DEF SegmentFacts
<1>14. \A i \in DOMAIN m.segs :
          /\ m.segs[i].facts \subseteq 0..counter
          /\ \/ m.segs[i] = NewSegment
             \/ m.segs[i].page \in 1..(h.pages - 1) /\ file[m.segs[i].page] = m.segs[i]
  BY <1>2, <1>5, <1>8, <1>10, <1>12, Zenon
<1> QED BY <1>4, <1>9, <1>10, <1>11, <1>13, <1>14

(* The page 0 a delta checkpoint writes: the slot memory does not use gets  *)
(* the new manifest, the other one is kept, and so is the base.            *)
LEMMA DeltaHeader ==
    ASSUME Images, WriteDelta
    PROVE  LET h == file[0]
               n == next'
               d == [page |-> h.pages + 1, content |-> NewManifest]
           IN  /\ n = [k \in HeaderFields |-> n[k]] /\ n.slots = [s \in Slots |-> n.slots[s]]
               /\ n.pages = h.pages + 2 /\ n.last = counter /\ n.root = h.root
               /\ n.start = h.start /\ n.count = h.count /\ n.catalog = h.catalog
               /\ n.slots[PublishedSlot] = d /\ d # Empty /\ PublishedSlot \in Slots
               /\ \A s \in Slots : n.slots[s] # Empty =>
                     \/ s = PublishedSlot
                     \/ mem.slot # None /\ h.slots[s] # Empty /\ n.slots[s] = h.slots[s]
               /\ n.slots # NoSlots
               /\ mem.slot = None => n.slots["secondary"] = Empty
               /\ HeaderBase(n) = HeaderBase(h)
<1> DEFINE h == file[0]
           m == NewManifest
           d == [page |-> h.pages + 1, content |-> m]
           n == next'
<1>1. n = [h EXCEPT !.pages = h.pages + 2, !.last = counter, !.slots = NextSlots(d)]
  BY DEF WriteDelta, Header
<1>3. HeaderOk(h) /\ HeaderShape(h) BY Zenon DEF Images, Sound, HeaderOk
<1>4. h.pages \in Nat BY <1>3, HeaderNumbers
<1> HIDE DEF m
<1>11. /\ n = [k \in HeaderFields |-> n[k]]
       /\ n.pages = h.pages + 2 /\ n.last = counter /\ n.root = h.root
       /\ n.start = h.start /\ n.count = h.count /\ n.catalog = h.catalog
       /\ n.slots = NextSlots(d)
  <2> DEFINE a == h.pages + 2
             c == NextSlots(d)
  <2>1. n = [h EXCEPT !.pages = a, !.last = counter, !.slots = c] BY <1>1
  <2>2. h = [k \in HeaderFields |-> h[k]] BY <1>3 DEF HeaderShape
  <2> HIDE DEF a, c, n, h
  <2>3. n = [k \in HeaderFields |-> IF k = "pages" THEN a ELSE IF k = "last" THEN counter
                                   ELSE IF k = "slots" THEN c ELSE h[k]]
    BY <2>1, <2>2, Zenon DEF HeaderFields
  <2>4. n.pages = a /\ n.last = counter /\ n.slots = c /\ n.root = h.root
        /\ n.start = h.start /\ n.count = h.count /\ n.catalog = h.catalog
    BY <2>3 DEF HeaderFields
  <2>5. n = [k \in HeaderFields |-> n[k]] BY <2>3
  <2> QED BY <2>4, <2>5 DEF a, c
<1>12. /\ NextSlots(d) = [s \in Slots |-> IF s = PublishedSlot THEN d
                                          ELSE IF mem.slot = None THEN Empty ELSE h.slots[s]]
       /\ PublishedSlot \in Slots /\ d # Empty
  <2>1. h.slots = [s \in Slots |-> h.slots[s]] BY <1>3 DEF HeaderShape
  <2>2. PublishedSlot \in Slots BY DEF PublishedSlot, Slots
  <2>3. d # Empty BY <1>4 DEF Empty
  <2> DEFINE old == IF mem.slot = None THEN NoSlots ELSE h.slots
  <2>4. old = [s \in Slots |-> IF mem.slot = None THEN Empty ELSE h.slots[s]]
    BY <2>1 DEF NoSlots
  <2>5. NextSlots(d) = [old EXCEPT ![PublishedSlot] = d] BY DEF NextSlots, Header
  <2> HIDE DEF d, h, old
  <2>6. [old EXCEPT ![PublishedSlot] = d] = [s \in Slots |-> IF s = PublishedSlot THEN d ELSE old[s]]
    BY <2>4
  <2> QED BY <2>2, <2>3, <2>4, <2>5, <2>6
<1>13. /\ n.slots[PublishedSlot] = d
       /\ \A s \in Slots : n.slots[s] # Empty =>
                              \/ s = PublishedSlot
                              \/ mem.slot # None /\ h.slots[s] # Empty /\ n.slots[s] = h.slots[s]
       /\ n.slots # NoSlots
  <2>1. \A s \in Slots : n.slots[s] = IF s = PublishedSlot THEN d
                                     ELSE IF mem.slot = None THEN Empty ELSE h.slots[s]
    BY <1>11, <1>12
  <2>2. NoSlots[PublishedSlot] = Empty BY <1>12 DEF NoSlots
  <2>3. n.slots[PublishedSlot] = d BY <1>12, <2>1
  <2>4. d # Empty BY <1>12
  <2> HIDE DEF d, n
  <2>5. \A s \in Slots : n.slots[s] # Empty =>
                              \/ s = PublishedSlot
                              \/ mem.slot # None /\ h.slots[s] # Empty /\ n.slots[s] = h.slots[s]
    <3>1. ASSUME NEW s \in Slots, n.slots[s] # Empty, s # PublishedSlot
          PROVE  mem.slot # None /\ h.slots[s] # Empty /\ n.slots[s] = h.slots[s]
      <4>1. n.slots[s] = IF mem.slot = None THEN Empty ELSE h.slots[s] BY <2>1, <3>1
      <4> QED BY <3>1, <4>1
    <3> QED BY <3>1
  <2>6. n.slots # NoSlots BY <2>2, <2>3, <2>4
  <2> QED BY <2>3, <2>5, <2>6
<1>14. mem.slot = None => n.slots["secondary"] = Empty
  BY <1>11, <1>12, StoreAssumption DEF PublishedSlot, Slots
<1>15. HeaderBase(n) = HeaderBase(h)
  <2>1. FactRange(n) = FactRange(h) /\ Sums(n) = Sums(h) BY <1>11 DEF FactRange, Sums
  <2> QED BY <2>1 DEF HeaderBase
<1>16. n.slots = [s \in Slots |-> n.slots[s]] BY <1>11, <1>12
<1> QED BY <1>11, <1>12, <1>13, <1>14, <1>15, <1>16 DEF m


(* A segment and a manifest behind the published pages keep the invariant. *)
LEMMA WriteDeltaInv1 == Inv1 /\ WriteDelta => Inv1'
<1> SUFFICES ASSUME Inv1, WriteDelta PROVE Inv1' OBVIOUS
<1> DEFINE h == file[0]
           m == NewManifest
           d == [page |-> h.pages + 1, content |-> m]
           n == next'
<1>1. /\ pc = "idle" /\ pc' = "header" /\ disk' = disk /\ mem' = mem /\ counter' = counter
      /\ pending' = pending /\ shown' = shown /\ rewritten' = rewritten /\ wal' = wal
      /\ TakesDelta /\ DeltaValid /\ h.pages + 1 <= MaxPage
      /\ file' = [file EXCEPT ![h.pages] = NewSegment, ![h.pages + 1] = m]
      /\ n = [h EXCEPT !.pages = h.pages + 2, !.last = counter, !.slots = NextSlots(d)]
  BY DEF WriteDelta, history, Header
<1>2. Images /\ MemOk /\ Facts /\ Wal /\ pending # {} /\ h.root # 0
  BY <1>1 DEF Inv1, Open, TakesDelta, Header
<1>3. HeaderOk(h) /\ FactsKept(h, file) /\ (~rewritten => BaseKept(h, file)) /\ HeaderShape(h)
  BY <1>2, Zenon DEF Images, Sound, HeaderOk
<1>4. /\ h.pages \in Nat \ {0} /\ h.pages + 1 \in 0..MaxPage /\ h.pages \in 0..MaxPage
      /\ file = [p \in 0..MaxPage |-> file[p]] /\ h.last \in Nat
  <2>1. h.pages \in 1..(MaxPage + 1) BY <1>3 DEF HeaderOk
  <2>2. h.pages \in Nat \ {0} /\ h.pages + 1 \in 0..MaxPage /\ h.pages \in 0..MaxPage
    <3>1. h.pages + 1 <= MaxPage BY <1>1
    <3> HIDE DEF h
    <3> QED BY <2>1, <3>1, StoreAssumption
  <2>3. file = [p \in 0..MaxPage |-> file[p]] BY <1>2, Zenon DEF Images
  <2>4. h.last \in Nat BY <1>3, HeaderNumbers
  <2> QED BY <2>2, <2>3, <2>4
<1>5. /\ file' = [p \in 0..MaxPage |-> file'[p]] /\ file'[0] = h
      /\ \A p \in 1..(h.pages - 1) : file'[p] = file[p]
      /\ file'[h.pages] = NewSegment /\ file'[h.pages + 1] = m
  <2>1. /\ file' = [p \in 0..MaxPage |-> file'[p]]
        /\ \A p \in 0..MaxPage : p # h.pages /\ p # h.pages + 1 => file'[p] = file[p]
        /\ file'[h.pages] = NewSegment /\ file'[h.pages + 1] = m
    <3>1. h.pages # h.pages + 1 BY <1>4
    <3> HIDE DEF m
    <3> QED BY <1>1, <1>4, <3>1, OverwriteTwo, Zenon
  <2>2. 0 \in 0..MaxPage /\ 0 # h.pages /\ 0 # h.pages + 1 BY <1>4, StoreAssumption
  <2>3. \A p \in 1..(h.pages - 1) : p \in 0..MaxPage /\ p # h.pages /\ p # h.pages + 1
    BY <1>4, StoreAssumption
  <2> QED BY <2>1, <2>2, <2>3
<1>6. Images' BY <1>1, <1>2, <1>5, HighPages, Zenon
<1>7. MemOk' BY <1>1, <1>2, <1>5, MemHigh, Zenon
<1>8. Facts' BY <1>1, <1>2, <1>5, FactsFrame
<1>9. /\ ManifestOk(m) /\ m.gen <= counter + 1 /\ m.gen >= h.last + 1
      /\ \A i \in DOMAIN m.segs :
            /\ m.segs[i].facts \subseteq 0..counter
            /\ m.segs[i] = NewSegment \/ (/\ m.segs[i].page \in 1..(h.pages - 1)
                                          /\ file[m.segs[i].page] = m.segs[i])
      /\ SegmentFacts(m.segs) = MemSegs \cup pending
  BY <1>1, <1>2, NewManifestOk
<1>10. counter \in 0..MaxTx /\ h.last <= counter /\ h.last \in Nat /\ counter \in Nat
  BY <1>2, <1>4 DEF Facts
<1> HIDE DEF m
<1>11. /\ n = [k \in HeaderFields |-> n[k]] /\ n.slots = [s \in Slots |-> n.slots[s]]
       /\ n.pages = h.pages + 2 /\ n.last = counter /\ n.root = h.root
       /\ n.start = h.start /\ n.count = h.count /\ n.catalog = h.catalog
  BY <1>2, DeltaHeader
<1>12. PublishedSlot \in Slots /\ d # Empty
  BY <1>2, DeltaHeader DEF m
<1>13. /\ n.slots[PublishedSlot] = d
       /\ \A s \in Slots : n.slots[s] # Empty =>
                              \/ s = PublishedSlot
                              \/ mem.slot # None /\ h.slots[s] # Empty /\ n.slots[s] = h.slots[s]
       /\ n.slots # NoSlots
       /\ mem.slot = None => n.slots["secondary"] = Empty
  BY <1>2, DeltaHeader DEF m
<1>14. NewSegment.page = h.pages BY DEF NewSegment, Header
<1>15. SlotOk(n, d)
  <2>1. d.page = h.pages + 1 /\ d.content = m OBVIOUS
  <2>2. d.page \in 1..(n.pages - 1) BY <1>4, <1>11, <2>1
  <2>3. \A i \in DOMAIN m.segs : m.segs[i].page < n.pages
    <3> SUFFICES ASSUME NEW i \in DOMAIN m.segs PROVE m.segs[i].page < h.pages + 2 BY <1>11
    <3>1. CASE m.segs[i] = NewSegment BY <1>4, <1>14, <3>1
    <3>2. CASE m.segs[i].page \in 1..(h.pages - 1) BY <1>4, <3>2
    <3> QED BY <1>9, <3>1, <3>2
  <2> QED BY <1>9, <1>11, <2>1, <2>2, <2>3 DEF SlotOk
<1>16. ASSUME NEW s \in Slots, h.slots[s] # Empty PROVE SlotOk(n, h.slots[s])
  <2>1. SlotOk(h, h.slots[s]) BY <1>3, <1>16 DEF HeaderOk
  <2>2. h.slots[s].content.gen \in Nat BY <2>1, Zenon DEF SlotOk, ManifestOk
  <2>3. /\ h.slots[s].page \in 1..(n.pages - 1)
        /\ h.slots[s].content.gen <= n.last + 1 /\ 0..h.last \subseteq 0..n.last
    <3>1. h.slots[s].content.gen <= h.last + 1 /\ h.slots[s].page \in 1..(h.pages - 1)
      BY <2>1 DEF SlotOk
    <3>2. h.slots[s].content.gen <= counter + 1 BY <1>10, <2>2, <3>1
    <3>3. h.slots[s].page \in 1..(h.pages + 1) BY <1>4, <3>1
    <3>4. 0..h.last \subseteq 0..counter BY <1>10
    <3>5. n.pages - 1 = h.pages + 1 BY <1>4, <1>11
    <3> QED BY <1>11, <3>2, <3>3, <3>4, <3>5
  <2>4. ASSUME NEW i \in DOMAIN h.slots[s].content.segs
        PROVE  h.slots[s].content.segs[i].page < n.pages
    <3>1. h.slots[s].content.segs[i].page \in 1..(h.pages - 1) BY <1>3, <1>16, HeaderPages, Zenon
    <3>2. \A x \in 1..(h.pages - 1) : x < h.pages + 2 BY <1>4
    <3> QED BY <1>11, <3>1, <3>2
  <2> QED BY <2>1, <2>3, <2>4, Zenon DEF SlotOk
<1>17. HeaderOk(n)
  <2>1. HeaderShape(n) BY <1>11, <1>12 DEF HeaderShape
  <2>2. n.pages \in 1..(MaxPage + 1) /\ n.last \in 0..MaxTx /\ n.root # 0
    BY <1>2, <1>4, <1>10, <1>11, StoreAssumption
  <2>3. /\ n.start \in Nat \ {0} /\ n.root \in Nat /\ n.count \in Nat
        /\ n.root = n.start + n.count /\ n.count > 0 /\ n.root + 1 < n.pages
        /\ n.catalog # Empty /\ n.catalog.page = n.root + 1
        /\ DOMAIN Sums(n) = n.start..n.root
        /\ Sums(n)[n.root].kind = "index"
    <3>1. /\ h.start \in Nat \ {0} /\ h.root \in Nat /\ h.count \in Nat
          /\ h.root = h.start + h.count /\ h.count > 0 /\ h.root + 1 < h.pages
          /\ h.catalog # Empty /\ h.catalog.page = h.root + 1
          /\ DOMAIN Sums(h) = h.start..h.root
          /\ Sums(h)[h.root].kind = "index"
      BY <1>2, <1>3 DEF HeaderOk
    <3>2. h.root + 1 < h.pages + 2 BY <1>4, <3>1
    <3> QED BY <1>11, <3>1, <3>2 DEF Sums
  <2>4. \A p \in FactRange(n) : Sums(n)[p].facts \subseteq 0..n.last
    <3>1. FactRange(n) = FactRange(h) /\ Sums(n) = Sums(h) BY <1>11 DEF FactRange, Sums
    <3>2. 0..h.last \subseteq 0..n.last BY <1>10, <1>11, StoreAssumption
    <3> QED BY <1>2, <1>3, <3>1, <3>2 DEF HeaderOk
  <2>5. \A s \in Slots : n.slots[s] # Empty => SlotOk(n, n.slots[s])
    BY <1>13, <1>15, <1>16
  <2> QED BY <1>13, <2>1, <2>2, <2>3, <2>4, <2>5 DEF HeaderOk
<1>18. FactsKept(n, file') /\ (~rewritten => BaseKept(n, file'))
  <2>1. FactsKept(h, file') /\ (~rewritten => BaseKept(h, file')) BY <1>3, <1>5, KeepLow, Zenon
  <2>2. FactRange(n) = FactRange(h) /\ Sums(n) = Sums(h) BY <1>11 DEF FactRange, Sums
  <2>3. \A i \in DOMAIN m.segs : file'[m.segs[i].page] = m.segs[i] BY <1>5, <1>9, <1>14
  <2>4. file'[d.page] = d.content BY <1>5
  <2>5. ASSUME NEW s \in Slots, n.slots[s] # Empty
        PROVE  /\ file'[n.slots[s].page] = n.slots[s].content
               /\ \A i \in DOMAIN n.slots[s].content.segs :
                     file'[n.slots[s].content.segs[i].page] = n.slots[s].content.segs[i]
    <3>1. CASE s = PublishedSlot BY <1>13, <2>3, <2>4, <3>1, SMTT(60)
    <3>2. CASE h.slots[s] # Empty /\ n.slots[s] = h.slots[s] BY <2>1, <3>2, Zenon DEF FactsKept
    <3> QED BY <1>13, <2>5, <3>1, <3>2, Zenon
  <2>6. FactsKept(n, file') BY <2>1, <2>2, <2>5, Zenon DEF FactsKept
  <2>7. ~rewritten => BaseKept(n, file') BY <1>11, <2>1, <2>2 DEF BaseKept
  <2> QED BY <2>6, <2>7
<1>19. NextSegments'
  <2>1. PublishedSlot' = PublishedSlot /\ MemSegs' = MemSegs BY <1>1 DEF PublishedSlot, MemSegs
  <2>2. SegmentFacts(n.slots[PublishedSlot].content.segs) = MemSegs \cup pending BY <1>9, <1>13, SMTT(60)
  <2>3. mem.slot # None /\ n.slots[mem.slot] # Empty => n.slots[mem.slot].content = mem.manifest
    <3> SUFFICES ASSUME mem.slot # None, n.slots[mem.slot] # Empty
                 PROVE  n.slots[mem.slot].content = mem.manifest
      OBVIOUS
    <3>1. mem.slot \in Slots /\ mem.slot # PublishedSlot
      BY <1>2 DEF MemOk, MemShape, PublishedSlot, Slots
    <3> QED BY <1>2, <1>13, <3>1 DEF MemOk, MemManifest
  <2>4. mem.slot = None => n.slots["secondary"] = Empty BY <1>13
  <2> QED BY <1>1, <1>2, <1>12, <1>13, <2>1, <2>2, <2>3, <2>4 DEF NextSegments
<1>20. HeaderBase(n) = HeaderBase(h) BY <1>2, DeltaHeader
<1>21. \/ HeaderSelected(n) = PublishedSlot /\ HeaderSegments(n) = m.segs
       \/ /\ HeaderSegments(n) = mem.manifest.segs /\ HeaderSegments(h) = mem.manifest.segs
          /\ mem.slot # None
  <2> DEFINE s == HeaderSelected(n)
  <2>1. s \in Slots /\ n.slots[s] # Empty /\ s # None
    BY <1>13, <1>17, SelectedSlot, StoreAssumption DEF HeaderOk
  <2>2. HeaderSegments(n) = n.slots[s].content.segs BY <2>1 DEF HeaderSegments
  <2>3. CASE s = PublishedSlot BY <1>13, <2>2, <2>3
  <2>4. CASE s # PublishedSlot
    <3>1. /\ mem.slot # None /\ h.slots[s] # Empty /\ n.slots[s] = h.slots[s]
      BY <1>13, <2>1, <2>4
    <3>2. mem.slot = s BY <1>2, <2>1, <2>4, <3>1 DEF MemOk, MemShape, PublishedSlot, Slots
    <3>3. h.slots[s].content = mem.manifest BY <1>2, <3>1, <3>2 DEF MemOk, MemManifest
    <3>4. \A x \in Slots : h.slots[x] # Empty =>
              h.slots[x].content.gen \in Nat /\ h.slots[x].content.gen <= h.last + 1
      BY <1>3, Zenon DEF HeaderOk, SlotOk, ManifestOk
    <3>5. m.gen \in Nat BY <1>9 DEF ManifestOk
    <3>6. s = "primary" /\ PublishedSlot = "secondary" /\ h.slots[s].content.gen >= m.gen
      <4>1. CASE s = "primary"
        <5>1. PublishedSlot = "secondary" BY <3>2, <4>1 DEF PublishedSlot
        <5>2. n.slots["secondary"] # Empty /\ n.slots["secondary"].content = m
          BY <1>12, <1>13, <5>1
        <5> QED BY <3>1, <4>1, <5>1, <5>2, Zenon DEF HeaderSelected
      <4>2. CASE s = "secondary"
        <5>1. PublishedSlot = "primary" BY <3>2, <4>2 DEF PublishedSlot
        <5>2. n.slots["primary"] # Empty /\ n.slots["primary"].content = m
          BY <1>12, <1>13, <5>1
        <5>3. ~(m.gen >= n.slots["secondary"].content.gen) BY <4>2, <5>2 DEF HeaderSelected
        <5>4. n.slots["secondary"].content.gen \in Nat
              /\ n.slots["secondary"].content.gen <= h.last + 1
          BY <2>1, <3>1, <3>4, <4>2
        <5> QED BY <1>9, <1>10, <3>5, <5>3, <5>4
      <4> QED BY <2>1, <4>1, <4>2 DEF Slots
    <3>7. HeaderSelected(h) = "primary"
      <4>1. \A x \in Slots : h.slots[x] # Empty =>
               h.slots["primary"].content.gen >= h.slots[x].content.gen
        BY <1>9, <1>10, <2>1, <3>1, <3>4, <3>5, <3>6, SMTT(60)
      <4>2. h.slots["primary"] # Empty BY <3>1, <3>6
      <4> QED BY <4>1, <4>2 DEF HeaderSelected, Slots
    <3>8. HeaderSegments(h) = mem.manifest.segs
      BY <3>3, <3>6, <3>7, StoreAssumption DEF HeaderSegments, Slots
    <3> QED BY <2>2, <3>1, <3>3, <3>8
  <2> QED BY <2>3, <2>4
<1>22. MemSegs \subseteq shown
  BY <1>2 DEF MemOk, MemManifest, MemSegs, SegmentFacts
<1>23. HeaderFacts(n) \subseteq shown \cup pending
  <2>1. SegmentFacts(HeaderSegments(n)) \subseteq MemSegs \cup pending
    BY <1>9, <1>21 DEF MemSegs
  <2>2. HeaderBase(h) \subseteq shown \cup pending BY <1>2 DEF Facts, HeaderFacts
  <2> QED BY <1>20, <1>22, <2>1, <2>2 DEF HeaderFacts
<1>24. HeaderFacts(h) \subseteq HeaderFacts(n)
  <2>1. CASE HeaderSegments(n) = m.segs
    <3>1. SegmentFacts(HeaderSegments(n)) = MemSegs \cup pending BY <1>9, <2>1
    <3>2. SegmentFacts(HeaderSegments(h)) \subseteq HeaderBase(h) \cup MemSegs \cup pending
      BY <1>2 DEF Facts
    <3> QED BY <1>20, <3>1, <3>2 DEF HeaderFacts
  <2>2. CASE HeaderSegments(n) = HeaderSegments(h) BY <1>20, <2>2 DEF HeaderFacts
  <2> QED BY <1>21, <2>1, <2>2
<1>25. Follows(n, h)
  <2>1. h.pages <= h.pages + 2 /\ h.count \in Nat /\ h.count <= h.count
    BY <1>3, <1>4, SMTT(60) DEF HeaderOk
  <2> QED BY <1>2, <1>10, <1>11, <1>13, <2>1 DEF Follows
<1>26. NextOk'
  BY <1>1, <1>2, <1>11, <1>17, <1>18, <1>19, <1>23 DEF NextOk
<1>27. Saving'
  BY <1>1, <1>5, <1>13, <1>24, <1>25, <1>26, Zenon DEF Saving
<1> QED BY <1>1, <1>2, <1>6, <1>7, <1>8, <1>27 DEF Inv1, Open, Wal
=============================================================================
