-------------------------- MODULE PageStoreProofs ---------------------------
(***************************************************************************)
(* The theorems about PageStore.                                           *)
(***************************************************************************)
EXTENDS PageStoreSteps, WellFoundedInduction

(* A set of numbers with an upper bound has a greatest member. *)
LEMMA Greatest ==
    ASSUME NEW n \in Nat, NEW S \in SUBSET (0..n), S # {}
    PROVE  \E m \in S : \A t \in S : m >= t
<1> DEFINE T == {n - t : t \in S}
<1>0. \A t \in S : n - t \in Nat OBVIOUS
<1>1. T \subseteq Nat /\ T # {} BY <1>0, Zenon
<1>2. PICK k \in T : \A j \in T : ~(<<j, k>> \in OpToRel(<, Nat))
  BY <1>1, NatLessThanWellFounded, WFMin, Zenon
<1>3. PICK m \in S : k = n - m OBVIOUS
<1>4. \A t \in S : ~(n - t < n - m)
  BY <1>1, <1>2, <1>3, Zenon DEF OpToRel
<1> QED BY <1>4

(* The counter of a reopened ledger. *)
LEMMA CounterBound ==
    ASSUME Wal, file[0].last \in 0..MaxTx
    PROVE  /\ RestoredCounter(file) \in 0..MaxTx /\ file[0].last <= RestoredCounter(file)
           /\ ReplayedFacts(file) \subseteq 0..RestoredCounter(file)
<1> DEFINE seen == {file[0].last} \cup ReplayedFacts(file)
<1>1. ReplayedFacts(file) \subseteq 0..MaxTx BY DEF Wal, ReplayedFacts, Replayable
<1>2. seen \in SUBSET (0..MaxTx) /\ seen # {} BY <1>1
<1>3. \E m \in seen : \A t \in seen : m >= t BY <1>2, Greatest, StoreAssumption, Zenon
<1>4. RestoredCounter(file) \in seen /\ \A t \in seen : RestoredCounter(file) >= t
  BY <1>3 DEF RestoredCounter
<1> QED BY <1>1, <1>2, <1>4, StoreAssumption

(* Opening the file and replaying the WAL keeps the invariant. *)
LEMMA LoadInv1 == Inv1 /\ Load => Inv1'
<1> SUFFICES ASSUME Inv1, Load PROVE Inv1' OBVIOUS
<1> DEFINE h == file[0]
           s == HeaderSelected(h)
<1>1. HeaderOk(h) /\ FactsKept(h, file) BY DEF Inv1, Images, Sound
<1>2. /\ Selected(file) = s /\ LoadedFacts(file) = HeaderFacts(h)
      /\ Segments(file) = HeaderSegments(h)
  BY <1>1, ReadsHeader
<1>3. /\ s \in Slots \cup {None} /\ (s = None <=> h.slots = NoSlots)
      /\ s # None => h.slots[s] # Empty /\ SlotOk(h, h.slots[s])
  BY <1>1, SelectedSlot DEF HeaderOk
<1>4. /\ mem' = [slot |-> s, manifest |-> IF s = None THEN None ELSE h.slots[s].content,
                 catalog |-> h.catalog, start |-> h.start, count |-> h.count]
      /\ shown' = HeaderFacts(h) /\ pending' = ReplayedFacts(file)
      /\ counter' = RestoredCounter(file)
      /\ pc' = "idle" /\ file' = file /\ disk' = disk /\ rewritten' = rewritten /\ wal' = wal
  BY <1>2 DEF Load, Manifest, history
<1>5. /\ h.last \in 0..MaxTx /\ counter' \in 0..MaxTx /\ h.last <= counter'
      /\ pending' \subseteq 0..counter'
  BY <1>1, <1>4, CounterBound DEF Inv1, HeaderOk
<1>6. Images' BY <1>4 DEF Inv1, Images, Sound
<1>7. HeaderSegments(h) = IF s = None THEN <<>> ELSE h.slots[s].content.segs
  BY DEF HeaderSegments
<1>8. h.root = 0 => h = FreshHeader /\ s = None
  BY <1>1, <1>3, FreshSound DEF HeaderOk
<1>9. MemShape'
  <2> DEFINE m == IF s = None THEN None ELSE h.slots[s].content
  <2>1. mem' = [slot |-> s, manifest |-> m, catalog |-> h.catalog, start |-> h.start,
                count |-> h.count]
    BY <1>4
  <2> HIDE DEF m
  <2>2. mem' = [k \in MemFields |-> mem'[k]] BY <2>1 DEF MemFields
  <2> QED BY <1>1, <1>3, <2>1, <2>2 DEF MemShape, HeaderOk
<1>10. MemManifest'
  <2> SUFFICES ASSUME s # None PROVE MemManifest' BY <1>4, Zenon DEF MemManifest
  <2>1. s \in Slots /\ h.slots[s] # Empty /\ SlotOk(h, h.slots[s]) BY <1>3
  <2>2. mem'.slot = s /\ mem'.manifest = h.slots[s].content BY <1>4
  <2>3. h.root # 0 BY <1>8
  <2>4. \A i \in DOMAIN h.slots[s].content.segs :
            /\ h.slots[s].content.segs[i].page < h.pages
            /\ file[h.slots[s].content.segs[i].page] = h.slots[s].content.segs[i]
            /\ h.slots[s].content.segs[i].facts \subseteq shown'
    BY <1>1, <1>4, <1>7, <2>1, Zenon DEF SlotOk, FactsKept, HeaderFacts, SegmentFacts
  <2> QED BY <1>4, <2>1, <2>2, <2>3, <2>4, Zenon DEF MemManifest, SlotOk
<1>11. MemCatalog'
  <2>1. mem'.catalog = h.catalog /\ mem'.start = h.start /\ mem'.count = h.count
        /\ mem'.slot = s
    BY <1>4
  <2>2. CASE h.root = 0
    <3>1. h.catalog = Empty /\ h.start = 1 /\ h.count = 0 /\ s = None
      BY <1>8, <2>2 DEF FreshHeader
    <3> QED BY <1>4, <2>1, <3>1 DEF MemCatalog
  <2>3. CASE h.root # 0
    <3>0. /\ h.root = h.start + h.count /\ h.count > 0 /\ h.root < h.pages
      <4>1. h.root \in Nat /\ h.pages \in Nat /\ h.root + 1 < h.pages
            /\ h.root = h.start + h.count /\ h.count > 0
        BY <1>1, <2>3, HeaderNumbers
      <4> QED BY <4>1
    <3>1. /\ h.root = h.start + h.count /\ h.count > 0 /\ h.root < h.pages /\ h.catalog # Empty
          /\ DOMAIN h.catalog.content.sums = h.start..h.root
          /\ h.catalog.content.sums[h.root].kind = "index"
      BY <1>1, <2>3, <3>0 DEF HeaderOk, Sums
    <3>2. \A p \in h.start..(h.root - 1) : h.catalog.content.sums[p].facts \subseteq 0..h.last
      <4>1. h.start..(h.root - 1) = FactRange(h)
        <5>1. h.start \in Nat /\ h.count \in Nat /\ h.root = h.start + h.count
          BY <1>1, <3>0, HeaderNumbers, Zenon
        <5> HIDE DEF h
        <5> QED BY <5>1 DEF FactRange
      <4>2. \A p \in FactRange(h) : Sums(h)[p].facts \subseteq 0..h.last BY <1>1, <2>3 DEF HeaderOk
      <4> QED BY <4>1, <4>2, Zenon DEF Sums
    <3>3. 0..h.last \subseteq 0..counter' BY <1>5, StoreAssumption
    <3>4. MemRoot' = h.root BY <2>1, <3>1 DEF MemRoot
    <3> QED BY <1>4, <2>1, <2>3, <3>1, <3>2, <3>3, <3>4, Zenon DEF MemCatalog
  <2> QED BY <2>2, <2>3
<1>12. MemBase' BY <1>3, <1>4 DEF MemBase
<1>13. Facts'
  <2>1. HeaderFacts(h) \subseteq 0..counter' BY <1>1, <1>5, FactsBounded, StoreAssumption
  <2>2. SegmentFacts(HeaderSegments(h)) \subseteq HeaderBase(h) \cup MemSegs'
    <3>1. SegmentFacts(<<>>) = {} BY DEF SegmentFacts
    <3> QED BY <1>4, <1>7, <3>1 DEF MemSegs
  <2> QED BY <1>4, <1>5, <2>1, <2>2 DEF Facts
<1>14. Saving' BY <1>4 DEF Saving
<1> QED
  BY <1>4, <1>6, <1>9, <1>10, <1>11, <1>12, <1>13, <1>14 DEF Inv1, Open, MemOk, Wal

(* An opened handle shows what the file and the WAL hold. *)
LEMMA LoadUnretried ==
    ASSUME Inv1, Unretried, Load
    PROVE  Unretried'
<1> DEFINE h == file[0]
<1>1. HeaderOk(h) /\ FactsKept(h, file) BY DEF Inv1, Images, Sound
<1>2. Selected(file) = HeaderSelected(h) /\ LoadedFacts(file) = HeaderFacts(h)
  BY <1>1, ReadsHeader
<1>3. /\ pc = "closed" /\ pc' = "idle" /\ file' = file /\ disk' = disk /\ wal' = wal
      /\ acked' = acked /\ shown' = HeaderFacts(h) /\ pending' = ReplayedFacts(file)
      /\ mem' = [slot |-> HeaderSelected(h),
                 manifest |-> IF HeaderSelected(h) = None THEN None
                              ELSE h.slots[HeaderSelected(h)].content,
                 catalog |-> h.catalog, start |-> h.start, count |-> h.count]
  BY <1>2 DEF Load, Manifest, history
<1>4. ReplayedFacts(file) = Replay(h) BY DEF ReplayedFacts, Replayable, Replay
<1>5. \A t \in Replay(h) : h.last < t
  <2>1. h.last \in Nat /\ \A e \in wal : e.tx \in Nat
    BY <1>1, HeaderNumbers DEF Inv1, Wal
  <2> QED BY <2>1 DEF Replay
<1>6. MemOf(h)'
  <2>1. /\ mem'.slot = HeaderSelected(h) /\ mem'.catalog = h.catalog
        /\ mem'.start = h.start /\ mem'.count = h.count
        /\ mem'.slot # None => mem'.manifest = h.slots[mem'.slot].content
    BY <1>3
  <2>2. HeaderSelected(h)' = HeaderSelected(h) /\ HeaderFacts(h)' = HeaderFacts(h) BY <1>3
  <2> QED BY <1>3, <1>4, <1>5, <2>1, <2>2 DEF MemOf
<1>7. /\ HeaderAll(h)' = HeaderAll(h) /\ HeaderAll(disk[0])' \in {HeaderAll(disk[0]), HeaderAll(h)}
      /\ WalFacts' = WalFacts /\ (SlotsCurrent(h) /\ SlotsCurrent(disk[0]) =>
                                    SlotsCurrent(h)' /\ SlotsCurrent(disk[0])')
  BY <1>3, SameHeaders
<1>8. HeaderAll(h) = shown' \cup pending' BY <1>3, <1>4 DEF HeaderAll
<1> QED BY <1>3, <1>6, <1>7, <1>8 DEF Unretried, OpenAgrees

(* Every step of the store keeps the invariant of its images. *)
LEMMA StepInv1 == Inv1 /\ [Next]_vars => Inv1'
<1> SUFFICES ASSUME Inv1, [Next]_vars PROVE Inv1' OBVIOUS
<1>1. CASE UNCHANGED vars
  <2>1. /\ pc' = pc /\ file' = file /\ disk' = disk /\ mem' = mem /\ counter' = counter
        /\ pending' = pending /\ shown' = shown /\ next' = next /\ wal' = wal
        /\ rewritten' = rewritten
    BY <1>1 DEF vars, process, history
  <2>2. Images' /\ Wal' BY <2>1 DEF Inv1, Images, Sound, Wal
  <2>3. ASSUME pc # "closed" PROVE Open'
    <3>1. MemOk /\ Facts /\ Saving BY <2>3 DEF Inv1, Open
    <3>2. MemOk' /\ Facts' BY <2>1, <3>1, OpenFrame
    <3>3. NextBase' = NextBase /\ NewBase' = NewBase BY <2>1 DEF NextBase, NewBase
    <3>4. FullSave' = FullSave BY <2>1 DEF FullSave, Stale, MemRoot
    <3>5. NextOk' = NextOk BY <2>1 DEF NextOk, NextSegments, PublishedSlot, MemSegs
    <3>6. Saving' BY <2>1, <3>1, <3>3, <3>4, <3>5 DEF Saving
    <3> QED BY <3>2, <3>6 DEF Open
  <2> QED BY <2>1, <2>2, <2>3 DEF Inv1
<1>2. CASE Next
  BY <1>2, LoadInv1, TransactInv1, WriteDeltaInv1, RefuseDeltaInv1, WriteFullInv1,
     WriteRecompactInv1, WriteCatalogInv1, WriteHeaderInv1, SaveFailsInv1, SyncHeaderInv1,
     RetireInv1, KillInv1, PowerLossInv1 DEF Next
<1> QED BY <1>1, <1>2

(* Whatever happened, page 0 and the pages it names are as a save left     *)
(* them, in both versions of the file.                                     *)
THEOREM ImagesSound == Spec => []Inv1
<1>1. Init => Inv1 BY InitInv1
<1>2. Inv1 /\ [Next]_vars => Inv1' BY StepInv1
<1> QED BY <1>1, <1>2, PTL DEF Spec

(* Every step of the store keeps what it shows. *)
LEMMA StepInv2 == Inv1 /\ Inv2 /\ [Next]_vars => Inv2'
<1> SUFFICES ASSUME Inv1, Inv2, [Next]_vars PROVE Inv2' OBVIOUS
<1>1. CASE UNCHANGED vars
  <2>1. /\ pc' = pc /\ file' = file /\ disk' = disk /\ mem' = mem /\ pending' = pending
        /\ shown' = shown /\ next' = next /\ wal' = wal /\ doubt' = doubt
        /\ acked' = acked /\ retries' = retries
    BY <1>1 DEF vars, process, history
  <2>2. HeaderAll(file[0])' = HeaderAll(file[0]) /\ HeaderAll(disk[0])' = HeaderAll(disk[0])
    BY <2>1 DEF HeaderAll, Replay
  <2>3. WalFacts' = WalFacts /\ NewBase' = NewBase BY <2>1 DEF WalFacts, NewBase
  <2>4. MemOf(file[0])' = MemOf(file[0]) /\ MemOf(disk[0])' = MemOf(disk[0]) /\ NextMem' = NextMem
    BY <2>1 DEF MemOf, NextMem, PublishedSlot
  <2>5. OpenAgrees' = OpenAgrees BY <2>1, <2>2, <2>3, <2>4 DEF OpenAgrees
  <2>6. Unretried' = Unretried BY <2>1, <2>2, <2>3, <2>5 DEF Unretried
  <2> QED BY <2>1, <2>6 DEF Inv2
<1>2. CASE Next
  <2>1. CASE WriteHeader
    <3>1. retries' = IF doubt THEN retries + 1 ELSE retries BY <2>1 DEF WriteHeader
    <3>2. retries' \in Nat /\ (retries' = 0 => retries = 0 /\ ~doubt) BY <3>1 DEF Inv2
    <3> QED BY <2>1, <3>2, WriteHeaderUnretried DEF Inv2
  <2>2. CASE Next /\ ~WriteHeader
    <3>1. retries' = retries
      BY <2>2, Zenon DEF Next, Load, Transact, WriteDelta, RefuseDelta, WriteFull, WriteRecompact,
         WriteBase, WriteCatalog, SaveFails, SyncHeader, RetireWal, RetireFails, Kill, PowerLoss,
         Stop, history
    <3>2. ASSUME Unretried PROVE Unretried'
      BY <2>2, <3>2, LoadUnretried, TransactUnretried, WriteDeltaUnretried, RefuseDeltaUnretried,
         WriteBaseUnretried, WriteCatalogUnretried, SaveFailsUnretried, SyncHeaderUnretried,
         RetireUnretried, StopUnretried DEF Next
    <3> QED BY <3>1, <3>2 DEF Inv2
  <2> QED BY <1>2, <2>1, <2>2
<1> QED BY <1>1, <1>2

(* What a reopened file shows is what the open handle shows, for every     *)
(* behaviour without a retried write of page 0.                            *)
THEOREM ShownKept == Spec => []Inv2
<1>1. Init => Inv2 BY InitInv2
<1>2. Inv1 /\ Inv2 /\ [Next]_vars => Inv2' BY StepInv2
<1> QED BY <1>1, <1>2, ImagesSound, PTL DEF Spec

-----------------------------------------------------------------------------
(* What the invariants say.                                                *)

(* An image whose pages are all as page 0 says opens. *)
LEMMA IntactOpens ==
    ASSUME NEW f, HeaderOk(f[0]), FactsKept(f[0], f), BaseKept(f[0], f), SlotsCurrent(f[0])
    PROVE  LoadOk(f)
<1> DEFINE h == f[0]
<1>1. BaseIntact(f)
  <2>1. CASE h.root = 0
    <3>1. h.catalog = Empty BY <2>1, SMTT(60) DEF HeaderOk, FreshHeader
    <3> QED BY <2>1, <3>1 DEF BaseIntact
  <2>2. CASE h.root # 0
    <3>1. DOMAIN Sums(h) = h.start..h.root /\ h.catalog # Empty BY <2>2 DEF HeaderOk
    <3>2. \A p \in h.start..h.root : p \in FactRange(h) \/ p = h.root
      <4>1. h.start \in Nat /\ h.count \in Nat /\ h.root = h.start + h.count
        BY <2>2, HeaderNumbers
      <4> QED BY <4>1 DEF FactRange
    <3>3. \A p \in DOMAIN Sums(h) : f[p] = Sums(h)[p]
      BY <2>2, <3>1, <3>2 DEF FactsKept, BaseKept
    <3>4. Verified(f, h.catalog) BY <3>3 DEF Verified, Sums
    <3>5. f[h.catalog.page] = h.catalog.content BY <2>2 DEF BaseKept
    <3> QED BY <2>2, <3>1, <3>4, <3>5 DEF BaseIntact
  <2> QED BY <2>1, <2>2
<1>2. ASSUME h.slots # NoSlots
      PROVE  Selected(f) # None /\ BaseMatches(Manifest(f).base, h)
  <2>1. Selected(f) = HeaderSelected(h) BY ReadsHeader
  <2>2. HeaderSelected(h) \in Slots /\ HeaderSelected(h) # None
        /\ h.slots[HeaderSelected(h)] # Empty
    BY <1>2, SelectedSlot DEF HeaderOk
  <2> QED BY <2>1, <2>2 DEF SlotsCurrent, Manifest
<1> QED BY <1>1, <1>2 DEF LoadOk

(* The invariants imply ReopenAgrees. *)
LEMMA AgreesByInv == Inv1 /\ Inv2 => ReopenAgrees
<1> SUFFICES ASSUME Inv1, Inv2, retries = 0
             PROVE  /\ ~rewritten => LoadOk(file) /\ LoadOk(disk)
                    /\ pc # "closed" =>
                         \A f \in {file, disk} :
                            LoadedFacts(f) \cup ReplayedFacts(f) = shown \cup pending
  BY DEF ReopenAgrees
<1>1. Unretried BY DEF Inv2
<1>2. /\ HeaderOk(file[0]) /\ FactsKept(file[0], file) /\ HeaderOk(disk[0])
      /\ FactsKept(disk[0], disk)
      /\ ~rewritten => BaseKept(file[0], file) /\ BaseKept(disk[0], disk)
  BY DEF Inv1, Images, Sound
<1>3. ~rewritten => LoadOk(file) /\ LoadOk(disk)
  BY <1>1, <1>2, IntactOpens DEF Unretried
<1>4. LoadedFacts(file) = HeaderFacts(file[0]) /\ LoadedFacts(disk) = HeaderFacts(disk[0])
  BY <1>2, ReadsHeader
<1>5. ReplayedFacts(file) = Replay(file[0]) /\ ReplayedFacts(disk) = Replay(disk[0])
  BY DEF ReplayedFacts, Replayable, Replay
<1> QED BY <1>1, <1>3, <1>4, <1>5 DEF Unretried, OpenAgrees, HeaderAll

(* Whatever was written, synced, failed or lost, the file opens and shows  *)
(* what the handle shows (save, try_save_delta_segment, load), unless a    *)
(* base was rewritten in place or page 0 written again after a failed sync.*)
THEOREM Reopens == Spec => []ReopenAgrees
BY ImagesSound, ShownKept, AgreesByInv, PTL

(* The base, and each segment of the manifest, hold facts of their own. *)
LEMMA LayersDisjoint ==
    ASSUME NEW f, HeaderOk(f[0]), FactsKept(f[0], f), LoadOk(f)
    PROVE  /\ BaseFacts(f) \cap SegmentFacts(Segments(f)) = {}
           /\ \A i, j \in DOMAIN Segments(f) :
                 i # j => Segments(f)[i].facts \cap Segments(f)[j].facts = {}
<1> DEFINE h == f[0]
           s == HeaderSelected(h)
           m == h.slots[s].content
<1>1. /\ BaseFacts(f) = HeaderBase(h) /\ Selected(f) = s /\ Segments(f) = HeaderSegments(h)
  BY ReadsHeader
<1>2. CASE s = None
  <2>1. Segments(f) = <<>> BY <1>1, <1>2 DEF HeaderSegments
  <2> QED BY <2>1 DEF SegmentFacts
<1>3. CASE s # None
  <2>1. s \in Slots /\ h.slots[s] # Empty /\ h.slots # NoSlots BY <1>3, SelectedSlot DEF HeaderOk
  <2>2. SlotOk(h, h.slots[s]) /\ ManifestOk(m) BY <2>1, Zenon DEF HeaderOk, SlotOk
  <2>3. Segments(f) = m.segs BY <1>1, <1>3 DEF HeaderSegments
  <2>4. BaseMatches(m.base, h) BY <1>1, <2>1 DEF LoadOk, Manifest
  <2>5. h.root # 0
    <3>1. FreshHeader.slots = NoSlots BY DEF FreshHeader
    <3> QED BY <2>1, <3>1 DEF HeaderOk
  <2>6. \A t \in HeaderBase(h) : t \in 0..m.base.last
    <3>1. \A p \in FactRange(h) : p \in DOMAIN Sums(h) /\ p < h.root
      <4>1. h.start \in Nat /\ h.count \in Nat /\ h.root = h.start + h.count
        BY <2>5, HeaderNumbers
      <4>2. DOMAIN Sums(h) = h.start..h.root BY <2>5 DEF HeaderOk
      <4> QED BY <4>1, <4>2 DEF FactRange
    <3>2. m.base.sums = Sums(h) /\ m.base.root = h.root BY <2>4 DEF BaseMatches, Sums
    <3>3. \A p \in FactRange(h) : Sums(h)[p].facts \subseteq 0..m.base.last
      BY <2>2, <3>1, <3>2, Zenon DEF ManifestOk
    <3> QED BY <3>3 DEF HeaderBase
  <2>7. SegmentsOrdered(m.base, m.segs) /\ m.base.last \in Nat BY <2>2, Zenon DEF ManifestOk
  <2>8. \A i \in DOMAIN m.segs : m.segs[i].facts \subseteq Nat BY <2>2, SegmentPages
  <2>9. DOMAIN m.segs \subseteq Nat
    <3> DEFINE q == m.segs
    <3>1. q \in Seq(Segment) BY <2>2, Zenon DEF ManifestOk
    <3> HIDE DEF q
    <3>2. DOMAIN q \subseteq Nat BY <3>1
    <3> QED BY <3>2 DEF q
  <2> HIDE DEF m
  <2>10. HeaderBase(h) \cap SegmentFacts(m.segs) = {}
    <3> SUFFICES ASSUME NEW i \in DOMAIN m.segs, NEW t \in m.segs[i].facts, t \in 0..m.base.last
                 PROVE  FALSE
      BY <2>6 DEF SegmentFacts
    <3>1. m.base.last < t BY <2>7 DEF SegmentsOrdered
    <3> QED BY <2>7, <3>1
  <2>11. ASSUME NEW i \in DOMAIN m.segs, NEW j \in DOMAIN m.segs, i < j
         PROVE  m.segs[i].facts \cap m.segs[j].facts = {}
    <3>1. \A t \in m.segs[i].facts, u \in m.segs[j].facts : t < u
      BY <2>7, <2>11 DEF SegmentsOrdered
    <3>2. \A t \in Nat : ~(t < t) OBVIOUS
    <3> QED BY <2>8, <3>1, <3>2
  <2>12. \A i, j \in DOMAIN m.segs : i # j => i < j \/ j < i BY <2>9
  <2> QED BY <1>1, <2>3, <2>10, <2>11, <2>12
<1> QED BY <1>2, <1>3

(* The invariants imply AckedHeldOnce. *)
LEMMA HeldByInv == Inv1 /\ Inv2 => AckedHeldOnce
<1> SUFFICES ASSUME Inv1, Inv2 PROVE AckedHeldOnce OBVIOUS
<1>1. /\ HeaderOk(file[0]) /\ FactsKept(file[0], file) /\ HeaderOk(disk[0])
      /\ FactsKept(disk[0], disk)
  BY DEF Inv1, Images, Sound
<1>2. LoadedFacts(file) = HeaderFacts(file[0]) /\ LoadedFacts(disk) = HeaderFacts(disk[0])
  BY <1>1, ReadsHeader
<1>3. ReplayedFacts(file) = Replay(file[0]) /\ ReplayedFacts(disk) = Replay(disk[0])
  BY DEF ReplayedFacts, Replayable, Replay
<1>4. ASSUME retries = 0, NEW t \in acked PROVE Holds(t, file) /\ Holds(t, disk)
  <2>1. Unretried BY <1>4 DEF Inv2
  <2>2. t \in HeaderAll(file[0]) /\ t \in HeaderAll(disk[0])
    BY <2>1 DEF Unretried, OpenAgrees
  <2> QED BY <1>2, <1>3, <2>2 DEF Holds, HeaderAll
<1>5. \A f \in {file, disk} : LoadOk(f) =>
        /\ BaseFacts(f) \cap SegmentFacts(Segments(f)) = {}
        /\ \A i, j \in DOMAIN Segments(f) :
              i # j => Segments(f)[i].facts \cap Segments(f)[j].facts = {}
  BY <1>1, LayersDisjoint
<1> QED BY <1>4, <1>5 DEF AckedHeldOnce

(* An acknowledged fact survives every crash, and is in one layer only     *)
(* (save, replay_wal, DeltaManifest::validate).                            *)
THEOREM AcknowledgedHeld == Spec => []AckedHeldOnce
BY ImagesSound, ShownKept, HeldByInv, PTL

-----------------------------------------------------------------------------
(* Copy on write.                                                          *)

(* The pages a page 0 names lie inside the file it describes. *)
LEMMA NamedPages ==
    ASSUME NEW f, HeaderOk(f[0])
    PROVE  Named(f) \subseteq 1..(f[0].pages - 1)
<1> DEFINE h == f[0]
<1>1. h.pages \in Nat BY HeaderNumbers
<1>2. \A s \in Slots : h.slots[s] # Empty =>
         /\ h.slots[s].page \in 1..(h.pages - 1)
         /\ \A i \in DOMAIN h.slots[s].content.segs :
               h.slots[s].content.segs[i].page \in 1..(h.pages - 1)
  BY HeaderPages, Zenon
<1>3. h.catalog # Empty =>
         h.catalog.page \in 1..(h.pages - 1) /\ DOMAIN h.catalog.content.sums \subseteq 1..(h.pages - 1)
  <2> SUFFICES ASSUME h.catalog # Empty
               PROVE  /\ h.catalog.page \in 1..(h.pages - 1)
                      /\ DOMAIN h.catalog.content.sums \subseteq 1..(h.pages - 1)
    OBVIOUS
  <2>1. h.root # 0
    <3>1. FreshHeader.catalog = Empty BY DEF FreshHeader
    <3> QED BY <3>1 DEF HeaderOk
  <2>2. h.catalog.page \in 1..(h.pages - 1) BY <2>1, HeaderPages
  <2>3. DOMAIN h.catalog.content.sums = h.start..h.root BY <2>1 DEF HeaderOk, Sums
  <2>4. h.start \in Nat \ {0} /\ h.root \in Nat /\ h.root + 1 < h.pages BY <2>1, HeaderNumbers
  <2>5. h.start..h.root \subseteq 1..(h.pages - 1) BY <1>1, <2>4
  <2> QED BY <2>2, <2>3, <2>5
<1> DEFINE ds == {h.slots[s] : s \in {x \in Slots : h.slots[x] # Empty}}
           base == IF h.catalog = Empty THEN {} ELSE {h.catalog.page} \cup DOMAIN h.catalog.content.sums
           manifests == {d.page : d \in ds}
           segments == UNION {{d.content.segs[i].page : i \in DOMAIN d.content.segs} : d \in ds}
<1>4. Named(f) = base \cup manifests \cup segments BY Zenon DEF Named
<1>5. base \subseteq 1..(h.pages - 1) BY <1>3
<1>6. manifests \subseteq 1..(h.pages - 1) BY <1>2, Zenon
<1>7. segments \subseteq 1..(h.pages - 1)
  <2> SUFFICES ASSUME NEW p \in segments PROVE p \in 1..(h.pages - 1) BY Zenon
  <2>1. PICK d \in ds : p \in {d.content.segs[i].page : i \in DOMAIN d.content.segs} BY Zenon
  <2>2. PICK i \in DOMAIN d.content.segs : p = d.content.segs[i].page BY <2>1, Zenon
  <2>3. PICK s \in Slots : h.slots[s] # Empty /\ d = h.slots[s] BY Zenon
  <2> QED BY <1>2, <2>2, <2>3, Zenon
<1> HIDE DEF base, manifests, segments, h
<1> QED BY <1>4, <1>5, <1>6, <1>7, Zenon DEF h

(* Two versions that both have the pages of a page 0 agree on them. *)
LEMMA NamedAgree ==
    ASSUME NEW x, HeaderOk(x[0]), NEW f, NEW g, FactsKept(x[0], f), BaseKept(x[0], f),
           FactsKept(x[0], g), BaseKept(x[0], g)
    PROVE  \A p \in Named(x) : f[p] = g[p]
<1> DEFINE h == x[0]
<1>1. \A s \in Slots : h.slots[s] # Empty =>
         /\ f[h.slots[s].page] = g[h.slots[s].page]
         /\ \A i \in DOMAIN h.slots[s].content.segs :
               f[h.slots[s].content.segs[i].page] = g[h.slots[s].content.segs[i].page]
  <2> SUFFICES ASSUME NEW s \in Slots, h.slots[s] # Empty
               PROVE  /\ f[h.slots[s].page] = g[h.slots[s].page]
                      /\ \A i \in DOMAIN h.slots[s].content.segs :
                            f[h.slots[s].content.segs[i].page] = g[h.slots[s].content.segs[i].page]
    BY Zenon
  <2>1. /\ f[h.slots[s].page] = h.slots[s].content /\ g[h.slots[s].page] = h.slots[s].content
    BY Zenon DEF FactsKept
  <2>2. ASSUME NEW i \in DOMAIN h.slots[s].content.segs
        PROVE  f[h.slots[s].content.segs[i].page] = g[h.slots[s].content.segs[i].page]
    <3> DEFINE c == h.slots[s].content.segs[i]
    <3>1. f[c.page] = c BY Zenon DEF FactsKept
    <3>2. g[c.page] = c BY Zenon DEF FactsKept
    <3> QED BY <3>1, <3>2, Zenon
  <2> QED BY <2>1, <2>2, Zenon
<1>2. h.catalog # Empty =>
         /\ f[h.catalog.page] = g[h.catalog.page]
         /\ \A p \in DOMAIN h.catalog.content.sums : f[p] = g[p]
  <2> SUFFICES ASSUME h.catalog # Empty
               PROVE  /\ f[h.catalog.page] = g[h.catalog.page]
                      /\ \A p \in DOMAIN h.catalog.content.sums : f[p] = g[p]
    OBVIOUS
  <2>1. h.root # 0
    <3>1. FreshHeader.catalog = Empty BY DEF FreshHeader
    <3> QED BY <3>1 DEF HeaderOk
  <2>2. DOMAIN h.catalog.content.sums = h.start..h.root BY <2>1 DEF HeaderOk, Sums
  <2>3. \A p \in h.start..h.root : p \in FactRange(h) \/ p = h.root
    <3>1. h.start \in Nat /\ h.count \in Nat /\ h.root = h.start + h.count
      BY <2>1, HeaderNumbers
    <3> QED BY <3>1 DEF FactRange
  <2> QED BY <2>1, <2>2, <2>3, Zenon DEF FactsKept, BaseKept
<1>3. ASSUME NEW p \in Named(x)
      PROVE  \/ h.catalog # Empty /\ (p = h.catalog.page \/ p \in DOMAIN h.catalog.content.sums)
             \/ \E s \in Slots :
                   /\ h.slots[s] # Empty
                   /\ \/ p = h.slots[s].page
                      \/ \E i \in DOMAIN h.slots[s].content.segs :
                            p = h.slots[s].content.segs[i].page
  <2> DEFINE ds == {h.slots[s] : s \in {y \in Slots : h.slots[y] # Empty}}
             C == IF h.catalog = Empty THEN {} ELSE {h.catalog.page} \cup DOMAIN h.catalog.content.sums
             M == {d.page : d \in ds}
             G == UNION {{d.content.segs[i].page : i \in DOMAIN d.content.segs} : d \in ds}
  <2>1. Named(x) = C \cup M \cup G BY Zenon DEF Named
  <2>2. \A d \in ds : \E s \in Slots : h.slots[s] # Empty /\ d = h.slots[s] OBVIOUS
  <2> HIDE DEF ds
  <2>3. CASE p \in C BY <2>3
  <2>4. CASE p \in M
    <3>1. PICK d \in ds : p = d.page BY <2>4
    <3> QED BY <2>2, <3>1
  <2>5. CASE p \in G
    <3>1. PICK d \in ds : p \in {d.content.segs[i].page : i \in DOMAIN d.content.segs} BY <2>5
    <3>2. PICK i \in DOMAIN d.content.segs : p = d.content.segs[i].page BY <3>1
    <3>3. PICK s \in Slots : h.slots[s] # Empty /\ d = h.slots[s] BY <2>2
    <3>4. i \in DOMAIN h.slots[s].content.segs /\ p = h.slots[s].content.segs[i].page
      BY <3>2, <3>3, Zenon
    <3>5. \E k \in DOMAIN h.slots[s].content.segs : p = h.slots[s].content.segs[k].page
      BY <3>4, Zenon
    <3> QED BY <3>3, <3>5, Zenon
  <2>6. p \in C \/ p \in M \/ p \in G
    <3> HIDE DEF C, M, G
    <3>1. p \in C \cup M \cup G BY <2>1
    <3> QED BY <3>1
  <2> HIDE DEF C, M, G
  <2> QED BY <2>3, <2>4, <2>5, <2>6, Zenon
<1> SUFFICES ASSUME NEW p \in Named(x) PROVE f[p] = g[p] OBVIOUS
<1>4. CASE h.catalog # Empty /\ (p = h.catalog.page \/ p \in DOMAIN h.catalog.content.sums)
  BY <1>2, <1>4
<1>5. ASSUME NEW s \in Slots, h.slots[s] # Empty,
             \/ p = h.slots[s].page
             \/ \E i \in DOMAIN h.slots[s].content.segs : p = h.slots[s].content.segs[i].page
      PROVE  f[p] = g[p]
  <2>1. CASE p = h.slots[s].page BY <1>1, <1>5, <2>1, Zenon
  <2>2. ASSUME NEW i \in DOMAIN h.slots[s].content.segs, p = h.slots[s].content.segs[i].page
        PROVE  f[p] = g[p]
    BY <1>1, <1>5, <2>2, Zenon
  <2> QED BY <1>5, <2>1, <2>2, Zenon
<1> QED BY <1>3, <1>4, <1>5, Zenon

(* No step writes over a page that stays named. *)
LEMMA NamedStep ==
    ASSUME Inv1, [Next]_vars, ~rewritten',
           NEW p \in Named(disk) \cup Named(file), p \in Named(file')
    PROVE  file'[p] = file[p]
<1> DEFINE h == file[0]
           d == disk[0]
<1>1. HeaderOk(h) /\ HeaderOk(d) /\ d.pages <= h.pages /\ file = [q \in 0..MaxPage |-> file[q]]
  BY DEF Inv1, Images, Sound, Follows
<1>2. h.pages \in Nat /\ d.pages \in Nat /\ h.pages <= MaxPage + 1 BY <1>1, HeaderNumbers
<1>3. p \in 1..(h.pages - 1) /\ p \in 0..MaxPage
  <2>1. Named(file) \subseteq 1..(h.pages - 1) /\ Named(disk) \subseteq 1..(d.pages - 1)
    BY <1>1, NamedPages, Zenon
  <2>2. 1..(d.pages - 1) \subseteq 1..(h.pages - 1) /\ 1..(h.pages - 1) \subseteq 0..MaxPage
    <3>1. MaxPage \in Nat BY StoreAssumption
    <3>2. d.pages <= h.pages BY <1>1
    <3> HIDE DEF h, d
    <3> QED BY <1>2, <3>1, <3>2
  <2> QED BY <2>1, <2>2
<1>4. CASE file' = file BY <1>4
<1>5. CASE WriteDelta
  <2>1. p # h.pages /\ p # h.pages + 1 BY <1>2, <1>3
  <2>2. file' = [file EXCEPT ![h.pages] = NewSegment, ![h.pages + 1] = NewManifest]
    BY <1>5 DEF WriteDelta, Header
  <2> QED BY <1>1, <1>3, <2>1, <2>2
<1>6. CASE RefuseDelta
  <2>1. p # h.pages BY <1>2, <1>3
  <2>2. file' = [file EXCEPT ![h.pages] = NewSegment] BY <1>6 DEF RefuseDelta, Header
  <2> QED BY <1>1, <1>3, <2>1, <2>2
<1>7. ASSUME NEW start \in Nat, NEW old \in Nat, NEW fresh, NEW all, start >= h.pages,
             WriteBase(start, old, fresh, all)
      PROVE  file'[p] = file[p]
  <2>1. p # start + old /\ p # start + old + 1 BY <1>2, <1>3, <1>7
  <2>2. \E v, w : file' = [file EXCEPT ![start + old] = v, ![start + old + 1] = w]
    BY <1>7, Zenon DEF WriteBase
  <2> QED BY <1>1, <1>3, <2>1, <2>2
<1>8. CASE WriteFull
  <2>1. pc = "idle" /\ mem.slot = None BY <1>8 DEF WriteFull
  <2>2. h.root = 0 BY <1>8, Zenon DEF WriteFull, Header
  <2>3. h = FreshHeader BY <1>1, <2>2 DEF HeaderOk
  <2>4. h.pages = 1 BY <2>3 DEF FreshHeader
  <2> QED BY <1>3, <2>4
<1>9. CASE WriteRecompact
  <2> DEFINE q == h.pages
  <2>1. WriteBase(q, 0, shown, shown) BY <1>9 DEF WriteRecompact, Header
  <2>2. q \in Nat /\ 0 \in Nat /\ q >= h.pages BY <1>2
  <2> HIDE DEF q
  <2> QED BY <1>7, <2>1, <2>2
<1>10. CASE WriteCatalog
  <2>1. pc = "data" /\ rewritten' = rewritten BY <1>10 DEF WriteCatalog, history
  <2>2. NextBase BY <2>1 DEF Inv1, Open, Saving
  <2>3. \E c : file' = [file EXCEPT ![next.pages - 1] = c] BY <1>10, Zenon DEF WriteCatalog
  <2>4. /\ next.start \in Nat \ {0} /\ next.count \in Nat \ {0} /\ next.root = next.start + next.count
        /\ next.pages = next.root + 2
    BY <2>2 DEF NextBase
  <2>5. next.start >= h.pages \/ h.root = 0 BY <2>1, <2>2 DEF NextBase
  <2>6. h.root = 0 => h.pages = 1
    <3>1. h.root = 0 => h = FreshHeader BY <1>1 DEF HeaderOk
    <3>2. FreshHeader.pages = 1 BY DEF FreshHeader
    <3> QED BY <3>1, <3>2
  <2>7. next.start >= h.pages BY <1>2, <2>4, <2>5, <2>6
  <2>8. p # next.pages - 1 BY <1>2, <1>3, <2>4, <2>7
  <2> QED BY <1>1, <1>3, <2>3, <2>8
<1>11. CASE WriteHeader
  <2>1. file' = [file EXCEPT ![0] = next] /\ p # 0 BY <1>3, <1>11 DEF WriteHeader
  <2> QED BY <1>1, <1>3, <2>1
<1>12. CASE PowerLoss
  <2>1. rewritten' = rewritten BY <1>12 DEF PowerLoss, Stop, history
  <2>2. PICK kept : file' = [q \in DOMAIN file |-> IF q \in kept THEN file[q] ELSE disk[q]]
    BY <1>12 DEF PowerLoss
  <2>3. DOMAIN file = 0..MaxPage BY <1>1
  <2>4. file'[p] \in {file[p], disk[p]} /\ file'[0] \in {h, d}
    BY <1>3, <2>2, <2>3, StoreAssumption
  <2> DEFINE x == file'
  <2>5. /\ HeaderOk(x[0]) /\ FactsKept(x[0], file) /\ FactsKept(x[0], disk)
        /\ BaseKept(x[0], file) /\ BaseKept(x[0], disk)
    BY <2>1, <2>4 DEF Inv1, Images, Sound
  <2>6. p \in Named(x) OBVIOUS
  <2> HIDE DEF x
  <2>7. file[p] = disk[p] BY <2>5, <2>6, NamedAgree
  <2> QED BY <2>4, <2>7
<1>13. ASSUME Load \/ (\E empty \in BOOLEAN : Transact(empty)) \/ SaveFails \/ SyncHeader
              \/ RetireWal \/ RetireFails \/ Kill \/ UNCHANGED vars
       PROVE  file' = file
  BY <1>13 DEF Load, Transact, SaveFails, SyncHeader, RetireWal, RetireFails, Kill, vars
<1> QED
  BY <1>4, <1>5, <1>6, <1>8, <1>9, <1>10, <1>11, <1>12, <1>13 DEF Next

(* No step writes over a page that a page 0 on disk or in the file names   *)
(* and keeps naming (try_save_delta_segment and                            *)
(* write_recompact_candidate_from_visible_facts append; load may fall back *)
(* on what they leave).                                                    *)
THEOREM CopyOnWrite == Spec => NamedPagesKept
<1>1. Inv1 /\ [Next]_vars =>
        [~rewritten' => \A p \in Named(disk) \cup Named(file) :
                           p \in Named(file') => file'[p] = file[p]]_vars
  BY NamedStep
<1> QED BY <1>1, ImagesSound, PTL DEF Spec, NamedPagesKept

-----------------------------------------------------------------------------
(* Refinement.                                                             *)

(* The abstract image is what page 0 says, as its pages are kept. *)
LEMMA AbstractHeader ==
    ASSUME NEW f, HeaderOk(f[0]), FactsKept(f[0], f), LoadOk(f)
    PROVE  Abstract(f) = [last |-> f[0].last, facts |-> HeaderFacts(f[0])]
BY ReadsHeader DEF Abstract

(* While files open, each step of the store is one of the abstract image. *)
LEMMA AtomicStep ==
    ASSUME Inv1, Inv1', [Next]_vars,
           LoadOk(file), LoadOk(disk), LoadOk(file'), LoadOk(disk')
    PROVE  [Atomic!AtomicNext]_<<Abstract(file), Abstract(disk)>>
<1> DEFINE V(h) == [last |-> h.last, facts |-> HeaderFacts(h)]
<1>1. /\ HeaderOk(file[0]) /\ FactsKept(file[0], file) /\ HeaderOk(disk[0])
      /\ FactsKept(disk[0], disk) /\ file = [q \in 0..MaxPage |-> file[q]]
  BY DEF Inv1, Images, Sound
<1>2. /\ HeaderOk(file'[0]) /\ FactsKept(file'[0], file') /\ HeaderOk(disk'[0])
      /\ FactsKept(disk'[0], disk')
  BY DEF Inv1, Images, Sound
<1>3. Abstract(file) = V(file[0]) /\ Abstract(disk) = V(disk[0]) BY <1>1, AbstractHeader, Zenon
<1>4. Abstract(file') = V(file'[0]) /\ Abstract(disk') = V(disk'[0])
  <2> DEFINE x == file'
             y == disk'
  <2>1. /\ HeaderOk(x[0]) /\ FactsKept(x[0], x) /\ LoadOk(x)
        /\ HeaderOk(y[0]) /\ FactsKept(y[0], y) /\ LoadOk(y)
    BY <1>2
  <2> HIDE DEF x, y
  <2>2. Abstract(x) = [last |-> x[0].last, facts |-> HeaderFacts(x[0])]
        /\ Abstract(y) = [last |-> y[0].last, facts |-> HeaderFacts(y[0])]
    BY <2>1, AbstractHeader
  <2> QED BY <2>2 DEF x, y
<1>5. SUFFICES \/ file'[0] = file[0] /\ disk'[0] \in {disk[0], file[0]}
               \/ file'[0] = disk[0] /\ disk'[0] = disk[0]
               \/ /\ disk'[0] = file[0] /\ file'[0].last >= file[0].last
                  /\ HeaderFacts(file[0]) \subseteq HeaderFacts(file'[0])
  <2> HIDE DEF V
  <2>1. CASE file'[0] = file[0] /\ disk'[0] = disk[0] BY <1>3, <1>4, <2>1
  <2>2. CASE file'[0] = file[0] /\ disk'[0] = file[0]
    BY <1>3, <1>4, <2>2 DEF Atomic!AtomicNext, Atomic!Synced
  <2>3. CASE file'[0] = disk[0] /\ disk'[0] = disk[0]
    BY <1>3, <1>4, <2>3 DEF Atomic!AtomicNext, Atomic!Lost
  <2>4. CASE /\ disk'[0] = file[0] /\ file'[0].last >= file[0].last
             /\ HeaderFacts(file[0]) \subseteq HeaderFacts(file'[0])
    <3>1. Abstract(disk') = Abstract(file) BY <1>3, <1>4, <2>4
    <3>2. Abstract(file').last >= Abstract(file).last
          /\ Abstract(file).facts \subseteq Abstract(file').facts
      BY <1>3, <1>4, <2>4, SMTT(60) DEF V
    <3> QED BY <3>1, <3>2 DEF Atomic!AtomicNext, Atomic!Publish, Atomic!Extends
  <2> QED BY <1>5, <2>1, <2>2, <2>3, <2>4
<1>6. CASE WriteHeader
  <2>1. pc = "header" /\ disk' = file /\ file' = [file EXCEPT ![0] = next] BY <1>6 DEF WriteHeader
  <2>2. /\ Follows(next, file[0]) /\ HeaderFacts(file[0]) \subseteq HeaderFacts(next)
        /\ HeaderOk(next)
    BY <2>1 DEF Inv1, Open, Saving, NextOk
  <2>3. file'[0] = next BY <1>1, <2>1, StoreAssumption
  <2>4. next.last >= file[0].last
    <3>1. next.last \in Nat /\ file[0].last \in Nat BY <1>1, <2>2, HeaderNumbers
    <3> QED BY <2>2, <3>1 DEF Follows
  <2> QED BY <2>1, <2>2, <2>3, <2>4
<1>7. CASE PowerLoss
  <2>1. disk' = file' BY <1>7 DEF PowerLoss
  <2>2. PICK kept : file' = [q \in DOMAIN file |-> IF q \in kept THEN file[q] ELSE disk[q]]
    BY <1>7 DEF PowerLoss
  <2>3. file'[0] \in {file[0], disk[0]} BY <1>1, <2>2, StoreAssumption
  <2> QED BY <2>1, <2>3
<1>8. CASE [Next]_vars /\ ~WriteHeader /\ ~PowerLoss
  <2>1. disk' \in {disk, file}
    BY <1>8, Zenon DEF Next, Load, Transact, WriteDelta, RefuseDelta, WriteFull, WriteRecompact,
       WriteBase, WriteCatalog, SaveFails, SyncHeader, RetireWal, RetireFails, Kill, vars
  <2>2. file'[0] = file[0]
    <3>1. file[0].pages \in Nat \ {0} BY <1>1, HeaderNumbers
    <3>2. CASE file' = file BY <3>2
    <3>3. CASE WriteDelta
      <4> DEFINE q == file[0].pages
                 r == q + 1
      <4>1. PICK v, w : file' = [file EXCEPT ![q] = v, ![r] = w] BY <3>3, Zenon DEF WriteDelta, Header
      <4>2. 0 # q /\ 0 # r BY <3>1
      <4>3. 0 \in DOMAIN file BY <1>1, StoreAssumption
      <4> HIDE DEF q, r
      <4> QED BY <4>1, <4>2, <4>3
    <3>4. CASE RefuseDelta
      <4>1. \E v : file' = [file EXCEPT ![file[0].pages] = v] BY <3>4, Zenon DEF RefuseDelta, Header
      <4> QED BY <1>1, <3>1, <4>1, StoreAssumption
    <3>5. CASE WriteFull \/ WriteRecompact
      <4>1. \E start \in Nat \ {0}, old \in Nat : \E fresh, all : WriteBase(start, old, fresh, all)
        <5>1. CASE WriteFull
          <6>1. pc = "idle" /\ WriteBase(mem.start, mem.count, pending, Indexed \cup pending)
            BY <5>1 DEF WriteFull
          <6>2. mem.start \in Nat \ {0} /\ mem.count \in Nat
            BY <6>1 DEF Inv1, Open, MemOk, MemShape
          <6> QED BY <6>1, <6>2
        <5>2. CASE WriteRecompact
          <6>1. WriteBase(file[0].pages, 0, shown, shown) BY <5>2 DEF WriteRecompact, Header
          <6> QED BY <3>1, <6>1
        <5> QED BY <3>5, <5>1, <5>2
      <4>2. PICK start \in Nat \ {0}, old \in Nat : \E fresh, all : WriteBase(start, old, fresh, all)
        BY <4>1
      <4>3. \E v, w : file' = [file EXCEPT ![start + old] = v, ![start + old + 1] = w]
        BY <4>2, Zenon DEF WriteBase
      <4>4. 0 # start + old /\ 0 # start + old + 1 OBVIOUS
      <4> QED BY <1>1, <4>3, <4>4, StoreAssumption
    <3>6. CASE WriteCatalog
      <4>1. pc = "data" /\ \E c : file' = [file EXCEPT ![next.pages - 1] = c]
        BY <3>6, Zenon DEF WriteCatalog
      <4>2. NextBase BY <4>1 DEF Inv1, Open, Saving
      <4>3. next.start \in Nat \ {0} /\ next.count \in Nat \ {0}
            /\ next.root = next.start + next.count /\ next.pages = next.root + 2
        BY <4>2 DEF NextBase
      <4>4. next.pages - 1 # 0 BY <4>3
      <4> QED BY <1>1, <4>1, <4>4, StoreAssumption
    <3>7. ASSUME Load \/ (\E empty \in BOOLEAN : Transact(empty)) \/ SaveFails \/ SyncHeader
                  \/ RetireWal \/ RetireFails \/ Kill \/ UNCHANGED vars
          PROVE  file' = file
      BY <3>7 DEF Load, Transact, SaveFails, SyncHeader, RetireWal, RetireFails, Kill, vars
    <3> QED BY <1>8, <3>2, <3>3, <3>4, <3>5, <3>6, <3>7 DEF Next
  <2> QED BY <2>1, <2>2
<1> QED BY <1>6, <1>7, <1>8

(* What was rewritten or retried stays so. *)
LEMMA ExclusionsStay ==
    ASSUME Inv2, [Next]_vars, ~rewritten', retries' = 0
    PROVE  ~rewritten /\ retries = 0
<1>1. retries \in Nat BY DEF Inv2
<1>2. CASE WriteHeader
  <2>1. rewritten' = rewritten /\ retries' = IF doubt THEN retries + 1 ELSE retries
    BY <1>2 DEF WriteHeader
  <2> QED BY <1>1, <2>1
<1>3. CASE WriteFull
  <2>1. rewritten' = (rewritten \/ Header.root # 0) BY <1>3 DEF WriteFull
  <2>2. retries' = retries BY <1>3 DEF WriteFull, WriteBase
  <2> QED BY <2>1, <2>2
<1>4. CASE [Next]_vars /\ ~WriteHeader /\ ~WriteFull
  <2>1. rewritten' = rewritten /\ retries' = retries
    BY <1>4, Zenon DEF Next, Load, Transact, WriteDelta, RefuseDelta, WriteRecompact, WriteBase,
       WriteCatalog, SaveFails, SyncHeader, RetireWal, RetireFails, Kill, PowerLoss, Stop,
       vars, history
  <2> QED BY <2>1
<1> QED BY <1>2, <1>3, <1>4

(* Base, delta segments, manifests, catalog and page 0, page by page,      *)
(* implement the atomic image the write path relies on (save,              *)
(* publish_recompact_candidate): as long as no base was rewritten in place *)
(* and no page 0 written again after a failed sync, both versions of the   *)
(* file a crash can leave open, and change as one atomic image.            *)
THEOREM PagesImplementImage == Spec => ImplementsAtomicImage
<1>1. Init => Atomic!AtomicInit
  <2> SUFFICES ASSUME Init PROVE Atomic!AtomicInit OBVIOUS
  <2>1. file[0] = FreshHeader /\ disk = file BY StoreAssumption DEF Init
  <2>2. LoadOk(file) BY AgreesByInv, InitInv1, InitInv2 DEF ReopenAgrees, Init
  <2>3. Abstract(file) = [last |-> FreshHeader.last, facts |-> HeaderFacts(FreshHeader)]
    BY <2>1, <2>2, FreshSound, AbstractHeader
  <2>4. FreshHeader.last = 0 BY DEF FreshHeader
  <2> QED BY <2>1, <2>3, <2>4, FreshSound DEF Atomic!AtomicInit
<1>2. ASSUME Inv1, Inv1', Inv2, Inv2', [Next]_vars
      PROVE  [~rewritten' /\ retries' = 0 =>
                 /\ LoadOk(file') /\ LoadOk(disk')
                 /\ Atomic!AtomicNext]_<<Abstract(file), Abstract(disk)>>
  <2> SUFFICES ASSUME ~rewritten', retries' = 0
               PROVE  /\ LoadOk(file') /\ LoadOk(disk')
                      /\ [Atomic!AtomicNext]_<<Abstract(file), Abstract(disk)>>
    OBVIOUS
  <2>1. ~rewritten /\ retries = 0 BY <1>2, ExclusionsStay
  <2>2. LoadOk(file) /\ LoadOk(disk) BY <1>2, <2>1, AgreesByInv DEF ReopenAgrees
  <2>3. ReopenAgrees' BY <1>2, AgreesByInv, PTL
  <2>4. LoadOk(file') /\ LoadOk(disk') BY <2>3 DEF ReopenAgrees
  <2> QED BY <1>2, <2>2, <2>4, AtomicStep
<1> QED
  BY <1>1, <1>2, ImagesSound, ShownKept, PTL DEF Spec, ImplementsAtomicImage
=============================================================================
