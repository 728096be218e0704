--------------------------- MODULE ReadPathsProofs ---------------------------
(***************************************************************************)
(* Proofs about ReadPaths, for any number of transactions and saves, any   *)
(* batch size and any page capacity: scans, views and pollers are given    *)
(* exactly the log, and a cursor that completes is a snapshot.  The        *)
(* invariant is kept by the readers' steps, and by the writer's because    *)
(* these are Quiet.                                                        *)
(***************************************************************************)
EXTENDS ReadPathsScans

-----------------------------------------------------------------------------
(* The inductive invariant.                                                *)

(* The writer and the log. *)
WriterOk ==
    /\ writer \in {"idle", "wal", "load", "count", "start", "wire", "clear"}
    /\ todo \in 0..BatchSize /\ counter \in 0..MaxTx /\ gen \in Nat
    /\ writer \notin {"wal", "load"} => todo = 0
    /\ writer \in {"wal", "load"} => counter > 0
    /\ log \in Seq(Facts) /\ Ordered(log)
    /\ \A i \in 1..Len(log) : log[i].tx <= counter

(* The log lies in the base, the resident delta and the overlay. *)
LayersOk ==
    /\ pending \in Seq(Facts) /\ delta \in Seq(Facts)
    /\ committed = [catalog |-> committed.catalog, root |-> committed.root,
                    layered |-> committed.layered]
    /\ committed.root \in Seq(Facts) /\ committed.layered \in BOOLEAN
    /\ log = (committed.root \o delta) \o pending
    /\ ~committed.layered => delta = <<>>
    /\ writer = "clear" => pending = <<>>

(* The base the readers go through, and the one a save is about to publish. *)
Publishing == writer \in {"count", "start"} \/ (writer = "wire" /\ next.kind = "base")
BaseOk ==
    /\ pages \in Nat \ {0} /\ start \in Nat \ {0} /\ count \in Nat
    /\ \A p \in DOMAIN file : file[p].facts \in Seq(Facts)
    /\ ~Swapping => Pages(file, count, start, committed.root, committed.catalog)
    /\ ~Publishing => start + count <= pages
    /\ writer = "wire" => next.kind \in {"base", "delta"}
    /\ Publishing =>
         /\ next.kind = "base" /\ next.root = log
         /\ Pages(file, next.count, next.start, next.root, next.catalog)
         /\ next.start + next.count <= pages
         /\ writer \in {"start", "wire"} => count = next.count
         /\ writer = "wire" => start = next.start

(* A scan under way has the page count of the readers it goes through. *)
ScanOk ==
    /\ role \in {"export", "view", "poll", "walk"}
    /\ scan # None => /\ scan \in Nat /\ reading /\ role # "walk"
                      /\ ~Swapping => scan = count

ViewOk ==
    /\ view # None =>
          /\ view \in 0..counter /\ viewLog = Kept(log, 0..view)
          /\ writer \in {"wal", "load"} => view < counter
    /\ scan # None /\ role = "view" => view # None

PollOk ==
    /\ cursor \in Nat /\ torn \in BOOLEAN
    /\ ~torn => /\ polled = Kept(log, 0..cursor)
                /\ cursor <= counter
                /\ todo > 0 => cursor < counter

(* A cursor has seen, in key order, the smallest of the facts it is for. *)
WalkOk ==
    walk # None =>
        /\ walk = [gen |-> walk.gen, ids |-> walk.ids, readers |-> walk.readers,
                   seen |-> walk.seen, done |-> walk.done, want |-> walk.want]
        /\ walk.gen \in Nat /\ walk.gen <= gen /\ walk.done \in BOOLEAN
        /\ walk.want \subseteq Facts
        /\ walk.seen \in Seq(Facts) /\ Range(walk.seen) \subseteq walk.want
        /\ \A i, j \in DOMAIN walk.seen : i < j => Before(walk.seen[i], walk.seen[j])
        /\ \A f \in walk.want \ Range(walk.seen) :
              \A i \in DOMAIN walk.seen : Before(walk.seen[i], f)
        /\ walk.done => Range(walk.seen) = walk.want
        /\ walk.gen = gen =>
              /\ walk.readers = committed /\ walk.ids = DOMAIN pending
              /\ walk.want = Range(log)

Inv == WriterOk /\ LayersOk /\ BaseOk /\ ScanOk /\ ViewOk /\ PollOk /\ WalkOk

-----------------------------------------------------------------------------
(* What a scan returns.                                                    *)

(* Pages in the file, all readable or not, have facts. *)
LEMMA ScanType ==
    ASSUME Inv, scan # None, NEW since \in Nat
    PROVE  ScanFacts(scan, since) \in Seq(Facts) \cup {Failed}
<1> SUFFICES ASSUME ~\E i \in 0..(scan - 1) : ~PageReadable(start + i)
             PROVE  BaseScan(scan, start, since)
                      \o Kept((IF committed.layered THEN delta ELSE <<>>) \o pending, After(since))
                    \in Seq(Facts)
  BY DEF ScanFacts
<1> DEFINE n == scan
           k == IF since = 0 THEN 0 ELSE TailPage(file, n, start, since)
           d == IF committed.layered THEN delta ELSE <<>>
<1>1. n \in Nat /\ start \in Nat BY DEF Inv, ScanOk, BaseOk
<1>2. \A i \in 0..(n - 1) : file[start + i].facts \in Seq(Facts)
  <2> TAKE i \in 0..(n - 1)
  <2>1. PageReadable(start + i) OBVIOUS
  <2>2. start + i \in DOMAIN file BY <2>1 DEF PageReadable
  <2> QED BY <2>2 DEF Inv, BaseOk
<1>3. d \in Seq(Facts) /\ pending \in Seq(Facts) BY DEF Inv, LayersOk
<1>4. BaseScan(n, start, since) = Kept(Concat(file, n, start, k), After(since)) BY DEF BaseScan
<1>5. k \in 0..n
  <2>1. TailPage(file, n, start, since) \in 0..n BY <1>1, TailOlder
  <2> QED BY <1>1, <2>1
<1> HIDE DEF n, k, d
<1>6. Concat(file, n, start, k) \in Seq(Facts) BY <1>1, <1>2, <1>5, ConcatType, Zenon
<1>7. Kept(Concat(file, n, start, k), After(since)) \in Seq(Facts) BY <1>6, KeptType
<1>8. d \o pending \in Seq(Facts) BY <1>3
<1>9. Kept(d \o pending, After(since)) \in Seq(Facts) BY <1>8, KeptType, Zenon
<1>10. BaseScan(n, start, since) \o Kept(d \o pending, After(since)) \in Seq(Facts)
  BY <1>4, <1>7, <1>9
<1> QED BY <1>10 DEF n, d

(* Outside a base swap a scan reads the log, whatever layer holds it. *)
LEMMA ScanIs ==
    ASSUME Inv, scan # None, ~Swapping, NEW since \in Nat
    PROVE  ScanFacts(scan, since) = Kept(log, After(since))
<1> DEFINE n == count
           root == committed.root
           d == IF committed.layered THEN delta ELSE <<>>
           A == After(since)
<1>1. n \in Nat /\ start \in Nat /\ scan = n BY DEF Inv, ScanOk, BaseOk
<1>2. Pages(file, n, start, root, committed.catalog) BY DEF Inv, BaseOk
<1>3. \A i \in 0..(n - 1) : PageReadable(start + i) BY <1>2 DEF Pages, PageReadable
<1>4. \A i \in 0..(n - 1) : file[start + i].facts \in Seq(Facts) BY <1>2, Zenon DEF Inv, BaseOk, Pages
<1>5. root \in Seq(Facts) /\ delta \in Seq(Facts) /\ pending \in Seq(Facts) /\ d = delta
      /\ log = (root \o delta) \o pending /\ log \in Seq(Facts) /\ Ordered(log)
  BY DEF Inv, LayersOk, WriterOk
<1>6. Concat(file, n, start, 0) = root BY <1>2 DEF Pages
<1> HIDE DEF n, root, d
<1>7. log = root \o (delta \o pending)
  <2>1. root \in Seq(Facts) /\ delta \in Seq(Facts) /\ pending \in Seq(Facts) BY <1>5
  <2>2. root \o (delta \o pending) = (root \o delta) \o pending BY <2>1, Assoc
  <2> QED BY <1>5, <2>2, Zenon
<1>8. delta \o pending \in Seq(Facts) BY <1>5
<1>9. Ordered(root) BY <1>5, <1>7, <1>8, OrderedPrefix, Zenon
<1>10. Ordered(Concat(file, n, start, 0)) BY <1>6, <1>9
<1>11. BaseScan(n, start, since) = Kept(root, A) BY <1>1, <1>4, <1>6, <1>10, TailExact, Zenon DEF BaseScan
<1>12. Kept(root \o (delta \o pending), A) = Kept(root, A) \o Kept(delta \o pending, A)
  <2> DEFINE v == delta \o pending
  <2>1. v \in Seq(Facts) /\ root \in Seq(Facts) BY <1>5, <1>8
  <2> HIDE DEF v, A
  <2>2. Kept(root \o v, A) = Kept(root, A) \o Kept(v, A) BY <2>1, KeptConcat
  <2> QED BY <2>2 DEF v
<1>13. ScanFacts(scan, since) = BaseScan(n, start, since) \o Kept(d \o pending, A)
  BY <1>1, <1>3, Zenon DEF ScanFacts, d
<1> QED BY <1>5, <1>7, <1>11, <1>12, <1>13

(* The log from number 1 on is the log. *)
LEMMA AfterZero ==
    ASSUME NEW s \in Seq(Facts) PROVE Kept(s, After(0)) = s
<1>1. ASSUME NEW i \in 1..Len(s) PROVE s[i].tx \in After(0)
  <2>1. s[i] \in Facts OBVIOUS
  <2>2. s[i].tx \in 1..MaxTx BY <2>1 DEF Facts
  <2> QED BY <2>2, PublicationAssumption DEF After
<1> QED BY <1>1, KeptAll

(* The invariant implies ScanSeesLog. *)
LEMMA ReturnedIs == ASSUME Inv PROVE ScanSeesLog
<1> SUFFICES ASSUME scan # None, ~Swapping PROVE Returned = Expected BY DEF ScanSeesLog
<1>1. log \in Seq(Facts) /\ cursor \in Nat BY DEF Inv, WriterOk, PollOk
<1>2. Failed \notin Seq(Facts) BY ReadersAssumption
<1>3. role \in {"export", "view", "poll"} BY DEF Inv, ScanOk
<1>4. CASE role = "poll"
  <2>1. ScanFacts(scan, cursor) = Kept(log, After(cursor)) BY <1>1, ScanIs
  <2> QED BY <1>4, <2>1 DEF Returned, Expected
<1>5. CASE role # "poll"
  <2>1. ScanFacts(scan, 0) = log
    <3>1. ScanFacts(scan, 0) = Kept(log, After(0)) BY ScanIs
    <3> QED BY <1>1, <3>1, AfterZero
  <2>2. CASE role = "export" BY <2>1, <2>2 DEF Returned, Expected
  <2>3. CASE role = "view"
    <3>1. log # Failed BY <1>1, <1>2
    <3>2. Returned = Kept(log, 0..view) BY <2>1, <2>3, <3>1 DEF Returned
    <3>3. viewLog = Kept(log, 0..view) BY <2>3 DEF Inv, ViewOk
    <3> QED BY <2>3, <3>2, <3>3 DEF Expected
  <2> QED BY <1>3, <1>5, <2>2, <2>3
<1> QED BY <1>4, <1>5

(* A poll moves its cursor to a number. *)
LEMMA CursorMoves ==
    ASSUME NEW s \in Seq(Facts), s # <<>>, NEW c,
           c = CHOOSE t \in {s[i].tx : i \in DOMAIN s} : \A i \in DOMAIN s : t >= s[i].tx
    PROVE  /\ c \in Nat /\ \A i \in 1..Len(s) : s[i].tx <= c
           /\ \E i \in 1..Len(s) : s[i].tx = c
<1>1. DOMAIN s = 1..Len(s) OBVIOUS
<1>2. \E t \in {s[i].tx : i \in DOMAIN s} : \A i \in DOMAIN s : t >= s[i].tx
  <2>1. PICK i \in 1..Len(s) : \A j \in 1..Len(s) : s[i].tx >= s[j].tx BY Newest
  <2> QED BY <1>1, <2>1, Zenon
<1>3. c \in {s[i].tx : i \in DOMAIN s} /\ \A i \in DOMAIN s : c >= s[i].tx BY <1>2, Zenon
<1>4. \A i \in 1..Len(s) : s[i].tx \in Nat
  <2> TAKE i \in 1..Len(s)
  <2>1. s[i] \in Facts OBVIOUS
  <2> QED BY <2>1, FactNumbers
<1>5. PICK i \in 1..Len(s) : c = s[i].tx BY <1>1, <1>3
<1> QED BY <1>1, <1>3, <1>4, <1>5, Zenon

(* The end of a scan keeps the invariant: a poller moves to the last fact  *)
(* it was given.                                                           *)
LEMMA EndScanInv == ASSUME Inv, EndScan PROVE Inv'
<1> DEFINE R == Returned
<1>0. UNCHANGED <<shared, role, view, viewLog, walk>> /\ scan' = None /\ reading' = FALSE BY DEF EndScan
<1>1. WriterOk' /\ LayersOk' /\ BaseOk' BY <1>0, Zenon DEF Inv, WriterOk, LayersOk, BaseOk, Publishing,
     Swapping, shared
<1>2. ScanOk' BY <1>0 DEF Inv, ScanOk
<1>3. ViewOk' BY <1>0 DEF Inv, ViewOk, shared
<1>4. WalkOk' BY <1>0 DEF Inv, WalkOk, shared
<1>5. PollOk'
  <2>1. log' = log /\ counter' = counter /\ todo' = todo BY <1>0 DEF shared
  <2>2. /\ cursor \in Nat /\ torn \in BOOLEAN /\ log \in Seq(Facts) /\ Ordered(log)
        /\ counter \in Nat /\ todo \in Nat
        /\ \A i \in 1..Len(log) : log[i].tx <= counter
    BY PublicationAssumption DEF Inv, PollOk, WriterOk
  <2>3. torn' = (torn \/ (role = "poll" /\ (Swapping \/ todo > 0))) BY DEF EndScan
  <2>4. torn' \in BOOLEAN BY <2>3
  <2>5. ~torn' => ~torn BY <2>3, Zenon
  <2>6. CASE ~(role = "poll" /\ R \notin {Failed, <<>>})
    <3>1. polled' = polled /\ cursor' = cursor BY <2>6 DEF EndScan
    <3> QED BY <2>1, <2>4, <2>5, <3>1 DEF Inv, PollOk
  <2>7. CASE role = "poll" /\ R \notin {Failed, <<>>}
    <3>1. /\ polled' = polled \o R
          /\ cursor' = CHOOSE t \in {R[i].tx : i \in DOMAIN R} : \A i \in DOMAIN R : t >= R[i].tx
      BY <2>7 DEF EndScan
    <3>2. R = ScanFacts(scan, cursor) /\ scan # None BY <2>7 DEF Returned, EndScan
    <3>3. R \in Seq(Facts) BY <2>2, <2>7, <3>2, ScanType
    <3> HIDE DEF R
    <3>4. /\ cursor' \in Nat /\ \A i \in 1..Len(R) : R[i].tx <= cursor'
          /\ \E i \in 1..Len(R) : R[i].tx = cursor'
      BY <2>7, <3>1, <3>3, CursorMoves, Zenon
    <3>5. ASSUME ~torn' PROVE polled' = Kept(log, 0..cursor') /\ cursor' <= counter /\ ~(todo > 0)
      <4>1. ~torn /\ ~Swapping /\ ~(todo > 0) BY <2>3, <2>7, <3>5, Zenon
      <4>2. R = Kept(log, After(cursor)) BY <2>2, <3>2, <4>1, ScanIs
      <4>3. polled = Kept(log, 0..cursor) BY <4>1 DEF Inv, PollOk
      <4>4. polled' = log BY <2>2, <3>1, <4>2, <4>3, KeptSplit, Zenon
      <4>5. \A i \in 1..Len(R) : R[i].tx \in After(cursor) /\ \E j \in 1..Len(log) : log[j] = R[i]
        BY <2>2, <4>2, KeptIn
      <4>6. PICK m \in 1..Len(R) : R[m].tx = cursor' BY <3>4
      <4>7. cursor' > cursor BY <4>5, <4>6 DEF After
      <4>8. cursor' <= counter BY <2>2, <4>5, <4>6
      <4>9. ASSUME NEW i \in 1..Len(log) PROVE log[i].tx \in 0..cursor'
        <5> DEFINE u == Kept(log, 0..cursor)
        <5>1. u \in Seq(Facts) /\ log = u \o R BY <2>2, <4>2, KeptType, KeptSplit, Zenon
        <5>2. \A j \in 1..Len(u) : u[j].tx \in 0..cursor BY <2>2, KeptIn
        <5> HIDE DEF u
        <5>3. Len(log) = Len(u) + Len(R) /\ Len(u) \in Nat /\ Len(R) \in Nat
              /\ (\A j \in 1..Len(u) : log[j] = u[j])
              /\ (\A j \in 1..Len(R) : log[Len(u) + j] = R[j])
          BY <3>3, <5>1, JoinAt
        <5>4. log[i] \in Facts BY <2>2
        <5>5. log[i].tx \in Nat BY <5>4, FactNumbers
        <5>6. CASE i <= Len(u)
          <6>1. i \in 1..Len(u) BY <5>3, <5>6, SMTT(20)
          <6>2. log[i].tx \in 0..cursor BY <5>2, <5>3, <6>1
          <6> QED BY <2>2, <3>4, <4>7, <6>2
        <5>7. CASE ~(i <= Len(u))
          <6>1. i - Len(u) \in 1..Len(R) /\ Len(u) + (i - Len(u)) = i BY <5>3, <5>7
          <6>2. log[i] = R[i - Len(u)] BY <5>3, <6>1
          <6>3. log[i].tx <= cursor' BY <3>4, <6>1, <6>2
          <6> QED BY <3>4, <5>5, <6>3
        <5> QED BY <5>6, <5>7
      <4>10. Kept(log, 0..cursor') = log BY <2>2, <4>9, KeptAll, Zenon
      <4> QED BY <4>1, <4>4, <4>8, <4>10
    <3> QED BY <2>1, <2>4, <3>4, <3>5 DEF PollOk
  <2> QED BY <2>6, <2>7
<1> QED BY <1>1, <1>2, <1>3, <1>4, <1>5 DEF Inv

-----------------------------------------------------------------------------
(* The other steps of the readers.                                         *)

(* A step of a reader leaves the writer's part of the invariant alone. *)
LEMMA SameWriter ==
    ASSUME Inv, UNCHANGED shared PROVE WriterOk' /\ LayersOk' /\ BaseOk'
BY Zenon DEF Inv, WriterOk, LayersOk, BaseOk, Publishing, Swapping, shared

(* read_view keeps the invariant: no batch is half loaded under the write  *)
(* lock.                                                                   *)
LEMMA CaptureViewInv == ASSUME Inv, CaptureView PROVE Inv'
<1>1. UNCHANGED shared /\ UNCHANGED <<reading, role, scan, cursor, polled, torn, walk>>
      /\ writer = "idle" /\ view' = counter /\ viewLog' = log
  BY DEF CaptureView
<1>2. WriterOk' /\ LayersOk' /\ BaseOk' BY <1>1, SameWriter
<1>3. ScanOk' /\ PollOk' /\ WalkOk'
  BY <1>1 DEF Inv, ScanOk, PollOk, WalkOk, Swapping, shared
<1>4. ViewOk'
  <2>1. /\ log \in Seq(Facts) /\ counter \in Nat
        /\ \A i \in 1..Len(log) : log[i].tx <= counter
    BY PublicationAssumption DEF Inv, WriterOk
  <2>2. ASSUME NEW i \in 1..Len(log) PROVE log[i].tx \in 0..counter
    <3>1. log[i] \in Facts BY <2>1
    <3>2. log[i].tx \in Nat BY <3>1, FactNumbers
    <3> QED BY <2>1, <3>2
  <2>3. Kept(log, 0..counter) = log BY <2>1, <2>2, KeptAll
  <2>4. log' = log /\ counter' = counter /\ writer' = "idle" BY <1>1 DEF shared
  <2>5. counter \in 0..counter BY <2>1
  <2>6. ~(scan' # None /\ role' = "view")
    BY <1>1 DEF Inv, ViewOk, CaptureView
  <2> QED BY <1>1, <2>3, <2>4, <2>5, <2>6 DEF ViewOk
<1> QED BY <1>2, <1>3, <1>4 DEF Inv

(* Beginning a scan keeps the invariant. *)
LEMMA BeginScanInv == ASSUME Inv, BeginScan PROVE Inv'
<1>1. UNCHANGED shared /\ UNCHANGED <<role, view, viewLog, cursor, polled, torn, walk>>
      /\ reading' = TRUE /\ scan' = count /\ role # "walk" /\ (role = "view" => view # None)
  BY DEF BeginScan
<1>2. WriterOk' /\ LayersOk' /\ BaseOk' BY <1>1, SameWriter
<1>3. PollOk' /\ WalkOk' /\ ViewOk' BY <1>1 DEF Inv, ViewOk, PollOk, WalkOk, shared
<1>4. ScanOk'
  <2>1. count \in Nat /\ count' = count /\ role' = role BY <1>1, Zenon DEF Inv, BaseOk, shared
  <2> QED BY <1>1, <2>1 DEF Inv, ScanOk
<1> QED BY <1>2, <1>3, <1>4 DEF Inv

(* The rest of the state while a cursor moves. *)
LEMMA WalkMoves ==
    ASSUME Inv, UNCHANGED <<shared, reading, role, scans>>
    PROVE  WriterOk' /\ LayersOk' /\ BaseOk' /\ ScanOk' /\ ViewOk' /\ PollOk'
<1>1. WriterOk' /\ LayersOk' /\ BaseOk' BY SameWriter
<1>2. ScanOk' /\ ViewOk' /\ PollOk'
  BY DEF Inv, ScanOk, ViewOk, PollOk, Swapping, shared, scans
<1> QED BY <1>1, <1>2

(* The elements of a sequence of facts are facts. *)
LEMMA RangeOfLog == ASSUME NEW s \in Seq(Facts) PROVE Range(s) \subseteq Facts
BY DEF Range

(* Opening a cursor keeps the invariant. *)
LEMMA OpenWalkInv == ASSUME Inv, OpenWalk PROVE Inv'
<1>1. UNCHANGED <<shared, reading, role, scans>> BY DEF OpenWalk
<1>2. walk' = [gen |-> gen, ids |-> DOMAIN pending, readers |-> committed,
               seen |-> <<>>, done |-> FALSE, want |-> {log[i] : i \in DOMAIN log}]
  BY DEF OpenWalk
<1>3. {log[i] : i \in DOMAIN log} = Range(log) BY DEF Range
<1>4. Range(log) \subseteq Facts BY RangeOfLog DEF Inv, WriterOk
<1>5. Range(<<>>) = {} BY DEF Range
<1>6. gen \in Nat BY DEF Inv, WriterOk
<1>7. gen' = gen /\ committed' = committed /\ pending' = pending /\ log' = log BY <1>1 DEF shared
<1>8. WalkOk' BY <1>2, <1>3, <1>4, <1>5, <1>6, <1>7 DEF WalkOk
<1> QED BY <1>1, <1>8, WalkMoves DEF Inv

(* The key order. *)
LEMMA KeyOrder ==
    ASSUME NEW f \in Facts, NEW g \in Facts, NEW h \in Facts
    PROVE  /\ ~Before(f, f)
           /\ Before(f, g) /\ Before(g, h) => Before(f, h)
           /\ f # g => Before(f, g) \/ Before(g, f)
<1>1. /\ f.tx \in Nat /\ f.entity \in Nat /\ g.tx \in Nat /\ g.entity \in Nat
      /\ h.tx \in Nat /\ h.entity \in Nat
  BY FactNumbers
<1>2. ~Before(f, f) BY <1>1 DEF Before
<1>3. Before(f, g) /\ Before(g, h) => Before(f, h) BY <1>1 DEF Before
<1>4. f # g => f.tx # g.tx \/ f.entity # g.entity BY DEF Facts
<1>5. f # g => Before(f, g) \/ Before(g, f) BY <1>1, <1>4 DEF Before
<1> QED BY <1>2, <1>3, <1>5

(* There is a first fact in key order. *)
LEMMA FirstKey ==
    ASSUME NEW S \in SUBSET Facts, S # {}
    PROVE  \E x \in S : \A y \in S \ {x} : Before(x, y)
<1> DEFINE E == {f.entity : f \in S}
<1>1. E \in SUBSET Nat /\ E # {} BY FactNumbers
<1>2. PICK e \in E : \A t \in E : e <= t
  <2> HIDE DEF E
  <2> QED BY <1>1, Smallest
<1> DEFINE U == {f \in S : f.entity = e}
           N == {f.tx : f \in U}
<1>3. N \in SUBSET Nat /\ N # {} BY FactNumbers
<1>4. PICK t \in N : \A u \in N : t <= u
  <2> HIDE DEF N
  <2> QED BY <1>3, Smallest
<1>5. PICK x \in S : x.entity = e /\ x.tx = t BY <1>4
<1>6. ASSUME NEW y \in S \ {x} PROVE Before(x, y)
  <2>1. e <= y.entity BY <1>2
  <2>2. y.entity = e => t <= y.tx BY <1>4
  <2>3. /\ x \in Facts /\ y \in Facts
        /\ x.tx \in Nat /\ x.entity \in Nat /\ y.tx \in Nat /\ y.entity \in Nat
    BY FactNumbers
  <2>4. x.tx # y.tx \/ x.entity # y.entity BY <2>3 DEF Facts
  <2> QED BY <1>5, <2>1, <2>2, <2>3, <2>4 DEF Before
<1> QED BY <1>6

(* While the generation stands, the cursor resolves the facts it is for. *)
LEMMA ReachableIs ==
    ASSUME Inv, walk # None, walk.gen = gen PROVE Reachable = walk.want
<1>1. walk.readers = committed /\ walk.ids = DOMAIN pending /\ walk.want = Range(log)
  BY DEF Inv, WalkOk
<1> DEFINE root == committed.root
           d == IF committed.layered THEN delta ELSE <<>>
<1>2. root \in Seq(Facts) /\ delta \in Seq(Facts) /\ pending \in Seq(Facts) /\ d = delta
      /\ log = (root \o delta) \o pending
  BY DEF Inv, LayersOk
<1>3. Reachable = Range(root) \cup Range(d) \cup Range(pending)
  BY <1>1 DEF Reachable, Range
<1> HIDE DEF root, d
<1>4. root \o delta \in Seq(Facts) BY <1>2
<1>5. Range(root \o delta) = Range(root) \cup Range(delta) BY <1>2, RangeConcatenation
<1>6. Range((root \o delta) \o pending) = Range(root \o delta) \cup Range(pending)
  <2> DEFINE v == root \o delta
  <2>1. v \in Seq(Facts) /\ pending \in Seq(Facts) BY <1>2, <1>4
  <2> HIDE DEF v
  <2>2. Range(v \o pending) = Range(v) \cup Range(pending) BY <2>1, RangeConcatenation
  <2> QED BY <2>2 DEF v
<1> QED BY <1>1, <1>2, <1>3, <1>5, <1>6

(* A step of a cursor visits the smallest fact it has not seen, or         *)
(* completes.                                                              *)
LEMMA StepWalkInv == ASSUME Inv, StepWalk PROVE Inv'
<1> DEFINE w == walk
           seen == walk.seen
           want == walk.want
<1>1. UNCHANGED <<shared, reading, role, scans>> /\ w # None /\ ~w.done /\ w.gen = gen
  BY DEF StepWalk
<1>2. gen' = gen /\ committed' = committed /\ pending' = pending /\ log' = log BY <1>1 DEF shared
<1>3. Reachable = want BY <1>1, ReachableIs
<1>4. /\ w = [gen |-> w.gen, ids |-> w.ids, readers |-> w.readers,
              seen |-> w.seen, done |-> w.done, want |-> w.want]
      /\ w.gen \in Nat /\ w.gen <= gen /\ w.done \in BOOLEAN
      /\ want \subseteq Facts
      /\ seen \in Seq(Facts) /\ Range(seen) \subseteq want
      /\ \A i, j \in DOMAIN seen : i < j => Before(seen[i], seen[j])
      /\ \A f \in want \ Range(seen) : \A i \in DOMAIN seen : Before(seen[i], f)
      /\ w.done => Range(seen) = want
      /\ w.gen = gen =>
            /\ w.readers = committed /\ w.ids = DOMAIN pending
            /\ want = Range(log)
  BY <1>1 DEF Inv, WalkOk
<1>5. Unseen = want \ Range(seen)
  <2>1. ASSUME NEW f \in want, \A i \in DOMAIN seen : Before(seen[i], f) PROVE f \notin Range(seen)
    <3> SUFFICES ASSUME f \in Range(seen) PROVE FALSE OBVIOUS
    <3>1. PICK i \in DOMAIN seen : seen[i] = f BY DEF Range
    <3>2. Before(f, f) BY <2>1, <3>1
    <3>3. f \in Facts BY <1>4
    <3> QED BY <3>2, <3>3, KeyOrder
  <2>2. Unseen = {f \in want : \A i \in DOMAIN seen : Before(seen[i], f)} BY <1>3 DEF Unseen
  <2> QED BY <1>4, <2>1, <2>2
<1>6. CASE Unseen = {}
  <2>1. walk' = [w EXCEPT !.done = TRUE] BY <1>6 DEF StepWalk
  <2>2. walk' = [gen |-> w.gen, ids |-> w.ids, readers |-> w.readers,
                 seen |-> w.seen, done |-> TRUE, want |-> w.want]
    BY <1>4, <2>1, Zenon
  <2>3. Range(seen) = want BY <1>4, <1>5, <1>6, Zenon
  <2>4. WalkOk' BY <1>1, <1>2, <1>4, <2>2, <2>3 DEF WalkOk
  <2> QED BY <1>1, <2>4, WalkMoves DEF Inv
<1>7. CASE Unseen # {}
  <2> DEFINE f == CHOOSE x \in Unseen : \A y \in Unseen \ {x} : Before(x, y)
             s == Append(seen, f)
  <2>1. Unseen \in SUBSET Facts BY <1>4, <1>5
  <2>2. f \in Unseen /\ \A y \in Unseen \ {f} : Before(f, y)
    <3>1. \E x \in Unseen : \A y \in Unseen \ {x} : Before(x, y) BY <1>7, <2>1, FirstKey
    <3> QED BY <3>1
  <2>3. walk' = [w EXCEPT !.seen = s] BY <1>7 DEF StepWalk
  <2>4. walk' = [gen |-> w.gen, ids |-> w.ids, readers |-> w.readers,
                 seen |-> s, done |-> w.done, want |-> w.want]
    BY <1>4, <2>3, Zenon
  <2> HIDE DEF f
  <2>5. f \in Facts /\ f \in want /\ f \notin Range(seen) BY <1>5, <2>1, <2>2
  <2>6. s \in Seq(Facts) /\ Len(seen) \in Nat /\ DOMAIN seen = 1..Len(seen)
        /\ DOMAIN s = 1..(Len(seen) + 1) /\ s[Len(seen) + 1] = f
        /\ \A i \in 1..Len(seen) : s[i] = seen[i]
    BY <1>4, <2>5
  <2> HIDE DEF s
  <2>7. Range(s) = Range(seen) \cup {f}
    <3>1. \A i \in DOMAIN s : i # Len(seen) + 1 => i \in DOMAIN seen BY <2>6
    <3>2. \A i \in DOMAIN seen : i \in DOMAIN s BY <2>6
    <3>3. Len(seen) + 1 \in DOMAIN s BY <2>6
    <3> QED BY <2>6, <3>1, <3>2, <3>3 DEF Range
  <2>8. ASSUME NEW i \in DOMAIN s, NEW j \in DOMAIN s, i < j PROVE Before(s[i], s[j])
    <3>1. i \in DOMAIN seen /\ s[i] = seen[i] BY <2>6, <2>8
    <3>2. CASE j = Len(seen) + 1
      <4>1. Before(seen[i], f) BY <1>4, <2>5, <3>1
      <4> QED BY <2>6, <3>1, <3>2, <4>1
    <3>3. CASE j # Len(seen) + 1
      <4>1. j \in DOMAIN seen /\ s[j] = seen[j] BY <2>6, <3>3
      <4>2. Before(seen[i], seen[j]) BY <1>4, <2>8, <3>1, <4>1
      <4> QED BY <3>1, <4>1, <4>2
    <3> QED BY <3>2, <3>3
  <2>9. ASSUME NEW g \in want \ Range(s), NEW i \in DOMAIN s PROVE Before(s[i], g)
    <3>1. g \in Unseen \ {f} BY <1>5, <2>7
    <3>2. CASE i = Len(seen) + 1 BY <2>2, <2>6, <3>1, <3>2
    <3>3. CASE i # Len(seen) + 1
      <4>1. i \in DOMAIN seen /\ s[i] = seen[i] BY <2>6, <3>3
      <4>2. g \in want \ Range(seen) BY <2>7
      <4>3. Before(seen[i], g) BY <1>4, <4>1, <4>2
      <4> QED BY <4>1, <4>3
    <3> QED BY <3>2, <3>3
  <2>10. Range(s) \subseteq want BY <1>4, <2>5, <2>7
  <2>11. WalkOk' BY <1>1, <1>2, <1>4, <2>4, <2>6, <2>8, <2>9, <2>10 DEF WalkOk
  <2> QED BY <1>1, <2>11, WalkMoves DEF Inv
<1> QED BY <1>6, <1>7

(* The end of a cursor keeps the invariant. *)
LEMMA EndWalkInv == ASSUME Inv, EndWalk PROVE Inv'
<1>1. UNCHANGED <<shared, reading, role, scans>> /\ walk' = None BY DEF EndWalk
<1>2. WalkOk' BY <1>1 DEF WalkOk
<1> QED BY <1>1, <1>2, WalkMoves DEF Inv

-----------------------------------------------------------------------------
(* What the readers see of a step of the writer.                           *)

Quiet ==
    /\ reading' = reading
    /\ counter' \in Nat /\ counter <= counter'
    /\ counter' = counter =>
          /\ writer' \in {"wal", "load"} => writer \in {"wal", "load"}
          /\ todo' > 0 => todo > 0
    /\ reading /\ ~Swapping' => ~Swapping /\ count' = count
    /\ gen' \in {gen, gen + 1}
    /\ gen' = gen => committed' = committed /\ pending' = pending /\ log' = log
    /\ \/ log' = log
       \/ /\ todo > 0 /\ writer = "load" /\ counter' = counter
          /\ \E e \in Facts : e.tx = counter /\ log' = Append(log, e)

(* A loaded fact is newer than any view or cursor of a reader. *)
LEMMA KeptStill ==
    ASSUME Inv, Quiet, NEW c \in Nat, log' # log => c < counter
    PROVE  Kept(log', 0..c) = Kept(log, 0..c)
<1>1. CASE log' = log BY <1>1
<1>2. CASE log' # log
  <2>1. PICK e \in Facts : e.tx = counter /\ log' = Append(log, e) BY <1>2 DEF Quiet
  <2>2. log \in Seq(Facts) /\ counter \in Nat BY PublicationAssumption DEF Inv, WriterOk
  <2>3. e.tx \notin 0..c BY <1>2, <2>1, <2>2
  <2> QED BY <2>1, <2>2, <2>3, KeptAppend
<1> QED BY <1>1, <1>2

(* A quiet step of the writer keeps what the readers rely on. *)
LEMMA ReadersKept ==
    ASSUME Inv, Quiet, UNCHANGED <<role, scans, walk>>
    PROVE  ScanOk' /\ ViewOk' /\ PollOk' /\ WalkOk'
<1>0. /\ role' = role /\ scan' = scan /\ view' = view /\ viewLog' = viewLog
      /\ cursor' = cursor /\ polled' = polled /\ torn' = torn /\ walk' = walk
  BY DEF scans
<1>n. counter \in Nat /\ counter' \in Nat /\ counter <= counter' /\ gen \in Nat /\ todo \in Nat
  BY PublicationAssumption DEF Inv, WriterOk, Quiet
<1>1. ScanOk' BY <1>0 DEF Inv, ScanOk, Quiet
<1>2. ViewOk'
  <2>1. ASSUME view # None
        PROVE  /\ view \in 0..counter' /\ viewLog = Kept(log', 0..view)
               /\ writer' \in {"wal", "load"} => view < counter'
    <3>1. /\ view \in 0..counter /\ viewLog = Kept(log, 0..view)
          /\ writer \in {"wal", "load"} => view < counter
      BY <2>1 DEF Inv, ViewOk
    <3>2. view \in Nat /\ view \in 0..counter' BY <1>n, <3>1
    <3>3. log' # log => view < counter BY <3>1 DEF Quiet
    <3>4. Kept(log', 0..view) = Kept(log, 0..view) BY <3>2, <3>3, KeptStill
    <3>5. writer' \in {"wal", "load"} => view < counter'
      <4>1. CASE counter' = counter BY <3>1, <4>1 DEF Quiet
      <4>2. CASE counter' # counter BY <1>n, <3>1, <4>2
      <4> QED BY <4>1, <4>2
    <3> QED BY <3>1, <3>2, <3>4, <3>5
  <2>2. ViewOk' <=> /\ view # None =>
                         /\ view \in 0..counter' /\ viewLog = Kept(log', 0..view)
                         /\ writer' \in {"wal", "load"} => view < counter'
                    /\ scan # None /\ role = "view" => view # None
    BY <1>0 DEF ViewOk
  <2>3. scan # None /\ role = "view" => view # None BY DEF Inv, ViewOk
  <2> QED BY <2>1, <2>2, <2>3
<1>3. PollOk'
  <2>1. cursor \in Nat /\ torn \in BOOLEAN BY DEF Inv, PollOk
  <2>2. ASSUME ~torn
        PROVE  polled = Kept(log', 0..cursor) /\ cursor <= counter' /\ (todo' > 0 => cursor < counter')
    <3>1. polled = Kept(log, 0..cursor) /\ cursor <= counter /\ (todo > 0 => cursor < counter)
      BY <2>2 DEF Inv, PollOk
    <3>2. log' # log => cursor < counter BY <3>1 DEF Quiet
    <3>3. Kept(log', 0..cursor) = Kept(log, 0..cursor) BY <2>1, <3>2, KeptStill
    <3>4. todo' > 0 => cursor < counter'
      <4>1. CASE counter' = counter BY <3>1, <4>1 DEF Quiet
      <4>2. CASE counter' # counter BY <1>n, <2>1, <3>1, <4>2
      <4> QED BY <4>1, <4>2
    <3> QED BY <1>n, <2>1, <3>1, <3>3, <3>4
  <2> QED BY <1>0, <2>1, <2>2 DEF PollOk
<1>4. WalkOk'
  <2> SUFFICES ASSUME walk # None PROVE WalkOk' BY <1>0 DEF WalkOk
  <2>1. walk.gen \in Nat /\ walk.gen <= gen BY DEF Inv, WalkOk
  <2>2. gen' \in Nat /\ gen <= gen' BY <1>n DEF Quiet
  <2>3. walk.gen <= gen' BY <1>n, <2>1, <2>2
  <2>4. walk.gen = gen' => gen' = gen BY <1>n, <2>1, <2>2
  <2>5. walk.gen = gen' =>
          walk.readers = committed' /\ walk.ids = DOMAIN pending' /\ walk.want = Range(log')
    BY <2>4 DEF Inv, WalkOk, Quiet
  <2> QED BY <1>0, <2>1, <2>3, <2>5 DEF Inv, WalkOk
<1> QED BY <1>1, <1>2, <1>3, <1>4

(* Steps outside a save leave the base alone. *)
LEMMA BaseKept ==
    ASSUME Inv, writer \in {"idle", "wal", "load"}, writer' \in {"idle", "wal", "load"},
           UNCHANGED <<file, count, start, pages, committed>>
    PROVE  BaseOk' /\ ~Swapping /\ ~Swapping'
<1>1. ~Swapping /\ ~Swapping' /\ ~Publishing /\ ~Publishing' BY DEF Swapping, Publishing
<1>2. BaseOk' BY <1>1, Zenon DEF Inv, BaseOk
<1> QED BY <1>1, <1>2

(* Beginning a transaction is quiet. *)
LEMMA BeginInv ==
    ASSUME Inv, NEW k \in 0..BatchSize, Begin(k) PROVE WriterOk' /\ LayersOk' /\ BaseOk' /\ Quiet
<1>1. BaseOk' /\ ~Swapping /\ ~Swapping' BY BaseKept DEF Begin
<1>2. /\ counter' = counter + 1 /\ counter \in 0..MaxTx /\ counter < MaxTx /\ todo' = k
      /\ writer' = "wal" /\ log' = log /\ gen' = gen
  BY DEF Begin, Inv, WriterOk
<1>3. counter \in Nat /\ counter' \in 0..MaxTx /\ counter' \in Nat /\ counter < counter'
  BY <1>2, PublicationAssumption
<1>4. ASSUME NEW i \in 1..Len(log) PROVE log[i].tx <= counter'
  <2>1. log[i] \in Facts BY DEF Inv, WriterOk
  <2>2. log[i].tx \in Nat BY <2>1, FactNumbers
  <2>3. log[i].tx <= counter BY DEF Inv, WriterOk
  <2> QED BY <1>3, <2>2, <2>3
<1>5. WriterOk' BY <1>2, <1>3, <1>4 DEF Inv, WriterOk
<1>6. LayersOk' BY DEF Begin, Inv, LayersOk
<1>7. Quiet BY <1>1, <1>2, <1>3 DEF Begin, Quiet
<1> QED BY <1>1, <1>5, <1>6, <1>7

(* The WAL append, or its failure, is quiet. *)
LEMMA WalAppendInv == ASSUME Inv, WalAppend PROVE WriterOk' /\ LayersOk' /\ BaseOk' /\ Quiet
<1>1. BaseOk' /\ ~Swapping /\ ~Swapping' BY BaseKept DEF WalAppend
<1>2. WriterOk' BY PublicationAssumption DEF WalAppend, Inv, WriterOk
<1>3. LayersOk' BY DEF WalAppend, Inv, LayersOk
<1>4. counter \in Nat BY PublicationAssumption DEF Inv, WriterOk
<1>5. Quiet BY <1>1, <1>4 DEF WalAppend, Quiet
<1> QED BY <1>1, <1>2, <1>3, <1>5

(* The return of a call is quiet. *)
LEMMA ReturnInv == ASSUME Inv, Return PROVE WriterOk' /\ LayersOk' /\ BaseOk' /\ Quiet
<1>1. BaseOk' /\ ~Swapping /\ ~Swapping' BY BaseKept DEF Return, Loaded
<1>2. WriterOk' BY DEF Return, Loaded, Inv, WriterOk
<1>3. LayersOk' BY DEF Return, Inv, LayersOk
<1>4. counter \in Nat BY PublicationAssumption DEF Inv, WriterOk
<1>5. Quiet BY <1>1, <1>4 DEF Return, Quiet
<1> QED BY <1>1, <1>2, <1>3, <1>5

(* load_fact puts one fact behind the overlay and the log. *)
LEMMA LoadFactInv == ASSUME Inv, LoadFact PROVE WriterOk' /\ LayersOk' /\ BaseOk' /\ Quiet
<1> DEFINE e == [tx |-> counter, entity |-> todo]
<1>1. BaseOk' /\ ~Swapping /\ ~Swapping' BY BaseKept DEF LoadFact
<1>2. /\ counter \in 0..MaxTx /\ counter > 0 /\ todo \in 0..BatchSize /\ todo > 0
      /\ log \in Seq(Facts) /\ Ordered(log) /\ gen \in Nat
      /\ \A i \in 1..Len(log) : log[i].tx <= counter
  BY DEF LoadFact, Inv, WriterOk
<1>3. counter \in 1..MaxTx /\ todo \in 1..BatchSize /\ counter \in Nat /\ todo - 1 \in 0..BatchSize
  BY <1>2, PublicationAssumption
<1>4. e \in Facts /\ e.tx = counter BY <1>3 DEF Facts
<1>5. /\ pending' = Append(pending, e) /\ log' = Append(log, e) /\ gen' = gen + 1
      /\ todo' = todo - 1 /\ writer' = writer /\ writer = "load" /\ counter' = counter
      /\ committed' = committed /\ delta' = delta /\ reading' = reading /\ ~reading
  BY DEF LoadFact
<1> HIDE DEF e
<1>6. Ordered(log') BY <1>2, <1>4, <1>5, OrderedAppend
<1>7. log' \in Seq(Facts) /\ \A i \in 1..Len(log') : log'[i].tx <= counter
  <2>1. log' \in Seq(Facts) /\ Len(log') = Len(log) + 1 /\ log'[Len(log) + 1] = e
        /\ Len(log) \in Nat /\ \A i \in 1..Len(log) : log'[i] = log[i]
    BY <1>2, <1>4, <1>5
  <2>2. \A i \in 1..(Len(log) + 1) : i # Len(log) + 1 => i \in 1..Len(log) BY <2>1
  <2>3. counter <= counter BY <1>3
  <2> QED BY <1>2, <1>4, <2>1, <2>2, <2>3
<1>8. WriterOk' BY <1>2, <1>3, <1>5, <1>6, <1>7 DEF WriterOk
<1>9. LayersOk'
  <2> DEFINE rd == committed.root \o delta
  <2>1. pending \in Seq(Facts) /\ delta \in Seq(Facts) /\ committed.root \in Seq(Facts)
        /\ log = rd \o pending
    BY DEF Inv, LayersOk
  <2>2. rd \in Seq(Facts) BY <2>1
  <2> HIDE DEF rd
  <2>3. log' = rd \o pending' BY <1>4, <1>5, <2>1, <2>2, AppendJoin, Zenon
  <2>4. pending' \in Seq(Facts) BY <1>4, <1>5, <2>1
  <2> QED BY <1>5, <2>3, <2>4 DEF Inv, LayersOk, rd
<1>10. Quiet
  <2>1. gen' # gen BY <1>2, <1>5
  <2>2. todo \in Nat /\ (todo' > 0 => todo > 0) BY <1>2, <1>5
  <2>3. \E x \in Facts : x.tx = counter /\ log' = Append(log, x) BY <1>4, <1>5
  <2>4. counter <= counter BY <1>3
  <2> QED BY <1>1, <1>2, <1>3, <1>5, <2>1, <2>2, <2>3, <2>4 DEF Quiet
<1> QED BY <1>1, <1>8, <1>9, <1>10

-----------------------------------------------------------------------------
(* Saves.                                                                  *)

(* What is pending in a save, and what a save leaves alone. *)
LEMMA SaveStarts ==
    ASSUME Inv, CanSave
    PROVE  /\ writer \in {"idle", "load"} /\ todo = 0 /\ ~Swapping /\ ~Publishing
           /\ counter \in Nat /\ start + count <= pages
           /\ Pages(file, count, start, committed.root, committed.catalog)
<1>1. writer \in {"idle", "load"} /\ todo = 0 BY DEF CanSave, Loaded, Inv, WriterOk
<1>2. ~Swapping /\ ~Publishing BY <1>1 DEF Swapping, Publishing
<1>3. counter \in Nat BY PublicationAssumption DEF Inv, WriterOk
<1> QED BY <1>1, <1>2, <1>3, Zenon DEF Inv, BaseOk

(* A delta checkpoint changes no fact page. *)
LEMMA SaveDeltaInv == ASSUME Inv, SaveDelta PROVE WriterOk' /\ LayersOk' /\ BaseOk' /\ Quiet
<1>1. /\ writer \in {"idle", "load"} /\ todo = 0 /\ ~Swapping /\ counter \in Nat
      /\ start + count <= pages
      /\ Pages(file, count, start, committed.root, committed.catalog)
  BY SaveStarts DEF SaveDelta
<1>2. /\ writer' = "wire" /\ next' = [kind |-> "delta"] /\ pages' = pages + 2
      /\ UNCHANGED <<todo, counter, pending, committed, delta, gen, count, start,
                     file, reading, log>>
  BY DEF SaveDelta
<1>3. next'.kind = "delta" BY <1>2
<1>4. ~Swapping' /\ ~Publishing' BY <1>2, <1>3 DEF Swapping, Publishing
<1>5. WriterOk' BY <1>1, <1>2 DEF Inv, WriterOk
<1>6. LayersOk' BY <1>2 DEF Inv, LayersOk
<1>7. BaseOk'
  <2>1. pages \in Nat \ {0} /\ start \in Nat \ {0} /\ count \in Nat BY DEF Inv, BaseOk
  <2>2. pages' \in Nat \ {0} /\ start + count <= pages' BY <1>1, <1>2, <2>1
  <2> QED BY <1>1, <1>2, <1>3, <1>4, <2>2, Zenon DEF Inv, BaseOk
<1>8. Quiet BY <1>1, <1>2 DEF Quiet
<1> QED BY <1>5, <1>6, <1>7, <1>8

(* A packed base in the file. *)
LEMMA BaseWritten ==
    ASSUME Inv, NEW at \in Nat, NEW facts \in Seq(Facts), NEW all \in Seq(Facts),
           WriteBase(at, facts, all)
    PROVE  /\ \A p \in DOMAIN file : p \in DOMAIN file'
           /\ \A p \in DOMAIN file : p \in Nat /\ p < at => file'[p] = file[p]
           /\ \A i \in 0..(PagesFor(facts) - 1) :
                 /\ at + i \in DOMAIN file' /\ file'[at + i].kind = "facts"
                 /\ file'[at + i].facts = PageOf(facts, i)
           /\ \A p \in DOMAIN file' : file'[p].facts \in Seq(Facts)
           /\ Concat(file', PagesFor(facts), at, 0) = facts
<1> DEFINE n == PagesFor(facts)
           x == at + n
           D == DOMAIN file \cup at..x
           F(p) == IF p \notin at..x THEN file[p]
                   ELSE IF p = x THEN [kind |-> "index", facts |-> all]
                   ELSE [kind |-> "facts", facts |-> PageOf(facts, p - at)]
<1>1. n \in Nat \ {0} BY PagesForBounds
<1>2. file' = [p \in D |-> F(p)] BY DEF WriteBase
<1>3. DOMAIN file' = D /\ \A p \in D : file'[p] = F(p) BY <1>2
<1> HIDE DEF n
<1>4. ASSUME NEW i \in 0..(n - 1)
      PROVE  /\ at + i \in D /\ file'[at + i].kind = "facts"
             /\ file'[at + i].facts = PageOf(facts, i)
  <2>1. at + i \in at..x /\ at + i # x /\ (at + i) - at = i BY <1>1
  <2>2. F(at + i) = [kind |-> "facts", facts |-> PageOf(facts, i)] BY <2>1
  <2>3. at + i \in D BY <2>1
  <2> DEFINE page == [kind |-> "facts", facts |-> PageOf(facts, i)]
  <2>4. file'[at + i] = page BY <1>3, <2>2, <2>3, Zenon
  <2>5. page.kind = "facts" /\ page.facts = PageOf(facts, i) OBVIOUS
  <2> HIDE DEF page
  <2> QED BY <2>3, <2>4, <2>5, Zenon
<1>5. /\ Concat(file', n, at, 0) = facts
      /\ \A i \in 0..(n - 1) : PageOf(facts, i) \in Seq(Facts)
  BY <1>4, PackedPages, Zenon DEF n
<1>6. ASSUME NEW p \in D PROVE file'[p].facts \in Seq(Facts)
  <2>1. CASE p \notin at..x
    <3>1. p \in DOMAIN file /\ F(p) = file[p] BY <2>1
    <3>2. file[p].facts \in Seq(Facts) BY <3>1, Zenon DEF Inv, BaseOk
    <3> QED BY <1>3, <3>1, <3>2, Zenon
  <2>2. CASE p \in at..x /\ p = x
    <3> DEFINE page == [kind |-> "index", facts |-> all]
    <3>1. F(p) = page BY <2>2, Zenon
    <3>2. page.facts = all OBVIOUS
    <3> HIDE DEF page
    <3>3. file'[p] = page BY <1>3, <3>1, Zenon
    <3> QED BY <3>2, <3>3, Zenon
  <2>3. CASE p \in at..x /\ p # x
    <3>1. p - at \in 0..(n - 1) /\ at + (p - at) = p BY <1>1, <2>3
    <3>2. file'[p].facts = PageOf(facts, p - at) BY <1>4, <3>1
    <3> QED BY <1>5, <3>1, <3>2
  <2> QED BY <2>1, <2>2, <2>3
<1>7. ASSUME NEW p \in DOMAIN file, p \in Nat, p < at PROVE file'[p] = file[p]
  <2>1. p \notin at..x BY <1>7
  <2> QED BY <1>3, <2>1, Zenon
<1>8. \A p \in DOMAIN file : p \in D OBVIOUS
<1> HIDE DEF D
<1> QED BY <1>3, <1>4, <1>5, <1>6, <1>7, <1>8, Zenon DEF n

(* Pages below those written read as before. *)
LEMMA PagesKept ==
    ASSUME NEW f, NEW g, NEW n, NEW at, NEW facts, NEW cat, Pages(f, n, at, facts, cat),
           \A p \in DOMAIN f : p \in DOMAIN g,
           \A i \in 0..(n - 1) : g[at + i] = f[at + i]
    PROVE  Pages(g, n, at, facts, cat)
<1>1. /\ n \in Nat /\ at \in Nat \ {0} /\ facts \in Seq(Facts)
      /\ \A i \in 0..(n - 1) :
            /\ at + i \in DOMAIN f /\ f[at + i].kind = "facts"
            /\ cat # None => at + i \in DOMAIN cat /\ cat[at + i] = f[at + i]
      /\ Concat(f, n, at, 0) = facts
  BY DEF Pages
<1>2. \A i \in 0..(n - 1) : g[at + i].facts = f[at + i].facts OBVIOUS
<1>2a. n \in Nat /\ at \in Nat BY <1>1
<1>3. Concat(g, n, at, 0) = Concat(f, n, at, 0) BY <1>2a, ConcatSame, Zenon
<1>4. Concat(g, n, at, 0) = facts BY <1>1, <1>3
<1>5. \A i \in 0..(n - 1) :
            /\ at + i \in DOMAIN g /\ g[at + i].kind = "facts"
            /\ cat # None => at + i \in DOMAIN cat /\ cat[at + i] = g[at + i]
  BY <1>1, Zenon
<1> QED BY <1>1, <1>4, <1>5 DEF Pages

(* Index and catalog lie behind the fact pages. *)
LEMMA EndOfBase ==
    ASSUME NEW at \in Nat \ {0}, NEW n \in Nat
    PROVE  at + n + 2 \in Nat \ {0} /\ at + n <= at + n + 2
OBVIOUS

(* A fact page of a base lies between its first page and its index. *)
LEMMA PageInBase ==
    ASSUME NEW at \in Nat, NEW n \in Nat, NEW i \in 0..(n - 1)
    PROVE  at + i \in at..(at + n)
OBVIOUS

(* A number is at most itself. *)
LEMMA SameCount == ASSUME NEW c \in Nat PROVE c <= c
OBVIOUS

(* A save that published a base, up to page 0. *)
LEMMA PublishBaseInv ==
    ASSUME Inv, CanSave, NEW at \in Nat \ {0}, NEW n \in Nat, NEW facts, PublishBase(at, n, facts),
           facts = log,
           \A p \in DOMAIN file' : file'[p].facts \in Seq(Facts),
           Pages(file', count, start, committed.root, committed.catalog),
           \A i \in 0..(n - 1) : at + i \in DOMAIN file' /\ file'[at + i].kind = "facts",
           Concat(file', n, at, 0) = facts
    PROVE  WriterOk' /\ LayersOk' /\ BaseOk' /\ Quiet
<1> DEFINE cat == [p \in at..(at + n) |-> file'[p]]
<1>1. writer \in {"idle", "load"} /\ todo = 0 /\ ~Swapping /\ counter \in Nat BY SaveStarts
<1>2. /\ writer' = "count" /\ pages' = at + n + 2
      /\ next' = [kind |-> "base", start |-> at, count |-> n, root |-> facts, catalog |-> cat]
      /\ UNCHANGED <<todo, counter, pending, committed, delta, gen, count, start,
                     reading, log>>
  BY Zenon DEF PublishBase
<1>3. WriterOk' BY <1>1, <1>2, Zenon DEF Inv, WriterOk
<1>4. LayersOk' BY <1>2 DEF Inv, LayersOk
<1>5. ~Swapping' BY <1>2, Zenon DEF Swapping
<1>6. \A i \in 0..(n - 1) : at + i \in DOMAIN cat /\ cat[at + i] = file'[at + i]
  <2> TAKE i \in 0..(n - 1)
  <2>1. at + i \in at..(at + n) BY PageInBase
  <2> QED BY <2>1, Zenon
<1>7. /\ next'.kind = "base" /\ next'.start = at /\ next'.count = n /\ next'.root = log
      /\ next'.catalog = cat
  BY <1>2, Zenon
<1> HIDE DEF cat
<1>8. log \in Seq(Facts) BY DEF Inv, WriterOk
<1>9. Pages(file', n, at, log, cat) BY <1>6, <1>8, Zenon DEF Pages
<1>10. Pages(file, next.count, next.start, next.root, next.catalog)' BY <1>7, <1>9
<1>11. pages' \in Nat \ {0} /\ at + n <= pages' BY <1>2, EndOfBase, Zenon
<1>12. start \in Nat \ {0} /\ count \in Nat BY DEF Inv, BaseOk
<1>13. Pages(file, count, start, committed.root, committed.catalog)' BY <1>2, Zenon
<1>14. BaseOk' BY <1>2, <1>5, <1>7, <1>10, <1>11, <1>12, <1>13, Zenon DEF BaseOk, Publishing
<1>15. Quiet
  <2>1. counter' \in Nat /\ counter <= counter' BY <1>1, <1>2, SameCount, Zenon
  <2> QED BY <1>1, <1>2, <2>1, Zenon DEF Quiet
<1> QED BY <1>3, <1>4, <1>14, <1>15, Zenon

(* A full save leaves the fact pages in place and puts what is pending     *)
(* behind them.                                                            *)
LEMMA SaveFullInv == ASSUME Inv, SaveFull PROVE WriterOk' /\ LayersOk' /\ BaseOk' /\ Quiet
<1> DEFINE root == committed.root
           n == count
           m == PagesFor(pending)
           at == start + count
<1>1. CanSave /\ ~committed.layered /\ WriteBase(at, pending, root \o pending)
      /\ PublishBase(start, n + m, root \o pending)
  BY DEF SaveFull
<1>2. Pages(file, n, start, root, committed.catalog) BY <1>1, SaveStarts
<1>3. root \in Seq(Facts) /\ pending \in Seq(Facts) /\ delta = <<>> /\ log = (root \o delta) \o pending
  BY <1>1 DEF Inv, LayersOk
<1>4. root \o pending \in Seq(Facts) /\ log = root \o pending
  <2>1. root \o <<>> = root BY <1>3, ConcatEmptySeq
  <2> QED BY <1>3, <2>1
<1>5. start \in Nat \ {0} /\ n \in Nat /\ at \in Nat
  <2>1. start \in Nat \ {0} /\ n \in Nat BY DEF Inv, BaseOk
  <2> QED BY <2>1
<1>6. m \in Nat \ {0} BY <1>3, PagesForBounds
<1> DEFINE all == root \o pending
<1>7. all \in Seq(Facts) /\ WriteBase(at, pending, all) BY <1>1, <1>4
<1> HIDE DEF at, all, m, n
<1>8. /\ \A p \in DOMAIN file : p \in DOMAIN file'
      /\ \A p \in DOMAIN file : p \in Nat /\ p < at => file'[p] = file[p]
      /\ \A i \in 0..(m - 1) :
            /\ at + i \in DOMAIN file' /\ file'[at + i].kind = "facts"
            /\ file'[at + i].facts = PageOf(pending, i)
      /\ \A p \in DOMAIN file' : file'[p].facts \in Seq(Facts)
      /\ Concat(file', m, at, 0) = pending
  BY <1>3, <1>5, <1>7, BaseWritten, Zenon DEF m
<1>9. \A i \in 0..(n - 1) : file'[start + i] = file[start + i]
  <2> TAKE i \in 0..(n - 1)
  <2>1. start + i \in DOMAIN file BY <1>2 DEF Pages
  <2>2. start + i \in Nat /\ start + i < at BY <1>5 DEF at, n
  <2> QED BY <1>8, <2>1, <2>2
<1>10. Pages(file', n, start, root, committed.catalog) BY <1>2, <1>8, <1>9, PagesKept, Zenon
<1>11. \A i \in 0..(n + m - 1) : start + i \in DOMAIN file' /\ file'[start + i].kind = "facts"
  <2> TAKE i \in 0..(n + m - 1)
  <2>1. CASE i < n
    <3>1. i \in 0..(n - 1) BY <1>5, <1>6, <2>1
    <3> QED BY <1>10, <3>1, Zenon DEF Pages
  <2>2. CASE ~(i < n)
    <3>1. i - n \in 0..(m - 1) /\ at + (i - n) = start + i BY <1>5, <1>6, <2>2 DEF at, n
    <3>2. at + (i - n) \in DOMAIN file' /\ file'[at + (i - n)].kind = "facts" BY <1>8, <3>1
    <3> QED BY <3>1, <3>2, Zenon
  <2> QED BY <2>1, <2>2
<1>12. \A i \in 0..(n + m - 1) : file'[start + i].facts \in Seq(Facts) BY <1>8, <1>11
<1>13. Concat(file', n + m, start, 0) = Concat(file', n, start, 0) \o Concat(file', m, start + n, 0)
  <2>1. m \in Nat /\ start \in Nat BY <1>5, <1>6
  <2> QED BY <1>5, <1>12, <2>1, ConcatSplit, Zenon
<1>14. Concat(file', n, start, 0) = root BY <1>10 DEF Pages
<1>15. start + n = at BY DEF at, n
<1>16. Concat(file', n + m, start, 0) = all BY <1>8, <1>13, <1>14, <1>15, Zenon DEF all
<1>17. PublishBase(start, n + m, all) /\ all = log BY <1>1, <1>4 DEF all, n, m
<1>18. Pages(file', count, start, committed.root, committed.catalog) BY <1>10 DEF n
<1>19. n + m \in Nat BY <1>5, <1>6
<1>19a. PICK k \in Nat : k = n + m BY <1>19
<1>19b. \A i \in 0..(k - 1) : start + i \in DOMAIN file' /\ file'[start + i].kind = "facts"
  <2>1. k - 1 = n + m - 1 BY <1>5, <1>6, <1>19a
  <2> QED BY <1>11, <2>1
<1>19c. k \in Nat /\ PublishBase(start, k, all) /\ Concat(file', k, start, 0) = all
  BY <1>16, <1>17, <1>19a
<1>20. /\ k \in Nat /\ PublishBase(start, k, all) /\ Concat(file', k, start, 0) = all
       /\ \A i \in 0..(k - 1) : start + i \in DOMAIN file' /\ file'[start + i].kind = "facts"
  BY <1>19b, <1>19c
<1>21. \A p \in DOMAIN file' : file'[p].facts \in Seq(Facts) BY <1>8
<1> QED BY <1>1, <1>5, <1>17, <1>18, <1>20, <1>21, PublishBaseInv, Zenon

(* A recompaction packs base and delta behind the published pages. *)
LEMMA SaveRecompactInv == ASSUME Inv, SaveRecompact PROVE WriterOk' /\ LayersOk' /\ BaseOk' /\ Quiet
<1> DEFINE all == committed.root \o delta
           m == PagesFor(all)
<1>1. CanSave /\ pending = <<>> /\ WriteBase(pages, all, all) /\ PublishBase(pages, m, all)
  BY DEF SaveRecompact
<1>2. Pages(file, count, start, committed.root, committed.catalog) /\ start + count <= pages
  BY <1>1, SaveStarts
<1>3. committed.root \in Seq(Facts) /\ delta \in Seq(Facts) /\ log = all \o pending
  BY DEF Inv, LayersOk
<1>4. all \in Seq(Facts) /\ log = all
  <2>1. all \in Seq(Facts) BY <1>3
  <2>2. all \o <<>> = all BY <2>1, ConcatEmptySeq
  <2> QED BY <1>1, <1>3, <2>1, <2>2
<1>5. pages \in Nat \ {0} /\ start \in Nat \ {0} /\ count \in Nat BY DEF Inv, BaseOk
<1>6. m \in Nat \ {0} BY <1>4, PagesForBounds, Zenon
<1> HIDE DEF all, m
<1>7. /\ \A p \in DOMAIN file : p \in DOMAIN file'
      /\ \A p \in DOMAIN file : p \in Nat /\ p < pages => file'[p] = file[p]
      /\ \A i \in 0..(m - 1) :
            /\ pages + i \in DOMAIN file' /\ file'[pages + i].kind = "facts"
            /\ file'[pages + i].facts = PageOf(all, i)
      /\ \A p \in DOMAIN file' : file'[p].facts \in Seq(Facts)
      /\ Concat(file', m, pages, 0) = all
  BY <1>1, <1>4, <1>5, BaseWritten, Zenon DEF m
<1>8. \A i \in 0..(count - 1) : file'[start + i] = file[start + i]
  <2> TAKE i \in 0..(count - 1)
  <2>1. start + i \in DOMAIN file BY <1>2 DEF Pages
  <2>2. start + i \in Nat /\ start + i < pages BY <1>2, <1>5
  <2> QED BY <1>7, <2>1, <2>2, Zenon
<1>9. Pages(file', count, start, committed.root, committed.catalog) BY <1>2, <1>7, <1>8, PagesKept, Zenon
<1>10. /\ \A i \in 0..(m - 1) : pages + i \in DOMAIN file' /\ file'[pages + i].kind = "facts"
       /\ \A p \in DOMAIN file' : file'[p].facts \in Seq(Facts)
  BY <1>7, Zenon
<1>11. Concat(file', m, pages, 0) = all /\ all = log /\ m \in Nat BY <1>4, <1>6, <1>7
<1> QED BY <1>1, <1>5, <1>9, <1>10, <1>11, PublishBaseInv, Zenon

-----------------------------------------------------------------------------
(* Memory follows the file.                                                *)

(* The first atomic store begins the swap. *)
LEMMA StoreCountInv == ASSUME Inv, StoreCount PROVE WriterOk' /\ LayersOk' /\ BaseOk' /\ Quiet
<1>1. /\ writer = "count" /\ writer' = "start" /\ count' = next.count
      /\ UNCHANGED <<todo, counter, pending, committed, delta, gen, start, file, pages, next,
                     reading, log>>
  BY DEF StoreCount
<1>2. Publishing /\ Publishing' /\ Swapping' BY <1>1 DEF Publishing, Swapping
<1>3. WriterOk' BY <1>1 DEF Inv, WriterOk
<1>4. LayersOk' BY <1>1 DEF Inv, LayersOk
<1>5. next.count \in Nat BY <1>2 DEF Inv, BaseOk, Pages
<1>6. BaseOk' BY <1>1, <1>2, <1>5, Zenon DEF Inv, BaseOk
<1>7. counter \in Nat BY PublicationAssumption DEF Inv, WriterOk
<1>8. Quiet BY <1>1, <1>2, <1>7 DEF Quiet
<1> QED BY <1>3, <1>4, <1>6, <1>8

(* After the second store the atomics name the new base. *)
LEMMA StoreStartInv == ASSUME Inv, StoreStart PROVE WriterOk' /\ LayersOk' /\ BaseOk' /\ Quiet
<1>1. /\ writer = "start" /\ writer' = "wire" /\ start' = next.start
      /\ UNCHANGED <<todo, counter, pending, committed, delta, gen, count, file, pages, next,
                     reading, log>>
  BY DEF StoreStart
<1>2. Publishing BY <1>1 DEF Publishing
<1>3. next.kind = "base" /\ next.start \in Nat \ {0} BY <1>2, Zenon DEF Inv, BaseOk, Pages
<1>4. Publishing' /\ Swapping' BY <1>1, <1>3 DEF Publishing, Swapping
<1>5. WriterOk' BY <1>1 DEF Inv, WriterOk
<1>6. LayersOk' BY <1>1 DEF Inv, LayersOk
<1>7. BaseOk' BY <1>1, <1>2, <1>3, <1>4, Zenon DEF Inv, BaseOk
<1>8. counter \in Nat BY PublicationAssumption DEF Inv, WriterOk
<1>9. Quiet BY <1>1, <1>4, <1>8 DEF Quiet
<1> QED BY <1>5, <1>6, <1>7, <1>9

(* The readers of the new base, or the delta with the segment behind it. *)
LEMMA WireInv == ASSUME Inv, Wire PROVE WriterOk' /\ LayersOk' /\ BaseOk' /\ Quiet
<1>1. /\ writer = "wire" /\ writer' = "clear" /\ ~reading /\ pending' = <<>> /\ gen' = gen + 1
      /\ UNCHANGED <<todo, counter, count, start, file, pages, next, reading, log>>
  BY DEF Wire
<1>2. ~Publishing' /\ ~Swapping' BY <1>1 DEF Publishing, Swapping
<1>3. counter \in Nat /\ gen \in Nat BY PublicationAssumption DEF Inv, WriterOk
<1>4. WriterOk'
  <2>1. gen' \in Nat BY <1>1, <1>3
  <2>2. todo = 0 BY <1>1 DEF Inv, WriterOk
  <2> QED BY <1>1, <2>1, <2>2, Zenon DEF Inv, WriterOk
<1>5. Quiet
  <2>1. gen' # gen BY <1>1, <1>3
  <2> QED BY <1>1, <1>3, <2>1 DEF Quiet
<1>6. /\ pending \in Seq(Facts) /\ delta \in Seq(Facts) /\ committed.root \in Seq(Facts)
      /\ log = (committed.root \o delta) \o pending /\ log \in Seq(Facts)
  BY DEF Inv, LayersOk, WriterOk
<1>7. <<>> \in Seq(Facts) OBVIOUS
<1>8. CASE next.kind = "delta"
  <2>1. committed' = [committed EXCEPT !.layered = TRUE] /\ delta' = delta \o pending
    BY <1>8 DEF Wire
  <2>2. committed = [catalog |-> committed.catalog, root |-> committed.root,
                     layered |-> committed.layered]
    BY DEF Inv, LayersOk
  <2>3. committed' = [catalog |-> committed.catalog, root |-> committed.root, layered |-> TRUE]
    BY <2>1, <2>2, Zenon
  <2>4. committed'.catalog = committed.catalog /\ committed'.root = committed.root
        /\ committed'.layered = TRUE
    BY <2>3
  <2>5. delta' \in Seq(Facts) BY <1>6, <2>1, JoinAt, Zenon
  <2>6. log = committed.root \o delta' BY <1>6, <2>1, Assoc, Zenon
  <2>7. log = (committed'.root \o delta') \o pending'
    <3>1. log \o <<>> = log BY <1>6, ConcatEmptySeq
    <3> QED BY <1>1, <2>4, <2>6, <3>1
  <2>8. LayersOk' BY <1>1, <1>6, <1>7, <2>3, <2>4, <2>5, <2>7 DEF LayersOk
  <2>9. ~Swapping /\ ~Publishing BY <1>1, <1>8 DEF Swapping, Publishing
  <2>10. BaseOk' BY <1>1, <1>2, <2>4, <2>9, Zenon DEF Inv, BaseOk
  <2> QED BY <1>4, <1>5, <2>8, <2>10
<1>9. CASE next.kind = "base"
  <2>1. committed' = [catalog |-> next.catalog, root |-> next.root, layered |-> FALSE]
        /\ delta' = <<>>
    BY <1>9 DEF Wire
  <2>2. committed'.catalog = next.catalog /\ committed'.root = next.root
        /\ committed'.layered = FALSE
    BY <2>1
  <2>3. Publishing BY <1>1, <1>9 DEF Publishing
  <2>4. /\ next.root = log /\ count = next.count /\ start = next.start
        /\ Pages(file, next.count, next.start, next.root, next.catalog)
        /\ next.start + next.count <= pages
    BY <1>1, <2>3, Zenon DEF Inv, BaseOk
  <2>5. log = (log \o <<>>) \o <<>>
    <3>1. log \o <<>> = log BY <1>6, ConcatEmptySeq
    <3> QED BY <3>1
  <2>6. LayersOk' BY <1>1, <1>6, <1>7, <2>1, <2>2, <2>4, <2>5 DEF LayersOk
  <2>7. BaseOk' BY <1>1, <1>2, <2>2, <2>4, Zenon DEF Inv, BaseOk
  <2> QED BY <1>4, <1>5, <2>6, <2>7
<1> QED BY <1>1, <1>8, <1>9, Zenon DEF Inv, BaseOk

(* post_checkpoint_clear finds an empty overlay. *)
LEMMA ClearInv == ASSUME Inv, Clear PROVE WriterOk' /\ LayersOk' /\ BaseOk' /\ Quiet
<1>1. /\ writer = "clear" /\ writer' = "idle" /\ ~reading /\ pending' = <<>> /\ gen' = gen + 1
      /\ UNCHANGED <<todo, counter, committed, delta, count, start, file, pages, reading, log>>
  BY DEF Clear
<1>2. ~Publishing' /\ ~Swapping' /\ ~Publishing /\ ~Swapping BY <1>1 DEF Publishing, Swapping
<1>3. counter \in Nat /\ gen \in Nat BY PublicationAssumption DEF Inv, WriterOk
<1>4. WriterOk'
  <2>1. gen' \in Nat BY <1>1, <1>3
  <2>2. todo = 0 BY <1>1 DEF Inv, WriterOk
  <2> QED BY <1>1, <2>1, <2>2, Zenon DEF Inv, WriterOk
<1>5. pending' = pending BY <1>1 DEF Inv, LayersOk
<1>6. LayersOk' BY <1>1, <1>5 DEF Inv, LayersOk
<1>7. BaseOk' BY <1>1, <1>2, Zenon DEF Inv, BaseOk
<1>8. Quiet
  <2>1. gen' # gen BY <1>1, <1>3
  <2> QED BY <1>1, <1>3, <2>1 DEF Quiet
<1> QED BY <1>4, <1>6, <1>7, <1>8

-----------------------------------------------------------------------------
(* The theorems.                                                           *)

(* A new handle satisfies the invariant. *)
LEMMA InitInv == ASSUME Init PROVE Inv
<1>1. /\ writer = "idle" /\ todo = 0 /\ counter = 0 /\ pending = <<>> /\ delta = <<>> /\ gen = 0
      /\ count = 0 /\ start = 1 /\ file = [p \in {} |-> <<>>] /\ pages = 1 /\ log = <<>>
      /\ committed = [catalog |-> None, root |-> <<>>, layered |-> FALSE]
      /\ role \in Roles /\ scan = None /\ view = None /\ cursor = 0 /\ polled = <<>>
      /\ torn = FALSE /\ walk = None
  BY DEF Init, PublicationInit
<1>2. /\ committed.catalog = None /\ committed.root = <<>> /\ committed.layered = FALSE BY <1>1
<1>3. <<>> \in Seq(Facts) /\ Len(<<>>) = 0 OBVIOUS
<1>4. ~Swapping /\ ~Publishing BY <1>1 DEF Swapping, Publishing
<1>5. WriterOk BY <1>1, <1>3, PublicationAssumption DEF WriterOk, Ordered
<1>6. LayersOk
  <2>1. <<>> \o <<>> = <<>> BY <1>3, ConcatEmptySeq
  <2>2. <<>> = (<<>> \o <<>>) \o <<>> BY <2>1
  <2> QED BY <1>1, <1>2, <1>3, <2>2 DEF LayersOk
<1>7. BaseOk
  <2>1. 0 \in Nat /\ Concat(file, 0, 1, 0) = <<>> BY ConcatEnd
  <2>2. Pages(file, 0, 1, <<>>, None) BY <1>3, <2>1 DEF Pages
  <2>3. \A p \in DOMAIN file : file[p].facts \in Seq(Facts) BY <1>1
  <2>4. Pages(file, count, start, committed.root, committed.catalog) BY <1>1, <1>2, <2>2, Zenon
  <2>5. pages \in Nat \ {0} /\ start \in Nat \ {0} /\ count \in Nat /\ start + count <= pages
    BY <1>1
  <2>6. writer # "wire" BY <1>1
  <2> QED BY <1>4, <2>3, <2>4, <2>5, <2>6, Zenon DEF BaseOk
<1>8. ScanOk BY <1>1, ReadersAssumption DEF ScanOk
<1>9. ViewOk BY <1>1 DEF ViewOk
<1>10. PollOk
  <2>1. Kept(<<>>, 0..0) = <<>> BY KeptEmpty
  <2>2. polled = Kept(log, 0..cursor) BY <1>1, <2>1, Zenon
  <2>3. cursor \in Nat /\ cursor <= counter /\ ~(todo > 0) BY <1>1
  <2> QED BY <1>1, <2>2, <2>3, Zenon DEF PollOk
<1>11. WalkOk BY <1>1 DEF WalkOk
<1> QED BY <1>5, <1>6, <1>7, <1>8, <1>9, <1>10, <1>11 DEF Inv

(* Every step of the writer keeps its part of the invariant and is quiet. *)
LEMMA PublishInv ==
    ASSUME Inv, Publish PROVE WriterOk' /\ LayersOk' /\ BaseOk' /\ Quiet
BY BeginInv, WalAppendInv, LoadFactInv, ReturnInv, SaveDeltaInv, SaveFullInv, SaveRecompactInv,
   StoreCountInv, StoreStartInv, WireInv, ClearInv
   DEF Publish

(* A stuttering step keeps the invariant. *)
LEMMA StutterInv == ASSUME Inv, UNCHANGED vars PROVE Inv'
<1>1. UNCHANGED <<shared, reading, role, scans>> /\ walk' = walk BY DEF vars
<1>2. WalkOk' BY <1>1, Zenon DEF Inv, WalkOk, shared
<1> QED BY <1>1, <1>2, WalkMoves DEF Inv

(* The invariant is inductive. *)
LEMMA StepInv == ASSUME Inv, [Next]_vars PROVE Inv'
<1>1. CASE Publish /\ UNCHANGED <<role, scans, walk>>
  <2>1. WriterOk' /\ LayersOk' /\ BaseOk' /\ Quiet BY <1>1, PublishInv
  <2>2. ScanOk' /\ ViewOk' /\ PollOk' /\ WalkOk' BY <1>1, <2>1, ReadersKept
  <2> QED BY <2>1, <2>2 DEF Inv
<1>2. CASE ReadStep
  BY <1>2, CaptureViewInv, BeginScanInv, EndScanInv, OpenWalkInv, StepWalkInv, EndWalkInv
     DEF ReadStep
<1>3. CASE UNCHANGED vars BY <1>3, StutterInv
<1> QED BY <1>1, <1>2, <1>3 DEF Next

(* Whatever the batches, the page capacity and the saves are: base, delta  *)
(* and overlay together are the log; the fact pages the two atomics name   *)
(* hold the base the committed readers have, but in the middle of a swap;  *)
(* a view, a poller and a cursor stay where the log puts them.             *)
THEOREM ReadersSound == Spec => []Inv
<1>1. Init => Inv BY InitInv
<1>2. Inv /\ [Next]_vars => Inv' BY StepInv
<1> QED BY <1>1, <1>2, PTL DEF Spec

(* for_each_fact, for_each_fact_since and a ReadView return exactly the    *)
(* facts they promise, in order and once, wherever these lie by then, with *)
(* every page of the base readable: a scan outside a swap of the base      *)
(* never fails and never mixes two of its states.                          *)
THEOREM ScansSeeLog == Spec => []ScanSeesLog
<1>1. Inv => ScanSeesLog BY ReturnedIs
<1> QED BY <1>1, ReadersSound, PTL

(* A poller of export_fact_log_since whose polls end between batches has   *)
(* every fact up to its cursor, in order and once.                         *)
THEOREM PollersFollowLog == Spec => []PollerFollowsLog
<1>1. Inv => PollerFollowsLog BY DEF Inv, PollOk, PollerFollowsLog
<1> QED BY <1>1, ReadersSound, PTL

(* An attribute cursor that completes is a snapshot of the moment it was   *)
(* opened, although it gives the lock back between its entries.            *)
THEOREM WalksAreSnapshots == Spec => []CompleteWalkIsSnapshot
<1>1. Inv => CompleteWalkIsSnapshot
  <2> SUFFICES ASSUME Inv, walk # None, walk.done PROVE CompleteWalkIsSnapshot
    BY DEF CompleteWalkIsSnapshot
  <2>1. {walk.seen[i] : i \in DOMAIN walk.seen} = Range(walk.seen) BY DEF Range
  <2> QED BY <2>1 DEF Inv, WalkOk, CompleteWalkIsSnapshot
<1> QED BY <1>1, ReadersSound, PTL

=============================================================================
