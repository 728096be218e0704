------------------------------ MODULE ReadPaths ------------------------------
(***************************************************************************)
(* Readers of a handle beside the writer of Publication: full exports,     *)
(* reads of a pinned ReadView, the polling export, and an attribute cursor *)
(* that gives the lock back between its steps (db.rs, graph/storage.rs,    *)
(* persistent_facts.rs).  A reader changes nothing that the writer or      *)
(* another reader looks at, so a behaviour has one reader, in any `role`.  *)
(***************************************************************************)
EXTENDS Publication

CONSTANTS
    Roles,    \* the readers of a run: "export", "view", "poll", "walk"
    Failed    \* a read that returned an error

ASSUME ReadersAssumption ==
    /\ Roles \subseteq {"export", "view", "poll", "walk"}
    /\ Failed \notin Seq(Facts)

VARIABLES
    role,    \* the reader of this behaviour
    scan,    \* the page count the scan inside data.read loaded, or None
    view,    \* ReadView::tx_count, or None
    viewLog, \* history: the log when the view was created
    cursor,  \* the poller's last seen tx_count
    polled,  \* history: everything the poller was given
    torn,    \* history: a poll ended inside a batch or a base swap
    walk     \* CurrentAttributeCursor, or None

scans == <<scan, view, viewLog, cursor, polled, torn>>
vars == <<shared, reading, role, scans, walk>>

Init ==
    /\ PublicationInit
    /\ role \in Roles /\ scan = None /\ view = None /\ viewLog = <<>>
    /\ cursor = 0 /\ polled = <<>> /\ torn = FALSE /\ walk = None

-----------------------------------------------------------------------------
(* Scans.                                                                  *)

(* Mutant of CaptureView: the write lock is not taken. *)
CaptureViewUnlocked ==
    /\ role = "view" /\ view = None
    /\ view' = counter /\ viewLog' = log
    /\ UNCHANGED <<shared, reading, role, scan, cursor, polled, torn, walk>>

(* read_view: the counter, read under the write lock. *)
CaptureView ==
    /\ role = "view" /\ view = None /\ writer = "idle"
    /\ view' = counter /\ viewLog' = log
    /\ UNCHANGED <<shared, reading, role, scan, cursor, polled, torn, walk>>

(* for_each_fact / for_each_fact_since take data.read and load the page    *)
(* count; the start is a second load.                                      *)
BeginScan ==
    /\ role # "walk" /\ ~reading /\ (role = "view" => view # None)
    /\ reading' = TRUE /\ scan' = count
    /\ UNCHANGED <<shared, role, view, viewLog, cursor, polled, torn, walk>>

(* MutexStorageBackend::read_page through the reader's catalog, and the    *)
(* page type check of for_each_from_pages.                                 *)
PageReadable(p) ==
    /\ p \in DOMAIN file /\ file[p].kind = "facts"
    /\ committed.catalog # None =>
          p \in DOMAIN committed.catalog /\ committed.catalog[p] = file[p]

(* Mutant of TailPage: the probe compares the wrong way at the boundary. *)
TailPageStrict(pgs, n, at, since) ==
    LET probe[w \in (0..n) \X (0..n)] ==
            LET mid == w[1] + (w[2] - w[1]) \div 2
                facts == pgs[at + mid].facts
            IN  IF w[1] >= w[2] THEN w[1]
                ELSE IF facts = <<>> THEN 0
                ELSE IF facts[Len(facts)].tx > since + 1 THEN probe[<<w[1], mid>>]
                ELSE probe[<<mid + 1, w[2]>>]
    IN  probe[<<0, n>>]

(* for_each_fact_since: binary search of the first page with a newer fact; *)
(* all pages when it meets an empty one.                                   *)
TailPage(pgs, n, at, since) ==
    LET probe[w \in (0..n) \X (0..n)] ==
            LET mid == w[1] + (w[2] - w[1]) \div 2
                facts == pgs[at + mid].facts
            IN  IF w[1] >= w[2] THEN w[1]
                ELSE IF facts = <<>> THEN 0
                ELSE IF facts[Len(facts)].tx > since THEN probe[<<w[1], mid>>]
                ELSE probe[<<mid + 1, w[2]>>]
    IN  probe[<<0, n>>]

(* The facts of n pages from page `at` on, but for the first `from` pages. *)
Concat(pgs, n, at, from) ==
    LET join[i \in 0..n] == IF i = n THEN <<>> ELSE pgs[at + i].facts \o join[i + 1]
    IN  join[from]

(* The facts of s with a transaction number in S. *)
Kept(s, S) ==
    LET keep[i \in 0..Len(s)] ==
            IF i = 0 THEN <<>>
            ELSE IF s[i].tx \in S THEN Append(keep[i - 1], s[i]) ELSE keep[i - 1]
    IN  keep[Len(s)]

After(since) == {t \in Nat : t > since}

(* Base facts newer than `since` as the committed loader reads them. *)
BaseScan(n, at, since) ==
    Kept(Concat(file, n, at, IF since = 0 THEN 0 ELSE TailPage(file, n, at, since)), After(since))

(* The fact sequence a scan returns: base, resident delta, pending. *)
ScanFacts(n, since) ==
    IF \E i \in 0..(n - 1) : ~PageReadable(start + i) THEN Failed
    ELSE BaseScan(n, start, since)
         \o Kept((IF committed.layered THEN delta ELSE <<>>) \o pending, After(since))

(* A base is being swapped: the atomics are ahead of the readers. *)
Swapping == writer = "start" \/ (writer = "wire" /\ next.kind = "base")

(* What the scan hands to its caller. *)
Returned ==
    LET all == ScanFacts(scan, IF role = "poll" THEN cursor ELSE 0)
    IN  IF all = Failed \/ role # "view" THEN all
        ELSE Kept(all, 0..view)

EndScan ==
    /\ scan # None
    /\ IF role = "poll" /\ Returned \notin {Failed, <<>>}
       THEN /\ polled' = polled \o Returned
            /\ cursor' = CHOOSE t \in {Returned[i].tx : i \in DOMAIN Returned} :
                            \A i \in DOMAIN Returned : t >= Returned[i].tx
       ELSE UNCHANGED <<polled, cursor>>
    /\ torn' = (torn \/ (role = "poll" /\ (Swapping \/ todo > 0)))
    /\ reading' = FALSE /\ scan' = None
    /\ UNCHANGED <<shared, role, view, viewLog, walk>>

-----------------------------------------------------------------------------
(* The attribute cursor, in the order of its keys: entity, then tx.        *)

Before(f, g) == f.entity < g.entity \/ (f.entity = g.entity /\ f.tx < g.tx)

(* current_attribute_cursor_starting_at: pending ids, readers and          *)
(* generation, under one data.read.                                        *)
OpenWalk ==
    /\ role = "walk" /\ walk = None /\ ~reading
    /\ walk' = [gen |-> gen, ids |-> DOMAIN pending, readers |-> committed,
                seen |-> <<>>, done |-> FALSE, want |-> {log[i] : i \in DOMAIN log}]
    /\ UNCHANGED <<shared, reading, role, scans>>

(* What the cursor's index reader and its pending ids resolve to now. *)
Reachable ==
    {walk.readers.root[i] : i \in DOMAIN walk.readers.root}
    \cup (IF walk.readers.layered THEN {delta[i] : i \in DOMAIN delta} ELSE {})
    \cup {pending[i] : i \in walk.ids \cap DOMAIN pending}

Unseen == {f \in Reachable : \A i \in DOMAIN walk.seen : Before(walk.seen[i], f)}

(* step_current_attribute_cursor_inner with max_entries = 1: an entry in   *)
(* key order, or completion.                                               *)
StepWalk ==
    /\ walk # None /\ ~walk.done /\ ~reading
    /\ walk.gen = gen
    /\ walk' = IF Unseen = {} THEN [walk EXCEPT !.done = TRUE]
               ELSE LET f == CHOOSE x \in Unseen : \A y \in Unseen \ {x} : Before(x, y)
                    IN [walk EXCEPT !.seen = Append(walk.seen, f)]
    /\ UNCHANGED <<shared, reading, role, scans>>

(* A save wrote over the index the cursor reads; its checksums fail. *)
IndexRewritten ==
    /\ walk.readers.catalog # None
    /\ \E p \in DOMAIN walk.readers.catalog : walk.readers.catalog[p] # file[p]

(* The generation changed, or a page is not the one in the catalog: the    *)
(* cursor fails.  A finished one is dropped.                               *)
EndWalk ==
    /\ walk # None /\ ~reading
    /\ walk.done \/ walk.gen # gen \/ IndexRewritten
    /\ walk' = None
    /\ UNCHANGED <<shared, reading, role, scans>>

ReadStep ==
    \/ CaptureView \/ BeginScan \/ EndScan
    \/ OpenWalk \/ StepWalk \/ EndWalk

Next == (Publish /\ UNCHANGED <<role, scans, walk>>) \/ ReadStep

Spec == Init /\ [][Next]_vars

-----------------------------------------------------------------------------
(* Properties.                                                             *)

(* What a scan should return: the log so far, the log of the moment the    *)
(* view was created, or the log after the poller's cursor.                 *)
Expected ==
    CASE role = "export" -> log
      [] role = "view" -> viewLog
      [] role = "poll" -> Kept(log, After(cursor))

(* A scan returns exactly the log, once and in order, wherever its facts   *)
(* lie by then: pending, in a segment, in the base or in a recompacted     *)
(* base; and a view returns what it returned at first, whatever was written*)
(* and checkpointed since (read_view, for_each_fact, Wire).  While a save  *)
(* swaps the base a reader may see a mixture: Swapping.                    *)
ScanSeesLog == scan # None /\ ~Swapping => Returned = Expected

(* Polls that end between batches give a poller every fact once, in order, *)
(* across checkpoints and recompactions (export_fact_log_since).           *)
PollerFollowsLog ==
    ~torn => polled = Kept(log, 0..cursor)

(* A cursor that completes has visited the facts of the moment it was      *)
(* opened, each once and in key order: any load, checkpoint or             *)
(* recompaction in between makes it fail instead (publication_generation). *)
CompleteWalkIsSnapshot ==
    walk # None /\ walk.done =>
        /\ {walk.seen[i] : i \in DOMAIN walk.seen} = walk.want
        /\ \A i, j \in DOMAIN walk.seen : i < j => Before(walk.seen[i], walk.seen[j])
=============================================================================
