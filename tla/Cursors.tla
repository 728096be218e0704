------------------------------- MODULE Cursors -------------------------------
(***************************************************************************)
(* The resumable index cursors of FactStorage (graph/storage.rs) and the   *)
(* read-view requests of db.rs that drive them, over a fact log that a     *)
(* writer extends and checkpoints move from layer to layer.                *)
(*                                                                         *)
(* A view is a transaction count pinned while no write is under way.  One  *)
(* request runs at a time; a page of a paged request is one request, and   *)
(* the token it returns may be used after any number of writes.            *)
(***************************************************************************)
EXTENDS IndexLayers

CONSTANTS
    Batches,        \* the fact sequences a transaction may write
    FirstLogs,      \* the batches already published as the base image
    Attrs,          \* the attributes requests name
    Entities,       \* the entities requests name, from 1 up
    Instants,       \* the valid times requests name
    StepSizes,      \* max_entries of one cursor step
    Limits,         \* row limits of a page
    MaxSource,      \* *_MAX_SOURCE_ENTRIES and *_MAX_HISTORY_ENTRIES
    MaxTx, MaxPublish

VARIABLES
    log,     \* every record stored
    runs,    \* FactData.pending
    delta,   \* the resident delta entries
    trees,   \* the roots of the published base
    gen,     \* publication_generation
    count,   \* tx_counter
    todo,    \* the rest of the batch being loaded fact by fact
    rd       \* the reader

vars == <<log, runs, delta, trees, gen, count, todo, rd>>
data == <<log, runs, delta, trees, gen, count, todo>>

Idle == [role |-> "none", st |-> "done"]

Stamped(batch, n) == [i \in DOMAIN batch |-> [x \in DOMAIN batch[i] \cup {"tc", "id"} |->
                         IF x \in {"tc", "id"} THEN n ELSE batch[i][x]]]

Records(s) == Range(s)

Init ==
    /\ \E first \in FirstLogs :
          /\ log = UNION {Records(Stamped(first[n], n)) : n \in DOMAIN first}
          /\ count = Len(first)
    /\ runs = NoRuns
    /\ delta = {}
    /\ trees = BuildTrees(log)
    /\ gen = 0
    /\ todo = <<>>
    /\ rd = Idle

-----------------------------------------------------------------------------
(* Writers.                                                                *)

\* transact_batch and retract_batch: the whole batch under one lock.
Transact(batch) ==
    /\ todo = <<>>
    /\ count < MaxTx
    /\ count' = count + 1
    /\ runs' = insert_batch(runs, Stamped(batch, count + 1), FALSE)
    /\ log' = log \cup Records(Stamped(batch, count + 1))
    /\ gen' = gen + 1
    /\ UNCHANGED <<delta, trees, todo, rd>>

\* The write path of a file-backed handle allocates the count and loads the
\* stamped facts one at a time, once the log has taken their sizes.
BeginLoad(batch) ==
    /\ todo = <<>>
    /\ count < MaxTx
    /\ \A i \in DOMAIN batch : FactBytes(Stamped(batch, 0)[i]) <= MAX_FACT_BYTES
    /\ count' = count + 1
    /\ todo' = Stamped(batch, count + 1)
    /\ UNCHANGED <<log, runs, delta, trees, gen, rd>>

load_fact ==
    /\ todo # <<>>
    /\ runs' = insert_batch(runs, <<Head(todo)>>, TRUE)
    /\ gen' = gen + (IF Head(todo) \in PendingRecords(runs) THEN 0 ELSE 1)
    /\ log' = log \cup {Head(todo)}
    /\ todo' = Tail(todo)
    /\ UNCHANGED <<delta, trees, count, rd>>

Packable == \A f \in PendingRecords(runs) : FactBytes(f) <= MAX_FACT_BYTES

\* publish_incremental_committed: a delta checkpoint moves the pending
\* records to the resident delta entries.
publish_incremental_committed ==
    /\ todo = <<>>
    /\ runs # NoRuns
    /\ Packable
    /\ gen < MaxPublish
    /\ delta' = delta \cup PendingRecords(runs)
    /\ runs' = NoRuns
    /\ gen' = gen + 1
    /\ UNCHANGED <<log, trees, count, todo, rd>>

\* publish_committed_readers.  Without delta entries a full checkpoint merges
\* the pending records into the streamed base; a recompaction sorts all that
\* is visible.
MergeIntoBase(o) ==
    LET Streamed(es) == [i \in DOMAIN es |-> EntryOf(o, es[i].ref)]
    IN  build_btree_serialized_results(
            MergeOrdered(Streamed(stream_all_entries(trees[o])), Entries(o, PendingRecords(runs)),
                         LAMBDA p, b : Less(p.key, b.key)))

Visible == {x.ref : x \in Range(stream_all_entries(trees["eavt"]))} \cup delta \cup PendingRecords(runs)

\* A page of a published tree on which slots and data overlap.
Overrun == \E o \in Orders : \E i \in DOMAIN trees[o].pages : trees[o].pages[i].torn

\* Nothing is wired when a tree cannot be built.
publish_committed_readers ==
    /\ todo = <<>>
    /\ gen < MaxPublish
    /\ delta # {} \/ runs # NoRuns
    /\ Packable /\ ~Overrun
    /\ \E built \in {IF delta = {} THEN [o \in Orders |-> MergeIntoBase(o)] ELSE BuildTrees(Visible)} :
          (\A o \in Orders : ~built[o].err) /\ trees' = built
    /\ delta' = {}
    /\ runs' = NoRuns
    /\ gen' = gen + 1
    /\ UNCHANGED <<log, count, todo, rd>>

\* A save of a fact that no page holds fails and leaves the layers alone.
SaveFails ==
    /\ todo = <<>>
    /\ ~Packable
    /\ UNCHANGED vars

-----------------------------------------------------------------------------
(* Cursors.  at is {} for any valid time or {t}; last is {} or the key of  *)
(* the last committed entry taken.                                         *)

NewCursor(range, view, at) ==
    [order |-> range.order, next_start |-> range.start, end |-> range.end,
     pending |-> PendingIn(runs, range), last |-> {}, committed_complete |-> FALSE,
     complete |-> FALSE, gen |-> gen, view |-> view, at |-> at, current |-> {}, values |-> {}]

current_attribute_cursor_starting_at(a, e, view, at) ==
    NewCursor([AttributeRange(a) EXCEPT !.start = KeyOf("aevt", Bound(e, a, NoBytes))], view, at)

ExactRange(e, a) == [order |-> "eavt", start |-> KeyOf("eavt", Bound(e, a, NoBytes)),
                     end |-> {KeyOf("eavt", Bound(e, Successor(a), NoBytes))}]

RefsRange(a, target) ==
    [order |-> "vaet", start |-> KeyOf("vaet", Bound(0, a, <<RefTag, target>>)),
     end |-> {KeyOf("vaet", Bound(0, Successor(a), <<RefTag, target>>))}]

\* An attribute resume key keeps the attribute of the key it overwrites.
ResumeKey(c, k) == IF c.order = "aevt" THEN <<c.next_start[1]>> \o Tail(k) ELSE k

\* Mutant: the last entry is taken again.
CommittedLeftInclusive(c) ==
    IF c.committed_complete THEN <<>>
    ELSE SelectSeq(VisitCommitted(trees[c.order], delta, c.order, c.next_start, c.end),
                   LAMBDA x : \A k \in c.last : ~Precedes(c.order, x.key, k))

\* The committed entries beyond the last one taken.
CommittedLeft(c) ==
    IF c.committed_complete THEN <<>>
    ELSE SelectSeq(VisitCommitted(trees[c.order], delta, c.order, c.next_start, c.end),
                   LAMBDA x : \A k \in c.last : Precedes(c.order, k, x.key))

\* What the cursor has yet to take, in order: a pending entry goes first
\* only if it is strictly before the committed one.
Ahead(c) ==
    LET Committed(es) == [i \in DOMAIN es |-> [f |-> es[i].ref, key |-> es[i].key, com |-> TRUE]]
        pending == [i \in DOMAIN c.pending |->
                       [f |-> c.pending[i], key |-> KeyOf(c.order, c.pending[i]), com |-> FALSE]]
    IN  MergeOrdered(Committed(CommittedLeft(c)), pending,
                     LAMBDA p, q : Precedes(c.order, p.key, q.key))

\* The windows left standing by what was accumulated (reduce_current_state):
\* within one entity only the value tells assertions apart.
SameWindow(f, g) == f.vf = g.vf /\ f.vt = g.vt
Standing(S) ==
    {f \in S : /\ f.on
               /\ ~\E g \in S : g.on /\ g.v = f.v /\ SameWindow(f, g) /\ g.tc > f.tc
               /\ ~\E r \in S : /\ ~r.on /\ r.v = f.v /\ f.tc <= r.tc
                                /\ Unscoped(r) \/ SameWindow(f, r)}

Shown(S, at) == {f \in Standing(S) : \A t \in at : Covers(f, t)}

\* The rows of one entity, sorted by value and window.
RowLess(x, y) == Less(<<x[2][1], x[2][2], x[3], x[4]>>, <<y[2][1], y[2][2], y[3], y[4]>>)
EntityRows(e, S, at) ==
    SortSeq(Listed({<<e, f.v, f.vf, f.vt>> : f \in Shown(S, at)}), RowLess)

flush_entity(c) == IF c.current = {} THEN <<>>
                   ELSE EntityRows(CHOOSE e \in c.current : TRUE, c.values, c.at)

\* A reference cursor keeps one state per source entity.
Sources(c) ==
    LET Of(e) == {f \in c.values : f.e = e}
    IN  SortSeq(Listed({f.e : f \in {g \in c.values : Shown(Of(g.e), c.at) # {}}}), <)

\* Mutant: the values of the entity before are kept.
AcceptUncleared(acc, x) ==
    LET c == acc.c
        turns == c.order = "aevt" /\ c.current \notin {{}, {x.f.e}}
    IN  IF x.f.tc > c.view THEN acc
        ELSE [rows |-> IF turns THEN acc.rows \o flush_entity(c) ELSE acc.rows,
              c    |-> [c EXCEPT !.current = {x.f.e}, !.values = @ \cup {x.f}]]

\* accept: an attribute cursor flushes when the entity changes.
Accept(acc, x) ==
    LET c == acc.c
        turns == c.order = "aevt" /\ c.current \notin {{}, {x.f.e}}
    IN  IF x.f.tc > c.view THEN acc
        ELSE [rows |-> IF turns THEN acc.rows \o flush_entity(c) ELSE acc.rows,
              c    |-> [c EXCEPT !.current = {x.f.e},
                                 !.values = (IF turns THEN {} ELSE @) \cup {x.f}]]

\* The place of the last committed, or pending, entry of s; 0 if there is none.
LastOf(s, com) ==
    LET Greatest(at) == IF at = {} THEN 0 ELSE CHOOSE i \in at : \A j \in at : j <= i
    IN  Greatest({i \in DOMAIN s : s[i].com = com})

Own(s) == SelectSeq(s, LAMBDA x : x.com)

\* The cursor c moves past the committed entries mine and n - Len(mine)
\* pending ones; key is {} or the key it resumes from.
Advanced(c, n, mine, key) ==
    [c EXCEPT !.pending = SubSeq(@, n - Len(mine) + 1, Len(@)),
              !.last = key,
              !.next_start = IF key = {} THEN @ ELSE CHOOSE k \in key : TRUE]

\* One step of at most n entries: [c, rows, taken].  The committed visit is
\* over only if it was not the n-th entry that stopped it.
StepCursor(c, n) ==
    LET Key(mine) == IF mine = <<>> THEN c.last ELSE {ResumeKey(c, mine[Len(mine)].key)}
        Moved(acc, k, mine) == Advanced(acc.c, k, mine, Key(mine))
        Result(acc, k, next, over, done) ==
            [taken |-> k,
             rows  |-> IF ~done THEN acc.rows
                       ELSE IF c.order = "vaet" THEN Sources(acc.c)
                       ELSE acc.rows \o flush_entity(acc.c),
             c     |-> [next EXCEPT !.committed_complete = @ \/ over,
                                    !.complete = done,
                                    !.current = IF done THEN {} ELSE @,
                                    !.values = IF done THEN {} ELSE @]]
        Ends(ahead, from, acc, over) ==
            Result(acc, Len(from), Moved(acc, Len(from), Own(from)), over,
                   over /\ Len(from) = Len(ahead))
        Step(ahead, from) ==
            Ends(ahead, from, FoldLeft(Accept, [c |-> c, rows |-> <<>>], from),
                 n > LastOf(ahead, TRUE))
        Of(ahead) == Step(ahead, SubSeq(ahead, 1, AtMost(n, Len(ahead))))
    IN  Of(Ahead(c))

-----------------------------------------------------------------------------
(* Requests.                                                               *)

Complete == IF todo = <<>> THEN count ELSE count - 1
Free == rd.st = "done"

\* The owned route of a current aggregate: one attribute cursor.
BeginAttribute(a, view, at) ==
    /\ Free
    /\ rd' = [role |-> "attribute", st |-> "open", a |-> a, view |-> view, at |-> at, out |-> <<>>,
              c |-> current_attribute_cursor_starting_at(a, 0, view, at)]
    /\ UNCHANGED data

\* A step finds the generation it opened with, or the request fails.
StepAttribute(n) ==
    /\ rd.role = "attribute" /\ rd.st = "open"
    /\ \E s \in {StepCursor(rd.c, n)} :
           rd' = IF rd.c.gen # gen THEN Idle
                 ELSE [rd EXCEPT !.c = s.c, !.out = @ \o s.rows,
                                 !.st = IF s.c.complete THEN "done" ELSE "open"]
    /\ UNCHANGED data

\* A bounded range: more than MaxSource pending records refuse the request.
Overflows(range) == PendingRange(runs, range.order, range.start, range.end, MaxSource).over

\* current_entities: a cursor of its own for every entity, one after another.
BeginEntities(a, view, at) ==
    /\ Free
    /\ rd' = [role |-> "entities", st |-> "open", a |-> a, view |-> view, at |-> at, out |-> <<>>,
              left |-> SortSeq(Listed(Entities), <), entries |-> 0, c |-> {}]
    /\ UNCHANGED data

OpenEntity ==
    /\ rd.role = "entities" /\ rd.st = "open" /\ rd.c = {}
    /\ LET range == ExactRange(Head(rd.left), rd.a)
       IN  rd' = IF Overflows(range) THEN Idle
                 ELSE [rd EXCEPT !.c = {NewCursor(range, rd.view, rd.at)}]
    /\ UNCHANGED data

\* One row per value, whatever the number of windows that show it.
ValuesOf(rows) ==
    LET Pair(i) == <<rows[i][1], rows[i][2]>>
        Pairs(first) == [i \in 1..Cardinality(first) |->
                            Pair(CHOOSE m \in first : Cardinality({x \in first : x <= m}) = i)]
    IN  Pairs({i \in DOMAIN rows : \A j \in 1..(i - 1) : rows[j][2] # rows[i][2]})

StepEntity(n) ==
    /\ rd.role = "entities" /\ rd.st = "open"
    /\ \E c \in rd.c : \E s \in {StepCursor(c, AtMost(n, MaxSource - rd.entries))} :
          LET used == rd.entries + s.taken
              left == IF s.c.complete THEN Tail(rd.left) ELSE rd.left
          IN  rd' = IF c.gen # gen \/ rd.entries >= MaxSource
                          \/ (~s.c.complete /\ used >= MaxSource) THEN Idle
                    ELSE [rd EXCEPT !.entries = used, !.left = left,
                                    !.out = @ \o ValuesOf(s.rows),
                                    !.c = IF s.c.complete THEN {} ELSE {s.c},
                                    !.st = IF left = <<>> THEN "done" ELSE "open"]
    /\ UNCHANGED data

\* refs_to.
BeginRefs(a, target, view, at) ==
    /\ Free
    /\ ~Overflows(RefsRange(a, target))
    /\ rd' = [role |-> "refs", st |-> "open", a |-> a, view |-> view, at |-> at, out |-> <<>>,
              target |-> target, entries |-> 0, c |-> NewCursor(RefsRange(a, target), view, at)]
    /\ UNCHANGED data

StepRefs(n) ==
    /\ rd.role = "refs" /\ rd.st = "open"
    /\ \E s \in {StepCursor(rd.c, AtMost(n, MaxSource - rd.entries))} :
           LET used == rd.entries + s.taken IN
           rd' = IF rd.c.gen # gen \/ (~s.c.complete /\ used >= MaxSource) THEN Idle
                 ELSE [rd EXCEPT !.c = s.c, !.entries = used, !.out = @ \o s.rows,
                                 !.st = IF s.c.complete THEN "done" ELSE "open"]
    /\ UNCHANGED data

-----------------------------------------------------------------------------
(* entity_attribute_history: pages of log records in key order.            *)

Beyond(recs, key) == SelectSeq(recs, LAMBDA f : \A k \in key : Less(k, KeyOf("eavt", f)))

\* range_eavt_page from a key on, passing over what is not beyond it.
PendingPage(start, end, after) ==
    LET Page(page) == [recs |-> Beyond(page.recs, after), over |-> page.over]
    IN  Page(PendingRange(runs, "eavt", start, end, MaxSource))

\* after is {} or the key the previous page ended with.
entity_attribute_history_cursor(e, a, view, after) ==
    LET range == ExactRange(e, a)
        start == IF after = {} THEN range.start ELSE CHOOSE k \in after : TRUE
        Opened(page) ==
            [order |-> "eavt", next_start |-> start, end |-> range.end, pending |-> page.recs,
             truncated |-> page.over, last |-> after, committed_complete |-> FALSE,
             complete |-> FALSE, gen |-> gen, view |-> view, processed |-> 0, items |-> <<>>]
    IN  Opened(PendingPage(start, range.end, after))

\* A truncated pending page that is used up is read again from the last key.
Refilled(c) ==
    LET start == IF c.last = {} THEN c.next_start ELSE CHOOSE k \in c.last : TRUE
        With(page) == [c EXCEPT !.pending = page.recs, !.truncated = page.over]
    IN  IF c.pending = <<>> /\ c.truncated THEN With(PendingPage(start, c.end, {start})) ELSE c

Items(c, s) == c.items \o SelectSeq([i \in DOMAIN s |-> s[i].f], LAMBDA f : f.tc <= c.view)

\* One step up to max_entries entries in all and max_rows rows in all.
step_entity_attribute_history_cursor(c0, max_entries, max_rows) ==
    LET Room(c, ahead, k) == /\ c.processed + k < max_entries
                             /\ Len(Items(c, SubSeq(ahead, 1, k))) < max_rows
        Taken(c, ahead, stop) ==
            CHOOSE k \in 0..stop : /\ \A j \in 0..(k - 1) : Room(c, ahead, j)
                                   /\ k = stop \/ ~Room(c, ahead, k)
        Over(c, ahead, taken, lastC) ==
            c.committed_complete \/ lastC = 0 \/ (lastC <= taken /\ Room(c, ahead, lastC))
        Result(c, ahead, from, over) ==
            [Advanced(c, Len(from), Own(from),
                      IF from = <<>> THEN c.last ELSE {from[Len(from)].key}) EXCEPT
                !.processed = @ + Len(from), !.items = Items(c, from),
                !.committed_complete = over,
                !.complete = over /\ Len(from) = Len(ahead) /\ ~c.truncated]
        Step(c, ahead, taken) ==
            Result(c, ahead, SubSeq(ahead, 1, taken), Over(c, ahead, taken, LastOf(ahead, TRUE)))
        Of(c, ahead) == Step(c, ahead, Taken(c, ahead, IF c.truncated THEN LastOf(ahead, FALSE)
                                                       ELSE Len(ahead)))
        From(c) == Of(c, Ahead(c))
    IN  IF c0.processed >= max_entries \/ Len(c0.items) >= max_rows THEN c0
        ELSE From(Refilled(c0))

\* The first page, and the next one from the token of the page before.
BeginHistory(e, a, view, limit) ==
    /\ Free
    /\ rd' = [role |-> "history", st |-> "open", e |-> e, a |-> a, view |-> view, limit |-> limit,
              out |-> <<>>, c |-> entity_attribute_history_cursor(e, a, view, {})]
    /\ UNCHANGED data

NextHistory(limit) ==
    /\ rd.role = "history" /\ rd.st = "page"
    /\ rd' = [rd EXCEPT !.st = "open", !.limit = limit,
                        !.c = entity_attribute_history_cursor(rd.e, rd.a, rd.view,
                                                              {KeyOf("eavt", rd.out[Len(rd.out)])})]
    /\ UNCHANGED data

\* finish_entity_attribute_history_page: one row too many makes a token.
StepHistory(n) ==
    /\ rd.role = "history" /\ rd.st = "open"
    /\ \E c \in {step_entity_attribute_history_cursor(
                     rd.c, AtMost(rd.c.processed + n, MaxSource), rd.limit + 1)} :
       LET ends == c.complete \/ Len(c.items) >= rd.limit + 1
           more == Len(c.items) > rd.limit
       IN  rd' = IF rd.c.gen # gen \/ (~ends /\ c.processed >= MaxSource) THEN Idle
                 ELSE IF ~ends THEN [rd EXCEPT !.c = c]
                 ELSE [rd EXCEPT !.c = {}, !.st = IF more THEN "page" ELSE "done",
                                 !.out = @ \o SubSeq(c.items, 1, AtMost(rd.limit, Len(c.items)))]
    /\ UNCHANGED data

-----------------------------------------------------------------------------
(* valid_time_diff: pages of values whose visibility differs between two   *)
(* instants, over a list of entities or a whole attribute.                 *)

ShownAt(row, t) == row[3] <= t /\ t < row[4]

\* The rows of one entity's windows: the first window that shows a value on
\* one side only.
DiffRows(rows, before, after) ==
    LET First(v, t) == {i \in DOMAIN rows : /\ rows[i][2] = v /\ ShownAt(rows[i], t)
                                            /\ \A j \in 1..(i - 1) : rows[j][2] # v \/ ~ShownAt(rows[j], t)}
        Change(v) == {<<"gone", i>> : i \in IF First(v, after) = {} THEN First(v, before) ELSE {}}
                        \cup {<<"new", i>> : i \in IF First(v, before) = {} THEN First(v, after) ELSE {}}
        Rows(changes) == [i \in DOMAIN changes |-> <<changes[i][1]>> \o rows[changes[i][2]]]
    IN  Rows(SortSeq(Listed(UNION {Change(rows[i][2]) : i \in DOMAIN rows}),
                     LAMBDA x, y : RowLess(rows[x[2]], rows[y[2]])))

\* Runs of windows of one entity, as they are emitted.
GroupsOf(rows) ==
    FoldLeft(LAMBDA g, r : IF g # <<>> /\ g[Len(g)][1][1] = r[1]
                           THEN [g EXCEPT ![Len(g)] = Append(@, r)] ELSE Append(g, <<r>>),
             <<>>, rows)

\* A page that may not fail, from entity index `from` or after entity `last`.
NewScan == [c |-> {}, rows |-> <<>>, entries |-> 0, group |-> <<>>, last |-> {}]

BeginDiff(a, scoped, before, after, view, limit) ==
    /\ Free
    /\ before < after
    /\ rd' = [role |-> "diff", st |-> "open", a |-> a, scoped |-> scoped, before |-> before,
              after |-> after, view |-> view, limit |-> limit, out |-> <<>>,
              index |-> 1, from |-> 1, resume |-> {}, scan |-> NewScan]
    /\ UNCHANGED data

NextDiff(limit) ==
    /\ rd.role = "diff" /\ rd.st = "page"
    /\ rd' = [rd EXCEPT !.st = "open", !.limit = limit, !.from = rd.index, !.scan = NewScan]
    /\ UNCHANGED data

\* The page is closed; what it returns is added to what came before.
Page(index, resume, st, rows) ==
    [rd EXCEPT !.st = st, !.index = index, !.from = index, !.resume = resume, !.scan = NewScan,
               !.out = @ \o rows]

Scope == SortSeq(Listed(Entities), <)

\* The cursor of the step: the one left open, or a new one.
ScanCursor ==
    IF rd.scan.c # {} THEN CHOOSE c \in rd.scan.c : TRUE
    ELSE IF rd.scoped THEN NewCursor(ExactRange(Scope[rd.index], rd.a), rd.view, {})
    ELSE current_attribute_cursor_starting_at(
             rd.a, IF rd.resume = {} THEN 0 ELSE (CHOOSE e \in rd.resume : TRUE) + 1, rd.view, {})

\* step_entity_set: an entity's rows enter the page together or not at all.
StepDiffEntities(n) ==
    /\ rd.role = "diff" /\ rd.st = "open" /\ rd.scoped
    /\ \E c \in {ScanCursor} : \E s \in {StepCursor(c, AtMost(n, MaxSource - rd.scan.entries))} :
       \E rows \in {DiffRows(s.rows, rd.before, rd.after)} :
       LET scan  == rd.scan
           first == rd.index = rd.from
           fresh == scan.c = {}
           spent == scan.entries >= MaxSource
           full  == s.c.complete /\ Len(scan.rows) + Len(rows) > rd.limit
       IN  rd' = IF (fresh /\ Overflows(ExactRange(Scope[rd.index], rd.a))) \/ (first /\ spent)
                        \/ (~spent /\ c.gen # gen) \/ (~spent /\ first /\ full) THEN Idle
                 ELSE IF spent \/ full THEN Page(rd.index, {}, "page", scan.rows)
                 ELSE IF ~s.c.complete
                 THEN [rd EXCEPT !.scan = [scan EXCEPT !.c = {s.c}, !.entries = @ + s.taken]]
                 ELSE IF rd.index = Len(Scope) THEN Page(rd.index, {}, "done", scan.rows \o rows)
                 ELSE [rd EXCEPT !.index = @ + 1,
                                 !.scan = [scan EXCEPT !.c = {}, !.entries = @ + s.taken,
                                                       !.rows = @ \o rows]]
    /\ UNCHANGED data

\* The groups that are complete enter the page until one does not fit.
Drain(scan, groups, limit) ==
    FoldLeft(LAMBDA acc, g :
                 LET Fit(rows) ==
                         IF acc.full \/ Len(acc.rows) + Len(rows) > limit THEN [acc EXCEPT !.full = TRUE]
                         ELSE [acc EXCEPT !.rows = @ \o rows, !.last = {g[1][1]}]
                 IN  Fit(DiffRows(g, rd.before, rd.after)),
             [rows |-> scan.rows, last |-> scan.last, full |-> FALSE], groups)

\* step_attribute: the last group stays open until the cursor is complete.
StepDiffAttribute(n) ==
    /\ rd.role = "diff" /\ rd.st = "open" /\ ~rd.scoped
    /\ \E c \in {ScanCursor} : \E s \in {StepCursor(c, AtMost(n, MaxSource - rd.scan.entries))} :
       \E groups \in {GroupsOf(rd.scan.group \o s.rows)} :
       \E acc \in {Drain(rd.scan, IF s.c.complete THEN groups
                                  ELSE SubSeq(groups, 1, Len(groups) - 1), rd.limit)} :
       LET scan   == rd.scan
           spent  == scan.entries >= MaxSource
       IN  rd' = IF spent /\ scan.last # {} THEN Page(1, scan.last, "page", scan.rows)
                 ELSE IF spent \/ c.gen # gen \/ (acc.full /\ acc.last = {}) THEN Idle
                 ELSE IF acc.full THEN Page(1, acc.last, "page", acc.rows)
                 ELSE IF s.c.complete THEN Page(1, {}, "done", acc.rows)
                 ELSE [rd EXCEPT !.scan = [c |-> {s.c}, rows |-> acc.rows, last |-> acc.last,
                                           entries |-> scan.entries + s.taken,
                                           group |-> IF groups = <<>> THEN <<>>
                                                     ELSE groups[Len(groups)]]]
    /\ UNCHANGED data

-----------------------------------------------------------------------------

Points == {{}} \cup {{t} : t \in Instants}

Write ==
    \/ \E b \in Batches : Transact(b) \/ BeginLoad(b)
    \/ load_fact
    \/ publish_incremental_committed
    \/ SaveFails

Request ==
    \/ \E a \in Attrs, v \in 1..Complete, at \in Points :
          \/ BeginAttribute(a, v, at)
          \/ BeginEntities(a, v, at)
          \/ \E t \in Entities : BeginRefs(a, t, v, at)
    \/ \E a \in Attrs, v \in 1..Complete, l \in Limits :
          \/ \E e \in Entities : BeginHistory(e, a, v, l)
          \/ \E b, t \in Instants, s \in BOOLEAN : BeginDiff(a, s, b, t, v, l)
    \/ OpenEntity
    \/ \E n \in StepSizes : \/ StepAttribute(n) \/ StepEntity(n) \/ StepRefs(n)
                            \/ StepHistory(n) \/ StepDiffEntities(n) \/ StepDiffAttribute(n)
    \/ \E l \in Limits : NextHistory(l) \/ NextDiff(l)

\* Every fact leaves an internal page room for its header, a child and a slot.
Fits == \A f \in log : FactBytes(f) <= PAGE_SIZE - INTERNAL_HEADER_SIZE - 8 - SLOT_SIZE

\* A larger fact may overrun a page, and what a read of that page returns is
\* left open: requests are not followed over a log that holds one.
GiveUp ==
    /\ ~Fits
    /\ rd' = Idle
    /\ UNCHANGED data

Next == Write \/ publish_committed_readers \/ (Fits /\ Request) \/ GiveUp

Spec == Init /\ [][Next]_vars

-----------------------------------------------------------------------------
(* Properties.                                                             *)

\* The records a view selects, and the facts standing in it.
Seen(view) == {f \in log : f.tc <= view}
Live(view, a, at) == {f \in net_asserted_facts(Seen(view)) : f.a = a /\ \A t \in at : Covers(f, t)}

\* No other attribute extends the name a.
PrefixFree(a) == \A f \in log : f.a = a \/ f.a < a \/ f.a >= next_string_prefix(a)

InOrder(S, Key(_)) == SortSeq(Listed(S), LAMBDA x, y : Less(Key(x), Key(y)))

Everything(o) == LET lo == [i \in 1..9 |-> -2] IN [order |-> o, start |-> lo, end |-> {}]

\* What one uninterrupted pass over an index order returns.
WholeIndex(o) ==
    MergeOrdered(CommittedIn(trees[o], delta, Everything(o)), PendingIn(runs, Everything(o)),
                 LAMBDA p, q : Less(KeyOf(o, p), KeyOf(o, q)))

Stored(o) == SortedBy(o, Listed({f \in log : Indexed(o, f)}))

\* Both range scans over the committed layers return what lies between two
\* keys, wherever leaves and nodes were cut.
RangesExact(o) ==
    LET kept == SelectSeq(Stored(o), LAMBDA f : f \notin PendingRecords(runs))
        keys == {KeyOf(o, f) : f \in Range(kept)}
        Within(k, l) == SelectSeq(kept, LAMBDA f : ~Less(KeyOf(o, f), k) /\ Less(KeyOf(o, f), l))
        Refs(es) == [i \in DOMAIN es |-> es[i].ref]
    IN  \A k, l \in keys :
            /\ Refs(ScanCommitted(trees[o], delta, o, k, {l})) = Within(k, l)
            /\ k[1] = l[1] => Refs(VisitCommitted(trees[o], delta, o, k, {l})) = Within(k, l)

\* A lookup by entity, of any but the largest id, finds its records; one by attribute finds all of its
\* records, and besides them only pending ones of a name that extends it.
LookupsComplete ==
    /\ \A e \in {f.e : f \in log} \ {MaxEntity} :
          \A found \in {get_facts_by_entity(runs, trees["eavt"], delta, e)} :
              Range(found) = {f \in log : f.e = e} /\ Len(found) = Cardinality(Range(found))
    /\ \A a \in {f.a : f \in log} :
          \A found \in {get_facts_by_attribute(runs, trees["aevt"], delta, a)} :
          LET other == {f \in Range(found) : f.a # a}
          IN  /\ Range(found) \ other = {f \in log : f.a = a} /\ Len(found) = Cardinality(Range(found))
              /\ \A f \in other : f \in PendingRecords(runs) /\ f.a \in a..(next_string_prefix(a) - 1)

\* However records moved between the pending runs, the delta entries and the
\* B+trees, every index order holds each stored record exactly once, sorted,
\* and ranges and lookups find what they should.  As long as every fact leaves
\* an internal page room for its header, a child and a slot, the trees can be
\* built and no page of them was written over itself.
LayersHoldLog ==
    rd = Idle =>
        /\ Fits => ~Overrun /\ \A o \in Orders : ~BuildTrees(log)[o].err
        /\ ~Overrun =>
              /\ \A o \in Orders : WholeIndex(o) = Stored(o) /\ RangesExact(o)
              /\ LookupsComplete

\* An attribute cursor that completes, however it was cut into steps, emitted
\* one row for every window standing in its view, once and in order, as long
\* as no attribute extends its name; current_entities and refs_to answer for
\* the pinned view although every entity's cursor is opened on its own,
\* between writes and checkpoints.
ReadsExact ==
    /\ rd.role = "attribute" /\ rd.st = "done" /\ PrefixFree(rd.a) =>
          rd.out = InOrder({<<f.e, f.v, f.vf, f.vt>> : f \in Live(rd.view, rd.a, rd.at)},
                           LAMBDA x : <<x[1], x[2][1], x[2][2], x[3], x[4]>>)
    /\ rd.role = "entities" /\ rd.st = "done" =>
          rd.out = InOrder({<<f.e, f.v>> : f \in {g \in Live(rd.view, rd.a, rd.at) : g.e \in Entities}},
                           LAMBDA x : <<x[1], x[2][1], x[2][2]>>)
    /\ rd.role = "refs" /\ rd.st = "done" =>
          rd.out = InOrder({f.e : f \in {g \in Live(rd.view, rd.a, rd.at) : g.v = <<RefTag, rd.target>>}},
                           LAMBDA x : <<x>>)

History(r) == SortedBy("eavt", Listed({f \in Seen(r.view) : f.e = r.e /\ f.a = r.a}))

Windows(r, e, v, t) == {f \in Live(r.view, r.a, {t}) : f.e = e /\ f.v = v}
Earliest(W) == CHOOSE f \in W : \A g \in W : ~Less(<<g.vf, g.vt>>, <<f.vf, f.vt>>)

Differences(r) ==
    LET live == {f \in Live(r.view, r.a, {}) : r.scoped => f.e \in Entities}
        Row(c, e, v, W) == IF W = {} THEN {} ELSE {<<c, e, v, Earliest(W).vf, Earliest(W).vt>>}
        Change(e, v) == LET b == Windows(r, e, v, r.before)
                            a == Windows(r, e, v, r.after)
                        IN  IF b # {} /\ a # {} THEN {} ELSE Row("gone", e, v, b) \cup Row("new", e, v, a)
    IN  InOrder(UNION {Change(f.e, f.v) : f \in live}, LAMBDA x : <<x[2], x[3][1], x[3][2]>>)

\* The pages of a history, or of a valid-time diff, are consecutive pieces of
\* the view's record log, or of its net differences with the first covering
\* window of each value: nothing is lost or repeated between two pages,
\* whatever was written or checkpointed between them, and only the last page
\* of a history has no token.
PagesExact ==
    /\ rd.role = "history" =>
        /\ rd.out = SubSeq(History(rd), 1, Len(rd.out))
        /\ rd.st = "done" => rd.out = History(rd)
        /\ rd.st = "page" => Len(rd.out) < Len(History(rd))
    /\ rd.role = "diff" /\ (~rd.scoped => PrefixFree(rd.a)) =>
        /\ rd.out = SubSeq(Differences(rd), 1, Len(rd.out))
        /\ rd.st = "done" => rd.out = Differences(rd)
=============================================================================
