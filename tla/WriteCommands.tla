----------------------------- MODULE WriteCommands -----------------------------
(***************************************************************************)
(* From a parsed command to the records it adds: materialize_transaction,  *)
(* materialize_retraction, the closure computed by (forget ...), the       *)
(* staging of an explicit WriteTransaction and the batch check of          *)
(* executeAtomic (src/db.rs), and one query run to its end.                *)
(*                                                                         *)
(* A fact here is a log record of Temporal without tc and id.              *)
(***************************************************************************)
EXTENDS Prepared, Rules, Temporal

\* VALID_FROM_USE_TX_TIME: the window starts when the transaction commits.
UseTxTime == -2

Stored(t) == IsString(t) \/ t[1] \in {"int", "bool", "kw", "uuid", "null"}

\* The triple a pattern names, with the window [vf, vt).
Fact(p, vf, vt, on) ==
    IF EntityIds(p.e) = {} \/ p.a[1] # "kw" \/ ~Stored(p.v) THEN {}
    ELSE {[e |-> e, a |-> p.a[2], v |-> edn_to_value(p.v), vf |-> vf, vt |-> vt, on |-> on]
            : e \in EntityIds(p.e)}

materialize_transaction(tx) ==
    ParseEach(LAMBDA p : Fact(p, Given(Or(p.from, tx.from), UseTxTime),
                              Given(Or(p.to, tx.to), Forever), TRUE),
              tx.facts)

\* Without any window option every window of the triple is retracted.
materialize_retraction(tx) ==
    LET From(p) == Or(p.from, tx.from)
        To(p)   == Or(p.to, tx.to)
    IN  ParseEach(LAMBDA p :
                      IF From(p) \cup To(p) = {} THEN Fact(p, AllFrom, Forever, FALSE)
                      ELSE Fact(p, Given(From(p), UseTxTime), Given(To(p), Forever), FALSE),
                  tx.facts)

Materialized(c) == CASE c.cmd = "transact" -> materialize_transaction(c.of)
                     [] c.cmd = "retract"  -> materialize_retraction(c.of)

StartOf(f, id) == IF f.vf = UseTxTime THEN id ELSE f.vf

\* The record of fact f in the transaction with number n and time id.
StampFact(f, n, id) ==
    [e |-> f.e, a |-> f.a, v |-> f.v, vf |-> StartOf(f, id), vt |-> f.vt, tc |-> n, id |-> id,
     on |-> f.on]

-----------------------------------------------------------------------------
\* A query without rule calls or streamed aggregate, from the records to the
\* answer.  limit is what set_limits gave the executor; the query's own limit
\* replaces it except for the number of rows returned.

RunQuery(q, records, now, limit) ==
    LET max   == IF q.max = NoLimit THEN limit ELSE q.max
        at    == IF q.valid_at[1] = "now" THEN <<"at", now>> ELSE q.valid_at
        read  == {f \in records : \E l \in LookupsOf(q.where, 128, 16) : Serves(l, f)}
        m     == MatcherOf(TemporalRelation(read, q.as_of, at),
                           IF at[1] = "any" THEN Null ELSE <<"int", at[2]>>,
                           UsesPerFact(q.where), TRUE)
        Step(out, c) ==
            IF out.err \/ (~IsExpr(c) /\ JoinOverflows(m, out.rows, c.p, max)) THEN Refused
            ELSE Found(RunPlanned(m, out.rows, c))
        found == FoldLeft(Step, Found(<<NoBinding>>), plan(PlannedBody(q.where), TRUE))
        Finished(ors) ==
            IF ors.err \/ ExclusionOverflows(m, q.where, max) THEN Refused
            ELSE apply_post_processing(ApplyExclusions(m, ors.rows, q.where), q.find, q.with,
                                       Min({max, limit}))
    IN  IF (UsesPerFact(q.where) /\ at[1] # "any") \/ Cardinality(read) > max \/ found.err THEN Refused
        ELSE Finished(apply_or_clauses(m, q.where, found.rows, max))

-----------------------------------------------------------------------------
\* (forget ...): close every window that contains the closure time.

\* The set of triples named, as a set of at most one set.
resolve_forget_triples(source, records, at, limit) ==
    LET Named(row) == <<row[1][2], row[2][2], row[3]>>
        typed(rows) == \A i \in DOMAIN rows : rows[i][1][1] = "ref" /\ rows[i][2][1] = "kw"
        Triples(answer) == IF answer.err \/ ~typed(answer.rows) THEN {}
                           ELSE {{Named(r) : r \in Range(answer.rows)}}
    IN  IF source.query # {}
        THEN UNION {Triples(RunQuery([q EXCEPT !.valid_at = <<"at", at>>], records, at, limit))
                      : q \in source.query}
        ELSE {{eav_key(f) : f \in Range(fs)}
                : fs \in ParseEach(LAMBDA p : Fact(p, 0, 0, TRUE), source.facts)}

\* As below, but the windows are cut for every standing record.
materialize_closure_unscoped(records, triples, at) ==
    LET open == {w \in net_asserted_facts(records) : eav_key(w) \in triples /\ Covers(w, at)}
        As(w, vf, vt, on) == [e |-> w.e, a |-> w.a, v |-> w.v, vf |-> vf, vt |-> vt, on |-> on]
    IN  {As(w, AllFrom, Forever, FALSE) : w \in open}
        \cup {As(w, w.vf, at, TRUE) : w \in {x \in open : x.vf < at}}

\* Retract each window that contains the time and keep what lies before it.
materialize_closure(records, triples, at) ==
    LET open == {w \in net_asserted_facts(records) : eav_key(w) \in triples /\ Covers(w, at)}
        As(w, vf, vt, on) == [e |-> w.e, a |-> w.a, v |-> w.v, vf |-> vf, vt |-> vt, on |-> on]
    IN  {As(w, w.vf, w.vt, FALSE) : w \in open}
        \cup {As(w, w.vf, at, TRUE) : w \in {x \in open : x.vf < at}}

-----------------------------------------------------------------------------
\* Explicit transactions: [facts, n, id] with facts the staged records, whose
\* windows may still start at UseTxTime, and n and id the next synthetic stamp.

stage_pending_facts(tx, facts, now) ==
    LET id == IF now > tx.id THEN now ELSE tx.id
        Stage(f) == [e |-> f.e, a |-> f.a, v |-> f.v, vf |-> f.vf, vt |-> f.vt, tc |-> tx.n,
                     id |-> id, on |-> f.on]
    IN  [tx EXCEPT !.facts = @ \o [i \in DOMAIN facts |-> Stage(facts[i])],
                   !.n = @ + 1, !.id = id + 1]

merged_query_facts(log, tx) ==
    log \cup {[f EXCEPT !.vf = StartOf(f, f.id)] : f \in Range(tx.facts)}

\* The wall clock alone.
pending_read_now_floor_wall(tx, now) == now

\* The clock of a staged read is never before what was staged.
pending_read_now_floor(tx, now) == Max({now} \cup {f.id : f \in Range(tx.facts)})

\* executeAtomic: writes only, some fact, and no triple named twice.
materialize_atomic_write_commands(texts) ==
    LET cmds  == ParseEach(LAMBDA t : {c \in parse_datalog_command(t) : c.cmd \in {"transact", "retract"}}, texts)
        parts == UNION {ParseEach(Materialized, cs) : cs \in cmds}
        Apart(fs) == \A i, j \in DOMAIN fs : eav_key(fs[i]) = eav_key(fs[j]) => i = j
    IN  {fs \in {FlattenSeq(ps) : ps \in parts} : fs # <<>> /\ Apart(fs)}
=============================================================================
