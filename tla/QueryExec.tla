------------------------------ MODULE QueryExec ------------------------------
(***************************************************************************)
(* One query run by DatalogExecutor (executor.rs, access_plan.rs) while    *)
(* other threads commit transactions and register rules.  The executor     *)
(* takes the data lock once per index lookup and the rule lock once per    *)
(* stratum, so writers may come in between; everything after the reads     *)
(* works on the executor's own copies.                                     *)
(*                                                                         *)
(* A query is [find, with, where, as_of, valid_at, max, derived,           *)
(* iterations], the last one for the executor's fixed number of rounds.    *)
(***************************************************************************)
EXTENDS Rules, Aggregates, Temporal

CONSTANTS
    Logs,       \* initial fact logs: sets of records without transaction stamp
    Batches,    \* transactions a writer may commit
    RulePool,   \* rules a caller may register
    Registries, \* initial registries
    Queries,    \* queries a caller may run
    MaxTx,      \* bound on the transactions of the log
    MaxRules,   \* bound on the rules of the registry
    Now,        \* the wall clock of the reads
    MAX_SELECTIVE_LOOKUPS, MAX_SELECTIVE_ENTITY_LOOKUPS

VARIABLES
    log,     \* committed records
    reg,     \* the shared rule registry
    sorts,   \* whether the build has the sorts by cost (not wasm)
    phase, q,
    todo,    \* index lookups still to do
    facts,   \* the records read, then the relation the matcher works on
    rw,      \* outcome of the magic-set rewrite
    strata,  \* [preds, of, next]: the evaluator's plan, fixed at its start
    todoC,   \* planned clauses still to run
    rows,
    ans,     \* [err, rows]
    log0, reg0  \* history: the log and the registry when the query started

vars == <<log, reg, sorts, phase, q, todo, facts, rw, strata, todoC, rows, ans, log0, reg0>>

NoStrata == [preds |-> <<>>, of |-> <<>>, next |-> 0]

Stamp(batch, n) ==
    {[e |-> b.e, a |-> b.a, v |-> b.v, vf |-> b.vf, vt |-> b.vt, on |-> b.on,
      tc |-> n, id |-> n] : b \in batch}

LastTx == LET tcs == {f.tc : f \in log} IN IF tcs = {} THEN 0 ELSE LargestOf(tcs)

\* The predicates a body calls.
RECURSIVE rule_invocations(_)
rule_invocations(body) ==
    UNION {CASE c.k = "call" -> {c.pred}
             [] IsNot(c)     -> rule_invocations(c.body)
             [] IsOr(c)      -> UNION {rule_invocations(b) : b \in Range(c.brs)}
             [] OTHER        -> {} : c \in Range(body)}

UsesRules == rule_invocations(q.where) # {}

Init ==
    /\ log \in {Stamp(l, 1) : l \in Logs}
    /\ sorts \in BOOLEAN
    /\ phase = "idle"
    /\ q \in Queries
    /\ reg \in IF UsesRules THEN Registries ELSE {<<>>}
    /\ todo = {} /\ facts = {} /\ rw = NoRewrite /\ strata = NoStrata
    /\ todoC = <<>> /\ rows = <<>> /\ ans = Found(<<>>)
    /\ log0 = {} /\ reg0 = <<>>

-----------------------------------------------------------------------------
\* The other threads.

\* A commit of another thread; one that does not fall between two reads of the
\* query is part of the initial log.
Transact(batch) ==
    /\ phase \in {"read", "visit"}
    /\ LastTx < MaxTx
    /\ log' = log \cup Stamp(batch, LastTx + 1)
    /\ UNCHANGED <<reg, sorts, phase, q, todo, facts, rw, strata, todoC, rows, ans, log0, reg0>>

\* A rule registered while no query that calls rules runs changes nothing else.
RegisterRule(r) ==
    /\ UsesRules /\ phase \in {"idle", "rewrite", "stratify", "stratum"}
    /\ Len(reg) < MaxRules
    /\ SafeBody(r.body, HeadVars(r))
    /\ reg' = register_rule(reg, r)
    /\ UNCHANGED <<log, sorts, phase, q, todo, facts, rw, strata, todoC, rows, ans, log0, reg0>>

-----------------------------------------------------------------------------
\* Access planning.

Lookups == LookupsOf(q.where, MAX_SELECTIVE_ENTITY_LOOKUPS, MAX_SELECTIVE_LOOKUPS)

-----------------------------------------------------------------------------
\* Starting a query.

ValidAt == IF q.valid_at[1] = "now" THEN <<"at", Now>> ELSE q.valid_at
ValidAtValue == IF q.valid_at[1] = "any" THEN Null ELSE <<"int", ValidAt[2]>>

Rejected == UsesPerFact(q.where) /\ q.valid_at[1] # "any"

\* One pattern with a literal attribute under aggregates only: the attribute's
\* current values are streamed into the accumulators.
owned_attribute_aggregate ==
    /\ Len(q.where) = 1
    /\ HasAgg(q.find) /\ ~HasWin(q.find)
    /\ LET c == q.where[1]
       IN  /\ c.k = "pat" /\ c.p.a[1] = "kw"
           /\ c.p.e[1] \in {"?", "?_", "_"} /\ c.p.v[1] \in {"?", "?_", "_"}
           /\ {q.find[i].v : i \in DOMAIN q.find} \cup q.with \subseteq NamedVars({c.p.e, c.p.v})

Start ==
    /\ phase = "idle"
    /\ SafeBody(q.where, {})
    /\ log0' = log /\ reg0' = reg
    /\ IF Rejected
       THEN phase' = "done" /\ ans' = Refused /\ UNCHANGED todo
       ELSE /\ ans' = ans
            /\ IF ~UsesRules /\ owned_attribute_aggregate
               THEN phase' = "visit" /\ UNCHANGED todo
               ELSE phase' = "read" /\ todo' = Lookups
    /\ UNCHANGED <<log, reg, sorts, q, facts, rw, strata, todoC, rows>>

Fail == phase' = "done" /\ ans' = Refused

\* visit_current_attribute_values into an AggregationSink: one row per standing
\* window, not per triple.
VisitAttribute ==
    /\ phase = "visit"
    /\ LET c     == q.where[1]
           cells == net_asserted_facts(filter_facts_as_of({f \in log : f.a = c.p.a[2]}, q.as_of))
           seq   == Listed({f \in cells : ValidAt[1] = "any" \/ Covers(f, ValidAt[2])})
           Row(f) == [v \in NamedVars({c.p.e, c.p.v}) |->
                         IF v = c.p.e THEN <<"ref", f.e>> ELSE f.v]
           kept  == SelectSeq(seq, LAMBDA f : c.p.e = c.p.v => f.v = <<"ref", f.e>>)
           out   == compute_aggregation([i \in DOMAIN kept |-> Row(kept[i])], q.find, q.with)
       IN  IF Len(seq) > q.max \/ out.err \/ Len(out.rows) > q.max THEN Fail
           ELSE phase' = "done" /\ ans' = Found(project_find_specs(out.rows, q.find))
    /\ UNCHANGED <<log, reg, sorts, q, todo, facts, rw, strata, todoC, rows, log0, reg0>>

\* One lookup under one hold of the data lock.
ReadLookup(l) ==
    /\ phase = "read" /\ l \in todo
    /\ todo' = todo \ {l}
    /\ facts' = facts \cup {f \in log : Serves(l, f)}
    /\ IF Cardinality(facts') > q.max \/ Cardinality({f \in log : Serves(l, f)}) > q.max
       THEN Fail ELSE UNCHANGED <<phase, ans>>
    /\ UNCHANGED <<log, reg, sorts, q, rw, strata, todoC, rows, log0, reg0>>

\* filter_facts_for_query; a query without rules goes straight to its plan.
FilterFacts ==
    /\ phase = "read" /\ todo = {}
    /\ facts' = TemporalRelation(facts, q.as_of, ValidAt)
    /\ phase' = IF UsesRules THEN "rewrite" ELSE "plan"
    /\ UNCHANGED <<log, reg, sorts, q, todo, rw, strata, todoC, rows, ans, log0, reg0>>

-----------------------------------------------------------------------------
\* Rules.

Rewrite ==
    /\ phase = "rewrite"
    /\ rw' \in rewrite(q.where, reg)
    /\ facts' = facts \cup rw'.seeds
    /\ phase' = "stratify"
    /\ UNCHANGED <<log, reg, sorts, q, todo, strata, todoC, rows, ans, log0, reg0>>

EvalReg == IF rw.on THEN rw.reg ELSE reg

\* StratifiedEvaluator::evaluate fixes the strata and the predicates here.
Stratify ==
    /\ phase = "stratify"
    /\ LET st == stratify(EvalReg)
       IN  IF st.ok
           THEN /\ strata' = [preds |-> AllPreds(Listed(rule_invocations(q.where)), EvalReg),
                              of |-> st.strata, next |-> 0]
                /\ phase' = "stratum" /\ ans' = ans
           ELSE Fail /\ UNCHANGED strata
    /\ UNCHANGED <<log, reg, sorts, q, todo, facts, rw, todoC, rows, log0, reg0>>

StratumOf(p) == IF p \in DOMAIN strata.of THEN strata.of[p] ELSE 0

LastStratum == LargestOf({StratumOf(p) : p \in Range(strata.preds)})

Limits == [derived |-> q.derived, results |-> q.max, iterations |-> q.iterations,
           now |-> <<"int", Now>>]

\* One stratum; the registry is read again for it.
EvalStratum ==
    /\ phase = "stratum"
    /\ LET level == SelectSeq(strata.preds, LAMBDA p : StratumOf(p) = strata.next) IN
       \E out \in {EvaluateStratum(EvalReg, level, facts, Limits, sorts)} :
           IF out.err THEN Fail /\ UNCHANGED <<facts, strata>>
           ELSE /\ facts' = out.facts
                /\ strata' = [strata EXCEPT !.next = @ + 1]
                /\ phase' = IF strata.next = LastStratum THEN "plan" ELSE "stratum"
                /\ ans' = ans
    /\ UNCHANGED <<log, reg, sorts, q, todo, rw, todoC, rows, log0, reg0>>

-----------------------------------------------------------------------------
\* The where clauses over the executor's facts.

QueryMatcher == MatcherOf(facts, ValidAtValue, UsesPerFact(q.where), sorts)

Plan ==
    /\ phase = "plan"
    /\ todoC' = plan(PlannedBody(q.where), sorts)
    /\ rows' = <<NoBinding>>
    /\ phase' = "match"
    /\ UNCHANGED <<log, reg, sorts, q, todo, facts, rw, strata, ans, log0, reg0>>

RunClause ==
    /\ phase = "match" /\ todoC # <<>>
    /\ LET c == Head(todoC)
       IN  IF ~IsExpr(c) /\ JoinOverflows(QueryMatcher, rows, c.p, q.max)
           THEN Fail /\ UNCHANGED <<rows, todoC>>
           ELSE /\ rows' = RunPlanned(QueryMatcher, rows, c)
                /\ todoC' = Tail(todoC)
                /\ UNCHANGED <<phase, ans>>
    /\ UNCHANGED <<log, reg, sorts, q, todo, facts, rw, strata, log0, reg0>>

ApplyOrs ==
    /\ phase = "match" /\ todoC = <<>>
    /\ \E out \in {apply_or_clauses(QueryMatcher, q.where, rows, q.max)} :
           IF out.err THEN Fail /\ UNCHANGED rows
           ELSE rows' = out.rows /\ phase' = "not" /\ ans' = ans
    /\ UNCHANGED <<log, reg, sorts, q, todo, facts, rw, strata, todoC, log0, reg0>>

\* The query path without rules probes exclusion sets, the other one
\* evaluates every body for every row.
ApplyNots ==
    /\ phase = "not"
    /\ IF ~UsesRules /\ ExclusionOverflows(QueryMatcher, q.where, q.max)
       THEN Fail /\ UNCHANGED rows
       ELSE /\ rows' = IF UsesRules THEN ApplyNegations(QueryMatcher, rows, q.where, QueryNotHolds)
                       ELSE ApplyExclusions(QueryMatcher, rows, q.where)
            /\ phase' = "post" /\ ans' = ans
    /\ UNCHANGED <<log, reg, sorts, q, todo, facts, rw, strata, todoC, log0, reg0>>

Finish ==
    /\ phase = "post"
    /\ phase' = "done"
    /\ ans' = apply_post_processing(rows, q.find, q.with, q.max)
    /\ UNCHANGED <<log, reg, sorts, q, todo, facts, rw, strata, todoC, rows, log0, reg0>>

Next ==
    \/ \E b \in Batches : Transact(b)
    \/ \E r \in RulePool : RegisterRule(r)
    \/ Start
    \/ VisitAttribute
    \/ \E l \in todo : ReadLookup(l)
    \/ FilterFacts
    \/ Rewrite
    \/ Stratify
    \/ EvalStratum
    \/ Plan
    \/ RunClause
    \/ ApplyOrs
    \/ ApplyNots
    \/ Finish

Spec == Init /\ [][Next]_vars
=============================================================================
