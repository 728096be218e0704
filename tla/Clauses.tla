------------------------------- MODULE Clauses -------------------------------
(***************************************************************************)
(* Negation and disjunction of the Datalog engine (evaluate_branch,        *)
(* apply_or_clauses, not_body_matches, evaluate_not_join and the exclusion *)
(* sets of execute_query), and the safety checks of the parser that decide *)
(* which queries and rules reach the engine.                               *)
(*                                                                         *)
(* A clause is a record whose field k is "pat" (p), "call" (pred, args),   *)
(* "expr" (x, out), "not" (body), "notjoin" (vars, body), "or" (brs) or    *)
(* "orjoin" (vars, brs).  A step that can be refused returns               *)
(* [err, rows]; the rows of a refused step are dropped.                    *)
(***************************************************************************)
EXTENDS Matcher

Found(rows) == [err |-> FALSE, rows |-> rows]
Refused == [err |-> TRUE, rows |-> <<>>]

\* A call becomes a pattern over the derived facts of its predicate.
rule_invocation_to_pattern(c) ==
    [e |-> c.args[1],
     a |-> <<"kw", c.pred>>,
     v |-> IF Len(c.args) = 2 THEN c.args[2] ELSE <<"?_", "rule_value">>]

BodyPatterns(body) ==
    LET Patterns(cs) == [i \in DOMAIN cs |-> IF IsPattern(cs[i]) THEN cs[i].p
                                             ELSE rule_invocation_to_pattern(cs[i])]
    IN  Patterns(SelectSeq(body, LAMBDA c : c.k \in {"pat", "call"}))

RECURSIVE UsesPerFact(_)
UsesPerFact(body) ==
    \E i \in DOMAIN body :
        LET c == body[i]
        IN  CASE c.k = "pat"                -> PerFact(c.p)
              [] c.k \in {"not", "notjoin"} -> UsesPerFact(c.body)
              [] c.k \in {"or", "orjoin"}   -> \E j \in DOMAIN c.brs : UsesPerFact(c.brs[j])
              [] OTHER                      -> FALSE

Kept(m, body) == [m EXCEPT !.keep = UsesPerFact(body)]

DedupBy(rows, Key(_)) ==
    FoldLeft(LAMBDA acc, r : IF \E i \in DOMAIN acc : Key(acc[i]) = Key(r)
                             THEN acc ELSE Append(acc, r),
             <<>>, rows)

OnVars(b, vars) == [k \in vars \cap DOMAIN b |-> b[k]]

-----------------------------------------------------------------------------
\* Negation.  The body holds for a row when its patterns ps, with the row's
\* values substituted, and then its expressions leave at least one binding.

BodyHolds(m, ps, body, row) ==
    LET Under(rows) == [i \in DOMAIN rows |-> rows[i] @@ row]
        Matches == IF ps = <<>> THEN <<row>>
                   ELSE Under(JoinAll(m, <<NoBinding>>,
                                      [i \in DOMAIN ps |-> ApplyBindings(ps[i], row)]))
    IN  apply_expr_clauses(Matches, body) # <<>>

\* The calls of the body are dropped: a body of calls alone always holds.
not_body_matches(m, c, row) == BodyHolds(Kept(m, c.body), PatternsOf(c.body), c.body, row)

\* The filters of execute_query_with_rules and of a rule's body turn calls into
\* patterns over the derived facts; the one of a rule retains no metadata.
QueryNotHolds(m, c, row) == BodyHolds(Kept(m, c.body), BodyPatterns(c.body), c.body, row)
RuleNotHolds(m, c, row) == BodyHolds(m, BodyPatterns(c.body), c.body, row)

\* The matcher of a not-join knows neither :valid-at nor metadata.
evaluate_not_join(m, c, row) ==
    BodyHolds([m EXCEPT !.at = Null, !.keep = FALSE], BodyPatterns(c.body), c.body,
              OnVars(row, c.vars))

NormalKey(b) == [k \in DOMAIN b |-> normalize_join_value(b[k])]

HasExpr(body) == \E i \in DOMAIN body : IsExpr(body[i])

\* execute_query evaluates a pattern body once and probes the set of its
\* bindings; a row that does not bind the whole key takes the slow path.
NotExcludes(m, c, row) ==
    LET ps   == PatternsOf(c.body)
        Keys(sols) == {NormalKey(Visible(sols[i])) : i \in DOMAIN sols}
        Probe(set, key) == IF key \subseteq DOMAIN row THEN NormalKey(OnVars(row, key)) \in set
                           ELSE not_body_matches(m, c, row)
        Excludes(set) == set # {} /\ Probe(set, DOMAIN (CHOOSE s \in set : TRUE))
    IN  IF ps = <<>> \/ HasExpr(c.body) THEN not_body_matches(m, c, row)
        ELSE Excludes(Keys(JoinAll(Kept(m, c.body), <<NoBinding>>, ps)))

NotJoinExcludes(m, c, row) ==
    LET ps   == PatternsOf(c.body)
        Probe(sols, key) ==
            IF key = {} \/ key \subseteq DOMAIN row
            THEN NormalKey(OnVars(row, key)) \in {NormalKey(OnVars(sols[i], key)) : i \in DOMAIN sols}
            ELSE evaluate_not_join(m, c, row)
        Excludes(sols) == Probe(sols, {v \in c.vars : \A i \in DOMAIN sols : v \in DOMAIN sols[i]})
    IN  IF ps = <<>> \/ HasExpr(c.body) THEN evaluate_not_join(m, c, row)
        ELSE Excludes(JoinAll(Kept(m, c.body), <<NoBinding>>, ps))

IsNot(c) == c.k \in {"not", "notjoin"}
IsOr(c) == c.k \in {"or", "orjoin"}

Negations(body) == SelectSeq(body, IsNot)

\* The exclusion sets of execute_query are built under the result limit.
ExclusionOverflows(m, body, max) ==
    \E i \in DOMAIN Negations(body) :
        LET inner == Negations(body)[i].body
        IN  JoinAllOverflows(Kept(m, inner), <<NoBinding>>, PatternsOf(inner), max)

\* Excludes is the caller's test of a not.
ApplyNegations(m, rows, body, Excludes(_, _, _)) ==
    SelectSeq(rows, LAMBDA row :
        \A i \in DOMAIN Negations(body) :
            LET c == Negations(body)[i]
            IN  IF c.k = "not" THEN ~Excludes(m, c, row)
                ELSE ~evaluate_not_join(m, c, row))

\* execute_query's form of the same filter.
ApplyExclusions(m, rows, body) ==
    SelectSeq(rows, LAMBDA row :
        \A i \in DOMAIN Negations(body) :
            LET c == Negations(body)[i]
            IN  IF c.k = "not" THEN ~NotExcludes(m, c, row)
                ELSE ~NotJoinExcludes(m, c, row))

-----------------------------------------------------------------------------
\* Disjunction.

HasNegation(branch) == \E i \in DOMAIN branch : IsNot(branch[i])

\* Merge each row with the branch results that agree with it on vars, exactly.
MergeOn(rows, results, vars, max) ==
    LET Merge(row, same) == [j \in DOMAIN same |-> row @@ same[j]]
        Same(row) == SelectSeq(results, LAMBDA b : OnVars(b, vars) = OnVars(row, vars))
        Bounded(unique) == IF Len(unique) > max THEN Refused ELSE Found(unique)
    IN  Bounded(DedupBy(FlattenSeq([i \in DOMAIN rows |-> Merge(rows[i], Same(rows[i]))]),
                        LAMBDA b : b))

AllKeys(rows) == UNION {DOMAIN rows[i] : i \in DOMAIN rows}

RECURSIVE evaluate_branch(_, _, _, _), apply_or_clauses(_, _, _, _), BranchUnion(_, _, _, _)

\* Patterns, nested disjunctions, negations, expressions: in this order.
evaluate_branch(m, branch, incoming, max) ==
    LET km == Kept(m, branch)
        Filtered(under) ==
            IF under.err THEN Refused
            ELSE Found(apply_expr_clauses(ApplyNegations(m, under.rows, branch, not_body_matches),
                                     branch))
        Joined(rows) == IF rows = <<>> THEN Found(<<>>)
                        ELSE Filtered(apply_or_clauses(m, branch, rows, max))
        Branch(ps) == IF ps # <<>> /\ JoinAllOverflows(km, incoming, ps, max) THEN Refused
                      ELSE Joined(JoinAll(km, incoming, ps))
    IN  IF incoming = <<>> THEN Found(<<>>) ELSE Branch(BodyPatterns(branch))

BranchUnion(m, branches, seed, max) ==
    LET Collected(found) == IF \E i \in DOMAIN found : found[i].err THEN Refused
                            ELSE Found(FlattenSeq([i \in DOMAIN found |-> found[i].rows]))
        Each(brs) == [i \in DOMAIN brs |-> evaluate_branch(m, brs[i], seed, max)]
    IN  Collected(Each(IF m.sorts THEN SortByCost(branches, LAMBDA b : b) ELSE branches))

ApplyOr(m, c, rows, max) ==
    LET seeded == \E i \in DOMAIN c.brs : HasNegation(c.brs[i])
        Shared(unique) == {k \in AllKeys(rows) \cap AllKeys(unique) : ~Hidden(k)}
        Joined(unique) == IF Len(unique) > max THEN Refused
                          ELSE IF seeded \/ Shared(unique) = {} THEN Found(unique)
                          ELSE MergeOn(rows, unique, Shared(unique), max)
        Merged(union) == IF union.err THEN Refused ELSE Joined(DedupBy(union.rows, Visible))
    IN  Merged(BranchUnion(m, c.brs, IF seeded THEN rows ELSE <<NoBinding>>, max))

ApplyOrJoin(m, c, rows, max) ==
    LET scope  == AllKeys(rows)
        Full(rs) == SelectSeq(rs, LAMBDA b : c.vars \subseteq DOMAIN b)
        InScope(full) == [i \in DOMAIN full |-> OnVars(full[i], scope)]
        Joined(unique) == IF Len(unique) > max THEN Refused ELSE MergeOn(rows, unique, c.vars, max)
        Merged(union) == IF union.err THEN Refused
                         ELSE Joined(DedupBy(InScope(Full(union.rows)), LAMBDA b : b))
    IN  IF c.vars \subseteq scope THEN Merged(BranchUnion(m, c.brs, <<NoBinding>>, max)) ELSE Refused

ApplyOneOr(m, c, rows, max) ==
    IF c.k = "or" THEN ApplyOr(m, c, rows, max) ELSE ApplyOrJoin(m, c, rows, max)

apply_or_clauses(m, body, rows, max) ==
    FoldLeft(LAMBDA acc, c : IF acc.err THEN Refused ELSE ApplyOneOr(m, c, acc.rows, max),
             Found(rows), SelectSeq(body, IsOr))

-----------------------------------------------------------------------------
\* The parser's safety checks.

NamedVars(ts) == {t \in ts : t[1] = "?"}

RECURSIVE outer_vars_from_clause(_)
outer_vars_from_clause(c) ==
    CASE c.k = "pat"    -> NamedVars({c.p.e, c.p.a, c.p.v})
      [] c.k = "call"   -> NamedVars(Range(c.args))
      [] IsNot(c)       -> {}
      [] c.k = "or"     -> LET Vars(b) == UNION {outer_vars_from_clause(x) : x \in Range(b)}
                           IN  {v \in Vars(c.brs[1]) : \A b \in Range(c.brs) : v \in Vars(b)}
      [] c.k = "orjoin" -> c.vars
      [] c.k = "expr"   -> c.out

OuterVars(body) == UNION {outer_vars_from_clause(c) : c \in Range(body)}

check_not_safety(body, outer) ==
    \A c \in Range(body) : c.k = "not" => OuterVars(c.body) \subseteq outer

check_not_join_safety(body, outer) ==
    \A c \in Range(body) : c.k = "notjoin" => NamedVars(c.vars) \subseteq outer

RECURSIVE check_expr_safety(_, _), CheckClause(_, _)

\* One clause of the forward pass over [ok, vars].
CheckClause(acc, c) ==
    LET Sub(b) == check_expr_safety(b, acc.vars)
        Grow(vs) == [acc EXCEPT !.vars = @ \cup vs]
        Need(cond, next) == IF acc.ok /\ cond THEN next ELSE [acc EXCEPT !.ok = FALSE]
    IN  CASE c.k = "expr" -> Need(expr_vars(c.x) \subseteq acc.vars, Grow(c.out))
          [] IsNot(c)     -> Need(Sub(c.body).ok, acc)
          [] c.k = "or"   ->
                 LET News == {Sub(b).vars \ acc.vars : b \in Range(c.brs)}
                 IN  Need((\A b \in Range(c.brs) : Sub(b).ok) /\ Cardinality(News) = 1,
                          Grow(UNION News))
          [] c.k = "orjoin" ->
                 Need(NamedVars(c.vars) \subseteq acc.vars /\ \A b \in Range(c.brs) : Sub(b).ok,
                      acc)
          [] OTHER -> Grow(outer_vars_from_clause(c))

check_expr_safety(body, bound) ==
    FoldLeft(CheckClause, [ok |-> TRUE, vars |-> bound], body)

\* parse_query accepts the :where clauses; parse_rule adds the head's variables.
SafeBody(body, head) ==
    LET outer == OuterVars(body) \cup head
    IN  /\ body # <<>>
        /\ check_not_safety(body, outer)
        /\ check_not_join_safety(body, outer)
        /\ check_expr_safety(body, {}).ok

-----------------------------------------------------------------------------
\* QueryAccessPlan: which records a query reads.

\* The lookups of a body, with <<"full", "">> for a pattern no index serves.
RECURSIVE collect_lookups(_)
collect_lookups(body) ==
    UNION {CASE c.k = "pat" ->
                    IF EntityIds(c.p.e) # {} THEN {<<"entity", e>> : e \in EntityIds(c.p.e)}
                    ELSE IF c.p.a[1] = "kw" THEN {<<"attribute", c.p.a[2]>>}
                    ELSE IF c.p.a[1] = "pseudo" THEN {}
                    ELSE {<<"full", "">>}
             [] c.k = "call" -> {<<"full", "">>}
             [] IsNot(c)     -> collect_lookups(c.body)
             [] IsOr(c)      -> UNION {collect_lookups(b) : b \in Range(c.brs)}
             [] OTHER        -> {} : c \in Range(body)}

\* QueryAccessPlan::for_query: one full scan unless every pattern has an
\* index, and the distinct lookups are few.
LookupsOf(body, entities, mixed) ==
    LET found == collect_lookups(body)
        limit == IF \A l \in found : l[1] = "entity" THEN entities ELSE mixed
    IN  IF found = {} \/ <<"full", "">> \in found \/ Cardinality(found) > limit
        THEN {<<"full", "">>} ELSE found

Serves(l, f) == CASE l[1] = "full"      -> TRUE
                  [] l[1] = "entity"    -> f.e = l[2]
                  [] l[1] = "attribute" -> f.a = l[2]
=============================================================================
