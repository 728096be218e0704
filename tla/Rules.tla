-------------------------------- MODULE Rules --------------------------------
(***************************************************************************)
(* The rule half of the Datalog engine: stratification.rs, rules.rs,       *)
(* magic_sets.rs and evaluator.rs.                                         *)
(*                                                                         *)
(* A rule is [pred, args, body]; a registry is the sequence of its rules   *)
(* in registration order.  Derived facts carry no temporal metadata.       *)
(***************************************************************************)
EXTENDS Clauses

get_rules(reg, pred) == SelectSeq(reg, LAMBDA r : r.pred = pred)

HeadVars(r) == NamedVars(Range(r.args))

-----------------------------------------------------------------------------
\* Stratification: a pair <<p, neg>> for every predicate a clause calls.

RECURSIVE collect_clause_deps(_)
collect_clause_deps(c) ==
    CASE c.k = "call" -> {<<c.pred, FALSE>>}
      [] IsNot(c)     -> {<<d.pred, TRUE>> : d \in {x \in Range(c.body) : x.k = "call"}}
      [] IsOr(c)      -> UNION {UNION {collect_clause_deps(x) : x \in Range(b)}
                                  : b \in Range(c.brs)}
      [] OTHER        -> {}

\* Edges <<head, dependency, negative>>.
from_rules(reg) ==
    UNION {{<<r.pred, d[1], d[2]>> : d \in UNION {collect_clause_deps(c) : c \in Range(r.body)}}
             : r \in Range(reg)}

Predicates(reg) == {r.pred : r \in Range(reg)} \cup {e[2] : e \in from_rules(reg)}

LargestOf(S) == CHOOSE x \in S : \A y \in S : y <= x

\* Constraint propagation; a stratum that reaches the number of predicates
\* proves a negative cycle.
RECURSIVE Relax(_, _, _)
Relax(edges, strata, n) ==
    LET Required(e) == strata[e[2]] + (IF e[3] THEN 1 ELSE 0)
        next == [p \in DOMAIN strata |->
                    LargestOf({strata[p]} \cup {Required(e) : e \in {x \in edges : x[1] = p}})]
    IN  IF \E e \in edges : next[e[1]] >= n THEN [ok |-> FALSE, strata |-> next]
        ELSE IF next = strata THEN [ok |-> TRUE, strata |-> next]
        ELSE Relax(edges, next, n)

stratify(reg) ==
    LET ps == Predicates(reg)
    IN  Relax(from_rules(reg), [p \in ps |-> 0], Cardinality(ps))

\* As register_rule, without popping the rule that failed.
register_rule_unpopped(reg, r) == Append(reg, r)

\* register_rule: the rule is pushed first and popped when the check fails.
register_rule(reg, r) ==
    IF stratify(Append(reg, r)).ok THEN Append(reg, r) ELSE reg

-----------------------------------------------------------------------------
\* Magic sets.  An adornment says which argument positions are bound.

magic_pred_name(p) == "magic_" \o p

PatternVars(c) == {t \in {c.p.e, c.p.v} : IsVariable(t)}

Adorn(args, grounded) == [i \in DOMAIN args |-> IsVariable(args[i]) => args[i] \in grounded]

has_bound_arg(ad) == TRUE \in Range(ad)

GroundedBefore(body, i) ==
    UNION {PatternVars(body[j]) : j \in {x \in 1..(i - 1) : IsPattern(body[x])}}

\* The first call of a predicate decides its adornment.
compute_query_adornments(body) ==
    LET calls == {i \in DOMAIN body : body[i].k = "call"}
        First(p) == CHOOSE i \in calls : /\ body[i].pred = p
                                         /\ \A j \in calls : body[j].pred = p => i <= j
    IN  [p \in {body[i].pred : i \in calls} |->
            Adorn(body[First(p)].args, GroundedBefore(body, First(p)))]

BoundOnly(ads) == [p \in {x \in DOMAIN ads : has_bound_arg(ads[x])} |-> ads[p]]

\* Within a rule body the arguments of an earlier call are grounded as well.
CallAdornments(r, ad) ==
    LET head == {r.args[i] : i \in {x \in DOMAIN r.args : ad[x] /\ IsVariable(r.args[x])}}
        Called(i) == UNION {NamedVars(Range(r.body[j].args)) :
                               j \in {x \in 1..(i - 1) : r.body[x].k = "call"}}
        calls == {i \in DOMAIN r.body : r.body[i].k = "call"}
    IN  {<<r.body[i].pred,
           Adorn(r.body[i].args, head \cup GroundedBefore(r.body, i) \cup Called(i))>>
           : i \in calls}

\* First writer wins again; among the call sites found in one round the code
\* follows a hash map's order, so any of them may be the first.
RECURSIVE propagate_adornments(_, _)
propagate_adornments(ads, reg) ==
    LET news == {x \in UNION {CallAdornments(r, ads[r.pred]) :
                                 r \in {y \in Range(reg) : /\ y.pred \in DOMAIN ads
                                                           /\ ~HasNegation(y.body)}}
                  : has_bound_arg(x[2]) /\ x[1] \notin DOMAIN ads}
    IN  IF news = {} THEN {ads}
        ELSE UNION {propagate_adornments(ads @@ (x[1] :> x[2]), reg) : x \in news}

BoundArgs(args, ad) == LET at == SelectSeq([i \in DOMAIN args |-> i], LAMBDA i : ad[i])
                       IN  [k \in DOMAIN at |-> args[at[k]]]

Guard(r, ad) == [k |-> "call", pred |-> magic_pred_name(r.pred), args |-> BoundArgs(r.args, ad)]

inject_magic_guard(r, ad) ==
    IF HasNegation(r.body) THEN r ELSE [r EXCEPT !.body = <<Guard(r, ad)>> \o @]

\* One propagation rule per call of an adorned predicate; the calls before it
\* are left out of its body.
build_propagation_rules(r, ads) ==
    LET calls == SelectSeq([i \in DOMAIN r.body |-> i], LAMBDA i :
                     /\ r.body[i].k = "call"
                     /\ r.body[i].pred \in DOMAIN ads
                     /\ has_bound_arg(ads[r.body[i].pred]))
        Prop(i) == [pred |-> magic_pred_name(r.body[i].pred),
                    args |-> BoundArgs(r.body[i].args, ads[r.body[i].pred]),
                    body |-> <<Guard(r, ads[r.pred])>>
                             \o SelectSeq(SubSeq(r.body, 1, i - 1), LAMBDA c : c.k # "call")]
    IN  IF HasNegation(r.body) \/ r.pred \notin DOMAIN ads THEN <<>>
        ELSE [k \in DOMAIN calls |-> Prop(calls[k])]

build_rewritten_registry(reg, ads) ==
    [i \in DOMAIN reg |-> IF reg[i].pred \in DOMAIN ads
                          THEN inject_magic_guard(reg[i], ads[reg[i].pred]) ELSE reg[i]]
    \o FlattenSeq([i \in DOMAIN reg |-> build_propagation_rules(reg[i], ads)])

DerivedFact(e, a, v) == [e |-> e, a |-> a, v |-> v, vf |-> 0, vt |-> 0, tc |-> 0, id |-> 0,
                           on |-> TRUE]

\* A demand on the second argument alone hangs on a fresh carrier entity.
Carrier == "carrier"

build_seed_facts(body, ads) ==
    UNION { LET c == body[i] ad == ads[c.pred]
            IN  IF ad[1] THEN {DerivedFact(e, magic_pred_name(c.pred), <<"bool", TRUE>>)
                                 : e \in EntityIds(c.args[1])}
                ELSE {DerivedFact(Carrier, magic_pred_name(c.pred), edn_to_value(t))
                        : t \in {x \in {c.args[2]} : ad[2] /\ ~IsVariable(x)}}
          : i \in {x \in DOMAIN body : /\ body[x].k = "call"
                                       /\ body[x].pred \in DOMAIN ads
                                       /\ has_bound_arg(ads[body[x].pred])} }

\* The possible outcomes [on, reg, seeds]; on is FALSE when nothing is rewritten.
NoRewrite == [on |-> FALSE, reg |-> <<>>, seeds |-> {}]

rewrite(body, reg) ==
    LET initial == BoundOnly(compute_query_adornments(body))
        free    == \E p \in DOMAIN initial : FALSE \in Range(initial[p])
    IN  IF ~free THEN {NoRewrite}
        ELSE {LET seeds == build_seed_facts(body, ads)
              IN  IF seeds = {} THEN NoRewrite
                  ELSE [on |-> TRUE, reg |-> build_rewritten_registry(reg, ads), seeds |-> seeds]
                : ads \in propagate_adornments(initial, reg)}

-----------------------------------------------------------------------------
\* Evaluation.

MatcherOf(facts, at, keep, sorts) ==
    [facts |-> Listed(facts), at |-> at, keep |-> keep, sorts |-> sorts]

Triple(f) == <<f.e, f.a, f.v>>

\* The head needs an entity first and a storable value second.
instantiate_head(r, row) ==
    LET e == ApplyBinding(r.args[1], row)
        v == IF Len(r.args) > 1 THEN ApplyBinding(r.args[2], row) ELSE <<"bool", TRUE>>
    IN  {DerivedFact(u, r.pred, edn_to_value(v)) :
            u \in {x \in EntityIds(e) : ~IsVariable(v) /\ v[1] # "null"}}

\* A positive rule joins in source order, without the planner.
RuleRows(m, r) ==
    LET ps == BodyPatterns(r.body)
    IN  apply_expr_clauses(JoinAll(m, <<NoBinding>>, ps), r.body)

HeadsOf(m, r) == LET rows == RuleRows(m, r) IN {instantiate_head(r, row) : row \in Range(rows)}

Untimed(facts, sorts) == MatcherOf(facts, Null, FALSE, sorts)

\* lim.iterations rounds are left.
RECURSIVE evaluate_recursive_rules(_, _, _, _)
evaluate_recursive_rules(rules, facts, lim, sorts) ==
    LET m     == Untimed(facts, sorts)
        heads == UNION {HeadsOf(m, r) : r \in Range(rules)}
        count == FoldLeft(LAMBDA n, r : n + Len(RuleRows(m, r)), 0, rules)
        seen  == {Triple(f) : f \in facts}
        news  == {f \in UNION heads : Triple(f) \notin seen}
    IN  IF lim.iterations = 0 \/ {} \in heads \/ count > lim.derived
           \/ (news # {} /\ Cardinality(seen) + Cardinality(news) > lim.results)
        THEN [err |-> TRUE, facts |-> facts]
        ELSE IF news = {} THEN [err |-> FALSE, facts |-> facts]
        ELSE evaluate_recursive_rules(rules, facts \cup news,
                                      [lim EXCEPT !.iterations = @ - 1], sorts)

IsMixed(r) == \E i \in DOMAIN r.body : IsNot(r.body[i]) \/ IsOr(r.body[i])

PlannedBody(body) ==
    LET cs == SelectSeq(body, LAMBDA c : c.k \in {"pat", "call", "expr"})
    IN  [i \in DOMAIN cs |-> IF cs[i].k # "call" THEN cs[i]
                             ELSE [k |-> "pat", p |-> rule_invocation_to_pattern(cs[i])]]

RunPlanned(m, rows, c) == IF IsExpr(c) THEN ApplyExpr(rows, c) ELSE JoinRows(m, rows, c.p)

\* A rule with a negation or a disjunction is applied once; a head that cannot
\* be built is skipped.  The branches of a disjunction read the clock.
ApplyMixed(acc, r, lim, sorts) ==
    LET m     == Untimed(acc.facts, sorts)
        rows  == FoldLeft(LAMBDA rs, c : RunPlanned(m, rs, c), <<NoBinding>>,
                          plan(PlannedBody(r.body), sorts))
        seen  == {Triple(f) : f \in acc.facts}
        Heads(kept) == UNION {instantiate_head(r, row) : row \in Range(kept)}
        Unexcluded(under) == ApplyNegations(m, under, r.body, RuleNotHolds)
        Added(under) ==
            IF acc.err \/ under.err THEN [acc EXCEPT !.err = TRUE]
            ELSE [acc EXCEPT !.facts = @ \cup {f \in Heads(Unexcluded(under.rows)) : Triple(f) \notin seen}]
    IN  Added(apply_or_clauses([m EXCEPT !.at = lim.now], r.body, rows, lim.results))

\* As AllPreds, but only the predicates named in the query.
NamedPreds(preds, reg) == preds

RECURSIVE AllPreds(_, _)
AllPreds(preds, reg) ==
    LET Called(p) == UNION {UNION {{d[1] : d \in collect_clause_deps(c)} : c \in Range(r.body)}
                              : r \in Range(get_rules(reg, p))}
        news == UNION {Called(p) : p \in Range(preds)} \ Range(preds)
    IN  IF news = {} THEN preds ELSE AllPreds(preds \o Listed(news), reg)

\* One stratum: the positive rules to their fixpoint, then every mixed rule.
EvaluateStratum(reg, preds, facts, lim, sorts) ==
    LET rules    == FlattenSeq([i \in DOMAIN preds |-> get_rules(reg, preds[i])])
        positive == SelectSeq(rules, LAMBDA r : ~IsMixed(r))
        fixed    == IF positive = <<>> THEN [err |-> FALSE, facts |-> facts]
                    ELSE evaluate_recursive_rules(positive, facts, lim, sorts)
    IN  FoldLeft(LAMBDA acc, r : ApplyMixed(acc, r, lim, sorts),
                 fixed, SelectSeq(rules, IsMixed))
=============================================================================
