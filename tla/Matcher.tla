------------------------------- MODULE Matcher -------------------------------
(***************************************************************************)
(* Pattern matching and clause planning of the Datalog engine:             *)
(* src/query/datalog/matcher.rs, optimizer.rs and the expression evaluator *)
(* of executor.rs.  Everything here is a pure operator; QueryExec drives   *)
(* them.                                                                   *)
(*                                                                         *)
(* A stored value is a pair <<kind, payload>> with kind "ref", "kw",       *)
(* "int", "bool" or "null".  A keyword and the entity it hashes to share   *)
(* their payload, so <<"kw", "a">> names the entity of <<"ref", "a">>.     *)
(* A pattern component is such a pair as well, with kind "uuid" in place   *)
(* of "ref", or <<"?", x>> for a variable, <<"?_", x>> for an anonymous    *)
(* variable, <<"_", "_">> for the wildcard, <<"pseudo", k>> for a temporal *)
(* pseudo-attribute in attribute position.                                 *)
(* A binding is a function from variables to values; its hidden keys       *)
(* <<k, entity>> hold the metadata of the fact last matched for entity.    *)
(* A matcher m has the fields facts (a sequence), at (the query's          *)
(* :valid-at value), keep (whether metadata is retained) and sorts (FALSE  *)
(* in the wasm build, which leaves out every sort by cost).                *)
(***************************************************************************)
EXTENDS Integers, Sequences, FiniteSets, SequencesExt

NoBinding == <<>>
Null == <<"null", 0>>
Wild == <<"_", "_">>

IsVariable(t) == t[1] \in {"?", "?_"}
Hidden(key) == key[1] # "?"
Visible(b) == [k \in {x \in DOMAIN b : ~Hidden(x)} |-> b[k]]

\* A keyword and a UUID name the same entity; nothing else names one.
EntityIds(t) == IF t[1] \in {"kw", "uuid"} THEN {t[2]} ELSE {}

edn_to_value(t) == IF t[1] = "uuid" THEN <<"ref", t[2]>> ELSE t
value_to_edn(v) == IF v[1] = "ref" THEN <<"uuid", v[2]>> ELSE v

normalize_join_value(v) == IF v[1] = "kw" THEN <<"ref", v[2]>> ELSE v

\* A set in some fixed order.
Listed(S) == FoldSet(LAMBDA x, s : Append(s, x), <<>>, S)

OneOf(S) == IF S = {} THEN <<>> ELSE <<CHOOSE x \in S : TRUE>>

-----------------------------------------------------------------------------
\* One component, one fact.  The result is the set of extended bindings:
\* empty when the component does not match, a singleton when it does.

MatchComponent(t, v, b) ==
    CASE t[1] \in {"_", "?_"}    -> {b}
      [] t[1] = "?"              -> IF t \in DOMAIN b
                                    THEN {x \in {b} : x[t] = v}
                                    ELSE {b @@ (t :> v)}
      [] t[1] \in {"kw", "uuid"} -> {x \in {b} : /\ v[1] \in {"kw", "ref"}
                                                 /\ v[2] = t[2]}
      [] OTHER                   -> {x \in {b} : v = t}

MatchAttribute(t, a, b) ==
    CASE t[1] \in {"_", "?_"} -> {b}
      [] t[1] = "?"           -> IF t \in DOMAIN b
                                 THEN {x \in {b} : x[t] = <<"kw", a>>}
                                 ELSE {b @@ (t :> <<"kw", a>>)}
      [] OTHER                -> {x \in {b} : t = <<"kw", a>>}

PseudoValue(m, f, k) ==
    CASE k = "vf" -> <<"int", f.vf>>
      [] k = "vt" -> <<"int", f.vt>>
      [] k = "tc" -> <<"int", f.tc>>
      [] k = "id" -> <<"int", f.id>>
      [] k = "at" -> m.at

Retain(m, f, b) ==
    IF ~m.keep THEN b
    ELSE [k \in {<<x, f.e>> : x \in {"vf", "vt", "tc", "id"}}
            |-> PseudoValue(m, f, k[1])] @@ b

MatchFact(m, f, p) ==
    UNION { IF p.a[1] = "pseudo"
            THEN MatchComponent(p.v, PseudoValue(m, f, p.a[2]), b)
            ELSE UNION { {Retain(m, f, d) : d \in MatchComponent(p.v, f.v, c)}
                       : c \in MatchAttribute(p.a, f.a, b) }
          : b \in MatchComponent(p.e, <<"ref", f.e>>, NoBinding) }

MatchPattern(m, p) ==
    FlattenSeq([i \in DOMAIN m.facts |-> OneOf(MatchFact(m, m.facts[i], p))])

-----------------------------------------------------------------------------
\* Joins.

ApplyBinding(t, b) == IF t \in DOMAIN b THEN value_to_edn(b[t]) ELSE t

ApplyBindings(p, b) ==
    [e |-> ApplyBinding(p.e, b),
     a |-> IF p.a[1] = "pseudo" THEN p.a ELSE ApplyBinding(p.a, b),
     v |-> ApplyBinding(p.v, b)]

\* The nested-loop path: values must agree exactly.
Scan(m, p, row) ==
    LET Agrees(c) == \A k \in DOMAIN c \cap DOMAIN row : Hidden(k) \/ c[k] = row[k]
        Merged(kept) == [i \in DOMAIN kept |-> kept[i] @@ row]
    IN  Merged(SelectSeq(MatchPattern(m, ApplyBindings(p, row)), Agrees))

\* A per-fact pseudo-attribute reads the metadata of the fact matched before.
WithBindings(m, p, row) ==
    LET owner == {<<p.a[2], u>> : u \in EntityIds(ApplyBinding(p.e, row))}
        held  == owner \cap DOMAIN row
    IN  IF p.a[1] = "pseudo" /\ p.a[2] # "at" /\ held # {}
        THEN OneOf(UNION {MatchComponent(p.v, row[k], row) : k \in held})
        ELSE Scan(m, p, row)

JoinVars(rows, p) ==
    IF p.a[1] = "pseudo" THEN {}
    ELSE IF p.e[1] = "?" /\ p.e \in DOMAIN rows[1] THEN {p.e}
    ELSE IF p.v[1] = "?" /\ p.v \in DOMAIN rows[1] THEN {p.v}
    ELSE {}

\* Hidden keys are overwritten, visible ones keep the row's representation.
MergeRow(row, c) ==
    [k \in DOMAIN row \cup DOMAIN c |->
        IF k \in DOMAIN c /\ (Hidden(k) \/ k \notin DOMAIN row) THEN c[k] ELSE row[k]]

\* As Consistent, but a keyword and its entity differ.
ConsistentRaw(row, c) ==
    \A k \in DOMAIN row \cap DOMAIN c : Hidden(k) \/ row[k] = c[k]

Consistent(row, c) ==
    \A k \in DOMAIN row \cap DOMAIN c :
        Hidden(k) \/ normalize_join_value(row[k]) = normalize_join_value(c[k])

HashProbe(candidates, row) ==
    LET Merged(kept) == [i \in DOMAIN kept |-> MergeRow(row, kept[i])]
    IN  Merged(SelectSeq(candidates, LAMBDA c : Consistent(row, c)))

JoinRows(m, rows, p) ==
    IF rows = <<>> THEN <<>>
    ELSE LET jv == JoinVars(rows, p)
             candidates == MatchPattern(m, p)
         IN  FlattenSeq([i \in DOMAIN rows |->
                 IF jv # {} /\ jv \subseteq DOMAIN rows[i]
                 THEN HashProbe(candidates, rows[i])
                 ELSE WithBindings(m, p, rows[i])])

\* push_bounded: the work is refused, never cut short.
JoinOverflows(m, rows, p, max) ==
    \/ Len(rows) > max
    \/ rows # <<>> /\ JoinVars(rows, p) # {} /\ Len(MatchPattern(m, p)) > max
    \/ Len(JoinRows(m, rows, p)) > max

JoinAll(m, rows, ps) == FoldLeft(LAMBDA r, p : JoinRows(m, r, p), rows, ps)

JoinAllOverflows(m, rows, ps, max) ==
    \/ Len(rows) > max
    \/ \E i \in DOMAIN ps :
           JoinOverflows(m, JoinAll(m, rows, SubSeq(ps, 1, i - 1)), ps[i], max)

-----------------------------------------------------------------------------
\* Expressions.  The set of results: empty when evaluation fails.  An
\* expression is [op, args]; a leaf has op "var" or "lit" and one argument.

Compare(op, l, r) ==
    CASE op = "<"  -> l < r
      [] op = "<=" -> l <= r
      [] op = ">"  -> l > r
      [] op = ">=" -> l >= r

Arithmetic(op, l, r) ==
    CASE op = "+" -> {l + r}
      [] op = "-" -> {l - r}
      [] op = "*" -> {l * r}
      [] op = "/" -> IF r = 0 THEN {} ELSE {l \div r}

eval_binop(op, l, r) ==
    CASE op = "="  -> {<<"bool", l = r>>}
      [] op = "!=" -> {<<"bool", l # r>>}
      [] op \in {"<", "<=", ">", ">="} ->
             IF l[1] = "int" /\ r[1] = "int"
             THEN {<<"bool", Compare(op, l[2], r[2])>>} ELSE {}
      [] op \in {"+", "-", "*", "/"} ->
             IF l[1] = "int" /\ r[1] = "int"
             THEN {<<"int", n>> : n \in Arithmetic(op, l[2], r[2])} ELSE {}

\* The unary predicates and the kind of value each accepts.
TypeTested == ("string?" :> "str") @@ ("integer?" :> "int") @@ ("float?" :> "float")
              @@ ("boolean?" :> "bool") @@ ("nil?" :> "null")

RECURSIVE eval_expr(_, _)
eval_expr(x, b) ==
    CASE x.op = "var"  -> IF x.args[1] \in DOMAIN b THEN {b[x.args[1]]} ELSE {}
      [] x.op = "lit"  -> {x.args[1]}
      [] x.op = "slot" -> {}
      [] x.op \in DOMAIN TypeTested ->
             {<<"bool", v[1] = TypeTested[x.op]>> : v \in eval_expr(x.args[1], b)}
      [] OTHER         -> UNION {eval_binop(x.op, l, r) : l \in eval_expr(x.args[1], b),
                                                          r \in eval_expr(x.args[2], b)}

is_truthy(v) == v = <<"bool", TRUE>> \/ (v[1] = "int" /\ v[2] # 0)

RECURSIVE expr_vars(_)
expr_vars(x) == CASE x.op = "var" -> {x.args[1]}
                  [] x.op \in {"lit", "slot"} -> {}
                  [] OTHER        -> UNION {expr_vars(x.args[i]) : i \in DOMAIN x.args}

\* One expression clause over every row: bind its output, or filter.
ApplyExpr(rows, c) ==
    FlattenSeq([i \in DOMAIN rows |->
        LET Under(results) ==
                IF c.out # {} THEN {(o :> v) @@ rows[i] : o \in c.out, v \in results}
                ELSE {rows[i] : v \in {w \in results : is_truthy(w)}}
        IN  OneOf(Under(eval_expr(c.x, rows[i])))])

IsExpr(c) == c.k = "expr"
IsPattern(c) == c.k = "pat"

apply_expr_clauses(rows, body) == FoldLeft(ApplyExpr, rows, SelectSeq(body, IsExpr))

PatternsOf(body) ==
    LET Patterns(cs) == [i \in DOMAIN cs |-> cs[i].p] IN Patterns(SelectSeq(body, IsPattern))

-----------------------------------------------------------------------------
\* The planner.

AttrBound(a) == a[1] # "pseudo" /\ ~IsVariable(a)

selectivity_score(p) ==
    Cardinality({i \in 1..3 : CASE i = 1 -> ~IsVariable(p.e)
                                [] i = 2 -> AttrBound(p.a)
                                [] i = 3 -> ~IsVariable(p.v)})

pattern_bound_vars(p) == {t \in {p.e, p.a, p.v} : IsVariable(t)}

PerFact(p) == p.a[1] = "pseudo" /\ p.a[2] # "at"

\* A real pattern and the per-fact pseudo patterns that follow it for the
\* identical entity form one bundle, the unit the sort may move.
Accepts(bundle, p) ==
    /\ PerFact(p)
    /\ bundle[1].p.a[1] # "pseudo"
    /\ bundle[1].p.e = p.e

Bundles(patterns) ==
    FoldLeft(LAMBDA bs, c :
                 IF bs # <<>> /\ Accepts(Last(bs), c.p)
                 THEN Front(bs) \o << Append(Last(bs), c) >>
                 ELSE Append(bs, <<c>>),
             <<>>, patterns)

SortBundles(bs) ==
    FlattenSeq([k \in 1..4 |->
        SelectSeq(bs, LAMBDA b : selectivity_score(b[1].p) = 4 - k)])

\* plan: sorts only outside the wasm build; every expression goes right after
\* the first pattern that completes its variables, or to the end.
plan(clauses, sorts) ==
    LET Sorted(bundles) == IF sorts THEN SortBundles(bundles) ELSE bundles
        Bound(entries, i) == UNION {pattern_bound_vars(entries[j].p) : j \in 1..i}
        First(fits, n) == IF fits = {} THEN n + 1 ELSE CHOOSE i \in fits : \A j \in fits : i <= j
        Place(entries, c) == First({i \in DOMAIN entries : /\ expr_vars(c.x) # {}
                                                           /\ expr_vars(c.x) \subseteq Bound(entries, i)},
                                   Len(entries))
        Placed(entries, i) == SelectSeq(clauses, LAMBDA c : IsExpr(c) /\ Place(entries, c) = i)
        Woven(entries) == FlattenSeq([i \in 1..(Len(entries) + 1) |->
                              (IF i \in DOMAIN entries THEN <<entries[i]>> ELSE <<>>) \o Placed(entries, i)])
    IN  Woven(FlattenSeq(Sorted(Bundles(SelectSeq(clauses, IsPattern)))))

pattern_cost(p) == LET s == selectivity_score(p)
                   IN  CASE s = 3 -> 1 [] s = 2 -> 10 [] s = 1 -> 100 [] OTHER -> 10000

branch_cost(body) ==
    LET Cheapest(costs) == IF costs = {} THEN 0 ELSE CHOOSE x \in costs : \A y \in costs : x <= y
    IN  Cheapest({pattern_cost(p) : p \in Range(PatternsOf(body))})

\* sort_by_key(branch_cost): a stable sort, cheapest body first.
SortByCost(bodies, Key(_)) ==
    LET tiers == <<0, 1, 10, 100, 10000>>
    IN  FlattenSeq([k \in DOMAIN tiers |->
            SelectSeq(bodies, LAMBDA b : branch_cost(Key(b)) = tiers[k])])
=============================================================================
