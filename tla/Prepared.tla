------------------------------- MODULE Prepared -------------------------------
(***************************************************************************)
(* Prepared queries (src/query/datalog/prepared.rs): a query is parsed     *)
(* once with slots left open, and every execution fills a copy of it.      *)
(*                                                                         *)
(* Bindings are a function from slot names to bind values: <<"entity", u>>,*)
(* <<"val", v>> with v a stored value, <<"count", n>>, <<"time", t>> or    *)
(* <<"any", 0>>.                                                           *)
(***************************************************************************)
EXTENDS Parser

\* No slot may stand in attribute position.
RECURSIVE validate_clauses_no_attr_slots(_)
validate_clauses_no_attr_slots(body) ==
    \A c \in Range(body) :
        CASE IsPattern(c) -> c.p.a[1] # "slot"
          [] IsNot(c)     -> validate_clauses_no_attr_slots(c.body)
          [] IsOr(c)      -> \A b \in Range(c.brs) : validate_clauses_no_attr_slots(b)
          [] OTHER        -> TRUE

SlotsIn(ts) == {t[2] : t \in {x \in ts : x[1] = "slot"}}

RECURSIVE collect_slots_from_expr(_), collect_slots_from_clauses(_)

collect_slots_from_expr(x) ==
    CASE x.op = "slot"           -> {x.args[1][2]}
      [] x.op \in {"var", "lit"} -> {}
      [] OTHER                   -> UNION {collect_slots_from_expr(a) : a \in Range(x.args)}

collect_slots_from_clauses(body) ==
    UNION {CASE IsPattern(c) -> SlotsIn({c.p.e, c.p.v})
             [] IsExpr(c)    -> collect_slots_from_expr(c.x)
             [] IsNot(c)     -> collect_slots_from_clauses(c.body)
             [] IsOr(c)      -> UNION {collect_slots_from_clauses(b) : b \in Range(c.brs)}
             [] OTHER        -> SlotsIn(Range(c.args))
             : c \in Range(body)}

collect_slot_names(q) == SlotsIn({q.as_of, q.valid_at}) \cup collect_slots_from_clauses(q.where)

\* What a slot becomes in a position that takes the given kinds of bind value;
\* the wrong kind is an error.
Resolve(t, kinds, binds, As(_)) ==
    IF t[1] # "slot" THEN {t} ELSE {As(v) : v \in {x \in {binds[t[2]]} : x[1] \in kinds}}

resolve_entity_slot(t, binds) == Resolve(t, {"entity"}, binds, LAMBDA v : <<"uuid", v[2]>>)
resolve_value_slot(t, binds) == Resolve(t, {"val"}, binds, LAMBDA v : value_to_edn(v[2]))
resolve_as_of_slot(t, binds) == Resolve(t, {"count", "time"}, binds, LAMBDA v : v)
resolve_valid_at_slot(t, binds) ==
    Resolve(t, {"time", "any"}, binds, LAMBDA v : IF v[1] = "time" THEN <<"at", v[2]>> ELSE v)

substitute_pattern(p, binds) ==
    {[p EXCEPT !.e = e, !.v = v] : e \in resolve_entity_slot(p.e, binds),
                                   v \in resolve_value_slot(p.v, binds)}

RECURSIVE substitute_expr(_, _), substitute_where_clause(_, _)

substitute_expr(x, binds) ==
    CASE x.op = "slot" -> {[op |-> "lit", args |-> <<v[2]>>]
                             : v \in {b \in {binds[x.args[1][2]]} : b[1] = "val"}}
      [] x.op \in {"var", "lit"} -> {x}
      [] OTHER -> {[x EXCEPT !.args = as] : as \in ParseEach(LAMBDA a : substitute_expr(a, binds), x.args)}

SubstituteBody(body, binds) == ParseEach(LAMBDA c : substitute_where_clause(c, binds), body)

\* The branches of a disjunction are left as they are.
SubstituteBranchesNot(brs, binds) == {brs}

SubstituteBranches(brs, binds) ==
    ParseEach(LAMBDA b : ParseEach(LAMBDA c : substitute_where_clause(c, binds), b), brs)

substitute_where_clause(c, binds) ==
    CASE IsPattern(c) -> {[c EXCEPT !.p = p] : p \in substitute_pattern(c.p, binds)}
      [] IsExpr(c)    -> {[c EXCEPT !.x = x] : x \in substitute_expr(c.x, binds)}
      [] IsNot(c)     -> {[c EXCEPT !.body = b] : b \in SubstituteBody(c.body, binds)}
      [] IsOr(c)      -> {[c EXCEPT !.brs = bs] : bs \in SubstituteBranches(c.brs, binds)}
      [] OTHER        -> {[c EXCEPT !.args = as]
                            : as \in ParseEach(LAMBDA t : resolve_value_slot(t, binds), c.args)}

substitute(q, binds) ==
    {[q EXCEPT !.as_of = a, !.valid_at = v, !.where = w]
       : a \in resolve_as_of_slot(q.as_of, binds), v \in resolve_valid_at_slot(q.valid_at, binds),
         w \in SubstituteBody(q.where, binds)}

\* ViciaDb::prepare and PreparedQuery::execute up to the engine.
prepare(text) ==
    {c.of : c \in {x \in parse_datalog_command(text) :
                      x.cmd = "query" /\ validate_clauses_no_attr_slots(x.of.where)}}

FilledQuery(q, binds) ==
    IF collect_slot_names(q) \subseteq DOMAIN binds THEN substitute(q, binds) ELSE {}
=============================================================================
