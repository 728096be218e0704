---------------------------- MODULE QueryMeaning -----------------------------
(***************************************************************************)
(* What a query means, independently of how the engine evaluates it, and   *)
(* the properties that compare QueryExec with it.                          *)
(*                                                                         *)
(* The meaning is stated over triples whose keywords and references are    *)
(* identified, by quantifying over all assignments of the variables.       *)
(***************************************************************************)
EXTENDS QueryExec

Norm(v) == IF v[1] \in {"kw", "uuid"} THEN <<"ref", v[2]>> ELSE v

\* An assertion stands when no retraction of its triple or of its window came
\* with it or after it.
Standing(records, f, as_of) ==
    /\ f.on /\ entry_visible_as_of(f, as_of)
    /\ \A c \in records : entry_visible_as_of(c, as_of) => ~Cancels(c, f)

\* The triples that hold at a time.
HoldsAt(records, as_of, valid_at) ==
    {<<<<"ref", f.e>>, f.a, Norm(f.v)>> :
        f \in {r \in records : Standing(records, r, as_of)
                             /\ (valid_at[1] = "any" \/ Covers(r, valid_at[2]))}}

Num(n) == <<"int", n>>

\* Active domain: entities and values of the triples and small integers.
Domain(T) == UNION {{t[1], t[3]} : t \in T} \cup {Num(n) : n \in 0..3}

Term(t, s) == IF t \in DOMAIN s THEN s[t] ELSE Norm(t)

Anonymous(t) == t[1] \in {"_", "?_"}

RECURSIVE BodyVars(_)
BodyVars(body) ==
    UNION {CASE c.k \in {"pat", "call"} -> outer_vars_from_clause(c)
             [] c.k = "expr"            -> expr_vars(c.x) \cup c.out
             [] c.k = "or"              -> UNION {BodyVars(b) : b \in Range(c.brs)}
             [] c.k = "orjoin"          -> c.vars
             [] OTHER                   -> {} : c \in Range(body)}

PatternHolds(T, p, s) ==
    \E t \in T : /\ Anonymous(p.e) \/ t[1] = Term(p.e, s)
                 /\ p.a \in {<<"kw", t[2]>>, <<"pseudo", t[2]>>}
                 /\ Anonymous(p.v) \/ t[3] = Term(p.v, s)

Extensions(T, s, body, scope) ==
    {[v \in scope |-> IF v \in DOMAIN s THEN s[v] ELSE Null] @@ x :
        x \in [BodyVars(body) \ scope -> Domain(T)]}

RECURSIVE Holds(_, _, _), BodyTrue(_, _, _)
BodyTrue(T, body, s) == \A i \in DOMAIN body : Holds(T, body[i], s)

Holds(T, c, s) ==
    CASE c.k = "pat"     -> PatternHolds(T, c.p, s)
      [] c.k = "call"    -> PatternHolds(T, rule_invocation_to_pattern(c), s)
      [] c.k = "expr"    -> LET r == eval_expr(c.x, s)
                            IN  IF c.out = {} THEN \E v \in r : is_truthy(v)
                                ELSE \E o \in c.out : s[o] \in r
      [] c.k = "not"     -> ~BodyTrue(T, c.body, s)
      [] c.k = "notjoin" -> ~\E x \in Extensions(T, s, c.body, c.vars) : BodyTrue(T, c.body, x)
      [] c.k = "or"      -> \E b \in Range(c.brs) : BodyTrue(T, b, s)
      [] c.k = "orjoin"  -> \E b \in Range(c.brs) :
                               \E x \in Extensions(T, s, b, c.vars) : BodyTrue(T, b, x)

Solutions(T, body) == {s \in [BodyVars(body) -> Domain(T)] : BodyTrue(T, body, s)}

\* The facts one rule derives.
Heads(T, r) ==
    {<<Term(r.args[1], s), r.pred, IF Len(r.args) > 1 THEN Term(r.args[2], s) ELSE <<"bool", TRUE>>>>
       : s \in Solutions(T, r.body)}

RECURSIVE Closure(_, _)
Closure(T, rules) ==
    LET next == T \cup UNION {Heads(T, r) : r \in rules}
    IN  IF next = T THEN T ELSE Closure(next, rules)

\* The stratified model: each level closed under all its rules.
Model(T, registry) ==
    LET st  == stratify(registry).strata
        top == IF DOMAIN st = {} THEN 0 ELSE LargestOf({st[p] : p \in DOMAIN st})
    IN  FoldLeft(LAMBDA M, k : Closure(M, {r \in Range(registry) : st[r.pred] = k}),
                 T, [k \in 1..(top + 1) |-> k - 1])

AnswersIn(T) == {[i \in DOMAIN q.find |-> s[q.find[i].v]] : s \in Solutions(T, q.where)}

Answers(records, registry) == AnswersIn(Model(HoldsAt(records, q.as_of, ValidAt), registry))

\* A pseudo attribute speaks of the fact that the real pattern matched.
FactAnswers(records) ==
    LET T(f) == {<<<<"ref", f.e>>, f.a, Norm(f.v)>>}
                \cup {<<<<"ref", f.e>>, k, Num(f[k])>> : k \in {"vf", "vt", "tc"}}
    IN  UNION {AnswersIn(T(f)) : f \in {x \in records : Standing(records, x, q.as_of)}}

\* Aggregates range over the distinct solutions.
Aggregated(records, registry) ==
    LET T    == Model(HoldsAt(records, q.as_of, ValidAt), registry)
        sols == Solutions(T, q.where)
        Group(s) == {x \in sols : \A v \in GroupVars(q.find, q.with) : x[v] = s[v]}
        Vals(s, i) == Listed({<<x, x[q.find[i].v]>> : x \in Group(s)})
        Cell(s, i) == IF q.find[i].k = "var" THEN s[q.find[i].v]
                      ELSE CHOOSE v \in Accumulate(q.find[i].f,
                               [j \in DOMAIN Vals(s, i) |-> Vals(s, i)[j][2]]).some : TRUE
    IN  IF sols = {} THEN (IF CountsOnly(q.find) THEN {[i \in DOMAIN q.find |-> Num(0)]} ELSE {})
        ELSE {[i \in DOMAIN q.find |-> Cell(s, i)] : s \in sols}

\* rank is one more than the number of rows of the partition ordered before.
Ranked(records, registry) ==
    LET T    == Model(HoldsAt(records, q.as_of, ValidAt), registry)
        sols == Solutions(T, q.where)
        Ahead(s, w) == {x \in sols : /\ \A p \in w.part : x[p] = s[p]
                                     /\ IF w.asc THEN value_lt(x[w.by], s[w.by])
                                        ELSE value_lt(s[w.by], x[w.by])}
        Cell(s, i) == IF q.find[i].k = "var" THEN s[q.find[i].v]
                      ELSE Num(Cardinality(Ahead(s, q.find[i])) + 1)
    IN  {[i \in DOMAIN q.find |-> Cell(s, i)] : s \in sols}

Meaning(records, registry) ==
    IF UsesPerFact(q.where) THEN FactAnswers(records)
    ELSE IF HasWin(q.find) THEN Ranked(records, registry)
    ELSE IF HasAgg(q.find) THEN Aggregated(records, registry)
    ELSE Answers(records, registry)

Answer == {[i \in DOMAIN q.find |-> Norm(r[i])] : r \in Range(ans.rows)}

-----------------------------------------------------------------------------
\* Where the engine and the meaning are known to part; the properties below
\* hold outside these cases.

PlanVars(body) ==
    UNION {outer_vars_from_clause(c) : c \in {x \in Range(body) : x.k \in {"pat", "call", "expr"}}}

PatternVarsOf(body) ==
    UNION {outer_vars_from_clause(c) : c \in {x \in Range(body) : x.k \in {"pat", "call"}}}

\* A branch that does not look outside itself.
SelfContained(b) ==
    /\ check_expr_safety(b, {}).ok
    /\ check_not_safety(b, OuterVars(b))
    /\ check_not_join_safety(b, OuterVars(b))

\* not_body_matches drops the calls of a negation inside a branch.
NegatesCall(branch) ==
    \E c \in Range(branch) : c.k = "not" /\ \E d \in Range(c.body) : d.k = "call"

\* evaluate_not_join has neither metadata nor :valid-at.
NegatesPseudo(c) == \E d \in Range(c.body) : d.k = "pat" /\ d.p.a[1] = "pseudo"

\* Disjunctions join on a variable, through self-contained branches (or from
\* seeded ones) that are regular themselves; expressions see only pattern
\* variables and define fresh ones.
RECURSIVE Regular(_)
Regular(body) ==
    \A c \in Range(body) :
        /\ IsOr(c) => \A b \in Range(c.brs) : Regular(b) /\ ~NegatesCall(b)
        /\ CASE c.k = "or" ->
                    \/ \E b \in Range(c.brs) : HasNegation(b)
                    \/ /\ \A b \in Range(c.brs) : SelfContained(b)
                       /\ PlanVars(body) = {} \/ PlanVars(body) \cap outer_vars_from_clause(c) # {}
             [] c.k = "orjoin"  -> \A b \in Range(c.brs) : SelfContained(b)
             [] c.k = "expr"    -> /\ expr_vars(c.x) \subseteq PlanVars(body)
                                   /\ c.out \cap PatternVarsOf(body) = {}
             [] c.k = "notjoin" -> ~NegatesPseudo(c)
             [] OTHER           -> TRUE

HasOr(body) == \E c \in Range(body) : IsOr(c)

\* b is reached from a along one edge or more.
Reaches(edges, a, b) ==
    LET Step(S) == S \cup {e[2] : e \in {x \in edges : x[1] \in S}}
        Iter[k \in 0..4] == IF k = 0 THEN {e[2] : e \in {x \in edges : x[1] = a}}
                            ELSE Step(Iter[k - 1])
    IN  b \in Iter[4]

\* The rules the query depends on.
Relevant(registry) ==
    LET edges == from_rules(registry)
        roots == rule_invocations(q.where)
    IN  {r \in Range(registry) : r.pred \in roots \/ \E p \in roots : Reaches(edges, p, r.pred)}

\* No rule of a stratum calls the head of a mixed rule of that stratum.
MixedLast(registry) ==
    LET st == stratify(registry).strata
    IN  \A r, s \in Relevant(registry) :
            IsMixed(r) /\ st[r.pred] = st[s.pred] => r.pred \notin rule_invocations(s.body)

\* Demand reaches every call of a rewritten predicate through its first
\* argument.
Demanded(body, registry) ==
    \A ads \in propagate_adornments(BoundOnly(compute_query_adornments(body)), registry) :
        LET Calls(b) == {i \in DOMAIN b : b[i].k = "call" /\ b[i].pred \in DOMAIN ads}
            Nested(b) == UNION {rule_invocations(<<c>>) : c \in {x \in Range(b) : x.k # "call"}}
        IN  /\ \A p \in DOMAIN ads : ads[p] \in {<<TRUE>>, <<TRUE, FALSE>>}
            /\ Nested(body) \cap DOMAIN ads = {}
            /\ \A i \in Calls(body) : EntityIds(body[i].args[1]) # {}
            /\ \A r \in Relevant(registry) :
                 IF r.pred \in DOMAIN ads /\ ~HasNegation(r.body)
                 THEN /\ Nested(r.body) \cap DOMAIN ads = {}
                      /\ \A i \in Calls(r.body) :
                            r.body[i].args[1] \in {r.args[1]} \cup GroundedBefore(r.body, i)
                 ELSE rule_invocations(r.body) \cap DOMAIN ads = {}

RulesSound(registry) ==
    \/ ~UsesRules
    \/ /\ \A r \in Relevant(registry) : Regular(r.body)
       /\ \A x \in rewrite(q.where, registry) :
             IF x.on THEN MixedLast(x.reg) /\ Demanded(q.where, registry)
             ELSE MixedLast(registry)

\* Branch results are joined by representation, so keywords must not meet
\* references in a query or rule that has a disjunction.
OneRepresentation ==
    \/ \A f \in log : f.v[1] # "kw"
    \/ ~HasOr(q.where) /\ \A r \in Relevant(reg) : ~HasOr(r.body)

\* The streamed aggregate counts windows, so no triple may stand in two.
OneWindow ==
    ~UsesRules /\ owned_attribute_aggregate =>
        \A f, g \in {x \in log : Standing(log, x, q.as_of)} :
            f.e = g.e /\ f.a = g.a /\ f.v = g.v
              /\ (ValidAt[1] = "any" \/ (Covers(f, ValidAt[2]) /\ Covers(g, ValidAt[2]))) => f = g

Sound == Regular(q.where) /\ RulesSound(reg) /\ OneRepresentation /\ OneWindow

Quiet == phase = "done" /\ reg = reg0

Prefix(n) == {f \in log : f.tc <= n}

FirstTx == LET tcs == {f.tc : f \in log0} IN IF tcs = {} THEN 0 ELSE LargestOf(tcs)

-----------------------------------------------------------------------------

\* Every answer execute_query and execute_query_with_rules return is the
\* meaning of the query over the log after some transaction between its start
\* and its end, when the access plan needs one lookup or nothing is committed
\* meanwhile: planning, hash joins, exclusion sets, the fast path of or, magic
\* sets, stratification and the streamed aggregate change how it is computed,
\* never what, in the native and in the wasm build, and a limit refuses an
\* answer but never shortens it.  A query within its limits is refused only
\* for a per-fact pseudo attribute without :any-valid-time or an or-join whose
\* scope is empty (apply_or_clauses).
AnswerIsMeaning ==
    Quiet /\ Sound =>
        IF ans.err
        THEN q.max < 50 \/ q.iterations < 50 \/ Rejected \/ \E c \in Range(q.where) : c.k = "orjoin"
        ELSE log = log0 \/ Cardinality(Lookups) = 1 =>
                 \E n \in FirstTx..LastTx : Answer = Meaning(Prefix(n), reg)

\* Some predicate depends on its own negation.
NegativeCycle(registry) ==
    LET edges == from_rules(registry)
    IN  \E e \in edges : e[3] /\ (e[2] = e[1] \/ Reaches(edges, e[2], e[1]))

\* register_rule accepts a rule exactly when no predicate then depends on its
\* own negation, and a refused rule leaves the registry as it was.
RegisterExact ==
    [][\A r \in RulePool : RegisterRule(r) => (reg' = reg <=> NegativeCycle(Append(reg, r)))]_vars

Monotone(registry) ==
    \A r \in Range(registry) : \A c \in Range(r.body) : c.k \in {"pat", "call"}

\* Rules registered while a query without negation runs can only add answers:
\* the answer lies between those of the registry at its start and at its end,
\* although evaluate reads the registry again for every stratum.
BetweenRegistries ==
    phase = "done" /\ ~ans.err /\ reg # reg0 /\ UsesRules /\ log = log0
      /\ Monotone(reg) /\ (\A c \in Range(q.where) : c.k \in {"pat", "call"})
      /\ ~rw.on =>
        Answers(log, reg0) \subseteq Answer /\ Answer \subseteq Answers(log, reg)
=============================================================================
