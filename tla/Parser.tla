-------------------------------- MODULE Parser --------------------------------
(***************************************************************************)
(* From the text of a command to the command: src/query/datalog/parser.rs, *)
(* and the end-of-command test of src/repl.rs.                             *)
(*                                                                         *)
(* A text is a sequence of lexemes: <<"open", b>> and <<"close", b>> for a *)
(* bracket of kind b ("list", "vec" or "map"), <<"note", d>> for a comment *)
(* with d more opening than closing parentheses in it, or an atom.  Atoms  *)
(* are <<"kw", x>>, <<"sym", x>>, <<"?", x>>, <<"?_", x>>, <<"_", "_">>,   *)
(* <<"int", n>>, <<"bool", b>>, <<"null", 0>>, <<"uuid", u>>, <<"slot", x>>*)
(* and the strings <<"str", x>> and <<"time", t>>, the latter one that     *)
(* reads as a timestamp.  A form is an atom or <<b, sequence of forms>>.   *)
(*                                                                         *)
(* A parse that may fail returns a set: empty for an error.                *)
(***************************************************************************)
EXTENDS Aggregates

\* Apply a parse to every element; one error fails them all.
ParseEach(Parse(_), s) ==
    IF \A i \in DOMAIN s : Parse(s[i]) # {}
    THEN {[i \in DOMAIN s |-> CHOOSE r \in Parse(s[i]) : TRUE]} ELSE {}

tokenize(text) == SelectSeq(text, LAMBDA t : t[1] # "note")

RECURSIVE parse_value(_, _), ParseItems(_, _, _, _)

\* The form that starts at lexeme i, and the place after it.
parse_value(ts, i) ==
    IF i > Len(ts) \/ ts[i][1] = "close" THEN {}
    ELSE IF ts[i][1] = "open" THEN ParseItems(ts, i + 1, ts[i][2], <<>>)
    ELSE {[form |-> ts[i], next |-> i + 1]}

\* A map takes its keys and values in pairs.
ParseItems(ts, i, kind, done) ==
    IF i > Len(ts) THEN {}
    ELSE IF ts[i] = <<"close", kind>>
    THEN IF kind = "map" /\ Len(done) % 2 = 1 THEN {}
         ELSE {[form |-> <<kind, done>>, next |-> i + 1]}
    ELSE UNION {ParseItems(ts, r.next, kind, Append(done, r.form)) : r \in parse_value(ts, i)}

\* What follows the first form is ignored.
parse_edn(text) == {r.form : r \in parse_value(tokenize(text), 1)}

\* repl.rs: parentheses only, those of comments included.
is_command_complete(text) ==
    LET Weight(t) == CASE t = <<"open", "list">>  -> 1
                       [] t = <<"close", "list">> -> -1
                       [] t[1] = "note"           -> t[2]
                       [] OTHER                   -> 0
    IN  /\ FoldLeft(LAMBDA n, t : n + Weight(t), 0, text) = 0
        /\ \E i \in DOMAIN text : Weight(text[i]) > 0

-----------------------------------------------------------------------------
\* Where clauses.

IsSymbol(f) == f[1] \in {"sym", "?", "?_", "_"}
IsString(f) == f[1] \in {"str", "time"}
Headed(f, name) == f[1] = "list" /\ f[2] # <<>> /\ f[2][1] = <<"sym", name>>

PseudoAttrs == ("db/valid-from" :> "vf") @@ ("db/valid-to" :> "vt") @@ ("db/tx-count" :> "tc")
               @@ ("db/tx-id" :> "id") @@ ("db/valid-at" :> "at")
IsPseudo(f) == f[1] = "kw" /\ f[2] \in DOMAIN PseudoAttrs

parse_query_pattern(v) ==
    IF Len(v) # 3 \/ IsPseudo(v[1]) \/ IsPseudo(v[3]) THEN {}
    ELSE {[k |-> "pat",
           p |-> [e |-> v[1], v |-> v[3],
                  a |-> IF IsPseudo(v[2]) THEN <<"pseudo", PseudoAttrs[v[2][2]]>> ELSE v[2]]]}

BinaryOps == {"<", ">", "<=", ">=", "=", "!=", "+", "-", "*", "/",
              "starts-with?", "ends-with?", "contains?", "matches?"}

RECURSIVE parse_expr_arg(_), parse_expr(_)

parse_expr_arg(f) ==
    CASE IsVariable(f)  -> {[op |-> "var", args |-> <<f>>]}
      [] f[1] = "list"  -> parse_expr(f[2])
      [] f[1] = "slot"  -> {[op |-> "slot", args |-> <<f>>]}
      [] IsString(f) \/ f[1] \in {"int", "bool", "null", "kw"} -> {[op |-> "lit", args |-> <<f>>]}
      [] OTHER          -> {}

\* A name that is no operator is a predicate the caller may have registered.
parse_expr(s) ==
    LET arity == IF s[1][2] \in BinaryOps THEN 2 ELSE 1
    IN  IF s = <<>> \/ ~IsSymbol(s[1]) \/ Len(s) # arity + 1
           \/ (s[1][2] = "matches?" /\ ~IsString(s[3])) THEN {}
        ELSE {[op |-> s[1][2], args |-> as] : as \in ParseEach(parse_expr_arg, Tail(s))}

parse_expr_clause(v) ==
    IF Len(v) > 2 \/ (Len(v) = 2 /\ ~IsVariable(v[2])) THEN {}
    ELSE {[k |-> "expr", x |-> x, out |-> Range(Tail(v))] : x \in parse_expr(v[1][2])}

RECURSIVE parse_list_as_where_clause(_, _), WhereItem(_, _), parse_or_branch(_)

\* A negation's body holds neither negations nor disjunctions.
WhereItem(f, outer) ==
    CASE f[1] = "vec"  -> IF f[2] # <<>> /\ f[2][1][1] = "list" THEN parse_expr_clause(f[2])
                          ELSE parse_query_pattern(f[2])
      [] f[1] = "list" -> IF ~outer /\ (Headed(f, "or") \/ Headed(f, "or-join")) THEN {}
                          ELSE parse_list_as_where_clause(f, outer)
      [] OTHER         -> {}

parse_or_branch(f) ==
    LET items == IF Headed(f, "and") THEN Tail(f[2]) ELSE <<f>>
    IN  IF items = <<>> THEN {} ELSE ParseEach(LAMBDA x : WhereItem(x, TRUE), items)

parse_list_as_where_clause(f, allow_not) ==
    LET s      == f[2]
        joined == Headed(f, "not-join") \/ Headed(f, "or-join")
        vars   == IF joined /\ Len(s) >= 3 /\ s[2][1] = "vec"
                     /\ \A i \in DOMAIN s[2][2] : IsVariable(s[2][2][i])
                  THEN {Range(s[2][2])} ELSE {}
        rest   == SubSeq(s, IF joined THEN 3 ELSE 2, Len(s))
        inner  == ParseEach(LAMBDA x : WhereItem(x, FALSE), rest)
        brs    == ParseEach(parse_or_branch, rest)
    IN  CASE s = <<>> \/ ~IsSymbol(s[1]) -> {}
          [] Headed(f, "not")      -> {[k |-> "not", body |-> b]
                                          : b \in {x \in inner : allow_not /\ rest # <<>>}}
          [] Headed(f, "not-join") -> {[k |-> "notjoin", vars |-> v, body |-> b]
                                          : v \in vars, b \in {x \in inner : allow_not}}
          [] Headed(f, "or")       -> {[k |-> "or", brs |-> b] : b \in {x \in brs : rest # <<>>}}
          [] Headed(f, "or-join")  -> {[k |-> "orjoin", vars |-> v, brs |-> b] : v \in vars, b \in brs}
          [] OTHER                 -> {[k |-> "call", pred |-> s[1][2], args |-> rest]}

ParseBody(items) == ParseEach(LAMBDA x : WhereItem(x, TRUE), items)

Safe(body, head) ==
    LET outer == OuterVars(body) \cup head
    IN  /\ check_not_safety(body, outer)
        /\ check_not_join_safety(body, outer)
        /\ check_expr_safety(body, {}).ok

-----------------------------------------------------------------------------
\* Find specifications.

\* The options of :over, in any order, the last of a kind winning.
OverOption(o, f) ==
    CASE o.want # ""               -> IF IsVariable(f) THEN [o EXCEPT ![o.want] = {f}, !.want = ""]
                                      ELSE [o EXCEPT !.ok = FALSE]
      [] f = <<"kw", "partition-by">> -> [o EXCEPT !.want = "part"]
      [] f = <<"kw", "order-by">>     -> [o EXCEPT !.want = "by"]
      [] f = <<"kw", "desc">>         -> [o EXCEPT !.asc = FALSE]
      [] f = <<"kw", "asc">>          -> [o EXCEPT !.asc = TRUE]
      [] OTHER                        -> [o EXCEPT !.ok = FALSE]

parse_window_expr(s) ==
    LET bare == s[1][2] \in {"rank", "row-number"}
        at   == IF bare THEN 2 ELSE 3
        none == [ok |-> TRUE, want |-> "", part |-> {}, by |-> {}, asc |-> TRUE]
        Over(o) ==
            IF ~o.ok \/ o.want # "" \/ o.by = {} THEN {}
            ELSE {[k |-> "win", f |-> s[1][2], v |-> IF bare THEN {} ELSE {s[2]}, part |-> o.part,
                   by |-> (CHOOSE b \in o.by : TRUE), asc |-> o.asc]}
    IN  IF \/ ~IsSymbol(s[1])
           \/ s[1][2] \in {"lag", "lead", "count-distinct", "sum-distinct"}
           \/ Len(s) # at + 1 \/ s[at] # <<"kw", "over">> \/ s[at + 1][1] # "list"
           \/ ~bare /\ ~IsVariable(s[2])
        THEN {} ELSE Over(FoldLeft(OverOption, none, s[at + 1][2]))

parse_aggregate(s) ==
    IF \E i \in DOMAIN s : s[i] = <<"kw", "over">> THEN parse_window_expr(s)
    ELSE IF Len(s) # 2 \/ ~IsSymbol(s[1]) \/ ~IsVariable(s[2])
            \/ s[1][2] \in {"avg", "rank", "row-number"} THEN {}
    ELSE {[k |-> "agg", f |-> s[1][2], v |-> s[2]]}

FindItem(f) == CASE IsVariable(f)  -> {[k |-> "var", v |-> f]}
                 [] f[1] = "list"  -> parse_aggregate(f[2])
                 [] OTHER          -> {}

-----------------------------------------------------------------------------
\* Queries and rules.

NoLimit == 99

\* Read one item.  want names the keyword whose value comes next, with says
\* that variables go to :with, clause is the keyword that owns other items.
QueryOption(q, f) ==
    LET Give(field, values) == IF values = {} THEN [q EXCEPT !.ok = FALSE]
                               ELSE [q EXCEPT ![field] = values, !.want = ""]
        Limit == {n \in {f[2]} : f[1] = "int" /\ f[2] >= 1}
    IN  CASE q.want = "as_of"    ->
                 Give("as_of", CASE f[1] = "int"  -> {<<"count", n>> : n \in {f[2]} \cap Nat}
                                 [] f[1] \in {"time", "slot"} -> {f}
                                 [] OTHER         -> {})
          [] q.want = "valid_at" ->
                 Give("valid_at", CASE f[1] = "time" -> {<<"at", f[2]>>}
                                    [] f = <<"kw", "any-valid-time">> -> {<<"any", 0>>}
                                    [] f[1] = "slot" -> {f}
                                    [] OTHER         -> {})
          [] OTHER -> Give(q.want, Limit)

QueryKeyword(q, k) ==
    LET Want(field) == [q EXCEPT !.want = field, !.with = FALSE]
        Once(field) == IF q[field] # {} THEN [q EXCEPT !.ok = FALSE] ELSE Want(field)
    IN  CASE k = "as-of"             -> Want("as_of")
          [] k = "valid-at"          -> Want("valid_at")
          [] k = "any-valid-time"    -> [q EXCEPT !.valid_at = {<<"any", 0>>}, !.with = FALSE]
          [] k = "max-derived-facts" -> Once("derived")
          [] k = "max-results"       -> Once("max")
          [] k = "with"              -> [q EXCEPT !.with = TRUE]
          [] OTHER                   -> [q EXCEPT !.clause = k, !.with = FALSE]

QueryItem(q, f) ==
    LET Add(field, xs) == IF xs = {} THEN [q EXCEPT !.ok = FALSE]
                          ELSE [q EXCEPT ![field] = Append(@, CHOOSE x \in xs : TRUE)]
    IN  CASE ~q.ok              -> q
          [] q.want # ""        -> QueryOption(q, f)
          [] f[1] = "kw"        -> QueryKeyword(q, f[2])
          [] q.with             -> Add("withs", {x \in {f} : IsVariable(x)})
          [] q.clause = "find"  -> Add("find", FindItem(f))
          [] q.clause = "where" -> Add("where", WhereItem(f, TRUE))
          [] OTHER              -> [q EXCEPT !.ok = FALSE]

Given(S, default) == IF S = {} THEN default ELSE CHOOSE x \in S : TRUE

\* Aggregate and :with variables must be bound; plain find variables need not.
parse_query(elements) ==
    LET start == [ok |-> TRUE, want |-> "", with |-> FALSE, clause |-> "", find |-> <<>>,
                  withs |-> <<>>, where |-> <<>>, as_of |-> {}, valid_at |-> {},
                  max |-> {}, derived |-> {}]
        Refuses(q, bound) ==
           \/ ~q.ok \/ q.want # ""
           \/ ~Safe(q.where, {})
           \/ \E i \in DOMAIN q.find : IsAgg(q.find[i]) /\ q.find[i].v \notin bound
           \/ ~(Range(q.withs) \subseteq bound)
           \/ q.withs # <<>> /\ ~HasAgg(q.find)
        Query(q) ==
            IF Refuses(q, OuterVars(q.where)) THEN {}
            ELSE {[find |-> q.find, with |-> Range(q.withs), where |-> q.where,
                   as_of |-> Given(q.as_of, <<"none", 0>>), valid_at |-> Given(q.valid_at, <<"now", 0>>),
                   max |-> Given(q.max, NoLimit), derived |-> Given(q.derived, NoLimit)]}
    IN  IF elements = <<>> \/ elements[1][1] # "vec" THEN {}
        ELSE Query(FoldLeft(QueryItem, start, elements[1][2]))

parse_rule(elements) ==
    LET v    == elements[1][2]
        head == v[1][2]
    IN  IF elements = <<>> \/ elements[1][1] # "vec" \/ Len(v) < 2
           \/ v[1][1] # "list" \/ head = <<>> \/ ~IsSymbol(head[1]) THEN {}
        ELSE {[pred |-> head[1][2], args |-> Tail(head), body |-> b]
                : b \in {x \in ParseBody(Tail(v)) : Safe(x, {a \in Range(Tail(head)) : IsVariable(a)})}}

-----------------------------------------------------------------------------
\* Transactions, retractions and forgetting.

\* The value of key in a map, a set of at most one; the last one counts.
MapValue(m, key) ==
    LET at == {i \in DOMAIN m : i % 2 = 1 /\ m[i] = <<"kw", key>>}
    IN  IF at = {} THEN {} ELSE {m[Max(at) + 1][2]}

parse_valid_time_map(m) ==
    IF \A i \in DOMAIN m : IF i % 2 = 1 THEN m[i] \in {<<"kw", "valid-from">>, <<"kw", "valid-to">>}
                           ELSE m[i][1] = "time"
    THEN {[from |-> MapValue(m, "valid-from"), to |-> MapValue(m, "valid-to")]} ELSE {}

NoOptions == [from |-> {}, to |-> {}]

\* A leading map of options, and the element it applies to.
Options(elements) ==
    IF elements = <<>> THEN {}
    ELSE IF elements[1][1] # "map" THEN {[o |-> NoOptions, of |-> elements[1]]}
    ELSE IF Len(elements) = 1 THEN {}
    ELSE {[o |-> o, of |-> elements[2]] : o \in parse_valid_time_map(elements[1][2])}

Or(mine, default) == IF mine = {} THEN default ELSE mine

\* A fact's own options come before the transaction's.
ParseFact(f, o) ==
    IF f[1] # "vec" \/ Len(f[2]) < 3 \/ (Len(f[2]) >= 4 /\ f[2][4][1] # "map") THEN {}
    ELSE {[e |-> f[2][1], a |-> f[2][2], v |-> f[2][3],
           from |-> Or(own.from, o.from), to |-> Or(own.to, o.to)]
            : own \in IF Len(f[2]) >= 4 THEN parse_valid_time_map(f[2][4][2]) ELSE {NoOptions}}

parse_transaction_elements(elements) ==
    UNION {IF x.of[1] # "vec" THEN {}
           ELSE {[facts |-> fs, from |-> x.o.from, to |-> x.o.to]
                   : fs \in ParseEach(LAMBDA f : ParseFact(f, x.o), x.of[2])}
             : x \in Options(elements)}

ForgetQuery(q) ==
    /\ q.as_of[1] = "none" /\ q.valid_at[1] = "now"
    /\ Len(q.find) = 3 /\ \A i \in 1..3 : q.find[i].k = "var"

\* A query, or a vector of triples: never with windows, which are discovered.
parse_forget(elements) ==
    LET Source(f) ==
            IF f[1] # "vec" THEN {}
            ELSE IF f[2] # <<>> /\ f[2][1] = <<"kw", "find">>
            THEN {[query |-> {q}, facts |-> <<>>] : q \in {x \in parse_query(<<f>>) : ForgetQuery(x)}}
            ELSE {[query |-> {}, facts |-> fs]
                    : fs \in ParseEach(LAMBDA x : IF x[1] = "vec" /\ Len(x[2]) = 3
                                                  THEN ParseFact(x, NoOptions) ELSE {}, f[2])}
    IN  UNION {IF elements[1][1] = "map" /\ (x.o.from # {} \/ x.o.to = {}) THEN {}
               ELSE {[source |-> s, to |-> x.o.to] : s \in Source(x.of)}
                 : x \in Options(elements)}

\* The command of a text: [cmd, of].
parse_datalog_command(text) ==
    UNION {IF f[1] # "list" \/ f[2] = <<>> THEN {}
           ELSE LET name == f[2][1]
                    rest == Tail(f[2])
                    As(cmd, parsed) == {[cmd |-> cmd, of |-> x] : x \in parsed}
                IN  CASE name = <<"sym", "query">>    -> As("query", parse_query(rest))
                      [] name = <<"sym", "transact">> -> As("transact", parse_transaction_elements(rest))
                      [] name = <<"sym", "retract">>  -> As("retract", parse_transaction_elements(rest))
                      [] name = <<"sym", "forget">>   -> As("forget", parse_forget(rest))
                      [] name = <<"sym", "rule">>     -> As("rule", parse_rule(rest))
                      [] OTHER                        -> {}
             : f \in parse_edn(text)}
=============================================================================
