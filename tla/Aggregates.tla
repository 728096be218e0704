----------------------------- MODULE Aggregates ------------------------------
(***************************************************************************)
(* Post-processing of query rows: AggregationSink, the window functions    *)
(* and the projection of executor.rs, with the accumulators of             *)
(* functions.rs.                                                           *)
(*                                                                         *)
(* A find specification is [k |-> "var", v], [k |-> "agg", f, v] or        *)
(* [k |-> "win", f, v, part, by, asc] with v and part sets of at most one  *)
(* variable.  Results are kept under the keys <<"agg", i>> and             *)
(* <<"win", i>>.  A mean is the pair of its sum and its count.             *)
(***************************************************************************)
EXTENDS Clauses

Values(rows, v) == [i \in DOMAIN rows |-> IF v \in DOMAIN rows[i] THEN rows[i][v] ELSE Null]
NonNull(vals) == SelectSeq(vals, LAMBDA x : x # Null)
Ints(vals) == SelectSeq(vals, LAMBDA x : x[1] = "int")
Total(vals) == FoldLeft(LAMBDA n, x : n + x[2], 0, vals)

value_lt(a, b) == a[1] = "int" /\ b[1] = "int" /\ a[2] < b[2]

\* The first of the values that no other beats.
Best(vals, Beats(_, _)) == FoldLeft(LAMBDA b, x : IF Beats(x, b) THEN x ELSE b, Head(vals), Tail(vals))
Least(vals) == Best(vals, LAMBDA x, b : value_lt(x, b))
Greatest(vals) == Best(vals, LAMBDA x, b : value_lt(b, x))

Mean(vals) == IF Ints(vals) = <<>> THEN Null
              ELSE <<"mean", <<Total(Ints(vals)), Len(Ints(vals))>>>>

\* AggregateAccumulator: [err, some].  sum, min and max refuse other types;
\* min and max of nothing produce no value and the group is skipped.
Accumulate(f, all) ==
    LET Ill(vals) == \E i \in DOMAIN vals : vals[i][1] # "int"
        Of(vals) ==
            CASE f = "count"          -> {<<"int", Len(vals)>>}
              [] f = "count-distinct" -> {<<"int", Cardinality(Range(vals))>>}
              [] f = "sum"            -> {<<"int", Total(Ints(vals))>>}
              [] f = "sum-distinct"   -> {<<"int", Total(Ints(Listed(Range(vals))))>>}
              [] f = "min"            -> IF vals = <<>> THEN {} ELSE {Least(vals)}
              [] f = "max"            -> IF vals = <<>> THEN {} ELSE {Greatest(vals)}
              [] f = "avg"            -> {Mean(vals)}
        Checked(vals) == IF f \in {"sum", "sum-distinct", "min", "max"} /\ Ill(vals)
                         THEN [err |-> TRUE, some |-> {}] ELSE [err |-> FALSE, some |-> Of(vals)]
    IN  Checked(NonNull(all))

IsAgg(s) == s.k = "agg"
IsWin(s) == s.k = "win"
HasAgg(find) == \E i \in DOMAIN find : IsAgg(find[i])
HasWin(find) == \E i \in DOMAIN find : IsWin(find[i])

FindVars(find) == {find[i].v : i \in {x \in DOMAIN find : find[x].k = "var"}}

\* :with variables split the groups, except when the query has windows.
GroupVars(find, with) == FindVars(find) \cup (IF HasWin(find) THEN {} ELSE with)

GroupKey(b, vars) == [v \in vars |-> IF v \in DOMAIN b THEN b[v] ELSE Null]

CountsOnly(find) ==
    \A i \in DOMAIN find : IsAgg(find[i]) /\ find[i].f \in {"count", "count-distinct"}

\* AggregationSink: one row per group; no rows at all count as zero.
compute_aggregation(rows, find, with) ==
    LET vars  == GroupVars(find, with)
        keys  == Listed({GroupKey(rows[i], vars) : i \in DOMAIN rows})
        aggs  == {i \in DOMAIN find : IsAgg(find[i])}
        Group(k) == SelectSeq(rows, LAMBDA b : GroupKey(b, vars) = k)
        Cell(k, i) == Accumulate(find[i].f, Values(Group(k), find[i].v))
        Row(k) == [x \in FindVars(find) \cup {<<"agg", i>> : i \in aggs} |->
                      IF x \in FindVars(find) THEN k[x]
                      ELSE CHOOSE v \in Cell(k, x[2]).some : TRUE]
        Rows(full) == [j \in DOMAIN full |-> Row(full[j])]
    IN  IF rows = <<>>
        THEN Found(IF CountsOnly(find)
                   THEN << [x \in {<<"agg", i>> : i \in DOMAIN find} |-> <<"int", 0>>] >>
                   ELSE <<>>)
        ELSE IF \E k \in Range(keys), i \in aggs : Cell(k, i).err THEN Refused
        ELSE Found(Rows(SelectSeq(keys, LAMBDA k : \A i \in aggs : Cell(k, i).some # {})))

-----------------------------------------------------------------------------
\* Windows.

\* The running accumulators of functions.rs skip what they cannot use.
Running(f, vals) ==
    LET seen == NonNull(vals)
    IN  CASE f = "count" -> <<"int", Len(seen)>>
          [] f = "sum"   -> <<"int", Total(Ints(seen))>>
          [] f = "min"   -> IF seen = <<>> THEN Null ELSE Least(seen)
          [] f = "max"   -> IF seen = <<>> THEN Null ELSE Greatest(seen)
          [] f = "avg"   -> Mean(seen)

Partition(b, s) == {b[p] : p \in s.part \cap DOMAIN b}

SortKey(b, s) == IF s.by \in DOMAIN b THEN b[s.by] ELSE Null

\* Is row i before row j?  The sort is stable and descending reverses only
\* the comparison.
Before(rows, s, i, j) ==
    LET a == SortKey(rows[i], s)
        b == SortKey(rows[j], s)
        less == IF s.asc THEN value_lt(a, b) ELSE value_lt(b, a)
        more == IF s.asc THEN value_lt(b, a) ELSE value_lt(a, b)
    IN  less \/ (~more /\ i < j)

WindowOrder(rows, s, i) ==
    SortSeq(Listed({j \in DOMAIN rows : Partition(rows[j], s) = Partition(rows[i], s)}),
            LAMBDA j, k : Before(rows, s, j, k))

WindowValue(rows, s, i) ==
    LET order == WindowOrder(rows, s, i)
        pos   == CHOOSE p \in DOMAIN order : order[p] = i
        Key(p) == SortKey(rows[order[p]], s)
        first == CHOOSE p \in 1..pos : /\ \A q \in p..pos : Key(q) = Key(pos)
                                       /\ p = 1 \/ Key(p - 1) # Key(pos)
        upto  == [p \in 1..pos |-> IF s.v = {} THEN Null
                                   ELSE Values(rows, CHOOSE v \in s.v : TRUE)[order[p]]]
    IN  CASE s.f = "row-number" -> <<"int", pos>>
          [] s.f = "rank"       -> <<"int", first>>
          [] OTHER              -> Running(s.f, upto)

apply_window_functions(rows, find) ==
    LET wins == {i \in DOMAIN find : IsWin(find[i])}
    IN  [r \in DOMAIN rows |->
            [x \in {<<"win", i>> : i \in wins} |-> WindowValue(rows, find[x[2]], r)] @@ rows[r]]

-----------------------------------------------------------------------------

SpecKey(find, i) == IF find[i].k = "var" THEN find[i].v ELSE <<find[i].k, i>>

\* A row that lacks a column is left out.
project_find_specs(rows, find) ==
    LET Columns(full) == [r \in DOMAIN full |-> [i \in DOMAIN find |-> full[r][SpecKey(find, i)]]]
    IN  Columns(SelectSeq(rows, LAMBDA b : \A i \in DOMAIN find : SpecKey(find, i) \in DOMAIN b))

apply_post_processing(rows, find, with, max) ==
    LET Projected(work) == IF Len(work) > max THEN Refused ELSE Found(project_find_specs(work, find))
        Windowed(agg) ==
            IF agg.err THEN Refused
            ELSE Projected(IF HasWin(find) THEN apply_window_functions(agg.rows, find) ELSE agg.rows)
    IN  Windowed(IF HasAgg(find) THEN compute_aggregation(rows, find, with) ELSE Found(rows))
=============================================================================
