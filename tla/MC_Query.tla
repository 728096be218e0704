------------------------------- MODULE MC_Query -------------------------------
(***************************************************************************)
(* Small instances of QueryExec: three entities, an edge attribute whose   *)
(* targets are references or keywords, a number attribute, and queries and *)
(* rules that use every kind of clause.                                    *)
(***************************************************************************)
EXTENDS QueryMeaning

V(x) == <<"?", x>>
Ent(x) == <<"kw", x>>
Pat(e, a, v) == [k |-> "pat", p |-> [e |-> e, a |-> <<"kw", a>>, v |-> v]]
Pseudo(e, x, v) == [k |-> "pat", p |-> [e |-> e, a |-> <<"pseudo", x>>, v |-> v]]
Call(p, args) == [k |-> "call", pred |-> p, args |-> args]
Expr(op, l, r) == [k |-> "expr", out |-> {},
                   x |-> [op |-> op, args |-> <<[op |-> "var", args |-> <<l>>], r>>]]
Lit(n) == [op |-> "lit", args |-> <<Num(n)>>]
Bind(op, l, r, out) == [Expr(op, l, r) EXCEPT !.out = {out}]
Not(body) == [k |-> "not", body |-> body]
NotJoin(vs, body) == [k |-> "notjoin", vars |-> vs, body |-> body]
Or(brs) == [k |-> "or", brs |-> brs]
OrJoin(vs, brs) == [k |-> "orjoin", vars |-> vs, brs |-> brs]
Find(v) == [k |-> "var", v |-> v]
Agg(f, v) == [k |-> "agg", f |-> f, v |-> v]

Q(find, where) == [find |-> find, with |-> {}, where |-> where, as_of |-> <<"none", 0>>,
                   valid_at |-> <<"now", 0>>, max |-> 99, derived |-> 99,
                   iterations |-> 99]

x == V("x")
y == V("y")
z == V("z")
n == V("n")

Fact(e, a, v) == [e |-> e, a |-> a, v |-> v, vf |-> 0, vt |-> Forever, on |-> TRUE]
Edge(e, t) == Fact(e, "to", <<"ref", t>>)
Size(e, i) == Fact(e, "n", Num(i))

\* The second record ended before the queries' Now.
Candidates == {Edge("a", "b"), [Edge("a", "b") EXCEPT !.vt = 3], Edge("b", "c"),
               Fact("a", "to", <<"kw", "c">>), Size("b", 1), Size("c", 2)}

MCLogs == {S \in SUBSET Candidates : Cardinality(S) >= 5}

MCBatches == {{Edge("c", "a"), Size("a", 1)},
              {[Edge("a", "b") EXCEPT !.on = FALSE, !.vf = AllFrom]}}

Reach1 == [pred |-> "reach", args |-> <<x, y>>, body |-> <<Pat(x, "to", y)>>]
Reach2 == [pred |-> "reach", args |-> <<x, y>>,
           body |-> <<Pat(x, "to", z), Call("reach", <<z, y>>)>>]
Sized == [pred |-> "sized", args |-> <<x>>, body |-> <<Pat(x, "n", <<"_", "_">>)>>]
Leaf == [pred |-> "leaf", args |-> <<x>>,
         body |-> <<Pat(x, "n", n), NotJoin({x}, <<Call("reach", <<x, y>>)>>)>>]
Either == [pred |-> "either", args |-> <<x>>,
           body |-> <<Or(<< <<Pat(x, "n", Num(1))>>, <<Pat(x, "to", Ent("c"))>> >>)>>]
Far1 == [pred |-> "far", args |-> <<x>>,
         body |-> <<Call("reach", <<x, y>>), Call("sized", <<y>>)>>]
Far2 == [pred |-> "far", args |-> <<x>>, body |-> <<Pat(x, "n", Num(2))>>]
Loop == [pred |-> "sized", args |-> <<x>>,
         body |-> <<Pat(x, "n", n), Not(<<Call("leaf", <<x>>)>>)>>]
LeafOf == [pred |-> "leaf", args |-> <<x>>,
           body |-> <<Pat(x, "n", n), Not(<<Call("sized", <<x>>)>>)>>]

MCRulePool == {Sized, Loop, LeafOf, Reach2}
MCRegistries == {<<Reach1, Reach2, Leaf, Either>>, <<Reach1, LeafOf, Either, Leaf>>,
                 <<Reach1, Sized, Far1, Far2>>}

Joins ==
    { Q(<<Find(x), Find(n)>>, <<Pat(x, "to", y), Pat(y, "n", n)>>),
      Q(<<Find(x)>>, <<Pat(x, "n", n), Pat(y, "to", x), Expr(">", n, Lit(1))>>),
      Q(<<Find(x), Find(z)>>, <<Pat(x, "n", n), Bind("+", n, Lit(1), z)>>),
      Q(<<Find(y)>>, <<Pat(Ent("a"), "to", y), Pat(y, "to", z)>>),
      Q(<<Find(y), Find(n)>>, <<Pat(Ent("a"), "to", y), Pat(y, "n", n), Pat(x, "to", y)>>),
      [Q(<<Find(x), Find(y)>>, <<Pat(x, "to", y)>>) EXCEPT !.max = 1],
      [Q(<<Find(x), Find(y)>>, <<Pat(x, "to", y)>>) EXCEPT !.as_of = <<"count", 1>>],
      [Q(<<Find(x), Find(z)>>, <<Pat(x, "to", y), Pseudo(x, "vt", z)>>) EXCEPT !.valid_at = <<"any", 0>>],
      Q(<<Find(x)>>, <<Pat(x, "to", y), Pseudo(x, "vt", z)>>) }

NegationQueries ==
    { Q(<<Find(x)>>, <<Pat(x, "to", y), Not(<<Pat(y, "n", Num(1))>>)>>),
      Q(<<Find(x)>>, <<Pat(x, "to", y), NotJoin({y}, <<Pat(y, "to", z), Pat(z, "n", n)>>)>>),
      Q(<<Find(x)>>, <<Pat(x, "n", n), Not(<<Pat(y, "to", x), Expr(">", n, Lit(1))>>), Pat(y, "to", z)>>),
      Q(<<Find(x)>>, <<Pat(x, "to", y), Not(<<Call("reach", <<y, x>>)>>)>>),
      Q(<<Find(x)>>, <<Call("leaf", <<x>>)>>) }

Disjunctions ==
    { Q(<<Find(x)>>, <<Or(<< <<Pat(x, "n", Num(2))>>, <<Pat(x, "to", Ent("c"))>> >>)>>),
      Q(<<Find(x), Find(y)>>, <<Pat(x, "to", y), Or(<< <<Pat(y, "n", Num(2))>>, <<Pat(x, "to", Ent("c")), Pat(y, "n", n), Expr(">", n, Lit(0))>> >>)>>),
      Q(<<Find(x)>>, <<Pat(x, "to", y), Or(<< <<Pat(y, "n", Num(2))>>, <<Pat(y, "to", z), Not(<<Pat(z, "n", Num(1))>>)>> >>)>>),
      Q(<<Find(y)>>, <<Pat(x, "to", y), OrJoin({y}, << <<Pat(y, "n", n)>>, <<Pat(y, "to", z)>> >>)>>),
      Q(<<Find(x)>>, <<Pat(x, "n", n), Or(<< <<Pat(x, "to", y), Not(<<Call("reach", <<y, x>>)>>)>>, <<Pat(x, "n", Num(2))>> >>)>>),
      Q(<<Find(x)>>, <<Pat(x, "n", n), Call("either", <<x>>)>>) }

Recursions ==
    { Q(<<Find(x), Find(y)>>, <<Call("reach", <<x, y>>)>>),
      [Q(<<Find(x), Find(y)>>, <<Call("reach", <<x, y>>)>>) EXCEPT !.iterations = 2],
      Q(<<Find(y)>>, <<Call("reach", <<Ent("a"), y>>)>>),
      Q(<<Find(x)>>, <<Call("reach", <<x, Ent("c")>>)>>),
      Q(<<Find(x)>>, <<Call("sized", <<x>>), Call("reach", <<x, y>>)>>),
      Q(<<Find(x)>>, <<Call("far", <<x>>)>>) }

Summaries ==
    { Q(<<Agg("count", x)>>, <<Pat(x, "to", y)>>),
      Q(<<Find(x), Agg("sum", n)>>, <<Pat(x, "to", y), Pat(y, "n", n)>>),
      [Q(<<Agg("max", n)>>, <<Pat(x, "n", n)>>) EXCEPT !.with = {x}],
      Q(<<Find(x), [k |-> "win", f |-> "rank", v |-> {}, part |-> {}, by |-> n, asc |-> FALSE]>>,
        <<Pat(x, "n", n)>>) }

MCQueries == Joins \cup NegationQueries \cup Disjunctions \cup Recursions \cup Summaries
=============================================================================
