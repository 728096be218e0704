-------------------------------- MODULE MC_Host --------------------------------
(***************************************************************************)
(* Small instances of Host: two processes, commands over two triples, a    *)
(* shell script with a comment and a command on two lines, one prepared    *)
(* query with a slot in every position that takes one.                     *)
(***************************************************************************)
EXTENDS Host

RECURSIVE Text(_)

\* The lexemes of a form.
Text(f) ==
    IF f[1] \notin {"list", "vec", "map"} THEN <<f>>
    ELSE <<<<"open", f[1]>>>> \o FlattenSeq([i \in DOMAIN f[2] |-> Text(f[2][i])]) \o <<<<"close", f[1]>>>>

List(s) == <<"list", s>>
Vec(s) == <<"vec", s>>
Map(s) == <<"map", s>>
Sym(x) == <<"sym", x>>
Kw(x) == <<"kw", x>>
Var(x) == <<"?", x>>
Num(n) == <<"int", n>>
At(t) == <<"time", t>>
Cmd(name, args) == Text(List(<<Sym(name)>> \o args))

A == <<"uuid", "a">>
B == <<"uuid", "b">>
Of(e, n) == Vec(<<e, Kw("n"), Num(n)>>)
Where(e, a, v) == <<Kw("where"), Vec(<<e, a, v>>)>>

Plain == Cmd("transact", <<Vec(<<Of(A, 1)>>)>>)
\* Two windows of one triple, the second not begun at Noon.
Windows == Cmd("transact", <<Map(<<Kw("valid-from"), At(1)>>),
                             Vec(<<Vec(<<A, Kw("n"), Num(1), Map(<<Kw("valid-to"), At(8)>>)>>),
                                   Vec(<<A, Kw("n"), Num(1), Map(<<Kw("valid-from"), At(6)>>)>>)>>)>>)
Other == Cmd("transact", <<Vec(<<Of(B, 1)>>)>>)
Retract == Cmd("retract", <<Vec(<<Of(A, 1)>>)>>)
RetractWindow == Cmd("retract", <<Map(<<Kw("valid-from"), At(1), Kw("valid-to"), At(8)>>), Vec(<<Of(A, 1)>>)>>)
ForgetBad == Cmd("forget", <<Vec(<<Kw("find"), Var("e"), Kw("n"), Var("v")>> \o Where(Var("e"), Kw("n"), Var("v")))>>)
ForgetFound == Cmd("forget", <<Vec(<<Kw("find"), Var("e"), Var("a"), Var("v")>> \o Where(Var("e"), Var("a"), Var("v")))>>)
ForgetThen == Cmd("forget", <<Map(<<Kw("valid-to"), At(3)>>), Vec(<<Of(A, 1)>>)>>)
Rule == Cmd("rule", <<Vec(<<List(<<Sym("big"), Var("e")>>), Vec(<<Var("e"), Kw("n"), Num(1)>>)>>)>>)
Unclosed == SubSeq(Plain, 1, Len(Plain) - 1)

MCTexts == {Windows, ForgetFound, ForgetThen, ForgetBad}
MCWriteTexts == {Plain, Other, RetractWindow, ForgetFound}

MCScripts == {<<SubSeq(Plain, 1, 3), <<>>, <<<<"note", 1>>>>, SubSeq(Plain, 4, Len(Plain)), Unclosed>>,
              <<Rule, Retract \o <<<<"note", 0>>>>, Other>>}

Template ==
    Cmd("query", <<Vec(<<Kw("find"), Var("v"), Kw("as-of"), <<"slot", "tx">>, Kw("valid-at"), <<"slot", "t">>,
                         Kw("where"), Vec(<<<<"slot", "e">>, Kw("n"), Var("v")>>),
                         List(<<Sym("or"), Vec(<<<<"slot", "e">>, Kw("n"), Var("v")>>),
                                           Vec(<<<<"slot", "e">>, Kw("m"), Var("v")>>)>>),
                         Vec(<<List(<<Sym("<="), Var("v"), <<"slot", "v">>>>)>>)>>)>>)
NoAttr == Cmd("query", <<Vec(<<Kw("find"), Var("v"), Kw("where"), Vec(<<Var("e"), <<"slot", "a">>, Var("v")>>)>>)>>)

MCTemplates == {Template, NoAttr}
MCBindings ==
    {("tx" :> tx) @@ ("t" :> t) @@ ("e" :> <<"entity", "a">>) @@ ("v" :> v)
       : tx \in {<<"count", 1>>, <<"time", 4>>}, t \in {<<"time", 4>>, <<"any", 0>>},
         v \in {<<"val", <<"int", 1>>>>, <<"entity", "a">>}}
    \cup {("e" :> <<"entity", "a">>)}

MCPlans == {<<"session", "session", "session">>, <<"interactive", "maintenance">>, <<"library">>,
            <<"repl", "session">>}

Swaps == Permutations(Procs)
=============================================================================
