------------------------------ MODULE MC_Index -------------------------------
(* A small ledger for the index cursors and the current projections.       *)
EXTENDS Projection

Asserted(e, a, v, vf, vt) == [e |-> e, a |-> a, v |-> v, vf |-> vf, vt |-> vt, on |-> TRUE]
Retracted(e, a, v, vf, vt) == [e |-> e, a |-> a, v |-> v, vf |-> vf, vt |-> vt, on |-> FALSE]

One == <<IntTag, 1>>
Two == <<IntTag, 2>>
ToOne == <<RefTag, 1>>
Str(n) == <<StrTag, n>>

\* Two windows of one triple, a reference, and in one log a name that
\* extends 10.
LogWith(other) ==
    << << Asserted(1, 10, One, 0, Forever), Asserted(2, 10, ToOne, 0, 3), Asserted(2, other, Two, 0, Forever) >>,
       << Asserted(1, 10, One, 2, 5), Asserted(1, 20, Two, 0, Forever) >> >>

MCFirstLogs == {LogWith(12), LogWith(20)}

\* Long strings at the limits of a 150-byte page: the largest that fits an
\* internal page as its first separator (94), the smallest that overruns it,
\* the smallest that no leaf holds (not first in a leaf, and first of a
\* tree), and one that the log refuses.
LongBatches ==
    {<<Asserted(2, 10, Str(n), 1, 4)>> : n \in {95, 99, 103}} \cup {<<Asserted(1, 10, Str(99), -1, 4)>>}

MCBatches ==
    LongBatches \cup
    { << Retracted(1, 10, One, AllFrom, Forever), Asserted(3, 10, ToOne, 2, 5) >>,
      << Retracted(1, 10, One, 2, 5), Asserted(1, 10, Two, 2, Forever) >>,
      << Asserted(2, 10, ToOne, 2, 5), Asserted(2, 10, ToOne, 0, 3), Asserted(2, 10, Str(94), 0, 5),
         Asserted(2, 10, Two, 0, 3), Asserted(2, 10, One, 2, 5) >> }
=============================================================================
