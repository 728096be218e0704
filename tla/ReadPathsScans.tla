--------------------------- MODULE ReadPathsScans ---------------------------
(***************************************************************************)
(* What the scans of ReadPaths compute, for any page capacity and any log. *)
(* First the recursive definitions (Kept, Concat and the binary search of  *)
(* TailPage, each by induction over a set of indices), then that packing a *)
(* sequence into pages and reading the pages back is the identity, then    *)
(* that the search for newer facts in the pages of an ordered log skips    *)
(* none.                                                                   *)
(***************************************************************************)
EXTENDS ReadPaths, TLAPS, SequenceTheorems, WellFoundedInduction

-----------------------------------------------------------------------------
(* Induction over numbers, with the claim as a set.                        *)

(* A nonempty set of numbers has a smallest one. *)
LEMMA Smallest ==
    ASSUME NEW S \in SUBSET Nat, S # {} PROVE \E m \in S : \A t \in S : m <= t
<1>1. PICK m \in S : \A t \in S : ~(<<t, m>> \in OpToRel(<, Nat))
  BY NatLessThanWellFounded, WFMin, Zenon
<1>2. \A t \in S : ~(t < m) BY <1>1, Zenon DEF OpToRel
<1> QED BY <1>2

(* Induction from 0 up to n, over a set. *)
LEMMA Upward ==
    ASSUME NEW n \in Nat, NEW S, 0 \in S, \A i \in 0..(n - 1) : i \in S => i + 1 \in S
    PROVE  \A i \in 0..n : i \in S
<1> DEFINE T == {i \in 0..n : i \notin S}
<1> SUFFICES ASSUME T # {} PROVE FALSE OBVIOUS
<1>0. T \in SUBSET Nat OBVIOUS
<1>1. PICK m \in T : \A t \in T : m <= t BY <1>0, Smallest, Zenon
<1>2. m \in 1..n /\ m - 1 \in 0..(n - 1) /\ m - 1 \notin T BY <1>1
<1>3. m - 1 \in S BY <1>2
<1>4. (m - 1) + 1 \in S BY <1>2, <1>3
<1> QED BY <1>2, <1>4

(* Induction from n down to 0, over a set. *)
LEMMA Downward ==
    ASSUME NEW n \in Nat, NEW S, n \in S, \A i \in 0..(n - 1) : i + 1 \in S => i \in S
    PROVE  \A i \in 0..n : i \in S
<1> DEFINE T == {j \in 0..n : n - j \in S}
<1>1. 0 \in T OBVIOUS
<1>2. ASSUME NEW j \in 0..(n - 1), j \in T PROVE j + 1 \in T
  <2>1. n - (j + 1) \in 0..(n - 1) /\ (n - (j + 1)) + 1 = n - j OBVIOUS
  <2>2. n - (j + 1) \in S BY <1>2, <2>1
  <2> QED BY <2>2
<1> HIDE DEF T
<1>3. \A j \in 0..n : j \in T BY <1>1, <1>2, Upward
<1>4. ASSUME NEW i \in 0..n PROVE i \in S
  <2>1. n - i \in 0..n /\ n - (n - i) = i OBVIOUS
  <2>2. n - i \in T BY <1>3, <2>1
  <2> QED BY <2>1, <2>2 DEF T
<1> QED BY <1>4

(* Sequences over a set that satisfy a claim, given as a set of sequences. *)
LEMMA SeqUpward ==
    ASSUME NEW A, NEW S, <<>> \in S,
           \A s \in Seq(A), e \in A : s \in S => Append(s, e) \in S
    PROVE  \A s \in Seq(A) : s \in S
<1> DEFINE T == {n \in Nat : \E s \in Seq(A) : Len(s) = n /\ s \notin S}
<1> SUFFICES ASSUME T # {} PROVE FALSE
  <2>1. \A s \in Seq(A) : Len(s) \in Nat OBVIOUS
  <2> QED BY <2>1
<1>1. PICK m \in T : \A t \in T : m <= t BY Smallest, Zenon
<1>2. PICK s \in Seq(A) : Len(s) = m /\ s \notin S OBVIOUS
<1>3. s # <<>> BY <1>2
<1>4. PICK u \in Seq(A), e \in A : s = Append(u, e) BY <1>3, SequenceEmptyOrAppend
<1>5. Len(u) \in Nat /\ Len(s) = Len(u) + 1 BY <1>4
<1>6. ~(m <= Len(u)) BY <1>2, <1>5
<1>7. Len(u) \notin T BY <1>1, <1>6
<1>8. u \in S BY <1>5, <1>7
<1> QED BY <1>2, <1>4, <1>8

-----------------------------------------------------------------------------
(* Kept, from its recursive definition to what it does.                    *)

KeepStep(s, S, f, i) ==
    IF i = 0 THEN <<>> ELSE IF s[i].tx \in S THEN Append(f[i - 1], s[i]) ELSE f[i - 1]

(* The recursive function of Kept exists. *)
LEMMA KeepExists ==
    ASSUME NEW s, Len(s) \in Nat, NEW S
    PROVE  \E f : f = [i \in 0..Len(s) |-> KeepStep(s, S, f, i)]
<1> DEFINE n == Len(s)
           T == {k \in 0..n : \E f : f = [i \in 0..k |-> KeepStep(s, S, f, i)]}
<1>1. 0 \in T
  <2> DEFINE f == [i \in 0..0 |-> <<>>]
  <2>1. f = [i \in 0..0 |-> KeepStep(s, S, f, i)] BY DEF KeepStep
  <2> QED BY <2>1
<1>2. ASSUME NEW k \in 0..(n - 1), k \in T PROVE k + 1 \in T
  <2>1. PICK f : f = [i \in 0..k |-> KeepStep(s, S, f, i)] BY <1>2
  <2> DEFINE g == [i \in 0..(k + 1) |-> IF i = k + 1 THEN KeepStep(s, S, f, i) ELSE f[i]]
  <2>2. ASSUME NEW i \in 0..(k + 1) PROVE g[i] = KeepStep(s, S, g, i)
    <3>1. i # 0 => i - 1 \in 0..k /\ i - 1 \in 0..(k + 1) /\ i - 1 # k + 1 OBVIOUS
    <3>2. i # 0 => g[i - 1] = f[i - 1] BY <3>1
    <3>3. KeepStep(s, S, g, i) = KeepStep(s, S, f, i) BY <3>2 DEF KeepStep
    <3>4. i # k + 1 => i \in 0..k OBVIOUS
    <3>5. i # k + 1 => f[i] = KeepStep(s, S, f, i) BY <2>1, <3>4
    <3> QED BY <3>3, <3>5
  <2>3. g = [i \in 0..(k + 1) |-> g[i]] OBVIOUS
  <2> HIDE DEF g
  <2>4. g = [i \in 0..(k + 1) |-> KeepStep(s, S, g, i)] BY <2>2, <2>3
  <2> QED BY <2>4
<1> HIDE DEF T
<1>3. \A k \in 0..n : k \in T BY <1>1, <1>2, Upward
<1>4. n \in T BY <1>3
<1> QED BY <1>4 DEF T

(* The equation that the recursive function of Kept satisfies. *)
LEMMA KeptDef ==
    ASSUME NEW s, Len(s) \in Nat, NEW S
    PROVE  \E f : f = [i \in 0..Len(s) |-> KeepStep(s, S, f, i)] /\ Kept(s, S) = f[Len(s)]
<1> DEFINE f == CHOOSE f : f = [i \in 0..Len(s) |-> KeepStep(s, S, f, i)]
<1>1. f = [i \in 0..Len(s) |-> KeepStep(s, S, f, i)] BY KeepExists, Zenon
<1>2. Kept(s, S) = f[Len(s)] BY Zenon DEF Kept, KeepStep
<1> QED BY <1>1, <1>2, Zenon

(* Nothing is kept of nothing. *)
LEMMA KeptEmpty == ASSUME NEW S PROVE Kept(<<>>, S) = <<>>
<1>1. Len(<<>>) = 0 OBVIOUS
<1>2. PICK f : f = [i \in 0..0 |-> KeepStep(<<>>, S, f, i)] /\ Kept(<<>>, S) = f[0]
  BY <1>1, KeptDef
<1> QED BY <1>2 DEF KeepStep

(* A fact behind a sequence is kept, or not, behind what is kept of it. *)
LEMMA KeptAppend ==
    ASSUME NEW s \in Seq(Facts), NEW e \in Facts, NEW S
    PROVE  Kept(Append(s, e), S) = IF e.tx \in S THEN Append(Kept(s, S), e) ELSE Kept(s, S)
<1> DEFINE n == Len(s)
           t == Append(s, e)
<1>1. n \in Nat /\ Len(t) = n + 1 /\ t[n + 1] = e /\ \A i \in 1..n : t[i] = s[i] OBVIOUS
<1> HIDE DEF n, t
<1>2. PICK f : f = [i \in 0..n |-> KeepStep(s, S, f, i)] /\ Kept(s, S) = f[n]
  BY <1>1, KeptDef DEF n
<1>3. PICK g : g = [i \in 0..(n + 1) |-> KeepStep(t, S, g, i)] /\ Kept(t, S) = g[n + 1]
  BY <1>1, KeptDef
<1> DEFINE T == {i \in 0..n : g[i] = f[i]}
<1>4. 0 \in T BY <1>1, <1>2, <1>3 DEF KeepStep
<1>5. ASSUME NEW i \in 0..(n - 1), i \in T PROVE i + 1 \in T
  <2>1. i + 1 \in 0..n /\ i + 1 \in 0..(n + 1) /\ i + 1 \in 1..n /\ i + 1 # 0 /\ (i + 1) - 1 = i
    BY <1>1
  <2>2. g[i + 1] = KeepStep(t, S, g, i + 1) /\ f[i + 1] = KeepStep(s, S, f, i + 1)
    BY <1>2, <1>3, <2>1, Zenon
  <2>3. KeepStep(t, S, g, i + 1) = KeepStep(s, S, f, i + 1)
    BY <1>1, <1>5, <2>1 DEF KeepStep
  <2> QED BY <2>1, <2>2, <2>3
<1> HIDE DEF T
<1>5a. \A i \in 0..n : i \in T BY <1>1, <1>4, <1>5, Upward, Zenon
<1>6. n \in T BY <1>1, <1>5a
<1>7. g[n] = f[n] BY <1>6 DEF T
<1>7a. n + 1 \in 0..(n + 1) /\ n + 1 # 0 /\ (n + 1) - 1 = n BY <1>1
<1>8. g[n + 1] = KeepStep(t, S, g, n + 1) BY <1>3, <1>7a, Zenon
<1>9. g[n + 1] = IF e.tx \in S THEN Append(f[n], e) ELSE f[n] BY <1>1, <1>7, <1>7a, <1>8 DEF KeepStep
<1> QED BY <1>2, <1>3, <1>9 DEF t

(* What is kept is a sequence of facts. *)
LEMMA KeptType == ASSUME NEW s \in Seq(Facts), NEW S PROVE Kept(s, S) \in Seq(Facts)
<1> DEFINE T == {r \in Seq(Facts) : Kept(r, S) \in Seq(Facts)}
<1>1. <<>> \in T
  <2>1. <<>> \in Seq(Facts) /\ Kept(<<>>, S) = <<>> BY KeptEmpty
  <2> QED BY <2>1, Zenon
<1>2. ASSUME NEW r \in Seq(Facts), NEW e \in Facts, r \in T PROVE Append(r, e) \in T
  <2> DEFINE q == Kept(r, S)
  <2>1. q \in Seq(Facts) BY <1>2
  <2>2. Kept(Append(r, e), S) = IF e.tx \in S THEN Append(q, e) ELSE q BY KeptAppend
  <2> HIDE DEF q
  <2>3. Kept(Append(r, e), S) \in Seq(Facts) BY <2>1, <2>2
  <2>4. Append(r, e) \in Seq(Facts) OBVIOUS
  <2> QED BY <2>3, <2>4
<1> HIDE DEF T
<1>3. s \in T BY <1>1, <1>2, SeqUpward
<1> QED BY <1>3 DEF T

(* Appending to a concatenation appends to its second part. *)
LEMMA AppendJoin ==
    ASSUME NEW s \in Seq(Facts), NEW u \in Seq(Facts), NEW e \in Facts
    PROVE  Append(s \o u, e) = s \o Append(u, e)
OBVIOUS

(* What is kept of a concatenation is the concatenation of what is kept. *)
LEMMA KeptConcat ==
    ASSUME NEW s \in Seq(Facts), NEW u \in Seq(Facts), NEW S
    PROVE  Kept(s \o u, S) = Kept(s, S) \o Kept(u, S)
<1> DEFINE T == {r \in Seq(Facts) : Kept(s \o r, S) = Kept(s, S) \o Kept(r, S)}
<1>1. <<>> \in T
  <2>1. Kept(s, S) \in Seq(Facts) BY KeptType
  <2> QED BY <2>1, KeptEmpty, ConcatEmptySeq
<1>2. ASSUME NEW r \in Seq(Facts), NEW e \in Facts, r \in T PROVE Append(r, e) \in T
  <2> DEFINE k == Kept(s, S)
             q == Kept(r, S)
             a == s \o r
  <2>1. k \in Seq(Facts) /\ q \in Seq(Facts) BY KeptType
  <2>2. a \in Seq(Facts) /\ Kept(a, S) = k \o q BY <1>2
  <2>3. s \o Append(r, e) = Append(a, e) OBVIOUS
  <2> HIDE DEF a
  <2>4. Kept(Append(a, e), S) = IF e.tx \in S THEN Append(k \o q, e) ELSE k \o q
    BY <2>2, KeptAppend, Zenon
  <2>5. Kept(Append(r, e), S) = IF e.tx \in S THEN Append(q, e) ELSE q BY KeptAppend
  <2> HIDE DEF k, q
  <2>6. Append(k \o q, e) = k \o Append(q, e) BY <2>1, AppendJoin, ZenonT(60)
  <2>7. Kept(s \o Append(r, e), S) = k \o Kept(Append(r, e), S) BY <2>3, <2>4, <2>5, <2>6, Zenon
  <2> QED BY <2>7 DEF k
<1> HIDE DEF T
<1>3. u \in T BY <1>1, <1>2, SeqUpward
<1> QED BY <1>3 DEF T

(* A sequence of facts with numbers in S is kept whole. *)
LEMMA KeptAll ==
    ASSUME NEW s \in Seq(Facts), NEW S, \A i \in 1..Len(s) : s[i].tx \in S
    PROVE  Kept(s, S) = s
<1> DEFINE T == {r \in Seq(Facts) : (\A i \in 1..Len(r) : r[i].tx \in S) => Kept(r, S) = r}
<1>1. <<>> \in T BY KeptEmpty
<1>2. ASSUME NEW r \in Seq(Facts), NEW e \in Facts, r \in T PROVE Append(r, e) \in T
  <2>0. Append(r, e) \in Seq(Facts) OBVIOUS
  <2> SUFFICES ASSUME \A i \in 1..Len(Append(r, e)) : Append(r, e)[i].tx \in S
               PROVE  Kept(Append(r, e), S) = Append(r, e)
    BY <2>0, Zenon
  <2> DEFINE t == Append(r, e)
             n == Len(r)
  <2>1. n \in Nat /\ Len(t) = n + 1 /\ t[n + 1] = e /\ \A i \in 1..n : t[i] = r[i] OBVIOUS
  <2>2. \A i \in 1..(n + 1) : t[i].tx \in S BY <2>1
  <2> HIDE DEF t
  <2>3. e.tx \in S /\ \A i \in 1..n : r[i].tx \in S BY <2>1, <2>2
  <2>4. Kept(r, S) = r BY <1>2, <2>3
  <2> QED BY <2>3, <2>4, KeptAppend
<1> HIDE DEF T
<1>3. s \in T BY <1>1, <1>2, SeqUpward
<1> QED BY <1>3 DEF T

(* Of a sequence without numbers in S nothing is kept. *)
LEMMA KeptNone ==
    ASSUME NEW s \in Seq(Facts), NEW S, \A i \in 1..Len(s) : s[i].tx \notin S
    PROVE  Kept(s, S) = <<>>
<1> DEFINE T == {r \in Seq(Facts) : (\A i \in 1..Len(r) : r[i].tx \notin S) => Kept(r, S) = <<>>}
<1>1. <<>> \in T BY KeptEmpty
<1>2. ASSUME NEW r \in Seq(Facts), NEW e \in Facts, r \in T PROVE Append(r, e) \in T
  <2>0. Append(r, e) \in Seq(Facts) OBVIOUS
  <2> SUFFICES ASSUME \A i \in 1..Len(Append(r, e)) : Append(r, e)[i].tx \notin S
               PROVE  Kept(Append(r, e), S) = <<>>
    BY <2>0, Zenon
  <2> DEFINE t == Append(r, e)
             n == Len(r)
  <2>1. n \in Nat /\ Len(t) = n + 1 /\ t[n + 1] = e /\ \A i \in 1..n : t[i] = r[i] OBVIOUS
  <2>2. \A i \in 1..(n + 1) : t[i].tx \notin S BY <2>1
  <2> HIDE DEF t
  <2>3. e.tx \notin S /\ \A i \in 1..n : r[i].tx \notin S BY <2>1, <2>2
  <2>4. Kept(r, S) = <<>> BY <1>2, <2>3
  <2> QED BY <2>3, <2>4, KeptAppend
<1> HIDE DEF T
<1>3. s \in T BY <1>1, <1>2, SeqUpward
<1> QED BY <1>3 DEF T

-----------------------------------------------------------------------------
(* Concat.                                                                 *)

JoinStep(pgs, n, at, f, i) == IF i = n THEN <<>> ELSE pgs[at + i].facts \o f[i + 1]

(* The recursive function of Concat exists. *)
LEMMA JoinExists ==
    ASSUME NEW pgs, NEW n \in Nat, NEW at
    PROVE  \E f : f = [i \in 0..n |-> JoinStep(pgs, n, at, f, i)]
<1> DEFINE T == {k \in 0..n : \E f : f = [i \in k..n |-> JoinStep(pgs, n, at, f, i)]}
<1>1. n \in T
  <2> DEFINE f == [i \in n..n |-> <<>>]
  <2>1. f = [i \in n..n |-> JoinStep(pgs, n, at, f, i)] BY DEF JoinStep
  <2>2. n \in 0..n OBVIOUS
  <2> HIDE DEF f
  <2> QED BY <2>1, <2>2
<1>2. ASSUME NEW k \in 0..(n - 1), k + 1 \in T PROVE k \in T
  <2>1. PICK f : f = [i \in (k + 1)..n |-> JoinStep(pgs, n, at, f, i)] BY <1>2
  <2> DEFINE g == [i \in k..n |-> IF i = k THEN JoinStep(pgs, n, at, f, i) ELSE f[i]]
  <2>2. ASSUME NEW i \in k..n PROVE g[i] = JoinStep(pgs, n, at, g, i)
    <3>1. i # n => i + 1 \in (k + 1)..n /\ i + 1 \in k..n /\ i + 1 # k OBVIOUS
    <3>2. i # n => g[i + 1] = f[i + 1] BY <3>1
    <3>3. JoinStep(pgs, n, at, g, i) = JoinStep(pgs, n, at, f, i) BY <3>2 DEF JoinStep
    <3>4. i # k => i \in (k + 1)..n OBVIOUS
    <3>5. i # k => f[i] = JoinStep(pgs, n, at, f, i) BY <2>1, <3>4
    <3> QED BY <3>3, <3>5
  <2>3. g = [i \in k..n |-> g[i]] OBVIOUS
  <2> HIDE DEF g
  <2>4. g = [i \in k..n |-> JoinStep(pgs, n, at, g, i)] BY <2>2, <2>3
  <2> QED BY <2>4
<1> HIDE DEF T
<1>3. \A k \in 0..n : k \in T BY <1>1, <1>2, Downward
<1>4. 0 \in T BY <1>3
<1> QED BY <1>4 DEF T

JoinOf(pgs, n, at) == CHOOSE f : f = [i \in 0..n |-> JoinStep(pgs, n, at, f, i)]

(* Its equation. *)
LEMMA JoinIs ==
    ASSUME NEW pgs, NEW n \in Nat, NEW at, NEW i \in 0..n
    PROVE  JoinOf(pgs, n, at)[i] = JoinStep(pgs, n, at, JoinOf(pgs, n, at), i)
<1> DEFINE f == JoinOf(pgs, n, at)
<1>1. \E g : g = [k \in 0..n |-> JoinStep(pgs, n, at, g, k)] BY JoinExists, Zenon
<1>2. f = [k \in 0..n |-> JoinStep(pgs, n, at, f, k)] BY <1>1, Zenon DEF JoinOf
<1> HIDE DEF f
<1>3. f[i] = JoinStep(pgs, n, at, f, i) BY <1>2
<1> QED BY <1>3 DEF f

(* Concat is a value of that function. *)
LEMMA ConcatIs ==
    ASSUME NEW pgs, NEW n, NEW at, NEW i
    PROVE  Concat(pgs, n, at, i) = JoinOf(pgs, n, at)[i]
BY Zenon DEF Concat, JoinOf, JoinStep

(* The last page ends the scan; any other comes before the rest. *)
LEMMA ConcatEnd ==
    ASSUME NEW pgs, NEW n \in Nat, NEW at PROVE Concat(pgs, n, at, n) = <<>>
<1>1. n \in 0..n OBVIOUS
<1>2. JoinOf(pgs, n, at)[n] = JoinStep(pgs, n, at, JoinOf(pgs, n, at), n) BY <1>1, JoinIs
<1> QED BY <1>2, ConcatIs DEF JoinStep

(* The facts from page i on are those of page i and those from page i + 1  *)
(* on.                                                                     *)
LEMMA ConcatStep ==
    ASSUME NEW pgs, NEW n \in Nat, NEW at, NEW i \in 0..(n - 1)
    PROVE  Concat(pgs, n, at, i) = pgs[at + i].facts \o Concat(pgs, n, at, i + 1)
<1> DEFINE f == JoinOf(pgs, n, at)
<1>1. i \in 0..n /\ i # n OBVIOUS
<1>2. f[i] = JoinStep(pgs, n, at, f, i) BY <1>1, JoinIs
<1>3. Concat(pgs, n, at, i) = f[i] /\ Concat(pgs, n, at, i + 1) = f[i + 1] BY ConcatIs
<1> HIDE DEF f
<1>4. f[i] = pgs[at + i].facts \o f[i + 1] BY <1>1, <1>2, Zenon DEF JoinStep
<1> QED BY <1>3, <1>4, Zenon

(* The facts of pages of facts are a sequence of facts. *)
LEMMA ConcatType ==
    ASSUME NEW pgs, NEW n \in Nat, NEW at, \A i \in 0..(n - 1) : pgs[at + i].facts \in Seq(Facts)
    PROVE  \A i \in 0..n : Concat(pgs, n, at, i) \in Seq(Facts)
<1> DEFINE T == {i \in 0..n : Concat(pgs, n, at, i) \in Seq(Facts)}
<1>0. Concat(pgs, n, at, n) = <<>> /\ n \in 0..n BY ConcatEnd
<1>1. n \in T BY <1>0
<1>2. ASSUME NEW i \in 0..(n - 1), i + 1 \in T PROVE i \in T
  <2>1. Concat(pgs, n, at, i) = pgs[at + i].facts \o Concat(pgs, n, at, i + 1) BY ConcatStep, Zenon
  <2>2. Concat(pgs, n, at, i + 1) \in Seq(Facts) BY <1>2
  <2>3. pgs[at + i].facts \in Seq(Facts) OBVIOUS
  <2>4. i \in 0..n OBVIOUS
  <2>5. Concat(pgs, n, at, i) \in Seq(Facts) BY <2>1, <2>2, <2>3
  <2> QED BY <2>4, <2>5
<1> HIDE DEF T
<1>3. \A i \in 0..n : i \in T BY <1>1, <1>2, Downward
<1> QED BY <1>3 DEF T

(* Two files that agree on the pages of a range hold the same facts there. *)
LEMMA ConcatSame ==
    ASSUME NEW p, NEW q, NEW n \in Nat, NEW a \in Nat,
           \A i \in 0..(n - 1) : p[a + i] = q[a + i]
    PROVE  Concat(p, n, a, 0) = Concat(q, n, a, 0)
<1> DEFINE T == {i \in 0..n : Concat(p, n, a, i) = Concat(q, n, a, i)}
<1>0. Concat(p, n, a, n) = <<>> /\ Concat(q, n, a, n) = <<>> /\ n \in 0..n BY ConcatEnd
<1>1. n \in T BY <1>0
<1>2. ASSUME NEW i \in 0..(n - 1), i + 1 \in T PROVE i \in T
  <2>1. Concat(p, n, a, i) = p[a + i].facts \o Concat(p, n, a, i + 1) BY ConcatStep, Zenon
  <2>2. Concat(q, n, a, i) = q[a + i].facts \o Concat(q, n, a, i + 1) BY ConcatStep, Zenon
  <2>3. Concat(p, n, a, i + 1) = Concat(q, n, a, i + 1) BY <1>2
  <2>4. Concat(p, n, a, i) = Concat(q, n, a, i) BY <2>1, <2>2, <2>3, Zenon
  <2> QED BY <2>4
<1> HIDE DEF T
<1>3. \A i \in 0..n : i \in T BY <1>1, <1>2, Downward
<1>4. 0 \in 0..n OBVIOUS
<1> QED BY <1>3, <1>4 DEF T

(* The first pages of a run of pages, then the others. *)
LEMMA ConcatSplit ==
    ASSUME NEW p, NEW n \in Nat, NEW m \in Nat, NEW at \in Nat,
           \A i \in 0..(n + m - 1) : p[at + i].facts \in Seq(Facts)
    PROVE  Concat(p, n + m, at, 0) = Concat(p, n, at, 0) \o Concat(p, m, at + n, 0)
<1> DEFINE S == {j \in 0..m : Concat(p, n + m, at, n + j) = Concat(p, m, at + n, j)}
           T == {i \in 0..n : Concat(p, n + m, at, i) = Concat(p, n, at, i) \o Concat(p, m, at + n, 0)}
<1>0. n + m \in Nat /\ at + n \in Nat OBVIOUS
<1>0a. \A i \in 0..(n + m - 1) :
          Concat(p, n + m, at, i) = p[at + i].facts \o Concat(p, n + m, at, i + 1)
  <2> TAKE i \in 0..(n + m - 1)
  <2> DEFINE w == n + m
  <2>1. w \in Nat /\ i \in 0..(w - 1) OBVIOUS
  <2> HIDE DEF w
  <2>2. Concat(p, w, at, i) = p[at + i].facts \o Concat(p, w, at, i + 1) BY <2>1, ConcatStep, Zenon
  <2> QED BY <2>2, Zenon DEF w
<1>0b. \A i \in 0..(m - 1) :
          Concat(p, m, at + n, i) = p[(at + n) + i].facts \o Concat(p, m, at + n, i + 1)
  BY <1>0, ConcatStep, Zenon
<1>0c. Concat(p, n + m, at, n + m) = <<>> /\ Concat(p, m, at + n, m) = <<>> BY <1>0, ConcatEnd
<1>1. m \in S BY <1>0c
<1>2. ASSUME NEW j \in 0..(m - 1), j + 1 \in S PROVE j \in S
  <2>1. n + j \in 0..(n + m - 1) /\ (n + j) + 1 = n + (j + 1) /\ at + (n + j) = (at + n) + j
    OBVIOUS
  <2>2. Concat(p, n + m, at, n + j) = p[at + (n + j)].facts \o Concat(p, n + m, at, (n + j) + 1)
    BY <1>0a, <2>1, Zenon
  <2>3. Concat(p, m, at + n, j) = p[(at + n) + j].facts \o Concat(p, m, at + n, j + 1)
    BY <1>0b, Zenon
  <2>4. Concat(p, n + m, at, n + (j + 1)) = Concat(p, m, at + n, j + 1) BY <1>2
  <2>5. Concat(p, n + m, at, n + j) = Concat(p, m, at + n, j) BY <2>1, <2>2, <2>3, <2>4, Zenon
  <2> QED BY <2>5
<1> HIDE DEF S
<1>3. \A j \in 0..m : j \in S BY <1>1, <1>2, Downward
<1>4. Concat(p, n + m, at, n + 0) = Concat(p, m, at + n, 0) BY <1>3 DEF S
<1> DEFINE r == Concat(p, m, at + n, 0)
<1>5. r \in Seq(Facts)
  <2>1. \A i \in 0..(m - 1) : p[(at + n) + i].facts \in Seq(Facts)
    <3> TAKE i \in 0..(m - 1)
    <3>1. n + i \in 0..(n + m - 1) /\ at + (n + i) = (at + n) + i OBVIOUS
    <3>2. p[at + (n + i)].facts \in Seq(Facts) BY <3>1
    <3> QED BY <3>1, <3>2
  <2>2. 0 \in 0..m OBVIOUS
  <2> QED BY <1>0, <2>1, <2>2, ConcatType, Zenon
<1>6. \A i \in 0..n : Concat(p, n, at, i) \in Seq(Facts)
  <2>1. \A i \in 0..(n - 1) : p[at + i].facts \in Seq(Facts) OBVIOUS
  <2> QED BY <2>1, ConcatType, Zenon
<1> HIDE DEF r
<1>7. n \in T
  <2>1. Concat(p, n, at, n) = <<>> BY ConcatEnd
  <2>2. <<>> \o r = r BY <1>5
  <2>3. n + 0 = n /\ n \in 0..n OBVIOUS
  <2> QED BY <1>4, <2>1, <2>2, <2>3, Zenon DEF r
<1>8. ASSUME NEW i \in 0..(n - 1), i + 1 \in T PROVE i \in T
  <2>1. i \in 0..(n + m - 1) /\ i \in 0..n /\ i + 1 \in 0..n OBVIOUS
  <2> DEFINE x == p[at + i].facts
             y == Concat(p, n, at, i + 1)
  <2>2. Concat(p, n + m, at, i) = x \o Concat(p, n + m, at, i + 1) BY <1>0a, <2>1, Zenon
  <2>3. Concat(p, n, at, i) = x \o y BY ConcatStep, Zenon
  <2>4. Concat(p, n + m, at, i + 1) = y \o r BY <1>8 DEF r
  <2>5. x \in Seq(Facts) /\ y \in Seq(Facts) BY <1>6, <2>1, Zenon
  <2> HIDE DEF x, y
  <2>6. x \o (y \o r) = (x \o y) \o r BY <1>5, <2>5, ConcatAssociative
  <2>7. Concat(p, n + m, at, i) = Concat(p, n, at, i) \o r BY <2>2, <2>3, <2>4, <2>6, Zenon
  <2> QED BY <2>1, <2>7 DEF r
<1> HIDE DEF T
<1>9. \A i \in 0..n : i \in T BY <1>7, <1>8, Downward
<1>10. 0 \in T BY <1>9
<1> QED BY <1>10 DEF T

-----------------------------------------------------------------------------
(* TailPage.                                                               *)

Middle(w) == w[1] + (w[2] - w[1]) \div 2
Window(n) == (0..n) \X (0..n)
ProbeStep(pgs, at, since, f, w) ==
    LET mid == w[1] + (w[2] - w[1]) \div 2
        facts == pgs[at + mid].facts
    IN  IF w[1] >= w[2] THEN w[1]
        ELSE IF facts = <<>> THEN 0
        ELSE IF facts[Len(facts)].tx > since THEN f[<<w[1], mid>>]
        ELSE f[<<mid + 1, w[2]>>]

ProbeOf(pgs, n, at, since) ==
    CHOOSE f : f = [w \in Window(n) |-> ProbeStep(pgs, at, since, f, w)]

(* TailPage is a value of the probe's function. *)
LEMMA TailIs ==
    ASSUME NEW pgs, NEW n, NEW at, NEW since
    PROVE  TailPage(pgs, n, at, since) = ProbeOf(pgs, n, at, since)[<<0, n>>]
BY Zenon DEF TailPage, ProbeOf, ProbeStep, Window

(* The middle of a window lies in it, before its end. *)
LEMMA HalfIn ==
    ASSUME NEW lo \in Nat, NEW hi \in Nat, lo < hi
    PROVE  lo + (hi - lo) \div 2 \in lo..(hi - 1)
OBVIOUS

(* Both halves of a window are windows, and shorter. *)
LEMMA MiddleIn ==
    ASSUME NEW n \in Nat, NEW w \in Window(n), w[1] < w[2]
    PROVE  /\ Middle(w) \in w[1]..(w[2] - 1)
           /\ <<w[1], Middle(w)>> \in Window(n) /\ <<Middle(w) + 1, w[2]>> \in Window(n)
           /\ Middle(w) - w[1] < w[2] - w[1] /\ w[2] - (Middle(w) + 1) < w[2] - w[1]
<1>1. w[1] \in 0..n /\ w[2] \in 0..n BY DEF Window
<1>2. Middle(w) \in w[1]..(w[2] - 1) BY <1>1, HalfIn DEF Middle
<1>3. Middle(w) \in 0..n /\ Middle(w) + 1 \in 0..n BY <1>1, <1>2
<1>4. Middle(w) - w[1] < w[2] - w[1] /\ w[2] - (Middle(w) + 1) < w[2] - w[1] BY <1>1, <1>2
<1> QED BY <1>1, <1>2, <1>3, <1>4 DEF Window

(* What a step does to a window that is not empty. *)
LEMMA ProbeSplit ==
    ASSUME NEW pgs, NEW at, NEW since, NEW f, NEW w, ~(w[1] >= w[2])
    PROVE  LET facts == pgs[at + Middle(w)].facts IN
           ProbeStep(pgs, at, since, f, w) =
              IF facts = <<>> THEN 0
              ELSE IF facts[Len(facts)].tx > since THEN f[<<w[1], Middle(w)>>]
              ELSE f[<<Middle(w) + 1, w[2]>>]
BY DEF ProbeStep, Middle

(* A probe only looks at the two halves of its window. *)
LEMMA ProbeSame ==
    ASSUME NEW pgs, NEW at, NEW since, NEW f, NEW g, NEW w,
           f[<<w[1], Middle(w)>>] = g[<<w[1], Middle(w)>>],
           f[<<Middle(w) + 1, w[2]>>] = g[<<Middle(w) + 1, w[2]>>]
    PROVE  ProbeStep(pgs, at, since, f, w) = ProbeStep(pgs, at, since, g, w)
BY DEF ProbeStep, Middle

(* The equation of the probe's function. *)
LEMMA ProbeIs ==
    ASSUME NEW pgs, NEW n \in Nat, NEW at, NEW since
    PROVE  \A w \in Window(n) :
              ProbeOf(pgs, n, at, since)[w] =
                 ProbeStep(pgs, at, since, ProbeOf(pgs, n, at, since), w)
<1> DEFINE Good(f, d) ==
               \A w \in Window(n) : w[2] - w[1] <= d => f[w] = ProbeStep(pgs, at, since, f, w)
           T == {d \in 0..n : \E f : Good(f, d)}
<1>0. \A w \in Window(n) : w[1] \in 0..n /\ w[2] \in 0..n BY DEF Window
<1>1. 0 \in T
  <2> DEFINE f == [w \in Window(n) |-> w[1]]
  <2>1. \A w \in Window(n) : f[w] = w[1] OBVIOUS
  <2> HIDE DEF f
  <2>2. ASSUME NEW w \in Window(n), w[2] - w[1] <= 0 PROVE f[w] = ProbeStep(pgs, at, since, f, w)
    <3>1. w[1] >= w[2] BY <1>0, <2>2
    <3> QED BY <2>1, <3>1 DEF ProbeStep
  <2>3. Good(f, 0) BY <2>2
  <2>4. 0 \in 0..n OBVIOUS
  <2> QED BY <2>3, <2>4
<1>2. ASSUME NEW d \in 0..(n - 1), d \in T PROVE d + 1 \in T
  <2>1. PICK f : Good(f, d) BY <1>2
  <2> DEFINE g == [w \in Window(n) |-> ProbeStep(pgs, at, since, f, w)]
  <2>2. \A w \in Window(n) : g[w] = ProbeStep(pgs, at, since, f, w) OBVIOUS
  <2> HIDE DEF g
  <2>3. \A w \in Window(n) : w[2] - w[1] <= d => g[w] = f[w] BY <2>1, <2>2
  <2>4. ASSUME NEW w \in Window(n), w[2] - w[1] <= d + 1
        PROVE  g[w] = ProbeStep(pgs, at, since, g, w)
    <3>1. CASE w[1] >= w[2] BY <2>2, <3>1, Zenon DEF ProbeStep
    <3>2. CASE ~(w[1] >= w[2])
      <4> DEFINE a == <<w[1], Middle(w)>>
                 b == <<Middle(w) + 1, w[2]>>
      <4>0. w[1] < w[2] BY <1>0, <3>2
      <4>1. /\ Middle(w) \in w[1]..(w[2] - 1)
            /\ a \in Window(n) /\ b \in Window(n)
            /\ Middle(w) - w[1] < w[2] - w[1] /\ w[2] - (Middle(w) + 1) < w[2] - w[1]
        BY <4>0, MiddleIn
      <4>2. a[2] - a[1] <= d /\ b[2] - b[1] <= d BY <1>0, <2>4, <4>1
      <4> HIDE DEF a, b
      <4>3. g[a] = f[a] /\ g[b] = f[b] BY <2>3, <4>1, <4>2
      <4>4. ProbeStep(pgs, at, since, g, w) = ProbeStep(pgs, at, since, f, w)
        BY <4>3, ProbeSame DEF a, b
      <4> QED BY <2>2, <4>4
    <3> QED BY <3>1, <3>2
  <2>5. d + 1 \in 0..n OBVIOUS
  <2>6. Good(g, d + 1) BY <2>4
  <2> QED BY <2>5, <2>6
<1> HIDE DEF T
<1>3. \A d \in 0..n : d \in T BY <1>1, <1>2, Upward
<1>4. n \in T BY <1>3
<1>5. PICK f : Good(f, n) BY <1>4 DEF T
<1>6. \A w \in Window(n) : f[w] = ProbeStep(pgs, at, since, f, w) BY <1>0, <1>5
<1> DEFINE g == [w \in Window(n) |-> f[w]]
<1>7. \A w \in Window(n) : g[w] = f[w] OBVIOUS
<1>8. g = [w \in Window(n) |-> g[w]] OBVIOUS
<1> HIDE DEF g
<1>9. ASSUME NEW w \in Window(n) PROVE g[w] = ProbeStep(pgs, at, since, g, w)
  <2>1. CASE w[1] >= w[2] BY <1>6, <1>7, <2>1, Zenon DEF ProbeStep
  <2>2. CASE ~(w[1] >= w[2])
    <3> DEFINE a == <<w[1], Middle(w)>>
               b == <<Middle(w) + 1, w[2]>>
    <3>0. w[1] < w[2] BY <1>0, <2>2
    <3>1. a \in Window(n) /\ b \in Window(n) BY <3>0, MiddleIn
    <3> HIDE DEF a, b
    <3>2. g[a] = f[a] /\ g[b] = f[b] BY <1>7, <3>1
    <3>3. ProbeStep(pgs, at, since, g, w) = ProbeStep(pgs, at, since, f, w)
      BY <3>2, ProbeSame DEF a, b
    <3> QED BY <1>6, <1>7, <3>3
  <2> QED BY <2>1, <2>2
<1>10. g = [w \in Window(n) |-> ProbeStep(pgs, at, since, g, w)] BY <1>8, <1>9
<1> DEFINE h == ProbeOf(pgs, n, at, since)
<1>11. h = [w \in Window(n) |-> ProbeStep(pgs, at, since, h, w)] BY <1>10, Zenon DEF ProbeOf
<1> HIDE DEF h
<1>12. \A w \in Window(n) : h[w] = ProbeStep(pgs, at, since, h, w) BY <1>11
<1> QED BY <1>12 DEF h

(* The search stays within the pages. *)
LEMMA ProbeRange ==
    ASSUME NEW pgs, NEW n \in Nat, NEW at, NEW since
    PROVE  \A w \in Window(n) : ProbeOf(pgs, n, at, since)[w] \in 0..n
<1> DEFINE f == ProbeOf(pgs, n, at, since)
           T == {d \in 0..n : \A w \in Window(n) : w[2] - w[1] <= d => f[w] \in 0..n}
<1>0. \A w \in Window(n) : w[1] \in 0..n /\ w[2] \in 0..n BY DEF Window
<1>a. \A w \in Window(n) : f[w] = ProbeStep(pgs, at, since, f, w) BY ProbeIs
<1> HIDE DEF f
<1>1. 0 \in T
  <2>1. ASSUME NEW w \in Window(n), w[2] - w[1] <= 0 PROVE f[w] \in 0..n
    <3>1. w[1] >= w[2] BY <1>0, <2>1
    <3>2. f[w] = w[1] BY <1>a, <3>1, Zenon DEF ProbeStep
    <3> QED BY <1>0, <3>2
  <2>2. 0 \in 0..n OBVIOUS
  <2> QED BY <2>1, <2>2
<1>2. ASSUME NEW d \in 0..(n - 1), d \in T PROVE d + 1 \in T
  <2>1. ASSUME NEW w \in Window(n), w[2] - w[1] <= d + 1 PROVE f[w] \in 0..n
    <3>1. CASE w[1] >= w[2]
      <4>1. f[w] = w[1] BY <1>a, <3>1, Zenon DEF ProbeStep
      <4> QED BY <1>0, <4>1
    <3>2. CASE ~(w[1] >= w[2])
      <4> DEFINE a == <<w[1], Middle(w)>>
                 b == <<Middle(w) + 1, w[2]>>
      <4>0. w[1] < w[2] BY <1>0, <3>2
      <4>1. /\ Middle(w) \in w[1]..(w[2] - 1)
            /\ a \in Window(n) /\ b \in Window(n)
            /\ Middle(w) - w[1] < w[2] - w[1] /\ w[2] - (Middle(w) + 1) < w[2] - w[1]
        BY <4>0, MiddleIn
      <4>2. a[2] - a[1] <= d /\ b[2] - b[1] <= d BY <1>0, <2>1, <4>1
      <4>3. f[w] \in {0, f[a], f[b]} BY <1>a, <3>2 DEF ProbeStep, Middle
      <4> HIDE DEF a, b
      <4>4. f[a] \in 0..n /\ f[b] \in 0..n BY <1>2, <4>1, <4>2
      <4> QED BY <4>3, <4>4
    <3> QED BY <3>1, <3>2
  <2>2. d + 1 \in 0..n OBVIOUS
  <2> QED BY <2>1, <2>2
<1> HIDE DEF T
<1>3. \A d \in 0..n : d \in T BY <1>1, <1>2, Upward
<1>4. n \in T BY <1>3
<1>5. \A w \in Window(n) : w[2] - w[1] <= n BY <1>0
<1> QED BY <1>4, <1>5 DEF T, f

(* Every fact of the first k pages is older than the cursor. *)
Older(pgs, at, since, k) ==
    \A i \in 0..(k - 1) : \A j \in DOMAIN pgs[at + i].facts : pgs[at + i].facts[j].tx <= since

(* If the last fact of a page is not newer, nothing before it is. *)
LastSpeaks(pgs, n, at, since) ==
    \A k \in 0..(n - 1) :
        LET facts == pgs[at + k].facts IN
        facts # <<>> /\ ~(facts[Len(facts)].tx > since) => Older(pgs, at, since, k + 1)

(* What the search skips is older than the cursor. *)
LEMMA ProbeOlder ==
    ASSUME NEW pgs, NEW n \in Nat, NEW at, NEW since, LastSpeaks(pgs, n, at, since)
    PROVE  \A w \in Window(n) : Older(pgs, at, since, w[1]) =>
              Older(pgs, at, since, ProbeOf(pgs, n, at, since)[w])
<1> DEFINE f == ProbeOf(pgs, n, at, since)
           Old(k) == Older(pgs, at, since, k)
           T == {d \in 0..n : \A w \in Window(n) : w[2] - w[1] <= d => (Old(w[1]) => Old(f[w]))}
<1>0. \A w \in Window(n) : w[1] \in 0..n /\ w[2] \in 0..n BY DEF Window
<1>a. \A w \in Window(n) : f[w] = ProbeStep(pgs, at, since, f, w) BY ProbeIs
<1>b. Old(0) BY DEF Older
<1>c. \A k \in 0..(n - 1) :
        LET facts == pgs[at + k].facts IN
        facts # <<>> /\ ~(facts[Len(facts)].tx > since) => Old(k + 1)
  BY DEF LastSpeaks
<1> HIDE DEF f, Old
<1>1. 0 \in T
  <2>1. ASSUME NEW w \in Window(n), w[2] - w[1] <= 0, Old(w[1]) PROVE Old(f[w])
    <3>1. w[1] >= w[2] BY <1>0, <2>1
    <3>2. f[w] = w[1] BY <1>a, <3>1, Zenon DEF ProbeStep
    <3> QED BY <2>1, <3>2
  <2>2. 0 \in 0..n OBVIOUS
  <2> QED BY <2>1, <2>2
<1>2. ASSUME NEW d \in 0..(n - 1), d \in T PROVE d + 1 \in T
  <2>1. ASSUME NEW w \in Window(n), w[2] - w[1] <= d + 1, Old(w[1]) PROVE Old(f[w])
    <3>1. CASE w[1] >= w[2]
      <4>1. f[w] = w[1] BY <1>a, <3>1, Zenon DEF ProbeStep
      <4> QED BY <2>1, <4>1
    <3>2. CASE ~(w[1] >= w[2])
      <4> DEFINE m == Middle(w)
                 a == <<w[1], m>>
                 b == <<m + 1, w[2]>>
                 facts == pgs[at + m].facts
      <4>0. w[1] < w[2] BY <1>0, <3>2
      <4>1. /\ m \in w[1]..(w[2] - 1)
            /\ a \in Window(n) /\ b \in Window(n)
            /\ m - w[1] < w[2] - w[1] /\ w[2] - (m + 1) < w[2] - w[1]
        BY <4>0, MiddleIn
      <4>2. a[2] - a[1] <= d /\ b[2] - b[1] <= d /\ m \in 0..(n - 1) BY <1>0, <2>1, <4>1
      <4>3. a[1] = w[1] /\ b[1] = m + 1 OBVIOUS
      <4>4. f[w] = IF facts = <<>> THEN 0 ELSE IF facts[Len(facts)].tx > since THEN f[a] ELSE f[b]
        BY <1>a, <3>2, Zenon DEF ProbeStep, Middle
      <4> HIDE DEF a, b
      <4>5. /\ Old(w[1]) => Old(f[a])
            /\ Old(m + 1) => Old(f[b])
        BY <1>2, <4>1, <4>2, <4>3
      <4>6. facts # <<>> /\ ~(facts[Len(facts)].tx > since) => Old(m + 1) BY <1>c, <4>2
      <4> HIDE DEF facts
      <4> QED BY <1>b, <2>1, <4>4, <4>5, <4>6
    <3> QED BY <3>1, <3>2
  <2>2. d + 1 \in 0..n OBVIOUS
  <2> QED BY <2>1, <2>2
<1> HIDE DEF T
<1>3. \A d \in 0..n : d \in T BY <1>1, <1>2, Upward
<1>4. n \in T BY <1>3
<1>5. \A w \in Window(n) : w[2] - w[1] <= n BY <1>0
<1> QED BY <1>4, <1>5 DEF T, f, Old

(* The search ends in the run of pages, and the pages it skips are not     *)
(* newer than `since`.                                                     *)
LEMMA TailOlder ==
    ASSUME NEW pgs, NEW n \in Nat, NEW at, NEW since
    PROVE  /\ TailPage(pgs, n, at, since) \in 0..n
           /\ LastSpeaks(pgs, n, at, since) =>
                 Older(pgs, at, since, TailPage(pgs, n, at, since))
<1> DEFINE w == <<0, n>>
           r == TailPage(pgs, n, at, since)
<1>1. w \in Window(n) BY DEF Window
<1>2. r = ProbeOf(pgs, n, at, since)[w] BY TailIs
<1>3. w[1] = 0 /\ Older(pgs, at, since, 0) BY DEF Older
<1> HIDE DEF w, r
<1>4. r \in 0..n BY <1>1, <1>2, ProbeRange
<1>5. ASSUME LastSpeaks(pgs, n, at, since) PROVE Older(pgs, at, since, r)
  BY <1>1, <1>2, <1>3, <1>5, ProbeOlder
<1> QED BY <1>4, <1>5 DEF r

-----------------------------------------------------------------------------
(* Packing.                                                                *)

(* Multiplication is monotone. *)
LEMMA TimesMonotone ==
    ASSUME NEW i \in Nat, NEW k \in Nat, NEW c \in Nat, i <= k PROVE i * c <= k * c
OBVIOUS

(* One page more is one capacity more. *)
LEMMA TimesStep == ASSUME NEW i \in Nat, NEW c \in Nat PROVE (i + 1) * c = i * c + c /\ i * c \in Nat
OBVIOUS

(* What a quotient is. *)
LEMMA DivBounds ==
    ASSUME NEW a \in Nat, NEW c \in Nat \ {0}
    PROVE  /\ a \div c \in Nat /\ (a \div c) * c <= a /\ a < (a \div c) * c + c
OBVIOUS

(* The pages for a sequence hold it, and all but the last are full. *)
LEMMA PagesForBounds ==
    ASSUME NEW s \in Seq(Facts)
    PROVE  /\ PagesFor(s) \in Nat \ {0}
           /\ PagesFor(s) * PageCapacity >= Len(s)
           /\ (PagesFor(s) - 1) * PageCapacity <= Len(s)
<1> DEFINE n == PagesFor(s)
           c == PageCapacity
           L == Len(s)
<1>1. c \in Nat \ {0} /\ L \in Nat BY PublicationAssumption
<1>2. CASE s = <<>>
  <2>1. n = 1 /\ L = 0 BY <1>2 DEF PagesFor
  <2> HIDE DEF n, L
  <2> QED BY <1>1, <2>1 DEF n, L
<1>3. CASE s # <<>>
  <2> DEFINE a == L + c - 1
  <2>1. L >= 1 BY <1>3
  <2>2. n = a \div c BY <1>3 DEF PagesFor
  <2>3. a \in Nat BY <1>1, <2>1
  <2> HIDE DEF n, a, c, L
  <2>4. n \in Nat /\ n * c <= a /\ a < n * c + c BY <1>1, <2>2, <2>3, DivBounds
  <2>5. a = L + c - 1 BY DEF a
  <2>6. n * c \in Nat BY <1>1, <2>4
  <2>7. n * c >= L BY <1>1, <2>4, <2>5, <2>6
  <2>8. n # 0
    <3> SUFFICES ASSUME n = 0 PROVE FALSE OBVIOUS
    <3>1. n * c = 0 BY <1>1
    <3> QED BY <2>1, <2>7, <3>1, <1>1
  <2>9. n - 1 \in Nat BY <2>4, <2>8
  <2>10. ((n - 1) + 1) * c = (n - 1) * c + c /\ (n - 1) * c \in Nat BY <1>1, <2>9, TimesStep
  <2>11. (n - 1) + 1 = n BY <2>4
  <2>12. (n - 1) * c <= L BY <1>1, <2>4, <2>5, <2>6, <2>10, <2>11
  <2> QED BY <2>4, <2>7, <2>8, <2>12 DEF n, c, L
<1> QED BY <1>2, <1>3

(* Packing a sequence and reading the pages back gives the sequence. *)
LEMMA PackedPages ==
    ASSUME NEW s \in Seq(Facts), NEW p, NEW at \in Nat,
           \A i \in 0..(PagesFor(s) - 1) : p[at + i].facts = PageOf(s, i)
    PROVE  /\ Concat(p, PagesFor(s), at, 0) = s
           /\ \A i \in 0..(PagesFor(s) - 1) : PageOf(s, i) \in Seq(Facts)
<1> DEFINE n == PagesFor(s)
           c == PageCapacity
           L == Len(s)
           R(i) == SubSeq(s, i * c + 1, L)
           T == {i \in 0..n : Concat(p, n, at, i) = R(i)}
<1>1. c \in Nat \ {0} /\ L \in Nat BY PublicationAssumption
<1>2. n \in Nat \ {0} /\ n * c >= L /\ (n - 1) * c <= L BY PagesForBounds
<1>3. \A i \in 0..(n - 1) : p[at + i].facts = PageOf(s, i) OBVIOUS
<1> HIDE DEF n
<1>4. ASSUME NEW i \in 0..(n - 1)
      PROVE  PageOf(s, i) \in Seq(Facts) /\ PageOf(s, i) \o R(i + 1) = R(i)
  <2> DEFINE a == i * c
             b == (i + 1) * c
             k == IF b <= L THEN b ELSE L
  <2>1. i \in Nat /\ n - 1 \in Nat /\ i <= n - 1 BY <1>2
  <2>2. b = a + c /\ a \in Nat BY <1>1, <2>1, TimesStep
  <2>3. a <= L
    <3>1. i * c <= (n - 1) * c BY <1>1, <2>1, TimesMonotone
    <3>2. (n - 1) * c \in Nat BY <1>1, <2>1, TimesStep
    <3> QED BY <1>1, <1>2, <2>2, <3>1, <3>2
  <2>4. PageOf(s, i) = SubSeq(s, a + 1, k) BY DEF PageOf
  <2>5. R(i) = SubSeq(s, a + 1, L) /\ R(i + 1) = SubSeq(s, b + 1, L) OBVIOUS
  <2> HIDE DEF a, b, R
  <2>6. a + 1 \in 1..(L + 1) /\ k \in ((a + 1) - 1)..L /\ L \in k..L BY <1>1, <2>2, <2>3
  <2>7. SubSeq(s, a + 1, k) \o SubSeq(s, k + 1, L) = SubSeq(s, a + 1, L)
    BY <2>6, ConcatAdjacentSubSeq, Zenon
  <2>8. SubSeq(s, k + 1, L) = SubSeq(s, b + 1, L)
    <3>1. CASE b <= L BY <3>1, Zenon
    <3>2. CASE ~(b <= L)
      <4>1. k = L BY <3>2
      <4>2. SubSeq(s, k + 1, L) = <<>> BY <1>1, <4>1
      <4>3. SubSeq(s, b + 1, L) = <<>> BY <1>1, <2>2, <3>2
      <4> QED BY <4>2, <4>3, Zenon
    <3> QED BY <3>1, <3>2, Zenon
  <2>9. SubSeq(s, a + 1, k) \in Seq(Facts)
    <3>1. a + 1 \in Nat /\ k \in Nat /\ 1 <= a + 1 /\ k <= L BY <2>6, <1>1, <2>2
    <3> HIDE DEF k
    <3> QED BY <3>1
  <2> QED BY <2>4, <2>5, <2>7, <2>8, <2>9, Zenon
<1>5. n \in T
  <2>1. Concat(p, n, at, n) = <<>> BY <1>2, ConcatEnd
  <2>2. n * c \in Nat BY <1>1, <1>2, TimesStep
  <2>3. R(n) = <<>> BY <1>1, <1>2, <2>2
  <2>4. n \in 0..n BY <1>2
  <2> HIDE DEF R
  <2> QED BY <2>1, <2>3, <2>4
<1>6. ASSUME NEW i \in 0..(n - 1), i + 1 \in T PROVE i \in T
  <2>1. Concat(p, n, at, i) = p[at + i].facts \o Concat(p, n, at, i + 1) BY <1>2, ConcatStep, Zenon
  <2>2. Concat(p, n, at, i + 1) = R(i + 1) BY <1>6
  <2> HIDE DEF R
  <2>3. Concat(p, n, at, i) = R(i) BY <1>3, <1>4, <2>1, <2>2, Zenon
  <2>4. i \in 0..n BY <1>2
  <2> QED BY <2>3, <2>4
<1> HIDE DEF T
<1>7. \A i \in 0..n : i \in T BY <1>2, <1>5, <1>6, Downward
<1>8. 0 \in T BY <1>2, <1>7
<1>9. Concat(p, n, at, 0) = R(0) BY <1>8 DEF T
<1>10. R(0) = s
  <2>1. 0 * c = 0 BY <1>1
  <2>2. R(0) = SubSeq(s, 1, L) BY <2>1
  <2> QED BY <2>2, SubSeqFull, Zenon
<1> QED BY <1>4, <1>9, <1>10, Zenon DEF n

-----------------------------------------------------------------------------
(* Ordered logs, and the pages that hold a base.                           *)

Ordered(s) == \A i, j \in 1..Len(s) : i <= j => s[i].tx <= s[j].tx

(* n fact pages from page `at` on in `f`, in the catalog `cat` if there is one, hold `facts`. *)
Pages(f, n, at, facts, cat) ==
    /\ n \in Nat /\ at \in Nat \ {0} /\ facts \in Seq(Facts)
    /\ \A i \in 0..(n - 1) :
          /\ at + i \in DOMAIN f /\ f[at + i].kind = "facts"
          /\ cat # None => at + i \in DOMAIN cat /\ cat[at + i] = f[at + i]
    /\ Concat(f, n, at, 0) = facts

-----------------------------------------------------------------------------
(* Scans of the base.                                                      *)

(* Concatenation is associative. *)
LEMMA Assoc ==
    ASSUME NEW x \in Seq(Facts), NEW y \in Seq(Facts), NEW z \in Seq(Facts)
    PROVE  x \o (y \o z) = (x \o y) \o z
<1>1. (x \o y) \o z = x \o (y \o z) BY ConcatAssociative
<1> QED BY <1>1

(* The elements of a concatenation. *)
LEMMA JoinAt ==
    ASSUME NEW s \in Seq(Facts), NEW t \in Seq(Facts)
    PROVE  /\ s \o t \in Seq(Facts) /\ Len(s \o t) = Len(s) + Len(t)
           /\ \A i \in 1..Len(s) : (s \o t)[i] = s[i]
           /\ \A i \in 1..Len(t) : (s \o t)[Len(s) + i] = t[i]
OBVIOUS

(* The fields of a fact are numbers. *)
LEMMA FactNumbers == ASSUME NEW f \in Facts PROVE f.tx \in Nat /\ f.entity \in Nat
BY PublicationAssumption DEF Facts

(* Everything before page k, as one sequence. *)
HeldBefore(p, n, at, k) ==
    \E u \in Seq(Facts) :
        /\ Concat(p, n, at, 0) = u \o Concat(p, n, at, k)
        /\ \A i \in 0..(k - 1) : \A j \in 1..Len(p[at + i].facts) :
              \E x \in 1..Len(u) : u[x] = p[at + i].facts[j]

(* The facts of a run of pages are those of its first k pages and those of *)
(* the others.                                                             *)
LEMMA PagesBefore ==
    ASSUME NEW p, NEW n \in Nat, NEW at \in Nat,
           \A i \in 0..(n - 1) : p[at + i].facts \in Seq(Facts)
    PROVE  \A k \in 0..n : HeldBefore(p, n, at, k)
<1> DEFINE C(k) == Concat(p, n, at, k)
           Has(u, k) == \A i \in 0..(k - 1) : \A j \in 1..Len(p[at + i].facts) :
                           \E x \in 1..Len(u) : u[x] = p[at + i].facts[j]
           T == {k \in 0..n : \E u \in Seq(Facts) : C(0) = u \o C(k) /\ Has(u, k)}
<1>1. \A k \in 0..n : C(k) \in Seq(Facts) BY ConcatType, Zenon
<1>2. \A k \in 0..(n - 1) : C(k) = p[at + k].facts \o C(k + 1) BY ConcatStep, Zenon
<1> HIDE DEF C
<1>3. 0 \in T
  <2>1. C(0) = <<>> \o C(0)
    <3>1. C(0) \in Seq(Facts) BY <1>1
    <3> QED BY <3>1
  <2>2. Has(<<>>, 0) OBVIOUS
  <2>3. 0 \in 0..n /\ <<>> \in Seq(Facts) OBVIOUS
  <2> QED BY <2>1, <2>2, <2>3, Zenon
<1>4. ASSUME NEW k \in 0..(n - 1), k \in T PROVE k + 1 \in T
  <2>1. PICK u \in Seq(Facts) : C(0) = u \o C(k) /\ Has(u, k) BY <1>4, Zenon
  <2> DEFINE y == p[at + k].facts
             v == u \o y
  <2>2a. k \in 0..n /\ k + 1 \in 0..n OBVIOUS
  <2>2b. y \in Seq(Facts) BY Zenon
  <2>2. y \in Seq(Facts) /\ k \in 0..n /\ k + 1 \in 0..n BY <2>2a, <2>2b
  <2>3. C(k) = y \o C(k + 1) /\ C(k + 1) \in Seq(Facts) BY <1>1, <1>2, <2>2, Zenon
  <2>4. ASSUME NEW i \in 0..k, NEW j \in 1..Len(p[at + i].facts)
        PROVE  \E x \in 1..Len(v) : v[x] = p[at + i].facts[j]
    <3>1. Len(u) \in Nat /\ Len(y) \in Nat /\ Len(v) = Len(u) + Len(y) BY <2>2
    <3>2. CASE i = k
      <4>1. Len(u) + j \in 1..Len(v) /\ v[Len(u) + j] = y[j] BY <2>2, <2>4, <3>1, <3>2
      <4> QED BY <3>2, <4>1
    <3>3. CASE i # k
      <4>1. i \in 0..(k - 1) BY <3>3
      <4>2. PICK x \in 1..Len(u) : u[x] = p[at + i].facts[j] BY <2>1, <4>1, Zenon
      <4>3. x \in 1..Len(v) /\ v[x] = u[x] BY <2>2, <3>1
      <4> QED BY <4>2, <4>3
    <3> QED BY <3>2, <3>3
  <2> HIDE DEF y
  <2>5. v \in Seq(Facts) BY <2>2
  <2>6. C(0) = v \o C(k + 1)
    <3> DEFINE w == C(k + 1)
    <3>1. C(0) = u \o (y \o w) /\ w \in Seq(Facts) BY <2>1, <2>3
    <3> HIDE DEF w
    <3>2. u \o (y \o w) = (u \o y) \o w BY <2>2, <3>1, Assoc
    <3> QED BY <3>1, <3>2, Zenon DEF w
  <2>7. Has(v, k + 1)
    <3>1. (k + 1) - 1 = k OBVIOUS
    <3> QED BY <2>4, <3>1, Zenon
  <2> HIDE DEF v
  <2> QED BY <2>2, <2>5, <2>6, <2>7, Zenon
<1> HIDE DEF T
<1>5. \A k \in 0..n : k \in T BY <1>3, <1>4, Upward
<1> QED BY <1>5, Zenon DEF T, C, HeldBefore

(* Indices of pages. *)
LEMMA IndexNext ==
    ASSUME NEW n \in Nat, NEW k \in 0..(n - 1)
    PROVE  /\ k \in 0..n /\ k + 1 \in 0..n
           /\ \A i \in 0..k : i \in 0..(n - 1)
OBVIOUS

(* In ordered pages the last fact of a page speaks for all before it. *)
LEMMA OrderedSpeaks ==
    ASSUME NEW p, NEW n \in Nat, NEW at \in Nat, NEW since \in Nat,
           \A i \in 0..(n - 1) : p[at + i].facts \in Seq(Facts),
           Ordered(Concat(p, n, at, 0))
    PROVE  LastSpeaks(p, n, at, since)
<1> SUFFICES ASSUME NEW k \in 0..(n - 1), p[at + k].facts # <<>>,
                    ~(p[at + k].facts[Len(p[at + k].facts)].tx > since),
                    NEW i \in 0..k, NEW j \in DOMAIN p[at + i].facts
             PROVE  p[at + i].facts[j].tx <= since
  <2>1. \A m \in 0..(n - 1) : (m + 1) - 1 = m OBVIOUS
  <2> QED BY <2>1, Zenon DEF LastSpeaks, Older
<1> DEFINE y == p[at + k].facts
           z == p[at + i].facts
           c == Concat(p, n, at, 0)
           r == Concat(p, n, at, k + 1)
           q == Concat(p, n, at, k)
<1>1. y \in Seq(Facts) /\ z \in Seq(Facts) /\ k \in 0..n /\ k + 1 \in 0..n
  <2>1. k \in 0..n /\ k + 1 \in 0..n /\ i \in 0..(n - 1) BY IndexNext, Zenon
  <2>2. y \in Seq(Facts) /\ z \in Seq(Facts) BY <2>1, Zenon
  <2> QED BY <2>1, <2>2, Zenon
<1>1a. HeldBefore(p, n, at, k) BY <1>1, PagesBefore, Zenon
<1>2. PICK u \in Seq(Facts) :
        /\ c = u \o q
        /\ \A a \in 0..(k - 1) : \A b \in 1..Len(p[at + a].facts) :
              \E x \in 1..Len(u) : u[x] = p[at + a].facts[b]
  BY <1>1a, Zenon DEF HeldBefore
<1>3. r \in Seq(Facts) /\ q = y \o r BY <1>1, ConcatType, ConcatStep, Zenon
<1>4a. j \in 1..Len(z)
  <2>1. DOMAIN z = 1..Len(z) BY <1>1
  <2> QED BY <2>1
<1>4b. Len(y) \in 1..Len(y)
  <2>1. y # <<>> OBVIOUS
  <2> HIDE DEF y
  <2> QED BY <1>1, <2>1
<1>4. j \in 1..Len(z) /\ Len(y) \in 1..Len(y) BY <1>4a, <1>4b
<1>5. \E x \in 1..(Len(u) + Len(y)) : (u \o y)[x] = z[j]
  <2>1. CASE i = k
    <3>1. Len(u) + j \in 1..(Len(u) + Len(y)) /\ (u \o y)[Len(u) + j] = y[j] BY <1>1, <1>4, <2>1
    <3> QED BY <2>1, <3>1, Zenon
  <2>2. CASE i # k
    <3>1. i \in 0..(k - 1) BY <2>2
    <3>2. PICK x \in 1..Len(u) : u[x] = z[j] BY <1>2, <1>4, <3>1, Zenon
    <3>3. x \in 1..(Len(u) + Len(y)) /\ (u \o y)[x] = u[x] BY <1>1
    <3> QED BY <3>2, <3>3
  <2> QED BY <2>1, <2>2
<1> HIDE DEF c, r, q, y, z
<1>6. PICK x \in 1..(Len(u) + Len(y)) : (u \o y)[x] = z[j] BY <1>5
<1> DEFINE e == Len(u) + Len(y)
<1>7. c = (u \o y) \o r BY <1>1, <1>2, <1>3, Assoc, Zenon
<1>8a. u \o y \in Seq(Facts) /\ Len(u \o y) = e BY <1>1
<1>8. /\ Len(u) \in Nat /\ Len(y) \in Nat /\ Len(r) \in Nat /\ Len(c) = e + Len(r)
      /\ \A a \in 1..e : c[a] = (u \o y)[a]
  <2> DEFINE v == u \o y
  <2>1. Len(u) \in Nat /\ Len(y) \in Nat /\ Len(r) \in Nat BY <1>1, <1>3
  <2>2. c = v \o r /\ v \in Seq(Facts) /\ Len(v) = e BY <1>7, <1>8a
  <2> HIDE DEF v
  <2>2a. Len(v \o r) = Len(v) + Len(r) /\ \A a \in 1..Len(v) : (v \o r)[a] = v[a]
    BY <1>3, <2>2, JoinAt, Zenon
  <2>3. Len(c) = Len(v) + Len(r) /\ \A a \in 1..Len(v) : c[a] = v[a] BY <2>2, <2>2a
  <2> QED BY <2>1, <2>2, <2>3 DEF v
<1>9. (u \o y)[e] = y[Len(y)] BY <1>1, <1>4
<1>10. x \in 1..Len(c) /\ e \in 1..Len(c) /\ e \in 1..e /\ x <= e BY <1>4, <1>8
<1>11. c[x].tx <= c[e].tx BY <1>10 DEF Ordered, c
<1>12. c[x] = z[j] /\ c[e] = y[Len(y)] BY <1>6, <1>8, <1>9, <1>10
<1>13. y[Len(y)] \in Facts /\ z[j] \in Facts BY <1>1, <1>4
<1>14. y[Len(y)].tx \in Nat /\ z[j].tx \in Nat BY <1>13, FactNumbers
<1>15. ~(y[Len(y)].tx > since) BY DEF y
<1>16. z[j].tx <= since BY <1>11, <1>12, <1>14, <1>15
<1> QED BY <1>16 DEF z

(* Skipping pages with nothing newer changes nothing of what is newer. *)
LEMMA SkipOlder ==
    ASSUME NEW p, NEW n \in Nat, NEW at \in Nat, NEW since \in Nat, NEW k \in 0..n,
           \A i \in 0..(n - 1) : p[at + i].facts \in Seq(Facts),
           Older(p, at, since, k)
    PROVE  Kept(Concat(p, n, at, k), After(since)) = Kept(Concat(p, n, at, 0), After(since))
<1> DEFINE C(i) == Concat(p, n, at, i)
           A == After(since)
           T == {i \in 0..k : Kept(C(i), A) = Kept(C(0), A)}
<1>1. \A i \in 0..n : C(i) \in Seq(Facts) BY ConcatType, Zenon
<1>2. \A i \in 0..(n - 1) : C(i) = p[at + i].facts \o C(i + 1) BY ConcatStep, Zenon
<1> HIDE DEF C
<1>3. 0 \in T OBVIOUS
<1>4. ASSUME NEW i \in 0..(k - 1), i \in T PROVE i + 1 \in T
  <2> DEFINE y == p[at + i].facts
  <2>1. i \in 0..(n - 1) /\ i + 1 \in 0..n /\ i + 1 \in 0..k OBVIOUS
  <2>2. y \in Seq(Facts) BY <2>1
  <2>3. \A j \in 1..Len(y) : y[j].tx \notin A
    <3> TAKE j \in 1..Len(y)
    <3>0. DOMAIN y = 1..Len(y) BY <2>2
    <3>1. y[j].tx <= since BY <3>0, Zenon DEF Older
    <3>2. y[j] \in Facts BY <2>2
    <3>3. y[j].tx \in Nat BY <3>2, FactNumbers
    <3> QED BY <3>1, <3>3 DEF After
  <2>4. C(i + 1) \in Seq(Facts) /\ C(i) = y \o C(i + 1) BY <1>1, <1>2, <2>1, Zenon
  <2> HIDE DEF y, A
  <2>5. Kept(y, A) = <<>> BY <2>2, <2>3, KeptNone
  <2>6. Kept(C(i), A) = Kept(y, A) \o Kept(C(i + 1), A) BY <2>2, <2>4, KeptConcat
  <2>7. Kept(C(i + 1), A) \in Seq(Facts) BY <2>4, KeptType
  <2>8. <<>> \o Kept(C(i + 1), A) = Kept(C(i + 1), A) BY <2>7
  <2>9. Kept(C(i), A) = Kept(C(0), A) BY <1>4
  <2> QED BY <2>1, <2>5, <2>6, <2>8, <2>9
<1> HIDE DEF T
<1>5. \A i \in 0..k : i \in T BY <1>3, <1>4, Upward
<1>6. k \in T BY <1>5
<1> QED BY <1>6 DEF T, C

(* The binary search misses nothing newer than the cursor. *)
LEMMA TailExact ==
    ASSUME NEW p, NEW n \in Nat, NEW at \in Nat, NEW since \in Nat,
           \A i \in 0..(n - 1) : p[at + i].facts \in Seq(Facts),
           Ordered(Concat(p, n, at, 0))
    PROVE  Kept(Concat(p, n, at, IF since = 0 THEN 0 ELSE TailPage(p, n, at, since)), After(since))
              = Kept(Concat(p, n, at, 0), After(since))
<1> DEFINE k == TailPage(p, n, at, since)
<1>1. LastSpeaks(p, n, at, since) BY OrderedSpeaks, Zenon
<1>2. k \in 0..n /\ Older(p, at, since, k) BY <1>1, TailOlder
<1> HIDE DEF k
<1>3. Kept(Concat(p, n, at, k), After(since)) = Kept(Concat(p, n, at, 0), After(since))
  BY <1>2, SkipOlder, Zenon
<1> QED BY <1>3 DEF k

-----------------------------------------------------------------------------
(* More about Kept.                                                        *)

(* What is kept was there and has a number in S. *)
LEMMA KeptIn ==
    ASSUME NEW s \in Seq(Facts), NEW S
    PROVE  \A i \in 1..Len(Kept(s, S)) :
              Kept(s, S)[i].tx \in S /\ \E j \in 1..Len(s) : s[j] = Kept(s, S)[i]
<1> DEFINE Ok(r) == \A i \in 1..Len(Kept(r, S)) :
                       Kept(r, S)[i].tx \in S /\ \E j \in 1..Len(r) : r[j] = Kept(r, S)[i]
           T == {r \in Seq(Facts) : Ok(r)}
<1>1. <<>> \in T
  <2>1. Kept(<<>>, S) = <<>> /\ <<>> \in Seq(Facts) BY KeptEmpty
  <2> QED BY <2>1
<1>2. ASSUME NEW r \in Seq(Facts), NEW e \in Facts, r \in T PROVE Append(r, e) \in T
  <2> DEFINE q == Kept(r, S)
             t == Append(r, e)
             k == Kept(t, S)
  <2>1. q \in Seq(Facts) BY KeptType
  <2>2. k = IF e.tx \in S THEN Append(q, e) ELSE q BY KeptAppend
  <2>3. t \in Seq(Facts) /\ Len(t) = Len(r) + 1 /\ t[Len(r) + 1] = e /\ Len(r) \in Nat
        /\ \A j \in 1..Len(r) : t[j] = r[j]
    OBVIOUS
  <2>4. \A i \in 1..Len(q) : q[i].tx \in S /\ \E j \in 1..Len(r) : r[j] = q[i] BY <1>2
  <2> HIDE DEF q, t, k
  <2>5. ASSUME NEW i \in 1..Len(q) PROVE q[i].tx \in S /\ \E j \in 1..Len(t) : t[j] = q[i]
    <3>1. PICK j \in 1..Len(r) : r[j] = q[i] BY <2>4
    <3>2. j \in 1..Len(t) /\ t[j] = q[i] BY <2>3, <3>1
    <3> QED BY <2>4, <3>2
  <2>6. CASE e.tx \notin S BY <2>2, <2>3, <2>5, <2>6, Zenon DEF k, t
  <2>7. CASE e.tx \in S
    <3>1. k = Append(q, e) BY <2>2, <2>7
    <3>2. Len(q) \in Nat /\ Len(k) = Len(q) + 1 /\ k[Len(q) + 1] = e
          /\ \A i \in 1..Len(q) : k[i] = q[i]
      BY <2>1, <3>1
    <3>3. ASSUME NEW i \in 1..Len(k) PROVE k[i].tx \in S /\ \E j \in 1..Len(t) : t[j] = k[i]
      <4>1. CASE i = Len(q) + 1
        <5>1. Len(r) + 1 \in 1..Len(t) BY <2>3
        <5> QED BY <2>3, <2>7, <3>2, <4>1, <5>1
      <4>2. CASE i # Len(q) + 1
        <5>1. i \in 1..Len(q) BY <3>2, <4>2
        <5> QED BY <2>5, <3>2, <5>1, Zenon
      <4> QED BY <4>1, <4>2
    <3> QED BY <2>3, <3>3, Zenon DEF k, t
  <2> QED BY <2>6, <2>7
<1> HIDE DEF T
<1>3. s \in T BY <1>1, <1>2, SeqUpward
<1> QED BY <1>3 DEF T

(* A prefix of an ordered sequence is ordered. *)
LEMMA OrderedPrefix ==
    ASSUME NEW s \in Seq(Facts), NEW t \in Seq(Facts), Ordered(s \o t) PROVE Ordered(s)
<1>1. /\ Len(s \o t) = Len(s) + Len(t) /\ Len(s) \in Nat /\ Len(t) \in Nat
      /\ \A i \in 1..Len(s) : (s \o t)[i] = s[i]
  BY JoinAt
<1>2. ASSUME NEW i \in 1..Len(s), NEW j \in 1..Len(s), i <= j PROVE s[i].tx <= s[j].tx
  <2>1. i \in 1..Len(s \o t) /\ j \in 1..Len(s \o t) BY <1>1
  <2>2. (s \o t)[i].tx <= (s \o t)[j].tx BY <1>2, <2>1 DEF Ordered
  <2> QED BY <1>1, <2>2
<1> QED BY <1>2 DEF Ordered

(* When a sequence stays ordered with one more fact. *)
LEMMA OrderedAppend ==
    ASSUME NEW s \in Seq(Facts), NEW e \in Facts
    PROVE  Ordered(Append(s, e)) <=> Ordered(s) /\ \A i \in 1..Len(s) : s[i].tx <= e.tx
<1> DEFINE t == Append(s, e)
           n == Len(s)
<1>1. n \in Nat /\ Len(t) = n + 1 /\ t[n + 1] = e /\ \A i \in 1..n : t[i] = s[i] OBVIOUS
<1>2. e.tx \in Nat /\ e.tx <= e.tx BY FactNumbers
<1> HIDE DEF t, n
<1>3. ASSUME Ordered(t) PROVE Ordered(s) /\ \A i \in 1..n : s[i].tx <= e.tx
  <2>1. \A i, j \in 1..(n + 1) : i <= j => t[i].tx <= t[j].tx BY <1>1, <1>3 DEF Ordered
  <2>2. \A i, j \in 1..n : i <= j => s[i].tx <= s[j].tx BY <1>1, <2>1
  <2>3. \A i \in 1..n : s[i].tx <= e.tx BY <1>1, <2>1
  <2> QED BY <2>2, <2>3 DEF Ordered, n
<1>4. ASSUME Ordered(s), \A i \in 1..n : s[i].tx <= e.tx PROVE Ordered(t)
  <2>1. \A i, j \in 1..n : i <= j => s[i].tx <= s[j].tx BY <1>4 DEF Ordered, n
  <2>2. ASSUME NEW i \in 1..(n + 1), NEW j \in 1..(n + 1), i <= j PROVE t[i].tx <= t[j].tx
    <3>1. CASE j = n + 1 /\ i = n + 1 BY <1>1, <1>2, <3>1
    <3>2. CASE j = n + 1 /\ i # n + 1
      <4>1. i \in 1..n BY <1>1, <3>2
      <4> QED BY <1>1, <1>4, <3>2, <4>1
    <3>3. CASE j # n + 1
      <4>1. i \in 1..n /\ j \in 1..n BY <1>1, <2>2, <3>3
      <4> QED BY <1>1, <2>1, <2>2, <4>1
    <3> QED BY <3>1, <3>2, <3>3
  <2> QED BY <1>1, <2>2 DEF Ordered
<1> QED BY <1>3, <1>4 DEF t, n

(* An ordered log is what lies up to a number, then what lies after it. *)
LEMMA KeptSplit ==
    ASSUME NEW s \in Seq(Facts), NEW c \in Nat, Ordered(s)
    PROVE  Kept(s, 0..c) \o Kept(s, After(c)) = s
<1> DEFINE A == After(c)
           B == 0..c
           T == {r \in Seq(Facts) : Ordered(r) => Kept(r, B) \o Kept(r, A) = r}
<1>0. \A x \in Nat : (x \in A <=> x > c) /\ (x \in B <=> x <= c) BY DEF After
<1> HIDE DEF A, B
<1>1. <<>> \in T
  <2>1. Kept(<<>>, A) = <<>> /\ Kept(<<>>, B) = <<>> BY KeptEmpty
  <2>2. <<>> \in Seq(Facts) /\ <<>> \o <<>> = <<>> OBVIOUS
  <2> QED BY <2>1, <2>2
<1>2. ASSUME NEW r \in Seq(Facts), NEW e \in Facts, r \in T PROVE Append(r, e) \in T
  <2> DEFINE t == Append(r, e)
             a == Kept(r, A)
             b == Kept(r, B)
  <2>1. t \in Seq(Facts) /\ a \in Seq(Facts) /\ b \in Seq(Facts) BY KeptType
  <2>2. /\ Kept(t, A) = IF e.tx \in A THEN Append(a, e) ELSE a
        /\ Kept(t, B) = IF e.tx \in B THEN Append(b, e) ELSE b
    BY KeptAppend
  <2>3. ASSUME Ordered(t) PROVE Kept(t, B) \o Kept(t, A) = t
    <3>1. Ordered(r) /\ \A i \in 1..Len(r) : r[i].tx <= e.tx BY <2>3, OrderedAppend
    <3>2. b \o a = r BY <1>2, <3>1
    <3>3. e.tx \in Nat BY FactNumbers
    <3>4. CASE e.tx > c
      <4>1. e.tx \in A /\ e.tx \notin B BY <1>0, <3>3, <3>4
      <4>2. Kept(t, B) \o Kept(t, A) = b \o Append(a, e) BY <2>2, <4>1, Zenon
      <4>3. Append(b \o a, e) = b \o Append(a, e) BY <2>1, AppendJoin, Zenon
      <4> QED BY <3>2, <4>2, <4>3
    <3>5. CASE e.tx <= c
      <4>1. e.tx \in B /\ e.tx \notin A BY <1>0, <3>3, <3>5
      <4>2. ASSUME NEW i \in 1..Len(r) PROVE r[i].tx \notin A
        <5>1. r[i] \in Facts OBVIOUS
        <5>2. r[i].tx \in Nat BY <5>1, FactNumbers
        <5>3. r[i].tx <= c BY <3>1, <3>3, <3>5, <5>2
        <5>4. ~(r[i].tx > c) BY <5>2, <5>3
        <5> QED BY <1>0, <5>2, <5>4
      <4>3. a = <<>> BY <4>2, KeptNone
      <4>4. Kept(t, B) \o Kept(t, A) = Append(b, e) \o <<>> BY <2>2, <4>1, <4>3
      <4>5. b = r
        <5>1. b \o <<>> = b BY <2>1
        <5> QED BY <3>2, <4>3, <5>1
      <4>6. Append(b, e) \o <<>> = Append(b, e)
        <5>1. Append(b, e) \in Seq(Facts) BY <2>1
        <5> QED BY <5>1, ConcatEmptySeq
      <4> QED BY <4>4, <4>5, <4>6
    <3> QED BY <3>3, <3>4, <3>5
  <2> QED BY <2>1, <2>3, Zenon
<1> HIDE DEF T
<1>3. s \in T BY <1>1, <1>2, SeqUpward
<1> QED BY <1>3 DEF T, A, B

(* A fact with the greatest number. *)
LEMMA Newest ==
    ASSUME NEW s \in Seq(Facts), s # <<>>
    PROVE  \E i \in 1..Len(s) : \A j \in 1..Len(s) : s[i].tx >= s[j].tx
<1> DEFINE Ok(r) == \E i \in 1..Len(r) : \A j \in 1..Len(r) : r[i].tx >= r[j].tx
           T == {r \in Seq(Facts) : r # <<>> => Ok(r)}
<1>1. <<>> \in T OBVIOUS
<1>2. ASSUME NEW r \in Seq(Facts), NEW e \in Facts, r \in T PROVE Append(r, e) \in T
  <2> DEFINE t == Append(r, e)
             n == Len(r)
  <2>1. t \in Seq(Facts) /\ n \in Nat /\ Len(t) = n + 1 /\ t[n + 1] = e
        /\ \A i \in 1..n : t[i] = r[i]
    OBVIOUS
  <2>2. \A i \in 1..n : r[i].tx \in Nat
    <3> TAKE i \in 1..n
    <3>1. r[i] \in Facts OBVIOUS
    <3> QED BY <3>1, FactNumbers
  <2>3. e.tx \in Nat BY FactNumbers
  <2>4. r # <<>> => n > 0 OBVIOUS
  <2>5. r = <<>> => n = 0 OBVIOUS
  <2>6. r # <<>> => \E i \in 1..n : \A j \in 1..n : r[i].tx >= r[j].tx BY <1>2
  <2> HIDE DEF t, n
  <2>7. \E i \in 1..(n + 1) : \A j \in 1..(n + 1) : t[i].tx >= t[j].tx
    <3>1. CASE \A j \in 1..n : e.tx >= r[j].tx
      <4>1. n + 1 \in 1..(n + 1) BY <2>1
      <4>2. \A j \in 1..(n + 1) : j # n + 1 => j \in 1..n BY <2>1
      <4>3. \A j \in 1..(n + 1) : t[n + 1].tx >= t[j].tx BY <2>1, <2>3, <3>1, <4>2
      <4> QED BY <4>1, <4>3
    <3>2. CASE ~\A j \in 1..n : e.tx >= r[j].tx
      <4>1. PICK k \in 1..n : ~(e.tx >= r[k].tx) BY <3>2
      <4>2. r # <<>> BY <2>1, <2>5, <4>1
      <4>3. PICK i \in 1..n : \A j \in 1..n : r[i].tx >= r[j].tx BY <2>6, <4>2
      <4>4. r[i].tx >= e.tx BY <2>2, <2>3, <4>1, <4>3
      <4>5. \A j \in 1..(n + 1) : j # n + 1 => j \in 1..n BY <2>1
      <4>6. i \in 1..(n + 1) /\ t[i] = r[i] BY <2>1
      <4>7. \A j \in 1..(n + 1) : t[i].tx >= t[j].tx BY <2>1, <4>3, <4>4, <4>5, <4>6, Zenon
      <4> QED BY <4>6, <4>7, Zenon
    <3> QED BY <3>1, <3>2
  <2>8. Ok(t) BY <2>1, <2>7
  <2> QED BY <2>1, <2>8, Zenon DEF t
<1> HIDE DEF T
<1>3. s \in T BY <1>1, <1>2, SeqUpward
<1> QED BY <1>3 DEF T
=============================================================================
