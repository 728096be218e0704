--------------------------- MODULE BrowserProofs ----------------------------
(***************************************************************************)
(* The remaining steps of Browser and the theorems about it.               *)
(***************************************************************************)
EXTENDS BrowserSteps

-----------------------------------------------------------------------------
(* The continuations of a transaction.                                     *)

(* The continuation of an aborted transaction                              *)
(* (flush_dirty_pages_or_restore) keeps the invariant.                     *)
LEMMA AbortedInv ==
    ASSUME Inv, NEW h \in Handles, Aborted(h) PROVE Inv'
<1> DEFINE d == db[h]
           p == [d EXCEPT !.op.at = "page0"]
           f == FinishMutation(d, FALSE)
<1>1. /\ d.op # None /\ d.op.at = "aborted" /\ UNCHANGED <<store, images, rejected, published>>
  BY DEF Aborted, At, histories
<1>2. HandleOk(d, published) /\ OpOk(d, published) /\ Shape(d) BY <1>1 DEF Inv, HandleOk
<1>3. CASE d.op.kind = "open"
  <2>1. Set(h, Closed) BY <1>3 DEF Aborted
  <2>2. ~Pending(Closed) BY DEF Pending, Closed
  <2> QED BY <1>1, <2>1, <2>2, ClosedOk, Quiet
<1>4. CASE d.op.kind = "write"
  <2>1. Set(h, p) BY <1>4 DEF Aborted
  <2>2. "page0" \in Places BY DEF Places
  <2> HIDE DEF d
  <2>3. HandleOk(p, published) BY <1>1, <1>2, <1>4, <2>2, MoveOk
  <2>4. Moved(p, d, "page0") BY <1>1, <1>2, <2>2, MoveFields
  <2>5. Pending(p) => Pending(d) /\ p.op.id = d.op.id BY <1>1, <2>4 DEF Pending, Moved
  <2> HIDE DEF p
  <2> QED BY <1>1, <2>1, <2>3, <2>5, Quiet DEF d
<1>5. CASE d.op.kind # "open" /\ d.op.kind # "write"
  <2>1. Set(h, f) BY <1>5, Zenon DEF Aborted
  <2>2. InStep(d) BY <1>2, <1>5 DEF OpOk, MaintainOp, ImportOp, Mutations
  <2>3. /\ d.status = "open" /\ ViewRead(d) /\ ViewOk(d)
        /\ d.pinned \in published /\ d.pinned.format # "legacy"
    BY <1>1, <1>2, <1>5, InMutation
  <2> HIDE DEF d
  <2>4. HandleOk(f, published) /\ f.op = None BY <1>2, <2>2, <2>3, FinishOk, Zenon
  <2> HIDE DEF f
  <2>5. ~Pending(f) BY <2>4 DEF Pending
  <2> QED BY <1>1, <2>1, <2>4, <2>5, Quiet
<1> QED BY <1>3, <1>4, <1>5

(* The image a mutation publishes extends the one it had pinned, unless    *)
(* it was imported.                                                        *)
LEMMA PublishedPrefix ==
    ASSUME Inv, NEW h \in Handles, At(h, "tx") \/ At(h, "committed"),
           db[h].op.kind # "open", db[h].op.kind # "import"
    PROVE  IsPrefix(db[h].pinned.ledger, db[h].op.next.ledger)
<1> DEFINE d == db[h]
<1>1. /\ d.op # None /\ d.op.at \in {"tx", "committed"}
      /\ HandleOk(d, published) /\ OpOk(d, published)
  BY DEF At, Inv, HandleOk
<1>2. d.pinned \in published BY <1>1, InMutation
<1>3. d.pinned.ledger \in Seq(Entry) BY <1>2, PublishedIds DEF Images
<1>4. CASE d.op.kind = "write"
  <2>1. d.op.id \in Nat /\ WriteOp(d) BY <1>1, <1>4 DEF OpOk
  <2> DEFINE x == [id |-> d.op.id, saw |-> Len(d.pinned.ledger)]
  <2>2. x \in Entry BY <1>3, <2>1 DEF Entry
  <2>3. d.op.next.ledger = Append(d.pinned.ledger, x) BY <2>1 DEF WriteOp
  <2> HIDE DEF x, d
  <2>4. IsPrefix(d.pinned.ledger, Append(d.pinned.ledger, x)) BY <1>3, <2>2, PrefixAppend
  <2> QED BY <2>3, <2>4 DEF d
<1>5. CASE d.op.kind # "write"
  <2>1. d.op.kind \in {"maintain", "rebuild"} BY <1>1, <1>5 DEF OpOk, Mutations
  <2>2. d.op.next.ledger = d.pinned.ledger BY <1>1, <2>1 DEF OpOk, MaintainOp
  <2> HIDE DEF d
  <2>3. IsPrefix(d.pinned.ledger, d.pinned.ledger) BY <1>3, PrefixSelf
  <2> QED BY <2>2, <2>3 DEF d
<1> QED BY <1>4, <1>5

(* A view of the old pinned image is one of the new. *)
LEMMA ViewMoves ==
    ASSUME NEW d, NEW e, ViewOk(d), e.view = d.view, d.pinned \in Images, e.pinned \in Images,
           IsPrefix(d.pinned.ledger, e.pinned.ledger)
    PROVE  ViewOk(e)
<1>1. d.pinned.ledger \in Seq(Entry) /\ e.pinned.ledger \in Seq(Entry) BY DEF Images
<1>2. d.view # None => d.view.ledger \in Seq(Entry) BY DEF ViewOk
<1> DEFINE v == d.view.ledger
           p == d.pinned.ledger
           q == e.pinned.ledger
<1>3. ASSUME v \in Seq(Entry), IsPrefix(v, p) PROVE IsPrefix(v, q)
  <2>1. p \in Seq(Entry) /\ q \in Seq(Entry) /\ IsPrefix(p, q) BY <1>1
  <2> HIDE DEF v, p, q
  <2> QED BY <1>3, <2>1, PrefixTrans
<1> QED BY <1>2, <1>3 DEF ViewOk

(* The continuation of a committed transaction (finish_mutation) keeps the *)
(* invariant.                                                              *)
LEMMA CommittedInv ==
    ASSUME Inv, NEW h \in Handles, Committed(h) PROVE Inv'
<1> DEFINE o == db[h]
           n == o.op.next
           d == [o EXCEPT !.pinned = n]
           s == [d EXCEPT !.live = d.op.next,
                          !.paged = d.mode # "eager" /\ d.op.next.format = "current"]
<1>1. /\ o.op # None /\ o.op.at = "committed" /\ At(h, "committed")
      /\ UNCHANGED <<store, images, rejected, published>>
  BY DEF Committed, At, histories
<1>2. HandleOk(o, published) /\ OpOk(o, published) /\ Shape(o) BY <1>1 DEF Inv, HandleOk
<1>3. n \in published /\ n \in Images /\ n.format \in {"current", "truncated"}
  <2>1. n \in published /\ n \in Images BY <1>1, <1>2 DEF OpOk
  <2>2. n.format # "legacy"
    <3>1. o.op.kind = "open" => n.format = "current" BY <1>1, <1>2, BuiltImages DEF OpOk, OpenOp
    <3>2. o.op.kind \in {"write", "maintain", "rebuild", "import"} => n.format # "legacy"
      BY <1>1, <1>2 DEF OpOk, WriteOp, MaintainOp, ImportOp
    <3>3. o.op.kind = "open" \/ o.op.kind \in {"write", "maintain", "rebuild", "import"}
      BY <1>2 DEF OpOk, Mutations
    <3> QED BY <3>1, <3>2, <3>3
  <2> QED BY <2>1, <2>2 DEF Images
<1>4. \/ o.op.kind = "open" /\ Set(h, [s EXCEPT !.status = "open", !.op = None])
      \/ o.op.kind = "write" /\ Set(h, FinishMutation(d, FALSE))
      \/ o.op.kind = "maintain" /\ Set(h, FinishMutation(s, FALSE))
      \/ o.op.kind = "import" /\ Set(h, FinishMutation([s EXCEPT !.view =
                IF s.view = None THEN None ELSE [s.view EXCEPT !.replaced = TRUE]], FALSE))
      \/ o.op.kind = "rebuild" /\ Set(h, [d EXCEPT !.op.at = "page0"])
  <2>1. d.op = o.op BY <1>2 DEF Shape, HandleFields
  <2>2. o.op.kind \in {"open", "write", "maintain", "rebuild", "import"}
    BY <1>2 DEF OpOk, Mutations
  <2> QED BY <2>1, <2>2, Zenon DEF Committed
<1>5. o.op.kind # "open" /\ o.op.kind # "import" => IsPrefix(o.pinned.ledger, n.ledger)
  BY <1>1, PublishedPrefix
<1>6. o.op.kind # "open" =>
        /\ o.status = "open" /\ o.mutation /\ ~o.poisoned /\ ~o.pagedRead /\ ViewRead(o)
        /\ ViewOk(o) /\ o.pinned \in published /\ o.pinned \in Images
  BY <1>1, <1>2, InMutation, PublishedIds
<1> HIDE DEF o, n
<1>7. /\ d = [k \in HandleFields |-> d[k]] /\ d.pinned = n
      /\ d.status = o.status /\ d.mode = o.mode /\ d.paged = o.paged /\ d.live = o.live
      /\ d.mutation = o.mutation /\ d.poisoned = o.poisoned
      /\ d.rolledBack = o.rolledBack /\ d.advanced = o.advanced
      /\ d.pagedRead = o.pagedRead /\ d.rd = o.rd /\ d.view = o.view /\ d.op = o.op
  BY <1>2 DEF Shape, HandleFields
<1>8. Shape(d) BY <1>2, <1>7 DEF Shape
<1> HIDE DEF d
<1>9. /\ s = [k \in HandleFields |-> s[k]] /\ s.pinned = n /\ s.live = d.op.next
      /\ s.paged = (d.mode # "eager" /\ d.op.next.format = "current")
      /\ s.status = o.status
      /\ s.mutation = o.mutation /\ s.poisoned = o.poisoned
      /\ s.rolledBack = o.rolledBack /\ s.advanced = o.advanced
      /\ s.pagedRead = o.pagedRead /\ s.rd = o.rd /\ s.view = o.view
  BY <1>7, <1>8, Zenon DEF Shape, HandleFields
<1>10. s.live = n BY <1>7, <1>9, Zenon DEF n
<1>11. Shape(s)
  <2>1. s.paged \in BOOLEAN BY <1>9
  <2> QED BY <1>8, <1>7, <1>9, <2>1, Zenon DEF Shape
<1> HIDE DEF s
<1>12. InStep(s) BY <1>9, <1>10 DEF InStep
<1>13. CASE o.op.kind = "open"
  <2> DEFINE e == [s EXCEPT !.status = "open", !.op = None]
  <2>1. /\ e = [k \in HandleFields |-> e[k]] /\ e.status = "open" /\ e.op = None
        /\ e.pinned = s.pinned /\ e.live = s.live /\ e.paged = s.paged
        /\ e.mutation = s.mutation /\ e.poisoned = s.poisoned
        /\ e.rolledBack = s.rolledBack /\ e.advanced = s.advanced
        /\ e.pagedRead = s.pagedRead /\ e.rd = s.rd /\ e.view = s.view
    BY <1>11, Zenon DEF Shape, HandleFields
  <2>2. Set(h, e) BY <1>4, <1>13
  <2> HIDE DEF e
  <2>3. Shape(e) BY <1>11, <2>1 DEF Shape
  <2>4. o.status = "opening" BY <1>2, <1>13 DEF OpOk, OpenOp
  <2>5. o.rd = None /\ o.view = None /\ ~o.mutation /\ ~o.pagedRead /\ ~o.poisoned
    BY <1>2, <2>4 DEF HandleOk
  <2>6. InStep(e) /\ ViewOk(e) BY <1>9, <1>12, <2>1, <2>5 DEF InStep, ViewOk
  <2>7. OpenOk(e, published) BY <1>3, <1>9, <2>1, <2>5, <2>6 DEF OpenOk
  <2>8. HandleOk(e, published) BY <2>1, <2>3, <2>7 DEF HandleOk
  <2>9. ~Pending(e) BY <2>1 DEF Pending
  <2> QED BY <1>1, <2>2, <2>8, <2>9, Quiet
<1>14. CASE o.op.kind = "write"
  <2> DEFINE e == FinishMutation(d, FALSE)
  <2>1. ViewRead(d) BY <1>6, <1>7, <1>14 DEF ViewRead
  <2>2. ViewOk(d) BY <1>3, <1>5, <1>6, <1>7, <1>14, ViewMoves
  <2>3. InStep(d)
    <3>1. o.live = n BY <1>2, <1>14 DEF OpOk, WriteOp, n
    <3> QED BY <1>7, <3>1 DEF InStep
  <2>4. d.status = "open" /\ d.pinned \in published /\ d.pinned.format # "legacy"
    BY <1>3, <1>6, <1>7, <1>14
  <2>5. HandleOk(e, published) /\ e.op = None BY <1>8, <2>1, <2>2, <2>3, <2>4, FinishOk, Zenon
  <2>6. Set(h, e) BY <1>4, <1>14, Zenon
  <2> HIDE DEF e
  <2>7. ~Pending(e) BY <2>5 DEF Pending
  <2> QED BY <1>1, <2>5, <2>6, <2>7, Quiet
<1>15. CASE o.op.kind = "maintain"
  <2> DEFINE e == FinishMutation(s, FALSE)
  <2>1. ViewRead(s) BY <1>6, <1>9, <1>15 DEF ViewRead
  <2>2. ViewOk(s) BY <1>3, <1>5, <1>6, <1>9, <1>15, ViewMoves
  <2>3. s.status = "open" /\ s.pinned \in published /\ s.pinned.format # "legacy"
    BY <1>3, <1>6, <1>9, <1>15
  <2>4. HandleOk(e, published) /\ e.op = None BY <1>11, <1>12, <2>1, <2>2, <2>3, FinishOk, Zenon
  <2>5. Set(h, e) BY <1>4, <1>15, Zenon
  <2> HIDE DEF e
  <2>6. ~Pending(e) BY <2>4 DEF Pending
  <2> QED BY <1>1, <2>4, <2>5, <2>6, Quiet
<1>16. CASE o.op.kind = "import"
  <2> DEFINE v == IF s.view = None THEN None ELSE [s.view EXCEPT !.replaced = TRUE]
             c == [s EXCEPT !.view = v]
             e == FinishMutation(c, FALSE)
  <2>1. Set(h, e) BY <1>4, <1>16, Zenon
  <2>2. v # None => v = [k \in ViewFields |-> v[k]] /\ v.ledger \in Seq(Entry) /\ v.replaced = TRUE
    <3>1. s.view # None => s.view = [k \in ViewFields |-> s.view[k]] /\ s.view.ledger \in Seq(Entry)
      BY <1>6, <1>9, <1>16, Zenon DEF ViewOk
    <3> QED BY <3>1, Zenon DEF ViewFields
  <2> HIDE DEF v
  <2>3. /\ c = [k \in HandleFields |-> c[k]] /\ c.view = v
        /\ c.status = s.status /\ c.live = s.live /\ c.paged = s.paged
        /\ c.pinned = s.pinned /\ c.mutation = s.mutation /\ c.poisoned = s.poisoned
        /\ c.rolledBack = s.rolledBack /\ c.advanced = s.advanced
        /\ c.pagedRead = s.pagedRead /\ c.rd = s.rd /\ c.op = s.op
    BY <1>11 DEF Shape, HandleFields
  <2> HIDE DEF c
  <2>4. Shape(c) BY <1>11, <2>3 DEF Shape
  <2>5. ViewRead(c) BY <1>6, <1>9, <1>16, <2>3 DEF ViewRead
  <2>6. ViewOk(c) BY <2>2, <2>3 DEF ViewOk
  <2>7. InStep(c) BY <1>12, <2>3 DEF InStep
  <2>8. c.status = "open" /\ c.pinned \in published /\ c.pinned.format # "legacy"
    BY <1>3, <1>6, <1>9, <1>16, <2>3
  <2>9. HandleOk(e, published) /\ e.op = None BY <2>4, <2>5, <2>6, <2>7, <2>8, FinishOk, Zenon
  <2> HIDE DEF e
  <2>10. ~Pending(e) BY <2>9 DEF Pending
  <2> QED BY <1>1, <2>1, <2>9, <2>10, Quiet
<1>17. CASE o.op.kind = "rebuild"
  <2> DEFINE e == [d EXCEPT !.op.at = "page0"]
  <2>1. d.op # None /\ d.op.kind = "rebuild" /\ d.op \in Mutations /\ d.op.id \in Nat
    BY <1>1, <1>2, <1>7, <1>17 DEF OpOk
  <2>2. Set(h, e) BY <1>4, <1>17
  <2>3. ViewRead(d) BY <1>6, <1>7, <1>17 DEF ViewRead
  <2>4. ViewOk(d) BY <1>3, <1>5, <1>6, <1>7, <1>17, ViewMoves
  <2>5. MaintainOp(o) BY <1>2, <1>17 DEF OpOk
  <2>6. n.ledger = o.pinned.ledger /\ n.format = "current" BY <1>1, <2>5 DEF MaintainOp, n
  <2>7. InStep(d) /\ d.live.format = "current"
    BY <1>7, <1>17, <2>5, <2>6 DEF MaintainOp, InStep
  <2>8. MaintainOp(d) BY <1>1, <1>7, <1>17, <2>6, <2>7 DEF MaintainOp, n
  <2>9. OpOk(d, published)
    BY <1>1, <1>2, <1>3, <1>6, <1>7, <1>17, <2>1, <2>8 DEF OpOk, n
  <2>10. OpenOk(d, published)
    BY <1>3, <1>6, <1>7, <1>17, <2>1, <2>3, <2>4 DEF OpenOk, ViewRead, ReadOk
  <2>11. HandleOk(d, published) BY <1>6, <1>7, <1>8, <1>17, <2>9, <2>10 DEF HandleOk
  <2>12. "page0" \in Places BY DEF Places
  <2>13. HandleOk(e, published) BY <2>1, <2>11, <2>12, MoveOk
  <2>14. Moved(e, d, "page0") BY <2>1, <2>11, <2>12, MoveFields
  <2>15. ~Pending(e) BY <2>1, <2>14 DEF Pending, Moved
  <2> HIDE DEF e
  <2> QED BY <1>1, <2>2, <2>13, <2>15, Quiet
<1> QED BY <1>4, <1>13, <1>14, <1>15, <1>16, <1>17, Zenon

-----------------------------------------------------------------------------
(* Calls that change the graph.                                            *)

(* begin_mutation, with the call that goes on. *)
Begun(e, d) ==
    /\ Shape(e) /\ e.mutation /\ ~e.rolledBack
    /\ e.status = d.status /\ e.pinned = d.pinned /\ e.paged = d.paged /\ e.mode = d.mode
    /\ e.poisoned = d.poisoned /\ e.pagedRead = d.pagedRead /\ e.rd = d.rd /\ e.view = d.view

(* begin_mutation sets the mutation guard and resets the outcome flags,    *)
(* nothing else.                                                           *)
LEMMA BeginFields ==
    ASSUME NEW d, Shape(d)
    PROVE  LET e == BeginMutation(d)
           IN  Begun(e, d) /\ e.live = d.live /\ e.op = d.op /\ ~e.advanced
<1> DEFINE e == BeginMutation(d)
<1>1. /\ e = [k \in HandleFields |-> e[k]]
      /\ e.mutation = TRUE /\ e.rolledBack = FALSE /\ e.advanced = FALSE
      /\ e.status = d.status /\ e.mode = d.mode /\ e.paged = d.paged /\ e.live = d.live
      /\ e.pinned = d.pinned /\ e.poisoned = d.poisoned
      /\ e.pagedRead = d.pagedRead /\ e.rd = d.rd /\ e.view = d.view /\ e.op = d.op
  BY Zenon DEF Shape, HandleFields, BeginMutation
<1> HIDE DEF e
<1>2. Shape(e) BY <1>1, Zenon DEF Shape
<1>3. Begun(e, d) /\ e.live = d.live /\ e.op = d.op /\ ~e.advanced BY <1>1, <1>2 DEF Begun
<1> QED BY <1>3 DEF e

(* A write puts its entry behind the live ledger and suspends at its       *)
(* transaction.                                                            *)
LEMMA AdvanceFields ==
    ASSUME NEW d, Shape(d), NEW saw
    PROVE  LET e == Advance(d, saw)
               n == Image(images, Append(d.live.ledger, [id |-> images, saw |-> saw]), "current")
           IN  Begun(e, d) /\ e.advanced /\ e.live = n /\ e.op = Op("write", "tx", n, images)
<1> DEFINE n == Image(images, Append(d.live.ledger, [id |-> images, saw |-> saw]), "current")
           o == Op("write", "tx", n, images)
           b == BeginMutation(d)
           e == [b EXCEPT !.advanced = TRUE, !.live = n, !.op = o]
<1>1. Advance(d, saw) = e BY DEF Advance
<1>2. Begun(b, d) BY BeginFields
<1>3. Shape(b) BY <1>2 DEF Begun
<1> HIDE DEF b, n, o
<1>4. /\ e = [k \in HandleFields |-> e[k]]
      /\ e.mutation = b.mutation /\ e.rolledBack = b.rolledBack /\ e.advanced = TRUE
      /\ e.status = b.status /\ e.mode = b.mode /\ e.paged = b.paged /\ e.live = n
      /\ e.pinned = b.pinned /\ e.poisoned = b.poisoned
      /\ e.pagedRead = b.pagedRead /\ e.rd = b.rd /\ e.view = b.view /\ e.op = o
  BY <1>3, Zenon DEF Shape, HandleFields
<1> HIDE DEF e
<1>5. Shape(e) BY <1>3, <1>4, Zenon DEF Shape
<1>6. Begun(e, d) /\ e.advanced /\ e.live = n /\ e.op = o BY <1>2, <1>4, <1>5, Zenon DEF Begun
<1> QED BY <1>1, <1>6 DEF n, o

(* A usable handle, whether the read that resolved a forget was its last.  *)
Ready(d) ==
    /\ Shape(d) /\ d.status = "open" /\ InStep(d) /\ ViewOk(d) /\ ViewRead(d)
    /\ d.pinned \in published /\ d.pinned.format # "legacy" /\ ~d.poisoned /\ ~d.pagedRead

(* A write over the whole live ledger leaves its handle sound. *)
LEMMA AdvanceOk ==
    ASSUME Inv, NEW d, Ready(d), d.live.format = "current", NEW saw, saw = Len(d.live.ledger)
    PROVE  LET e == Advance(d, saw)
           IN  HandleOk(e, published) /\ e.op.id = images
<1> DEFINE x == [id |-> images, saw |-> saw]
           n == Image(images, Append(d.live.ledger, x), "current")
           o == Op("write", "tx", n, images)
           e == Advance(d, saw)
<1>1. Begun(e, d) /\ e.advanced /\ e.live = n /\ e.op = o BY AdvanceFields DEF Ready
<1>2. images \in Nat BY DEF Inv, IdsOk
<1>3. d.live.ledger = d.pinned.ledger /\ d.pinned.format = "current" BY DEF Ready, InStep
<1>4. d.pinned.ledger \in Seq(Entry) BY PublishedIds DEF Ready, Images
<1>5. x \in Entry BY <1>2, <1>3, <1>4 DEF Entry
<1>6. n.ledger = Append(d.pinned.ledger, x) /\ n.format = "current" BY <1>3 DEF Image
<1>7. n \in Images
  <2> HIDE DEF x
  <2>1. Append(d.pinned.ledger, x) \in Seq(Entry) BY <1>4, <1>5
  <2> QED BY <1>2, <1>3, <2>1 DEF Image, Images
<1>8. x = [id |-> images, saw |-> Len(d.pinned.ledger)] BY <1>3
<1> HIDE DEF n, x, e
<1>9. o \in Mutations /\ o.kind = "write" /\ o.at = "tx" /\ o.next = n /\ o.id = images
  BY <1>2, <1>7 DEF Op, Mutations, Places
<1>10. o # None BY <1>9, BrowserAssumption
<1> HIDE DEF o
<1>11. WriteOp(e) BY <1>1, <1>3, <1>6, <1>8, <1>9 DEF WriteOp, Begun
<1>12. OpOk(e, published)
  BY <1>1, <1>2, <1>7, <1>9, <1>11 DEF OpOk, Begun, Ready
<1>13. OpenOk(e, published)
  BY <1>1, <1>10 DEF OpenOk, Begun, Ready, ViewRead, ReadOk, ViewOk
<1>14. HandleOk(e, published) BY <1>1, <1>12, <1>13 DEF HandleOk, Begun, Ready
<1>15. e.op.id = images BY <1>1, <1>9
<1> QED BY <1>14, <1>15 DEF e

(* A handle that may begin a mutation has live and pinned state in step. *)
LEMMA UsableReady ==
    ASSUME Inv, NEW h \in Handles, MayMutate(db[h]) PROVE Ready(db[h])
BY Usable DEF Inv, Ready

(* Applying a write in memory keeps the invariant. *)
LEMMA ApplyWriteInv ==
    ASSUME Inv, NEW h \in Handles, ApplyWrite(h) PROVE Inv'
<1> DEFINE d == db[h]
           saw == Len(d.live.ledger)
           e == Advance(d, saw)
<1>1. /\ MayMutate(d) /\ d.live.format = "current" /\ images' = images + 1 /\ Set(h, e)
      /\ UNCHANGED <<store, rejected, published>>
  BY DEF ApplyWrite, histories
<1>2. Ready(d) BY <1>1, UsableReady
<1> HIDE DEF d
<1>3. HandleOk(e, published) /\ e.op.id = images BY <1>1, <1>2, AdvanceOk
<1> HIDE DEF e
<1> QED BY <1>1, <1>3, Numbered

(* A save that fails before its transaction keeps the invariant. *)
LEMMA SaveFailsInv ==
    ASSUME Inv, NEW h \in Handles, SaveFails(h) PROVE Inv'
<1> DEFINE d == db[h]
           saw == Len(d.live.ledger)
           c == Advance(d, saw)
           e == FinishMutation(c, TRUE)
<1>1. /\ MayMutate(d) /\ images' = images + 1 /\ Set(h, e) /\ rejected' = rejected \cup {images}
      /\ UNCHANGED <<store, published>>
  BY Zenon DEF SaveFails
<1>2. Ready(d) BY <1>1, UsableReady
<1>3. Begun(c, d) /\ c.advanced
  <2> HIDE DEF d
  <2> QED BY <1>2, AdvanceFields, Zenon DEF Ready
<1> HIDE DEF c, d
<1>4. /\ Shape(c) /\ c.status = "open" /\ c.pinned \in published /\ c.pinned.format # "legacy"
      /\ ViewRead(c) /\ ~c.rolledBack
  BY <1>2, <1>3 DEF Begun, Ready, ViewRead
<1>5. HandleOk(e, published) /\ e.op = None BY <1>3, <1>4, FinishOk, Zenon
<1> HIDE DEF e
<1>6. /\ db' = [g \in Handles |-> db'[g]]
      /\ db'[h] = e /\ \A g \in Handles : g # h => db'[g] = db[g]
      /\ \A g \in Handles : HandleOk(db'[g], published')
  BY <1>1, <1>5, HandleStep
<1>7. IdsOk BY DEF Inv
<1>8. images \in Nat /\ images >= 3 BY <1>7 DEF IdsOk
<1>9. \A g \in Handles : Pending(db'[g]) => Pending(db[g]) /\ db'[g] = db[g]
  BY <1>5, <1>6 DEF Pending
<1>10. \A g \in Handles : Pending(db[g]) => db[g].op.id \in Nat
  BY DEF Inv, HandleOk, OpOk, Pending
<1>11. \A m \in published : \A t \in Ids(m.ledger) : t \in Nat
  <2>1. \A m \in published : m.ledger \in Seq(Entry) BY PublishedIds DEF Images
  <2> SUFFICES ASSUME NEW s \in Seq(Entry), NEW i \in DOMAIN s PROVE s[i].id \in Nat
    BY <2>1 DEF Ids
  <2>2. s[i] \in Entry OBVIOUS
  <2> QED BY <2>2 DEF Entry
<1>12. \A t \in Nat : t < images => t < images + 1 /\ t # images BY <1>8
<1>13. \A t \in rejected' : t \in Nat /\ 3 <= t /\ t < images'
  <2>1. \A t \in rejected : t \in Nat /\ 3 <= t /\ t < images BY <1>7 DEF IdsOk
  <2>2. 3 <= images /\ images < images + 1 BY <1>8
  <2> QED BY <1>1, <1>8, <1>12, <2>1, <2>2
<1>14. \A m \in published : \A t \in Ids(m.ledger) : t < images' /\ t \notin rejected'
  <2>1. \A m \in published : \A t \in Ids(m.ledger) : t < images /\ t \notin rejected
    BY <1>7 DEF IdsOk
  <2> QED BY <1>1, <1>11, <1>12, <2>1
<1>15. \A g \in Handles : Pending(db'[g]) =>
         /\ db'[g].op.id >= 3 /\ db'[g].op.id < images' /\ db'[g].op.id \notin rejected'
         /\ \A m \in published : db'[g].op.id \notin Ids(m.ledger)
  <2>1. \A g \in Handles : Pending(db[g]) =>
          /\ db[g].op.id >= 3 /\ db[g].op.id < images /\ db[g].op.id \notin rejected
          /\ \A m \in published : db[g].op.id \notin Ids(m.ledger)
    BY <1>7 DEF IdsOk
  <2> QED BY <1>1, <1>9, <1>10, <1>12, <2>1
<1>16. \A g, k \in Handles : Pending(db'[g]) /\ Pending(db'[k]) /\ g # k =>
         db'[g].op.id # db'[k].op.id
  BY <1>7, <1>9 DEF IdsOk
<1>17. images' \in Nat /\ images' >= 3 BY <1>1, <1>8
<1>18. IdsOk' BY <1>1, <1>13, <1>14, <1>15, <1>16, <1>17 DEF IdsOk
<1>19. ImagesOk' BY <1>1 DEF Inv, ImagesOk
<1> QED BY <1>6, <1>18, <1>19 DEF Inv

(* A refused atomic batch keeps the invariant. *)
LEMMA RefuseAtomicInv ==
    ASSUME Inv, NEW h \in Handles, RefuseAtomic(h) PROVE Inv'
<1> DEFINE d == db[h]
           c == BeginMutation(d)
           e == FinishMutation(c, TRUE)
<1>1. MayMutate(d) /\ Set(h, e) /\ UNCHANGED <<store, images, rejected, published>>
  BY Zenon DEF RefuseAtomic, EnsureUsable, MayMutate, histories
<1>2. Ready(d) BY <1>1, UsableReady
<1>3. Begun(c, d) /\ c.live = d.live
  <2> HIDE DEF d
  <2> QED BY <1>2, BeginFields DEF Ready
<1> HIDE DEF c, d
<1>4. /\ Shape(c) /\ c.status = "open" /\ c.pinned \in published /\ c.pinned.format # "legacy"
      /\ ViewRead(c) /\ InStep(c) /\ ViewOk(c)
  BY <1>2, <1>3 DEF Begun, Ready, ViewRead, InStep, ViewOk
<1>5. HandleOk(e, published) /\ e.op = None BY <1>4, FinishOk, Zenon
<1> HIDE DEF e
<1>6. ~Pending(e) BY <1>5 DEF Pending
<1> QED BY <1>1, <1>5, <1>6, Quiet

(* A checkpoint with nothing to flush keeps the invariant. *)
LEMMA CheckpointInv ==
    ASSUME Inv, NEW h \in Handles, Checkpoint(h) PROVE Inv'
<1> DEFINE d == db[h]
           b == BeginMutation(d)
           c == [b EXCEPT !.advanced = TRUE]
           e == FinishMutation(c, FALSE)
<1>1. MayMutate(d) /\ Set(h, e) /\ UNCHANGED <<store, images, rejected, published>>
  BY Zenon DEF Checkpoint, histories
<1>2. Ready(d) BY <1>1, UsableReady
<1>3. Begun(b, d) /\ b.live = d.live
  <2> HIDE DEF d
  <2> QED BY <1>2, BeginFields DEF Ready
<1> HIDE DEF b, d
<1>4. /\ c = [k \in HandleFields |-> c[k]]
      /\ c.mutation = b.mutation /\ c.rolledBack = b.rolledBack /\ c.advanced = TRUE
      /\ c.status = b.status /\ c.mode = b.mode /\ c.paged = b.paged /\ c.live = b.live
      /\ c.pinned = b.pinned /\ c.poisoned = b.poisoned
      /\ c.pagedRead = b.pagedRead /\ c.rd = b.rd /\ c.view = b.view
  BY <1>3, Zenon DEF Begun, Shape, HandleFields
<1> HIDE DEF c
<1>5. Shape(c) BY <1>3, <1>4, Zenon DEF Shape, Begun
<1>6. /\ c.status = "open" /\ c.pinned \in published /\ c.pinned.format # "legacy"
      /\ ViewRead(c) /\ InStep(c) /\ ViewOk(c)
  BY <1>2, <1>3, <1>4, SMTT(60) DEF Begun, Ready, ViewRead, InStep, ViewOk
<1>7. HandleOk(e, published) /\ e.op = None BY <1>5, <1>6, FinishOk, Zenon
<1> HIDE DEF e
<1>8. ~Pending(e) BY <1>7 DEF Pending
<1> QED BY <1>1, <1>7, <1>8, Quiet

(* The call of a mutation that leaves live state alone. *)
LEMMA BegunOk ==
    ASSUME Inv, NEW d, Ready(d), NEW o \in Mutations,
           \/ /\ o.kind \in {"maintain", "rebuild"} /\ o.at \in {"prefetch", "build"}
              /\ o.id \in Nat /\ (o.kind = "rebuild" => d.live.format = "current")
           \/ /\ o.kind = "import" /\ o.at = "tx" /\ o.next \in Images
              /\ o.next \in published \/ o.next.ledger = Native
              /\ o.next.format \in {"current", "truncated"}
    PROVE  LET e == [BeginMutation(d) EXCEPT !.op = o]
           IN  HandleOk(e, published) /\ ~Pending(e)
<1> DEFINE b == BeginMutation(d)
           e == [b EXCEPT !.op = o]
<1>1. Begun(b, d) /\ b.live = d.live /\ ~b.advanced BY BeginFields DEF Ready
<1> HIDE DEF b
<1>2. /\ e = [k \in HandleFields |-> e[k]]
      /\ e.mutation = b.mutation /\ e.rolledBack = b.rolledBack /\ e.advanced = b.advanced
      /\ e.status = b.status /\ e.mode = b.mode /\ e.paged = b.paged /\ e.live = b.live
      /\ e.pinned = b.pinned /\ e.poisoned = b.poisoned
      /\ e.pagedRead = b.pagedRead /\ e.rd = b.rd /\ e.view = b.view /\ e.op = o
  BY <1>1, Zenon DEF Begun, Shape, HandleFields
<1> HIDE DEF e
<1>3. Shape(e) BY <1>1, <1>2, Zenon DEF Shape, Begun
<1>4. o # None BY BrowserAssumption
<1>5. InStep(e) BY <1>1, <1>2 DEF Begun, Ready, InStep
<1>6. o.kind \in {"maintain", "rebuild"} => MaintainOp(e)
  BY <1>1, <1>2, <1>5 DEF MaintainOp
<1>7. o.kind = "import" => ImportOp(e, published)
  BY <1>1, <1>2, <1>5 DEF ImportOp
<1>8. e.status = "open" /\ e.mutation /\ ~e.poisoned BY <1>1, <1>2, Zenon DEF Begun, Ready
<1>9. OpOk(e, published) BY <1>2, <1>6, <1>7, <1>8 DEF OpOk
<1>10. OpenOk(e, published)
  <2>1. ViewOk(e) BY <1>1, <1>2, Zenon DEF Begun, Ready, ViewOk
  <2>2. e.rd # None => ReadOk(e) BY <1>1, <1>2, Zenon DEF Begun, Ready, ViewRead, ReadOk
  <2>3. e.pinned = d.pinned /\ ~e.pagedRead BY <1>1, <1>2 DEF Begun, Ready
  <2> QED BY <1>5, <2>1, <2>2, <2>3 DEF OpenOk, Ready
<1>11. HandleOk(e, published) BY <1>3, <1>8, <1>9, <1>10 DEF HandleOk
<1>12. ~Pending(e) BY <1>2 DEF Pending
<1> QED BY <1>11, <1>12 DEF e, b

(* Beginning maintenance or a projection rebuild keeps the invariant. *)
LEMMA BeginMaintenanceInv ==
    ASSUME Inv, NEW h \in Handles, NEW kind \in {"maintain", "rebuild"}, BeginMaintenance(h, kind)
    PROVE  Inv'
<1> DEFINE d == db[h]
           w == IF d.paged THEN "prefetch" ELSE "build"
           o == Op(kind, w, None, images)
           e == [BeginMutation(d) EXCEPT !.op = o]
<1>1. /\ MayMutate(d) /\ images' = images + 1 /\ Set(h, e)
      /\ kind = "rebuild" => d.live.format = "current"
      /\ UNCHANGED <<store, rejected, published>>
  BY DEF BeginMaintenance, histories
<1>2. Ready(d) BY <1>1, UsableReady
<1>3. images \in Nat BY DEF Inv, IdsOk
<1>4. w \in {"prefetch", "build"} OBVIOUS
<1> HIDE DEF w, d
<1>5. o \in Mutations /\ o.kind = kind /\ o.at = w /\ o.id = images
  BY <1>3, <1>4 DEF Op, Mutations, Places
<1> HIDE DEF o
<1>6. HandleOk(e, published) /\ ~Pending(e) BY <1>1, <1>2, <1>3, <1>4, <1>5, BegunOk
<1> HIDE DEF e
<1> QED BY <1>1, <1>6, Numbered

(* Beginning an import keeps the invariant. *)
LEMMA ImportGraphInv ==
    ASSUME Inv, NEW h \in Handles, NEW strict \in BOOLEAN, ImportGraph(h, strict)
    PROVE  Inv'
<1> DEFINE d == db[h]
<1>1. /\ MayMutate(d) /\ images' = images + 1 /\ UNCHANGED <<store, rejected, published>>
  BY DEF ImportGraph, histories
<1>2. PICK blob \in Blobs : Set(h, [BeginMutation(d) EXCEPT !.op = Op("import", "tx", blob, None)])
  BY DEF ImportGraph
<1>3. Ready(d) BY <1>1, UsableReady
<1>4. /\ blob \in Images /\ blob.format \in {"current", "truncated"}
      /\ blob \in published \/ blob.ledger = Native
  <2>1. CASE blob \in {image \in published : image.format = "current"}
    BY <2>1, PublishedIds
  <2>2. CASE blob \notin {image \in published : image.format = "current"}
    <3>1. PICK f \in {"current", "truncated"} : blob = Image(images, Native, f)
      BY <1>2, <2>2 DEF Blobs, Native
    <3>2. images \in Nat BY DEF Inv, IdsOk
    <3> QED BY <3>1, <3>2, NativeLedger DEF Image, Images
  <2> QED BY <2>1, <2>2
<1> DEFINE o == Op("import", "tx", blob, None)
           e == [BeginMutation(d) EXCEPT !.op = o]
<1>5. Set(h, e) BY <1>2
<1> HIDE DEF d
<1>6. o \in Mutations /\ o.kind = "import" /\ o.at = "tx" /\ o.next = blob
  BY <1>4 DEF Op, Mutations, Places
<1> HIDE DEF o
<1>7. HandleOk(e, published) /\ ~Pending(e) BY <1>3, <1>4, <1>6, BegunOk
<1> HIDE DEF e
<1> QED BY <1>1, <1>5, <1>7, Numbered

(* finish_paged_read, field by field. *)
LEMMA FinishReadFields ==
    ASSUME NEW d, Shape(d)
    PROVE  LET e == FinishPagedRead(d)
           IN  /\ Shape(e) /\ ~e.pagedRead /\ e.rd = None
               /\ e.status = d.status /\ e.live = d.live /\ e.pinned = d.pinned
               /\ e.mutation = d.mutation /\ e.poisoned = d.poisoned /\ e.paged = d.paged
               /\ e.rolledBack = d.rolledBack /\ e.advanced = d.advanced
               /\ e.op = d.op /\ e.view = d.view
<1> DEFINE e == FinishPagedRead(d)
<1>1. /\ e = [k \in HandleFields |-> e[k]] /\ e.pagedRead = FALSE /\ e.rd = None
      /\ e.status = d.status /\ e.live = d.live /\ e.pinned = d.pinned
      /\ e.mutation = d.mutation /\ e.poisoned = d.poisoned /\ e.paged = d.paged
      /\ e.rolledBack = d.rolledBack /\ e.advanced = d.advanced
      /\ e.op = d.op /\ e.view = d.view
  BY Zenon DEF Shape, HandleFields, FinishPagedRead
<1> HIDE DEF e
<1>2. Shape(e) BY <1>1, Zenon DEF Shape
<1> QED BY <1>1, <1>2 DEF e

(* A read that ends leaves the handle as it was. *)
LEMMA FinishReadOk ==
    ASSUME Inv, NEW h \in Handles, db[h].rd # None
    PROVE  LET e == FinishPagedRead(db[h])
           IN  /\ HandleOk(e, published)
               /\ Pending(e) => Pending(db[h]) /\ e.op.id = db[h].op.id
<1> DEFINE d == db[h]
           e == FinishPagedRead(d)
<1>1. HandleOk(d, published) /\ Shape(d) BY DEF Inv, HandleOk
<1>2. d.status = "open"
  BY <1>1 DEF HandleOk, Closed
<1> HIDE DEF d
<1>3. /\ Shape(e) /\ ~e.pagedRead /\ e.rd = None
      /\ e.status = d.status /\ e.live = d.live /\ e.pinned = d.pinned
      /\ e.mutation = d.mutation /\ e.poisoned = d.poisoned
      /\ e.rolledBack = d.rolledBack /\ e.advanced = d.advanced
      /\ e.op = d.op /\ e.view = d.view
  BY <1>1, FinishReadFields
<1> HIDE DEF e
<1>4. OpenOk(e, published)
  BY <1>1, <1>2, <1>3 DEF HandleOk, OpenOk, InStep, ViewOk
<1>5. e.op # None => OpOk(e, published)
  <2> SUFFICES ASSUME e.op # None PROVE OpOk(e, published) OBVIOUS
  <2>1. OpOk(d, published) BY <1>1, <1>3 DEF HandleOk
  <2>2. d.op.kind = "write" => WriteOp(d) BY <2>1 DEF OpOk
  <2>3. d.op.kind # "open" BY <1>2, <2>1 DEF OpOk, OpenOp
  <2>4. d.op.kind = "write" => WriteOp(e) BY <1>3, <2>2 DEF WriteOp
  <2>5. d.op.kind \in {"maintain", "rebuild"} => MaintainOp(e)
    BY <1>3, <2>1 DEF OpOk, MaintainOp, InStep
  <2>6. d.op.kind = "import" => ImportOp(e, published)
    BY <1>3, <2>1 DEF OpOk, ImportOp, InStep
  <2> QED BY <1>3, <2>1, <2>3, <2>4, <2>5, <2>6 DEF OpOk
<1>6. HandleOk(e, published) BY <1>2, <1>3, <1>4, <1>5 DEF HandleOk
<1>7. Pending(e) => Pending(d) /\ e.op.id = d.op.id BY <1>3 DEF Pending
<1> QED BY <1>6, <1>7 DEF d, e

(* The end of a read, with or without an error, keeps the invariant. *)
LEMMA FailReadInv ==
    ASSUME Inv, NEW h \in Handles, FailRead(h) \/ EndRead(h) PROVE Inv'
<1> DEFINE e == FinishPagedRead(db[h])
<1>1. db[h].rd # None /\ Set(h, e) /\ UNCHANGED <<store, images, rejected, published>>
  BY DEF FailRead, EndRead, Scanning, histories
<1>2. /\ HandleOk(e, published)
      /\ Pending(e) => Pending(db[h]) /\ e.op.id = db[h].op.id
  BY <1>1, FinishReadOk
<1> HIDE DEF e
<1> QED BY <1>1, <1>2, Quiet

(* A prepared forget that executes keeps the invariant: nothing came after *)
(* its resolution.                                                         *)
LEMMA ExecutePreparedForgetInv ==
    ASSUME Inv, NEW h \in Handles, ExecutePreparedForget(h) PROVE Inv'
<1> DEFINE d == db[h]
           f == FinishPagedRead(d)
           e == Advance(f, d.rd.saw)
<1>1. d.rd # None /\ d.rd.kind = "forget" /\ UNCHANGED <<store, rejected, published>>
  BY DEF ExecutePreparedForget, histories
<1>2. \/ MayMutate(f) /\ f.live.format = "current" /\ images' = images + 1 /\ Set(h, e)
      \/ Set(h, f) /\ images' = images
  BY DEF ExecutePreparedForget
<1>3. /\ HandleOk(f, published)
      /\ Pending(f) => Pending(d) /\ f.op.id = d.op.id
  BY <1>1, FinishReadOk
<1>4. HandleOk(d, published) /\ Shape(d) BY DEF Inv, HandleOk
<1>5. ReadOk(d) /\ d.status = "open" BY <1>1, <1>4, SMTT(60) DEF HandleOk, OpenOk, Closed
<1>6. CASE MayMutate(f) /\ f.live.format = "current" /\ images' = images + 1 /\ Set(h, e)
  <2> DEFINE saw == d.rd.saw
  <2>1. saw = Len(d.live.ledger) BY <1>1, <1>5 DEF ReadOk
  <2> HIDE DEF d
  <2>2. f.live = d.live BY <1>4, FinishReadFields
  <2>3. e = Advance(f, saw) OBVIOUS
  <2> HIDE DEF e, f, saw
  <2>4. Ready(f) BY <1>3, <1>6, Usable DEF Ready
  <2>5. saw = Len(f.live.ledger) BY <2>1, <2>2
  <2>6. HandleOk(e, published) /\ e.op.id = images BY <1>6, <2>3, <2>4, <2>5, AdvanceOk
  <2> QED BY <1>1, <1>6, <2>6, Numbered
<1>7. CASE Set(h, f) /\ images' = images
  <2> HIDE DEF f
  <2> QED BY <1>1, <1>3, <1>7, Quiet
<1> QED BY <1>2, <1>6, <1>7

-----------------------------------------------------------------------------
(* Opening, closing and reading.                                           *)

(* Beginning an open keeps the invariant. *)
LEMMA OpenInv ==
    ASSUME Inv, NEW h \in Handles, NEW mode \in OpenModes[h], Open(h, mode) PROVE Inv'
<1> DEFINE md == IF mode = "eager" THEN "eager" ELSE "paged"
           o == Op("open", "page0", None, mode)
           e == [Closed EXCEPT !.status = "opening", !.pinned = store, !.mode = md, !.op = o]
<1>1. Set(h, e) /\ UNCHANGED <<store, images, rejected, published>> BY DEF Open, histories
<1>2. mode \in {"eager", "paged", "current"} BY BrowserAssumption
<1>3. o \in Opens /\ o.kind = "open" /\ o.at = "page0" BY <1>2 DEF Op, Opens, Places
<1>4. o # None BY <1>3, BrowserAssumption
<1> HIDE DEF o, md
<1>5. /\ e = [k \in HandleFields |-> e[k]] /\ e.status = "opening" /\ e.pinned = store /\ e.op = o
      /\ e.mutation = FALSE /\ e.poisoned = FALSE /\ e.pagedRead = FALSE /\ e.advanced = FALSE
      /\ e.rolledBack = FALSE /\ e.paged = FALSE /\ e.rd = None /\ e.view = None
  BY Zenon DEF Closed, HandleFields
<1> HIDE DEF e
<1>6. Shape(e) BY <1>5, Zenon DEF Shape
<1>7. store = None \/ store \in published BY DEF Inv, ImagesOk
<1>8. OpOk(e, published) BY <1>3, <1>5 DEF OpOk, OpenOp
<1>9. HandleOk(e, published) BY <1>4, <1>5, <1>6, <1>7, <1>8 DEF HandleOk
<1>10. ~Pending(e) BY <1>3, <1>5 DEF Pending
<1> QED BY <1>1, <1>9, <1>10, Quiet

(* Closing a handle keeps the invariant. *)
LEMMA CloseInv ==
    ASSUME Inv, NEW h \in Handles, Close(h) PROVE Inv'
<1>1. Set(h, Closed) /\ UNCHANGED <<store, images, rejected, published>> BY DEF Close, histories
<1>2. ~Pending(Closed) BY DEF Pending, Closed
<1> QED BY <1>1, <1>2, ClosedOk, Quiet

(* A read that starts or goes on changes the read and its guard only. *)
LEMMA ReadStepOk ==
    ASSUME Inv, NEW d, HandleOk(d, published), d.status = "open", NEW rd, NEW guard \in BOOLEAN,
           guard => ~d.mutation, rd = [k \in RdFields |-> rd[k]],
           rd.kind # "view" => /\ guard /\ ~d.poisoned /\ rd.saw = Len(d.live.ledger)
                               /\ rd.parts \in Seq({d.pinned})
    PROVE  LET e == [d EXCEPT !.pagedRead = guard, !.rd = rd]
           IN  /\ HandleOk(e, published)
               /\ Pending(e) => Pending(d) /\ e.op.id = d.op.id
<1> DEFINE e == [d EXCEPT !.pagedRead = guard, !.rd = rd]
<1>1. Shape(d) /\ OpenOk(d, published) BY DEF HandleOk
<1>2. /\ e = [k \in HandleFields |-> e[k]] /\ e.pagedRead = guard /\ e.rd = rd
      /\ e.status = d.status /\ e.live = d.live /\ e.pinned = d.pinned
      /\ e.mutation = d.mutation /\ e.poisoned = d.poisoned /\ e.paged = d.paged
      /\ e.rolledBack = d.rolledBack /\ e.advanced = d.advanced
      /\ e.op = d.op /\ e.view = d.view
  BY <1>1, Zenon DEF Shape, HandleFields
<1> HIDE DEF e
<1>3. Shape(e) BY <1>1, <1>2 DEF Shape
<1>4. ReadOk(e) BY <1>2, Zenon DEF ReadOk
<1>5. OpenOk(e, published) BY <1>1, <1>2, <1>4, Zenon DEF OpenOk, InStep, ViewOk
<1>6. e.op # None => OpOk(e, published)
  <2> SUFFICES ASSUME e.op # None PROVE OpOk(e, published) OBVIOUS
  <2>1. OpOk(d, published) BY <1>2 DEF HandleOk
  <2>2. d.op.kind = "write" => WriteOp(d) BY <2>1 DEF OpOk
  <2>3. d.op.kind # "open" BY <2>1 DEF OpOk, OpenOp
  <2>4. d.op.kind = "write" => WriteOp(e) BY <1>2, <2>2, Zenon DEF WriteOp
  <2>5. d.op.kind \in {"maintain", "rebuild"} => MaintainOp(e)
    BY <1>2, <2>1 DEF OpOk, MaintainOp, InStep
  <2>6. d.op.kind = "import" => ImportOp(e, published)
    BY <1>2, <2>1 DEF OpOk, ImportOp, InStep
  <2> QED BY <1>2, <2>1, <2>3, <2>4, <2>5, <2>6 DEF OpOk
<1>7. HandleOk(e, published) BY <1>2, <1>3, <1>5, <1>6 DEF HandleOk
<1>8. Pending(e) => Pending(d) /\ e.op.id = d.op.id BY <1>2 DEF Pending
<1> QED BY <1>7, <1>8 DEF e

(* Beginning a query, an export or the resolution of a forget keeps the    *)
(* invariant.                                                              *)
LEMMA BeginReadInv ==
    ASSUME Inv, NEW h \in Handles, NEW kind \in {"query", "export", "forget"}, BeginRead(h, kind)
    PROVE  Inv'
<1> DEFINE d == db[h]
           rd == [kind |-> kind, parts |-> <<>>, saw |-> Len(d.live.ledger)]
           guard == d.paged
           e == [d EXCEPT !.pagedRead = guard, !.rd = rd]
<1>1. /\ EnsureUsable(d) /\ d.paged /\ Set(h, e) /\ UNCHANGED <<store, images, rejected, published>>
  BY DEF BeginRead, BeginPagedRead, histories
<1>2. HandleOk(d, published) /\ d.status = "open" /\ ~d.poisoned /\ ~d.mutation /\ d.paged \in BOOLEAN
  BY <1>1 DEF Inv, HandleOk, Shape, EnsureUsable
<1> HIDE DEF d
<1>3. /\ rd = [k \in RdFields |-> rd[k]] /\ rd.saw = Len(d.live.ledger)
      /\ rd.parts \in Seq({d.pinned})
  BY DEF RdFields
<1>4. guard \in BOOLEAN /\ guard BY <1>1, <1>2
<1> HIDE DEF rd, guard
<1>5. HandleOk(e, published) /\ (Pending(e) => Pending(d) /\ e.op.id = d.op.id)
  BY <1>2, <1>3, <1>4, ReadStepOk, Zenon
<1> HIDE DEF e
<1> QED BY <1>1, <1>5, Quiet DEF d

(* A batch of pages that arrives for a read keeps the invariant. *)
LEMMA LoadBatchInv ==
    ASSUME Inv, NEW h \in Handles, LoadBatch(h) PROVE Inv'
<1> DEFINE d == db[h]
           rd == [d.rd EXCEPT !.parts = Append(@, store)]
           e == [d EXCEPT !.rd.parts = Append(@, store)]
           guard == d.pagedRead
           f == [d EXCEPT !.pagedRead = guard, !.rd = rd]
<1>1. /\ d.rd # None /\ d.rd.kind # "view" /\ d.pinned = store /\ Set(h, e)
      /\ UNCHANGED <<store, images, rejected, published>>
  BY DEF LoadBatch, Scanning, Authority, histories
<1>2. HandleOk(d, published) /\ Shape(d) BY DEF Inv, HandleOk
<1>3. ReadOk(d) /\ d.status = "open" /\ OpenOk(d, published)
  BY <1>1, <1>2 DEF HandleOk, OpenOk, Closed
<1>4. /\ d.rd = [k \in RdFields |-> d.rd[k]] /\ d.pagedRead /\ ~d.poisoned
      /\ d.rd.saw = Len(d.live.ledger) /\ d.rd.parts \in Seq({d.pinned}) /\ ~d.mutation
  BY <1>1, <1>3 DEF ReadOk, OpenOk
<1>5. store \in {d.pinned} BY <1>1
<1> HIDE DEF d
<1>6. rd = [k \in RdFields |-> rd[k]] /\ rd.kind = d.rd.kind /\ rd.saw = d.rd.saw
      /\ rd.parts = Append(d.rd.parts, store)
  BY <1>4, Zenon DEF RdFields
<1>7. rd.parts \in Seq({d.pinned})
  <2> DEFINE S == {d.pinned}
             q == d.rd.parts
  <2>1. q \in Seq(S) /\ store \in S BY <1>4, <1>5
  <2> HIDE DEF S, q
  <2>2. Append(q, store) \in Seq(S) BY <2>1
  <2> QED BY <1>6, <2>2 DEF S, q
<1>8. e = f BY <1>2, Zenon DEF Shape, HandleFields
<1>9. guard \in BOOLEAN /\ guard BY <1>2, <1>4 DEF Shape
<1> HIDE DEF rd, guard, e
<1>10. HandleOk(f, published) /\ (Pending(f) => Pending(d) /\ f.op.id = d.op.id)
  <2>1. rd = [k \in RdFields |-> rd[k]] BY <1>6
  <2>2. guard => ~d.mutation BY <1>4
  <2>3. /\ guard /\ ~d.poisoned /\ rd.saw = Len(d.live.ledger)
        /\ rd.parts \in Seq({d.pinned})
    BY <1>4, <1>6, <1>7, <1>9
  <2> QED BY <1>2, <1>3, <1>9, <2>1, <2>2, <2>3, ReadStepOk, Zenon
<1> HIDE DEF f
<1> QED BY <1>1, <1>8, <1>10, Quiet DEF d

(* Beginning a read of a view keeps the invariant. *)
LEMMA BeginViewReadInv ==
    ASSUME Inv, NEW h \in Handles, BeginViewRead(h) PROVE Inv'
<1> DEFINE d == db[h]
           rd == [kind |-> "view", saw |-> 0,
                  parts |-> <<Take(d.live.ledger, Len(d.view.ledger))>>]
           guard == d.paged
           e == [d EXCEPT !.pagedRead = guard, !.rd = rd]
<1>1. /\ EnsureUsable(d) /\ Set(h, e) /\ UNCHANGED <<store, images, rejected, published>>
  BY DEF BeginViewRead, BeginPagedRead, histories
<1>2. HandleOk(d, published) /\ d.status = "open" /\ ~d.mutation /\ d.paged \in BOOLEAN
  BY <1>1 DEF Inv, HandleOk, Shape, EnsureUsable
<1> HIDE DEF d
<1>3. rd = [k \in RdFields |-> rd[k]] /\ rd.kind = "view" BY DEF RdFields
<1>4. guard \in BOOLEAN BY <1>2
<1> HIDE DEF rd, guard
<1>5. HandleOk(e, published) /\ (Pending(e) => Pending(d) /\ e.op.id = d.op.id)
  BY <1>2, <1>3, <1>4, ReadStepOk, Zenon
<1> HIDE DEF e
<1> QED BY <1>1, <1>5, Quiet DEF d

(* A chunk of a view read keeps the invariant. *)
LEMMA StepViewReadInv ==
    ASSUME Inv, NEW h \in Handles, StepViewRead(h) PROVE Inv'
<1> DEFINE d == db[h]
           part == Take(d.live.ledger, Len(d.view.ledger))
           rd == [d.rd EXCEPT !.parts = Append(@, part)]
           e == [d EXCEPT !.rd.parts = Append(@, part)]
           guard == d.pagedRead
           f == [d EXCEPT !.pagedRead = guard, !.rd = rd]
<1>1. /\ d.rd # None /\ d.rd.kind = "view" /\ Set(h, e)
      /\ UNCHANGED <<store, images, rejected, published>>
  BY DEF StepViewRead, histories
<1>2. HandleOk(d, published) /\ Shape(d) BY DEF Inv, HandleOk
<1>3. ReadOk(d) /\ d.status = "open" /\ OpenOk(d, published)
  BY <1>1, <1>2 DEF HandleOk, OpenOk, Closed
<1>4. d.rd = [k \in RdFields |-> d.rd[k]] /\ (d.pagedRead => ~d.mutation)
  BY <1>1, <1>3 DEF ReadOk, OpenOk
<1> HIDE DEF d, part
<1>5. rd = [k \in RdFields |-> rd[k]] /\ rd.kind = "view" BY <1>1, <1>4 DEF RdFields
<1>6. e = f BY <1>2, Zenon DEF Shape, HandleFields
<1>7. guard \in BOOLEAN /\ (guard => ~d.mutation) BY <1>2, <1>4 DEF Shape
<1> HIDE DEF rd, guard, e
<1>8. HandleOk(f, published) /\ (Pending(f) => Pending(d) /\ f.op.id = d.op.id)
  BY <1>1, <1>2, <1>3, <1>5, <1>7, ReadStepOk, Zenon
<1> HIDE DEF f
<1> QED BY <1>1, <1>6, <1>8, Quiet DEF d

(* Creating a view keeps the invariant. *)
LEMMA CreateReadViewInv ==
    ASSUME Inv, NEW h \in Handles, CreateReadView(h) PROVE Inv'
<1> DEFINE d == db[h]
           v == [ledger |-> d.live.ledger, replaced |-> FALSE]
           e == [d EXCEPT !.view = v]
<1>1. EnsureUsable(d) /\ Set(h, e) /\ UNCHANGED <<store, images, rejected, published>>
  BY DEF CreateReadView, histories
<1>2. MayMutate(d) /\ HandleOk(d, published) BY <1>1 DEF EnsureUsable, MayMutate, Inv
<1>3. /\ Shape(d) /\ d.status = "open" /\ d.op = None /\ InStep(d) /\ ViewRead(d)
      /\ d.pinned \in published /\ d.pinned.format # "legacy" /\ ~d.poisoned /\ ~d.mutation
  BY <1>2, Usable
<1>4. d.live.ledger = d.pinned.ledger /\ d.pinned.ledger \in Seq(Entry)
  BY <1>3, PublishedIds DEF InStep, Images
<1> HIDE DEF d
<1>5. v = [k \in ViewFields |-> v[k]] /\ v.ledger = d.pinned.ledger BY <1>4 DEF ViewFields
<1> HIDE DEF v
<1>6. /\ e = [k \in HandleFields |-> e[k]] /\ e.view = v
      /\ e.status = d.status /\ e.live = d.live /\ e.pinned = d.pinned
      /\ e.mutation = d.mutation /\ e.poisoned = d.poisoned /\ e.paged = d.paged
      /\ e.rolledBack = d.rolledBack /\ e.advanced = d.advanced
      /\ e.op = d.op /\ e.pagedRead = d.pagedRead /\ e.rd = d.rd
  BY <1>3 DEF Shape, HandleFields
<1> HIDE DEF e
<1>7. Shape(e) BY <1>3, <1>6 DEF Shape
<1>8. ViewOk(e)
  <2>1. IsPrefix(d.pinned.ledger, d.pinned.ledger) BY <1>4, PrefixSelf
  <2> QED BY <1>4, <1>5, <1>6, <2>1 DEF ViewOk
<1>9. e.rd # None => ReadOk(e) BY <1>3, <1>6 DEF ViewRead, ReadOk
<1>10. OpenOk(e, published) BY <1>3, <1>6, <1>8, <1>9 DEF OpenOk, InStep
<1>11. HandleOk(e, published) BY <1>3, <1>6, <1>7, <1>10 DEF HandleOk
<1>12. ~Pending(e) BY <1>3, <1>6 DEF Pending
<1> QED BY <1>1, <1>11, <1>12, Quiet

-----------------------------------------------------------------------------
(* The invariant holds.                                                    *)

(* An empty store and closed handles satisfy the invariant. *)
LEMMA InitInv == ASSUME Init PROVE Inv
<1>1. ImagesOk BY BuiltImages DEF Init, ImagesOk
<1>2. db = [h \in Handles |-> Closed] BY DEF Init
<1>3. \A h \in Handles : db[h] = Closed BY <1>2, Zenon
<1>4. \A h \in Handles : HandleOk(db[h], published) BY <1>3, ClosedOk, Zenon
<1>5. \A h \in Handles : ~Pending(db[h])
  <2>1. ~Pending(Closed) BY DEF Pending, Closed
  <2> QED BY <1>3, <2>1, Zenon
<1>6. \A m \in published : \A t \in Ids(m.ledger) : t = 0 BY BuiltImages DEF Init
<1>7. images = 3 /\ rejected = {} BY DEF Init
<1>8. IdsOk BY <1>5, <1>6, <1>7 DEF IdsOk
<1> QED BY <1>1, <1>2, <1>4, <1>8 DEF Inv

(* Every continuation of a suspended call keeps the invariant. *)
LEMMA SettleInv == ASSUME Inv, NEW h \in Handles, Settle(h) PROVE Inv'
<1>1. CASE CommitTransaction(h) BY <1>1, CommitTransactionInv
<1>2. CASE AbortTransaction(h) BY <1>2, AbortTransactionInv
<1>3. CASE Committed(h) BY <1>3, CommittedInv
<1>4. CASE Aborted(h) BY <1>4, AbortedInv
<1>5. CASE LoadPage0(h) BY <1>5, LoadPage0Inv
<1>6. CASE LoadMetadata(h) BY <1>6, LoadMetadataInv
<1>7. CASE LoadAllOrMigrate(h) BY <1>7, LoadAllOrMigrateInv
<1>8. CASE FailOpen(h) BY <1>8, FailOpenInv
<1>9. CASE Prefetch(h) BY <1>9, PrefetchInv
<1>10. CASE BuildCandidate(h) BY <1>10, BuildCandidateInv
<1> QED BY <1>1, <1>2, <1>3, <1>4, <1>5, <1>6, <1>7, <1>8, <1>9, <1>10 DEF Settle

(* Every call keeps the invariant. *)
LEMMA CallInv == ASSUME Inv, NEW h \in Handles, Call(h) PROVE Inv'
<1>1. CASE \E mode \in OpenModes[h] : Open(h, mode) BY <1>1, OpenInv
<1>2. CASE ApplyWrite(h) BY <1>2, ApplyWriteInv
<1>3. CASE SaveFails(h) BY <1>3, SaveFailsInv
<1>4. CASE RefuseAtomic(h) BY <1>4, RefuseAtomicInv
<1>5. CASE ExecutePreparedForget(h) BY <1>5, ExecutePreparedForgetInv
<1>6. CASE Checkpoint(h) BY <1>6, CheckpointInv
<1>7. CASE \E kind \in {"maintain", "rebuild"} : BeginMaintenance(h, kind)
  BY <1>7, BeginMaintenanceInv
<1>8. CASE \E strict \in BOOLEAN : ImportGraph(h, strict) BY <1>8, ImportGraphInv
<1>9. CASE LoadBatch(h) BY <1>9, LoadBatchInv
<1>10. CASE FailRead(h) \/ EndRead(h) BY <1>10, FailReadInv
<1>11. CASE StepViewRead(h) BY <1>11, StepViewReadInv
<1>12. CASE \E kind \in {"query", "export", "forget"} : BeginRead(h, kind)
  BY <1>12, BeginReadInv
<1>13. CASE CreateReadView(h) BY <1>13, CreateReadViewInv
<1>14. CASE BeginViewRead(h) BY <1>14, BeginViewReadInv
<1>15. CASE Close(h) BY <1>15, CloseInv
<1> QED
  BY <1>1, <1>2, <1>3, <1>4, <1>5, <1>6, <1>7, <1>8, <1>9, <1>10, <1>11, <1>12, <1>13,
     <1>14, <1>15 DEF Call

(* The invariant is inductive. *)
LEMMA StepInv == ASSUME Inv, [Next]_vars PROVE Inv'
<1>1. ASSUME NEW h \in Handles, Settle(h) \/ Call(h) PROVE Inv'
  BY <1>1, SettleInv, CallInv
<1>2. CASE UNCHANGED vars
  BY <1>2 DEF vars, Inv, ImagesOk, IdsOk
<1> QED BY <1>1, <1>2 DEF Next

(* The inductive invariant: what every handle, suspended call, read and    *)
(* view says about the image it pinned, whatever the tabs do.              *)
THEOREM HandlesSound == Spec => []Inv
<1> QED BY InitInv, StepInv, PTL DEF Spec

-----------------------------------------------------------------------------
(* What it gives.                                                          *)

(* The invariant implies LiveIsDurable. *)
LEMMA InvLive == ASSUME Inv PROVE LiveIsDurable
<1> SUFFICES ASSUME NEW h \in Handles, db[h].status = "open", ~db[h].poisoned
             PROVE  /\ ~db[h].mutation => db[h].live.ledger = db[h].pinned.ledger
                    /\ db[h].view # None /\ ~db[h].view.replaced =>
                         IsPrefix(db[h].view.ledger, db[h].live.ledger)
  BY DEF LiveIsDurable
<1> DEFINE d == db[h]
<1>1. HandleOk(d, published) /\ OpenOk(d, published) BY DEF Inv, HandleOk
<1>2. d.op # None => OpOk(d, published) /\ d.op.kind # "open" BY <1>1, Zenon DEF HandleOk, OpOk, OpenOp
<1>3. d.op = None => InStep(d) BY <1>1 DEF OpenOk
<1>4. ~d.mutation => d.op = None BY <1>2 DEF OpOk
<1>5. d.pinned.ledger \in Seq(Entry) BY <1>1, PublishedIds DEF OpenOk, Images
<1>6. d.live.ledger \in Seq(Entry) /\ IsPrefix(d.pinned.ledger, d.live.ledger)
  <2>1. CASE d.op # None /\ d.op.kind = "write"
    <3>1. d.op.id \in Nat /\ WriteOp(d) BY <1>2, <2>1 DEF OpOk
    <3> DEFINE x == [id |-> d.op.id, saw |-> Len(d.pinned.ledger)]
    <3>2. x \in Entry BY <1>5, <3>1 DEF Entry
    <3>3. d.live.ledger = Append(d.pinned.ledger, x) BY <3>1 DEF WriteOp
    <3> HIDE DEF x, d
    <3> QED BY <1>5, <3>2, <3>3, PrefixAppend
  <2>2. CASE d.op = None \/ d.op.kind # "write"
    <3>1. d.op # None => d.op.kind \in {"maintain", "rebuild", "import"}
      BY <1>2, <2>2 DEF OpOk, Mutations
    <3>2. InStep(d) BY <1>2, <1>3, <3>1 DEF OpOk, MaintainOp, ImportOp
    <3>3. d.live.ledger = d.pinned.ledger BY <3>2 DEF InStep
    <3> HIDE DEF d
    <3> QED BY <1>5, <3>3, PrefixSelf
  <2> QED BY <2>1, <2>2
<1>7. d.view # None /\ ~d.view.replaced =>
        d.view.ledger \in Seq(Entry) /\ IsPrefix(d.view.ledger, d.pinned.ledger)
  BY <1>1 DEF OpenOk, ViewOk
<1>8. ~d.mutation => d.live.ledger = d.pinned.ledger BY <1>3, <1>4 DEF InStep
<1> HIDE DEF d
<1>9. d.view # None /\ ~d.view.replaced => IsPrefix(d.view.ledger, d.live.ledger)
  BY <1>5, <1>6, <1>7, PrefixTrans
<1> QED BY <1>8, <1>9 DEF d

(* A usable handle holds the ledger of the image it pinned, and a view the *)
(* ledger it was created on, through every failed write, rollback, reopen, *)
(* compaction and import (finish_mutation, flush_dirty_pages_or_restore,   *)
(* create_read_view).                                                      *)
THEOREM UsableIsDurable == Spec => []LiveIsDurable
<1> QED BY HandlesSound, InvLive, PTL

(* The invariant implies PublishedLedgersSound. *)
LEMMA InvLedgers == ASSUME Inv PROVE PublishedLedgersSound
<1> SUFFICES ASSUME NEW m \in published, NEW i \in DOMAIN m.ledger
             PROVE  m.ledger[i].id \notin rejected /\ m.ledger[i].saw = i - 1
  BY DEF PublishedLedgersSound
<1>1. m.ledger[i].id \in Ids(m.ledger) BY DEF Ids
<1>2. ImageOk(m) /\ \A t \in Ids(m.ledger) : t \notin rejected BY DEF Inv, ImagesOk, IdsOk
<1> QED BY <1>1, <1>2 DEF ImageOk

(* No write that returned an error is ever in a published ledger, and no   *)
(* transaction lies between a forget's resolution and the forget           *)
(* (finish_mutation, prepare_forget), for any number of tabs and writes.   *)
THEOREM LedgersSound == Spec => []PublishedLedgersSound
<1> QED BY HandlesSound, InvLedgers, PTL

(* The invariant implies ReadsOnePublishedImage. *)
LEMMA InvReads == ASSUME Inv PROVE ReadsOnePublishedImage
<1> SUFFICES ASSUME NEW h \in Handles
             PROVE  LET d == db[h] IN
                    /\ EnsureUsable(d) => \E m \in published : m.ledger = d.live.ledger
                    /\ d.rd # None /\ d.rd.kind \in {"query", "export"} =>
                        /\ \A i \in DOMAIN d.rd.parts : d.rd.parts[i].ledger = d.live.ledger
                        /\ d.rd.kind = "export" =>
                            \A i \in DOMAIN d.rd.parts : d.rd.parts[i] = d.rd.parts[1]
  BY Zenon DEF ReadsOnePublishedImage
<1> DEFINE d == db[h]
<1>1. HandleOk(d, published) BY DEF Inv
<1> HIDE DEF d
<1>2. ASSUME EnsureUsable(d) PROVE \E m \in published : m.ledger = d.live.ledger
  <2>1. MayMutate(d) BY <1>2 DEF EnsureUsable, MayMutate
  <2>2. d.pinned \in published /\ InStep(d) BY <1>1, <2>1, Usable
  <2> QED BY <2>2 DEF InStep
<1>3. ASSUME d.rd # None, d.rd.kind \in {"query", "export"}
      PROVE  /\ \A i \in DOMAIN d.rd.parts : d.rd.parts[i].ledger = d.live.ledger
             /\ \A i \in DOMAIN d.rd.parts : d.rd.parts[i] = d.rd.parts[1]
  <2>1. d.status = "open" /\ OpenOk(d, published) BY <1>1, <1>3 DEF HandleOk, Closed
  <2>2. ReadOk(d) BY <1>3, <2>1 DEF OpenOk
  <2>3. d.pagedRead /\ ~d.poisoned /\ d.rd.parts \in Seq({d.pinned}) BY <1>3, <2>2 DEF ReadOk
  <2>4. d.op = None BY <1>1, <2>1, <2>3 DEF HandleOk, OpenOk, OpOk, OpenOp
  <2>5. d.live.ledger = d.pinned.ledger BY <2>1, <2>3, <2>4 DEF OpenOk, InStep
  <2> DEFINE s == d.rd.parts
             x == d.pinned
  <2>6. s \in Seq({x}) BY <2>3
  <2> HIDE DEF s, x
  <2>7. \A i \in DOMAIN s : s[i] = x /\ s[1] = x BY <2>6
  <2> QED BY <2>5, <2>7 DEF s, x
<1> QED BY <1>2, <1>3 DEF d

(* A query or an export returns one published image, whatever its handle   *)
(* or another tab did while it awaited pages (ensure_pinned_authority,     *)
(* begin_paged_read), for any number of tabs, batches and failures.        *)
THEOREM ReadsOneImage == Spec => []ReadsOnePublishedImage
<1> QED BY HandlesSound, InvReads, PTL

(* A commit other than an import extends the stored ledger. *)
LEMMA CommitExtends ==
    ASSUME Inv, NEW h \in Handles, CommitTransaction(h), store # None, ~Importing
    PROVE  IsPrefix(store.ledger, store'.ledger)
<1> DEFINE d == db[h]
<1>1. At(h, "tx") /\ d.op # None /\ d.op.at = "tx" /\ d.pinned = store /\ store' = d.op.next
  BY DEF CommitTransaction, At, Authority
<1>2. d.op.kind # "import" BY <1>1 DEF Importing
<1>3. CASE d.op.kind = "open"
  <2>1. OpenOp(d) BY <1>1, <1>3 DEF Inv, HandleOk, OpOk
  <2>2. d.op.next = Migrated /\ d.pinned = Legacy BY <1>1, <2>1 DEF OpenOp
  <2>3. Legacy.ledger \in Seq(Entry) /\ Migrated.ledger = Legacy.ledger
    BY BuiltImages DEF Images
  <2>4. IsPrefix(Legacy.ledger, Migrated.ledger) BY <2>3, PrefixSelf
  <2> QED BY <1>1, <2>2, <2>4
<1>4. CASE d.op.kind # "open" BY <1>1, <1>2, <1>4, PublishedPrefix
<1> QED BY <1>3, <1>4

(* No other step changes what is stored. *)
LEMMA OthersKeepStore ==
    ASSUME NEW h \in Handles, Settle(h) \/ Call(h), ~CommitTransaction(h)
    PROVE  store' = store
BY Zenon DEF Settle, Call, AbortTransaction, Committed, Aborted, LoadPage0, LoadMetadata,
       LoadAllOrMigrate, FailOpen, Prefetch, BuildCandidate, Open, ApplyWrite, SaveFails,
       RefuseAtomic, ExecutePreparedForget, Checkpoint, BeginMaintenance, ImportGraph,
       LoadBatch, FailRead, EndRead, StepViewRead, BeginRead, CreateReadView, BeginViewRead,
       Close

(* No step but the commit of an import replaces the stored ledger. *)
LEMMA StepExtends ==
    ASSUME Inv, [Next]_vars, store # None, ~Importing
    PROVE  IsPrefix(store.ledger, store'.ledger)
<1>1. CASE store' = store
  <2>1. store.ledger \in Seq(Entry) BY PublishedIds DEF Inv, ImagesOk, Images
  <2>2. IsPrefix(store.ledger, store.ledger) BY <2>1, PrefixSelf
  <2> QED BY <1>1, <2>2
<1>2. CASE \E h \in Handles : CommitTransaction(h) BY <1>2, CommitExtends
<1>3. CASE ~\E h \in Handles : CommitTransaction(h)
  <2>1. store' = store BY <1>3, OthersKeepStore DEF Next, vars
  <2> QED BY <1>1, <2>1
<1> QED BY <1>2, <1>3

(* Whatever any number of tabs do, a publication other than an import      *)
(* extends the published ledger: the page-0 compare and swap of            *)
(* write_pages and replace_all_pages loses nobody's transaction.           *)
THEOREM NothingLost == Spec => NoLostUpdate
<1>1. ASSUME Inv, [Next]_vars
      PROVE  [store # None /\ ~Importing => IsPrefix(store.ledger, store'.ledger)]_vars
  BY <1>1, StepExtends
<1> QED BY <1>1, HandlesSound, PTL DEF Spec, NoLostUpdate
=============================================================================
