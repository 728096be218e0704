---------------------------- MODULE BrowserSteps ----------------------------
(***************************************************************************)
(* Browser for any number of tabs, images, failures and batches: the       *)
(* inductive invariant of the handles over one store, what it takes to     *)
(* keep it, and the steps that leave the store alone.                      *)
(***************************************************************************)
EXTENDS Browser, TLAPS

-----------------------------------------------------------------------------
(* The inductive invariant.                                                *)

Native == <<[id |-> 1, saw |-> 0], [id |-> 2, saw |-> 1]>>

HandleFields == {"status", "mode", "paged", "live", "pinned", "mutation", "poisoned",
                 "rolledBack", "advanced", "pagedRead", "op", "rd", "view"}
RdFields == {"kind", "parts", "saw"}
ViewFields == {"ledger", "replaced"}

Ids(l) == {l[i].id : i \in DOMAIN l}

(* An image: each entry was computed over all that came before it. *)
ImageOk(m) == m \in Images /\ \A i \in DOMAIN m.ledger : m.ledger[i].saw = i - 1

InStep(d) == d.live.ledger = d.pinned.ledger /\ d.live.format = d.pinned.format

(* A call that opens: it publishes a first page 0 or the migrated image.   *)
OpenOp(d) ==
    /\ d.status = "opening"
    /\ d.op.at = "metadata" => d.pinned # None /\ d.pinned.format = "current"
    /\ d.op.at = "eager" => d.pinned # None
    /\ d.op.at \in {"tx", "committed"} =>
          \/ d.op.next = Fresh /\ d.pinned = None
          \/ d.op.next = Migrated /\ d.pinned = Legacy

(* A write: live state is ahead of the pinned image by its own entry. *)
WriteOp(d) ==
    /\ d.op.at \in {"tx", "committed", "aborted", "page0", "metadata", "eager"}
    /\ d.advanced /\ ~d.rolledBack /\ d.live = d.op.next
    /\ d.op.next.ledger = Append(d.pinned.ledger, [id |-> d.op.id, saw |-> Len(d.pinned.ledger)])
    /\ d.op.next.format = "current" /\ d.pinned.format = "current"

(* Maintenance: the candidate has the ledger that is live and pinned. *)
MaintainOp(d) ==
    /\ InStep(d)
    /\ d.op.at \in {"page0", "metadata", "eager"} => d.op.kind = "rebuild"
    /\ d.op.kind = "rebuild" => d.live.format = "current"
    /\ d.op.at \in {"tx", "committed"} =>
          d.op.next.ledger = d.pinned.ledger /\ d.op.next.format = "current"

ImportOp(d, pub) ==
    /\ InStep(d)
    /\ d.op.at \in {"tx", "committed", "aborted"}
    /\ d.op.next \in pub \/ d.op.next.ledger = Native
    /\ d.op.next.format \in {"current", "truncated"}

OpOk(d, pub) ==
    /\ d.op.kind = "open" => d.op \in Opens
    /\ d.op.kind # "open" => d.op \in Mutations
    /\ d.op.kind # "import" /\ d.op.kind # "open" => d.op.id \in Nat
    /\ d.op.at \in {"tx", "committed"} => d.op.next \in Images
    /\ d.op.at = "committed" => d.op.next \in pub
    /\ d.op.at \in {"prefetch", "build"} => d.op.kind \in {"maintain", "rebuild"}
    /\ d.op.kind = "open" => OpenOp(d)
    /\ d.op.kind # "open" => d.status = "open" /\ d.mutation /\ ~d.poisoned
    /\ d.op.kind = "write" => WriteOp(d)
    /\ d.op.kind \in {"maintain", "rebuild"} => MaintainOp(d)
    /\ d.op.kind = "import" => ImportOp(d, pub)

(* A read that awaits pages: nothing changes under it. *)
ReadOk(d) ==
    /\ d.rd = [k \in RdFields |-> d.rd[k]]
    /\ d.rd.kind # "view" =>
          /\ d.pagedRead /\ ~d.poisoned
          /\ d.rd.saw = Len(d.live.ledger)
          /\ d.rd.parts \in Seq({d.pinned})

(* What a view denotes. *)
ViewOk(d) ==
    d.view # None =>
        /\ d.view = [k \in ViewFields |-> d.view[k]]
        /\ d.view.ledger \in Seq(Entry)
        /\ ~d.view.replaced => IsPrefix(d.view.ledger, d.pinned.ledger)

Shape(d) ==
    /\ d = [k \in HandleFields |-> d[k]]
    /\ d.mutation \in BOOLEAN /\ d.poisoned \in BOOLEAN /\ d.pagedRead \in BOOLEAN
    /\ d.advanced \in BOOLEAN /\ d.rolledBack \in BOOLEAN /\ d.paged \in BOOLEAN

(* An open handle, in a mutation or not. *)
OpenOk(d, pub) ==
    /\ d.pinned \in pub /\ d.pinned.format # "legacy"
    /\ d.mutation => ~d.pagedRead
    /\ ~d.poisoned => ViewOk(d)
    /\ d.op = None /\ ~d.poisoned => InStep(d)
    /\ d.rd # None => ReadOk(d)

HandleOk(d, pub) ==
    /\ Shape(d)
    /\ d.status \in {"closed", "opening", "open"}
    /\ d.status = "closed" => d = Closed
    /\ d.status = "opening" =>
          /\ d.pinned = None \/ d.pinned \in pub
          /\ d.rd = None /\ d.view = None /\ ~d.mutation /\ ~d.pagedRead /\ ~d.poisoned
          /\ d.op # None
    /\ d.status = "open" => OpenOk(d, pub)
    /\ d.op # None => OpOk(d, pub)

(* A write whose transaction has not committed. *)
Pending(d) == d.op # None /\ d.op.kind = "write" /\ d.op.at # "committed"

(* Entries are told apart by the write that made them. *)
IdsOk ==
    /\ images \in Nat /\ images >= 3
    /\ \A t \in rejected : t \in Nat /\ 3 <= t /\ t < images
    /\ \A m \in published : \A t \in Ids(m.ledger) : t < images /\ t \notin rejected
    /\ \A h \in Handles : Pending(db[h]) =>
          /\ db[h].op.id >= 3 /\ db[h].op.id < images /\ db[h].op.id \notin rejected
          /\ \A m \in published : db[h].op.id \notin Ids(m.ledger)
    /\ \A g, h \in Handles : Pending(db[g]) /\ Pending(db[h]) /\ g # h =>
          db[g].op.id # db[h].op.id

ImagesOk ==
    /\ store = None \/ store \in published
    /\ \A m \in published : ImageOk(m) /\ (m.format = "legacy" => m = Legacy)

Inv ==
    /\ ImagesOk
    /\ db = [h \in Handles |-> db[h]]
    /\ \A h \in Handles : HandleOk(db[h], published)
    /\ IdsOk

-----------------------------------------------------------------------------
(* Ledgers.                                                                *)

(* A ledger is a prefix of another when it is no longer and agrees entry   *)
(* by entry.                                                               *)
LEMMA PrefixDef ==
    ASSUME NEW s \in Seq(Entry), NEW t \in Seq(Entry)
    PROVE  IsPrefix(s, t) <=> Len(s) <= Len(t) /\ \A i \in 1..Len(s) : s[i] = t[i]
BY DEF IsPrefix

(* A ledger is a prefix of itself. *)
LEMMA PrefixSelf == ASSUME NEW s \in Seq(Entry) PROVE IsPrefix(s, s)
BY PrefixDef

(* Being a prefix is transitive. *)
LEMMA PrefixTrans ==
    ASSUME NEW s \in Seq(Entry), NEW t \in Seq(Entry), NEW u \in Seq(Entry),
           IsPrefix(s, t), IsPrefix(t, u)
    PROVE  IsPrefix(s, u)
BY PrefixDef

(* A ledger is a prefix of itself with one more entry. *)
LEMMA PrefixAppend ==
    ASSUME NEW s \in Seq(Entry), NEW x \in Entry
    PROVE  /\ Append(s, x) \in Seq(Entry) /\ IsPrefix(s, Append(s, x))
<1> DEFINE t == Append(s, x)
<1>1. /\ t \in Seq(Entry) /\ Len(t) = Len(s) + 1 /\ Len(s) \in Nat
      /\ \A i \in 1..Len(s) : t[i] = s[i]
  OBVIOUS
<1> HIDE DEF t
<1>2. IsPrefix(s, t) BY <1>1, PrefixDef
<1> QED BY <1>1, <1>2 DEF t

(* An image that adds the entry of one write to a sound one. *)
LEMMA AppendedImage ==
    ASSUME NEW m, ImageOk(m), NEW id \in Nat, NEW n \in Images,
           n.ledger = Append(m.ledger, [id |-> id, saw |-> Len(m.ledger)])
    PROVE  ImageOk(n) /\ Ids(n.ledger) = Ids(m.ledger) \cup {id}
<1> DEFINE s == m.ledger
           x == [id |-> id, saw |-> Len(s)]
           t == n.ledger
<1>1. s \in Seq(Entry) /\ \A i \in DOMAIN s : s[i].saw = i - 1 BY DEF ImageOk, Images
<1>2. Len(s) \in Nat /\ DOMAIN s = 1..Len(s) BY <1>1
<1>3. x \in Entry /\ x.id = id /\ x.saw = Len(s) BY <1>2 DEF Entry
<1>4. t = Append(s, x) OBVIOUS
<1> HIDE DEF s, x, t
<1>5. /\ DOMAIN t = 1..(Len(s) + 1) /\ t[Len(s) + 1] = x
      /\ \A i \in 1..Len(s) : t[i] = s[i]
  BY <1>1, <1>2, <1>3, <1>4
<1>6. \A i \in 1..(Len(s) + 1) : i \in 1..Len(s) \/ i = Len(s) + 1 BY <1>2
<1>7. \A i \in DOMAIN t : t[i].saw = i - 1 BY <1>1, <1>2, <1>3, <1>5, <1>6, SMTT(30)
<1>8. Ids(t) = Ids(s) \cup {id}
  <2>1. Ids(t) \subseteq Ids(s) \cup {id} BY <1>2, <1>3, <1>5, <1>6 DEF Ids
  <2>2. Len(s) + 1 \in DOMAIN t /\ \A i \in 1..Len(s) : i \in DOMAIN t BY <1>2, <1>5
  <2>3. id \in Ids(t) BY <1>3, <1>5, <2>2 DEF Ids
  <2>4. Ids(s) \subseteq Ids(t) BY <1>2, <1>5, <2>2 DEF Ids
  <2> QED BY <2>1, <2>3, <2>4
<1>9. ImageOk(n) BY <1>7 DEF ImageOk, t
<1> QED BY <1>8, <1>9 DEF s, t

(* The images the code builds from nothing. *)
LEMMA BuiltImages ==
    /\ Fresh \in Images /\ Fresh.ledger = <<>> /\ Fresh.format = "current" /\ ImageOk(Fresh)
    /\ Legacy \in Images /\ Legacy.format = "legacy" /\ ImageOk(Legacy)
    /\ Migrated \in Images /\ Migrated.ledger = Legacy.ledger /\ Migrated.format = "current"
    /\ ImageOk(Migrated)
    /\ Ids(Fresh.ledger) = {} /\ Ids(Legacy.ledger) = {0} /\ Ids(Migrated.ledger) = {0}
<1> DEFINE x == [id |-> 0, saw |-> 0]
<1>1. x \in Entry /\ x.id = 0 /\ x.saw = 0 BY DEF Entry
<1>2. /\ Fresh.ledger = <<>> /\ Legacy.ledger = <<x>> /\ Migrated.ledger = <<x>>
      /\ Fresh.format = "current" /\ Legacy.format = "legacy" /\ Migrated.format = "current"
  BY DEF Fresh, Legacy, Migrated, Image
<1> HIDE DEF x
<1>3. <<x>> \in Seq(Entry) /\ <<>> \in Seq(Entry) BY <1>1
<1>4. Fresh \in Images /\ Legacy \in Images /\ Migrated \in Images
  <2>1. Legacy = [page0 |-> 0, ledger |-> <<x>>, format |-> "legacy"] BY DEF Legacy, Image, x
  <2>2. Fresh = [page0 |-> 1, ledger |-> <<>>, format |-> "current"] BY DEF Fresh, Image
  <2>3. Migrated = [page0 |-> 2, ledger |-> <<x>>, format |-> "current"]
    BY <1>2 DEF Migrated, Image
  <2> QED BY <1>3, <2>1, <2>2, <2>3 DEF Images
<1>5. DOMAIN <<x>> = {1} /\ <<x>>[1] = x /\ DOMAIN <<>> = {} OBVIOUS
<1>6. ImageOk(Fresh) /\ ImageOk(Legacy) /\ ImageOk(Migrated)
  BY <1>1, <1>2, <1>4, <1>5 DEF ImageOk
<1>7. Ids(<<>>) = {} /\ Ids(<<x>>) = {0} BY <1>1, <1>5 DEF Ids
<1> QED BY <1>2, <1>4, <1>6, <1>7

(* The ledger of a native file has the entries 1 and 2, each computed over *)
(* what came before.                                                       *)
LEMMA NativeLedger ==
    /\ Native \in Seq(Entry) /\ Ids(Native) = {1, 2}
    /\ \A i \in DOMAIN Native : Native[i].saw = i - 1
<1> DEFINE x == [id |-> 1, saw |-> 0]
           y == [id |-> 2, saw |-> 1]
<1>1. x \in Entry /\ x.id = 1 /\ x.saw = 0 /\ y \in Entry /\ y.id = 2 /\ y.saw = 1 BY DEF Entry
<1>2. Native = <<x, y>> BY DEF Native
<1> HIDE DEF x, y
<1>3. Native \in Seq(Entry) /\ DOMAIN Native = {1, 2} /\ Native[1] = x /\ Native[2] = y
  BY <1>1, <1>2
<1> QED BY <1>1, <1>3 DEF Ids

-----------------------------------------------------------------------------
(* Handles.                                                                *)

(* Publishing more leaves a handle as sound as it was. *)
LEMMA HandleMono ==
    ASSUME NEW d, NEW p, NEW q, p \subseteq q, HandleOk(d, p)
    PROVE  HandleOk(d, q)
<1>1. d.op # None => OpOk(d, q) BY DEF HandleOk, OpOk, ImportOp
<1>2. d.status = "open" => OpenOk(d, q) BY DEF HandleOk, OpenOk
<1> QED BY <1>1, <1>2 DEF HandleOk

(* A closed handle satisfies the invariant over any publications. *)
LEMMA ClosedOk == ASSUME NEW p PROVE HandleOk(Closed, p)
<1>1. Shape(Closed) BY DEF Shape, Closed, HandleFields
<1>2. Closed.status = "closed" /\ Closed.op = None BY DEF Closed
<1> QED BY <1>1, <1>2 DEF HandleOk

(* finish_mutation, field by field. *)
LEMMA FinishFields ==
    ASSUME NEW d, Shape(d), NEW failed \in BOOLEAN, NEW e, e = FinishMutation(d, failed)
    PROVE  /\ Shape(e)
           /\ e.status = d.status /\ e.live = d.live /\ e.pinned = d.pinned /\ e.op = None
           /\ ~e.mutation /\ ~e.advanced /\ ~e.rolledBack
           /\ e.pagedRead = d.pagedRead /\ e.paged = d.paged /\ e.rd = d.rd /\ e.view = d.view
           /\ e.poisoned <=> d.poisoned \/ (failed /\ d.advanced /\ ~d.rolledBack)
<1>1. /\ e = [k \in HandleFields |-> e[k]]
      /\ e.status = d.status /\ e.live = d.live /\ e.pinned = d.pinned /\ e.op = None
      /\ e.mutation = FALSE /\ e.advanced = FALSE /\ e.rolledBack = FALSE
      /\ e.pagedRead = d.pagedRead /\ e.paged = d.paged /\ e.rd = d.rd /\ e.view = d.view
      /\ e.poisoned = (d.poisoned \/ (failed /\ d.advanced /\ ~d.rolledBack))
  BY Zenon DEF Shape, FinishMutation, HandleFields
<1>2. e.poisoned \in BOOLEAN BY <1>1, Zenon
<1>3. e.poisoned <=> d.poisoned \/ (failed /\ d.advanced /\ ~d.rolledBack) BY <1>1, Zenon
<1> QED BY <1>1, <1>2, <1>3, Zenon DEF Shape

(* A read that is no paged read keeps nothing of the handle. *)
ViewRead(d) == d.rd # None => d.rd = [k \in RdFields |-> d.rd[k]] /\ d.rd.kind = "view"

(* A mutation ends poisoned, or with live state in step. *)
LEMMA FinishOk ==
    ASSUME NEW d, NEW pub, NEW failed \in BOOLEAN, Shape(d), d.status = "open",
           d.pinned \in pub, d.pinned.format # "legacy", ViewRead(d),
           \/ d.poisoned \/ (failed /\ d.advanced /\ ~d.rolledBack)
           \/ InStep(d) /\ ViewOk(d)
    PROVE  HandleOk(FinishMutation(d, failed), pub) /\ FinishMutation(d, failed).op = None
<1> DEFINE e == FinishMutation(d, failed)
<1>1. /\ Shape(e)
      /\ e.status = d.status /\ e.live = d.live /\ e.pinned = d.pinned /\ e.op = None
      /\ ~e.mutation
      /\ e.pagedRead = d.pagedRead /\ e.rd = d.rd /\ e.view = d.view
      /\ e.poisoned <=> d.poisoned \/ (failed /\ d.advanced /\ ~d.rolledBack)
  BY FinishFields
<1> HIDE DEF e
<1>2. ~e.poisoned => InStep(e) /\ ViewOk(e) BY <1>1 DEF InStep, ViewOk
<1>3. e.rd # None => ReadOk(e) BY <1>1 DEF ViewRead, ReadOk
<1>4. OpenOk(e, pub) BY <1>1, <1>2, <1>3 DEF OpenOk
<1>5. HandleOk(e, pub) BY <1>1, <1>4 DEF HandleOk
<1> QED BY <1>1, <1>5 DEF e

(* While a mutation runs, only a read without pages can be under way. *)
LEMMA NoPagedRead ==
    ASSUME NEW d, NEW pub, HandleOk(d, pub), d.status = "open", ~d.pagedRead
    PROVE  ViewRead(d)
BY DEF HandleOk, OpenOk, ReadOk, ViewRead

(* A suspended call other than an open belongs to a mutation. *)
LEMMA InMutation ==
    ASSUME NEW d, NEW pub, HandleOk(d, pub), d.op # None, d.op.kind # "open"
    PROVE  /\ d.status = "open" /\ d.mutation /\ ~d.poisoned /\ ~d.pagedRead /\ ViewRead(d)
           /\ ViewOk(d) /\ d.pinned \in pub /\ d.pinned.format # "legacy"
<1>1. d.status = "open" /\ d.mutation /\ ~d.poisoned BY DEF HandleOk, OpOk
<1>2. OpenOk(d, pub) BY <1>1 DEF HandleOk
<1> QED BY <1>1, <1>2, NoPagedRead DEF OpenOk

(* A usable handle: nothing suspended, live state in step. *)
LEMMA Usable ==
    ASSUME NEW d, NEW pub, HandleOk(d, pub), MayMutate(d)
    PROVE  /\ Shape(d) /\ d.status = "open" /\ d.op = None /\ InStep(d) /\ ViewOk(d) /\ ViewRead(d)
           /\ d.pinned \in pub /\ d.pinned.format # "legacy" /\ ~d.poisoned /\ ~d.pagedRead
           /\ ~d.mutation
<1>1. d.status = "open" /\ ~d.poisoned /\ ~d.mutation /\ ~d.pagedRead BY DEF MayMutate
<1>2. OpenOk(d, pub) /\ Shape(d) BY <1>1 DEF HandleOk
<1>3. d.op = None BY <1>1 DEF HandleOk, OpOk, OpenOp
<1> QED BY <1>1, <1>2, <1>3, NoPagedRead DEF OpenOk

-----------------------------------------------------------------------------
(* Steps of one handle.                                                    *)

(* A step of one handle leaves the others as they were, and sound. *)
LEMMA HandleStep ==
    ASSUME Inv, NEW h \in Handles, NEW e, Set(h, e), HandleOk(e, published'),
           published \subseteq published'
    PROVE  /\ db' = [g \in Handles |-> db'[g]]
           /\ db'[h] = e /\ \A g \in Handles : g # h => db'[g] = db[g]
           /\ \A g \in Handles : HandleOk(db'[g], published')
<1>1. db' = [db EXCEPT ![h] = e] /\ db = [g \in Handles |-> db[g]] BY DEF Set, Inv
<1>2. db' = [g \in Handles |-> IF g = h THEN e ELSE db[g]] BY <1>1
<1>3. db'[h] = e /\ \A g \in Handles : g # h => db'[g] = db[g] BY <1>2
<1>4. db' = [g \in Handles |-> db'[g]] BY <1>2
<1>5. ASSUME NEW g \in Handles, g # h PROVE HandleOk(db[g], published')
  <2>1. HandleOk(db[g], published) BY DEF Inv
  <2> DEFINE p == published
             q == published'
  <2> HIDE DEF p, q
  <2>2. p \subseteq q /\ HandleOk(db[g], p) BY <2>1 DEF p, q
  <2>3. HandleOk(db[g], q) BY <2>2, HandleMono
  <2> QED BY <2>3 DEF q
<1> QED BY <1>3, <1>4, <1>5

(* A step that publishes, numbers and rejects nothing. *)
LEMMA Quiet ==
    ASSUME Inv, NEW h \in Handles, NEW e, Set(h, e), HandleOk(e, published),
           UNCHANGED <<store, images, rejected, published>>,
           Pending(e) => Pending(db[h]) /\ e.op.id = db[h].op.id
    PROVE  Inv'
<1>1. /\ db' = [g \in Handles |-> db'[g]]
      /\ db'[h] = e /\ \A g \in Handles : g # h => db'[g] = db[g]
      /\ \A g \in Handles : HandleOk(db'[g], published')
  BY HandleStep
<1>2. \A g \in Handles : Pending(db'[g]) => Pending(db[g]) /\ db'[g].op.id = db[g].op.id
  BY <1>1
<1>3. IdsOk /\ ImagesOk BY DEF Inv
<1>4. IdsOk'
  <2>1. \A g \in Handles : Pending(db'[g]) =>
          /\ db'[g].op.id >= 3 /\ db'[g].op.id < images /\ db'[g].op.id \notin rejected
          /\ \A m \in published : db'[g].op.id \notin Ids(m.ledger)
    BY <1>2, <1>3 DEF IdsOk
  <2>2. \A g, k \in Handles : Pending(db'[g]) /\ Pending(db'[k]) /\ g # k =>
          db'[g].op.id # db'[k].op.id
    BY <1>2, <1>3 DEF IdsOk
  <2> QED BY <1>3, <2>1, <2>2 DEF IdsOk
<1>5. ImagesOk' BY <1>3 DEF ImagesOk
<1> QED BY <1>1, <1>4, <1>5 DEF Inv

(* A step that takes the next number, for a write or for nothing. *)
LEMMA Numbered ==
    ASSUME Inv, NEW h \in Handles, NEW e, Set(h, e), HandleOk(e, published),
           UNCHANGED <<store, rejected, published>>, images' = images + 1,
           Pending(e) => e.op.id = images
    PROVE  Inv'
<1>1. /\ db' = [g \in Handles |-> db'[g]]
      /\ db'[h] = e /\ \A g \in Handles : g # h => db'[g] = db[g]
      /\ \A g \in Handles : HandleOk(db'[g], published')
  BY HandleStep
<1>2. IdsOk /\ ImagesOk BY DEF Inv
<1>3. images \in Nat /\ images >= 3 /\ images' \in Nat /\ images' >= 3 BY <1>2 DEF IdsOk
<1>4. \A m \in published : \A t \in Ids(m.ledger) : t \in Nat
  <2>1. \A m \in published : m.ledger \in Seq(Entry) BY <1>2 DEF ImagesOk, ImageOk, Images
  <2> SUFFICES ASSUME NEW s \in Seq(Entry), NEW i \in DOMAIN s PROVE s[i].id \in Nat
    BY <2>1 DEF Ids
  <2>2. s[i] \in Entry OBVIOUS
  <2> QED BY <2>2 DEF Entry
<1>5. \A g \in Handles : Pending(db[g]) => db[g].op.id \in Nat
  BY DEF Inv, HandleOk, OpOk, Pending
<1>6. \A m \in published : \A t \in Ids(m.ledger) : t < images' /\ t \notin rejected /\ t # images
  <2>1. \A m \in published : \A t \in Ids(m.ledger) : t < images /\ t \notin rejected
    BY <1>2 DEF IdsOk
  <2>2. \A t \in Nat : t < images => t < images + 1 /\ t # images BY <1>3
  <2> QED BY <1>4, <2>1, <2>2
<1>7. \A t \in rejected : t \in Nat /\ 3 <= t /\ t < images' /\ t # images
  <2>1. \A t \in rejected : t \in Nat /\ 3 <= t /\ t < images BY <1>2 DEF IdsOk
  <2> QED BY <1>3, <2>1
<1>8. ASSUME NEW g \in Handles, Pending(db'[g])
      PROVE  /\ db'[g].op.id >= 3 /\ db'[g].op.id < images' /\ db'[g].op.id \notin rejected
             /\ \A m \in published : db'[g].op.id \notin Ids(m.ledger)
  <2>1. CASE g = h
    <3>1. db'[g].op.id = images BY <1>1, <1>8, <2>1
    <3> QED BY <1>3, <1>6, <1>7, <3>1
  <2>2. CASE g # h
    <3>1. Pending(db[g]) /\ db'[g].op.id = db[g].op.id BY <1>1, <1>8, <2>2
    <3>2. db[g].op.id >= 3 /\ db[g].op.id < images /\ db[g].op.id \notin rejected
          /\ \A m \in published : db[g].op.id \notin Ids(m.ledger)
      BY <1>2, <3>1 DEF IdsOk
    <3>3. db[g].op.id < images' BY <1>3, <1>5, <3>1, <3>2
    <3> QED BY <3>1, <3>2, <3>3
  <2> QED BY <2>1, <2>2
<1>9. ASSUME NEW g \in Handles, NEW k \in Handles, Pending(db'[g]), Pending(db'[k]), g # k
      PROVE  db'[g].op.id # db'[k].op.id
  <2>1. \A x \in Handles : x # h /\ Pending(db'[x]) =>
          /\ Pending(db[x]) /\ db'[x].op.id = db[x].op.id
          /\ db[x].op.id # images
    <3>1. \A x \in Handles : Pending(db[x]) => db[x].op.id \in Nat /\ db[x].op.id < images
      BY <1>2, <1>5 DEF IdsOk
    <3>2. \A t \in Nat : t < images => t # images BY <1>3
    <3> QED BY <1>1, <3>1, <3>2
  <2>2. CASE g # h /\ k # h BY <1>2, <1>9, <2>1, <2>2 DEF IdsOk
  <2>3. CASE g = h \/ k = h BY <1>1, <1>9, <2>1, <2>3
  <2> QED BY <2>2, <2>3
<1>10. IdsOk' BY <1>3, <1>6, <1>7, <1>8, <1>9 DEF IdsOk
<1>11. ImagesOk' BY <1>2 DEF ImagesOk
<1> QED BY <1>1, <1>10, <1>11 DEF Inv

(* A step that ends a call with an error, if the call was a write. *)
LEMMA Rejecting ==
    ASSUME Inv, NEW h \in Handles, NEW e, Set(h, e), HandleOk(e, published),
           UNCHANGED <<store, images, published>>, db[h].op # None,
           rejected' = Rejects(db[h].op), ~Pending(e), db[h].op.at # "committed"
    PROVE  Inv'
<1>1. /\ db' = [g \in Handles |-> db'[g]]
      /\ db'[h] = e /\ \A g \in Handles : g # h => db'[g] = db[g]
      /\ \A g \in Handles : HandleOk(db'[g], published')
  BY HandleStep
<1>2. IdsOk /\ ImagesOk BY DEF Inv
<1>3. CASE db[h].op.kind # "write"
  <2>1. rejected' = rejected BY <1>3 DEF Rejects
  <2> QED BY <2>1, Quiet
<1>4. CASE db[h].op.kind = "write"
  <2> DEFINE r == db[h].op.id
  <2>1. Pending(db[h]) /\ rejected' = rejected \cup {r} BY <1>4 DEF Rejects, Pending
  <2>2. r \in Nat BY <1>4 DEF Inv, HandleOk, OpOk
  <2>3. /\ r >= 3 /\ r < images /\ r \notin rejected
        /\ \A m \in published : r \notin Ids(m.ledger)
    BY <1>2, <2>1 DEF IdsOk
  <2>4. \A g \in Handles : Pending(db'[g]) =>
          g # h /\ Pending(db[g]) /\ db'[g].op.id = db[g].op.id /\ db[g].op.id # r
    BY <1>1, <1>2, <2>1 DEF IdsOk
  <2> HIDE DEF r
  <2>5. \A t \in rejected' : t \in Nat /\ 3 <= t /\ t < images
    BY <1>2, <2>1, <2>2, <2>3 DEF IdsOk
  <2>6. \A m \in published : \A t \in Ids(m.ledger) : t < images /\ t \notin rejected'
    BY <1>2, <2>1, <2>3 DEF IdsOk
  <2>7. \A g \in Handles : Pending(db'[g]) =>
          /\ db'[g].op.id >= 3 /\ db'[g].op.id < images /\ db'[g].op.id \notin rejected'
          /\ \A m \in published : db'[g].op.id \notin Ids(m.ledger)
    BY <1>2, <2>1, <2>4 DEF IdsOk
  <2>8. \A g, k \in Handles : Pending(db'[g]) /\ Pending(db'[k]) /\ g # k =>
          db'[g].op.id # db'[k].op.id
    BY <1>2, <2>4 DEF IdsOk
  <2>9. IdsOk' BY <1>2, <2>5, <2>6, <2>7, <2>8 DEF IdsOk
  <2>10. ImagesOk' BY <1>2 DEF ImagesOk
  <2> QED BY <1>1, <2>9, <2>10 DEF Inv
<1> QED BY <1>3, <1>4

-----------------------------------------------------------------------------
(* A suspended call moves on.                                              *)

(* The call of `d` is at `w` in `e`, and nothing else changed. *)
Moved(e, d, w) ==
    /\ Shape(e)
    /\ e.status = d.status /\ e.mode = d.mode /\ e.paged = d.paged /\ e.live = d.live
    /\ e.pinned = d.pinned /\ e.mutation = d.mutation /\ e.poisoned = d.poisoned
    /\ e.rolledBack = d.rolledBack /\ e.advanced = d.advanced
    /\ e.pagedRead = d.pagedRead /\ e.rd = d.rd /\ e.view = d.view
    /\ e.op.kind = d.op.kind /\ e.op.at = w /\ e.op.next = d.op.next /\ e.op.id = d.op.id
    /\ e.op # None
    /\ d.op.kind = "open" => e.op \in Opens
    /\ d.op.kind # "open" => e.op \in Mutations

(* Moving a suspended call to its next await changes nothing else of the   *)
(* handle.                                                                 *)
LEMMA MoveFields ==
    ASSUME NEW d, NEW pub, HandleOk(d, pub), d.op # None, NEW w \in Places,
           NEW e, e = [d EXCEPT !.op.at = w]
    PROVE  Moved(e, d, w)
<1>1. Shape(d) /\ OpOk(d, pub) BY DEF HandleOk
<1>2. /\ e = [k \in HandleFields |-> e[k]]
      /\ e.status = d.status /\ e.mode = d.mode /\ e.paged = d.paged /\ e.live = d.live
      /\ e.pinned = d.pinned /\ e.mutation = d.mutation /\ e.poisoned = d.poisoned
      /\ e.rolledBack = d.rolledBack /\ e.advanced = d.advanced
      /\ e.pagedRead = d.pagedRead /\ e.rd = d.rd /\ e.view = d.view
      /\ e.op = [d.op EXCEPT !.at = w]
  BY <1>1 DEF Shape, HandleFields
<1>3. Shape(e) BY <1>1, <1>2 DEF Shape
<1>4. CASE d.op.kind = "open"
  <2>1. d.op \in Opens BY <1>1, <1>4 DEF OpOk
  <2> DEFINE o == d.op
             x == e.op
  <2>2. o \in Opens /\ x = [o EXCEPT !.at = w] BY <1>2, <2>1
  <2> HIDE DEF o, x, Moved
  <2>3. x \in Opens /\ x.kind = o.kind /\ x.at = w /\ x.next = o.next /\ x.id = o.id
    BY <2>2 DEF Opens
  <2>4. x # None BY <2>3, BrowserAssumption
  <2> QED BY <1>2, <1>3, <1>4, <2>3, <2>4 DEF o, x, Moved
<1>5. CASE d.op.kind # "open"
  <2>1. d.op \in Mutations BY <1>1, <1>5 DEF OpOk
  <2> DEFINE o == d.op
             x == e.op
  <2>2. o \in Mutations /\ x = [o EXCEPT !.at = w] BY <1>2, <2>1
  <2> HIDE DEF o, x, Moved
  <2>3. x \in Mutations /\ x.kind = o.kind /\ x.at = w /\ x.next = o.next /\ x.id = o.id
    BY <2>2 DEF Mutations
  <2>4. x # None BY <2>3, BrowserAssumption
  <2> QED BY <1>2, <1>3, <1>5, <2>3, <2>4 DEF o, x, Moved
<1> QED BY <1>4, <1>5

(* Only the place of the call has to be accounted for. *)
LEMMA MoveOk ==
    ASSUME NEW d, NEW pub, HandleOk(d, pub), d.op # None, NEW w \in Places,
           NEW e, e = [d EXCEPT !.op.at = w], NEW new, pub \subseteq new,
           w \in {"tx", "committed"} => d.op.at \in {"tx", "committed"},
           w = "committed" => d.op.next \in new,
           w \in {"prefetch", "build"} => d.op.kind \in {"maintain", "rebuild"},
           w \in {"page0", "metadata", "eager"} => d.op.kind \in {"open", "write", "rebuild"},
           d.op.kind = "open" /\ w = "metadata" => d.pinned # None /\ d.pinned.format = "current",
           d.op.kind = "open" /\ w = "eager" => d.pinned # None
    PROVE  HandleOk(e, new)
<1>1. HandleOk(d, new) BY HandleMono
<1>2. OpOk(d, new) BY <1>1 DEF HandleOk
<1>3. /\ Shape(e)
      /\ e.status = d.status /\ e.live = d.live
      /\ e.pinned = d.pinned /\ e.mutation = d.mutation /\ e.poisoned = d.poisoned
      /\ e.rolledBack = d.rolledBack /\ e.advanced = d.advanced
      /\ e.pagedRead = d.pagedRead /\ e.rd = d.rd /\ e.view = d.view
      /\ e.op.kind = d.op.kind /\ e.op.at = w /\ e.op.next = d.op.next /\ e.op.id = d.op.id
      /\ e.op # None
      /\ d.op.kind = "open" => e.op \in Opens
      /\ d.op.kind # "open" => e.op \in Mutations
  <2>1. Moved(e, d, w) BY MoveFields
  <2> QED BY <2>1 DEF Moved
<1>4. e.op.kind = "open" => OpenOp(e) BY <1>2, <1>3 DEF OpOk, OpenOp
<1>5. e.op.kind = "write" => WriteOp(e)
  <2>1. d.op.kind = "write" => WriteOp(d) BY <1>2 DEF OpOk
  <2>2. w \in {"prefetch", "build"} \/ w \in {"tx", "committed", "aborted", "page0", "metadata", "eager"}
    BY DEF Places
  <2> QED BY <1>3, <2>1, <2>2 DEF WriteOp
<1>6. e.op.kind \in {"maintain", "rebuild"} => MaintainOp(e)
  BY <1>2, <1>3 DEF OpOk, MaintainOp, InStep
<1>7. e.op.kind = "import" => ImportOp(e, new)
  <2>1. w \in {"prefetch", "build"} \/ w \in {"page0", "metadata", "eager"}
        \/ w \in {"tx", "committed", "aborted"}
    BY DEF Places
  <2> QED BY <1>2, <1>3, <2>1 DEF OpOk, ImportOp, InStep
<1>8. OpOk(e, new) BY <1>2, <1>3, <1>4, <1>5, <1>6, <1>7 DEF OpOk
<1>9. e.status = "open" => OpenOk(e, new)
  BY <1>1, <1>3 DEF HandleOk, OpenOk, ReadOk, ViewOk
<1>10. e.status # "closed"
  BY <1>1, <1>3 DEF HandleOk, Closed
<1> QED BY <1>1, <1>3, <1>8, <1>9, <1>10 DEF HandleOk

(* A transaction that aborts (complete_transaction) keeps the invariant. *)
LEMMA AbortTransactionInv ==
    ASSUME Inv, NEW h \in Handles, AbortTransaction(h) PROVE Inv'
<1> DEFINE d == db[h]
           e == [d EXCEPT !.op.at = "aborted"]
<1>1. d.op # None /\ d.op.at = "tx" /\ Set(h, e) /\ UNCHANGED <<store, images, rejected, published>>
  BY DEF AbortTransaction, At, histories
<1>2. HandleOk(d, published) BY DEF Inv
<1>3. "aborted" \in Places BY DEF Places
<1> HIDE DEF d
<1>4. HandleOk(e, published) BY <1>1, <1>2, <1>3, MoveOk
<1>5. Moved(e, d, "aborted") BY <1>1, <1>2, <1>3, MoveFields
<1>6. Pending(e) => Pending(d) /\ e.op.id = d.op.id BY <1>1, <1>5 DEF Pending, Moved
<1> HIDE DEF e
<1> QED BY <1>1, <1>4, <1>6, Quiet DEF d

(* A prefetched batch of maintenance keeps the invariant, with or without  *)
(* an error.                                                               *)
LEMMA PrefetchInv ==
    ASSUME Inv, NEW h \in Handles, Prefetch(h) PROVE Inv'
<1> DEFINE d == db[h]
           e == [d EXCEPT !.op.at = "build"]
           f == FinishMutation(d, FALSE)
<1>1. /\ d.op # None /\ d.op.at = "prefetch" /\ (Set(h, e) \/ Set(h, f))
      /\ UNCHANGED <<store, images, rejected, published>>
  BY Zenon DEF Prefetch, At, histories
<1>2. HandleOk(d, published) BY DEF Inv
<1>3. d.op.kind \in {"maintain", "rebuild"} /\ InStep(d) BY <1>1, <1>2 DEF HandleOk, OpOk, MaintainOp
<1>4. "build" \in Places BY DEF Places
<1> HIDE DEF d
<1>5. CASE Set(h, e)
  <2>1. HandleOk(e, published) BY <1>1, <1>2, <1>3, <1>4, MoveOk
  <2>2. Moved(e, d, "build") BY <1>1, <1>2, <1>4, MoveFields
  <2>3. ~Pending(e) BY <1>3, <2>2 DEF Pending, Moved
  <2> HIDE DEF e
  <2> QED BY <1>1, <1>5, <2>1, <2>3, Quiet
<1>6. CASE Set(h, f)
  <2>1. Shape(d) /\ d.status = "open" /\ d.pinned \in published /\ d.pinned.format # "legacy"
        /\ ViewRead(d) /\ ViewOk(d)
    BY <1>1, <1>2, <1>3, InMutation DEF HandleOk
  <2>2. HandleOk(f, published) /\ f.op = None BY <1>3, <2>1, FinishOk, Zenon
  <2>4. ~Pending(f) BY <2>2, Zenon DEF Pending
  <2> HIDE DEF f
  <2> QED BY <1>1, <1>6, <2>2, <2>4, Quiet
<1> QED BY <1>1, <1>5, <1>6, Zenon

-----------------------------------------------------------------------------
(* Transactions.                                                           *)

(* The entries of a published ledger are old, not refused, and not those   *)
(* of a pending write.                                                     *)
LEMMA PublishedIds ==
    ASSUME Inv, NEW m \in published
    PROVE  /\ ImageOk(m) /\ m \in Images /\ m # None
           /\ \A t \in Ids(m.ledger) :
                 t < images /\ t \notin rejected
                 /\ \A g \in Handles : Pending(db[g]) => db[g].op.id # t
<1>1. ImageOk(m) /\ m \in Images BY DEF Inv, ImagesOk, ImageOk
<1>2. m # None BY <1>1, BrowserAssumption
<1> QED BY <1>1, <1>2 DEF Inv, IdsOk

(* What a transaction is about to publish. *)
LEMMA NextImage ==
    ASSUME Inv, NEW h \in Handles, At(h, "tx")
    PROVE  /\ ImageOk(db[h].op.next) /\ db[h].op.next.format # "legacy"
           /\ \A t \in Ids(db[h].op.next.ledger) :
                 t < images /\ t \notin rejected
                 /\ \A g \in Handles : g # h /\ Pending(db[g]) => db[g].op.id # t
<1> DEFINE d == db[h]
           n == d.op.next
<1>1. d.op # None /\ d.op.at = "tx" /\ HandleOk(d, published) BY DEF At, Inv
<1>2. OpOk(d, published) BY <1>1 DEF HandleOk
<1>3. n \in Images BY <1>1, <1>2 DEF OpOk
<1>4. images \in Nat /\ images >= 3 BY DEF Inv, IdsOk
<1>5. \A t \in {0, 1, 2} :
         t < images /\ t \notin rejected /\ \A g \in Handles : Pending(db[g]) => db[g].op.id # t
  <2>1. \A t \in {0, 1, 2} : t < images BY <1>4
  <2>2. \A r \in rejected : r \in Nat /\ 3 <= r BY DEF Inv, IdsOk
  <2>3. \A r \in rejected : r # 0 /\ r # 1 /\ r # 2 BY <2>2
  <2>4. \A g \in Handles : Pending(db[g]) => db[g].op.id \in Nat /\ db[g].op.id >= 3
    BY DEF Inv, IdsOk, HandleOk, OpOk, Pending
  <2>5. \A g \in Handles : Pending(db[g]) =>
          db[g].op.id # 0 /\ db[g].op.id # 1 /\ db[g].op.id # 2
    BY <2>4
  <2> QED BY <2>1, <2>3, <2>5
<1>6. CASE d.op.kind = "open"
  <2>1. n \in {Fresh, Migrated} BY <1>1, <1>2, <1>6 DEF OpOk, OpenOp
  <2>2. ImageOk(n) /\ n.format = "current" /\ Ids(n.ledger) \subseteq {0, 1, 2} BY <2>1, BuiltImages
  <2> QED BY <1>5, <2>2
<1>7. CASE d.op.kind = "write"
  <2>1. WriteOp(d) /\ d.op.id \in Nat BY <1>2, <1>7 DEF OpOk
  <2>2. d.pinned \in published BY <1>1, <1>7, InMutation
  <2>3. ImageOk(d.pinned) BY <2>2, PublishedIds
  <2>4. ImageOk(n) /\ Ids(n.ledger) = Ids(d.pinned.ledger) \cup {d.op.id}
    BY <1>3, <2>1, <2>3, AppendedImage, ZenonT(60) DEF WriteOp
  <2>5. n.format # "legacy" BY <2>1 DEF WriteOp
  <2>6. Pending(d) BY <1>1, <1>7 DEF Pending
  <2>7. /\ d.op.id < images /\ d.op.id \notin rejected
        /\ \A g \in Handles : g # h /\ Pending(db[g]) => db[g].op.id # d.op.id
    BY <2>6 DEF Inv, IdsOk
  <2>8. \A t \in Ids(d.pinned.ledger) :
           t < images /\ t \notin rejected
           /\ \A g \in Handles : Pending(db[g]) => db[g].op.id # t
    BY <2>2, PublishedIds
  <2> QED BY <2>4, <2>5, <2>7, <2>8
<1>8. CASE d.op.kind \in {"maintain", "rebuild"}
  <2>1. n.ledger = d.pinned.ledger /\ n.format = "current" BY <1>1, <1>2, <1>8 DEF OpOk, MaintainOp
  <2>2. d.pinned \in published BY <1>1, <1>8, InMutation
  <2>3. ImageOk(n) BY <1>3, <2>1, <2>2, PublishedIds DEF ImageOk
  <2> HIDE DEF n, d
  <2> QED BY <2>1, <2>2, <2>3, PublishedIds DEF n, d
<1>9. CASE d.op.kind = "import"
  <2>1. (n \in published \/ n.ledger = Native) /\ n.format \in {"current", "truncated"}
    BY <1>2, <1>9 DEF OpOk, ImportOp
  <2>2. CASE n \in published BY <2>1, <2>2, PublishedIds, Zenon
  <2>3. CASE n.ledger = Native
    <3>1. ImageOk(n) /\ Ids(n.ledger) \subseteq {0, 1, 2} BY <1>3, <2>3, NativeLedger DEF ImageOk
    <3> QED BY <1>5, <2>1, <3>1
  <2> QED BY <2>1, <2>2, <2>3
<1>10. d.op.kind \in {"open", "write", "maintain", "rebuild", "import"}
  BY <1>2 DEF OpOk, Mutations
<1> QED BY <1>6, <1>7, <1>8, <1>9, <1>10

(* The compare and swap of page 0 (write_pages, replace_all_pages) keeps   *)
(* the invariant.                                                          *)
LEMMA CommitTransactionInv ==
    ASSUME Inv, NEW h \in Handles, CommitTransaction(h) PROVE Inv'
<1> DEFINE d == db[h]
           n == d.op.next
           e == [d EXCEPT !.op.at = "committed"]
<1>1. /\ d.op # None /\ d.op.at = "tx" /\ At(h, "tx") /\ Set(h, e)
      /\ store' = n /\ published' = published \cup {n} /\ UNCHANGED <<images, rejected>>
  BY DEF CommitTransaction, At
<1>2. HandleOk(d, published) BY DEF Inv
<1>3. "committed" \in Places BY DEF Places
<1>4. /\ ImageOk(n) /\ n.format # "legacy"
      /\ \A t \in Ids(n.ledger) :
            t < images /\ t \notin rejected
            /\ \A g \in Handles : g # h /\ Pending(db[g]) => db[g].op.id # t
  BY <1>1, NextImage
<1>5. HandleOk(e, published')
  <2> DEFINE p == published
             q == published'
  <2>1. p \subseteq q /\ n \in q /\ HandleOk(d, p) BY <1>1, <1>2
  <2> HIDE DEF p, q, d
  <2>2. HandleOk(e, q) BY <1>1, <1>3, <2>1, MoveOk
  <2> QED BY <2>2 DEF q
<1>6. Moved(e, d, "committed")
  <2> HIDE DEF d
  <2> QED BY <1>1, <1>2, <1>3, MoveFields
<1>7. ~Pending(e) BY <1>6 DEF Pending, Moved
<1> HIDE DEF e
<1>8. /\ db' = [g \in Handles |-> db'[g]]
      /\ db'[h] = e /\ \A g \in Handles : g # h => db'[g] = db[g]
      /\ \A g \in Handles : HandleOk(db'[g], published')
  BY <1>1, <1>5, HandleStep
<1>9. \A g \in Handles : Pending(db'[g]) => g # h /\ Pending(db[g]) /\ db'[g] = db[g]
  BY <1>7, <1>8
<1>10. IdsOk BY DEF Inv
<1> HIDE DEF n
<1>11. \A m \in published' : \A t \in Ids(m.ledger) : t < images /\ t \notin rejected
  BY <1>1, <1>4, <1>10 DEF IdsOk
<1>12. \A g \in Handles : Pending(db'[g]) =>
         /\ db'[g].op.id >= 3 /\ db'[g].op.id < images /\ db'[g].op.id \notin rejected
         /\ \A m \in published' : db'[g].op.id \notin Ids(m.ledger)
  BY <1>1, <1>4, <1>9, <1>10 DEF IdsOk
<1>13. \A g, k \in Handles : Pending(db'[g]) /\ Pending(db'[k]) /\ g # k =>
         db'[g].op.id # db'[k].op.id
  BY <1>9, <1>10 DEF IdsOk
<1>14. IdsOk' BY <1>1, <1>10, <1>11, <1>12, <1>13 DEF IdsOk
<1>15. ImagesOk' BY <1>1, <1>4 DEF Inv, ImagesOk
<1> QED BY <1>8, <1>14, <1>15 DEF Inv

(* Building a maintenance candidate keeps the invariant. *)
LEMMA BuildCandidateInv ==
    ASSUME Inv, NEW h \in Handles, BuildCandidate(h) PROVE Inv'
<1> DEFINE d == db[h]
           n == Image(d.op.id, d.live.ledger, "current")
           e == [d EXCEPT !.op.at = "tx", !.op.next = n]
<1>1. /\ d.op # None /\ d.op.at = "build" /\ Set(h, e)
      /\ UNCHANGED <<store, images, rejected, published>>
  BY DEF BuildCandidate, At, histories
<1>2. HandleOk(d, published) BY DEF Inv
<1>3. OpOk(d, published) /\ Shape(d) BY <1>1, <1>2 DEF HandleOk
<1>4. d.op.kind \in {"maintain", "rebuild"} /\ d.op \in Mutations /\ d.op.id \in Nat /\ MaintainOp(d)
  BY <1>1, <1>3 DEF OpOk
<1>5. /\ d.status = "open" /\ d.mutation /\ ~d.poisoned /\ ~d.pagedRead /\ ViewRead(d)
      /\ ViewOk(d) /\ d.pinned \in published /\ d.pinned.format # "legacy"
  BY <1>1, <1>2, <1>4, InMutation
<1>6. n \in Images /\ n.ledger = d.pinned.ledger /\ n.format = "current"
  <2>1. d.live.ledger = d.pinned.ledger BY <1>4 DEF MaintainOp, InStep
  <2>2. d.pinned.ledger \in Seq(Entry) BY <1>5, PublishedIds DEF Images
  <2> QED BY <1>4, <2>1, <2>2 DEF Image, Images
<1> HIDE DEF d, n
<1>7. /\ e = [k \in HandleFields |-> e[k]]
      /\ e.status = d.status /\ e.mode = d.mode /\ e.paged = d.paged /\ e.live = d.live
      /\ e.pinned = d.pinned /\ e.mutation = d.mutation /\ e.poisoned = d.poisoned
      /\ e.rolledBack = d.rolledBack /\ e.advanced = d.advanced
      /\ e.pagedRead = d.pagedRead /\ e.rd = d.rd /\ e.view = d.view
      /\ e.op = [d.op EXCEPT !.at = "tx", !.next = n]
  BY <1>3, Zenon DEF Shape, HandleFields
<1>8. /\ e.op \in Mutations /\ e.op.kind = d.op.kind /\ e.op.at = "tx" /\ e.op.next = n
      /\ e.op.id = d.op.id
  <2> DEFINE o == d.op
             x == e.op
  <2>1. o \in Mutations /\ x = [o EXCEPT !.at = "tx", !.next = n] BY <1>4, <1>7
  <2> HIDE DEF o, x
  <2>2. x \in Mutations /\ x.kind = o.kind /\ x.at = "tx" /\ x.next = n /\ x.id = o.id
    BY <1>6, <2>1, Zenon DEF Mutations, Places
  <2> QED BY <2>2 DEF o, x
<1> HIDE DEF e
<1>9. Shape(e) BY <1>3, <1>7 DEF Shape
<1>10. MaintainOp(e) BY <1>4, <1>6, <1>7, <1>8 DEF MaintainOp, InStep
<1>11. OpOk(e, published) BY <1>4, <1>5, <1>6, <1>7, <1>8, <1>10, Zenon DEF OpOk
<1>12. e.op # None BY <1>8, BrowserAssumption
<1>13. OpenOk(e, published)
  BY <1>2, <1>5, <1>7, <1>12, Zenon DEF HandleOk, OpenOk, ViewRead, ReadOk, ViewOk
<1>14. HandleOk(e, published) BY <1>5, <1>7, <1>9, <1>11, <1>13 DEF HandleOk
<1>15. ~Pending(e) BY <1>4, <1>8 DEF Pending
<1> QED BY <1>1, <1>14, <1>15, Quiet

-----------------------------------------------------------------------------
(* Opening and reopening.                                                  *)

Loading(h) == At(h, "page0") \/ At(h, "metadata") \/ At(h, "eager")

(* What a call that loads can be. *)
LEMMA LoadingCall ==
    ASSUME Inv, NEW h \in Handles, Loading(h)
    PROVE  /\ db[h].op # None /\ db[h].op.kind \in {"open", "write", "rebuild"}
           /\ db[h].op.at \in {"page0", "metadata", "eager"}
           /\ HandleOk(db[h], published) /\ OpOk(db[h], published) /\ Shape(db[h])
<1>1. db[h].op # None /\ db[h].op.at \in {"page0", "metadata", "eager"} BY DEF Loading, At
<1>2. HandleOk(db[h], published) BY DEF Inv
<1>3. OpOk(db[h], published) /\ Shape(db[h]) BY <1>1, <1>2 DEF HandleOk
<1>4. db[h].op.kind \in {"open", "write", "maintain", "rebuild", "import"}
  BY <1>3 DEF OpOk, Mutations
<1>5. db[h].op.kind # "import" /\ db[h].op.kind # "maintain"
  BY <1>1, <1>3 DEF OpOk, ImportOp, MaintainOp
<1> QED BY <1>1, <1>2, <1>3, <1>4, <1>5

(* A handle whose open failed is sound. *)
LEMMA OpenFailedOk ==
    ASSUME Inv, NEW h \in Handles, Loading(h)
    PROVE  HandleOk(OpenFailed(h), published) /\ OpenFailed(h).op = None
<1> DEFINE d == db[h]
<1>1. /\ d.op # None /\ d.op.kind \in {"open", "write", "rebuild"}
      /\ d.op.at \in {"page0", "metadata", "eager"}
      /\ HandleOk(d, published) /\ OpOk(d, published) /\ Shape(d)
  BY LoadingCall
<1>2. CASE d.op.kind = "open"
  <2>1. OpenFailed(h) = Closed BY <1>2 DEF OpenFailed
  <2>2. Closed.op = None BY DEF Closed
  <2> QED BY <2>1, <2>2, ClosedOk
<1>3. CASE d.op.kind # "open"
  <2>1. /\ d.status = "open" /\ ViewRead(d) /\ ViewOk(d)
        /\ d.pinned \in published /\ d.pinned.format # "legacy"
    BY <1>1, <1>3, InMutation
  <2>2. CASE d.op.kind = "write"
    <3>1. OpenFailed(h) = FinishMutation(d, TRUE) BY <2>2, Zenon DEF OpenFailed, Restoring
    <3>2. d.advanced /\ ~d.rolledBack BY <1>1, <2>2 DEF OpOk, WriteOp
    <3> HIDE DEF d
    <3> QED BY <1>1, <2>1, <3>1, <3>2, FinishOk, Zenon
  <2>3. CASE d.op.kind = "rebuild"
    <3>1. OpenFailed(h) = FinishMutation(d, FALSE) BY <2>3, Zenon DEF OpenFailed, Restoring
    <3>2. InStep(d) BY <1>1, <2>3 DEF OpOk, MaintainOp
    <3> HIDE DEF d
    <3> QED BY <1>1, <2>1, <3>1, <3>2, FinishOk, Zenon
  <2> QED BY <1>1, <1>3, <2>2, <2>3
<1> QED BY <1>2, <1>3

(* A handle opened on the stored image is sound. *)
LEMMA OpenedOk ==
    ASSUME Inv, NEW h \in Handles, Loading(h), db[h].pinned = store, store \in published,
           store.format # "legacy", NEW paged \in BOOLEAN
    PROVE  HandleOk(Opened(h, store, paged), published) /\ Opened(h, store, paged).op = None
<1> DEFINE d == db[h]
           c == [d EXCEPT !.live = store, !.paged = paged, !.status = "open"]
           r == [c EXCEPT !.rolledBack = TRUE]
           n == [c EXCEPT !.op = None]
<1>1. /\ d.op # None /\ d.op.kind \in {"open", "write", "rebuild"}
      /\ HandleOk(d, published) /\ OpOk(d, published) /\ Shape(d)
  BY LoadingCall
<1>2. d.pinned = store OBVIOUS
<1>3. Opened(h, store, paged) =
        IF d.op.kind = "open" THEN n
        ELSE IF d.op.kind = "write" THEN FinishMutation(r, TRUE) ELSE FinishMutation(c, FALSE)
  <2>1. c.op = d.op BY <1>1 DEF Shape, HandleFields
  <2> QED BY <2>1 DEF Opened, Restoring
<1> HIDE DEF d
<1>4. /\ c = [k \in HandleFields |-> c[k]]
      /\ c.status = "open" /\ c.live = store /\ c.paged = paged
      /\ c.pinned = d.pinned /\ c.mutation = d.mutation /\ c.poisoned = d.poisoned
      /\ c.rolledBack = d.rolledBack /\ c.advanced = d.advanced
      /\ c.pagedRead = d.pagedRead /\ c.rd = d.rd /\ c.view = d.view
  BY <1>1, Zenon DEF Shape, HandleFields
<1> HIDE DEF c
<1>5. Shape(c) BY <1>1, <1>4 DEF Shape
<1>6. InStep(c) BY <1>2, <1>4 DEF InStep
<1>7. CASE d.op.kind = "open"
  <2>1. d.status = "opening" BY <1>1, <1>7 DEF OpOk, OpenOp
  <2>2. d.rd = None /\ d.view = None /\ ~d.mutation /\ ~d.pagedRead /\ ~d.poisoned
    BY <1>1, <2>1 DEF HandleOk
  <2>3. /\ n = [k \in HandleFields |-> n[k]] /\ n.op = None
        /\ n.status = c.status /\ n.live = c.live /\ n.paged = c.paged
        /\ n.pinned = c.pinned /\ n.mutation = c.mutation /\ n.poisoned = c.poisoned
        /\ n.rolledBack = c.rolledBack /\ n.advanced = c.advanced
        /\ n.pagedRead = c.pagedRead /\ n.rd = c.rd /\ n.view = c.view
    BY <1>5 DEF Shape, HandleFields
  <2> HIDE DEF n
  <2>4. Shape(n) BY <1>5, <2>3 DEF Shape
  <2>5. InStep(n) /\ ViewOk(n) BY <1>4, <1>6, <2>2, <2>3 DEF InStep, ViewOk
  <2>6. OpenOk(n, published) BY <1>2, <1>4, <2>2, <2>3, <2>5 DEF OpenOk
  <2>7. HandleOk(n, published) BY <1>4, <2>3, <2>4, <2>6 DEF HandleOk
  <2> QED BY <1>3, <1>7, <2>3, <2>7
<1>8. CASE d.op.kind # "open"
  <2>1. ViewRead(d) /\ ViewOk(d) BY <1>1, <1>8, InMutation
  <2>2. ViewRead(c) /\ ViewOk(c) BY <1>4, <2>1 DEF ViewRead, ViewOk
  <2>3. CASE d.op.kind = "write"
    <3>1. /\ r = [k \in HandleFields |-> r[k]] /\ r.rolledBack = TRUE /\ r.op = c.op
          /\ r.status = c.status /\ r.live = c.live /\ r.paged = c.paged
          /\ r.pinned = c.pinned /\ r.mutation = c.mutation /\ r.poisoned = c.poisoned
          /\ r.advanced = c.advanced
          /\ r.pagedRead = c.pagedRead /\ r.rd = c.rd /\ r.view = c.view
      BY <1>5, Zenon DEF Shape, HandleFields
    <3> HIDE DEF r
    <3>2. Shape(r) BY <1>5, <3>1, Zenon DEF Shape
    <3>3. InStep(r) /\ ViewOk(r) /\ ViewRead(r)
      BY <1>6, <2>2, <3>1, Zenon DEF InStep, ViewOk, ViewRead
    <3>4. r.status = "open" /\ r.pinned \in published /\ r.pinned.format # "legacy"
      BY <1>2, <1>4, <3>1
    <3> QED BY <1>3, <1>8, <2>3, <3>2, <3>3, <3>4, FinishOk, Zenon
  <2>4. CASE d.op.kind # "write"
    <3>1. c.status = "open" /\ c.pinned \in published /\ c.pinned.format # "legacy"
      BY <1>2, <1>4
    <3> QED BY <1>3, <1>5, <1>6, <1>8, <2>2, <2>4, <3>1, FinishOk, Zenon
  <2> QED BY <2>3, <2>4
<1> QED BY <1>7, <1>8

(* A call other than an open has pinned a current image. *)
LEMMA LoadsCurrent ==
    ASSUME Inv, NEW h \in Handles, Loading(h), db[h].op.kind # "open"
    PROVE  db[h].pinned \in published /\ db[h].pinned # None /\ db[h].pinned.format = "current"
<1>1. /\ db[h].op # None /\ db[h].op.kind \in {"open", "write", "rebuild"}
      /\ HandleOk(db[h], published) /\ OpOk(db[h], published)
  BY LoadingCall
<1>2. db[h].pinned \in published BY <1>1, InMutation
<1>3. db[h].pinned.format = "current"
  BY <1>1 DEF OpOk, WriteOp, MaintainOp, InStep
<1> QED BY <1>2, <1>3, PublishedIds

(* An open or a rollback that has its metadata keeps the invariant. *)
LEMMA LoadMetadataInv ==
    ASSUME Inv, NEW h \in Handles, LoadMetadata(h) PROVE Inv'
<1> DEFINE d == db[h]
           paged == d.mode # "eager"
           e == Opened(h, store, paged)
<1>1. /\ At(h, "metadata") /\ Loading(h) /\ d.pinned = store /\ Set(h, e)
      /\ rejected' = Rejects(d.op) /\ UNCHANGED <<store, images, published>>
  BY DEF LoadMetadata, Loading, Authority
<1>2. /\ d.op # None /\ d.op.kind \in {"open", "write", "rebuild"} /\ d.op.at = "metadata"
      /\ HandleOk(d, published) /\ OpOk(d, published)
  BY <1>1, LoadingCall DEF At
<1>3. store \in published /\ store.format = "current"
  <2>1. CASE d.op.kind = "open"
    <3>1. store # None /\ store.format = "current" BY <1>1, <1>2, <2>1, Zenon DEF OpOk, OpenOp
    <3> QED BY <3>1 DEF Inv, ImagesOk
  <2>2. CASE d.op.kind # "open" BY <1>1, <2>2, LoadsCurrent
  <2> QED BY <2>1, <2>2
<1>4. paged \in BOOLEAN OBVIOUS
<1> HIDE DEF paged
<1>5. HandleOk(e, published) /\ e.op = None BY <1>1, <1>3, <1>4, OpenedOk
<1> HIDE DEF e
<1>6. ~Pending(e) /\ db[h].op.at # "committed" BY <1>2, <1>5 DEF Pending
<1> QED BY <1>1, <1>2, <1>5, <1>6, Rejecting

(* A new page 0 or a migrated image goes to a transaction. *)
LEMMA WritesFirst ==
    ASSUME Inv, NEW h \in Handles, Loading(h), db[h].op.kind = "open", NEW n,
           \/ n = Fresh /\ db[h].pinned = None
           \/ n = Migrated /\ db[h].pinned = Legacy
    PROVE  LET e == [db[h] EXCEPT !.op.at = "tx", !.op.next = n]
           IN  HandleOk(e, published) /\ e.op.kind = "open"
<1> DEFINE d == db[h]
           e == [d EXCEPT !.op.at = "tx", !.op.next = n]
<1>1. d.op # None /\ HandleOk(d, published) /\ OpOk(d, published) /\ Shape(d) BY LoadingCall
<1>2. d.op \in Opens /\ d.status = "opening" BY <1>1 DEF OpOk, OpenOp
<1>3. n \in Images BY BuiltImages
<1>4. /\ d.op.kind = "open"
      /\ \/ n = Fresh /\ d.pinned = None
         \/ n = Migrated /\ d.pinned = Legacy
  OBVIOUS
<1>5. SUFFICES HandleOk(e, published) /\ e.op.kind = "open" OBVIOUS
<1> HIDE DEF d
<1>6. /\ e = [k \in HandleFields |-> e[k]]
      /\ e.status = d.status /\ e.mode = d.mode /\ e.paged = d.paged /\ e.live = d.live
      /\ e.pinned = d.pinned /\ e.mutation = d.mutation /\ e.poisoned = d.poisoned
      /\ e.rolledBack = d.rolledBack /\ e.advanced = d.advanced
      /\ e.pagedRead = d.pagedRead /\ e.rd = d.rd /\ e.view = d.view
      /\ e.op = [d.op EXCEPT !.at = "tx", !.next = n]
  BY <1>1, Zenon DEF Shape, HandleFields
<1>7. e.op \in Opens /\ e.op.kind = "open" /\ e.op.at = "tx" /\ e.op.next = n
  <2> DEFINE o == d.op
             x == e.op
  <2>1. o \in Opens /\ x = [o EXCEPT !.at = "tx", !.next = n] BY <1>2, <1>6
  <2> HIDE DEF o, x
  <2>2. x \in Opens /\ x.kind = "open" /\ x.at = "tx" /\ x.next = n
    BY <1>3, <2>1, Zenon DEF Opens, Places
  <2> QED BY <2>2 DEF x
<1> HIDE DEF e
<1>8. Shape(e) BY <1>1, <1>6 DEF Shape
<1>9. e.op # None BY <1>7, BrowserAssumption
<1>10. OpenOp(e) BY <1>2, <1>4, <1>6, <1>7 DEF OpenOp
<1>11. OpOk(e, published) BY <1>3, <1>7, <1>10 DEF OpOk
<1>12. HandleOk(e, published) BY <1>1, <1>2, <1>6, <1>8, <1>9, <1>11 DEF HandleOk
<1> QED BY <1>7, <1>12

(* Reading page 0, in an open or a rollback, keeps the invariant. *)
LEMMA LoadPage0Inv ==
    ASSUME Inv, NEW h \in Handles, LoadPage0(h) PROVE Inv'
<1> DEFINE d == db[h]
           n == [d EXCEPT !.op.at = "tx", !.op.next = Fresh]
           m == [d EXCEPT !.op.at = "metadata"]
           a == [d EXCEPT !.op.at = "eager"]
           f == OpenFailed(h)
<1>1. /\ At(h, "page0") /\ Loading(h) /\ d.pinned = store
      /\ UNCHANGED <<store, images, rejected, published>>
  BY DEF LoadPage0, Loading, Authority, histories
<1>2. /\ d.op # None /\ d.op.kind \in {"open", "write", "rebuild"} /\ d.op.at = "page0"
      /\ HandleOk(d, published) /\ OpOk(d, published)
  BY <1>1, LoadingCall DEF At
<1>3. "metadata" \in Places /\ "eager" \in Places BY DEF Places
<1>4. CASE store = None
  <2>1. Set(h, n) BY <1>4 DEF LoadPage0
  <2>2. d.op.kind = "open" BY <1>1, <1>4, LoadsCurrent
  <2>3. HandleOk(n, published) /\ n.op.kind = "open" BY <1>1, <1>4, <2>2, WritesFirst, Zenon
  <2> HIDE DEF n
  <2>4. ~Pending(n) BY <2>3 DEF Pending
  <2> QED BY <1>1, <2>1, <2>3, <2>4, Quiet
<1>5. CASE store # None /\ store.format = "current"
  <2>1. Set(h, m) BY <1>5 DEF LoadPage0
  <2> HIDE DEF d
  <2>2. HandleOk(m, published) BY <1>1, <1>2, <1>3, <1>5, MoveOk
  <2>3. Moved(m, d, "metadata") BY <1>2, <1>3, MoveFields
  <2>4. Pending(m) => Pending(d) /\ m.op.id = d.op.id BY <1>2, <2>3 DEF Pending, Moved
  <2> HIDE DEF m
  <2> QED BY <1>1, <2>1, <2>2, <2>4, Quiet DEF d
<1>6. CASE store # None /\ store.format # "current"
  <2>1. Set(h, IF RefusesOlder(h) THEN f ELSE a) BY <1>6 DEF LoadPage0
  <2>2. CASE RefusesOlder(h)
    <3>1. HandleOk(f, published) /\ f.op = None BY <1>1, OpenFailedOk
    <3> HIDE DEF f
    <3>2. ~Pending(f) BY <3>1 DEF Pending
    <3> QED BY <1>1, <2>1, <2>2, <3>1, <3>2, Quiet
  <2>3. CASE ~RefusesOlder(h)
    <3>1. Set(h, a) BY <2>1, <2>3
    <3> HIDE DEF d
    <3>2. HandleOk(a, published) BY <1>1, <1>2, <1>3, <1>6, MoveOk
    <3>3. Moved(a, d, "eager") BY <1>2, <1>3, MoveFields
    <3>4. Pending(a) => Pending(d) /\ a.op.id = d.op.id BY <1>2, <3>3 DEF Pending, Moved
    <3> HIDE DEF a
    <3> QED BY <1>1, <3>1, <3>2, <3>4, Quiet DEF d
  <2> QED BY <2>2, <2>3
<1> QED BY <1>4, <1>5, <1>6

(* Loading all pages, with the migration of an old image, keeps the        *)
(* invariant.                                                              *)
LEMMA LoadAllOrMigrateInv ==
    ASSUME Inv, NEW h \in Handles, LoadAllOrMigrate(h) PROVE Inv'
<1> DEFINE d == db[h]
           n == [d EXCEPT !.op.at = "tx", !.op.next = Migrated]
           o == Opened(h, store, FALSE)
           f == OpenFailed(h)
<1>1. /\ At(h, "eager") /\ Loading(h) /\ d.pinned = store /\ UNCHANGED <<store, images, published>>
  BY DEF LoadAllOrMigrate, Loading, Authority
<1>2. /\ d.op # None /\ d.op.kind \in {"open", "write", "rebuild"} /\ d.op.at = "eager"
      /\ HandleOk(d, published) /\ OpOk(d, published)
  BY <1>1, LoadingCall DEF At
<1>3. store \in published
  <2>1. store # None BY <1>1, <1>2, LoadsCurrent DEF OpOk, OpenOp
  <2> QED BY <2>1 DEF Inv, ImagesOk
<1>4. CASE store.format = "legacy"
  <2>1. Set(h, n) /\ rejected' = rejected BY <1>4 DEF LoadAllOrMigrate
  <2>2. store = Legacy BY <1>3, <1>4 DEF Inv, ImagesOk
  <2>3. d.op.kind = "open" BY <1>1, <1>4, LoadsCurrent
  <2>4. HandleOk(n, published) /\ n.op.kind = "open" BY <1>1, <2>2, <2>3, WritesFirst, Zenon
  <2> HIDE DEF n
  <2>5. ~Pending(n) BY <2>4 DEF Pending
  <2> QED BY <1>1, <2>1, <2>4, <2>5, Quiet
<1>5. CASE store.format # "legacy"
  <2>1. rejected' = Rejects(d.op) /\ (Set(h, o) \/ Set(h, f)) BY <1>5, Zenon DEF LoadAllOrMigrate
  <2>2. HandleOk(o, published) /\ o.op = None BY <1>1, <1>3, <1>5, OpenedOk, Zenon
  <2>3. HandleOk(f, published) /\ f.op = None BY <1>1, OpenFailedOk
  <2> HIDE DEF o, f
  <2>4. ~Pending(o) /\ ~Pending(f) /\ d.op.at # "committed" BY <1>2, <2>2, <2>3 DEF Pending
  <2> QED BY <1>1, <1>2, <2>1, <2>2, <2>3, <2>4, Rejecting
<1> QED BY <1>4, <1>5

(* A failed open or rollback keeps the invariant. *)
LEMMA FailOpenInv ==
    ASSUME Inv, NEW h \in Handles, FailOpen(h) PROVE Inv'
<1> DEFINE d == db[h]
           a == [d EXCEPT !.op.at = "eager"]
           f == OpenFailed(h)
<1>1. Loading(h) /\ UNCHANGED <<store, images, published>> BY DEF FailOpen, Loading
<1>2. /\ d.op # None /\ d.op.kind \in {"open", "write", "rebuild"}
      /\ d.op.at \in {"page0", "metadata", "eager"}
      /\ HandleOk(d, published) /\ OpOk(d, published)
  BY <1>1, LoadingCall
<1>3. CASE At(h, "metadata") /\ d.mode = "eager"
  <2>1. Set(h, a) /\ rejected' = rejected BY <1>3 DEF FailOpen
  <2>2. d.op.at = "metadata" BY <1>3 DEF At
  <2>3. "eager" \in Places BY DEF Places
  <2>4. d.op.kind = "open" => d.pinned # None BY <1>2, <2>2 DEF OpOk, OpenOp
  <2> HIDE DEF d
  <2>5. HandleOk(a, published) BY <1>2, <2>3, <2>4, MoveOk
  <2>6. Moved(a, d, "eager") BY <1>2, <2>3, MoveFields
  <2>7. Pending(a) => Pending(d) /\ a.op.id = d.op.id BY <1>2, <2>6 DEF Pending, Moved
  <2> HIDE DEF a
  <2> QED BY <1>1, <2>1, <2>5, <2>7, Quiet DEF d
<1>4. CASE ~(At(h, "metadata") /\ d.mode = "eager")
  <2>1. Set(h, f) /\ rejected' = Rejects(d.op) BY <1>4 DEF FailOpen
  <2>2. HandleOk(f, published) /\ f.op = None BY <1>1, OpenFailedOk
  <2> HIDE DEF f
  <2>3. ~Pending(f) /\ d.op.at # "committed" BY <1>2, <2>2 DEF Pending
  <2> QED BY <1>1, <1>2, <2>1, <2>2, <2>3, Rejecting
<1> QED BY <1>3, <1>4
=============================================================================
