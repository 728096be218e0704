-------------------------- MODULE ProjectionImage ----------------------------
(***************************************************************************)
(* The pages of a current projection (storage/current_projection_image.rs) *)
(* and the columns they hold (graph/current_projection.rs): a candidate is *)
(* built, refreshed, encoded, verified and published, and its pages are    *)
(* scanned row by row while pages come and go, or turn out damaged.        *)
(*                                                                         *)
(* A cell stands for what the codec reads as a unit: an entity, a value    *)
(* offset, a byte of a value or of a time.  A row is <<entity, value,      *)
(* valid_from, valid_to>>, its value the cells of the encoded value.  A    *)
(* checksum or fingerprint is the content it covers.                       *)
(***************************************************************************)
EXTENDS Integers, Sequences, FiniteSets, SequencesExt, FiniteSetsExt, Bitwise

CONSTANTS
    ProjRows,        \* rows a candidate may have
    MaxProjRows,     \* bound on the rows of a base
    MaxReplaced,     \* bound on the rows of a replaced entity
    ProjFloor,       \* valid_time_floor
    PageCells,       \* PAGE_SIZE
    PredictorSlots,  \* predictors of a temporal column, 8 in the code
    ScanCache,       \* ProjectionPageCache::CAPACITY
    ScanInstants,    \* instants asked for
    NoImage

ASSUME ProjectionImageAssumption ==
    {MaxProjRows, MaxReplaced, PageCells, PredictorSlots, ScanCache} \subseteq Nat \ {0}

VARIABLES
    truth,     \* the rows the ledger shows for the candidate
    cand,      \* CurrentProjectionCandidate
    img,       \* the published image
    rotten,    \* has a page of it changed on disk?
    resident,  \* its pages the reader can read without a fetch
    scan       \* CurrentProjectionScan and the rows it visited

ivars == <<truth, cand, img, rotten, resident, scan>>

-----------------------------------------------------------------------------
(* Temporal columns.  A time has 5 bits for 64 and a varint digit 2 for 7, *)
(* so that the last of its three digits holds one bit, as the tenth does.  *)

Word == 32
DigitBase == 4
MaxDigits == 3

Signed(b) == IF b >= Word \div 2 THEN b - Word ELSE b

varint_len(v) == 1 + Cardinality({k \in 1..(MaxDigits - 1) : v >= DigitBase ^ k})

encode_varint(v) ==
    [i \in 1..varint_len(v) |->
        ((v \div DigitBase ^ (i - 1)) % DigitBase) + IF i < varint_len(v) THEN DigitBase ELSE 0]

NewColumn == [cells |-> <<>>, pos |-> 0, pred |-> [i \in 1..PredictorSlots |-> 0], slot |-> 1]

Predict(c, b) == [c EXCEPT !.pred[c.slot] = b, !.slot = (c.slot % PredictorSlots) + 1]

(* TemporalColumnBuilder::push: the predictor that leaves the shortest     *)
(* difference, the first of them.                                          *)
TemporalPush(c, v) ==
    LET b == v % Word
        Cost(i) == varint_len(b ^^ c.pred[i]) * PredictorSlots + i
        p == CHOOSE i \in 1..PredictorSlots : \A j \in 1..PredictorSlots : Cost(i) <= Cost(j)
    IN  Predict([c EXCEPT !.cells = @ \o <<p - 1>> \o encode_varint(b ^^ c.pred[p])], b)

(* The next time of a column: the cells it read, and an error where the    *)
(* column ends, the predictor is unknown or the varint is not canonical.   *)
TemporalNext(d, cells) ==
    LET at   == d.pos + 1
        Digit(k) == cells[at + k] % DigitBase
        Bad(n) == \/ at > Len(cells) \/ cells[at] >= PredictorSlots \/ n = 0
                  \/ n = MaxDigits /\ Digit(n) > 1
                  \/ n > 1 /\ Digit(n) = 0
        Sum(n) == FoldLeft(LAMBDA x, k : x + Digit(k) * DigitBase ^ (k - 1), 0, [k \in 1..n |-> k])
        Time(n, b) == [err |-> FALSE, v |-> Signed(b), d |-> Predict([d EXCEPT !.pos = at + n], b),
                       read |-> at..(at + n)]
        Read(n) == IF Bad(n)
                   THEN [err |-> TRUE, v |-> 0, d |-> d,
                         read |-> Min({at, Len(cells)})..Min({at + MaxDigits, Len(cells)})]
                   ELSE Time(n, d.pred[cells[at] + 1] ^^ Sum(n))
        Digits(last) == IF last = {} THEN 0 ELSE Min(last)
    IN  Read(Digits({k \in 1..MaxDigits : at + k <= Len(cells) /\ cells[at + k] < DigitBase}))

(* TemporalColumnDecoder over a whole column. *)
DecodeColumn(cells, rows) ==
    LET Taken(s, r) == [err |-> s.err \/ r.err, d |-> r.d, vs |-> Append(s.vs, r.v)]
        Step(s, i) == Taken(s, TemporalNext(s.d, cells))
        Ends(s) == [err |-> s.err \/ s.d.pos # Len(cells), vs |-> s.vs]
    IN  Ends(FoldLeft(Step, [err |-> FALSE, d |-> NewColumn, vs |-> <<>>], [i \in 1..rows |-> i]))

-----------------------------------------------------------------------------
(* Candidates.                                                             *)

(* The tags of encode_value; a fixed payload takes one cell. *)
validate_encoded_value(v) ==
    /\ v # <<>>
    /\ LET payload == Tail(v)
       IN  CASE v[1] = 0 -> payload = <<>>
             [] v[1] = 1 -> payload \in {<<0>>, <<1>>}
             [] v[1] \in {2, 3, 6} -> Len(payload) = 1
             [] v[1] \in {4, 5} -> \A i \in DOMAIN payload : payload[i] < 8
             [] OTHER -> FALSE

CellsLess(a, b) ==
    \E n \in 0..Len(b) :
        /\ n <= Len(a) /\ SubSeq(a, 1, n) = SubSeq(b, 1, n)
        /\ n < Len(b) /\ (n = Len(a) \/ a[n + 1] < b[n + 1])

(* Rows by entity, then value, then valid time. *)
RowBefore(r, s) ==
    \/ r[1] < s[1]
    \/ r[1] = s[1] /\ CellsLess(r[2], s[2])
    \/ r[1] = s[1] /\ r[2] = s[2] /\ (r[3] < s[3] \/ (r[3] = s[3] /\ r[4] < s[4]))

Sorted(S) == SetToSortSeq(S, RowBefore)

(* Row-aligned columns. *)
Columns(rows) ==
    LET Upto(n) == FoldLeft(LAMBDA c, i : c + Len(rows[i][2]), 0, [i \in 1..n |-> i])
        Times(k) == FoldLeft(LAMBDA c, r : TemporalPush(c, r[k]), NewColumn, rows).cells
    IN  [entities |-> [i \in DOMAIN rows |-> rows[i][1]],
         offsets  |-> [i \in 1..(Len(rows) + 1) |-> Upto(i - 1)],
         values   |-> FlattenSeq([i \in DOMAIN rows |-> rows[i][2]]),
         from |-> Times(3), to |-> Times(4)]

(* CurrentProjectionBuilder: rows past their end at the floor are dropped. *)
Built(S) == [base |-> Columns(Sorted({r \in S : r[4] > ProjFloor})), overlay |-> <<>>]

(* The rows of columns, or an error. *)
BaseRows(c) ==
    LET n == Len(c.entities)
        Rows(from, to) ==
            [err |-> from.err \/ to.err,
             rows |-> [i \in 1..n |-> <<c.entities[i],
                                        SubSeq(c.values, c.offsets[i] + 1, c.offsets[i + 1]),
                                        from.vs[i], to.vs[i]>>]]
    IN  Rows(DecodeColumn(c.from, n), DecodeColumn(c.to, n))

replace_entity(c, e, S) == [c EXCEPT !.overlay = (e :> Sorted(S)) @@ @]

(* Base and overlay, by entity; the overlay replaces an entity's rows. *)
visit_merged_encoded(c) ==
    LET Of(e, base) == IF e \in DOMAIN c.overlay THEN c.overlay[e]
                       ELSE SelectSeq(base, LAMBDA r : r[1] = e)
        ByEntity(es, base) == FlattenSeq([i \in DOMAIN es |-> Of(es[i], base)])
        Merged(base) ==
            ByEntity(SetToSortSeq({base[i][1] : i \in DOMAIN base} \cup DOMAIN c.overlay, <), base)
    IN  Merged(BaseRows(c.base).rows)

-----------------------------------------------------------------------------
(* Images.  The attribute takes one cell, 7, of the first page after the   *)
(* header; every other column starts on a page of its own.                 *)

align_page(n) == ((n + PageCells - 1) \div PageCells) * PageCells

Layout(lens) ==
    [k \in DOMAIN lens |->
        [offset |-> FoldLeft(LAMBDA o, j : o + align_page(lens[j]), 0, [j \in 1..(k - 1) |-> j]),
         len |-> lens[k]]]

Contents(c) == << <<7>>, c.entities, c.offsets, c.values, c.from, c.to >>

encode(c) ==
    LET Padded(s) == [i \in 1..align_page(Len(s)) |-> IF i <= Len(s) THEN s[i] ELSE 0]
        Image(rows, secs, payload) ==
            [head |-> [intact |-> TRUE, pages |-> Len(payload) \div PageCells, floor |-> ProjFloor,
                       rows |-> Len(rows), fingerprint |-> rows, sections |-> secs,
                       crc |-> payload],
             payload |-> payload]
        Paged(rows, cols) == Image(rows, Layout([k \in 1..6 |-> Len(cols[k])]),
                                   FlattenSeq([k \in 1..6 |-> Padded(cols[k])]))
        Encoded(rows) == Paged(rows, Contents(Columns(rows)))
    IN  Encoded(visit_merged_encoded(c))

Section(i, k) ==
    LET s == i.head.sections[k] IN SubSeq(i.payload, s.offset + 1, s.offset + s.len)

(* validate_sections and validate_streaming_sections. *)
validate_sections(i) ==
    LET s == i.head.sections
    IN  /\ s = Layout([k \in 1..6 |-> s[k].len])
        /\ s[6].offset + align_page(s[6].len) = Len(i.payload)
        /\ s[2].len = i.head.rows /\ s[3].len = i.head.rows + 1

(* validate_borrowed_columns and from_encoded_columns. *)
validate_columns(c) ==
    LET n == Len(c.entities)
        o == c.offsets
        Sound(b) == /\ ~b.err
                    /\ \A i \in 1..n : /\ validate_encoded_value(b.rows[i][2])
                                       /\ b.rows[i][3] < b.rows[i][4] /\ b.rows[i][4] > ProjFloor
    IN  /\ \A i \in 1..(n - 1) : c.entities[i] <= c.entities[i + 1]
        /\ o[1] = 0 /\ o[n + 1] = Len(c.values) /\ \A i \in 1..n : o[i] <= o[i + 1]
        /\ Sound(BaseRows(c))

(* The candidate an image decodes to, if it is sound throughout. *)
decode(i) ==
    LET c == [entities |-> Section(i, 2), offsets |-> Section(i, 3), values |-> Section(i, 4),
              from |-> Section(i, 5), to |-> Section(i, 6)]
    IN  IF /\ i.head.intact /\ i.head.pages * PageCells = Len(i.payload)
           /\ i.head.floor = ProjFloor /\ i.head.crc = i.payload
           /\ validate_sections(i) /\ Section(i, 1) = <<7>> /\ validate_columns(c)
           /\ visit_merged_encoded([base |-> c, overlay |-> <<>>]) = i.head.fingerprint
        THEN {[base |-> c, overlay |-> <<>>]} ELSE {}

-----------------------------------------------------------------------------
(* Publication and damage.                                                 *)

NoScan == [st |-> "none"]

ImageInit ==
    /\ \E S \in SUBSET ProjRows :
           /\ Cardinality(S) <= MaxProjRows
           /\ cand = Built(S) /\ truth = {r \in S : r[4] > ProjFloor}
    /\ img = NoImage /\ rotten = FALSE /\ resident = {} /\ scan = NoScan

(* refresh_current_projection_candidate: an entity's rows, as they are now. *)
Refresh(e, S) ==
    LET kept == {r \in S : r[4] > ProjFloor} IN
    /\ img = NoImage /\ cand.overlay = <<>>
    /\ cand' = replace_entity(cand, e, kept)
    /\ truth' = {r \in truth : r[1] # e} \cup kept
    /\ UNCHANGED <<img, rotten, resident, scan>>

(* plan_current_projection_publication decodes what it publishes. *)
PublishImage ==
    /\ img = NoImage
    /\ \E i \in {encode(cand)} : decode(i) # {} /\ img' = i
    /\ UNCHANGED <<truth, cand, rotten, resident, scan>>

(* One cell of one page changes; the header page has its own checksum. *)
Rot ==
    /\ img # NoImage /\ scan = NoScan /\ ~rotten /\ rotten' = TRUE
    /\ \/ img' = [img EXCEPT !.head.intact = FALSE]
       \/ \E x \in 1..Len(img.payload), v \in {1, 4} :
              img' = [img EXCEPT !.payload[x] = @ ^^ v]
    /\ UNCHANGED <<truth, cand, resident, scan>>

-----------------------------------------------------------------------------
(* The page-backed scan.  Page 0 is the header.                            *)

PageAt(k, i) == 1 + ((img.head.sections[k].offset + i - 1) \div PageCells)
PagesAt(k, I) == SetToSortSeq({PageAt(k, i) : i \in I}, <)

(* ProjectionPageCache: a page in the cache moves to its end, another one  *)
(* is read, unless it is not resident.                                     *)
ReadPage(s, p) ==
    LET rest == SelectSeq(s.lru, LAMBDA q : q # p)
    IN  IF s.miss # {} THEN s
        ELSE IF p \in ToSet(s.lru) THEN [s EXCEPT !.lru = Append(rest, p)]
        ELSE IF p \notin resident THEN [s EXCEPT !.miss = {p}]
        ELSE [s EXCEPT !.lru = Append(IF Len(rest) = ScanCache THEN Tail(rest) ELSE rest, p)]

ReadPages(s, pages) == FoldLeft(ReadPage, s, pages)

Ended(st) == [scan EXCEPT !.st = st]

OpenScan(t) ==
    /\ img # NoImage /\ scan.st \in {"none", "opening"}
    /\ LET new == [st |-> "scan", at |-> t, row |-> 0, from |-> NewColumn, to |-> NewColumn,
                   prev |-> 0, seen |-> <<>>, lru |-> <<>>, miss |-> {}, out |-> <<>>]
           s == ReadPage(new, 0)
           a == ReadPage(s, 1)
       IN  scan' = IF s.miss # {} THEN [s EXCEPT !.st = "opening"]
                   ELSE IF ~(img.head.intact /\ validate_sections(img)) THEN [s EXCEPT !.st = "corrupt"]
                   ELSE IF a.miss # {} THEN [a EXCEPT !.st = "opening"]
                   ELSE IF Section(img, 1) = <<7>> THEN a ELSE [a EXCEPT !.st = "corrupt"]
    /\ UNCHANGED <<truth, cand, img, rotten, resident>>

(* The row at hand: what it reads, in order, up to the first error. *)
RowAt(s) ==
    LET i     == s.row + 1
        e     == Section(img, 2)[i]
        lo    == Section(img, 3)[i]
        hi    == Section(img, 3)[i + 1]
        from  == TemporalNext(s.from, Section(img, 5))
        to    == TemporalNext(s.to, Section(img, 6))
        split == lo <= hi /\ hi <= Len(Section(img, 4))
        value == IF split THEN SubSeq(Section(img, 4), lo + 1, hi) ELSE <<>>
        bad   == <<s.prev > e, ~split, from.err,
                   to.err \/ from.v >= to.v \/ to.v <= ProjFloor, ~validate_encoded_value(value)>>
        stop  == {k \in 1..5 : bad[k]}
        Pages(k) == CASE k = 1 -> PagesAt(2, {i})
                      [] k = 2 -> PagesAt(3, {i, i + 1})
                      [] k = 3 -> PagesAt(5, from.read)
                      [] k = 4 -> PagesAt(6, to.read)
                      [] k = 5 -> PagesAt(4, (lo + 1)..hi)
        upto  == IF stop = {} THEN 5 ELSE Min(stop)
    IN  [row |-> <<e, value, from.v, to.v>>, bad |-> stop # {},
         from |-> from.d, to |-> to.d, pages |-> FlattenSeq([k \in 1..upto |-> Pages(k)])]

Advanced(s, r) ==
    [s EXCEPT !.row = @ + 1, !.from = r.from, !.to = r.to, !.prev = r.row[1],
              !.seen = Append(@, r.row),
              !.out = IF r.row[3] <= s.at /\ s.at < r.row[4] THEN Append(@, r.row) ELSE @]

(* Mutant: the time of a row is taken even if the row is then interrupted. *)
ScanRowEager ==
    /\ scan.st = "scan" /\ scan.miss = {} /\ scan.row < img.head.rows
    /\ \E r \in {RowAt(scan)} : \E s \in {ReadPages(scan, r.pages)} :
           scan' = IF s.miss # {} THEN [s EXCEPT !.from = r.from]
                   ELSE IF r.bad THEN Ended("corrupt") ELSE Advanced(s, r)
    /\ resident' \in {resident, {}}
    /\ UNCHANGED <<truth, cand, img, rotten>>

(* CurrentProjectionScan::step, a row at a time: a missing page leaves the *)
(* row for the next step.  Between steps staged pages may be evicted.      *)
ScanRow ==
    /\ scan.st = "scan" /\ scan.miss = {} /\ scan.row < img.head.rows
    /\ \E r \in {RowAt(scan)} : \E s \in {ReadPages(scan, r.pages)} :
           /\ scan' = IF s.miss # {} THEN s
                      ELSE IF r.bad THEN Ended("corrupt") ELSE Advanced(s, r)
           /\ resident' \in IF s.miss # {} THEN {resident} ELSE {resident, {}}
    /\ UNCHANGED <<truth, cand, img, rotten>>

(* The page comes with its neighbour (fetch_and_stage_page_window). *)
StageProjection ==
    /\ scan.st \in {"scan", "opening"} /\ scan.miss # {}
    /\ resident' = resident \cup (UNION {{p, p + 1 - 2 * (p % 2)} : p \in scan.miss} \cap 0..img.head.pages)
    /\ scan' = IF scan.st = "opening" THEN scan ELSE [scan EXCEPT !.miss = {}]
    /\ UNCHANGED <<truth, cand, img, rotten>>

(* The columns must be used up and the rows must be the published ones. *)
CompleteScan ==
    /\ scan.st = "scan" /\ scan.miss = {} /\ scan.row = img.head.rows
    /\ scan' = Ended(IF /\ scan.from.pos = img.head.sections[5].len
                        /\ scan.to.pos = img.head.sections[6].len
                        /\ scan.seen = img.head.fingerprint
                     THEN "done" ELSE "corrupt")
    /\ UNCHANGED <<truth, cand, img, rotten, resident>>

ImageNext ==
    \/ \E e \in {r[1] : r \in ProjRows}, S \in SUBSET ProjRows :
           (\A r \in S : r[1] = e) /\ Cardinality(S) <= MaxReplaced /\ Refresh(e, S)
    \/ PublishImage \/ Rot \/ ScanRow \/ StageProjection \/ CompleteScan
    \/ \E t \in IF scan = NoScan THEN ScanInstants ELSE {scan.at} : OpenScan(t)

-----------------------------------------------------------------------------
(* Properties.                                                             *)

(* A scan of sound pages completes with the rows that stand at its         *)
(* instant, each once and in order, whichever pages it had to wait for     *)
(* between or within rows; a scan of damaged pages completes with those    *)
(* rows or not at all (CurrentProjectionScan::open and step,               *)
(* ProjectionPageCache).  However a candidate came to its rows, its image  *)
(* is the image of those rows, and decodes to them (the builder,           *)
(* replace_entity, visit_merged_encoded, encode and decode).               *)
ScanIsExact ==
    /\ scan.st = "corrupt" => rotten
    /\ scan.st = "done" =>
           scan.out = SelectSeq(Sorted(truth), LAMBDA r : r[3] <= scan.at /\ scan.at < r[4])
    /\ cand # NoImage /\ scan = NoScan /\ ~rotten =>
           \A i \in {encode(cand)} :
               /\ i = encode(Built(truth))
               /\ {visit_merged_encoded(c) : c \in decode(i)} = {Sorted(truth)}
=============================================================================
