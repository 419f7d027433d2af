---------------------------- MODULE NosqlModels -----------------------------
(***************************************************************************)
(* Three data models of mini-nosql-store: keys with a time to live         *)
(* (kv_store.c, kind "ttl"), documents in collections (document_store.c,   *)
(* kind "docs") and column families in tablets (col_family.c, kind "cols").*)
(* Keys, rows and values of fields are numbers.                            *)
(***************************************************************************)
EXTENDS Handle, Integers, FiniteSets, SequencesExt

CONSTANTS TtlKeys,         \* keys of two digits; a prefix is the first digit
          TtlSlots,        \* KV_HASH_SLOTS
          TtlTimes,        \* the values of ttl; 0 means for ever
          TtlNow, TtlPuts, \* bounds on the clock and on the puts
          DocNames, DocIds, DocBodies,  \* a body gives the fields it has their values
          DocFields, DocSteps, DocIndexes,   \* DOC_MAX_INDEXES
          ColRows, ColFamilies, ColNames, ColTimes,
          ColNow,          \* the time of col_delete
          ColLastRow,      \* the end of the first tablet, above all rows
          ColVersions, ColColumns,      \* CF_MAX_VERSIONS, CF_MAX_COLUMNS
          ColPuts, ColSplits            \* bounds on the puts and the splits

FirstOf(s, max) == SubSeq(s, 1, IF Len(s) < max THEN Len(s) ELSE max)

-----------------------------------------------------------------------------
(* Keys with a time to live.  A value is the number of its put; "put" is    *)
(* what the caller put last and did not delete.                             *)

NewTtl == [kind |-> "ttl", slots |-> [s \in 0..(TtlSlots - 1) |-> <<>>], count |-> 0,
           now |-> 1, puts |-> 0, put |-> [k \in {} |-> [value |-> 0, ttl |-> 0]]]
SlotOf(k) == k % TtlSlots
TimedOut(p, now) == p.ttl > 0 /\ p.ttl < now
Pairs(t, k) == SelectSeq(t.slots[SlotOf(k)], LAMBDA p : p.key = k)
AllPairs(t) == FlattenSeq([i \in 1..TtlSlots |-> t.slots[i - 1]])

\* A key that is there gets the new value and the new time in its place.
KvPut(t, k, v, ttl) ==
  LET p == [key |-> k, value |-> v, ttl |-> ttl]
      i == SelectInSeq(t.slots[SlotOf(k)], LAMBDA q : q.key = k)
  IN  IF i # 0 THEN [t EXCEPT !.slots[SlotOf(k)][i] = p]
      ELSE [t EXCEPT !.slots[SlotOf(k)] = <<p>> \o @, !.count = @ + 1]

KvDelete(t, k) ==
  LET i == SelectInSeq(t.slots[SlotOf(k)], LAMBDA q : q.key = k)
  IN  IF i = 0 THEN t ELSE [t EXCEPT !.slots[SlotOf(k)] = RemoveAt(@, i), !.count = @ - 1]

\* The value that is read: none or one.
KvGet(t, k) == {p.value : p \in {q \in ToSet(Pairs(t, k)) : ~TimedOut(q, t.now)}}
\* Reading an expired pair deletes it.
AfterGet(t, k) == IF Pairs(t, k) # <<>> /\ TimedOut(Pairs(t, k)[1], t.now) THEN KvDelete(t, k) ELSE t

HasPrefix(k, prefix) == prefix = 0 \/ k \div 10 = prefix
\* The first pairs in the order of the slots, then in that of the keys, expired ones included.
ScanPrefix(t, prefix, max) ==
  SortSeq(FirstOf(SelectSeq(AllPairs(t), LAMBDA p : HasPrefix(p.key, prefix)), max),
          LAMBDA p, q : p.key < q.key)

CleanupExpired(t) ==
  LET slots == [s \in DOMAIN t.slots |-> SelectSeq(t.slots[s], LAMBDA p : ~TimedOut(p, t.now))]
  IN  [t EXCEPT !.slots = slots,
                !.count = @ - (Len(AllPairs(t)) - Len(AllPairs([t EXCEPT !.slots = slots])))]

TtlPut(k, ttl) ==
  /\ handle.puts < TtlPuts
  /\ LET v == handle.puts + 1
     IN  handle' = [KvPut(handle, k, v, ttl) EXCEPT
                      !.puts = v,
                      !.put = [x \in DOMAIN @ \cup {k} |->
                                 IF x = k THEN [value |-> v, ttl |-> ttl] ELSE @[x]]]
TtlGet(k)    == handle' = AfterGet(handle, k)
TtlDelete(k) == handle' = [KvDelete(handle, k) EXCEPT !.put = [x \in DOMAIN @ \ {k} |-> @[x]]]
TtlCleanup   == handle' = CleanupExpired(handle)
TtlTick      == handle.now < TtlNow /\ handle' = [handle EXCEPT !.now = @ + 1]

-----------------------------------------------------------------------------
(* Documents: a list for each collection, the newest in front; "made" has   *)
(* the same documents by their numbers.                                     *)

NewDocs == [kind |-> "docs", steps |-> 0, colls |-> [c \in {} |-> <<>>],
            made |-> [c \in DocNames |-> [d \in DocIds |-> <<>>]]]
NewColl == [docs |-> <<>>, count |-> 0, indexes |-> <<>>]
CollOf(s, c) == IF c \in DOMAIN s.colls THEN s.colls[c] ELSE NewColl
WithColl(s, c, coll) ==
  [s EXCEPT !.steps = @ + 1,
            !.colls = [x \in DOMAIN @ \cup {c} |-> IF x = c THEN coll ELSE @[x]]]
PlaceIn(coll, id) == SelectInSeq(coll.docs, LAMBDA d : d.id = id)

DocFind(s, c, id) ==
  LET coll == CollOf(s, c)
      i    == PlaceIn(coll, id)
  IN  IF i = 0 THEN {} ELSE {coll.docs[i].body}

\* A field is compared as text: "10" comes before "9".
TextRank(n) == IF n < 10 THEN n * 11 ELSE (n \div 10) * 11 + (n % 10) + 1
Having(s, c, field) == SelectSeq(CollOf(s, c).docs, LAMBDA d : field \in DOMAIN d.body)
FindQuery(s, c, field, value, max) ==
  FirstOf(SelectSeq(Having(s, c, field), LAMBDA d : d.body[field] = value), max)
FindRange(s, c, field, lo, hi, max) ==
  FirstOf(SelectSeq(Having(s, c, field),
                    LAMBDA d : TextRank(d.body[field]) \in TextRank(lo)..TextRank(hi)),
          max)

\* All indexes are emptied; the first gets an entry for each document with the field.
RebuildIndex(coll, field) ==
  [coll EXCEPT !.indexes =
     [i \in DOMAIN @ |->
        IF i > 1 THEN {}
        ELSE {[field |-> field, value |-> coll.docs[d].body[field], id |-> coll.docs[d].id] :
                d \in {x \in DOMAIN coll.docs : field \in DOMAIN coll.docs[x].body}}]]

\* An id that is there is not replaced but covered.
DocInsert(c, id, body) ==
  /\ handle.steps < DocSteps
  /\ LET coll == CollOf(handle, c)
     IN  handle' = [WithColl(handle, c, [coll EXCEPT !.docs = <<[id |-> id, body |-> body]>> \o @,
                                                     !.count = @ + 1])
                      EXCEPT !.made[c][id] = <<body>> \o @]
DocUpdate(c, id, body) ==
  LET coll == CollOf(handle, c)
      i    == PlaceIn(coll, id)
  IN  /\ handle.steps < DocSteps /\ i # 0
      /\ handle' = [WithColl(handle, c, [coll EXCEPT !.docs[i].body = body])
                      EXCEPT !.made[c][id] = <<body>> \o Tail(@)]
DocDelete(c, id) ==
  LET coll == CollOf(handle, c)
      i    == PlaceIn(coll, id)
  IN  /\ handle.steps < DocSteps /\ i # 0
      /\ handle' = [WithColl(handle, c, [coll EXCEPT !.docs = RemoveAt(@, i), !.count = @ - 1])
                      EXCEPT !.made[c][id] = Tail(@)]
DocCreateIndex(c, field) ==
  LET coll == CollOf(handle, c)
  IN  /\ handle.steps < DocSteps /\ c \in DOMAIN handle.colls /\ Len(coll.indexes) < DocIndexes
      /\ handle' = WithColl(handle, c, RebuildIndex([coll EXCEPT !.indexes = Append(@, {})], field))

-----------------------------------------------------------------------------
(* Column families.  A family has its cells, the newest put in front, and   *)
(* the first names of columns it met.  A value is the number of its put,    *)
(* negative for a mark of deletion.  "put" are the cells that were put, but *)
(* for those of rows whose tablet was divided since.                        *)

NewTablet(from, to) == [from |-> from, to |-> to, fams |-> [f \in {} |-> <<>>]]
NewCols == [kind |-> "cols", tablets |-> <<NewTablet(0, ColLastRow)>>, puts |-> 0, put |-> <<>>]
NewFamily == [cells |-> <<>>, columns |-> <<>>]

\* The first tablet that has the row between its ends, which both belong to it.
TabletOf(s, row) ==
  LET i == SelectInSeq(s.tablets, LAMBDA t : t.from <= row /\ row <= t.to)
  IN  IF i = 0 THEN 1 ELSE i
\* Asking for a family creates it.
FamilyOf(s, row, f) ==
  LET fams == s.tablets[TabletOf(s, row)].fams
  IN  IF f \in DOMAIN fams THEN fams[f] ELSE NewFamily
WithFamily(s, row, f, family) ==
  [s EXCEPT !.tablets[TabletOf(s, row)].fams =
     [x \in DOMAIN @ \cup {f} |-> IF x = f THEN family ELSE @[x]]]

\* Slip: the oldest cell of the family goes, whichever row it is of.
WithoutOldestAnywhere(cells, row) ==
  LET mine == {i \in DOMAIN cells : cells[i].row = row}
      old  == CHOOSE i \in DOMAIN cells :
                \A j \in DOMAIN cells : cells[i].ts < cells[j].ts \/ (cells[i].ts = cells[j].ts /\ i <= j)
  IN  IF Cardinality(mine) <= ColVersions THEN cells ELSE RemoveAt(cells, old)

\* Beyond the versions a row may have in a family, in whichever columns, the cell with
\* the lowest time stamp goes; the newest put of those.
WithoutOldest(cells, row) ==
  LET mine == {i \in DOMAIN cells : cells[i].row = row}
      old  == CHOOSE i \in mine :
                \A j \in mine : cells[i].ts < cells[j].ts \/ (cells[i].ts = cells[j].ts /\ i <= j)
  IN  IF Cardinality(mine) <= ColVersions THEN cells ELSE RemoveAt(cells, old)

ColPut(s, row, f, col, ts, value) ==
  LET family == FamilyOf(s, row, f)
      cell   == [row |-> row, col |-> col, ts |-> ts, val |-> value]
  IN  WithFamily(s, row, f,
        [cells   |-> WithoutOldest(<<cell>> \o family.cells, row),
         columns |-> IF col \in ToSet(family.columns) \/ Len(family.columns) = ColColumns
                     THEN family.columns ELSE Append(family.columns, col)])

OfRow(s, row, f, cols) ==
  SelectSeq(FamilyOf(s, row, f).cells, LAMBDA x : x.row = row /\ x.col \in cols)
\* The newest puts there is room for, the oldest of them first.
ColGet(s, row, f, cols, max) == Reverse(FirstOf(OfRow(s, row, f, cols), max))
\* The highest time stamp, the newest put of those: none or one.
ColGetLatest(s, row, f, cols) ==
  LET cells == OfRow(s, row, f, cols)
  IN  {cells[i] : i \in {i \in DOMAIN cells :
         \A j \in DOMAIN cells : cells[j].ts < cells[i].ts \/ (cells[j].ts = cells[i].ts /\ i <= j)}}
\* Only the tablet of the first row is scanned.
ColScan(s, lo, hi, f, max) ==
  FirstOf(SelectSeq(FamilyOf(s, lo, f).cells, LAMBDA x : lo <= x.row /\ x.row <= hi), max)

ColWrite(row, f, col, ts, dead) ==
  /\ handle.puts < ColPuts
  /\ LET v == IF dead THEN -(handle.puts + 1) ELSE handle.puts + 1
     IN  handle' = [ColPut(handle, row, f, col, ts, v) EXCEPT
                      !.puts = @ + 1,
                      !.put = <<[row |-> row, fam |-> f, col |-> col, ts |-> ts, val |-> v]>> \o @]
ColRead(row, f) == handle' = WithFamily(handle, row, f, FamilyOf(handle, row, f))

\* The new tablet has no families: the cells stay in the old one, where no row above
\* the dividing one is looked for any more.
ColSplit(row) ==
  LET i == TabletOf(handle, row)
      t == handle.tablets[i]
  IN  /\ Len(handle.tablets) <= ColSplits
      /\ handle' = [handle EXCEPT
           !.tablets = InsertAt([@ EXCEPT ![i].to = row], i + 1, NewTablet(row, t.to)),
           !.put = SelectSeq(@, LAMBDA x : TabletOf(handle, x.row) # i \/ x.row <= row)]

-----------------------------------------------------------------------------
ModelsInit == handle \in {NewTtl, NewDocs, NewCols}
ModelsNext ==
  \/ Holding("ttl") /\ \E k \in TtlKeys, ttl \in TtlTimes : TtlPut(k, ttl)
  \/ Holding("ttl") /\ \E k \in TtlKeys : TtlGet(k)
  \/ Holding("ttl") /\ \E k \in TtlKeys : TtlDelete(k)
  \/ Holding("ttl") /\ TtlCleanup
  \/ Holding("ttl") /\ TtlTick
  \/ Holding("docs") /\ \E c \in DocNames, d \in DocIds, b \in DocBodies : DocInsert(c, d, b)
  \/ Holding("docs") /\ \E c \in DocNames, d \in DocIds, b \in DocBodies : DocUpdate(c, d, b)
  \/ Holding("docs") /\ \E c \in DocNames, d \in DocIds : DocDelete(c, d)
  \/ Holding("docs") /\ \E c \in DocNames, f \in DocFields : DocCreateIndex(c, f)
  \/ Holding("cols") /\ \E r \in ColRows, f \in ColFamilies, q \in ColNames, ts \in ColTimes :
                          ColWrite(r, f, q, ts, FALSE)
  \/ Holding("cols") /\ \E r \in ColRows, f \in ColFamilies, q \in ColNames :
                          ColWrite(r, f, q, ColNow, TRUE)
  \/ Holding("cols") /\ \E r \in ColRows, f \in ColFamilies : ColRead(r, f)
  \/ Holding("cols") /\ \E r \in ColRows : ColSplit(r)

-----------------------------------------------------------------------------
(* A key has one pair, in its own slot, with the value and the time last put; only an
   expired pair is ever gone before it is deleted, and none after a cleanup is left.  A
   scan gives pairs with the prefix in the order of the keys, as many as there is room
   for: kv_store.c. *)
TtlPairsRight ==
  Holding("ttl") =>
    /\ handle.count = Len(AllPairs(handle))
    /\ \A k \in TtlKeys :
         LET here == k \in DOMAIN handle.put
         IN  /\ Len(SelectSeq(AllPairs(handle), LAMBDA p : p.key = k)) = Len(Pairs(handle, k))
             /\ Len(Pairs(handle, k)) <= 1
             /\ KvGet(handle, k) =
                  (IF here /\ ~TimedOut(handle.put[k], handle.now) THEN {handle.put[k].value} ELSE {})
    /\ \A p \in ToSet(AllPairs(CleanupExpired(handle))) : ~TimedOut(p, handle.now)
    /\ CleanupExpired(handle).count = Len(AllPairs(CleanupExpired(handle)))
    /\ \A prefix \in {0} \cup {k \div 10 : k \in TtlKeys}, max \in 1..Cardinality(TtlKeys) :
         LET got  == ScanPrefix(handle, prefix, max)
             want == {p \in ToSet(AllPairs(handle)) : HasPrefix(p.key, prefix)}
         IN  /\ ToSet(got) \subseteq want
             /\ Len(got) = IF Cardinality(want) < max THEN Cardinality(want) ELSE max
             /\ \A i, j \in DOMAIN got : i < j => got[i].key < got[j].key

(* The document found under an id is the last one inserted or updated there, and a
   deletion uncovers the one before it.  A query finds all documents of the collection
   with the value, a range those whose text lies between its ends, which among numbers
   of one length are the numbers between.  At most the first index has entries, for one
   field: document_store.c. *)
DocumentsFound ==
  Holding("docs") =>
    \A c \in DocNames :
      LET coll == CollOf(handle, c)
          all  == UNION {{<<d, i>> : i \in DOMAIN handle.made[c][d]} : d \in DocIds}
          BodyOf(x) == handle.made[c][x[1]][x[2]]
      IN  /\ coll.count = Cardinality(all) /\ coll.count = Len(coll.docs)
          /\ \A d \in DocIds :
               DocFind(handle, c, d) = IF handle.made[c][d] = <<>> THEN {} ELSE {handle.made[c][d][1]}
          /\ \A f \in DocFields :
               LET values == {b[f] : b \in {b \in DocBodies : f \in DOMAIN b}}
               IN  /\ \A v \in values :
                        Len(FindQuery(handle, c, f, v, DocSteps)) =
                          Cardinality({x \in all : f \in DOMAIN BodyOf(x) /\ BodyOf(x)[f] = v})
                   /\ \A lo, hi \in {v \in values : v < 10} :
                        Len(FindRange(handle, c, f, lo, hi, DocSteps)) =
                          Cardinality({x \in all : f \in DOMAIN BodyOf(x)
                                         /\ IF BodyOf(x)[f] < 10 THEN BodyOf(x)[f] \in lo..hi
                                            ELSE BodyOf(x)[f] \div 10 \in lo..(hi - 1)})
          /\ \A i \in DOMAIN coll.indexes :
               IF i > 1 THEN coll.indexes[i] = {}
               ELSE Cardinality({e.field : e \in coll.indexes[1]}) <= 1

(* A row keeps in a family the highest time stamps that were put there, as many as it
   may have versions, so that the latest cell of a row has the highest of all; that of
   one column may have been pushed out by other columns.  A scan or a read gives cells
   of its rows, and all there are if it has room and no tablet ends between.  This holds
   for what was put since the tablet of the row was last divided: col_family.c. *)
ColumnsKeepNewest ==
  Holding("cols") =>
    /\ \A i \in 1..(Len(handle.tablets) - 1) : handle.tablets[i].to = handle.tablets[i + 1].from
    /\ \A r \in ColRows, f \in ColFamilies :
         LET put   == SelectSeq(handle.put, LAMBDA x : x.row = r /\ x.fam = f)
             cells == OfRow(handle, r, f, ColNames)
             Times(s, ts) == Cardinality({i \in DOMAIN s : s[i].ts = ts})
             Above(s, ts) == Cardinality({i \in DOMAIN s : s[i].ts > ts})
             Least(x, y)  == IF x < y THEN x ELSE y
         IN  /\ Len(cells) = Least(Len(put), ColVersions)
             /\ \A ts \in ColTimes \cup {ColNow} :
                  Above(cells, ts) = Least(Above(put, ts), ColVersions)
             /\ \A i \in DOMAIN cells : \E j \in DOMAIN put : put[j].val = cells[i].val
             /\ \A x \in ColGetLatest(handle, r, f, ColNames) : Above(put, x.ts) = 0
             /\ (ColGetLatest(handle, r, f, ColNames) = {}) = (put = <<>>)
             /\ \A q \in ColNames :
                  Len(put) <= ColVersions =>
                    {x.val : x \in ColGetLatest(handle, r, f, {q})} =
                      {put[i].val : i \in {i \in DOMAIN put :
                         put[i].col = q /\ \A j \in DOMAIN put :
                           put[j].col = q => put[j].ts < put[i].ts \/ (put[j].ts = put[i].ts /\ i <= j)}}
             /\ ToSet(ColGet(handle, r, f, ColNames, ColPuts)) = ToSet(cells)
             /\ IsInjective(FamilyOf(handle, r, f).columns)
             /\ \A hi \in ColRows :
                  (r <= hi /\ TabletOf(handle, hi) = TabletOf(handle, r)) =>
                    {x.val : x \in ToSet(ColScan(handle, r, hi, f, ColPuts))} =
                      UNION {{x.val : x \in ToSet(OfRow(handle, y, f, ColNames))} :
                               y \in {y \in ColRows : r <= y /\ y <= hi}}
=============================================================================
