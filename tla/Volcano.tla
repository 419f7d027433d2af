------------------------------ MODULE Volcano ------------------------------
(***************************************************************************)
(* The query side of mini-relational-db: tables (row_store.c), the plan    *)
(* made from a statement (query_optimizer.c), the iterators that run it    *)
(* (volcano_executor.c) and the joins that work on whole tables            *)
(* (join_algorithms.c).                                                    *)
(*                                                                         *)
(* A row is a sequence of numbers that stand for its strings in the order  *)
(* of strcmp; no code of src/ ever sets is_deleted.  The iterators ignore  *)
(* the column names they are given and use column 0, Key here.  Costs are  *)
(* left out: they choose no plan, see LastCatalogued.                      *)
(***************************************************************************)
EXTENDS QueryExec, FiniteSetsExt, TLC

CONSTANTS TableRows,    \* TABLE_MAX_ROWS
          ExecBuffer,   \* the 2048 tuples a sort or a join may hold
          JoinHash,     \* hash_string of each value
          RowValues,    \* the rows that callers insert
          Statements,   \* [table, star, cols, where, order, catalog]
          JoinPlans,    \* plans with joins and aggregates, built by hand
          TableSeeds    \* tables to start with: pairs of sequences of rows

Key == 1
Eof == <<>>
NoWhere == [op |-> "none"]
NoExec == [op |-> "none", freed |-> FALSE, fault |-> FALSE]

\* table_sort, and the same loops in sort_open.
SwapSorted(s) ==
  FoldLeft(LAMBDA a, i :
             FoldLeft(LAMBDA b, j : IF j > i /\ b[i][Key] > b[j][Key]
                                    THEN Swapped(b, i, j) ELSE b,
                      a, Upto(Len(s))),
           s, Upto(Len(s)))

-----------------------------------------------------------------------------
(* Joins of whole tables.                                                  *)

\* A row that no longer fits in the result is dropped.
Emit(result, row) == IF Len(result) < TableRows THEN Append(result, row) ELSE result

\* The bucket chains of the built side, in insertion order.
HashBuild(inner) ==
  [h \in Range(JoinHash) |-> SelectSeq(inner, LAMBDA r : JoinHash[r[Key]] = h)]

HashProbe(buckets, outer) ==
  FoldLeft(LAMBDA acc, o :
             FoldLeft(LAMBDA a, m : Emit(a, o \o m), acc,
                      SelectSeq(buckets[JoinHash[o[Key]]], LAMBDA r : r[Key] = o[Key])),
           <<>>, outer)

NestedLoop(outer, inner) ==
  FoldLeft(LAMBDA acc, o :
             FoldLeft(LAMBDA a, i : IF o[Key] = i[Key] THEN Emit(a, o \o i) ELSE a,
                      acc, inner),
           <<>>, outer)

\* A match moves the inner side on.
RECURSIVE Merge(_, _, _)
Merge(os, is, acc) ==
  IF os = <<>> \/ is = <<>> THEN acc
  ELSE IF Head(os)[Key] < Head(is)[Key] THEN Merge(Tail(os), is, acc)
  ELSE IF Head(os)[Key] > Head(is)[Key] THEN Merge(os, Tail(is), acc)
  ELSE Merge(os, Tail(is), Emit(acc, Head(os) \o Head(is)))

SortMerge(outer, inner) == Merge(SwapSorted(outer), SwapSorted(inner), <<>>)

-----------------------------------------------------------------------------
(* Plans.                                                                  *)

ScanOf(t)         == [op |-> "scan", table |-> t]
FilterOf(p, w)    == [op |-> "filter", left |-> p, where |-> w]
ProjectOf(p, n)   == [op |-> "project", left |-> p, cols |-> n]
SortOf(p)         == [op |-> "sort", left |-> p]
AggOf(p)          == [op |-> "agg", left |-> p]
JoinOf(j, p, q)   == [op |-> j, left |-> p, right |-> q]

\* SELECT * filters the scan; a column list filters the projected rows.
CreatePlan(st) ==
  LET base   == IF st.star THEN ScanOf(st.table) ELSE ProjectOf(ScanOf(st.table), st.cols)
      chosen == IF st.where = NoWhere THEN base ELSE FilterOf(base, st.where)
  IN  IF st.order THEN SortOf(chosen) ELSE chosen

\* The enumeration is entered with no current plan, so the first table it
\* takes makes a scan the best plan and ends that branch: no join is ever
\* tried, and the scan of the last table is what stays.
LastCatalogued(catalog) == ScanOf(catalog)

ChooseBest(st) == IF st.catalog < 2 THEN CreatePlan(st) ELSE LastCatalogued(st.catalog)

\* What the exec_create_ functions make.
NewExec(op)        == [op |-> op, freed |-> FALSE, fault |-> FALSE]
NewScan(t)         == NewExec("scan") @@ [table |-> t, at |-> 1]
NewFilter(l, w)    == NewExec("filter") @@ [left |-> l, where |-> w]
NewProject(l, n)   == NewExec("project") @@ [left |-> l, cols |-> n]
NewSort(l)         == NewExec("sort") @@ [left |-> l, buf |-> <<>>, at |-> 1]
NewAgg(l)          == NewExec("agg") @@ [left |-> l, collected |-> FALSE]
NewHashJoin(l, r)  == NewExec("hash") @@ [left |-> l, right |-> r, buf |-> <<>>,
                                          at |-> 1, held |-> Eof, joined |-> FALSE]
NewNested(l, r)    == NewExec("nested") @@ [left |-> l, right |-> r, held |-> Eof]
NewMerge(l, r)     == NewExec("merge") @@ [left |-> l, right |-> r,
                                           buf |-> <<>>, inners |-> <<>>]

RECURSIVE BuildPlan(_)
BuildPlan(p) ==
  CASE p.op = "scan"    -> NewScan(p.table)
    [] p.op = "filter"  -> NewFilter(BuildPlan(p.left), p.where)
    [] p.op = "project" -> NewProject(BuildPlan(p.left), p.cols)
    [] p.op = "sort"    -> NewSort(BuildPlan(p.left))
    [] p.op = "agg"     -> NewAgg(BuildPlan(p.left))
    [] p.op = "hash"    -> NewHashJoin(BuildPlan(p.left), BuildPlan(p.right))
    [] p.op = "nested"  -> NewNested(BuildPlan(p.left), BuildPlan(p.right))
    [] p.op = "merge"   -> NewMerge(BuildPlan(p.left), BuildPlan(p.right))

-----------------------------------------------------------------------------
(* Iterators.  Close frees the state; whoever then uses it follows a null  *)
(* pointer, "fault".                                                       *)

RECURSIVE Faulty(_)
Faulty(e) == \/ e.fault
             \/ "left" \in DOMAIN e /\ Faulty(e.left)
             \/ "right" \in DOMAIN e /\ Faulty(e.right)

Gives(e, row) == [exec |-> e, row |-> row]

RowPasses(w, row) ==
  LET v == row[Key]
  IN  CASE w.op = "eq" -> v = w.val  [] w.op = "ne" -> v # w.val
        [] w.op = "lt" -> v < w.val  [] w.op = "ge" -> v >= w.val

\* Columns beyond the first two of a projection repeat column 0.
Picked(row, n) == [i \in 1..n |-> IF i = 2 THEN row[2] ELSE row[Key]]

RECURSIVE Open(_, _), Next(_, _), Close(_), Drain(_, _, _)

\* Reads a child to its end; what exceeds the buffer is dropped.
Drain(T, e, acc) ==
  LET n == Next(T, e)
  IN  IF n.row = Eof THEN [exec |-> n.exec, rows |-> acc]
      ELSE Drain(T, n.exec, IF Len(acc) < ExecBuffer THEN Append(acc, n.row) ELSE acc)

SortOpen(T, e) ==
  LET d == Drain(T, Open(T, e.left), <<>>)
  IN  [e EXCEPT !.left = Close(d.exec), !.buf = SwapSorted(d.rows), !.at = 1]

HashOpen(T, e) ==
  LET d == Drain(T, Open(T, e.right), <<>>)
  IN  [e EXCEPT !.right = Close(d.exec), !.buf = d.rows,
                !.left = Open(T, @), !.at = 1, !.joined = FALSE]

MergeOpen(T, e) ==
  LET o == Drain(T, Open(T, e.left), <<>>)
      i == Drain(T, Open(T, e.right), <<>>)
      Sorted(s) == SortSeq(s, LAMBDA a, b : a[Key] < b[Key])
  IN  [e EXCEPT !.left = Close(o.exec), !.right = Close(i.exec),
                !.buf = Sorted(o.rows), !.inners = Sorted(i.rows)]

Open(T, e) ==
  IF e.freed THEN [e EXCEPT !.fault = TRUE]
  ELSE CASE e.op = "scan" -> [e EXCEPT !.at = 1]
         [] e.op \in {"filter", "project"} -> [e EXCEPT !.left = Open(T, @)]
         [] e.op = "agg" -> [e EXCEPT !.left = Open(T, @), !.collected = FALSE]
         [] e.op = "sort" -> SortOpen(T, e)
         [] e.op = "hash" -> HashOpen(T, e)
         [] e.op = "nested" -> [e EXCEPT !.left = Open(T, @), !.held = Eof]
         [] e.op = "merge" -> MergeOpen(T, e)
         [] OTHER -> e

ScanNext(T, e) == IF e.at <= Len(T[e.table])
                  THEN Gives([e EXCEPT !.at = @ + 1], T[e.table][e.at])
                  ELSE Gives(e, Eof)

RECURSIVE FilterNext(_, _), HashNext(_, _), NestedNext(_, _), MergeNext(_)
FilterNext(T, e) ==
  LET n == Next(T, e.left)
      f == [e EXCEPT !.left = n.exec]
  IN  IF n.row = Eof \/ RowPasses(e.where, n.row) THEN Gives(f, n.row) ELSE FilterNext(T, f)

SortNext(e) == IF e.at > Len(e.buf) THEN Gives(e, Eof)
               ELSE Gives([e EXCEPT !.at = @ + 1], e.buf[e.at])

\* One step inside the inner rows of the outer row that is held, if its first
\* inner row matched; a first row that does not match gives the outer row up.
HashNext(T, e) ==
  LET Match(x) == x.held[Key] = x.buf[x.at][Key]
      Out(x)   == Gives(x, x.held \o x.buf[x.at])
      on       == [e EXCEPT !.at = @ + 1]
      o        == Next(T, e.left)
      new      == [e EXCEPT !.left = o.exec, !.held = o.row, !.at = 1, !.joined = TRUE]
  IN  IF e.joined /\ e.at < Len(e.buf)
      THEN IF Match(on) THEN Out(on) ELSE HashNext(T, on)
      ELSE IF o.row = Eof THEN Gives([(IF e.joined THEN on ELSE e) EXCEPT !.left = o.exec], Eof)
      ELSE IF e.buf # <<>> /\ Match(new) THEN Out(new)
      ELSE HashNext(T, [new EXCEPT !.joined = FALSE])

\* The inner child is opened for each outer row and closed at its end.
NestedNext(T, e) ==
  LET o == Next(T, e.left)
      i == Next(T, e.right)
      f == [e EXCEPT !.right = i.exec]
  IN  IF e.held = Eof
      THEN IF o.row = Eof THEN Gives([e EXCEPT !.left = o.exec], Eof)
           ELSE NestedNext(T, [e EXCEPT !.left = o.exec, !.held = o.row,
                                        !.right = Open(T, @)])
      ELSE IF i.row = Eof THEN NestedNext(T, [f EXCEPT !.right = Close(@), !.held = Eof])
      ELSE IF e.held[Key] = i.row[Key] THEN Gives(f, e.held \o i.row)
      ELSE NestedNext(T, f)


\* A match moves the outer side on.
MergeNext(e) ==
  IF e.buf = <<>> \/ e.inners = <<>> THEN Gives(e, Eof)
  ELSE IF Head(e.buf)[Key] < Head(e.inners)[Key] THEN MergeNext([e EXCEPT !.buf = Tail(@)])
  ELSE IF Head(e.buf)[Key] > Head(e.inners)[Key] THEN MergeNext([e EXCEPT !.inners = Tail(@)])
  ELSE Gives([e EXCEPT !.buf = Tail(@)], Head(e.buf) \o Head(e.inners))

RECURSIVE AggCounted(_, _, _, _)
AggCounted(T, e, n, last) ==
  LET x == Next(T, e)
  IN  IF x.row = Eof THEN [exec |-> x.exec, n |-> n, last |-> last]
      ELSE AggCounted(T, x.exec, n + 1, x.row)

\* One row for everything: the key of the last row and the number of rows.
AggNext(T, e) ==
  LET c == AggCounted(T, e.left, 0, Eof)
  IN  IF e.collected THEN Gives(e, Eof)
      ELSE Gives([e EXCEPT !.left = c.exec, !.collected = TRUE],
                 IF c.n > 0 THEN <<c.last[Key], c.n>> ELSE Eof)

ProjectNext(T, e) ==
  LET n == Next(T, e.left)
  IN  Gives([e EXCEPT !.left = n.exec],
            IF n.row = Eof THEN Eof ELSE Picked(n.row, e.cols))

Next(T, e) ==
  IF e.freed THEN Gives([e EXCEPT !.fault = TRUE], Eof)
  ELSE CASE e.op = "scan"    -> ScanNext(T, e)
         [] e.op = "filter"  -> FilterNext(T, e)
         [] e.op = "project" -> ProjectNext(T, e)
         [] e.op = "sort"    -> SortNext(e)
         [] e.op = "hash"    -> HashNext(T, e)
         [] e.op = "nested"  -> NestedNext(T, e)
         [] e.op = "merge"   -> MergeNext(e)
         [] e.op = "agg"     -> AggNext(T, e)
         [] OTHER            -> Gives(e, Eof)

NestedClose(e) == [e EXCEPT !.left = Close(@), !.freed = TRUE,
                            !.right = IF e.held = Eof THEN @ ELSE Close(@)]

\* Which children a close passes on to: sort and merge closed theirs in open.
Close(e) ==
  IF e.freed THEN IF e.op = "scan" THEN e ELSE [e EXCEPT !.fault = TRUE]
  ELSE CASE e.op \in {"filter", "project", "agg", "hash"} ->
              [e EXCEPT !.left = Close(@), !.freed = TRUE]
         [] e.op = "nested" -> NestedClose(e)
         [] OTHER -> [e EXCEPT !.freed = TRUE]

-----------------------------------------------------------------------------
NoPlan == [op |-> "none"]

\* "asked": the statement the plan was made from, if it was made from one.
VolcanoInit ==
  \E t \in TableSeeds :
    handle = [kind |-> "volcano", tables |-> t, plan |-> NoPlan, asked |-> {}, exec |-> NoExec,
              out |-> <<>>, drained |-> FALSE, opens |-> 0, closes |-> 0,
              fixed |-> TRUE, crashed |-> FALSE]

Running == Holding("volcano") /\ ~handle.crashed

TableInsert(t, row) ==
  /\ Running
  /\ Len(handle.tables[t]) < TableRows
  /\ handle' = [handle EXCEPT !.tables[t] = Append(@, row),
                              !.fixed = handle.opens = 0]

ChoosePlan(p, asked) ==
  /\ Running
  /\ handle.plan = NoPlan
  /\ handle' = [handle EXCEPT !.plan = p, !.asked = asked, !.exec = BuildPlan(p)]

OpenPlan ==
  /\ Running
  /\ handle.plan # NoPlan
  /\ handle.opens < 2
  /\ LET e == Open(handle.tables, handle.exec)
     IN  handle' = [handle EXCEPT !.exec = e, !.out = <<>>, !.drained = FALSE,
                       !.opens = @ + 1, !.fixed = TRUE, !.crashed = Faulty(e)]

NextRow ==
  /\ Running
  /\ handle.opens > handle.closes
  /\ ~handle.drained
  /\ LET n == Next(handle.tables, handle.exec)
     IN  handle' = [handle EXCEPT !.exec = n.exec, !.drained = n.row = Eof,
                       !.out = IF n.row = Eof THEN @ ELSE Append(@, n.row),
                       !.crashed = Faulty(n.exec)]

\* exec_close, and exec_free which calls it again.
ClosePlan ==
  /\ Running
  /\ handle.opens > 0
  /\ handle.closes < 2
  /\ LET e == Close(handle.exec)
     IN  handle' = [handle EXCEPT !.exec = e, !.closes = @ + 1, !.drained = TRUE,
                                  !.crashed = Faulty(e)]

VolcanoNext ==
  \/ \E t \in {1, 2}, row \in RowValues : TableInsert(t, row)
  \/ \E st \in Statements : ChoosePlan(ChooseBest(st), {st})
  \/ \E p \in JoinPlans : ChoosePlan(p, {})
  \/ OpenPlan
  \/ NextRow
  \/ ClosePlan

-----------------------------------------------------------------------------
(* What the plans and the joins mean.                                      *)

Distinct(s) == \A i, j \in DOMAIN s : i # j => s[i][Key] # s[j][Key]
OneKey(s) == \A i, j \in DOMAIN s : s[i][Key] = s[j][Key]

Pairs(os, is) == PairsOn(os, is, Key)

RECURSIVE Meaning(_, _)
Meaning(T, p) ==
  CASE p.op = "scan"    -> T[p.table]
    [] p.op = "filter"  -> SelectSeq(Meaning(T, p.left), LAMBDA r : RowPasses(p.where, r))
    [] p.op = "project" -> LET m == Meaning(T, p.left)
                           IN  [i \in DOMAIN m |-> SubSeq(m[i], 1, p.cols)]
    [] p.op = "sort"    -> Meaning(T, p.left)
    [] p.op = "agg"     -> LET m == Meaning(T, p.left)
                           IN  IF m = <<>> THEN <<>> ELSE <<<<m[1][Key], Len(m)>>>>
    [] OTHER            -> Pairs(Meaning(T, p.left), Meaning(T, p.right))

\* What a statement asks for: the rows of its table that pass, cut to its columns.
AskedFor(T, st) ==
  LET rows == IF st.where = NoWhere THEN T[st.table]
              ELSE SelectSeq(T[st.table], LAMBDA r : RowPasses(st.where, r))
  IN  IF st.star THEN rows ELSE [i \in DOMAIN rows |-> SubSeq(rows[i], 1, st.cols)]

\* What the iterators make of a plan.  A hash join takes only the outer rows that match
\* the first inner row, a merge join pairs each outer row once, an aggregate counts
\* everything under the key of the last row, and a sort drops what is too much for it.
FirstPairs(os, is) ==
  LET first(o) == SelectInSeq(is, LAMBDA r : r[Key] = o[Key])
  IN  FoldLeft(LAMBDA acc, o : IF first(o) = 0 THEN acc ELSE Append(acc, o \o is[first(o)]), <<>>, os)
RECURSIVE Made(_, _)
Made(T, p) ==
  LET m == Made(T, p.left)
      i == Made(T, p.right)
  IN  CASE p.op = "scan"    -> T[p.table]
        [] p.op = "filter"  -> SelectSeq(m, LAMBDA r : RowPasses(p.where, r))
        [] p.op = "project" -> [x \in DOMAIN m |-> SubSeq(m[x], 1, p.cols)]
        [] p.op = "sort"    -> SortSeq(SubSeq(m, 1, Min({Len(m), ExecBuffer})),
                                       LAMBDA a, b : a[Key] < b[Key])
        [] p.op = "agg"     -> IF m = <<>> THEN <<>> ELSE <<<<Last(m)[Key], Len(m)>>>>
        [] p.op = "hash"    -> IF i = <<>> THEN <<>>
                               ELSE Pairs(SelectSeq(m, LAMBDA r : r[Key] = i[1][Key]), i)
        [] p.op = "merge"   -> FirstPairs(m, i)
        [] OTHER            -> Pairs(m, i)

\* The inputs on which that is what the plan means.
RECURSIVE Trusted(_, _)
Trusted(T, p) ==
  /\ "left" \in DOMAIN p => Trusted(T, p.left)
  /\ "right" \in DOMAIN p => Trusted(T, p.right)
  /\ p.op = "sort" => Len(Meaning(T, p.left)) <= ExecBuffer
  /\ p.op = "hash" => OneKey(Meaning(T, p.right))
  /\ p.op = "merge" => Distinct(Meaning(T, p.right))
  /\ p.op = "agg" => OneKey(Meaning(T, p.left))

\* A nested loop comes to no second outer row.
RECURSIVE Single(_, _)
Single(T, p) ==
  /\ "left" \in DOMAIN p => Single(T, p.left)
  /\ "right" \in DOMAIN p => Single(T, p.right)
  /\ p.op = "nested" => Len(Meaning(T, p.left)) < 2

RECURSIVE Uses(_, _)
Uses(p, op) == \/ p.op = op
               \/ "left" \in DOMAIN p /\ Uses(p.left, op)
               \/ "right" \in DOMAIN p /\ Uses(p.right, op)

\* At every moment the rows given so far are rows the plan means, each at most as often
\* as it means them, even while rows are being inserted; only an aggregate over several
\* keys is none of its groups.  A plan read to its end over unchanged tables gave what
\* its iterators make of it, sorted if its root sorts: all that the plan means where the
\* inner rows of a hash join have one key, those of a merge join different ones
\* (Trusted), and else too few.  With one table catalogued, what a statement gets is what
\* it asks for; with two it gets the table catalogued last, whatever it asks for.
PlansAnswerTruly ==
  Running =>
    LET T == handle.tables
        p == handle.plan
    IN  /\ p # NoPlan /\ ~Uses(p, "agg") => Within(handle.out, Meaning(T, p))
        /\ handle.drained /\ handle.closes = 0 /\ handle.fixed =>
             /\ SameBag(handle.out, Made(T, p))
             /\ Trusted(T, p) => SameBag(handle.out, Meaning(T, p))
             /\ \A st \in handle.asked :
                  SameBag(handle.out, IF st.catalog < 2 THEN AskedFor(T, st) ELSE T[st.catalog])
             /\ p.op = "sort" \/ (\E st \in handle.asked : st.order /\ st.catalog < 2) =>
                  \A i, j \in DOMAIN handle.out :
                    i < j => handle.out[i][Key] <= handle.out[j][Key]

\* A plan that is opened once and closed once never touches freed state, unless one of its
\* nested-loop joins gets to a second outer row.
OneUseIsSafe ==
  Holding("volcano") /\ handle.crashed =>
    handle.opens > 1 \/ handle.closes > 1 \/ ~Single(handle.tables, handle.plan)

\* The three joins of whole tables give the same rows, each as often as the
\* nested loop does, up to the size of the result table; the sort-merge one
\* needs distinct outer keys for that, and otherwise still gives each inner row
\* that has a partner exactly once.
JoinsAgree ==
  Holding("volcano") =>
    LET o == handle.tables[1]
        i == handle.tables[2]
        Full(r, s) == Within(r, s) /\ (Len(r) = TableRows \/ SameBag(r, s))
    IN  /\ HashProbe(HashBuild(i), o) = NestedLoop(o, i)
        /\ Full(NestedLoop(o, i), Pairs(o, i))
        /\ Distinct(o) => Full(SortMerge(o, i), Pairs(o, i))
        /\ Within(SortMerge(o, i), Pairs(o, i))
        /\ Len(SortMerge(o, i)) =
             Min({TableRows, Cardinality({k \in DOMAIN i : Occurs(i[k][Key],
                                            [x \in DOMAIN o |-> o[x][Key]]) > 0})})
=============================================================================
