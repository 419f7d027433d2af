----------------------------- MODULE QueryExec -----------------------------
(***************************************************************************)
(* The query engine of mini-db-kernel (query_exec.c).  Its operators keep  *)
(* their state when they are closed, so that a plan can be opened again;   *)
(* the buffers of a sort and of a join live from open to close.  "gone"    *)
(* says that the buffer was freed, "fault" that freed memory was used.     *)
(***************************************************************************)
EXTENDS Handle, Integers, Sequences, FiniteSets, SequencesExt

CONSTANTS QueryPlans,    \* operator trees, see NewScanOp and the others
          QueryBuffer    \* QE_MAX_TUPLES

-----------------------------------------------------------------------------
(* Rows as sequences of values, and sequences of rows compared as bags;    *)
(* Volcano uses this section too.                                          *)

Swapped(s, i, j) == [s EXCEPT ![i] = s[j], ![j] = s[i]]
Upto(n) == [i \in 1..n |-> i]

Occurs(r, s) == Cardinality({i \in DOMAIN s : s[i] = r})
Within(s, t) == \A r \in Range(s) : Occurs(r, s) <= Occurs(r, t)
SameBag(s, t) == Within(s, t) /\ Within(t, s)

\* Every row of os with every row of is that has the same value in column c.
PairsOn(os, is, c) ==
  LET Of(o) == LET p == SelectSeq(is, LAMBDA r : r[c] = o[c])
               IN  [i \in DOMAIN p |-> o \o p[i]]
  IN  FoldLeft(LAMBDA acc, o : acc \o Of(o), <<>>, os)

-----------------------------------------------------------------------------
(* The operators.                                                          *)

NoRow == <<>>

NewScanOp(t)          == [op |-> "scan", fault |-> FALSE, rows |-> t, current |-> 1]
NewFilterOp(c, P)     == [op |-> "filter", fault |-> FALSE, child |-> c, pass |-> P]
NewProjectOp(c, cols) == [op |-> "project", fault |-> FALSE, child |-> c, cols |-> cols]
NewLimitOp(c, n)      == [op |-> "limit", fault |-> FALSE, child |-> c, limit |-> n,
                          emitted |-> 0]
NewSortOp(c, col, up) == [op |-> "sort", fault |-> FALSE, child |-> c, col |-> col,
                          up |-> up, buf |-> <<>>, pos |-> 1, gone |-> FALSE]
NewJoinOp(l, r, col)  == [op |-> "join", fault |-> FALSE, child |-> l, child2 |-> r,
                          col |-> col, buf |-> <<>>, pos |-> 1, left |-> NoRow,
                          gone |-> TRUE]

RECURSIVE Broken(_)
Broken(e) == \/ e.fault
             \/ "child" \in DOMAIN e /\ Broken(e.child)
             \/ "child2" \in DOMAIN e /\ Broken(e.child2)

Row(e, row) == [exec |-> e, row |-> row]

RECURSIVE OpOpen(_), OpNext(_), OpClose(_), Collect(_, _)

\* The loop asks for one row more than the buffer takes, and drops it.
Collect(e, acc) ==
  LET n == OpNext(e)
  IN  IF n.row = NoRow \/ Len(acc) >= QueryBuffer THEN Row(n.exec, acc)
      ELSE Collect(n.exec, Append(acc, n.row))

\* The exchange sort of sort_open.
Exchanged(s, col, up) ==
  LET Wrong(a, b) == IF up THEN a[col] > b[col] ELSE a[col] < b[col]
  IN  FoldLeft(LAMBDA a, i :
                 FoldLeft(LAMBDA b, j : IF j > i /\ Wrong(b[i], b[j])
                                        THEN Swapped(b, i, j) ELSE b,
                          a, Upto(Len(s))),
               s, Upto(Len(s)))

SortOpOpen(e) ==
  LET c == Collect(OpOpen(e.child), <<>>)
  IN  [e EXCEPT !.child = c.exec, !.buf = Exchanged(c.row, e.col, e.up),
                !.pos = 1, !.gone = FALSE]

JoinOpOpen(e) ==
  LET c == Collect(OpOpen(e.child2), <<>>)
  IN  [e EXCEPT !.child = OpOpen(@), !.child2 = c.exec, !.buf = c.row,
                !.pos = 1, !.left = NoRow, !.gone = FALSE]

OpOpen(e) ==
  CASE e.op = "scan"                  -> [e EXCEPT !.current = 1]
    [] e.op \in {"filter", "project"} -> [e EXCEPT !.child = OpOpen(@)]
    [] e.op = "limit"                 -> [e EXCEPT !.emitted = 0, !.child = OpOpen(@)]
    [] e.op = "sort"                  -> SortOpOpen(e)
    [] e.op = "join"                  -> JoinOpOpen(e)

ScanOpNext(e) == IF e.current > Len(e.rows) THEN Row(e, NoRow)
                 ELSE Row([e EXCEPT !.current = @ + 1], e.rows[e.current])

RECURSIVE FilterOpNext(_), JoinOpNext(_)
FilterOpNext(e) ==
  LET n == OpNext(e.child)
      f == [e EXCEPT !.child = n.exec]
  IN  IF n.row = NoRow \/ n.row \in e.pass THEN Row(f, n.row) ELSE FilterOpNext(f)

ProjectOpNext(e) ==
  LET n == OpNext(e.child)
  IN  Row([e EXCEPT !.child = n.exec],
          IF n.row = NoRow THEN NoRow ELSE [i \in DOMAIN e.cols |-> n.row[e.cols[i]]])

LimitOpNext(e) ==
  LET n == OpNext(e.child)
  IN  IF e.emitted >= e.limit THEN Row(e, NoRow)
      ELSE Row([e EXCEPT !.child = n.exec, !.emitted = IF n.row = NoRow THEN @ ELSE @ + 1],
               n.row)

\* Only the position is looked at, not whether the buffer is still there.
SortOpNext(e) ==
  IF e.pos > Len(e.buf) THEN Row(e, NoRow)
  ELSE IF e.gone THEN Row([e EXCEPT !.fault = TRUE], NoRow)
  ELSE Row([e EXCEPT !.pos = @ + 1], e.buf[e.pos])

JoinOpNext(e) ==
  LET n == OpNext(e.child)
  IN  IF e.gone \/ e.buf = <<>> THEN Row(e, NoRow)
      ELSE IF e.left = NoRow
      THEN IF n.row = NoRow THEN Row([e EXCEPT !.child = n.exec], NoRow)
           ELSE JoinOpNext([e EXCEPT !.child = n.exec, !.left = n.row])
      ELSE IF e.pos > Len(e.buf) THEN JoinOpNext([e EXCEPT !.left = NoRow, !.pos = 1])
      ELSE IF e.left[e.col] = e.buf[e.pos][e.col]
      THEN Row([e EXCEPT !.pos = @ + 1], e.left \o e.buf[e.pos])
      ELSE JoinOpNext([e EXCEPT !.pos = @ + 1])

OpNext(e) ==
  CASE e.op = "scan"    -> ScanOpNext(e)
    [] e.op = "filter"  -> FilterOpNext(e)
    [] e.op = "project" -> ProjectOpNext(e)
    [] e.op = "limit"   -> LimitOpNext(e)
    [] e.op = "sort"    -> SortOpNext(e)
    [] e.op = "join"    -> JoinOpNext(e)

SortOpClose(e) == [e EXCEPT !.gone = TRUE, !.child = OpClose(@)]

\* The left row is freed but not forgotten: a second close frees it again.
JoinOpClose(e) ==
  [e EXCEPT !.fault = @ \/ (e.gone /\ e.left # NoRow), !.gone = TRUE,
            !.child = OpClose(@), !.child2 = OpClose(@)]

OpClose(e) ==
  CASE e.op = "scan" -> e
    [] e.op = "sort" -> SortOpClose(e)
    [] e.op = "join" -> JoinOpClose(e)
    [] OTHER         -> [e EXCEPT !.child = OpClose(@)]

-----------------------------------------------------------------------------
\* "misused" once a caller asks for a row or closes while the plan is not open.
QueryInit ==
  \E p \in QueryPlans :
    handle = [kind |-> "query", plan |-> p, exec |-> p, out |-> <<>>, done |-> FALSE,
              open |-> FALSE, misused |-> FALSE]

Sane == Holding("query") /\ ~Broken(handle.exec)

QueryOpen ==
  /\ Sane
  /\ handle' = [handle EXCEPT !.exec = OpOpen(@), !.out = <<>>, !.done = FALSE,
                              !.open = TRUE]

QueryRow ==
  /\ Sane
  /\ ~handle.done
  /\ LET n == OpNext(handle.exec)
     IN  handle' = [handle EXCEPT !.exec = n.exec, !.done = n.row = NoRow,
                       !.out = IF n.row = NoRow THEN @ ELSE Append(@, n.row),
                       !.misused = @ \/ ~handle.open]

QueryClose ==
  /\ Sane
  /\ handle' = [handle EXCEPT !.exec = OpClose(@), !.open = FALSE,
                              !.misused = @ \/ ~handle.open]

QueryNext == QueryOpen \/ QueryRow \/ QueryClose

-----------------------------------------------------------------------------
RECURSIVE Answer(_)
Answer(p) ==
  CASE p.op = "scan"    -> p.rows
    [] p.op = "filter"  -> SelectSeq(Answer(p.child), LAMBDA r : r \in p.pass)
    [] p.op = "project" -> LET a == Answer(p.child)
                           IN  [i \in DOMAIN a |-> [c \in DOMAIN p.cols |-> a[i][p.cols[c]]]]
    [] p.op = "limit"   -> LET a == Answer(p.child)
                           IN  SubSeq(a, 1, IF p.limit < Len(a) THEN p.limit ELSE Len(a))
    [] p.op = "sort"    -> SortSeq(Answer(p.child),
                             LAMBDA a, b : IF p.up THEN a[p.col] < b[p.col]
                                                   ELSE a[p.col] > b[p.col])
    [] p.op = "join"    -> PairsOn(Answer(p.child), Answer(p.child2), p.col)

\* Without the limits of the tree.
RECURSIVE Unlimited(_)
Unlimited(p) ==
  LET q == IF "child" \in DOMAIN p THEN [p EXCEPT !.child = Unlimited(@)] ELSE p
      r == IF "child2" \in DOMAIN p THEN [q EXCEPT !.child2 = Unlimited(@)] ELSE q
  IN  IF p.op = "limit" THEN q.child ELSE r

RECURSIVE SortsBy(_)
SortsBy(p) == IF p.op = "sort" THEN {p.col}
              ELSE IF "child" \in DOMAIN p THEN SortsBy(p.child) ELSE {}

Column(s, c) == [i \in DOMAIN s |-> s[i][c]]

\* However often, and in the middle of what, a plan is opened again, the rows
\* given since then are the beginning of its answer, and all of it once the
\* plan says it is done; where it sorts, rows with equal keys may come in any
\* order.  Only a caller who uses a plan that is not open can meet freed memory.
QueryGivesAnswer ==
  Holding("query") =>
    /\ Broken(handle.exec) => handle.misused
    /\ ~handle.misused =>
         LET a == Answer(handle.plan)
             s == SortsBy(handle.plan)
         IN  /\ handle.done => Len(handle.out) = Len(a)
             /\ s = {} => IsPrefix(handle.out, a)
             /\ \A c \in s : /\ IsPrefix(Column(handle.out, c), Column(a, c))
                             /\ Within(handle.out, Answer(Unlimited(handle.plan)))
=============================================================================
