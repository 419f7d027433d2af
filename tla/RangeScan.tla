--------------------------------- MODULE RangeScan ---------------------------------
(***************************************************************************)
(* Range scans and iterators over sorted tables (range_query.c of          *)
(* mini-file-storage).  A key is a number of two digits, its two bytes;    *)
(* between restart points an entry of a block holds only the bytes that    *)
(* differ from the key before it.  The decoder keeps that key, and the     *)
(* offset it expects next, in static variables that all iterators share.   *)
(***************************************************************************)
EXTENDS LsmTree

CONSTANTS RangeTables,   \* sequences of tables, older ones first, as entry lists
          RangeBounds,   \* the ranges: [lo, hi, loInc, hiInc]
          RangeCap,      \* entries that a scan collects of one table
          RangeLimits    \* values of max_results

InRange(k, r) ==
  /\ IF r.loInc THEN k >= r.lo ELSE k > r.lo
  /\ IF r.hiInc THEN k <= r.hi ELSE k < r.hi

Past(k, r) == IF r.hiInc THEN k > r.hi ELSE k >= r.hi

\* The first block that does not end below the range; one too many if none.
StartBlock(table, r) == FirstNotBelow(table.index, r.lo)

IsRestart(j) == (j - 1) % RestartEvery = 0
Shared(block, j) ==
  IF ~IsRestart(j) /\ Key(block[j]) \div 10 = Key(block[j - 1]) \div 10 THEN 1 ELSE 0

\* Three lengths of four bytes, the rest of the key, a value of one byte.
Offset(block, j) == FoldLeft(LAMBDA n, i : n + 15 - Shared(block, i), 0,
                             [i \in 1..(j - 1) |-> i])

\* The static variables after entry j is decoded; prev is the key it gives.
Decode(s, block, j) ==
  LET full == Key(block[j])
      prev == IF s.expected = Offset(block, j) THEN s.prev ELSE 0
      key  == IF Shared(block, j) = 0 THEN full ELSE 10 * (prev \div 10) + (full % 10)
  IN  [prev |-> key, expected |-> Offset(block, j + 1)]

-----------------------------------------------------------------------------
\* sstable_range_scan

\* Slip: the first restart point that is not below the range.
RECURSIVE StartRestartLate(_, _, _, _)
StartRestartLate(block, r, lo, hi) ==
  IF lo >= hi THEN lo
  ELSE LET mid == lo + (hi - lo) \div 2
       IN  IF r.lo > RestartKey(block, mid) THEN StartRestartLate(block, r, mid + 1, hi)
                                            ELSE StartRestartLate(block, r, lo, mid)

\* One before the first restart point that is not below the range.
RECURSIVE StartRestart(_, _, _, _)
StartRestart(block, r, lo, hi) ==
  IF lo >= hi THEN IF lo > 0 THEN lo - 1 ELSE 0
  ELSE LET mid == lo + (hi - lo) \div 2
       IN  IF r.lo > RestartKey(block, mid) THEN StartRestart(block, r, mid + 1, hi)
                                            ELSE StartRestart(block, r, lo, mid)

RECURSIVE ScanEntries(_, _, _, _, _)
ScanEntries(s, block, j, r, max) ==
  IF j > Len(block) \/ Len(s.results) >= max THEN s
  ELSE LET d == Decode(s.static, block, j)
           t == [s EXCEPT !.static = d]
       IN  IF Past(d.prev, r) THEN t
           ELSE ScanEntries(IF InRange(d.prev, r)
                            THEN [t EXCEPT !.results = Append(@, <<d.prev, Val(block[j])>>)]
                            ELSE t, block, j + 1, r, max)

RECURSIVE ScanBlocks(_, _, _, _, _)
ScanBlocks(s, table, b, r, max) ==
  IF b > Len(table.blocks) \/ Len(s.results) >= max THEN s
  ELSE LET block == table.blocks[b]
       IN  IF Past(Key(block[1]), r) THEN [s EXCEPT !.static = Decode(@, block, 1)]
           ELSE ScanBlocks(
                  ScanEntries(s, block,
                    StartRestart(block, r, 0, Restarts(block)) * RestartEvery + 1, r, max),
                  table, b + 1, r, max)

Scan(static, table, r, max) ==
  ScanBlocks([static |-> static, results |-> <<>>], table, StartBlock(table, r), r, max)

\* sstable_multi_range_scan: the least key of the streams, the older table
\* first; a key that was just given only replaces its value.
RECURSIVE MergeStreams(_, _, _)
MergeStreams(streams, results, max) ==
  LET live == {t \in DOMAIN streams : streams[t] # <<>>}
      best == CHOOSE t \in live : \A u \in live :
                \/ Key(streams[t][1]) < Key(streams[u][1])
                \/ Key(streams[t][1]) = Key(streams[u][1]) /\ t <= u
      e    == streams[best][1]
      rest == [streams EXCEPT ![best] = Tail(@)]
  IN  IF Len(results) >= max \/ live = {} THEN results
      ELSE IF results # <<>> /\ Key(Last(results)) = Key(e)
           THEN MergeStreams(rest, Append(Front(results), e), max)
           ELSE MergeStreams(rest, Append(results, e), max)

MultiScan(tables, r, max) ==
  MergeStreams([t \in DOMAIN tables |->
                  Scan([prev |-> 0, expected |-> -1], tables[t], r, RangeCap).results],
               <<>>, max)

-----------------------------------------------------------------------------
\* Iterators: [block, entry, done], the range and the keys they gave.

NewIterator(table, r) ==
  [range |-> r, block |-> StartBlock(table, r), entry |-> 1, given |-> <<>>,
   done |-> StartBlock(table, r) > Len(table.index), disturbed |-> FALSE]

\* range_iterator_next on s = [static, it].
RECURSIVE Advanced(_, _)
Advanced(s, table) ==
  LET it == s.it
  IN  IF it.done THEN s
      ELSE IF it.block > Len(table.blocks) THEN [s EXCEPT !.it.done = TRUE]
      ELSE IF it.entry > Len(table.blocks[it.block])
           THEN Advanced([s EXCEPT !.it.block = @ + 1, !.it.entry = 1], table)
      ELSE LET d == Decode(s.static, table.blocks[it.block], it.entry)
               t == [s EXCEPT !.static = d, !.it.entry = @ + 1]
           IN  IF InRange(d.prev, it.range) THEN [t EXCEPT !.it.given = Append(@, d.prev)]
               ELSE IF Past(d.prev, it.range) THEN [t EXCEPT !.it.done = TRUE]
               ELSE Advanced(t, table)

\* The next entry of the iterator leans on the key before it.
MidRun(it, table) ==
  /\ ~it.done /\ it.block <= Len(table.blocks)
  /\ it.entry <= Len(table.blocks[it.block])
  /\ Shared(table.blocks[it.block], it.entry) > 0

Disturb(iters, table) ==
  [i \in DOMAIN iters |-> [iters[i] EXCEPT !.disturbed = @ \/ MidRun(iters[i], table)]]

RangeInit ==
  \E lists \in RangeTables, r1, r2 \in RangeBounds :
    LET tables == [t \in DOMAIN lists |-> WriteTable(lists[t])]
    IN  handle = [kind |-> "range", tables |-> tables,
                  static |-> [prev |-> 0, expected |-> -1],
                  iters |-> <<NewIterator(tables[1], r1), NewIterator(tables[1], r2)>>]

IteratorNext(i) ==
  /\ Holding("range") /\ ~handle.iters[i].done
  /\ LET s == Advanced([static |-> handle.static, it |-> handle.iters[i]], handle.tables[1])
         others == Disturb(handle.iters, handle.tables[1])
     IN  handle' = [handle EXCEPT !.static = s.static,
                                  !.iters = [others EXCEPT ![i] = s.it]]

RangeScanCall(r, max) ==
  /\ Holding("range")
  /\ handle' = [handle EXCEPT !.static = Scan(@, handle.tables[1], r, max).static,
                              !.iters = Disturb(@, handle.tables[1])]

RangeNext ==
  \/ Holding("range") /\ \E i \in DOMAIN handle.iters : IteratorNext(i)
  \/ \E r \in RangeBounds, max \in RangeLimits : RangeScanCall(r, max)

-----------------------------------------------------------------------------
\* The keys of a set of tables that are in a range, in order.
KeysIn(tables, r) ==
  SetToSortSeq({k \in UNION {{Key(e) : e \in ToSet(FlattenSeq(tables[t].blocks))} :
                             t \in DOMAIN tables} : InRange(k, r)}, <)

\* An iterator gives the keys of its range, all of them and in order, while
\* other iterators and scans use the same decoder, unless one of them was called
\* when the iterator stood at an entry that leans on the one before it.
IteratorGivesRange ==
  Holding("range") => \A i \in DOMAIN handle.iters :
    LET it == handle.iters[i]
        all == KeysIn(<<handle.tables[1]>>, it.range)
    IN  ~it.disturbed => IsPrefix(it.given, all) /\ (it.done => it.given = all)

NewestValue(tables, k) ==
  LET t == Max({u \in DOMAIN tables : k \in {Key(e) : e \in ToSet(FlattenSeq(tables[u].blocks))}})
  IN  Val(CHOOSE e \in ToSet(FlattenSeq(tables[t].blocks)) : Key(e) = k)

\* A scan over several tables gives the first keys of the range in order, and
\* each with the value of the newest table, except that the last may be stale
\* when the limit ends the scan.  (Checked where the iterators start.)
MultiScanNewest ==
  Holding("range") /\ handle.static.expected = -1 =>
    \A r \in RangeBounds, max \in RangeLimits :
      LET got == MultiScan(handle.tables, r, max)
          all == KeysIn(handle.tables, r)
      IN  max <= RangeCap =>
            /\ [i \in DOMAIN got |-> Key(got[i])] = SubSeq(all, 1, Min({max, Len(all)}))
            /\ \A i \in DOMAIN got :
                 i < max => Val(got[i]) = NewestValue(handle.tables, Key(got[i]))

-----------------------------------------------------------------------------
(* The encodings of mini-file-storage (encoding.c): numbers of variable     *)
(* length and with the highest byte first, and the builder of composite     *)
(* keys.  A byte is a number up to TopByte; a varint has half of a byte.    *)
(* Parts that callers encode themselves are joined as they are; 64-bit      *)
(* numbers differ from 32-bit ones in their lengths only.                   *)

CONSTANTS TopByte,       \* 255
          NumberBytes,   \* 4, the bytes of a number
          VarintMax,     \* 5, the bytes of a varint
          KeyStrings,    \* strings that callers add
          KeyNumbers,    \* numbers that callers add
          MaxParts       \* COMPOSITE_KEY_MAX_PARTS

Half == (TopByte + 1) \div 2

RECURSIVE VarintBytes(_)
VarintBytes(n) == IF n < Half THEN <<n>> ELSE <<Half + (n % Half)>> \o VarintBytes(n \div Half)

\* The number read and the bytes taken, none if the bytes end or are too many.
VarintRead(bytes) ==
  LET ends == {i \in DOMAIN bytes : bytes[i] < Half /\ \A j \in 1..(i - 1) : bytes[j] >= Half}
  IN  IF \A i \in ends : i > VarintMax THEN <<>>
      ELSE LET n == CHOOSE i \in ends : TRUE
           IN  <<FoldRight(LAMBDA b, v : Half * v + (b % Half), SubSeq(bytes, 1, n), 0), n>>

BigEndian(n) == [i \in 1..NumberBytes |-> (n \div (TopByte + 1)^(NumberBytes - i)) % (TopByte + 1)]
FromBigEndian(bytes) == FoldLeft(LAMBDA v, b : (TopByte + 1) * v + b, 0, bytes)

\* The lowest and the highest byte are followed by the highest.
Escaped(str) ==
  FlattenSeq([i \in DOMAIN str |-> IF str[i] \in {0, TopByte} THEN <<str[i], TopByte>> ELSE <<str[i]>>])

PrefixLen(a, b) ==
  LET n == IF Len(a) < Len(b) THEN Len(a) ELSE Len(b)
      d == {i \in 1..n : a[i] # b[i]}
  IN  IF d = {} THEN n ELSE (CHOOSE i \in d : \A j \in d : i <= j) - 1

\* What keys[to] shares with keys[from], or with the one before if that is too far.
PrefixSkip(keys, from, to, gap) ==
  IF to > from /\ to - from <= gap THEN PrefixLen(keys[from], keys[to])
  ELSE IF to > 1 THEN PrefixLen(keys[to - 1], keys[to]) ELSE 0

\* "added" is what the caller added to the builder, "built" the key it got last.
NewKey == [kind |-> "ckey", parts |-> <<>>, added |-> <<>>, built |-> <<>>, tuple |-> <<>>]

WithPart(bytes, what) ==
  IF Len(handle.parts) >= MaxParts THEN handle
  ELSE [handle EXCEPT !.parts = Append(@, bytes), !.added = Append(@, what)]

\* The parts with the lowest byte between them.
Joined(parts) ==
  FlattenSeq([i \in DOMAIN parts |-> (IF i > 1 THEN <<0>> ELSE <<>>) \o parts[i]])

AddString(str) == handle' = WithPart(Escaped(str), [t |-> "str", v |-> str])
AddNumber(n)   == handle' = WithPart(BigEndian(n), [t |-> "num", v |-> <<n>>])
BuildKey == handle' = [handle EXCEPT !.built = Joined(handle.parts), !.tuple = handle.added,
                                     !.parts = <<>>, !.added = <<>>]

KeyInit == handle = NewKey
KeyNext == /\ Holding("ckey") /\ handle.tuple = <<>>
           /\ (\E s \in KeyStrings : AddString(s)) \/ (\E n \in KeyNumbers : AddNumber(n)) \/ BuildKey

Below(a, b) ==
  LET n == PrefixLen(a, b)
  IN  IF n = Len(a) \/ n = Len(b) THEN Len(a) < Len(b) ELSE a[n + 1] < b[n + 1]
TupleBefore(a, b) ==
  \E i \in DOMAIN a : Below(a[i].v, b[i].v) /\ \A j \in 1..(i - 1) : a[j] = b[j]

KeyEntries == [t : {"str"}, v : KeyStrings] \cup [t : {"num"}, v : {<<n>> : n \in KeyNumbers}]
Encoded(entry) == IF entry.t = "str" THEN Escaped(entry.v) ELSE BigEndian(entry.v[1])
\* No part but the first begins with the highest byte.
Plain(tuple) ==
  \A i \in 2..Len(tuple) : LET e == Encoded(tuple[i]) IN e = <<>> \/ e[1] # TopByte

\* Composite keys are in the order of the tuples they were built from, part by part,
\* strings with lowest and highest bytes included, unless a later part begins with
\* the highest byte, which looks like an escape behind the separator.
KeysKeepOrder ==
  Holding("ckey") =>
    \A other \in [DOMAIN handle.tuple -> KeyEntries] :
      LET key == Joined([i \in DOMAIN other |-> Encoded(other[i])])
      IN  (\A i \in DOMAIN other : other[i].t = handle.tuple[i].t) /\ Plain(other) /\ Plain(handle.tuple) =>
            (Below(key, handle.built) <=> TupleBefore(other, handle.tuple))

\* Numbers are read back, of a varint exactly its bytes and none that is cut short,
\* and keys between two others share as much with the last as the first one does.
NumbersReadBack ==
  Holding("ckey") /\ handle.added = <<>> /\ handle.tuple = <<>> =>
    /\ \A n \in KeyNumbers :
         LET bytes == VarintBytes(n)
         IN  /\ VarintRead(bytes \o <<TopByte>>) = <<n, Len(bytes)>>
             /\ VarintRead(SubSeq(bytes, 1, Len(bytes) - 1)) = <<>>
             /\ VarintRead([i \in 1..(VarintMax + 1) |-> IF i > VarintMax THEN 1 ELSE Half]) = <<>>
             /\ FromBigEndian(BigEndian(n)) = n
    /\ \A a, b, c \in KeyStrings : Below(a, b) /\ Below(b, c) =>
         PrefixSkip(<<a, b, c>>, 1, 3, 2) <= PrefixSkip(<<a, b, c>>, 1, 3, 1)
=============================================================================
