---------------------------- MODULE SlottedPages ----------------------------
(***************************************************************************)
(* The slotted pages of mini-db-kernel (slotted_page.c, kind "spage") and  *)
(* of mini-relational-db (page_layout.c, kind "rpage"), byte by byte.  A   *)
(* page has slots, each with an offset and a length, and data that grows   *)
(* downward from the end of the page.  "kept" is what the callers were     *)
(* told is stored in each slot, <<>> for nothing.                          *)
(***************************************************************************)
EXTENDS KernelPool, Integers, Sequences, FiniteSets, SequencesExt

CONSTANTS PageSize, PageHeader, SlotSize,
          PageSlots,       \* SP_MAX_SLOTS, SLOT_MAX_TUPLES
          TupleSizes, TupleVals,
          PageWrites       \* bound on calls

\* Insertions refuse an empty tuple.
ASSUME PagesAssumption == /\ PageSize \in Nat /\ PageHeader \in 0..PageSize /\ SlotSize \in Nat
                          /\ PageSlots \in Nat /\ TupleSizes \subseteq Nat \ {0}

Zero       == <<0, 0>>
Tuple(v, n) == [i \in 1..n |-> <<v, i>>]
TupleBytes == {Tuple(v, n) : v \in TupleVals, n \in TupleSizes}
Blank      == [a \in 0..(PageSize - 1) |-> Zero]

\* memcpy into the page, and out of it.
Written(data, off, bytes) ==
  [a \in DOMAIN data |-> IF a - off + 1 \in DOMAIN bytes THEN bytes[a - off + 1] ELSE data[a]]
Reading(data, slot) == [i \in 1..slot.length |-> data[slot.offset + i - 1]]

\* Bytes between the directory and the data; never checked against the slot that
\* the next tuple adds, so it may fall below zero.
SpaceLeft(p) == p.end - p.start

-----------------------------------------------------------------------------
(* The page of the kernel.                                                 *)

NewSpage == [slots |-> <<>>, start |-> PageHeader, end |-> PageSize,
             tuples |-> 0, data |-> Blank]
LiveSlots(p) == {i \in DOMAIN p.slots : p.slots[i].length > 0}

\* The live tuples one after the other, in the order of their slots.
Gathered(p) == FoldLeft(LAMBDA acc, s : acc \o Reading(p.data, s), <<>>, p.slots)

\* The number of bytes gathered before slot i.
SpBefore(p, i) == FoldLeft(LAMBDA acc, s : acc + s.length, 0, SubSeq(p.slots, 1, i - 1))

\* Slip: the tuples move and the slots keep their offsets.
SpCompactedStale(p) ==
  LET end == PageSize - Len(Gathered(p))
  IN  [p EXCEPT !.end = end, !.data = Written(@, end, Gathered(p))]

\* Nothing is done when no slot is empty.
SpCompacted(p) ==
  LET end == PageSize - Len(Gathered(p))
  IN  IF LiveSlots(p) = DOMAIN p.slots THEN p
      ELSE [p EXCEPT !.end = end, !.data = Written(@, end, Gathered(p)),
                     !.start = PageHeader + SlotSize * Len(p.slots),
                     !.slots = [i \in DOMAIN @ |-> IF @[i].length = 0 THEN @[i]
                                ELSE [@[i] EXCEPT !.offset = end + SpBefore(p, i)]]]

\* A new slot at the end of the directory, if there is space, perhaps after a
\* compaction; the space of the slot itself is not asked for.
SpStored(p, bytes) ==
  LET q == IF Len(bytes) > SpaceLeft(p) THEN SpCompacted(p) ELSE p
  IN  IF Len(p.slots) >= PageSlots THEN p
      ELSE IF Len(bytes) > SpaceLeft(q) THEN q
      ELSE [q EXCEPT !.end = @ - Len(bytes), !.tuples = @ + 1,
                     !.data = Written(@, q.end - Len(bytes), bytes),
                     !.slots = Append(@, [offset |-> q.end - Len(bytes), length |-> Len(bytes)]),
                     !.start = PageHeader + SlotSize * (Len(q.slots) + 1)]

SpEmptied(p, i) == [p EXCEPT !.slots[i].length = 0, !.tuples = @ - 1]

\* What callers know after the page became q: one slot more, if one was added.
SpTold(kept, q, bytes) == IF Len(q.slots) > Len(kept) THEN Append(kept, bytes) ELSE kept

SpChange(q, kept) == handle' = [handle EXCEPT !.page = q, !.kept = kept, !.calls = @ + 1]

SpInsert(bytes) ==
  LET q == SpStored(handle.page, bytes) IN SpChange(q, SpTold(handle.kept, q, bytes))

SpDelete(i) ==
  /\ i \in LiveSlots(handle.page)
  /\ SpChange(SpEmptied(handle.page, i), [handle.kept EXCEPT ![i] = <<>>])

SpUpdateInPlace(i, bytes) ==
  LET p == handle.page
  IN  /\ i \in LiveSlots(p) /\ Len(bytes) <= p.slots[i].length
      /\ SpChange([p EXCEPT !.data = Written(@, p.slots[i].offset, bytes),
                            !.slots[i].length = Len(bytes)],
                  [handle.kept EXCEPT ![i] = bytes])

\* The old slot is emptied first, and stays so when the new tuple has no room.
SpUpdateElsewhere(i, bytes) ==
  LET p == handle.page
      q == SpStored(SpEmptied(p, i), bytes)
  IN  /\ i \in LiveSlots(p) /\ Len(bytes) > p.slots[i].length
      /\ SpChange(q, SpTold([handle.kept EXCEPT ![i] = <<>>], q, bytes))

SpCompact == SpChange(SpCompacted(handle.page), handle.kept)

-----------------------------------------------------------------------------
(* The page of the relational library: a directory of fixed size.          *)

SlotNumbers == 0..(PageSlots - 1)
NewRpage == [num |-> 0, start |-> PageHeader, end |-> PageSize, data |-> Blank,
             slots |-> [i \in SlotNumbers |-> [offset |-> 0, length |-> 0, used |-> FALSE]]]
Used(p) == {i \in SlotNumbers : i < p.num /\ p.slots[i].used}
Unused(p) == {i \in SlotNumbers : ~p.slots[i].used}

\* A page whose last slot was used once takes no more tuples, free slots or not.
PlStored(p, i, bytes) ==
  [p EXCEPT !.end = @ - Len(bytes), !.data = Written(@, p.end - Len(bytes), bytes),
            !.slots[i] = [offset |-> p.end - Len(bytes), length |-> Len(bytes), used |-> TRUE],
            !.num = IF i >= @ THEN i + 1 ELSE @]

\* From the highest slot down, each live tuple is moved to the end of what is
\* left of the page, over whatever is there.
PlMoving(p, q, k) ==
  LET i   == p.num - k
      off == q.end - p.slots[i].length
  IN  IF i \notin Used(p) THEN q
      ELSE [q EXCEPT !.end = off, !.slots[i].offset = off,
                     !.data = Written(@, off, Reading(@, p.slots[i]))]
PlMoved(p) == FoldLeft(LAMBDA q, k : PlMoving(p, q, k), [p EXCEPT !.end = PageSize],
                       [k \in 1..p.num |-> k])

PlCompacted(p) == IF Used(p) = {} THEN NewRpage ELSE PlMoved(p)

PlChange(q, kept) == handle' = [handle EXCEPT !.page = q, !.kept = kept, !.calls = @ + 1]

PlInsert(bytes) ==
  LET p == handle.page
  IN  \E i \in Unused(p) :
        /\ \A j \in Unused(p) : i <= j
        /\ p.num < PageSlots /\ Len(bytes) <= SpaceLeft(p)
        /\ PlChange(PlStored(p, i, bytes), [handle.kept EXCEPT ![i] = bytes])

PlDelete(i) ==
  /\ i \in Used(handle.page)
  /\ PlChange([handle.page EXCEPT !.slots[i].used = FALSE], [handle.kept EXCEPT ![i] = <<>>])

\* "crowded" notes a compaction that met more than one live tuple.
PlCompact ==
  handle' = [handle EXCEPT !.page = PlCompacted(@), !.calls = @ + 1,
                           !.crowded = @ \/ Cardinality(Used(handle.page)) > 1]

-----------------------------------------------------------------------------
PagesInit ==
  \/ handle = [kind |-> "spage", page |-> NewSpage, kept |-> <<>>, calls |-> 0]
  \/ handle = [kind |-> "rpage", page |-> NewRpage, calls |-> 0, crowded |-> FALSE,
               kept |-> [i \in SlotNumbers |-> <<>>]]

SpNext == /\ Holding("spage") /\ handle.calls < PageWrites
          /\ \/ \E b \in TupleBytes : SpInsert(b)
             \/ \E i \in 1..PageSlots : SpDelete(i)
             \/ \E i \in 1..PageSlots, b \in TupleBytes : SpUpdateInPlace(i, b)
             \/ \E i \in 1..PageSlots, b \in TupleBytes : SpUpdateElsewhere(i, b)
             \/ SpCompact

PlNext == /\ Holding("rpage") /\ handle.calls < PageWrites
          /\ \/ \E b \in TupleBytes : PlInsert(b)
             \/ \E i \in SlotNumbers : PlDelete(i)
             \/ PlCompact

PagesNext == SpNext \/ PlNext

\* The live slots of a page name bytes that do not overlap, at or above the
\* free space.
Apart(p, live) ==
  /\ \A i \in live : p.slots[i].offset >= p.end
                     /\ p.slots[i].offset + p.slots[i].length <= PageSize
  /\ \A i, j \in live :
       i # j => \/ p.slots[i].offset + p.slots[i].length <= p.slots[j].offset
                \/ p.slots[j].offset + p.slots[j].length <= p.slots[i].offset

\* Whatever was inserted, shrunk in place, moved by an update or by a compaction
\* in the middle of an insertion, each live slot of a kernel page reads the bytes
\* that were last stored under its number, and no two tuples share bytes.  On a
\* relational page it is so until a compaction meets more than one live tuple;
\* then still no two share bytes.
PageKeepsTuples ==
  /\ Holding("spage") =>
       LET p == handle.page
       IN  /\ Apart(p, LiveSlots(p))
           /\ p.tuples = Cardinality(LiveSlots(p))
           /\ \A i \in DOMAIN p.slots : Reading(p.data, p.slots[i]) = handle.kept[i]
  /\ Holding("rpage") =>
       LET p == handle.page
       IN  /\ Apart(p, Used(p))
           /\ ~handle.crowded => \A i \in SlotNumbers :
                handle.kept[i] = IF i \in Used(p) THEN Reading(p.data, p.slots[i]) ELSE <<>>

\* Tuples keep their bytes while pages are compacted, and pages their frames while
\* others come and go: the slotted pages of both databases and the kernel's pool.
PagesKept == PageKeepsTuples /\ PoolFindsPages
=============================================================================
