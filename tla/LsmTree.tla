---------------------------------- MODULE LsmTree ----------------------------------
(***************************************************************************)
(* The log-structured tree of mini-file-storage (lsm_tree.c) over its      *)
(* sorted tables (sstable.c, compaction.c) and its log file (wal_file.c).  *)
(* A memtable is a function from keys to values, which is what the last    *)
(* part shows of skiplist.c.  An entry of a table is a pair of a key and a *)
(* value; keys are numbers and stand for byte strings in the order of      *)
(* memcmp.                                                                 *)
(***************************************************************************)
EXTENDS Handle, Integers, Sequences, SequencesExt

CONSTANTS BlockEntries,   \* entries that fill a block (BLOCK_SIZE * 3 / 4)
          RestartEvery,   \* RESTART_INTERVAL
          BloomOf,        \* the bits that the three hashes give to a key
          Missing         \* "not found"; not a value

ASSUME TableAssumption ==
  /\ BlockEntries \in Nat \ {0} /\ RestartEvery \in Nat \ {0}

CONSTANTS LsmKeys, LsmWrites,  \* the keys, and a bound on the length of the log
          MemCap,              \* LSM_MEMTABLE_SIZE / 128
          ImmMax,              \* LSM_IMMUTABLE_MAX
          LsmLevels,           \* LSM_MAX_LEVELS
          Level0Limit,         \* LSM_LEVEL0_FILE_LIMIT
          SizeRatio,           \* LSM_LEVEL_SIZE_RATIO
          TierFiles            \* the 4 in lsm_maybe_compact

ASSUME LsmAssumption ==
  /\ ImmMax \in Nat /\ LsmLevels \in Nat \ {0}
  /\ LsmKeys \subseteq Int /\ Missing \notin Nat

-----------------------------------------------------------------------------
\* Sorted tables and their merge; RangeScan uses them too.

Key(entry) == entry[1]
Val(entry) == entry[2]

Blocks(entries) ==
  [b \in 1..((Len(entries) + BlockEntries - 1) \div BlockEntries) |->
     SubSeq(entries, (b - 1) * BlockEntries + 1,
            Min({b * BlockEntries, Len(entries)}))]

\* The file: blocks in order, the last key of each, the filter.
WriteTable(entries) ==
  LET blocks == Blocks(entries)
  IN  [blocks |-> blocks,
       index  |-> [b \in DOMAIN blocks |-> Key(Last(blocks[b]))],
       bloom  |-> UNION {BloomOf[Key(e)] : e \in ToSet(entries)}]

\* The table in memory has a block for every entry of the index.
ReadTable(file) ==
  [file EXCEPT !.blocks = [b \in DOMAIN file.index |-> file.blocks[b]]]

MaybeContains(bloom, k) == BloomOf[k] \subseteq bloom

-----------------------------------------------------------------------------
\* Searching a block: a binary search for the last restart point whose key is
\* not above k, then a scan to the next restart point.  Restarts count from 0.
\* A range that is halved as often as it has places has been searched.

Restarts(block) == (Len(block) + RestartEvery - 1) \div RestartEvery
RestartKey(block, r) == Key(block[r * RestartEvery + 1])

RestartHalved(block, k, b) ==
  LET mid == b.lo + (b.hi - b.lo + 1) \div 2
  IN  IF b.lo >= b.hi THEN b
      ELSE IF RestartKey(block, mid) <= k THEN [lo |-> mid, hi |-> b.hi]
                                          ELSE [lo |-> b.lo, hi |-> mid - 1]
LastRestart(block, k) ==
  Iterated(Restarts(block), LAMBDA b : RestartHalved(block, k, b),
           [lo |-> 0, hi |-> Restarts(block) - 1]).lo

BlockSearch(block, k) ==
  LET r    == LastRestart(block, k)
      end  == IF r + 1 < Restarts(block) THEN (r + 1) * RestartEvery
                                         ELSE Len(block)
      hits == {i \in r * RestartEvery + 1..end : Key(block[i]) = k}
  IN  IF hits = {} THEN Missing ELSE Val(block[Min(hits)])

IndexHalved(keys, k, b) ==
  LET mid == b.lo + (b.hi - b.lo) \div 2
  IN  IF b.lo >= b.hi THEN b
      ELSE IF k > keys[mid] THEN [lo |-> mid + 1, hi |-> b.hi] ELSE [lo |-> b.lo, hi |-> mid]
FirstNotBelow(keys, k) ==
  Iterated(Len(keys), LAMBDA b : IndexHalved(keys, k, b), [lo |-> 1, hi |-> Len(keys) + 1]).lo

TableGet(table, k) ==
  LET n  == Len(table.index)
      lo == FirstNotBelow(table.index, k)
  IN  IF MaybeContains(table.bloom, k)
      THEN BlockSearch(table.blocks[Min({lo, n})], k)
      ELSE Missing

-----------------------------------------------------------------------------
\* The merge iterator: a binary heap of cursors, one for each table, ordered
\* by key alone.  A cursor is a position <<block, entry>> and whether it is
\* done; a cursor that ran off its block stays done.

Load(tables, c) ==
  IF c.done \/ c.entry > Len(tables[c.table].blocks[c.block])
  THEN [c EXCEPT !.done = TRUE] ELSE c

KeyAt(tables, c) == Key(tables[c.table].blocks[c.block][c.entry])

Before(tables, c, d) ==
  ~c.done /\ (d.done \/ KeyAt(tables, c) < KeyAt(tables, d))

\* The least of the cursor at i and its children in the heap, and the exchange with it.
Smaller(tables, h, j, best) ==
  IF j <= Len(h) /\ Before(tables, h[j], h[best]) THEN j ELSE best
Least(tables, h, i) == Smaller(tables, h, 2 * i + 1, Smaller(tables, h, 2 * i, i))
Sifted(tables, s) ==
  LET h == s.heap
      m == Least(tables, h, s.at)
  IN  IF s.at > Len(h) \/ m = s.at THEN s
      ELSE [heap |-> [h EXCEPT ![s.at] = h[m], ![m] = h[s.at]], at |-> m]
SiftDown(tables, heap, at) ==
  Iterated(Len(heap), LAMBDA s : Sifted(tables, s), [heap |-> heap, at |-> at]).heap

HeapOf(tables) ==
  LET cursors == [i \in DOMAIN tables |->
        Load(tables, [table |-> i, block |-> 1, entry |-> 1, done |-> FALSE])]
  IN  FoldLeft(LAMBDA heap, i : SiftDown(tables, heap, i), cursors,
               Reverse([i \in 1..(Len(tables) \div 2) |-> i]))

\* The next block is entered, but Load leaves a cursor that is done as it is.
Advance(tables, c) ==
  LET d == Load(tables, [c EXCEPT !.entry = @ + 1])
  IN  IF ~d.done \/ d.block = Len(tables[d.table].blocks) THEN d
      ELSE Load(tables, [d EXCEPT !.block = @ + 1, !.entry = 1])

WithoutDone(tables, h) ==
  IF h = <<>> \/ ~h[1].done THEN h
  ELSE SiftDown(tables, SubSeq([h EXCEPT ![1] = h[Len(h)]], 1, Len(h) - 1), 1)
DropDone(tables, heap) ==
  SiftDown(tables, Iterated(Len(heap), LAMBDA h : WithoutDone(tables, h), heap), 1)

\* The entry of the first cursor comes out, once for every entry of the tables at most.
TakenOut(tables, s) ==
  LET c == s.heap[1]
  IN  IF s.heap = <<>> \/ c.done THEN s
      ELSE [heap |-> DropDone(tables, [s.heap EXCEPT ![1] = Advance(tables, c)]),
            out  |-> Append(s.out, tables[c.table].blocks[c.block][c.entry])]
Drain(tables, heap) ==
  LET all == FlattenSeq([i \in DOMAIN tables |-> FlattenSeq(tables[i].blocks)])
  IN  Iterated(Len(all), LAMBDA s : TakenOut(tables, s), [heap |-> heap, out |-> <<>>]).out

\* Of equal neighbours the later one stays.
Deduplicated(entries) ==
  Those(entries, {i \in DOMAIN entries :
                    i < Len(entries) => Key(entries[i + 1]) # Key(entries[i])})

MergedTable(tables) ==
  ReadTable(WriteTable(Deduplicated(Drain(tables, HeapOf(tables)))))

-----------------------------------------------------------------------------
Tombstone == 0                 \* the value that stands for a deletion
Torn      == <<>>              \* a record of the log cut short by a crash
Nothing    == [k \in {} |-> Missing]

Entries(mem) == LET ks == Ordered(DOMAIN mem)
                IN  [i \in DOMAIN ks |-> <<ks[i], mem[ks[i]]>>]

Insert(mem, k, v) == [x \in DOMAIN mem \cup {k} |-> IF x = k THEN v ELSE mem[x]]

-----------------------------------------------------------------------------
\* Memtables

Freeze(t) == [t EXCEPT !.imms = Append(@, t.mem), !.mem = Nothing]

FlushOldest(t) ==
  LET mem   == Head(t.imms)
      table == ReadTable(WriteTable(Entries(mem)))
  IN  [t EXCEPT !.imms = Tail(@),
                !.levels[0] = IF mem = Nothing THEN @ ELSE Append(@, table)]

FlushDownTo(t, n) ==
  FoldLeft(LAMBDA s, i : FlushOldest(s), t, [i \in 1..(Len(t.imms) - n) |-> i])

\* The log first, then the memtable, then room for the next.
Put(t, k, v) ==
  LET u == [t EXCEPT !.buffer = Append(@, <<k, v>>), !.mem = Insert(@, k, v)]
  IN  IF Cardinality(DOMAIN u.mem) >= MemCap THEN FlushDownTo(Freeze(u), ImmMax)
                                             ELSE u

-----------------------------------------------------------------------------
\* Reads

Newest(tables, k) ==
  LET i == SelectLastInSeq(tables, LAMBDA table : TableGet(table, k) # Missing)
  IN  IF i = 0 THEN Missing ELSE TableGet(tables[i], k)

\* Slip: level 0 is searched from the oldest file.
InLevelOldest(files, lv, k) ==
  IF lv = 0 THEN Newest(Reverse(files), k)
  ELSE LET i == FirstNotBelow([f \in DOMAIN files |-> files[f].index[1]], k)
       IN  IF i > Len(files) THEN Missing ELSE TableGet(files[i], k)

\* Above level 0 one file is searched: the first whose first block does not
\* end below k.
InLevel(files, lv, k) ==
  IF lv = 0 THEN Newest(files, k)
  ELSE LET i == FirstNotBelow([f \in DOMAIN files |-> files[f].index[1]], k)
       IN  IF i > Len(files) THEN Missing ELSE TableGet(files[i], k)

Get(t, k) ==
  LET mems   == Append(t.imms, t.mem)
      inMem  == SelectLastInSeq(mems, LAMBDA m : k \in DOMAIN m)
      levels == [lv \in 1..LsmLevels |-> InLevel(t.levels[lv - 1], lv - 1, k)]
      lower  == SelectInSeq(levels, LAMBDA v : v # Missing)
      found  == IF inMem # 0 THEN mems[inMem][k]
                ELSE IF lower # 0 THEN levels[lower] ELSE Missing
  IN  IF found = Tombstone THEN Missing ELSE found

-----------------------------------------------------------------------------
\* Compaction

\* All files of a level become one file of the next, put before the first file
\* that ends higher.
CompactLevel(t, lv) ==
  LET table == MergedTable(t.levels[lv])
      dst   == t.levels[lv + 1]
      above == {i \in DOMAIN dst : table.index[1] < dst[i].index[1]}
      at    == IF above = {} THEN Len(dst) + 1 ELSE Min(above)
  IN  IF lv >= LsmLevels - 1 \/ t.levels[lv] = <<>> THEN t
      ELSE [t EXCEPT !.levels[lv] = <<>>, !.levels[lv + 1] = InsertAt(dst, at, table)]

\* A level is empty after its compaction, so each "while" runs at most once.
CompactAbove(t, lv, limit) ==
  IF Len(t.levels[lv]) > limit THEN CompactLevel(t, lv) ELSE t

MaybeCompact(t) ==
  LET u == FlushDownTo(t, 0)
  IN  IF t.picker = "leveled"
      THEN FoldLeft(LAMBDA s, lv : CompactAbove(s, lv, SizeRatio ^ (lv + 1)),
                    CompactAbove(u, 0, Level0Limit),
                    [i \in 1..(LsmLevels - 1) |-> i - 1])
      ELSE IF Len(u.levels[0]) >= TierFiles THEN CompactLevel(u, 0) ELSE u

-----------------------------------------------------------------------------
\* The log across restarts

\* What wal_recover replays: everything before the first torn record.
Readable(disk) ==
  LET torn == {i \in DOMAIN disk : disk[i] = Torn}
  IN  IF torn = {} THEN disk ELSE SubSeq(disk, 1, Min(torn) - 1)

Replay(records) ==
  FoldLeft(LAMBDA mem, r : Insert(mem, Key(r), Val(r)), Nothing, records)

\* A new tree knows the log and no table of an earlier run.  "writes" are the
\* writes it answers for, "safe" those that an earlier end or start settled.
Opened(picker, disk, safe) ==
  [kind |-> "lsm", picker |-> picker, open |-> TRUE, mem |-> Replay(Readable(disk)),
   imms |-> <<>>, levels |-> [lv \in 0..(LsmLevels - 1) |-> <<>>],
   disk |-> disk, buffer |-> <<>>, writes |-> Readable(disk), safe |-> safe]

\* Slip: the end of the log is not written out.
ClosedUnsynced(t) ==
  LET u == MaybeCompact(FlushDownTo(Freeze(t), 0))
  IN  [u EXCEPT !.open = FALSE, !.buffer = <<>>]

Closed(t) ==
  LET u == MaybeCompact(FlushDownTo(Freeze(t), 0))
  IN  [u EXCEPT !.open = FALSE, !.disk = @ \o t.buffer, !.buffer = <<>>]

-----------------------------------------------------------------------------
LsmInit == handle \in {Opened(p, <<>>, <<>>) : p \in {"leveled", "tiered"}}

Tree == Holding("lsm") /\ handle.open

\* The value of a write is its number.
LsmWrite(k) ==
  /\ Tree /\ Len(handle.disk \o handle.buffer) < LsmWrites
  /\ \E v \in {Len(handle.writes) + 1, Tombstone} :
       handle' = [Put(handle, k, v) EXCEPT !.writes = Append(@, <<k, v>>)]

LsmMaybeCompact == Tree /\ handle' = MaybeCompact(handle)

LsmCompactLevel(lv) == Tree /\ handle' = CompactLevel(handle, lv)

LsmClose ==
  /\ Tree
  /\ handle' = [Closed(handle) EXCEPT
                  !.safe = IF Torn \in ToSet(handle.disk) THEN @ ELSE handle.writes]

\* The process ends; of the stream's buffer some beginning has been written.
LsmCrash ==
  /\ Tree
  /\ \E n \in 0..Len(handle.buffer), torn \in BOOLEAN :
       /\ torn => n < Len(handle.buffer)
       /\ handle' = [handle EXCEPT
            !.open = FALSE, !.buffer = <<>>,
            !.disk = @ \o SubSeq(handle.buffer, 1, n)
                       \o (IF torn /\ Torn \notin ToSet(@) THEN <<Torn>> ELSE <<>>)]

LsmOpen ==
  /\ Holding("lsm") /\ ~handle.open
  /\ LET found == Readable(handle.disk)
     IN  handle' = Opened(handle.picker, handle.disk,
                          IF IsPrefix(handle.safe, found) THEN found ELSE handle.safe)

LsmNext ==
  \/ \E k \in LsmKeys : LsmWrite(k)
  \/ LsmMaybeCompact
  \/ \E lv \in 0..(LsmLevels - 1) : LsmCompactLevel(lv)
  \/ LsmClose
  \/ LsmCrash
  \/ LsmOpen

-----------------------------------------------------------------------------
Latest(k) == LET i == SelectLastInSeq(handle.writes, LAMBDA w : Key(w) = k)
             IN  IF i = 0 \/ Val(handle.writes[i]) = Tombstone THEN Missing
                 ELSE Val(handle.writes[i])

Uncompacted == \A lv \in 1..(LsmLevels - 1) : handle.levels[lv] = <<>>

\* Every key was written once, in ascending order, and all fit one block.
AppendOnly ==
  /\ \A i, j \in DOMAIN handle.writes : i < j => Key(handle.writes[i]) < Key(handle.writes[j])
  /\ Len(handle.writes) <= BlockEntries

\* A read finds what was written last, through frozen memtables, flushes,
\* overlapping files of level 0 and restarts, as long as nothing was compacted;
\* and after any compactions too when keys only ever grow and no file
\* needs a second block.  (Otherwise merging loses values: see the README.)
ReadsLatest ==
  Tree /\ (Uncompacted \/ AppendOnly) => \A k \in LsmKeys : Get(handle, k) = Latest(k)

\* What a clean end wrote, or a start found, no later crash or start loses,
\* unless a torn record stood in the log already.
RestartsKeepSafe == Tree => IsPrefix(handle.safe, handle.writes)

-----------------------------------------------------------------------------
(***************************************************************************)
(* The memtable of mini-file-storage (skiplist.c) with its forward         *)
(* pointers.  A node is named by its key; Header stands for the header     *)
(* node, whose key_len is 0, and End for NULL.                             *)
(***************************************************************************)
CONSTANTS SkipKeys,       \* positive numbers
          SkipVals,
          MaxHeight       \* SKIPLIST_MAX_LEVEL

Header == 0
End    == -1

NewSkipList ==
  [kind |-> "skiplist", level |-> 0, size |-> 0,
   forward |-> [x \in {Header} |-> [i \in 0..(MaxHeight - 1) |-> End]],
   value |-> [x \in {} |-> End], put |-> [x \in {} |-> End], iter |-> End]

\* Going right at level i as long as the next key is below k.
Right(l, from, i, k) ==
  LET Go[x \in Int] ==
        LET n == l.forward[x][i] IN IF n # End /\ n < k THEN Go[n] ELSE x
  IN  Go[from]

\* The node where each level is left, from the top down: update[].
Path(l, k) ==
  LET At[i \in 0..l.level] ==
        Right(l, IF i = l.level THEN Header ELSE At[i + 1], i, k)
  IN  At

Search(l, k) == LET x == l.forward[Path(l, k)[0]][0] IN IF x = k THEN x ELSE End

\* A key that is there gets the value in place; else a node of the given height
\* is linked behind the path, and behind the header where the list was lower.
Inserted(l, k, v, height) ==
  IF Search(l, k) # End THEN [l EXCEPT !.value[k] = v]
  ELSE LET update == [i \in 0..height |->
                        IF i <= l.level THEN Path(l, k)[i] ELSE Header]
       IN  [l EXCEPT
              !.level = IF height > @ THEN height ELSE @,
              !.size  = @ + 1,
              !.value = [x \in DOMAIN @ \cup {k} |-> IF x = k THEN v ELSE @[x]],
              !.forward = [x \in DOMAIN @ \cup {k} |->
                 [i \in 0..(MaxHeight - 1) |->
                    IF x = k THEN IF i <= height THEN @[update[i]][i] ELSE End
                    ELSE IF i <= height /\ update[i] = x THEN k ELSE @[x][i]]]]

\* What an iterator gives from node x on.
From(l, start) ==
  LET Walk[x \in Int] == IF x = End THEN <<>> ELSE <<x>> \o Walk[l.forward[x][0]]
  IN  Walk[start]

SkipInit == handle = NewSkipList

\* random_level may give any height.  "put" is what the caller put.
SkipInsert(k, v, height) ==
  /\ Holding("skiplist")
  /\ handle' = [Inserted(handle, k, v, height) EXCEPT
       !.put = [x \in DOMAIN @ \cup {k} |-> IF x = k THEN v ELSE @[x]]]

SkipNext == \E k \in SkipKeys, v \in SkipVals, h \in 0..(MaxHeight - 1) :
              SkipInsert(k, v, h)

\* Whatever heights the nodes drew and in whatever order keys came, a search
\* from the top finds exactly the keys that were put, each with its last value,
\* and the walk along level 0 gives each of them once, in ascending order.
SkipListIsMap ==
  Holding("skiplist") =>
    /\ handle.value = handle.put
    /\ \A k \in SkipKeys : Search(handle, k) = IF k \in DOMAIN handle.put THEN k ELSE End
    /\ LET walk == From(handle, handle.forward[Header][0])
       IN  /\ Len(walk) = handle.size
           /\ {walk[i] : i \in DOMAIN walk} = DOMAIN handle.put
           /\ \A i, j \in DOMAIN walk : i < j => walk[i] < walk[j]
=============================================================================
