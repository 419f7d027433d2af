------------------------------ MODULE NosqlLog ------------------------------
(***************************************************************************)
(* What mini-nosql-store writes down: its write-ahead log (nosql_wal.c,    *)
(* kind "nwal"), with crashes that lose what was buffered, and its tables  *)
(* sorted in levels (lsm_engine.c, kind "engine").  A record is whole or   *)
(* torn; a torn one has half its length, which shifts all that follow.     *)
(***************************************************************************)
EXTENDS Handle, Integers, FiniteSets, SequencesExt

CONSTANTS NwKeys, NwAppends,     \* keys, and a bound on the records
          NwCrashes,             \* bound on the times the log is opened again
          EngKeys, EngWrites,    \* keys, and a bound on the writes
          EngFull, EngTableMax,  \* LSM_LEVEL0_MAX, the 512 keys of a table
          EngBits,               \* the bits of each key in a Bloom filter
          EngTables              \* bound on the flushes

\* Keys are compared, and a table has room for some.
EngineAssumption == EngKeys \subseteq Int /\ EngTableMax \in Nat
ASSUME EngineAssumption

-----------------------------------------------------------------------------
(* The log: what is on the disk and what is in the buffer of the stream.    *)

NewNwal(sync) ==
  [kind |-> "nwal", sync |-> sync, disk |-> <<>>, buffer |-> <<>>, next |-> 1,
   made |-> 0, opened |-> 0, kept |-> 0]

Flushed(w) == [w EXCEPT !.disk = @ \o w.buffer, !.buffer = <<>>,
                        !.kept = Len(w.disk) + Len(w.buffer)]

\* The value of a record is how many were made before, in all openings.
AppendRecord(op, key) ==
  /\ handle.made < NwAppends
  /\ LET r == [lsn |-> handle.next, op |-> op, key |-> key, val |-> handle.made + 1, whole |-> TRUE]
         w == [handle EXCEPT !.buffer = Append(@, r), !.next = @ + 1, !.made = @ + 1]
     IN  handle' = IF w.sync THEN Flushed(w) ELSE w
WalAppend(op, key) == AppendRecord(op, key)
WalAbort           == AppendRecord("abort", 0)
WalCommit          == AppendRecord("commit", 0)
WalCheckpoint      == AppendRecord("checkpoint", 0)
WalSync            == handle.buffer # <<>> /\ handle' = Flushed(handle)

\* The last record cannot be read through a stream opened for appending, so the numbers
\* start again.
Reopened(w) == [w EXCEPT !.next = 1, !.opened = @ + 1]
WalReopen == handle.opened < NwCrashes /\ handle' = Reopened(Flushed(handle))
WalCrash(n, torn) ==
  /\ handle.opened < NwCrashes
  /\ n + (IF torn THEN 1 ELSE 0) <= Len(handle.buffer)
  /\ handle' = Reopened([handle EXCEPT !.buffer = <<>>,
       !.disk = @ \o SubSeq(handle.buffer, 1, n)
                  \o IF torn THEN <<[handle.buffer[n + 1] EXCEPT !.whole = FALSE]>> ELSE <<>>])

\* Records are read in steps of their length, and those that are not where a step begins
\* fail their checksum: an odd number of torn ones before hides a record.
RecordsRead(disk) ==
  LET Torn(i) == Cardinality({j \in 1..(i - 1) : ~disk[j].whole})
  IN  Those(disk, {i \in DOMAIN disk : disk[i].whole /\ Torn(i) % 2 = 0})

LastCheckpoint(rs) == SelectLastInSeq(rs, LAMBDA r : r.op = "checkpoint")

\* Slip: the record that is sought has a number above the checkpoint's.
SeekPast(rs, lsn) == SelectInSeq(rs, LAMBDA r : r.lsn > lsn)

\* The first record with that number or a higher one.
SeekLsn(rs, lsn) == SelectInSeq(rs, LAMBDA r : r.lsn >= lsn)

\* The updates that are handed to the callback: those after an abort are left out up to
\* the next commit or checkpoint.
Changes == {"update", "delete"}
ReplayStep(acc, r) ==
  IF r.op \in Changes
  THEN [acc EXCEPT !.out = IF acc.aborted THEN @ ELSE Append(@, r)]
  ELSE [acc EXCEPT !.aborted = r.op = "abort"]
Replayed(rs) ==
  LET cp   == LastCheckpoint(rs)
      from == IF cp = 0 THEN 1 ELSE SeekLsn(rs, rs[cp].lsn)
  IN  FoldLeft(ReplayStep, [aborted |-> FALSE, out |-> <<>>],
               IF from = 0 THEN <<>> ELSE SubSeq(rs, from, Len(rs))).out

-----------------------------------------------------------------------------
(* The engine.  A memtable gives its keys values, in the order of the keys; *)
(* a table has only keys, and reads an empty value for each of them.        *)

Deletion == -1     \* "__TOMBSTONE__", a value like another
EmptyVal  == 0
EmptyMem  == [k \in {} |-> EmptyVal]

NewEngine == [kind |-> "engine", mem |-> EmptyMem, imms |-> <<>>, l0 |-> <<>>, l1 |-> <<>>,
              writes |-> 0, last |-> EmptyMem, cut |-> FALSE]
MemPut(mem, k, v) == [x \in DOMAIN mem \cup {k} |-> IF x = k THEN v ELSE mem[x]]
KeysInOrder(keys) == Ordered(keys)

\* A table takes keys up to its limit and refuses the rest, which nobody is told of.
Fitting(keys) == SubSeq(keys, 1, IF Len(keys) < EngTableMax THEN Len(keys) ELSE EngTableMax)

TableHas(table, k) ==
  /\ EngBits[k] \subseteq UNION {EngBits[x] : x \in ToSet(table)}
  /\ k \in ToSet(table)

\* The value read, none or one: the memtable, the frozen ones from the newest, the tables.
EngineGet(e, k) ==
  LET mems == <<e.mem>> \o Reverse(e.imms)
      i    == SelectInSeq(mems, LAMBDA m : k \in DOMAIN m)
  IN  IF i # 0 THEN {mems[i][k]}
      ELSE IF \E t \in ToSet(e.l0 \o e.l1) : TableHas(t, k) THEN {EmptyVal} ELSE {}

EngineWrite(k, dead) ==
  /\ handle.writes < EngWrites
  /\ LET v == IF dead THEN Deletion ELSE handle.writes + 1
     IN  handle' = [handle EXCEPT !.mem = MemPut(@, k, v), !.writes = @ + 1, !.last = MemPut(@, k, v)]

\* The memtable, which has no limit, is frozen and stays for ever beside its table.
FlushMemtable(e) ==
  LET keys == KeysInOrder(DOMAIN e.mem)
  IN  [e EXCEPT !.imms = Append(@, e.mem), !.l0 = Append(@, Fitting(keys)), !.mem = EmptyMem,
                !.cut = @ \/ Len(keys) > EngTableMax]
EngineFlush ==
  /\ handle.mem # EmptyMem /\ Len(handle.imms) < EngTables
  /\ handle' = FlushMemtable(handle)

\* The keys of all tables of level 0 in one, each as often as it is there, cut at its limit.
EngineCompact ==
  /\ Len(handle.l0) >= EngFull
  /\ LET all == FlattenSeq(handle.l0)
     IN  handle' = [handle EXCEPT !.l0 = <<>>, !.l1 = Append(@, Fitting(all)),
                                  !.cut = @ \/ Len(all) > EngTableMax]
EngineCount(e) ==
  Cardinality(DOMAIN e.mem) + Len(FlattenSeq(e.l0)) + Len(FlattenSeq(e.l1))

-----------------------------------------------------------------------------
NosqlLogInit == \/ \E sync \in BOOLEAN : handle = NewNwal(sync)
                \/ handle = NewEngine
NosqlLogNext ==
  \/ Holding("nwal") /\ \E op \in Changes, k \in NwKeys : WalAppend(op, k)
  \/ Holding("nwal") /\ WalAbort
  \/ Holding("nwal") /\ WalCommit
  \/ Holding("nwal") /\ WalCheckpoint
  \/ Holding("nwal") /\ WalSync
  \/ Holding("nwal") /\ WalReopen
  \/ Holding("nwal") /\ \E n \in 0..NwAppends, torn \in BOOLEAN : WalCrash(n, torn)
  \/ Holding("engine") /\ \E k \in EngKeys, dead \in BOOLEAN : EngineWrite(k, dead)
  \/ Holding("engine") /\ EngineFlush
  \/ Holding("engine") /\ EngineCompact

-----------------------------------------------------------------------------
\* The updates among the records from a to b, what some updates make of the keys, and
\* whether an abort comes before a record with no commit or checkpoint between them.
UpdatesIn(rs, a, b) == Those(rs, {i \in a..b : rs[i].op \in Changes})
StateAfter(s) ==
  [k \in NwKeys |-> LET i == SelectLastInSeq(s, LAMBDA r : r.key = k)
                    IN  IF i = 0 \/ s[i].op = "delete" THEN 0 ELSE s[i].val]
AfterAbort(rs, r) ==
  \E i, j \in DOMAIN rs : /\ i < j /\ rs[i].op = "abort" /\ rs[j] = r
                         /\ \A m \in i..j : rs[m].op \notin {"commit", "checkpoint"}

(* What was flushed before a crash is read after it unless a torn record lies before it.
   If nothing was aborted, the state of the last readable checkpoint and the updates that
   are replayed on it give the state of all readable records, although numbers start
   again with every opening and the replay may begin long before the checkpoint.  Of the
   updates behind the last checkpoint exactly those are replayed that do not follow an
   abort up to the next commit or checkpoint; whether a commit comes after them makes no
   difference, those of a transaction the crash cut off are replayed too: wal_recover. *)
RecoveryRebuilds ==
  Holding("nwal") =>
    LET rs  == RecordsRead(handle.disk)
        cp  == LastCheckpoint(rs)
        out == Replayed(rs)
    IN  /\ (\A i \in DOMAIN handle.disk : handle.disk[i].whole) => rs = handle.disk
        /\ \A i \in 1..handle.kept :
             handle.disk[i].whole /\ (\A j \in 1..i : handle.disk[j].whole) => handle.disk[i] \in ToSet(rs)
        /\ handle.sync => handle.buffer = <<>>
        /\ (\A r \in ToSet(rs) : r.op # "abort") =>
             StateAfter(UpdatesIn(rs, 1, cp) \o out) = StateAfter(UpdatesIn(rs, 1, Len(rs)))
        /\ \A r \in ToSet(UpdatesIn(rs, cp + 1, Len(rs))) :
             (r \in ToSet(out)) = ~AfterAbort(rs, r)
        /\ \A i, j \in DOMAIN out : i < j => out[i].val < out[j].val

\* How often a key is in a row.
Times(s, k) == Cardinality({i \in DOMAIN s : s[i] = k})

(* A key reads as it was last written, through flushes and compactions; one that was
   deleted reads as the mark, and one never written as absent.  Each flushed key is still
   in a table, as often as it was flushed, unless a flush or a compaction met the limit of
   a table and cut; what was cut is read from its frozen memtable: lsm_engine.c. *)
EngineReadsLatest ==
  Holding("engine") =>
    LET tables  == FlattenSeq(handle.l0 \o handle.l1)
        flushed == FlattenSeq([i \in DOMAIN handle.imms |-> KeysInOrder(DOMAIN handle.imms[i])])
    IN  /\ \A k \in EngKeys :
             EngineGet(handle, k) = IF k \in DOMAIN handle.last THEN {handle.last[k]} ELSE {}
        /\ ~handle.cut =>
             /\ \A k \in EngKeys : Times(tables, k) = Times(flushed, k)
             /\ EngineCount(handle) >= Cardinality(DOMAIN handle.last)
        /\ \A k \in EngKeys : Times(tables, k) <= Times(flushed, k)

(* What the log of the nosql store made durable is rebuilt after a crash, and its
   engine reads the latest value of each key: nosql_wal.c and lsm_engine.c. *)
NosqlLogHolds == RecoveryRebuilds /\ EngineReadsLatest
=============================================================================
