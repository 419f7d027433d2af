----------------------------- MODULE KernelLsm -----------------------------
(***************************************************************************)
(* The LSM tree of mini-db-kernel (lsm_tree.c): a sorted memtable and      *)
(* levels of tables, all in memory.  Get takes the tables of level 0 from  *)
(* the oldest on and goes past tombstones, so that only a key with one     *)
(* version in the tables is read safely, and a put overwrites entries of   *)
(* the memtable; "sound" are the keys that neither happened to, "truth" is *)
(* what the caller last wrote.                                             *)
(***************************************************************************)
EXTENDS Handle, Integers, Sequences, FiniteSets, SequencesExt

CONSTANTS KKeys, KVals,
          KMemMax,       \* LSM_MEMTABLE_MAX and LSM_SSTABLE_MAX_ENTRIES
          KLevels,       \* LSM_MAX_LEVELS
          KBaseLimit,    \* the 4 tables of level 0
          KBits,         \* the filter bits of each key
          KWrites        \* bound on puts and deletes

ASSUME KLsmAssumption ==
  KKeys \subseteq Int /\ KMemMax \in Nat \ {0} /\ KLevels \in Nat \ {0}

NoValue == 0
KEntry(k, v, d) == [key |-> k, val |-> v, deleted |-> d]
Limit(level) == KBaseLimit * 2^level

\* Binary search for the first place whose key is not below k.  Each round
\* leaves less between lo and hi, so Len(s) of them do.
Halved(s, k, b) ==
  LET mid == (b.lo + b.hi) \div 2
  IN  IF b.lo >= b.hi THEN b
      ELSE IF s[mid].key < k THEN [lo |-> mid + 1, hi |-> b.hi] ELSE [lo |-> b.lo, hi |-> mid]
FindKey(s, k) ==
  FoldLeft(LAMBDA b, i : Halved(s, k, b), [lo |-> 1, hi |-> Len(s) + 1],
           [i \in DOMAIN s |-> i]).lo

At(s, k) == FindKey(s, k) <= Len(s) /\ s[FindKey(s, k)].key = k

BloomCheck(f, k) == KBits[k] \subseteq f

TableOf(es) == [entries |-> es, min |-> es[1].key, max |-> es[Len(es)].key,
                bloom |-> UNION {KBits[es[i].key] : i \in DOMAIN es}]

NewTree == [mem |-> <<>>, tables |-> [l \in 0..(KLevels - 1) |-> <<>>], cut |-> FALSE]

\* A new key makes room by copies of the entry at its place: of two or more
\* entries behind it only the first is left, as often as there were entries.
MemtablePut(mem, k, v) ==
  LET p == FindKey(mem, k)
      e == KEntry(k, v, FALSE)
  IN  IF At(mem, k) THEN [mem EXCEPT ![p] = e]
      ELSE [i \in 1..(Len(mem) + 1) |-> IF i < p THEN mem[i] ELSE IF i = p THEN e ELSE mem[p]]
Overwritten(mem, k) ==
  IF At(mem, k) \/ FindKey(mem, k) >= Len(mem) THEN {}
  ELSE {mem[i].key : i \in FindKey(mem, k)..Len(mem)}

SstableSearch(t, k) ==
  LET p == FindKey(t.entries, k)
  IN  IF k < t.min \/ k > t.max \/ ~BloomCheck(t.bloom, k) THEN NoValue
      ELSE IF At(t.entries, k) /\ ~t.entries[p].deleted THEN t.entries[p].val ELSE NoValue

KGet(tree, k) ==
  LET p     == FindKey(tree.mem, k)
      all   == FlattenSeq([l \in 1..KLevels |-> tree.tables[l - 1]])
      found == {i \in DOMAIN all : SstableSearch(all[i], k) # NoValue}
  IN  IF At(tree.mem, k) THEN IF tree.mem[p].deleted THEN NoValue ELSE tree.mem[p].val
      ELSE IF found = {} THEN NoValue ELSE SstableSearch(all[Min(found)], k)

\* Slip: only the upper level is gathered.
GatherUpper(tree, level) ==
  LET ts == tree.tables[level]
  IN  FlattenSeq([i \in DOMAIN ts |-> ts[i].entries])

\* The entries of the level below come first.
Gather(tree, level) ==
  LET ts == tree.tables[level + 1] \o tree.tables[level]
  IN  FlattenSeq([i \in DOMAIN ts |-> ts[i].entries])

\* The exchange sort by key, which mixes equal keys up.
Exchanged(s, i, j) ==
  IF j > i /\ s[i].key > s[j].key THEN [s EXCEPT ![i] = s[j], ![j] = s[i]] ELSE s
ExchangedAll(s, i) == FoldLeft(LAMBDA b, j : Exchanged(b, i, j), s, [j \in DOMAIN s |-> j])
ByKey(s) == FoldLeft(LAMBDA b, i : ExchangedAll(b, i), s, [i \in DOMAIN s |-> i])

\* Of equal keys the first stays, unless it is a tombstone and a later is not.
Deduped(acc, e) ==
  IF acc = <<>> \/ acc[Len(acc)].key # e.key THEN Append(acc, e)
  ELSE IF acc[Len(acc)].deleted /\ ~e.deleted THEN [acc EXCEPT ![Len(acc)] = e]
  ELSE acc
Unique(s) == FoldLeft(Deduped, <<>>, s)

\* Tables of the full size; what the level has no place for is dropped.
Cut(s) ==
  LET n == (Len(s) + KMemMax - 1) \div KMemMax
  IN  [i \in 1..n |-> TableOf(SubSeq(s, (i - 1) * KMemMax + 1,
                              IF i * KMemMax < Len(s) THEN i * KMemMax ELSE Len(s)))]

Compact(tree, level) ==
  LET new  == Cut(Unique(ByKey(Gather(tree, level))))
      size == Limit(level + 1)
  IN  IF level >= KLevels - 1 \/ tree.tables[level] = <<>> THEN tree
      ELSE [tree EXCEPT !.tables[level] = <<>>,
              !.tables[level + 1] = SubSeq(new, 1, IF Len(new) > size THEN size ELSE Len(new)),
              !.cut = @ \/ Len(new) > size]

Flush(tree) ==
  LET roomy == IF Len(tree.tables[0]) >= Limit(0) THEN Compact(tree, 0) ELSE tree
  IN  IF tree.mem = <<>> THEN tree
      ELSE [roomy EXCEPT !.tables[0] = Append(@, TableOf(tree.mem)), !.mem = <<>>]

\* Even an update of a key that is there flushes a full memtable first.
KlPut(tree, k, v) ==
  LET t == IF Len(tree.mem) >= KMemMax THEN Flush(tree) ELSE tree
  IN  [t EXCEPT !.mem = MemtablePut(@, k, v)]

\* The tombstone is built behind the last entry, where the shift then puts the
\* last entry: unless it belongs at the end, a copy of the last entry is what
\* gets inserted in its place.
KlDelete(tree, k) ==
  LET t  == IF Len(tree.mem) >= KMemMax THEN Flush(tree) ELSE tree
      p  == FindKey(t.mem, k)
      n  == Len(t.mem)
  IN  IF At(tree.mem, k) THEN [tree EXCEPT !.mem[FindKey(tree.mem, k)].deleted = TRUE]
      ELSE [t EXCEPT !.mem = InsertAt(@, p, IF p > n THEN KEntry(k, NoValue, TRUE)
                                            ELSE t.mem[n])]

-----------------------------------------------------------------------------
KLsmInit ==
  handle = [kind |-> "klsm", tree |-> NewTree, truth |-> [k \in KKeys |-> NoValue],
            sound |-> KKeys, writes |-> 0]

InTables(tree) == {k \in KKeys : \E l \in DOMAIN tree.tables : \E i \in DOMAIN tree.tables[l] :
                     \E j \in DOMAIN tree.tables[l][i].entries :
                        tree.tables[l][i].entries[j].key = k}
InMem(tree) == {tree.mem[i].key : i \in DOMAIN tree.mem}

\* A key that is flushed a second time is no longer sound, nor is one whose
\* entry was overwritten; nothing is once a compaction dropped entries.
KlTold(h, new, flushed, lost) ==
  [h EXCEPT !.tree = new,
     !.sound = IF new.cut THEN {}
               ELSE IF flushed THEN (@ \ (InMem(h.tree) \cap InTables(h.tree))) \ lost ELSE @ \ lost]

Full == Len(handle.tree.mem) >= KMemMax

KLsmPut(k, v) ==
  /\ Holding("klsm") /\ handle.writes < KWrites
  /\ LET lost == IF Full THEN {} ELSE Overwritten(handle.tree.mem, k)
     IN  handle' = [KlTold(handle, KlPut(handle.tree, k, v), Full, lost)
                      EXCEPT !.truth[k] = v, !.writes = @ + 1]

KLsmDelete(k) ==
  /\ Holding("klsm") /\ handle.writes < KWrites
  /\ LET new  == KlDelete(handle.tree, k)
         lost == IF At(new.mem, k) THEN {} ELSE KKeys
     IN  handle' = [KlTold(handle, new, Full /\ ~At(handle.tree.mem, k), lost)
                      EXCEPT !.truth[k] = NoValue, !.writes = @ + 1]

KLsmFlush ==
  /\ Holding("klsm")
  /\ handle' = KlTold(handle, Flush(handle.tree), TRUE, {})

KLsmCompact(level) ==
  /\ Holding("klsm")
  /\ handle' = KlTold(handle, Compact(handle.tree, level), FALSE, {})

KLsmNext ==
  \/ \E k \in KKeys, v \in KVals : KLsmPut(k, v)
  \/ \E k \in KKeys : KLsmDelete(k)
  \/ KLsmFlush
  \/ \E l \in 0..(KLevels - 1) : KLsmCompact(l)

\* A key of which the tables hold one version, and whose entry no put of a
\* lower key overwrote, reads as what was last written, from the memtable or
\* from whatever level compactions carried it to.
KLsmReadsLatest ==
  Holding("klsm") => \A k \in handle.sound : KGet(handle.tree, k) = handle.truth[k]
=============================================================================
