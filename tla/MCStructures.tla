---------------------------- MODULE MCStructures ----------------------------
(***************************************************************************)
(* Instances of the storage structures, one of each in a state of its own. *)
(***************************************************************************)
EXTENDS LsmTree, Snapshots, RangeScan, KernelLsm, BPlusTree, KernelBTree,
        SlottedPages, KernelPool, RedisModel, Caches, NosqlModels, NosqlLog, NosqlCluster

\* Two filter bits for each key, shared by some.
FilterBits == [k \in 1..99 |-> {k % 3, (2 * k) % 3}]

\* An older and a newer table with keys of two digits.
TableOfKeys(keys, version) ==
  [i \in 1..Cardinality(keys) |-> <<SetToSortSeq(keys, <)[i], version>>]
TwoTables == {<<TableOfKeys(a, 1), TableOfKeys(b, 2)>> :
                a, b \in {{11, 12, 13, 21}, {12, 14, 15, 22, 31}, {13}, {11, 14, 21, 22}}}
Ranges == {[lo |-> 12, hi |-> 14, loInc |-> TRUE, hiInc |-> TRUE],
           [lo |-> 11, hi |-> 22, loInc |-> FALSE, hiInc |-> FALSE],
           [lo |-> 14, hi |-> 31, loInc |-> TRUE, hiInc |-> FALSE],
           [lo |-> 23, hi |-> 30, loInc |-> FALSE, hiInc |-> TRUE]}

\* Four nodes on the ring with two or three virtual nodes each.
MCRing == "a" :> <<10, 50, 90>> @@ "b" :> <<20, 30>> @@ "c" :> <<40, 70, 80>> @@ "d" :> <<60, 15>>
\* Bodies of documents, one of two fields and one with a number of two digits.
MCBodies == {"a" :> 1, "a" :> 9 @@ "b" :> 12, "b" :> 3}

\* Data that hash differently, and data that differ only where the length is written.
MCLeafData == {<<1, 1>>, <<1, 2>>, <<2, 1>>}

\* Strings of up to two bytes, the lowest and the highest among them.
MCKeyStrings == UNION {[1..n -> {0, 1, 3}] : n \in 0..2}

StructuresInit ==
  \/ LsmInit \/ SkipInit \/ SnapInit \/ RangeInit \/ KeyInit \/ KLsmInit \/ BpInit \/ BtInit
  \/ PagesInit \/ KernelPoolInit \/ RedisInit \/ CachesInit \/ ModelsInit \/ NosqlLogInit \/ ClusterInit
StructuresNext ==
  \/ LsmNext \/ SkipNext \/ SnapNext \/ RangeNext \/ KeyNext \/ KLsmNext \/ BpNext \/ BtNext
  \/ PagesNext \/ KernelPoolNext \/ RedisNext \/ CachesNext \/ ModelsNext \/ NosqlLogNext \/ ClusterNext
Spec == StructuresInit /\ [][StructuresNext]_handle

-----------------------------------------------------------------------------
(* Each of the three ordered structures reads as the map that was put in it, whatever
   was split, emptied or linked: the skiplist of the file storage, the B+trees of the
   relational database and of the kernel. *)
TreesAreMaps == SkipListIsMap /\ BPlusTreeIsMap /\ BTreeFindsOldest

(* Every data model of the nosql store gives what its own commands put in: lists, sets,
   sorted sets and hashes, keys with a time to live, documents, column families; and its
   LFU cache gives up the one used last among those used least often. *)
ModelsHold ==
  RedisValuesHold /\ TtlPairsRight /\ DocumentsFound /\ ColumnsKeepNewest /\ LfuGivesUpLastUsed

(* The ring keeps its replicas apart and quorums near the last write, hints arrive
   once and at their node, and hash trees find the leaves whose hashes differ:
   nosql_hash.c and nosql_verify.c. *)
ClusterHolds == RingKeepsReplicas /\ HintsArriveOnce /\ MerkleFindsDifferences

(* A scan, by iterator or over several tables, gives the entries of its range, and
   encoded keys have the order of what they stand for: range_query.c and encoding.c of
   the file storage. *)
ScansGiveRange == IteratorGivesRange /\ MultiScanNewest /\ KeysKeepOrder /\ NumbersReadBack
=============================================================================
