---------------------------- MODULE MCPartitionLog ----------------------------
(* Instances of a partition with its cleaner and its consumers.  Two keys  *)
(* would only repeat what one key shows beside records without a key.      *)
EXTENDS PartitionLog, TLC

CONSTANTS c1, c2, g1, k1
TwoConsumers == {c1, c2}
SameGroup == [c \in TwoConsumers |-> g1]
SomePayloads == {<<k1, Data>>, <<k1, Empty>>, <<NoKey, Data>>}
AllPolicies == {"time", "size", "compaction"}
Interchangeable == Permutations(TwoConsumers)
=============================================================================
