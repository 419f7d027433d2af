--------------------------- MODULE MCConsumerGroup ---------------------------
(* Instances of a consumer group: one topic whose partitions do not divide *)
(* evenly among its members.                                               *)
EXTENDS ConsumerGroup

OneTopic == <<5>>
=============================================================================
