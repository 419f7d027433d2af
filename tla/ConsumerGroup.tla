----------------------------- MODULE ConsumerGroup -----------------------------
(***************************************************************************)
(* A consumer group and its coordinator in mini-message-stream             *)
(* (src/consumer_group.c): members join, leave, send heartbeats, and       *)
(* group_sync shares the partitions of the topics among them.              *)
(*                                                                         *)
(* A member keeps the time since its last heartbeat, up to the first time  *)
(* that exceeds session_timeout_ms.  assigned_partitions is a set: nothing *)
(* depends on its order.                                                   *)
(***************************************************************************)
EXTENDS Integers, Sequences, SequencesExt

CONSTANTS Consumers,
          MaxMembers,       \* MAX_GROUP_MEMBERS
          MaxPartitions,    \* MAX_PARTITIONS, the size of assigned_partitions
          Counts,           \* partition_count of each topic
          Timeout,          \* session_timeout_ms / 1000
          MaxGeneration     \* bound on generation_id

ASSUME GroupAssumption ==
    /\ MaxMembers \in Nat /\ MaxPartitions \in Nat
    /\ Counts \in Seq(Nat)
    /\ Timeout \in Nat /\ MaxGeneration \in Nat

VARIABLES members, generation, rebalancing, strategy    \* the ConsumerGroup
groupVars == <<members, generation, rebalancing, strategy>>

(* The partitions of all topics in one row, and the number each has within *)
(* its topic.                                                              *)
Base(t) == SumFunction([u \in 1 .. t - 1 |-> Counts[u]])
Total == Base(Len(Counts) + 1)
NumberInTopic(g) ==
    LET t == CHOOSE t \in DOMAIN Counts : Base(t) <= g /\ g < Base(t + 1) IN g - Base(t)

(* group_assign_range: member m of n, counted from 0, takes a block of the *)
(* row, and its partitions are named by their place in the row.            *)
RangeStart(m, n) == m * (Total \div n) + (IF m < Total % n THEN m ELSE Total % n)
RangeShare(m, n) ==
    { g \in RangeStart(m, n) .. RangeStart(m + 1, n) - 1 :
        g - RangeStart(m, n) < MaxPartitions }

(* group_assign_round_robin deals the row out, and names the partitions by *)
(* their number in the topic.                                              *)
RoundRobinShare(m, n) ==
    { NumberInTopic(g) : g \in { h \in 0 .. Total - 1 : h % n = m /\ h \div n < MaxPartitions } }

Share(m, n) == IF strategy = "RANGE" THEN RangeShare(m, n) ELSE RoundRobinShare(m, n)

-----------------------------------------------------------------------------
Ids == { members[i].id : i \in DOMAIN members }
PositionOf(c) == CHOOSE i \in DOMAIN members : members[i].id = c
NewMember(c) == [id |-> c, idle |-> 0, active |-> TRUE, assigned |-> {}]

GroupInit ==
    /\ members = <<>> /\ generation = 0 /\ rebalancing = FALSE
    /\ strategy \in {"RANGE", "ROUND_ROBIN"}

(* group_join: a member that joins again is active again and nothing else  *)
(* happens; a new one starts a rebalance and a generation.                 *)
Rejoin(c) ==
    /\ c \in Ids
    /\ members' = [members EXCEPT ![PositionOf(c)].idle = 0, ![PositionOf(c)].active = TRUE]
    /\ UNCHANGED <<generation, rebalancing, strategy>>

MayJoin(c) == c \notin Ids /\ Len(members) < MaxMembers
Join(c) ==
    /\ MayJoin(c) /\ generation < MaxGeneration
    /\ members' = Append(members, NewMember(c))
    /\ generation' = generation + 1
    /\ rebalancing' = TRUE
    /\ UNCHANGED strategy

(* Slip: a member that leaves without a rebalance.                         *)
LeaveQuietly(c) ==
    /\ c \in Ids
    /\ members' = RemoveAt(members, PositionOf(c))
    /\ UNCHANGED <<generation, rebalancing, strategy>>

(* group_leave.                                                            *)
Leave(c) ==
    /\ c \in Ids
    /\ members' = RemoveAt(members, PositionOf(c))
    /\ rebalancing' = TRUE
    /\ UNCHANGED <<generation, strategy>>

(* group_sync shares among all entries of members, active or not.          *)
Sync ==
    /\ members' = [i \in DOMAIN members |->
          [members[i] EXCEPT !.assigned = Share(i - 1, Len(members))]]
    /\ rebalancing' = FALSE
    /\ UNCHANGED <<generation, strategy>>

(* group_heartbeat restarts the clock of the member, even when it finds    *)
(* that the session has timed out.                                         *)
Heartbeat(c) ==
    /\ c \in Ids
    /\ LET i == PositionOf(c) IN
       IF members[i].idle > Timeout
       THEN /\ members' = [members EXCEPT ![i].idle = 0, ![i].active = FALSE]
            /\ rebalancing' = TRUE
       ELSE members' = [members EXCEPT ![i].idle = 0] /\ UNCHANGED rebalancing
    /\ UNCHANGED <<generation, strategy>>

SecondPasses ==
    /\ members' = [i \in DOMAIN members |->
          [members[i] EXCEPT !.idle = IF @ <= Timeout THEN @ + 1 ELSE @]]
    /\ UNCHANGED <<generation, rebalancing, strategy>>

Calls(c) == Join(c) \/ Rejoin(c) \/ Leave(c) \/ Heartbeat(c)
GroupNext == Sync \/ SecondPasses \/ \E c \in Consumers : Calls(c)
GroupSpec == GroupInit /\ [][GroupNext]_groupVars

-----------------------------------------------------------------------------
(* Nobody works on a partition twice and nobody forgets one.  A consumer   *)
(* has one entry, also when it joins again after its session ended or an   *)
(* answer was lost.  No partition is assigned to two members at any time,  *)
(* not after a member left or joined in the middle of a rebalance either.  *)
(* When no rebalance is pending every partition is assigned, and no member *)
(* has two partitions more than another one.                               *)
AssignmentsHold ==
    /\ \A i, j \in DOMAIN members : i # j =>
          /\ members[i].id # members[j].id
          /\ members[i].assigned \cap members[j].assigned = {}
    /\ ~rebalancing /\ members # <<>> =>
          /\ UNION { members[i].assigned : i \in DOMAIN members } = 0 .. Total - 1
          /\ \A i, j \in DOMAIN members :
                Cardinality(members[i].assigned) <= Cardinality(members[j].assigned) + 1
=============================================================================
