------------------------------ MODULE Replication ------------------------------
(***************************************************************************)
(* The in-sync replicas of one partition, its high watermark and the       *)
(* election of a leader, in mini-message-stream (src/replication.c).       *)
(*                                                                         *)
(* The environment is a set of brokers with real logs: logEnd[b] is the    *)
(* length of b's log.  A follower copies records from the leader and       *)
(* reports its log end offset; a report may reach the leader late, again   *)
(* or out of order, so it carries any length the log has had.              *)
(*                                                                         *)
(* last_fetch_ms is only compared with the clock, so an entry keeps the    *)
(* age of its last fetch, up to the first age that exceeds max_lag_ms.     *)
(***************************************************************************)
EXTENDS Integers, FiniteSets, FiniteSetsExt

CONSTANTS Brokers,      \* broker ids, numbers
          Leader,       \* broker_id of the ISRState
          Electorate,   \* the brokers that vote
          MaxIsr,       \* MAX_ISR_SIZE
          MaxLag,       \* max_lag_ms of isr_maybe_shrink, in ticks
          MaxOffset,    \* bound on the length of a log
          NoBroker      \* no winner

(* Each broker votes at most once, so the votes fit in votes[MaxIsr].       *)
ASSUME ReplicationAssumption ==
    /\ Brokers \subseteq Nat /\ Leader \in Brokers /\ Electorate \subseteq Brokers
    /\ IsFiniteSet(Brokers) /\ Cardinality(Brokers) <= MaxIsr
    /\ MaxIsr \in Nat \ {0} /\ MaxLag \in Nat /\ MaxOffset \in Nat
    /\ NoBroker \notin Brokers

VARIABLES logEnd, alive,    \* the brokers
          isr,              \* isr_list, by broker_id
          hw,               \* high_watermark
          election          \* the LeaderElection
replVars == <<logEnd, alive, isr, hw, election>>

Never == -1                             \* last_fetch_ms = 0
Ages == {Never} \cup 0 .. MaxLag + 1
Offsets == 0 .. MaxOffset
Members == DOMAIN isr
Entry(leo, age, inSync) == [leo |-> leo, age |-> age, inSync |-> inSync]

NoElection == [epoch |-> 0, candidates |-> {}, votes |-> <<>>]

(* isr_state_create joins the leader at offset 0.                          *)
Init ==
    /\ logEnd = [b \in Brokers |-> 0]
    /\ alive = Brokers
    /\ isr = [b \in {Leader} |-> Entry(0, Never, TRUE)]
    /\ hw = 0
    /\ election = NoElection

(* isr_add_replica: -1 when the list is full, even for a member; a member  *)
(* gets the new offset, anybody else a new entry, in sync when its offset  *)
(* has reached the high watermark.                                         *)
Full == Cardinality(Members) >= MaxIsr
AfterAdd(b, n) ==
    IF Full THEN isr
    ELSE IF b \in Members THEN [isr EXCEPT ![b].leo = n]
    ELSE [m \in Members \cup {b} |-> IF m = b THEN Entry(n, Never, n >= hw) ELSE isr[m]]

(* isr_update_leo: an offset never falls, and any fetch puts a member in   *)
(* sync; a broker that is not a member is added.                           *)
(* Slip: a late report takes an offset back.                               *)
ReportLowers(b, n) ==
    IF b \in Members THEN [isr EXCEPT ![b] = Entry(n, 0, TRUE)] ELSE AfterAdd(b, n)

AfterReport(b, n) ==
    IF b \in Members
    THEN [isr EXCEPT ![b] = Entry(Max({n, isr[b].leo}), 0, TRUE)]
    ELSE AfterAdd(b, n)

(* isr_advance_hw: the smallest offset of all members, if that is higher.  *)
MinLeo == Min({ isr[m].leo : m \in Members })
AfterAdvance == IF Members # {} /\ MinLeo > hw THEN MinLeo ELSE hw

(* isr_maybe_shrink drops the members that fetched once, too long ago.     *)
(* Slip: one tick more patience than the clock ever shows.                 *)
LaggingLate == { m \in Members \ {Leader} : isr[m].age > MaxLag + 1 }

Lagging == { m \in Members \ {Leader} : isr[m].age > MaxLag }
Without(gone) == [m \in Members \ gone |-> isr[m]]

(* isr_quorum_satisfied: every member has more than offset records.        *)
(* Slip: a member that has all records before the offset counts.           *)
QuorumReached(offset) == Members # {} /\ \A m \in Members : isr[m].leo >= offset

QuorumSatisfied(offset) == Members # {} /\ \A m \in Members : isr[m].leo > offset

-----------------------------------------------------------------------------
(* The brokers.                                                            *)
Produce ==
    /\ logEnd[Leader] < MaxOffset
    /\ logEnd' = [logEnd EXCEPT ![Leader] = @ + 1]
    /\ UNCHANGED <<alive, isr, hw, election>>

CopyFromLeader(b) ==
    /\ b \in alive /\ logEnd[b] < logEnd[Leader]
    /\ logEnd' = [logEnd EXCEPT ![b] = @ + 1]
    /\ UNCHANGED <<alive, isr, hw, election>>

Crash(b) ==
    /\ b \in alive \ {Leader}
    /\ alive' = alive \ {b}
    /\ UNCHANGED <<logEnd, isr, hw, election>>

(* The leader's clock.                                                     *)
Tick ==
    /\ isr' = [m \in Members |->
                 [isr[m] EXCEPT !.age = IF @ \in 0 .. MaxLag THEN @ + 1 ELSE @]]
    /\ UNCHANGED <<logEnd, alive, hw, election>>

-----------------------------------------------------------------------------
(* The leader's bookkeeping.                                               *)
Report(b, n) ==
    /\ b \in alive /\ n <= logEnd[b]
    /\ isr' = AfterReport(b, n)
    /\ UNCHANGED <<logEnd, alive, hw, election>>

(* The caller's part of isr_add_replica: "a replica that has caught up".   *)
AddReplica(b) ==
    /\ b \in alive /\ logEnd[b] >= hw
    /\ isr' = AfterAdd(b, logEnd[b])
    /\ UNCHANGED <<logEnd, alive, hw, election>>

RemoveReplica(b) ==
    /\ b \in Members \ {Leader}
    /\ isr' = Without({b})
    /\ UNCHANGED <<logEnd, alive, hw, election>>

AdvanceHw ==
    /\ hw' = AfterAdvance
    /\ UNCHANGED <<logEnd, alive, isr, election>>

MaybeShrink ==
    /\ isr' = Without(Lagging)
    /\ UNCHANGED <<logEnd, alive, hw, election>>

-----------------------------------------------------------------------------
(* leader_election_init: a new epoch, the members in sync as candidates.   *)
StartElection ==
    /\ election.epoch = 0       \* one election is enough here
    /\ election' = [epoch |-> election.epoch + 1, votes |-> <<>>,
                    candidates |-> { m \in Members : isr[m].inSync }]
    /\ UNCHANGED <<logEnd, alive, isr, hw>>

(* leader_election_cast_vote: one vote per voter, for a candidate.         *)
Voters == DOMAIN election.votes
(* Slip: a voter that votes again has its vote replaced.                   *)
CastVoteAgain(v, c) ==
    /\ c \in election.candidates
    /\ election' = [election EXCEPT !.votes =
            [u \in Voters \cup {v} |-> IF u = v THEN c ELSE election.votes[u]]]
    /\ UNCHANGED <<logEnd, alive, isr, hw>>

CastVote(v, c) ==
    /\ v \notin Voters /\ c \in election.candidates
    /\ election' = [election EXCEPT !.votes =
            [u \in Voters \cup {v} |-> IF u = v THEN c ELSE election.votes[u]]]
    /\ UNCHANGED <<logEnd, alive, isr, hw>>

(* leader_election_get_winner: most votes, then the lowest id.             *)
VotesFor(c) == Cardinality({ v \in Voters : election.votes[v] = c })
Winner ==
    LET best == { c \in election.candidates :
                    \A d \in election.candidates : VotesFor(d) <= VotesFor(c) }
    IN  IF best = {} THEN NoBroker ELSE Min(best)

-----------------------------------------------------------------------------
Elect == StartElection \/ \E v \in Electorate, c \in Brokers : CastVote(v, c)
Logs == Produce \/ \E b \in Brokers \ {Leader} : CopyFromLeader(b)
Upkeep == Tick \/ AdvanceHw \/ MaybeShrink

Next ==
    \/ Logs \/ Upkeep \/ Elect
    \/ \E b \in Brokers \ {Leader} : Crash(b) \/ RemoveReplica(b)
    \/ \E b \in Brokers : AddReplica(b) \/ \E n \in Offsets : Report(b, n)

(* A bound for model checking: a voter counts only as a voter, so those    *)
(* that vote do it in the order of their ids.                              *)
VotersInTurn == \A v \in Voters', u \in Electorate : u < v => u \in Voters'

(* The broker's loop keeps calling the upkeep functions, and a follower    *)
(* that is alive keeps fetching and reporting the end of its log.          *)
InOrderReport(b) == Report(b, logEnd[b])
Working ==
    /\ WF_replVars(Tick) /\ WF_replVars(AdvanceHw) /\ WF_replVars(MaybeShrink)
    /\ \A b \in Brokers : WF_replVars(InOrderReport(b))
    /\ \A b \in Brokers \ {Leader} : WF_replVars(CopyFromLeader(b))
Spec == Init /\ [][Next]_replVars /\ Working

(* What happens while nobody disturbs the members: replicas join by        *)
(* fetching, reports arrive in order and followers may crash.              *)
WorkNext ==
    \/ Logs \/ Upkeep
    \/ \E b \in Brokers \ {Leader} : Crash(b)
    \/ \E b \in Brokers : InOrderReport(b)

(* Members that crashed before their entry recorded a fetch.               *)
Unfetched == { m \in Members \ alive : isr[m].age = Never }
Calm == <>[][WorkNext]_replVars /\ <>[](Unfetched = {})

-----------------------------------------------------------------------------
ReplTypeOK ==
    /\ logEnd \in [Brokers -> Offsets]
    /\ alive \subseteq Brokers
    /\ Members \subseteq Brokers
    /\ isr \in [Members -> [leo : Offsets, age : Ages, inSync : BOOLEAN]]
    /\ hw \in Offsets
    /\ election.epoch \in Nat /\ election.candidates \subseteq Brokers
    /\ election.votes \in [Voters -> election.candidates] /\ Voters \subseteq Brokers

(* What the leader counts as committed it has itself: the high watermark   *)
(* never passes the end of the leader's log, through late and repeated     *)
(* reports, shrinks and returns of members.                                *)
HWWithinLeaderLog == hw <= isr[Leader].leo /\ isr[Leader].leo <= logEnd[Leader]

(* An acknowledgement to a producer that waits for all is truthful: when   *)
(* isr_quorum_satisfied says an offset is replicated, every member's real  *)
(* log has the record.                                                     *)
AcksAllStored ==
    \A o \in Offsets : QuorumSatisfied(o) => \A m \in Members : logEnd[m] > o

(* A step that lists a broker whose entry does not reach the record at o.  *)
ListedWithout(o) == \E b \in Members' \ Members : isr'[b].leo <= o

(* An acknowledged record stays replicated by every listed broker, through *)
(* late and repeated reports, removals, shrinks and new members, until a   *)
(* broker is listed that does not have it; the first advance of the high   *)
(* watermark before that makes it readable, and readable it stays.         *)
AckedUntilReadable ==
    [][/\ hw <= hw'
       /\ \A o \in Offsets : QuorumSatisfied(o) =>
             /\ QuorumSatisfied(o)' \/ ListedWithout(o)
             /\ AdvanceHw => o < hw']_replVars

(* A crashed follower does not hold back the partition: once late reports *)
(* and removals have stopped, what the leader has appended is committed    *)
(* some day, unless a follower crashed between joining and its first fetch.*)
HWReachesLeader == Calm => \A n \in Offsets : logEnd[Leader] >= n ~> hw >= n

(* A majority decides: a candidate with the votes of more than half of the *)
(* electorate is the winner, and no later vote of the epoch changes that.  *)
MajorityDecides ==
    [][\A c \in election.candidates :
          2 * VotesFor(c) > Cardinality(Electorate) => Winner = c /\ Winner' = c]_replVars

=============================================================================
