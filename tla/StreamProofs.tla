---------------------------- MODULE StreamProofs ----------------------------
(***************************************************************************)
(* Proofs about mini-message-stream, of two components that do not meet:   *)
(* replication and the consumer group.                                     *)
(*                                                                         *)
(* Replication: what the leader believes of its followers is never more    *)
(* than their logs hold, so the high watermark and what is acknowledged    *)
(* are true; and a majority of the votes decides an election.              *)
(*                                                                         *)
(* Consumer group: the shares of group_sync are exclusive, complete and    *)
(* even, and stay so until the next rebalance.                             *)
(***************************************************************************)
EXTENDS Replication, ConsumerGroup, LeastNumber, SequenceTheorems, FiniteSetTheorems, TLAPS

Fields == [leo : Offsets, age : Ages, inSync : BOOLEAN]

(* An entry never says more than the log of its broker has.                *)
EntriesTrue == \A m \in Members : isr[m].leo <= logEnd[m]

(* The leader stays a member, and its entry reaches the high watermark.    *)
LeaderLeads == Leader \in Members /\ hw <= isr[Leader].leo

(* Nobody votes twice, nobody from outside, and nobody before the epoch    *)
(* starts.                                                                 *)
VotesOK ==
    /\ Voters \subseteq Electorate
    /\ election.epoch = 0 => election.candidates = {}

IInv == ReplTypeOK /\ EntriesTrue /\ LeaderLeads /\ VotesOK

-----------------------------------------------------------------------------
LEMMA ConstantFacts ==
    /\ Offsets \subseteq Nat /\ 0 \in Offsets
    /\ Never \in Ages /\ 0 \in Ages /\ \A a \in 0 .. MaxLag : a + 1 \in Ages
    /\ Leader \in Brokers /\ Brokers \subseteq Nat /\ Electorate \subseteq Brokers
    /\ IsFiniteSet(Electorate)
<1>1. IsFiniteSet(Electorate)
  BY ReplicationAssumption, FS_Subset
<1>2. Offsets \subseteq Nat /\ 0 \in Offsets
  BY ReplicationAssumption DEF Offsets
<1>3. Never \in Ages /\ 0 \in Ages /\ \A a \in 0 .. MaxLag : a + 1 \in Ages
  BY ReplicationAssumption DEF Ages, Never
<1> QED BY <1>1, <1>2, <1>3, ReplicationAssumption

LEMMA InitIInv == Init => IInv
<1> SUFFICES ASSUME Init PROVE IInv
  OBVIOUS
<1>1. Members = {Leader} /\ isr[Leader] = Entry(0, Never, TRUE) /\ Voters = {}
  BY DEF Init, Members, Voters, NoElection
<1>2. Entry(0, Never, TRUE) \in Fields /\ Entry(0, Never, TRUE).leo = 0
  BY ConstantFacts DEF Entry, Fields
<1>3. ReplTypeOK
  <2>1. isr \in [Members -> Fields]
    BY <1>1, <1>2 DEF Init, Members
  <2>2. election.votes \in [Voters -> election.candidates]
    BY DEF Init, NoElection, Voters
  <2> QED BY <1>1, <2>1, <2>2, ConstantFacts DEF Init, ReplTypeOK, NoElection, Fields
<1>4. EntriesTrue /\ LeaderLeads
  <2>1. isr[Leader].leo = 0 /\ hw = 0 /\ logEnd[Leader] = 0
    BY <1>1, <1>2, ConstantFacts DEF Init
  <2>2. Leader \in Members /\ \A m \in Members : m = Leader
    BY <1>1
  <2>3. isr[Leader].leo <= logEnd[Leader] /\ hw <= isr[Leader].leo
    BY <2>1
  <2> QED BY <2>2, <2>3 DEF EntriesTrue, LeaderLeads
<1> QED BY <1>1, <1>3, <1>4 DEF IInv, VotesOK, Init, NoElection

(* What a step may do to the in-sync list: the entries it has are true, it *)
(* keeps the leader, and the entry of a broker that stays does not fall.   *)
GoodIsr(new) ==
    /\ DOMAIN new \subseteq Brokers /\ new \in [DOMAIN new -> Fields]
    /\ \A m \in DOMAIN new : new[m].leo <= logEnd[m]
    /\ Leader \in DOMAIN new /\ \A m \in DOMAIN new \cap Members : isr[m].leo <= new[m].leo

LEMMA IsrStep ==
    ASSUME IInv, GoodIsr(isr'), UNCHANGED <<logEnd, alive, hw, election>>
    PROVE  IInv'
<1>1. isr'[Leader].leo \in Nat /\ isr[Leader].leo \in Nat /\ hw \in Nat
  BY ConstantFacts DEF IInv, ReplTypeOK, LeaderLeads, GoodIsr, Fields
<1>2. ReplTypeOK'
  BY DEF IInv, ReplTypeOK, GoodIsr, Fields, Members, Voters
<1>3. EntriesTrue'
  BY DEF EntriesTrue, GoodIsr, Members
<1>4. LeaderLeads'
  BY <1>1 DEF IInv, LeaderLeads, GoodIsr, Members
<1> QED BY <1>2, <1>3, <1>4 DEF IInv, VotesOK, Voters

(* A replica that is added has its real offset or less; a member, when it  *)
(* is added again, has all of its log.                                     *)
LEMMA AddGood ==
    ASSUME IInv, NEW b \in Brokers, NEW n \in Offsets, n <= logEnd[b],
           b \in Members => isr[b].leo <= n
    PROVE  GoodIsr(AfterAdd(b, n))
<1>1. isr \in [Members -> Fields] /\ Members \subseteq Brokers /\ Leader \in Members /\ hw \in Nat
  BY ConstantFacts DEF IInv, ReplTypeOK, LeaderLeads, Fields
<1>2. \A m \in Members : isr[m].leo \in Nat /\ isr[m].leo <= logEnd[m]
  BY <1>1, ConstantFacts DEF IInv, EntriesTrue, Fields
<1>3. n \in Nat
  BY ConstantFacts
<1>4. CASE Full
  BY <1>1, <1>2, <1>4 DEF AfterAdd, GoodIsr, Members
<1>5. CASE ~Full /\ b \in Members
  <2>1. AfterAdd(b, n) = [isr EXCEPT ![b].leo = n]
    BY <1>5 DEF AfterAdd
  <2>2. [isr EXCEPT ![b].leo = n] \in [Members -> Fields]
    BY <1>1 DEF Fields
  <2>3. \A m \in Members : AfterAdd(b, n)[m].leo = IF m = b THEN n ELSE isr[m].leo
    BY <1>1, <2>1 DEF Fields
  <2>4. DOMAIN AfterAdd(b, n) = Members
    BY <2>1, <2>2
  <2> QED BY <1>1, <1>2, <1>3, <2>1, <2>2, <2>3, <2>4 DEF GoodIsr
<1>6. CASE ~Full /\ b \notin Members
  <2>1. AfterAdd(b, n) =
            [m \in Members \cup {b} |-> IF m = b THEN Entry(n, Never, n >= hw) ELSE isr[m]]
    BY <1>6 DEF AfterAdd
  <2>2. Entry(n, Never, n >= hw) \in Fields /\ Entry(n, Never, n >= hw).leo = n
    BY ConstantFacts DEF Entry, Fields
  <2> QED BY <1>1, <1>2, <1>6, <2>1, <2>2 DEF GoodIsr
<1> QED BY <1>4, <1>5, <1>6

(* A report raises an entry to a length the log has had.                   *)
LEMMA ReportGood ==
    ASSUME IInv, NEW b \in Brokers, NEW n \in Offsets, n <= logEnd[b]
    PROVE  GoodIsr(AfterReport(b, n))
<1>1. isr \in [Members -> Fields] /\ Members \subseteq Brokers /\ Leader \in Members
  BY DEF IInv, ReplTypeOK, LeaderLeads, Fields
<1>2. \A m \in Members : isr[m].leo \in Nat /\ isr[m].leo \in Offsets /\ isr[m].leo <= logEnd[m]
  BY <1>1, ConstantFacts DEF IInv, EntriesTrue, Fields
<1>3. CASE b \in Members
  <2>1. n \in Nat /\ Max({n, isr[b].leo}) = IF n >= isr[b].leo THEN n ELSE isr[b].leo
    BY <1>2, <1>3, ConstantFacts, MaxOfTwo
  <2>2. PICK k \in Offsets : k = Max({n, isr[b].leo}) /\ isr[b].leo <= k /\ k <= logEnd[b]
    BY <1>2, <1>3, <2>1
  <2> DEFINE new == Entry(k, 0, TRUE)
  <2>3. AfterReport(b, n) = [isr EXCEPT ![b] = new]
    BY <1>3, <2>2 DEF AfterReport
  <2>4. new \in Fields /\ new.leo = k
    BY ConstantFacts DEF Entry, Fields
  <2> HIDE DEF new
  <2>5. AfterReport(b, n) \in [Members -> Fields] /\ DOMAIN AfterReport(b, n) = Members
    BY <1>1, <2>3, <2>4
  <2>6. \A m \in Members : AfterReport(b, n)[m].leo = IF m = b THEN k ELSE isr[m].leo
    <3>1. \A m \in Members : AfterReport(b, n)[m] = IF m = b THEN new ELSE isr[m]
      BY <1>1, <2>3
    <3> QED BY <2>4, <3>1
  <2>7. isr[b].leo <= k /\ k <= logEnd[b]
    BY <2>2
  <2>8. ASSUME NEW m \in Members PROVE isr[m].leo <= AfterReport(b, n)[m].leo
    <3>1. isr[m].leo \in Nat
      BY <1>2
    <3>2. CASE b = m
      BY <2>6, <2>7, <3>1, <3>2
    <3>3. CASE b # m
      BY <2>6, <3>1, <3>3
    <3> QED BY <3>2, <3>3
  <2>9. \A m \in Members : AfterReport(b, n)[m].leo <= logEnd[m]
    BY <1>2, <2>6, <2>7
  <2> QED BY <1>1, <2>5, <2>8, <2>9 DEF GoodIsr
<1>4. CASE b \notin Members
  BY <1>1, <1>4, AddGood DEF AfterReport
<1> QED BY <1>3, <1>4

LEMMA WithoutGood ==
    ASSUME IInv, NEW gone, Leader \notin gone
    PROVE  GoodIsr(Without(gone))
<1>1. isr \in [Members -> Fields] /\ Members \subseteq Brokers /\ Leader \in Members
  BY DEF IInv, ReplTypeOK, LeaderLeads, Fields
<1>2. \A m \in Members : isr[m].leo \in Nat
  BY <1>1, ConstantFacts DEF Fields
<1> QED BY <1>1, <1>2 DEF Without, GoodIsr, IInv, EntriesTrue

LEMMA TickGood ==
    ASSUME IInv, Tick
    PROVE  GoodIsr(isr')
<1>1. isr \in [Members -> Fields] /\ Members \subseteq Brokers /\ Leader \in Members
  BY DEF IInv, ReplTypeOK, LeaderLeads, Fields
<1>2. ASSUME NEW m \in Members
      PROVE  isr'[m] \in Fields /\ isr'[m].leo = isr[m].leo /\ isr[m].leo \in Nat
  <2>1. isr'[m] = [isr[m] EXCEPT !.age = IF @ \in 0 .. MaxLag THEN @ + 1 ELSE @]
    BY <1>2 DEF Tick
  <2>2. isr[m] \in Fields
    BY <1>1, <1>2
  <2> QED BY <2>1, <2>2, ConstantFacts DEF Fields
<1>3. DOMAIN isr' = Members /\ isr' = [m \in Members |-> isr'[m]]
  BY DEF Tick
<1> QED BY <1>1, <1>2, <1>3 DEF GoodIsr, IInv, EntriesTrue

-----------------------------------------------------------------------------
(* The smallest offset of the members is one of theirs.                    *)
LEMMA MinLeoFacts ==
    ASSUME IInv
    PROVE  /\ \E m \in Members : MinLeo = isr[m].leo
           /\ \A m \in Members : MinLeo <= isr[m].leo
           /\ MinLeo \in Offsets
<1>1. \A m \in Members : isr[m].leo \in Offsets /\ isr[m].leo \in Nat
  BY ConstantFacts DEF IInv, ReplTypeOK
<1>2. { isr[m].leo : m \in Members } \in SUBSET Nat /\ { isr[m].leo : m \in Members } # {}
  BY <1>1 DEF IInv, LeaderLeads
<1>3. /\ MinLeo \in { isr[m].leo : m \in Members }
      /\ \A n \in { isr[m].leo : m \in Members } : MinLeo <= n
  BY <1>2, MinIsMember DEF MinLeo
<1> QED BY <1>1, <1>3

LEMMA AdvanceIInv ==
    ASSUME IInv, AdvanceHw
    PROVE  IInv' /\ hw <= hw' /\ (Members # {} => MinLeo <= hw')
<1>1. hw \in Nat /\ MinLeo \in Nat /\ MinLeo \in Offsets /\ Leader \in Members
  BY MinLeoFacts, ConstantFacts DEF IInv, ReplTypeOK, LeaderLeads
<1>2. hw' = IF MinLeo > hw THEN MinLeo ELSE hw
  BY <1>1 DEF AdvanceHw, AfterAdvance
<1>3. hw' <= isr[Leader].leo
  BY <1>1, <1>2, MinLeoFacts DEF IInv, LeaderLeads
<1>4. ReplTypeOK'
  BY <1>1, <1>2 DEF AdvanceHw, IInv, ReplTypeOK, Members, Voters
<1> QED BY <1>1, <1>2, <1>3, <1>4 DEF AdvanceHw, IInv, EntriesTrue, LeaderLeads, VotesOK, Members, Voters

(* A log that grows, and a broker that crashes.                            *)
LEMMA LogStep ==
    ASSUME IInv, NEW b \in Brokers, NEW k \in Offsets, logEnd[b] <= k,
           logEnd' = [logEnd EXCEPT ![b] = k],
           UNCHANGED <<alive, isr, hw, election>>
    PROVE  IInv'
<1>1. \A m \in Brokers : logEnd[m] \in Nat /\ logEnd'[m] \in Nat /\ logEnd[m] <= logEnd'[m]
  BY ConstantFacts DEF IInv, ReplTypeOK
<1>2. \A m \in Members : isr[m].leo \in Nat /\ m \in Brokers
  BY ConstantFacts DEF IInv, ReplTypeOK
<1>3. EntriesTrue'
  BY <1>1, <1>2 DEF IInv, EntriesTrue, Members
<1>4. ReplTypeOK'
  BY DEF IInv, ReplTypeOK, Members, Voters
<1> QED BY <1>3, <1>4 DEF IInv, LeaderLeads, VotesOK, Members, Voters

LEMMA ElectIInv ==
    ASSUME IInv, Elect
    PROVE  IInv'
<1> DEFINE Good == /\ UNCHANGED <<logEnd, alive, isr, hw>>
                   /\ election'.epoch \in Nat /\ election'.candidates \subseteq Brokers
                   /\ Voters' \subseteq Electorate
                   /\ election'.votes \in [Voters' -> election'.candidates]
                   /\ election'.epoch = 0 => election'.candidates = {}
<1>1. Good
  <2>1. CASE StartElection
    BY <2>1 DEF StartElection, IInv, ReplTypeOK, Voters
  <2>2. ASSUME NEW v \in Electorate, NEW c \in Brokers, CastVote(v, c)
        PROVE  Good
    <3>1. DOMAIN election'.votes = Voters \cup {v}
      BY <2>2 DEF CastVote
    <3> QED BY <2>2, <3>1 DEF CastVote, IInv, ReplTypeOK, VotesOK, Voters
  <2> QED BY <2>1, <2>2 DEF Elect
<1>2. Members' = Members
  BY <1>1 DEF Members
<1> QED BY <1>1, <1>2, ConstantFacts DEF IInv, ReplTypeOK, EntriesTrue, LeaderLeads, VotesOK

-----------------------------------------------------------------------------
LEMMA NextIInv == IInv /\ [Next]_replVars => IInv'
<1> SUFFICES ASSUME IInv, [Next]_replVars PROVE IInv'
  OBVIOUS
<1>1. CASE Produce
  <2>1. logEnd[Leader] \in Nat /\ logEnd[Leader] < MaxOffset
    BY <1>1, ConstantFacts DEF Produce, IInv, ReplTypeOK
  <2>2. PICK k \in Offsets : k = logEnd[Leader] + 1 /\ logEnd[Leader] <= k
    BY <2>1, ReplicationAssumption DEF Offsets
  <2>3. logEnd' = [logEnd EXCEPT ![Leader] = k] /\ UNCHANGED <<alive, isr, hw, election>>
    BY <1>1, <2>2 DEF Produce
  <2> QED BY <2>2, <2>3, LogStep, ConstantFacts
<1>2. ASSUME NEW b \in Brokers \ {Leader}, CopyFromLeader(b) PROVE IInv'
  <2>1. logEnd[b] \in Nat /\ logEnd[Leader] \in Offsets /\ logEnd[b] < logEnd[Leader]
    BY <1>2, ConstantFacts DEF CopyFromLeader, IInv, ReplTypeOK
  <2>2. PICK k \in Offsets : k = logEnd[b] + 1 /\ logEnd[b] <= k
    BY <2>1, ReplicationAssumption DEF Offsets
  <2>3. logEnd' = [logEnd EXCEPT ![b] = k] /\ UNCHANGED <<alive, isr, hw, election>>
    BY <1>2, <2>2 DEF CopyFromLeader
  <2> QED BY <2>2, <2>3, LogStep
<1>3. CASE Tick
  BY <1>3, TickGood, IsrStep DEF Tick
<1>4. CASE AdvanceHw
  BY <1>4, AdvanceIInv
<1>5. CASE MaybeShrink
  BY <1>5, WithoutGood, IsrStep DEF MaybeShrink, Lagging
<1>6. CASE Elect
  BY <1>6, ElectIInv
<1>7. ASSUME NEW b \in Brokers \ {Leader}, Crash(b) PROVE IInv'
  BY <1>7 DEF Crash, IInv, ReplTypeOK, EntriesTrue, LeaderLeads, VotesOK, Members, Voters
<1>8. ASSUME NEW b \in Brokers \ {Leader}, RemoveReplica(b) PROVE IInv'
  BY <1>8, WithoutGood, IsrStep DEF RemoveReplica
<1>9. ASSUME NEW b \in Brokers, AddReplica(b) PROVE IInv'
  <2>1. logEnd[b] \in Offsets /\ logEnd[b] <= logEnd[b]
    <3>1. logEnd[b] \in Offsets
      BY DEF IInv, ReplTypeOK
    <3>2. logEnd[b] \in Nat
      BY <3>1, ConstantFacts
    <3> QED BY <3>1, <3>2
  <2>2. b \in Members => isr[b].leo <= logEnd[b]
    BY DEF IInv, EntriesTrue
  <2> QED BY <1>9, <2>1, <2>2, AddGood, IsrStep DEF AddReplica
<1>10. ASSUME NEW b \in Brokers, NEW n \in Offsets, Report(b, n) PROVE IInv'
  BY <1>10, ReportGood, IsrStep DEF Report
<1>11. CASE UNCHANGED replVars
  BY <1>11 DEF replVars, IInv, ReplTypeOK, EntriesTrue, LeaderLeads, VotesOK, Members, Voters
<1> QED BY <1>1, <1>2, <1>3, <1>4, <1>5, <1>6, <1>7, <1>8, <1>9, <1>10, <1>11
        DEF Next, Logs, Upkeep

LEMMA SpecIInv == Spec => []IInv
BY InitIInv, NextIInv, PTL DEF Spec

(* The entries, the logs and the votes have their types.                   *)
THEOREM ReplicationTypeCorrect == Spec => []ReplTypeOK
<1>1. IInv => ReplTypeOK
  BY DEF IInv
<1> QED BY <1>1, SpecIInv, PTL

(* The high watermark never passes the end of the leader's log.            *)
THEOREM HWWithinLeaderLogHolds == Spec => []HWWithinLeaderLog
<1>1. IInv => HWWithinLeaderLog
  BY DEF IInv, LeaderLeads, EntriesTrue, HWWithinLeaderLog
<1> QED BY <1>1, SpecIInv, PTL

(* What is acknowledged to a producer that waits for all is in the log of  *)
(* every member.                                                           *)
THEOREM AcksAllStoredHolds == Spec => []AcksAllStored
<1>1. IInv => AcksAllStored
  <2> SUFFICES ASSUME IInv, NEW o \in Offsets, QuorumSatisfied(o), NEW m \in Members
               PROVE  logEnd[m] > o
    BY DEF AcksAllStored
  <2>1. o \in Nat /\ isr[m].leo \in Nat /\ logEnd[m] \in Nat
    BY ConstantFacts DEF IInv, ReplTypeOK
  <2>2. isr[m].leo > o /\ isr[m].leo <= logEnd[m]
    BY DEF QuorumSatisfied, IInv, EntriesTrue
  <2> QED BY <2>1, <2>2
<1> QED BY <1>1, SpecIInv, PTL

(* A step keeps or changes the list in a good way.                         *)
LEMMA NextGood ==
    ASSUME IInv, [Next]_replVars
    PROVE  GoodIsr(isr')
<1>1. ASSUME isr' = isr PROVE GoodIsr(isr')
  <2>1. \A m \in Members : isr[m].leo \in Nat
    BY ConstantFacts DEF IInv, ReplTypeOK
  <2> QED BY <1>1, <2>1 DEF GoodIsr, IInv, ReplTypeOK, EntriesTrue, LeaderLeads, Members, Fields
<1>2. CASE Tick
  BY <1>2, TickGood
<1>3. CASE MaybeShrink
  BY <1>3, WithoutGood DEF MaybeShrink, Lagging
<1>4. ASSUME NEW b \in Brokers \ {Leader}, RemoveReplica(b) PROVE GoodIsr(isr')
  BY <1>4, WithoutGood DEF RemoveReplica
<1>5. ASSUME NEW b \in Brokers, AddReplica(b) PROVE GoodIsr(isr')
  <2>1. logEnd[b] \in Offsets
    BY DEF IInv, ReplTypeOK
  <2>2. logEnd[b] <= logEnd[b]
    <3>1. logEnd[b] \in Nat
      BY <2>1, ConstantFacts
    <3> QED BY <3>1
  <2>3. b \in Members => isr[b].leo <= logEnd[b]
    BY DEF IInv, EntriesTrue
  <2> QED BY <1>5, <2>1, <2>2, <2>3, AddGood DEF AddReplica
<1>6. ASSUME NEW b \in Brokers, NEW n \in Offsets, Report(b, n) PROVE GoodIsr(isr')
  BY <1>6, ReportGood DEF Report
<1>7. CASE AdvanceHw \/ Elect \/ Logs \/ UNCHANGED replVars
  BY <1>1, <1>7 DEF AdvanceHw, Elect, StartElection, CastVote, Logs, Produce, CopyFromLeader, replVars
<1>8. ASSUME NEW b \in Brokers \ {Leader}, Crash(b) PROVE GoodIsr(isr')
  BY <1>1, <1>8 DEF Crash
<1> QED BY <1>2, <1>3, <1>4, <1>5, <1>6, <1>7, <1>8 DEF Next, Upkeep

(* An acknowledged record stays replicated by every listed broker until    *)
(* one is listed that does not have it; the next advance of the high       *)
(* watermark makes it readable, and the high watermark never falls.        *)
THEOREM AckedUntilReadableHolds == Spec => AckedUntilReadable
<1> DEFINE A == /\ hw <= hw'
                /\ \A o \in Offsets : QuorumSatisfied(o) =>
                      /\ QuorumSatisfied(o)' \/ ListedWithout(o)
                      /\ AdvanceHw => o < hw'
<1>1. IInv /\ [Next]_replVars => [A]_replVars
  <2> SUFFICES ASSUME IInv, Next PROVE A
    OBVIOUS
  <2>1. hw \in Nat
    BY ConstantFacts DEF IInv, ReplTypeOK
  <2>2. hw <= hw'
    <3>1. CASE AdvanceHw
      BY <3>1, AdvanceIInv
    <3>2. CASE ~AdvanceHw
      <4>1. UNCHANGED hw
        BY <3>2 DEF Next, Logs, Upkeep, Elect, Produce, CopyFromLeader, Tick, MaybeShrink, StartElection,
                    CastVote, Crash, RemoveReplica, AddReplica, Report
      <4> QED BY <2>1, <4>1
    <3> QED BY <3>1, <3>2
  <2>3. ASSUME NEW o \in Offsets, QuorumSatisfied(o), AdvanceHw PROVE o < hw'
    <3>1. PICK m \in Members : MinLeo = isr[m].leo
      BY MinLeoFacts
    <3>2. isr[m].leo > o /\ MinLeo <= hw'
      BY <2>3, <3>1, AdvanceIInv DEF QuorumSatisfied
    <3>3. o \in Nat /\ MinLeo \in Nat /\ hw' \in Nat
      <4>1. hw' \in Offsets
        BY <2>3, AdvanceIInv DEF IInv, ReplTypeOK
      <4> QED BY <4>1, ConstantFacts, MinLeoFacts
    <3> QED BY <3>1, <3>2, <3>3
  <2>4. ASSUME NEW o \in Offsets, QuorumSatisfied(o), ~ListedWithout(o) PROVE QuorumSatisfied(o)'
    <3>1. GoodIsr(isr')
      BY NextGood
    <3>2. ASSUME NEW m \in Members' PROVE isr'[m].leo > o
      <4>1. isr'[m].leo \in Nat /\ o \in Nat
        BY <3>1, <3>2, ConstantFacts DEF GoodIsr, Members, Fields
      <4>2. CASE m \in Members
        <5>1. isr[m].leo > o /\ isr[m].leo \in Nat
          BY <2>4, <4>2, ConstantFacts DEF QuorumSatisfied, IInv, ReplTypeOK
        <5>2. isr[m].leo <= isr'[m].leo
          BY <3>1, <3>2, <4>2 DEF GoodIsr, Members
        <5> QED BY <4>1, <5>1, <5>2
      <4>3. CASE m \notin Members
        BY <2>4, <3>2, <4>1, <4>3 DEF ListedWithout
      <4> QED BY <4>2, <4>3
    <3>3. Members' # {}
      BY <3>1 DEF GoodIsr, Members
    <3> QED BY <3>2, <3>3 DEF QuorumSatisfied
  <2> QED BY <2>2, <2>3, <2>4
<1>2. AckedUntilReadable <=> [][A]_replVars
  BY DEF AckedUntilReadable
<1> QED BY <1>1, <1>2, SpecIInv, PTL DEF Spec

-----------------------------------------------------------------------------
(* Among votes of one electorate a majority leaves everybody else behind.  *)
Count(V, f, c) == Cardinality({ v \in V : f[v] = c })

LEMMA Majority ==
    ASSUME NEW V \in SUBSET Electorate, NEW f, NEW C \in SUBSET Brokers, NEW c \in C,
           2 * Count(V, f, c) > Cardinality(Electorate)
    PROVE  /\ \A d \in C : Count(V, f, d) <= Count(V, f, c)
           /\ \A e \in C \ {c} : ~(Count(V, f, c) <= Count(V, f, e))
<1> DEFINE For(d) == { v \in V : f[v] = d }
<1>1. Cardinality(Electorate) \in Nat
  BY ConstantFacts, FS_CardinalityType
<1>2. ASSUME NEW d
      PROVE  Cardinality(For(d)) \in Nat
  <2>1. For(d) \in SUBSET Electorate
    OBVIOUS
  <2> QED BY <2>1, ConstantFacts, FS_Subset, FS_CardinalityType
<1>3. ASSUME NEW d, d # c
      PROVE  Cardinality(For(d)) < Cardinality(For(c))
  <2>1. For(c) \subseteq Electorate /\ For(d) \subseteq Electorate /\ For(c) \cap For(d) = {}
    BY <1>3
  <2>2. ~(Cardinality(For(c)) + Cardinality(For(d)) > Cardinality(Electorate))
    <3> HIDE DEF For
    <3> QED BY <2>1, ConstantFacts, FS_MajoritiesIntersect
  <2>3. 2 * Cardinality(For(c)) > Cardinality(Electorate)
    BY DEF Count
  <2>4. Cardinality(For(c)) \in Nat /\ Cardinality(For(d)) \in Nat
    BY <1>2
  <2> HIDE DEF For
  <2> QED BY <1>1, <2>2, <2>3, <2>4
<1>4. \A d : Count(V, f, d) = Cardinality(For(d))
  BY DEF Count
<1> HIDE DEF For
<1> QED BY <1>2, <1>3, <1>4

LEMMA MinOfOne == ASSUME NEW c \in Nat PROVE Min({c}) = c
BY DEF Min

(* A candidate with more than half of the votes wins, and no later vote    *)
(* changes that.                                                           *)
THEOREM MajorityDecidesHolds == Spec => MajorityDecides
<1> DEFINE A == \A c \in election.candidates :
                  2 * VotesFor(c) > Cardinality(Electorate) => Winner = c /\ Winner' = c
<1>1. IInv /\ IInv' /\ [Next]_replVars => [A]_replVars
  <2> SUFFICES ASSUME IInv, IInv', Next,
                      NEW c \in election.candidates, 2 * VotesFor(c) > Cardinality(Electorate)
               PROVE  Winner = c /\ Winner' = c
    OBVIOUS
  <2>1. Voters \in SUBSET Electorate /\ election.candidates \in SUBSET Brokers /\ c \in Nat
    BY ConstantFacts DEF IInv, ReplTypeOK, VotesOK
  <2>2. Winner = c
    <3>1. \A d : VotesFor(d) = Count(Voters, election.votes, d)
      BY DEF VotesFor, Count
    <3>2. /\ \A d \in election.candidates : VotesFor(d) <= VotesFor(c)
          /\ \A e \in election.candidates \ {c} : ~(VotesFor(c) <= VotesFor(e))
      BY <2>1, <3>1, Majority
    <3>3. { e \in election.candidates :
              \A d \in election.candidates : VotesFor(d) <= VotesFor(e) } = {c}
      BY <3>2
    <3> QED BY <2>1, <3>3, MinOfOne DEF Winner
  <2>3. UNCHANGED election \/ \E v \in Electorate, d \in Brokers : CastVote(v, d)
    <3>1. ~StartElection
      BY DEF StartElection, IInv, VotesOK
    <3>2. CASE Elect
      BY <3>1, <3>2 DEF Elect
    <3>3. CASE Logs \/ Upkeep
      BY <3>3 DEF Logs, Upkeep, Produce, CopyFromLeader, Tick, AdvanceHw, MaybeShrink
    <3>4. CASE \E b \in Brokers \ {Leader} : Crash(b) \/ RemoveReplica(b)
      BY <3>4 DEF Crash, RemoveReplica
    <3>5. CASE \E b \in Brokers : AddReplica(b) \/ \E n \in Offsets : Report(b, n)
      BY <3>5 DEF AddReplica, Report
    <3> QED BY <3>2, <3>3, <3>4, <3>5 DEF Next
  <2>4. CASE UNCHANGED election
    <3>1. Voters' = Voters
      BY <2>4 DEF Voters
    <3>2. \A d : VotesFor(d)' = VotesFor(d)
      BY <2>4, <3>1 DEF VotesFor
    <3>3. { e \in election'.candidates :
              \A d \in election'.candidates : VotesFor(d)' <= VotesFor(e)' }
          = { e \in election.candidates :
                \A d \in election.candidates : VotesFor(d) <= VotesFor(e) }
      BY <2>4, <3>2
    <3>4. Winner' = Winner
      BY <3>3 DEF Winner
    <3> QED BY <2>2, <3>4
  <2>5. ASSUME NEW v \in Electorate, NEW d \in Brokers, CastVote(v, d)
        PROVE  Winner' = c
    <3> DEFINE old == { u \in Voters : election.votes[u] = c }
               new == { u \in Voters' : election'.votes[u] = c }
    <3>1. election'.candidates = election.candidates /\ Voters' = Voters \cup {v}
          /\ \A u \in Voters : election'.votes[u] = election.votes[u]
      BY <2>5 DEF CastVote, Voters, IInv, ReplTypeOK
    <3>2. Voters' \in SUBSET Electorate
      BY <2>1, <3>1
    <3>3. old \in SUBSET new /\ new \in SUBSET Electorate
      BY <3>1, <3>2
    <3>4. Cardinality(old) <= Cardinality(new) /\ Cardinality(old) \in Nat /\ Cardinality(new) \in Nat
      <4>1. IsFiniteSet(new) /\ IsFiniteSet(old)
        BY <3>3, ConstantFacts, FS_Subset
      <4> QED BY <3>3, <4>1, FS_Subset, FS_CardinalityType
    <3>5. 2 * Cardinality(old) > Cardinality(Electorate) /\ Cardinality(Electorate) \in Nat
      BY ConstantFacts, FS_CardinalityType DEF VotesFor
    <3>6. 2 * Cardinality(new) > Cardinality(Electorate)
      <4> HIDE DEF old, new
      <4> QED BY <3>4, <3>5
    <3>7. \A g : VotesFor(g)' = Count(Voters', election'.votes, g)
      BY DEF VotesFor, Count
    <3>8. 2 * Count(Voters', election'.votes, c) > Cardinality(Electorate)
      BY <3>6 DEF Count
    <3>9. /\ \A g \in election'.candidates : VotesFor(g)' <= VotesFor(c)'
          /\ \A e \in election'.candidates \ {c} : ~(VotesFor(c)' <= VotesFor(e)')
      BY <2>1, <3>1, <3>2, <3>7, <3>8, Majority
    <3>10. { e \in election'.candidates :
               \A g \in election'.candidates : VotesFor(g)' <= VotesFor(e)' } = {c}
      BY <3>1, <3>9
    <3> QED BY <2>1, <3>10, MinOfOne DEF Winner
  <2> QED BY <2>2, <2>3, <2>4, <2>5
<1>2. MajorityDecides <=> [][A]_replVars
  BY DEF MajorityDecides
<1> QED BY <1>1, <1>2, SpecIInv, PTL DEF Spec

-----------------------------------------------------------------------------
(* The partitions that group_sync shares: one topic, whose partition_count *)
(* topic_create keeps within MAX_PARTITIONS.                               *)
OneTopicFits == Len(Counts) = 1 /\ Counts[1] <= MaxPartitions

LEMMA SumOfNone == ASSUME NEW f, DOMAIN f = {} PROVE SumFunction(f) = 0
<1> DEFINE Solves(g) == g = [s \in SUBSET DOMAIN f |->
                               IF s = {} THEN 0
                               ELSE f[CHOOSE x \in s : TRUE] + g[s \ {CHOOSE x \in s : TRUE}]]
           iter == CHOOSE g : Solves(g)
<1>1. SumFunction(f) = iter[DOMAIN f]
  BY DEF SumFunction, SumFunctionOnSet, FoldFunctionOnSet, MapThenFoldSet
<1>2. SUBSET DOMAIN f = {{}}
  OBVIOUS
<1>3. Solves([s \in {{}} |-> 0])
  BY <1>2
<1>4. Solves(iter)
  <2> HIDE DEF Solves
  <2> QED BY <1>3
<1> HIDE DEF iter
<1> QED BY <1>1, <1>2, <1>4

LEMMA SumOfOne ==
    ASSUME NEW f, DOMAIN f = {1}, f[1] \in Nat
    PROVE  SumFunction(f) = f[1]
<1> DEFINE Step(g, s) == IF s = {} THEN 0
                         ELSE f[CHOOSE x \in s : TRUE] + g[s \ {CHOOSE x \in s : TRUE}]
           Solves(g) == g = [s \in SUBSET DOMAIN f |-> Step(g, s)]
           iter == CHOOSE g : Solves(g)
           h == [s \in {{}, {1}} |-> IF s = {} THEN 0 ELSE f[1]]
<1>1. SumFunction(f) = iter[DOMAIN f]
  BY DEF SumFunction, SumFunctionOnSet, FoldFunctionOnSet, MapThenFoldSet
<1>2. SUBSET DOMAIN f = {{}, {1}} /\ (CHOOSE x \in {1} : TRUE) = 1 /\ {1} \ {1} = {} /\ {1} # {}
  OBVIOUS
<1>3. h[{}] = 0 /\ h[{1}] = f[1]
  BY <1>2
<1>4. Step(h, {}) = 0 /\ Step(h, {1}) = f[1]
  <2> HIDE DEF h
  <2> QED BY <1>2, <1>3
<1>5. h = [s \in {{}, {1}} |-> Step(h, s)]
  <2>1. \A s \in {{}, {1}} : h[s] = Step(h, s)
    BY <1>3, <1>4
  <2>2. h = [s \in {{}, {1}} |-> h[s]]
    OBVIOUS
  <2> HIDE DEF h, Step
  <2> QED BY <2>1, <2>2
<1>6. Solves(h)
  <2> HIDE DEF h, Step
  <2> QED BY <1>2, <1>5
<1>7. Solves(iter)
  <2> HIDE DEF Solves, h
  <2> QED BY <1>6
<1> HIDE DEF iter
<1>8. iter[{}] = Step(iter, {}) /\ iter[{1}] = Step(iter, {1})
  <2> HIDE DEF Step
  <2> QED BY <1>2, <1>7
<1>9. iter[{}] = 0
  BY <1>8
<1>10. iter[{1}] = f[1] + iter[{}]
  BY <1>2, <1>8
<1> QED BY <1>1, <1>9, <1>10

LEMMA TotalOfOneTopic ==
    ASSUME OneTopicFits
    PROVE  /\ Total = Counts[1] /\ Total \in Nat /\ Total <= MaxPartitions
           /\ \A g \in 0 .. Total - 1 : NumberInTopic(g) = g
<1>1. Counts \in Seq(Nat) /\ Len(Counts) = 1 /\ Counts[1] \in Nat /\ DOMAIN Counts = {1}
  BY GroupAssumption DEF OneTopicFits
<1>2. Base(1) = 0
  <2> DEFINE f == [u \in 1 .. 1 - 1 |-> Counts[u]]
  <2>1. DOMAIN f = {}
    OBVIOUS
  <2>2. Base(1) = SumFunction(f)
    BY DEF Base
  <2> HIDE DEF f
  <2> QED BY <2>1, <2>2, SumOfNone
<1>3. Base(2) = Counts[1]
  <2> DEFINE f == [u \in 1 .. 2 - 1 |-> Counts[u]]
  <2>1. DOMAIN f = {1} /\ f[1] = Counts[1]
    OBVIOUS
  <2>2. Base(2) = SumFunction(f)
    BY DEF Base
  <2> HIDE DEF f
  <2> QED BY <1>1, <2>1, <2>2, SumOfOne
<1>4. Total = Counts[1]
  BY <1>1, <1>3 DEF Total
<1>5. ASSUME NEW g \in 0 .. Total - 1 PROVE NumberInTopic(g) = g
  <2> DEFINE topic == CHOOSE t \in DOMAIN Counts : Base(t) <= g /\ g < Base(t + 1)
  <2>1. Base(1) <= g /\ g < Base(1 + 1)
    BY <1>1, <1>2, <1>3, <1>4
  <2>2. topic \in {1}
    BY <1>1, <2>1
  <2>3. NumberInTopic(g) = g - Base(topic)
    BY DEF NumberInTopic
  <2> HIDE DEF topic
  <2> QED BY <1>1, <1>2, <2>2, <2>3
<1> QED BY <1>1, <1>4, <1>5 DEF OneTopicFits

LEMMA DivMod ==
    ASSUME NEW a \in Nat, NEW n \in Nat \ {0}
    PROVE  a \div n \in Nat /\ a % n \in 0 .. n - 1 /\ a = n * (a \div n) + (a % n)
OBVIOUS

LEMMA DivSmaller ==
    ASSUME NEW a \in Nat, NEW n \in Nat \ {0}
    PROVE  a \div n <= a
OBVIOUS

LEMMA NextMultiple ==
    ASSUME NEW a \in Nat, NEW n \in Nat
    PROVE  (a + 1) * n = a * n + n /\ n * (a + 1) = n * a + n /\ a * n \in Nat /\ n * a = a * n
OBVIOUS

(* A larger quotient takes n more, so a number has one quotient and one    *)
(* remainder.                                                              *)
LEMMA MultiplesApart ==
    ASSUME NEW n \in Nat \ {0}, NEW b \in Nat
    PROVE  \A a \in 0 .. b : a < b => n * a + n <= n * b
<1> DEFINE P == { k \in 0 .. b : \A a \in 0 .. k : a < k => n * a + n <= n * k }
<1>1. 0 \in P
  OBVIOUS
<1>2. ASSUME NEW k \in 1 .. b, k - 1 \in P PROVE k \in P
  <2>1. k \in Nat /\ k - 1 \in Nat /\ k \in 0 .. b
    OBVIOUS
  <2>2. n * k = n * (k - 1) + n /\ n * (k - 1) \in Nat
    <3> DEFINE j == k - 1
    <3>1. j \in Nat /\ k = j + 1
      BY <2>1
    <3> HIDE DEF j
    <3>2. n * (j + 1) = n * j + n /\ n * j \in Nat
      BY <3>1, NextMultiple
    <3> QED BY <3>1, <3>2 DEF j
  <2>3. ASSUME NEW a \in 0 .. k, a < k PROVE n * a + n <= n * k
    <3>1. CASE a = k - 1
      BY <2>2, <3>1
    <3>2. CASE a # k - 1
      <4>1. a \in 0 .. k - 1 /\ a < k - 1
        BY <2>1, <2>3, <3>2
      <4>2. n * a + n <= n * (k - 1)
        BY <1>2, <4>1
      <4>3. n * a \in Nat
        BY <2>1, NextMultiple
      <4> DEFINE x == n * a
                 y == n * (k - 1)
                 z == n * k
      <4> HIDE DEF x, y, z
      <4>4. x \in Nat /\ y \in Nat /\ z = y + n /\ x + n <= y
        BY <2>2, <4>2, <4>3 DEF x, y, z
      <4>5. x + n <= z
        BY <4>4
      <4> QED BY <4>5 DEF x, z
    <3> QED BY <3>1, <3>2
  <2> QED BY <2>1, <2>3
<1>3. b \in P
  <2>1. b \in 0 .. b
    OBVIOUS
  <2> HIDE DEF P
  <2> QED BY <1>1, <1>2, <2>1, InductionUpTo
<1> QED BY <1>3

LEMMA Quotient ==
    ASSUME NEW n \in Nat \ {0}, NEW k \in Nat, NEW m \in 0 .. n - 1
    PROVE  (n * k + m) \div n = k /\ (n * k + m) % n = m /\ n * k + m \in Nat
<1> DEFINE a == n * k + m
           q == a \div n
           r == a % n
<1>1. n * k \in Nat /\ a \in Nat
  BY NextMultiple
<1>2. q \in Nat /\ r \in 0 .. n - 1 /\ a = n * q + r /\ n * q \in Nat
  <2> HIDE DEF a
  <2> QED BY <1>1, DivMod, NextMultiple
<1>3. n * k + m = n * q + r
  BY <1>2
<1> HIDE DEF a, q, r
<1>4. ~(k < q)
  <2> SUFFICES ASSUME k < q PROVE FALSE
    OBVIOUS
  <2>1. n * k + n <= n * q
    BY <1>2, MultiplesApart
  <2> QED BY <1>1, <1>2, <1>3, <2>1
<1>5. ~(q < k)
  <2> SUFFICES ASSUME q < k PROVE FALSE
    OBVIOUS
  <2>1. n * q + n <= n * k
    BY <1>2, MultiplesApart
  <2> QED BY <1>1, <1>2, <1>3, <2>1
<1>6. q = k
  BY <1>2, <1>4, <1>5
<1>7. r = m
  BY <1>1, <1>2, <1>3, <1>6
<1> QED BY <1>1, <1>6, <1>7 DEF a, q, r

(* Shares that split the partitions 0 .. Total - 1 evenly.                 *)
EvenShares(share, n) ==
    /\ \A m \in 0 .. n - 1 : share[m] \subseteq 0 .. Total - 1
    /\ \A g \in 0 .. Total - 1 : \E m \in 0 .. n - 1 : g \in share[m]
    /\ \A m, k \in 0 .. n - 1 : m # k => share[m] \cap share[k] = {}
    /\ \A m, k \in 0 .. n - 1 : Cardinality(share[m]) <= Cardinality(share[k]) + 1

(* The two sizes of a share.                                               *)
Size(m, n) == (Total \div n) + (IF m < Total % n THEN 1 ELSE 0)

LEMMA SizesEven ==
    ASSUME OneTopicFits, NEW n \in Nat \ {0}, NEW m \in 0 .. n - 1, NEW k \in 0 .. n - 1
    PROVE  Size(m, n) \in Nat /\ Size(m, n) <= Size(k, n) + 1
<1>1. Total \div n \in Nat
  BY TotalOfOneTopic, DivMod
<1> QED BY <1>1 DEF Size

(* group_assign_range: the blocks follow each other.                       *)
LEMMA BlocksFollow ==
    ASSUME OneTopicFits, NEW n \in Nat \ {0}
    PROVE  /\ \A m \in 0 .. n : RangeStart(m, n) \in Nat
           /\ RangeStart(0, n) = 0 /\ RangeStart(n, n) = Total
           /\ \A m \in 0 .. n - 1 : RangeStart(m + 1, n) = RangeStart(m, n) + Size(m, n)
<1> DEFINE q == Total \div n
           r == Total % n
<1>1. Total \in Nat /\ q \in Nat /\ r \in 0 .. n - 1 /\ Total = n * q + r
  BY TotalOfOneTopic, DivMod
<1>2. \A m : RangeStart(m, n) = m * q + (IF m < r THEN m ELSE r)
  BY DEF RangeStart
<1>3. \A m : Size(m, n) = q + (IF m < r THEN 1 ELSE 0)
  BY DEF Size
<1> HIDE DEF q, r
<1>4. \A m \in 0 .. n : m * q \in Nat
  BY <1>1, NextMultiple
<1>5. \A m \in 0 .. n : RangeStart(m, n) \in Nat
  BY <1>1, <1>2, <1>4
<1>6. RangeStart(0, n) = 0
  <2>1. 0 * q = 0
    BY <1>1
  <2> QED BY <1>1, <1>2, <2>1
<1>7. RangeStart(n, n) = Total
  <2>1. n * q \in Nat
    BY <1>4
  <2> QED BY <1>1, <1>2, <2>1
<1>8. ASSUME NEW m \in 0 .. n - 1 PROVE RangeStart(m + 1, n) = RangeStart(m, n) + Size(m, n)
  <2>1. (m + 1) * q = m * q + q /\ m * q \in Nat
    BY <1>1, NextMultiple
  <2> DEFINE x == m * q
             y == (m + 1) * q
  <2> HIDE DEF x, y
  <2>2. y = x + q /\ x \in Nat
    BY <2>1 DEF x, y
  <2>3. RangeStart(m, n) = x + (IF m < r THEN m ELSE r)
    BY <1>2 DEF x
  <2>4. RangeStart(m + 1, n) = y + (IF m + 1 < r THEN m + 1 ELSE r)
    BY <1>2 DEF y
  <2>5. Size(m, n) = q + (IF m < r THEN 1 ELSE 0)
    BY <1>3
  <2> QED BY <1>1, <2>2, <2>3, <2>4, <2>5
<1> QED BY <1>5, <1>6, <1>7, <1>8

LEMMA RangeIsEven ==
    ASSUME OneTopicFits, NEW n \in Nat \ {0}
    PROVE  EvenShares([m \in 0 .. n - 1 |-> RangeShare(m, n)], n)
<1> DEFINE S(m) == RangeStart(m, n)
           share == [m \in 0 .. n - 1 |-> RangeShare(m, n)]
<1>1. /\ \A m \in 0 .. n : S(m) \in Nat
      /\ S(0) = 0 /\ S(n) = Total
      /\ \A m \in 0 .. n - 1 : S(m + 1) = S(m) + Size(m, n)
  BY BlocksFollow
<1>2. \A m \in 0 .. n - 1 : Size(m, n) \in Nat
  BY SizesEven
<1>3. Total \in Nat /\ Total <= MaxPartitions /\ MaxPartitions \in Nat
  BY TotalOfOneTopic, GroupAssumption
<1>t. \A m : RangeShare(m, n) = { g \in S(m) .. S(m + 1) - 1 : g - S(m) < MaxPartitions }
  BY DEF RangeShare
<1> HIDE DEF S
<1>4. \A k \in 0 .. n : \A m \in 0 .. k : S(m) <= S(k)
  <2> DEFINE P == { k \in 0 .. n : \A m \in 0 .. k : S(m) <= S(k) }
  <2>1. 0 \in P
    BY <1>1
  <2>2. ASSUME NEW k \in 1 .. n, k - 1 \in P PROVE k \in P
    <3>1. k \in 0 .. n /\ k - 1 \in 0 .. n - 1 /\ k = (k - 1) + 1 /\ k - 1 \in 0 .. n
      OBVIOUS
    <3>2. S((k - 1) + 1) = S(k - 1) + Size(k - 1, n)
      BY <1>1, <3>1
    <3>3. S(k) = S(k - 1) + Size(k - 1, n) /\ S(k) \in Nat /\ S(k - 1) \in Nat /\ Size(k - 1, n) \in Nat
      BY <1>1, <1>2, <3>1, <3>2
    <3>4. S(k - 1) <= S(k)
      BY <3>3
    <3>5. ASSUME NEW m \in 0 .. k PROVE S(m) <= S(k)
      <4>1. CASE m = k
        BY <3>3, <4>1
      <4>2. CASE m # k
        <5>1. m \in 0 .. k - 1 /\ m \in 0 .. n
          BY <4>2
        <5>2. S(m) <= S(k - 1) /\ S(m) \in Nat
          BY <1>1, <2>2, <5>1
        <5> QED BY <3>3, <3>4, <5>2
      <4> QED BY <4>1, <4>2
    <3> QED BY <3>1, <3>5
  <2> HIDE DEF P
  <2>3. \A k \in 0 .. n : k \in P
    BY <2>1, <2>2, InductionUpTo
  <2> QED BY <2>3 DEF P
<1>5. ASSUME NEW m \in 0 .. n - 1
      PROVE  /\ share[m] = S(m) .. S(m + 1) - 1
             /\ S(m) \in Nat /\ S(m + 1) \in Nat /\ S(m + 1) <= Total
  <2>1. m \in 0 .. n /\ m + 1 \in 0 .. n /\ n \in 0 .. n
    OBVIOUS
  <2>2. S(m) \in Nat /\ S(m + 1) \in Nat /\ S(m + 1) <= Total
    BY <1>1, <1>4, <2>1
  <2>3. \A g \in S(m) .. S(m + 1) - 1 : g - S(m) < MaxPartitions
    BY <1>3, <2>2
  <2> QED BY <1>t, <2>2, <2>3
<1> HIDE DEF share
<1>6. \A m \in 0 .. n - 1 : share[m] \subseteq 0 .. Total - 1
  BY <1>3, <1>5
<1>7. ASSUME NEW m \in 0 .. n - 1, NEW k \in 0 .. n - 1, m < k PROVE share[m] \cap share[k] = {}
  <2>1. m + 1 \in 0 .. k /\ k \in 0 .. n
    BY <1>7
  <2>2. S(m + 1) <= S(k)
    BY <1>4, <2>1
  <2> QED BY <1>5, <2>2, SMTT(60)
<1>8. ASSUME NEW g \in 0 .. Total - 1 PROVE \E m \in 0 .. n - 1 : g \in share[m]
  <2> DEFINE P == { k \in 0 .. n : g < S(k) => \E m \in 0 .. n - 1 : g \in share[m] }
  <2>1. 0 \in P
    BY <1>1
  <2>2. ASSUME NEW k \in 1 .. n, k - 1 \in P PROVE k \in P
    <3>1. k \in 0 .. n /\ k - 1 \in 0 .. n - 1 /\ (k - 1) + 1 = k
      OBVIOUS
    <3>2. CASE g < S(k - 1)
      BY <2>2, <3>1, <3>2
    <3>3. CASE ~(g < S(k - 1))
      <4>1. share[k - 1] = S(k - 1) .. S((k - 1) + 1) - 1 /\ S(k - 1) \in Nat /\ S((k - 1) + 1) \in Nat
        BY <1>5, <3>1
      <4>2. S((k - 1) + 1) = S(k)
        BY <3>1
      <4>3. g < S(k) => g \in share[k - 1]
        BY <3>3, <4>1, <4>2
      <4> QED BY <3>1, <4>3
    <3> QED BY <3>2, <3>3
  <2> HIDE DEF P
  <2>3. n \in P
    <3>1. n \in 0 .. n
      OBVIOUS
    <3> QED BY <2>1, <2>2, <3>1, InductionUpTo
  <2> QED BY <1>1, <1>3, <2>3 DEF P
<1>9. ASSUME NEW m \in 0 .. n - 1 PROVE Cardinality(share[m]) = Size(m, n)
  <2>1. S(m + 1) = S(m) + Size(m, n) /\ Size(m, n) \in Nat
    BY <1>1, <1>2
  <2> DEFINE a == S(m)
             b == S(m + 1) - 1
  <2>2. a \in Int /\ b \in Int /\ b - a + 1 = Size(m, n) /\ share[m] = a .. b
    BY <1>5, <2>1
  <2> HIDE DEF a, b
  <2>3. Cardinality(a .. b) = IF a > b THEN 0 ELSE b - a + 1
    BY <2>2, FS_Interval
  <2> QED BY <2>1, <2>2, <2>3
<1>10. \A m, k \in 0 .. n - 1 : m # k => share[m] \cap share[k] = {}
  <2> SUFFICES ASSUME NEW m \in 0 .. n - 1, NEW k \in 0 .. n - 1, m # k
               PROVE  share[m] \cap share[k] = {}
    OBVIOUS
  <2>1. m < k \/ k < m
    OBVIOUS
  <2> QED BY <1>7, <2>1
<1>11. \A m, k \in 0 .. n - 1 : Cardinality(share[m]) <= Cardinality(share[k]) + 1
  BY <1>9, SizesEven
<1>12. EvenShares(share, n)
  BY <1>6, <1>8, <1>10, <1>11 DEF EvenShares
<1> QED BY <1>12 DEF share

(* group_assign_round_robin: every n-th partition.                         *)
LEMMA RoundRobinIsEven ==
    ASSUME OneTopicFits, NEW n \in Nat \ {0}
    PROVE  EvenShares([m \in 0 .. n - 1 |-> RoundRobinShare(m, n)], n)
<1> DEFINE q == Total \div n
           r == Total % n
           share == [m \in 0 .. n - 1 |-> RoundRobinShare(m, n)]
<1>1. Total \in Nat /\ q \in Nat /\ r \in 0 .. n - 1 /\ Total = n * q + r /\ n * q \in Nat
  BY TotalOfOneTopic, DivMod, NextMultiple
<1>2. \A m : Size(m, n) = q + (IF m < r THEN 1 ELSE 0)
  BY DEF Size
<1>3. Total <= MaxPartitions /\ MaxPartitions \in Nat
  BY TotalOfOneTopic, GroupAssumption
<1>4. \A h \in 0 .. Total - 1 : h \in Nat /\ h \div n \in Nat /\ h % n \in 0 .. n - 1
                                /\ h = n * (h \div n) + (h % n) /\ h \div n <= h
  <2> TAKE h \in 0 .. Total - 1
  <2>1. h \in Nat
    OBVIOUS
  <2>2. h \div n \in Nat /\ h % n \in 0 .. n - 1 /\ h = n * (h \div n) + (h % n)
    BY <2>1, DivMod
  <2>3. h \div n <= h
    BY <2>1, DivSmaller
  <2> QED BY <2>1, <2>2, <2>3
<1>5. ASSUME NEW m \in 0 .. n - 1 PROVE share[m] = { h \in 0 .. Total - 1 : h % n = m }
  <2>1. \A h \in 0 .. Total - 1 : h \div n < MaxPartitions
    BY <1>1, <1>3, <1>4
  <2>2. \A h \in 0 .. Total - 1 : NumberInTopic(h) = h
    BY TotalOfOneTopic
  <2>3. share[m] = { NumberInTopic(g) : g \in { h \in 0 .. Total - 1 : h % n = m /\ h \div n < MaxPartitions } }
    BY DEF RoundRobinShare
  <2> HIDE DEF share
  <2> QED BY <2>1, <2>2, <2>3
<1> HIDE DEF q, r, share
<1>6. \A m \in 0 .. n - 1 : share[m] \subseteq 0 .. Total - 1
  BY <1>5
<1>7. \A g \in 0 .. Total - 1 : \E m \in 0 .. n - 1 : g \in share[m]
  BY <1>4, <1>5
<1>8. \A m, k \in 0 .. n - 1 : m # k => share[m] \cap share[k] = {}
  BY <1>5
<1>9. ASSUME NEW m \in 0 .. n - 1 PROVE Cardinality(share[m]) = Size(m, n)
  <2> DEFINE c == Size(m, n)
             f == [k \in 0 .. c - 1 |-> n * k + m]
  <2>1. c \in Nat /\ c = q + (IF m < r THEN 1 ELSE 0)
    BY <1>1, <1>2
  <2> HIDE DEF c
  <2>2. ASSUME NEW k \in Nat
        PROVE  (n * k + m) \div n = k /\ (n * k + m) % n = m /\ (n * k + m < Total <=> k < c)
    <3>1. (n * k + m) \div n = k /\ (n * k + m) % n = m /\ n * k \in Nat
      BY Quotient, NextMultiple
    <3>2. CASE k < q
      <4>1. n * k + n <= n * q
        BY <1>1, <3>2, MultiplesApart
      <4> QED BY <1>1, <2>1, <3>1, <3>2, <4>1
    <3>3. CASE k = q
      BY <1>1, <2>1, <3>1, <3>3
    <3>4. CASE q < k
      <4>1. n * q + n <= n * k
        BY <1>1, <3>4, MultiplesApart
      <4> QED BY <1>1, <2>1, <3>1, <3>4, <4>1
    <3> QED BY <1>1, <3>2, <3>3, <3>4
  <2>3. \A k \in 0 .. c - 1 : f[k] \in share[m]
    <3> SUFFICES ASSUME NEW k \in 0 .. c - 1 PROVE n * k + m \in share[m]
      OBVIOUS
    <3>1. n * k + m \in Nat
      BY NextMultiple
    <3>2. n * k + m < Total /\ (n * k + m) % n = m
      BY <2>1, <2>2
    <3> QED BY <1>1, <1>5, <3>1, <3>2
  <2>4. ASSUME NEW h \in share[m] PROVE \E k \in 0 .. c - 1 : f[k] = h
    <3>1. h \in 0 .. Total - 1 /\ h % n = m
      BY <1>5
    <3>2. h \div n \in Nat /\ n * (h \div n) + m = h
      BY <1>4, <3>1
    <3>3. h \div n < c
      BY <1>1, <2>2, <3>1, <3>2
    <3>4. h \div n \in 0 .. c - 1
      BY <2>1, <3>2, <3>3
    <3> QED BY <3>2, <3>4
  <2>5. \A i, k \in 0 .. c - 1 : f[i] = f[k] => i = k
    BY <2>2
  <2>6. f \in Bijection(0 .. c - 1, share[m])
    <3> f \in [0 .. c - 1 -> share[m]]
      BY <2>3
    <3> HIDE DEF f
    <3> QED BY <2>4, <2>5 DEF Bijection, Injection, Surjection, IsInjective
  <2> HIDE DEF f
  <2>7. Cardinality(0 .. c - 1) = c /\ IsFiniteSet(0 .. c - 1)
    <3> DEFINE b == c - 1
    <3>1. 0 \in Int /\ b \in Int /\ b = c - 1
      BY <2>1
    <3> HIDE DEF b
    <3>2. IsFiniteSet(0 .. b) /\ Cardinality(0 .. b) = (IF 0 > b THEN 0 ELSE b - 0 + 1)
      BY <3>1, FS_Interval
    <3>3. Cardinality(0 .. b) = c
      BY <2>1, <3>1, <3>2
    <3> QED BY <3>2, <3>3 DEF b
  <2>8. Cardinality(share[m]) = Cardinality(0 .. c - 1)
    BY <2>6, <2>7, FS_Bijection DEF ExistsBijection
  <2> QED BY <2>7, <2>8 DEF c
<1>10. \A m, k \in 0 .. n - 1 : Cardinality(share[m]) <= Cardinality(share[k]) + 1
  BY <1>9, SizesEven
<1>11. EvenShares(share, n)
  BY <1>6, <1>7, <1>8, <1>10 DEF EvenShares
<1> QED BY <1>11 DEF share

LEMMA ShareIsEven ==
    ASSUME OneTopicFits, NEW n \in Nat \ {0}
    PROVE  EvenShares([m \in 0 .. n - 1 |-> Share(m, n)], n)
<1>1. CASE strategy = "RANGE"
  <2>1. \A m : Share(m, n) = RangeShare(m, n)
    BY <1>1 DEF Share
  <2> HIDE DEF Share, RangeShare
  <2> QED BY <2>1, RangeIsEven
<1>2. CASE strategy # "RANGE"
  <2>1. \A m : Share(m, n) = RoundRobinShare(m, n)
    BY <1>2 DEF Share
  <2> HIDE DEF Share, RoundRobinShare
  <2> QED BY <2>1, RoundRobinIsEven
<1> QED BY <1>1, <1>2

-----------------------------------------------------------------------------
Member == [id : Consumers, idle : Nat, active : BOOLEAN, assigned : SUBSET Nat]

OneEntry(c) == \A i, j \in DOMAIN c : c[i].id = c[j].id => i = j
Exclusive(c) == \A i, j \in DOMAIN c : i # j => c[i].assigned \cap c[j].assigned = {}

(* When no rebalance is pending, everyone has what group_sync would give.  *)
Settled ==
    ~rebalancing => \A i \in DOMAIN members : members[i].assigned = Share(i - 1, Len(members))

GroupInv == members \in Seq(Member) /\ OneEntry(members) /\ Exclusive(members) /\ Settled

LEMMA GroupStart == GroupInit => GroupInv
<1> SUFFICES ASSUME GroupInit PROVE GroupInv
  OBVIOUS
<1>1. members = <<>>
  BY DEF GroupInit
<1>2. members \in Seq(Member) /\ DOMAIN members = {}
  BY <1>1
<1> QED BY <1>2 DEF GroupInv, OneEntry, Exclusive, Settled

(* Steps that change neither who is a member nor what anyone works on.     *)
LEMMA EntriesStay ==
    ASSUME GroupInv, members' \in Seq(Member), DOMAIN members' = DOMAIN members,
           \A i \in DOMAIN members : /\ members'[i].id = members[i].id
                                     /\ members'[i].assigned = members[i].assigned,
           strategy' = strategy, ~rebalancing' => ~rebalancing
    PROVE  GroupInv'
<1>1. members \in Seq(Member) /\ Len(members') = Len(members)
  BY DEF GroupInv
<1>2. OneEntry(members')
  BY DEF GroupInv, OneEntry
<1>3. Exclusive(members')
  BY DEF GroupInv, Exclusive
<1>4. \A m, n : Share(m, n)' = Share(m, n)
  BY DEF Share, RangeShare, RangeStart, RoundRobinShare, NumberInTopic, Total, Base
<1>5. Settled'
  <2> HIDE DEF Share
  <2> QED BY <1>1, <1>4 DEF GroupInv, Settled
<1> QED BY <1>2, <1>3, <1>5 DEF GroupInv, OneEntry, Exclusive

LEMMA PositionExists ==
    ASSUME NEW c \in Ids
    PROVE  PositionOf(c) \in DOMAIN members /\ members[PositionOf(c)].id = c
BY DEF PositionOf, Ids

(* An entry with other values of idle and active.                          *)
LEMMA EntryChanged ==
    ASSUME GroupInv, NEW p \in DOMAIN members, NEW e \in Member,
           e.id = members[p].id, e.assigned = members[p].assigned,
           members' = [members EXCEPT ![p] = e], strategy' = strategy,
           ~rebalancing' => ~rebalancing
    PROVE  GroupInv'
<1>1. members \in Seq(Member)
  BY DEF GroupInv
<1>2. members' \in Seq(Member) /\ DOMAIN members' = DOMAIN members
  BY <1>1
<1>3. \A i \in DOMAIN members : members'[i] = IF i = p THEN e ELSE members[i]
  BY <1>1
<1>4. \A i \in DOMAIN members : /\ members'[i].id = members[i].id
                                /\ members'[i].assigned = members[i].assigned
  BY <1>3
<1> QED BY <1>2, <1>4, EntriesStay

LEMMA RejoinKeeps ==
    ASSUME GroupInv, NEW c \in Consumers, Rejoin(c)
    PROVE  GroupInv'
<1> DEFINE p == PositionOf(c)
           e == [members[p] EXCEPT !.idle = 0, !.active = TRUE]
<1>1. /\ p \in DOMAIN members /\ strategy' = strategy /\ rebalancing' = rebalancing
      /\ members' = [members EXCEPT ![p].idle = 0, ![p].active = TRUE]
  BY PositionExists DEF Rejoin
<1>2. members[p] \in Member
  BY <1>1 DEF GroupInv
<1>3. members' = [members EXCEPT ![p] = e]
  BY <1>1
<1> HIDE DEF p
<1>4. e \in Member /\ e.id = members[p].id /\ e.assigned = members[p].assigned
  BY <1>2 DEF Member
<1> HIDE DEF e
<1> QED BY <1>1, <1>3, <1>4, EntryChanged

LEMMA HeartbeatKeeps ==
    ASSUME GroupInv, NEW c \in Consumers, Heartbeat(c)
    PROVE  GroupInv'
<1> DEFINE p == PositionOf(c)
<1>1. p \in DOMAIN members /\ strategy' = strategy
  BY PositionExists DEF Heartbeat
<1>2. members[p] \in Member
  BY <1>1 DEF GroupInv
<1>3. CASE members[p].idle > Timeout
  <2> DEFINE e == [members[p] EXCEPT !.idle = 0, !.active = FALSE]
  <2>1. members' = [members EXCEPT ![p].idle = 0, ![p].active = FALSE] /\ rebalancing' = TRUE
    BY <1>3 DEF Heartbeat
  <2>2. members' = [members EXCEPT ![p] = e]
    BY <1>1, <2>1
  <2> HIDE DEF p
  <2>3. e \in Member /\ e.id = members[p].id /\ e.assigned = members[p].assigned
    BY <1>2 DEF Member
  <2> HIDE DEF e
  <2> QED BY <1>1, <2>1, <2>2, <2>3, EntryChanged
<1>4. CASE ~(members[p].idle > Timeout)
  <2> DEFINE e == [members[p] EXCEPT !.idle = 0]
  <2>1. members' = [members EXCEPT ![p].idle = 0] /\ rebalancing' = rebalancing
    BY <1>4 DEF Heartbeat
  <2>2. members' = [members EXCEPT ![p] = e]
    BY <1>1, <2>1
  <2> HIDE DEF p
  <2>3. e \in Member /\ e.id = members[p].id /\ e.assigned = members[p].assigned
    BY <1>2 DEF Member
  <2> HIDE DEF e
  <2> QED BY <1>1, <2>1, <2>2, <2>3, EntryChanged
<1> QED BY <1>3, <1>4

LEMMA SecondPassesKeeps == ASSUME GroupInv, SecondPasses PROVE GroupInv'
<1> DEFINE e(i) == [members[i] EXCEPT !.idle = IF @ <= Timeout THEN @ + 1 ELSE @]
<1>1. /\ members' = [i \in DOMAIN members |-> e(i)]
      /\ strategy' = strategy /\ rebalancing' = rebalancing
  BY DEF SecondPasses
<1>2. members \in Seq(Member)
  BY DEF GroupInv
<1>3. ASSUME NEW i \in DOMAIN members
      PROVE  e(i) \in Member /\ e(i).id = members[i].id /\ e(i).assigned = members[i].assigned
  <2>1. members[i] \in Member
    BY <1>2
  <2> DEFINE x == members[i].idle
             y == IF x <= Timeout THEN x + 1 ELSE x
  <2>2. x \in Nat /\ y \in Nat
    BY <2>1 DEF Member
  <2>3. e(i) = [members[i] EXCEPT !.idle = y]
    OBVIOUS
  <2> HIDE DEF x, y, e
  <2> QED BY <2>1, <2>2, <2>3 DEF Member
<1> HIDE DEF e
<1>4. DOMAIN members = 1 .. Len(members) /\ Len(members) \in Nat
  BY <1>2
<1>5. members' \in Seq(Member) /\ DOMAIN members' = DOMAIN members
  BY <1>1, <1>3, <1>4
<1> QED BY <1>1, <1>3, <1>5, EntriesStay

LEMMA JoinKeeps ==
    ASSUME GroupInv, NEW c \in Consumers, Join(c)
    PROVE  GroupInv'
<1> DEFINE n == Len(members)
           e == NewMember(c)
<1>1. /\ members \in Seq(Member) /\ n \in Nat /\ c \notin Ids
      /\ members' = Append(members, e) /\ rebalancing'
  BY DEF Join, MayJoin, GroupInv
<1>2. e \in Member /\ e.id = c /\ e.assigned = {}
  BY DEF NewMember, Member
<1> HIDE DEF e
<1>3. /\ members' \in Seq(Member) /\ DOMAIN members = 1 .. n /\ DOMAIN members' = 1 .. n + 1
      /\ members'[n + 1] = e /\ \A i \in 1 .. n : members'[i] = members[i]
  BY <1>1, <1>2
<1> HIDE DEF n
<1>4. \A i \in 1 .. n + 1 : i \in 1 .. n \/ i = n + 1
  BY <1>1
<1>5. \A i \in 1 .. n : members[i].id # c
  BY <1>1, <1>3 DEF Ids
<1>6. OneEntry(members')
  BY <1>2, <1>3, <1>4, <1>5 DEF GroupInv, OneEntry
<1>7. Exclusive(members')
  BY <1>2, <1>3, <1>4 DEF GroupInv, Exclusive
<1>8. Settled'
  BY <1>1 DEF Settled
<1> QED BY <1>3, <1>6, <1>7, <1>8 DEF GroupInv, OneEntry, Exclusive

LEMMA LeaveKeeps ==
    ASSUME GroupInv, NEW c \in Consumers, Leave(c)
    PROVE  GroupInv'
<1> DEFINE n == Len(members)
           p == PositionOf(c)
           left == SubSeq(members, 1, p - 1)
           right == SubSeq(members, p + 1, n)
           old(i) == IF i < p THEN i ELSE i + 1
<1>1. /\ members \in Seq(Member) /\ n \in Nat /\ DOMAIN members = 1 .. n /\ p \in 1 .. n
      /\ members' = left \o right /\ rebalancing'
  BY PositionExists DEF Leave, RemoveAt, GroupInv
<1>l. Len(members) = n
  OBVIOUS
<1> HIDE DEF p, n
<1>2. left \in Seq(Member) /\ Len(left) = p - 1 /\ \A i \in 1 .. p - 1 : left[i] = members[i]
  BY <1>1, <1>l
<1>3. right \in Seq(Member) /\ Len(right) = n - p /\ \A i \in 1 .. n - p : right[i] = members[p + i]
  <2>1. SubSeq(members, p + 1, n) \in Seq(Member)
    BY <1>1, <1>l
  <2>2. Len(SubSeq(members, p + 1, n)) = n - p
    <3>1. CASE p = n
      <4>1. SubSeq(members, p + 1, n) = <<>>
        BY <1>1, <3>1
      <4> QED BY <1>1, <3>1, <4>1, <1>l
    <3>2. CASE p # n
      <4>1. p + 1 \in 1 .. n /\ n - (p + 1) + 1 = n - p
        BY <1>1, <3>2
      <4>2. Len(SubSeq(members, p + 1, n)) = n - (p + 1) + 1
        BY <1>1, <1>l, <4>1
      <4> QED BY <4>1, <4>2
    <3> QED BY <3>1, <3>2
  <2>3. ASSUME NEW i \in 1 .. n - p PROVE SubSeq(members, p + 1, n)[i] = members[p + i]
    <3>1. SubSeq(members, p + 1, n)[i] = members[(p + 1) + i - 1]
      BY <1>1, <1>l
    <3>2. (p + 1) + i - 1 = p + i
      BY <1>1
    <3> QED BY <3>1, <3>2
  <2> QED BY <2>1, <2>2, <2>3
<1> HIDE DEF left, right
<1>4. members' \in Seq(Member) /\ DOMAIN members' = 1 .. n - 1
  BY <1>1, <1>2, <1>3
<1>5. ASSUME NEW i \in 1 .. n - 1 PROVE old(i) \in 1 .. n /\ members'[i] = members[old(i)]
  <2>1. CASE i < p
    BY <1>1, <1>2, <1>3, <2>1
  <2>2. CASE ~(i < p)
    <3>1. i - (p - 1) \in 1 .. n - p /\ p + (i - (p - 1)) = i + 1
      BY <1>1, <2>2
    <3>2. members'[i] = right[i - (p - 1)]
      BY <1>1, <1>2, <1>3, <2>2, <3>1, SMTT(60)
    <3> QED BY <1>1, <1>3, <2>2, <3>1, <3>2
  <2> QED BY <2>1, <2>2
<1>6. \A i, j \in 1 .. n - 1 : old(i) = old(j) => i = j
  BY <1>1
<1> HIDE DEF old
<1>7. OneEntry(members')
  <2> SUFFICES ASSUME NEW i \in 1 .. n - 1, NEW j \in 1 .. n - 1, members'[i].id = members'[j].id
               PROVE  i = j
    BY <1>4 DEF OneEntry
  <2>1. old(i) \in DOMAIN members /\ old(j) \in DOMAIN members /\ members[old(i)].id = members[old(j)].id
    BY <1>1, <1>5
  <2>2. old(i) = old(j)
    BY <2>1 DEF GroupInv, OneEntry
  <2> QED BY <1>6, <2>2
<1>8. Exclusive(members')
  <2> SUFFICES ASSUME NEW i \in 1 .. n - 1, NEW j \in 1 .. n - 1, i # j
               PROVE  members'[i].assigned \cap members'[j].assigned = {}
    BY <1>4 DEF Exclusive
  <2>1. old(i) \in DOMAIN members /\ old(j) \in DOMAIN members /\ old(i) # old(j)
    BY <1>1, <1>5, <1>6
  <2>2. members[old(i)].assigned \cap members[old(j)].assigned = {}
    BY <2>1 DEF GroupInv, Exclusive
  <2> QED BY <1>5, <2>2
<1>9. Settled'
  BY <1>1 DEF Settled
<1> QED BY <1>4, <1>7, <1>8, <1>9 DEF GroupInv, OneEntry, Exclusive

LEMMA SyncKeeps == ASSUME OneTopicFits, GroupInv, Sync PROVE GroupInv'
<1> DEFINE n == Len(members)
           share == [m \in 0 .. n - 1 |-> Share(m, n)]
           e(i) == [members[i] EXCEPT !.assigned = Share(i - 1, n)]
<1>1. /\ members \in Seq(Member) /\ n \in Nat /\ DOMAIN members = 1 .. n
      /\ members' = [i \in 1 .. n |-> e(i)] /\ strategy' = strategy
  BY DEF Sync, GroupInv
<1>2. CASE n = 0
  <2>1. members' = <<>>
    BY <1>1, <1>2
  <2>2. members' \in Seq(Member) /\ DOMAIN members' = {}
    BY <2>1
  <2> QED BY <2>2 DEF GroupInv, OneEntry, Exclusive, Settled
<1>3. CASE n # 0
  <2>1. EvenShares(share, n)
    <3>1. n \in Nat \ {0}
      BY <1>1, <1>3
    <3> HIDE DEF n
    <3> QED BY <3>1, ShareIsEven
  <2>2. \A i \in 1 .. n : i - 1 \in 0 .. n - 1 /\ Share(i - 1, n) = share[i - 1]
    BY <1>1
  <2> HIDE DEF n, share
  <2>3. \A i \in 1 .. n : Share(i - 1, n) \in SUBSET Nat
    <3>1. 0 .. Total - 1 \subseteq Nat
      BY TotalOfOneTopic
    <3> QED BY <2>1, <2>2, <3>1 DEF EvenShares
  <2>4. ASSUME NEW i \in 1 .. n
        PROVE  e(i) \in Member /\ e(i).id = members[i].id /\ e(i).assigned = share[i - 1]
    <3> DEFINE s == Share(i - 1, n)
    <3>1. members[i] \in Member /\ s \in SUBSET Nat /\ s = share[i - 1]
      BY <1>1, <2>2, <2>3
    <3> HIDE DEF s
    <3>2. [members[i] EXCEPT !.assigned = s] \in Member
      BY <3>1 DEF Member
    <3>3. [members[i] EXCEPT !.assigned = s].id = members[i].id /\ [members[i] EXCEPT !.assigned = s].assigned = s
      BY <3>1 DEF Member
    <3> QED BY <3>1, <3>2, <3>3 DEF s
  <2> HIDE DEF e
  <2>5. members' \in Seq(Member) /\ Len(members') = n /\ DOMAIN members' = 1 .. n
    BY <1>1, <2>4
  <2>6. \A i \in 1 .. n : members'[i].id = members[i].id /\ members'[i].assigned = share[i - 1]
    BY <1>1, <2>4
  <2>7. OneEntry(members')
    <3> SUFFICES ASSUME NEW i \in 1 .. n, NEW j \in 1 .. n, members'[i].id = members'[j].id
                 PROVE  i = j
      BY <2>5 DEF OneEntry
    <3>1. members[i].id = members[j].id /\ i \in DOMAIN members /\ j \in DOMAIN members
      BY <1>1, <2>6
    <3> QED BY <3>1 DEF GroupInv, OneEntry
  <2>8. Exclusive(members')
    <3> SUFFICES ASSUME NEW i \in 1 .. n, NEW j \in 1 .. n, i # j
                 PROVE  members'[i].assigned \cap members'[j].assigned = {}
      BY <2>5 DEF Exclusive
    <3>1. i - 1 \in 0 .. n - 1 /\ j - 1 \in 0 .. n - 1 /\ i - 1 # j - 1
      BY <1>1
    <3> QED BY <2>1, <2>6, <3>1 DEF EvenShares
  <2>9. \A m, k : Share(m, k)' = Share(m, k)
    BY <1>1 DEF Share, RangeShare, RangeStart, RoundRobinShare, NumberInTopic, Total, Base
  <2>10. Settled'
    <3> HIDE DEF Share
    <3>1. \A i \in 1 .. n : members'[i].assigned = Share(i - 1, n)
      BY <2>2, <2>6
    <3> QED BY <2>5, <2>9, <3>1 DEF Settled
  <2> QED BY <2>5, <2>7, <2>8, <2>10 DEF GroupInv, OneEntry, Exclusive
<1> QED BY <1>2, <1>3

(* Nobody works on a partition twice and nobody forgets one: for one topic *)
(* with any partition_count, any consumers and any limit on the members,   *)
(* whatever joins, leaves, heartbeats and ended sessions come in whatever  *)
(* order, the assignments of group_assign_range and                        *)
(* group_assign_round_robin are exclusive at all times, and complete and   *)
(* even when no rebalance is pending.  With more topics                    *)
(* group_assign_round_robin gives partitions of the same number away more  *)
(* than once.                                                              *)
THEOREM AssignmentsHoldHolds == ASSUME OneTopicFits PROVE GroupSpec => []AssignmentsHold
<1>1. GroupInv /\ [GroupNext]_groupVars => GroupInv'
  <2> SUFFICES ASSUME GroupInv, [GroupNext]_groupVars PROVE GroupInv'
    OBVIOUS
  <2>1. CASE Sync
    BY <2>1, SyncKeeps
  <2>2. CASE SecondPasses
    BY <2>2, SecondPassesKeeps
  <2>3. ASSUME NEW c \in Consumers, Calls(c) PROVE GroupInv'
    BY <2>3, JoinKeeps, RejoinKeeps, LeaveKeeps, HeartbeatKeeps DEF Calls
  <2>4. CASE UNCHANGED groupVars
    <3>1. members' = members /\ rebalancing' = rebalancing /\ strategy' = strategy
      BY <2>4 DEF groupVars
    <3>2. members' \in Seq(Member)
      BY <3>1 DEF GroupInv
    <3> QED BY <3>1, <3>2, EntriesStay
  <2> QED BY <2>1, <2>2, <2>3, <2>4 DEF GroupNext
<1>2. GroupInv => AssignmentsHold
  <2> SUFFICES ASSUME GroupInv PROVE AssignmentsHold
    OBVIOUS
  <2> DEFINE n == Len(members)
             share == [m \in 0 .. n - 1 |-> Share(m, n)]
  <2>1. members \in Seq(Member) /\ n \in Nat /\ DOMAIN members = 1 .. n
    BY DEF GroupInv
  <2>2. \A i, j \in DOMAIN members : i # j =>
           /\ members[i].id # members[j].id
           /\ members[i].assigned \cap members[j].assigned = {}
    BY DEF GroupInv, OneEntry, Exclusive
  <2>3. ASSUME ~rebalancing, members # <<>>
        PROVE  /\ UNION { members[i].assigned : i \in DOMAIN members } = 0 .. Total - 1
               /\ \A i, j \in DOMAIN members :
                     Cardinality(members[i].assigned) <= Cardinality(members[j].assigned) + 1
    <3>1. n # 0
      BY <2>1, <2>3
    <3>2. EvenShares(share, n)
      <4>1. n \in Nat \ {0}
        BY <2>1, <3>1
      <4> HIDE DEF n
      <4> QED BY <4>1, ShareIsEven
    <3>3. \A i \in 1 .. n : i - 1 \in 0 .. n - 1 /\ members[i].assigned = share[i - 1]
      <4> HIDE DEF Share
      <4> QED BY <2>1, <2>3 DEF GroupInv, Settled
    <3> HIDE DEF n, share
    <3>4. \A i \in 1 .. n : members[i].assigned \subseteq 0 .. Total - 1
      BY <3>2, <3>3 DEF EvenShares
    <3>5. \A g \in 0 .. Total - 1 : \E i \in 1 .. n : g \in members[i].assigned
      <4> SUFFICES ASSUME NEW g \in 0 .. Total - 1 PROVE \E i \in 1 .. n : g \in members[i].assigned
        OBVIOUS
      <4>1. PICK m \in 0 .. n - 1 : g \in share[m]
        BY <3>2 DEF EvenShares
      <4>2. m + 1 \in 1 .. n /\ (m + 1) - 1 = m
        BY <2>1
      <4>3. members[m + 1].assigned = share[m]
        BY <3>3, <4>2
      <4> QED BY <4>1, <4>2, <4>3
    <3>6. UNION { members[i].assigned : i \in DOMAIN members } = 0 .. Total - 1
      BY <2>1, <3>4, <3>5
    <3>7. ASSUME NEW i \in 1 .. n, NEW j \in 1 .. n
          PROVE  Cardinality(members[i].assigned) <= Cardinality(members[j].assigned) + 1
      BY <3>2, <3>3 DEF EvenShares
    <3> QED BY <2>1, <3>6, <3>7
  <2> QED BY <2>2, <2>3 DEF AssignmentsHold
<1> QED BY <1>1, <1>2, GroupStart, PTL DEF GroupSpec
=============================================================================
