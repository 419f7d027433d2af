----------------------------- MODULE PartitionLog -----------------------------
(***************************************************************************)
(* A partition of mini-message-stream: its log of segments                 *)
(* (src/topic_partition.c), the cleaner that deletes and compacts them     *)
(* (src/log_cleaner.c), and the committed offsets of the consumer groups   *)
(* that read it (src/offset_manager.c).                                    *)
(*                                                                         *)
(* What a record carries besides its key is abstracted to whether it is    *)
(* empty, which makes it a tombstone: its offset tells it from all others. *)
(* The store of offsets is modelled for one topic and one partition.       *)
(***************************************************************************)
EXTENDS Integers, Sequences, FiniteSets, SequencesExt, FiniteSetsExt

CONSTANTS Keys, NoKey,              \* NoKey is the empty string
          Data, Empty,              \* a value, and the empty string
          Payloads,                 \* the pairs of key and value that are appended
          MaxSegments, MaxRecords,  \* MAX_SEGMENTS, MAX_RECORDS_PER_SEG
          Policies,                 \* of "time", "size" and "compaction"
          Retention,                \* retention_ms
          MaxTotal,                 \* max_partition_bytes, in records
          DeleteRetention,          \* delete_retention_ms
          MsPerSecond,              \* ticks of now_ms in one of time(NULL)
          Consumers, Groups, GroupOf,
          MaxGroups,                \* MAX_OFFSET_GROUPS
          FetchMax,                 \* max_records of a fetch
          MaxTime, MaxAppends       \* bounds on the clock and on the history

ASSUME LogAssumption ==
    /\ NoKey \notin Keys /\ Data # Empty
    /\ Payloads \subseteq (Keys \cup {NoKey}) \X {Data, Empty}
    /\ MaxSegments \in Nat \ {0} /\ MaxRecords \in Nat \ {0} /\ FetchMax \in Nat \ {0}
    /\ Policies \subseteq {"time", "size", "compaction"}
    /\ Retention \in Nat /\ DeleteRetention \in Nat /\ MaxTotal \in Int
    /\ MsPerSecond \in Nat \ {0} /\ MaxTime \in Nat /\ MaxAppends \in Nat
    /\ MaxGroups \in Nat /\ GroupOf \in [Consumers -> Groups]

VARIABLES segs, now, policy,        \* the partition; the clock; the cleaner's policy
          known, committed,         \* the groups of the OffsetStore, their offsets
          held,                     \* what each consumer has read and not committed
          history, settled          \* all that was appended; what each group is done with
logVars == <<segs, history>>
groupVars == <<known, committed, held, settled>>
vars == <<segs, now, policy, known, committed, held, history, settled>>

(* The last segment is the active one.  A segment that was never written   *)
(* is not there, and committed_offset is 0 until it is set.                *)
Segment(base) == [base |-> base, recs |-> <<>>]
Record(o, k, v, t) == [offset |-> o, key |-> k, val |-> v, ts |-> t]
Init ==
    /\ segs = <<Segment(0)>> /\ now = MsPerSecond /\ policy \in Policies
    /\ known = {} /\ committed = [g \in Groups |-> 0]
    /\ held = [c \in Consumers |-> <<>>]
    /\ history = <<>> /\ settled = [g \in Groups |-> {}]

-----------------------------------------------------------------------------
(* topic_partition.c                                                       *)
EndOf(s) == s.base + Len(s.recs)
Active == segs[Len(segs)]
EndOffset == EndOf(Active)

Rolled(ss) ==
    IF Len(ss) >= MaxSegments THEN ss ELSE Append(ss, Segment(EndOf(ss[Len(ss)])))

(* partition_append stamps records with time(NULL), in seconds.  When the  *)
(* last segment allowed is full it refuses, whatever was deleted before.   *)
AppendRecord(k, v) ==
    LET ready == IF Len(Active.recs) >= MaxRecords THEN Rolled(segs) ELSE segs
        n     == Len(ready)
        new   == Record(EndOf(ready[n]), k, v, now \div MsPerSecond)
    IN  /\ Len(history) < MaxAppends
        /\ Len(ready[n].recs) < MaxRecords
        /\ segs' = [ready EXCEPT ![n].recs = Append(@, new)]
        /\ history' = Append(history, new)
        /\ UNCHANGED <<now, policy, groupVars>>

RollSegment ==
    /\ segs' = Rolled(segs)
    /\ UNCHANGED <<now, policy, history, groupVars>>

(* partition_read copies the offset of a record while there is room for    *)
(* it, segment by segment; it skips a segment that ends before the start.  *)
Take(taken, r, start) ==
    IF Len(taken) < FetchMax /\ r.offset >= start THEN Append(taken, r.offset) ELSE taken
TakeAll(taken, s, start) == FoldLeft(LAMBDA acc, r : Take(acc, r, start), taken, s.recs)
(* Slip: a segment is skipped unless it begins at or after the offset.     *)
ReadFromBase(taken, s, start) == IF start > s.base THEN taken ELSE TakeAll(taken, s, start)

ReadSegment(taken, s, start) == IF start >= EndOf(s) THEN taken ELSE TakeAll(taken, s, start)
Read(start) == FoldLeft(LAMBDA acc, s : ReadSegment(acc, s, start), <<>>, segs)

-----------------------------------------------------------------------------
(* log_cleaner.c.  The active segment is spared by every step of a cycle.  *)
Total(ss, i) ==
    LET left[j \in 1 .. Len(ss) + 1] ==
            IF j > Len(ss) THEN 0 ELSE Len(ss[j].recs) + left[j + 1]
    IN  left[i]
Emptied(ss, S) == [i \in DOMAIN ss |-> IF i \in S THEN [ss[i] EXCEPT !.recs = <<>>] ELSE ss[i]]

MaxTs(s) == IF s.recs = <<>> THEN 0 ELSE Max({ s.recs[j].ts : j \in DOMAIN s.recs })
(* Slip: the active segment goes too.                                      *)
ExpiredAny(ss) ==
    { i \in 1 .. Len(ss) : MaxTs(ss[i]) > 0 /\ now - MaxTs(ss[i]) > Retention }

Expired(ss) ==
    { i \in 1 .. Len(ss) - 1 : MaxTs(ss[i]) > 0 /\ now - MaxTs(ss[i]) > Retention }

(* What is left when the loop comes to a segment is that segment and those *)
(* after it.                                                               *)
Oversize(ss) == { i \in 1 .. Len(ss) - 1 : MaxTotal > 0 /\ Total(ss, i) > MaxTotal }

RecordsOf(ss) == UNION { ToSet(ss[i].recs) : i \in DOMAIN ss }
Blank(r) == [r EXCEPT !.key = NoKey, !.val = Empty]
Blanked(ss, B) ==           \* the records of B, outside the active segment
    [i \in DOMAIN ss |-> IF i = Len(ss) THEN ss[i]
        ELSE [ss[i] EXCEPT !.recs =
                [j \in DOMAIN ss[i].recs |-> IF ss[i].recs[j] \in B THEN Blank(ss[i].recs[j])
                                             ELSE ss[i].recs[j]]]]

(* The compaction map has a place for each record of a partition, so that  *)
(* it never fills up.                                                      *)
Latest(ss, r) ==
    \A q \in RecordsOf(ss) : q.key = r.key => q.offset <= r.offset
Superseded(ss) == { r \in RecordsOf(ss) : r.key # NoKey /\ ~Latest(ss, r) }
Compacted(ss) == Blanked(ss, Superseded(ss))

OldTombstones(ss) ==
    { r \in RecordsOf(ss) :
        r.val = Empty /\ r.key # NoKey /\ now - r.ts > DeleteRetention }
WithoutTombstones(ss) == Blanked(ss, OldTombstones(ss))

(* Slip: tombstones go first, and without them the map finds older values. *)
CleanedTombstonesFirst ==
    IF policy = "compaction" THEN Compacted(WithoutTombstones(segs))
    ELSE WithoutTombstones(Emptied(segs, Expired(segs)))

Cleaned ==
    LET timely == Emptied(segs, Expired(segs))
        kept   == CASE policy = "time" -> timely
                    [] policy = "size" -> Emptied(timely, Oversize(timely))
                    [] policy = "compaction" -> Compacted(segs)
    IN  WithoutTombstones(kept)

RunCycle ==
    /\ segs' = Cleaned
    /\ UNCHANGED <<now, policy, history, groupVars>>

-----------------------------------------------------------------------------
(* offset_manager.c.  Looking up a group creates it while there is room;   *)
(* without room a commit fails and a fetch answers -1.                     *)
Found(g) == g \in known \/ Cardinality(known) < MaxGroups
Fetched(g) == IF Found(g) THEN committed[g] ELSE -1
Save(g, o) ==
    /\ Found(g) /\ known' = known \cup {g}
    /\ committed' = [committed EXCEPT ![g] = o]
ResetToEarliest(g) ==
    /\ Save(g, 0)
    /\ UNCHANGED <<segs, now, policy, history, held, settled>>
(* The records a reset passes over are given up on purpose.                *)
ResetToLatest(g) ==
    /\ Save(g, EndOffset)
    /\ settled' = [settled EXCEPT ![g] = @ \cup 0 .. EndOffset - 1]
    /\ UNCHANGED <<segs, now, policy, history, held>>

(* A consumer reads on from the offset of its group, and later commits the *)
(* offset after the last record it has read.  Meanwhile another one of the *)
(* group may do the same, or the consumer may stop and forget what it has  *)
(* read.  This is the loop of examples/consumer_demo.c.                    *)
Poll(c) ==
    LET g == GroupOf[c]
    IN  /\ held[c] = <<>> /\ Read(Fetched(g)) # <<>>
        /\ held' = [held EXCEPT ![c] = Read(Fetched(g))]
        /\ known' = IF Found(g) THEN known \cup {g} ELSE known
        /\ UNCHANGED <<segs, now, policy, history, committed, settled>>
Commit(c) ==
    LET g == GroupOf[c]
    IN  /\ held[c] # <<>>
        /\ IF Found(g) THEN Save(g, Last(held[c]) + 1) ELSE UNCHANGED <<known, committed>>
        /\ held' = [held EXCEPT ![c] = <<>>]
        /\ settled' = [settled EXCEPT ![g] = @ \cup ToSet(held[c])]
        /\ UNCHANGED <<segs, now, policy, history>>
Forget(c) ==
    /\ held[c] # <<>> /\ held' = [held EXCEPT ![c] = <<>>]
    /\ UNCHANGED <<segs, now, policy, history, known, committed, settled>>

Tick == now < MaxTime /\ now' = now + 1 /\ UNCHANGED <<policy, logVars, groupVars>>

Next ==
    \/ \E p \in Payloads : AppendRecord(p[1], p[2])
    \/ RollSegment \/ RunCycle \/ Tick
    \/ \E g \in Groups : ResetToEarliest(g) \/ ResetToLatest(g)
    \/ \E c \in Consumers : Poll(c) \/ Commit(c) \/ Forget(c)
Spec == Init /\ [][Next]_vars

-----------------------------------------------------------------------------

(* An offset that partition_append handed out is not handed out again,     *)
(* whatever is rolled and cleaned, and names for ever the record it was    *)
(* given, until that is blanked or deleted.                                *)
OffsetsNameRecords ==
    /\ EndOffset = Len(history)
    /\ \A i \in DOMAIN segs : \A j \in DOMAIN segs[i].recs :
          LET r == segs[i].recs[j]
          IN  /\ r.offset = segs[i].base + j - 1 /\ r.offset < Len(history)
              /\ r \in {history[r.offset + 1], Blank(history[r.offset + 1])}

(* The state that a consumer of a compacted log rebuilds: for each key the *)
(* last record, unless that is a tombstone.                                *)
Table(S) ==
    { r \in S : r.key # NoKey /\ r.val # Empty
                 /\ \A q \in S : q.key = r.key => q.offset <= r.offset }

(* The cleaner never takes what a reader still needs.  Compaction keeps    *)
(* the last value of each key, and brings no deleted key back when it drops *)
(* the tombstone.  Of a log that is not compacted, a reader that sees some *)
(* record sees all later ones.  A cycle by size leaves a log within its    *)
(* limit, or nothing but the active segment; and with the last segment     *)
(* that it deletes for its size the log would be over the limit.           *)
CleaningIsSound ==
    /\ policy = "compaction" => Table(RecordsOf(segs)) = Table(ToSet(history))
    /\ policy # "compaction" =>
          \A r \in RecordsOf(segs) : \A o \in r.offset .. EndOffset - 1 :
              \E q \in RecordsOf(segs) : q.offset = o
    /\ policy = "size" /\ MaxTotal > 0 =>
          LET left == Total(Cleaned, 1)
              gone == { i \in DOMAIN segs : segs[i].recs # <<>> /\ Cleaned[i].recs = <<>> }
          IN  /\ \/ left <= MaxTotal
                 \/ \A i \in 1 .. Len(segs) - 1 : Cleaned[i].recs = <<>>
              /\ gone \subseteq Expired(segs) \/ left + Len(segs[Max(gone)].recs) > MaxTotal

(* Consumers of a group commit late and in any order, stop, and start      *)
(* again: below the offset of the group there is no record left in the log *)
(* that nobody of the group has worked on or given up.                     *)
NothingSkipped ==
    \A g \in Groups : \A r \in RecordsOf(segs) :
        r.offset < committed[g] => r.offset \in settled[g]
=============================================================================
