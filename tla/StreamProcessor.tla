-------------------------- MODULE StreamProcessor --------------------------
(***************************************************************************)
(* The windows of mini-message-stream (stream_processor.c).  A window has  *)
(* its bounds, the events put into it, each a time and a value, and        *)
(* whether the watermark closed it.  Values are numbers of halves: their   *)
(* conversion to an integer loses one.  Keys are left out: they do not     *)
(* decide where an event goes.                                             *)
(***************************************************************************)
EXTENDS Handle, Integers, Sequences, FiniteSets, SequencesExt

CONSTANTS SpConfigs,     \* [type, size, hop, gap, grace, max] of WindowConfig
          SpWindows,     \* 8, the windows there is room for
          SpTimes, SpVals,
          SpPushes       \* bound on events pushed

Ok(c) == /\ c.type # "session" => c.size >= 1
         /\ c.max >= 1
         /\ c.type = "hopping" => c.hop >= 1 /\ c.hop <= c.size
         /\ c.type = "session" => c.gap >= 1

NewProcessor(c) == [kind |-> "stream", config |-> c, windows |-> <<>>, watermark |-> 0,
                    total |-> 0, late |-> 0, taken |-> {}, refused |-> {}]
NotBelow0(t) == IF t < 0 THEN 0 ELSE t

\* Slip: one hop too early.
StartOfEarly(c, t) ==
  CASE c.type = "tumbling" -> (t \div c.size) * c.size
    [] c.type = "hopping"  -> NotBelow0((t \div c.hop) * c.hop - c.size)
    [] c.type = "sliding"  -> NotBelow0(t - c.size)
    [] c.type = "session"  -> t

StartOf(c, t) ==
  CASE c.type = "tumbling" -> (t \div c.size) * c.size
    [] c.type = "hopping"  -> NotBelow0((t \div c.hop) * c.hop - c.size + c.hop)
    [] c.type = "sliding"  -> NotBelow0(t - c.size)
    [] c.type = "session"  -> t

\* "final": what a window had when it was closed.
Opened(c, t) == [start |-> StartOf(c, t), events |-> <<>>, closed |-> FALSE, final |-> <<>>,
                 end |-> IF c.type = "session" THEN t ELSE StartOf(c, t) + c.size]
OpenWindows(s) == {i \in DOMAIN s.windows : ~s.windows[i].closed}

\* A session goes on in the last open window that did not end a gap before t,
\* however long before it the event happened.
SessionsFor(s, t) ==
  {i \in OpenWindows(s) : s.config.type = "session" /\ t - s.windows[i].end <= s.config.gap}
Extended(s, t) ==
  LET i == CHOOSE x \in SessionsFor(s, t) : \A y \in SessionsFor(s, t) : y <= x
  IN  <<[s EXCEPT !.windows[i].end = IF t > @ THEN t ELSE @], i>>

\* The processor with a window for time t, and the number of that window, 0 for
\* none: windows that were closed keep their place.
FindOrCreate(s, t) ==
  LET at == {i \in OpenWindows(s) : s.windows[i].start = StartOf(s.config, t)}
      n  == Len(s.windows) + 1
  IN  IF SessionsFor(s, t) # {} THEN Extended(s, t)
      ELSE IF at # {} THEN <<s, CHOOSE i \in at : \A j \in at : i <= j>>
      ELSE IF n > SpWindows THEN <<s, 0>>
      ELSE <<[s EXCEPT !.windows = Append(@, Opened(s.config, t))], n>>

TooLate(s, t) == s.watermark - t > s.config.grace
EventPushed(s, t, v) ==
  LET r == FindOrCreate(s, t)
      i == r[2]
  IN  IF TooLate(s, t) THEN s
      ELSE IF i = 0 THEN [s EXCEPT !.refused = @ \cup {t}]
      ELSE IF Len(r[1].windows[i].events) >= s.config.max
           THEN [r[1] EXCEPT !.refused = @ \cup {t}]
      ELSE [r[1] EXCEPT !.windows[i].events = Append(@, <<t, v>>),
                        !.taken = @ \cup {<<s.total + 1, t>>}]

\* "taken" is the number and the time of every event that went into a window, "refused"
\* the times of those that were not too late and did not.
Push(t, v) ==
  /\ handle.total < SpPushes
  /\ handle' = [EventPushed(handle, t, v) EXCEPT
                  !.total = @ + 1, !.late = IF t < handle.watermark THEN @ + 1 ELSE @]

PushBatch(ts, v) ==
  /\ handle.total + Len(ts) <= SpPushes
  /\ handle' = FoldLeft(LAMBDA s, t : [EventPushed(s, t, v) EXCEPT !.total = @ + 1,
                           !.late = IF t < s.watermark THEN @ + 1 ELSE @], handle, ts)

AdvanceWatermark(t) == t > handle.watermark /\ handle' = [handle EXCEPT !.watermark = t]

ClosedWindow(w) == [w EXCEPT !.closed = TRUE, !.final = <<w.start, w.end, w.events>>]
CloseExpired ==
  handle' = [handle EXCEPT !.windows = [i \in DOMAIN @ |->
               IF ~@[i].closed /\ @[i].end + handle.config.grace <= handle.watermark
               THEN ClosedWindow(@[i]) ELSE @[i]]]

-----------------------------------------------------------------------------
(* Aggregates of a window's values, in the order the events came.          *)

Truncated(v)  == v \div 2
Values(w)     == [i \in DOMAIN w.events |-> w.events[i][2]]
AggSum(s)     == FoldLeft(LAMBDA acc, v : acc + v, 0, s)
AggMin(s)     == FoldLeft(LAMBDA acc, v : IF Truncated(v) < acc THEN Truncated(v) ELSE acc,
                          Truncated(s[1]), s)
AggMax(s)     == FoldLeft(LAMBDA acc, v : IF Truncated(v) > acc THEN Truncated(v) ELSE acc,
                          Truncated(s[1]), s)
Descending(s) == SortSeq(s, LAMBDA a, b : a > b)
TopK(s, k)    == SubSeq(Descending(s), 1, IF k > Len(s) THEN Len(s) ELSE k)
DistinctCount(s) ==
  1 + Cardinality({i \in 2..Len(s) : Descending(s)[i] # Descending(s)[i - 1]})
Percentile(s, p) == Descending(s)[1 + ((100 - p) * (Len(s) - 1)) \div 100]
WatermarkLag(s) ==
  NotBelow0(FoldLeft(LAMBDA acc, w : FoldLeft(LAMBDA a, e : IF e[1] > a THEN e[1] ELSE a,
                                             acc, w.events), 0, s.windows) - s.watermark)

-----------------------------------------------------------------------------
StreamInit == \E c \in SpConfigs : Ok(c) /\ handle = NewProcessor(c)

StreamNext == /\ Holding("stream")
              /\ \/ \E t \in SpTimes, v \in SpVals : Push(t, v)
                 \/ \E t, u \in SpTimes, v \in SpVals : PushBatch(<<t, u>>, v)
                 \/ \E t \in SpTimes : AdvanceWatermark(t)
                 \/ CloseExpired

HoldsTime(w, t) == w.start <= t /\ t < w.end

\* Tumbling and hopping windows hold the times of all their events, and even if
\* events come late and windows are closed meanwhile, no stretch of time is opened
\* twice; a tumbling window holds every event of its time that was taken, and a sliding
\* one that does not start at 0 only events of the time it ends at.  In a session an
\* event comes no more than a gap after the latest before it; it may come any time before
\* the start, for which only the end is looked at.  Sessions that are open lie more than
\* a gap apart.  No event is counted in two windows, and a closed window stays as it was
\* closed.  An event that is not too late is refused only when a window of its time is
\* full or, as long as closed windows keep their places, there is none and all are taken.
\* The watermark lags behind exactly when a taken event is later.
FullFor(w, t) == /\ handle.config.type = "session" \/ (w.start <= t /\ t <= w.end)
                 /\ Len(w.events) = handle.config.max
WindowsPartitionEvents ==
  Holding("stream") =>
    LET ws == handle.windows
        type == handle.config.type
        n(t) == Cardinality({e \in handle.taken : e[2] = t})
        in(i, t) == Cardinality({j \in DOMAIN ws[i].events : ws[i].events[j][1] = t})
    IN  /\ type \in {"tumbling", "hopping"} =>
             /\ \A w \in ToSet(ws) : \A e \in ToSet(w.events) : HoldsTime(w, e[1])
             /\ \A i, j \in DOMAIN ws : ws[i].start = ws[j].start => i = j
        /\ type = "tumbling" =>
             \A i \in DOMAIN ws, t \in SpTimes : HoldsTime(ws[i], t) => in(i, t) = n(t)
        /\ type = "sliding" =>
             \A w \in ToSet(ws) : \A e \in ToSet(w.events) :
               e[1] = w.end \/ (w.start = 0 /\ e[1] < w.end)
        /\ type = "session" =>
             /\ \A w \in ToSet(ws) : \A i \in DOMAIN w.events :
                  /\ w.events[i][1] <= w.end
                  /\ i > 1 => \E j \in 1..(i - 1) : w.events[i][1] <= w.events[j][1] + handle.config.gap
             /\ \A i, j \in OpenWindows(handle) :
                  i < j => ws[j].start > ws[i].end + handle.config.gap
        /\ Cardinality(handle.taken) =
             FoldLeft(LAMBDA acc, w : acc + Len(w.events), 0, ws)
        /\ \A w \in ToSet(ws) : w.closed => w.final = <<w.start, w.end, w.events>>
        /\ \A t \in handle.refused :
             \/ \E w \in ToSet(ws) : FullFor(w, t)
             \/ Len(ws) = SpWindows
                /\ (type = "tumbling" => \A w \in ToSet(ws) : ~HoldsTime(w, t))
        /\ WatermarkLag(handle) = 0 <=> \A e \in handle.taken : e[2] <= handle.watermark

\* The aggregates of a window are those of its values as a bag: the sum and the
\* extremes, the largest values, the number of different ones and the value that a
\* given share of the others does not exceed.
AggregatesAreRight ==
  Holding("stream") =>
    \A w \in ToSet(handle.windows) : w.events # <<>> =>
      LET s    == Values(w)
          vals == ToSet(s)
          no(P(_)) == Cardinality({i \in DOMAIN s : P(s[i])})
      IN  /\ AggSum(s) = FoldSet(LAMBDA v, acc : acc + v * no(LAMBDA u : u = v), 0, vals)
          /\ AggMin(s) = Truncated(CHOOSE v \in vals : \A u \in vals : v <= u)
          /\ AggMax(s) = Truncated(CHOOSE v \in vals : \A u \in vals : u <= v)
          /\ DistinctCount(s) = Cardinality(vals)
          /\ \A k \in 1..3 : \A v \in vals :
               v > TopK(s, k)[Len(TopK(s, k))] => no(LAMBDA u : u >= v) < k
          /\ \A p \in {0, 50, 90, 100} :
               LET r == Percentile(s, p)
               IN  /\ r \in vals
                   /\ 100 * (no(LAMBDA u : u <= r) - 1) >= p * (Len(s) - 1)
                   /\ 100 * no(LAMBDA u : u > r) <= (100 - p) * (Len(s) - 1)

-----------------------------------------------------------------------------
(* The brokers (broker.c, kind "brokers") and the producer                  *)
(* (producer_client.c, kind "producer").  Topics are shared by all brokers  *)
(* they are registered at; two may have the same name.  A partition has its *)
(* leader and the values appended to it; how a log is laid out is the       *)
(* matter of PartitionLog.  What a producer flushes is printed and gone.    *)

CONSTANTS BrokerIds, Controllers,   \* who answers; who may write anywhere
          BrokerTopics,             \* a sequence of [name, count]
          MaxTopics, MaxManaged,    \* MAX_BROKER_TOPICS, MAX_BROKER_PARTITIONS
          PartitionRoom,            \* records a partition takes
          BrokerSteps,              \* bound on calls
          BatchMax                  \* MAX_BATCH_SIZE

NoLeader == 0
NewBrokers ==
  [kind |-> "brokers", steps |-> 0, acked |-> {},
   topics  |-> [t \in DOMAIN BrokerTopics |-> [p \in 1..BrokerTopics[t].count |->
                                                 [leader |-> NoLeader, log |-> <<>>]]],
   brokers |-> [b \in BrokerIds |-> [topics |-> <<>>, managed |-> <<>>]]]

NameOf(t) == BrokerTopics[t].name

Managing(s, b, t, p) ==
  IF Len(s.brokers[b].managed) >= MaxManaged THEN s
  ELSE [s EXCEPT !.topics[t][p].leader = b, !.brokers[b].managed = Append(@, <<t, p>>)]

Registered(s, b, t) ==
  IF Len(s.brokers[b].topics) >= MaxTopics THEN s
  ELSE FoldLeft(LAMBDA r, p : Managing(r, b, t, p),
                [s EXCEPT !.brokers[b].topics = Append(@, t)],
                [p \in 1..BrokerTopics[t].count |-> p])

\* The first topic of that name that was registered at b, 0 if there is none.
TopicAt(s, b, name) ==
  LET named == SelectSeq(s.brokers[b].topics, LAMBDA t : NameOf(t) = name)
  IN  IF named = <<>> THEN 0 ELSE Head(named)

MayWrite(s, b, t, p) == s.topics[t][p].leader = b \/ b \in Controllers

\* The partition at which b appends, <<>> if it refuses.
Accepts(s, b, name, p) ==
  LET t == TopicAt(s, b, name)
  IN  IF t = 0 THEN <<>>
      ELSE IF p \in DOMAIN s.topics[t] /\ MayWrite(s, b, t, p) /\ Len(s.topics[t][p].log) < PartitionRoom
           THEN <<t, p>> ELSE <<>>

Produced(s, b, name, p, v) ==
  LET at == Accepts(s, b, name, p)
  IN  IF at = <<>> THEN s
      ELSE [s EXCEPT !.topics[at[1]][at[2]].log = Append(@, v),
                     !.acked = @ \cup {[by |-> b, name |-> name, part |-> p, value |-> v,
                                        offset |-> Len(s.topics[at[1]][at[2]].log)]}]

\* A fetch of at least one record, by whoever has the topic.
Fetched(s, b, name, p, offset, max) ==
  LET log == s.topics[TopicAt(s, b, name)][p].log
      n   == IF max < 1 THEN 1 ELSE max
  IN  SubSeq(log, offset + 1, IF offset + n > Len(log) THEN Len(log) ELSE offset + n)

\* The leader is that of the first partition.
Metadata(s, b, name) ==
  LET t == TopicAt(s, b, name)
  IN  IF t = 0 THEN [count |-> 0, leader |-> NoLeader]
      ELSE [count |-> BrokerTopics[t].count, leader |-> s.topics[t][1].leader]

BrokerStep(s) == handle.steps < BrokerSteps /\ handle' = [s EXCEPT !.steps = @ + 1]
RegisterTopic(b, t)      == BrokerStep(Registered(handle, b, t))
ManagePartition(b, t, p) == BrokerStep(Managing(handle, b, t, p))
\* A value is the number of the call.
Produce(b, name, p)      == BrokerStep(Produced(handle, b, name, p, handle.steps + 1))

BrokersNext ==
  /\ Holding("brokers")
  /\ \E b \in BrokerIds, t \in DOMAIN BrokerTopics :
       \/ RegisterTopic(b, t)
       \/ \E p \in 1..BrokerTopics[t].count : ManagePartition(b, t, p) \/ Produce(b, NameOf(t), p)

\* What a broker acknowledged it gives back for ever under the same name, partition
\* and offset, whatever is registered there later and whoever leads meanwhile; all
\* brokers that have the topic give the same; a partition has every record that was
\* acknowledged once and no other; and the leader that metadata names takes records
\* of the topic if it was registered there and no other of its name before.
BrokersServe ==
  Holding("brokers") =>
    LET s == handle
    IN  /\ \A r \in s.acked :
             \A c \in BrokerIds : TopicAt(s, c, r.name) = TopicAt(s, r.by, r.name) =>
               Fetched(s, c, r.name, r.part, r.offset, 0) = <<r.value>>
        /\ \A t \in DOMAIN s.topics : \A p \in DOMAIN s.topics[t] :
             /\ \A v \in ToSet(s.topics[t][p].log) :
                  Cardinality({r \in s.acked : r.value = v /\ r.name = NameOf(t) /\ r.part = p}) = 1
             /\ s.topics[t][p].leader # NoLeader =>
                  <<t, p>> \in ToSet(s.brokers[s.topics[t][p].leader].managed)
        /\ Cardinality(s.acked) =
             FoldLeft(LAMBDA n, t : FoldLeft(LAMBDA m, p : m + Len(p.log), n, t), 0, s.topics)
        /\ \A b \in BrokerIds, t \in DOMAIN s.topics :
             LET l == Metadata(s, b, NameOf(t)).leader
             IN  (TopicAt(s, b, NameOf(t)) = t /\ l # NoLeader
                    /\ TopicAt(s, l, NameOf(t)) = t /\ Len(s.topics[t][1].log) < PartitionRoom)
                   => Accepts(s, l, NameOf(t), 1) = <<t, 1>>

-----------------------------------------------------------------------------
NewProducer == [kind |-> "producer", pending |-> <<>>, flushed |-> <<>>, next_seq |-> 0]

Flushed(s) == IF s.pending = <<>> THEN s
              ELSE [s EXCEPT !.flushed = Append(@, s.pending), !.pending = <<>>]
FlushedIfFull(s) == IF Len(s.pending) >= BatchMax THEN Flushed(s) ELSE s

\* A record is the number of its send.
ProducerSend ==
  /\ handle.next_seq < BrokerSteps
  /\ LET s == FlushedIfFull(handle)
     IN  handle' = FlushedIfFull([s EXCEPT !.pending = Append(@, s.next_seq), !.next_seq = @ + 1])
ProducerFlush == handle' = Flushed(handle)

ProducerNext == Holding("producer") /\ (ProducerSend \/ ProducerFlush)

\* No record is left out, flushed twice or out of its order by a flush that comes with
\* a full batch or between two sends, and no batch is empty or over its limit.  That a
\* flush reaches a broker is not said: it prints the batch and drops it.
BatchesComplete ==
  Holding("producer") =>
    /\ FlattenSeq(handle.flushed) \o handle.pending = [i \in 1..handle.next_seq |-> i - 1]
    /\ \A b \in ToSet(handle.flushed) : Len(b) \in 1..BatchMax
    /\ Len(handle.pending) < BatchMax

BrokersInit == handle = NewBrokers \/ handle = NewProducer
=============================================================================
