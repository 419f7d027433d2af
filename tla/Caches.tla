------------------------------- MODULE Caches -------------------------------
(***************************************************************************)
(* The block cache of mini-file-storage (block_cache.c, kind "bcache") and *)
(* the caches of mini-nosql-store (nosql_cache.c): least recently used     *)
(* with times to live ("lru"), least frequently used ("lfu") and second    *)
(* chance ("clock").  "last" is the value that each key was last given,    *)
(* "used" has every key ever used, last used first.                        *)
(***************************************************************************)
EXTENDS Handle, Integers, Sequences, FiniteSets, SequencesExt

CONSTANTS BlockKeys, BlockVals, Buckets, CacheCap,  \* of the block cache
          NcKeys, NcVals,
          NcCap,        \* capacity of each cache of the nosql store
          NcTimes,      \* values of time(); 0, as a time to live, is for ever
          NcFreqs       \* bound on frequencies

ASSUME CacheAssumption ==
  /\ BlockKeys \subseteq Nat \ {0} /\ Buckets \in Nat \ {0} /\ CacheCap \in Nat \ {0}
  /\ NcCap \in Nat \ {0}

NoneYet == [k \in {} |-> 0]
Noting(f, k, v) == [x \in DOMAIN f \cup {k} |-> IF x = k THEN v ELSE f[x]]
Without(f, k) == [x \in DOMAIN f \ {k} |-> f[x]]
UsedNow(used, k) == <<k>> \o RemoveFirst(used, k)

-----------------------------------------------------------------------------
(* The block cache: a doubly linked list from the most to the least        *)
(* recently used entry, and a hash table with chains.  An entry is named   *)
(* by its key, None stands for NULL; the hash is the number of the key     *)
(* modulo the number of buckets.                                           *)

None == 0

Empty ==
  [kind |-> "bcache", head |-> None, tail |-> None, size |-> 0,
   prev |-> NoneYet, next |-> NoneYet, data |-> NoneYet,
   chain |-> [b \in 0..(Buckets - 1) |-> <<>>], used |-> <<>>, last |-> NoneYet]

Bucket(k) == k % Buckets
Found(c, k) == k \in ToSet(c.chain[Bucket(k)])

Detach(c, e) ==
  LET p == c.prev[e]
      n == c.next[e]
  IN  [c EXCEPT !.head = IF p = None THEN n ELSE @,
                !.tail = IF n = None THEN p ELSE @,
                !.next = IF p = None THEN @ ELSE [@ EXCEPT ![p] = n],
                !.prev = IF n = None THEN @ ELSE [@ EXCEPT ![n] = p]]

AttachHead(c, e) ==
  [c EXCEPT !.prev = Noting(IF c.head = None THEN @ ELSE [@ EXCEPT ![c.head] = e], e, None),
            !.next = Noting(@, e, c.head),
            !.tail = IF c.head = None THEN e ELSE @,
            !.head = e]

ToFront(c, e) == AttachHead(Detach(c, e), e)

\* Freed: out of the list and out of its chain.
Dropped(c, e) ==
  LET d == Detach(c, e)
  IN  [d EXCEPT !.chain[Bucket(e)] = RemoveFirst(@, e),
                !.prev = Without(@, e), !.next = Without(@, e),
                !.data = Without(@, e), !.size = @ - 1]

\* While there are more than n entries the last one goes.
TailDropped(c, n) == IF c.size <= n \/ c.tail = None THEN c ELSE Dropped(c, c.tail)
EvictDownTo(c, n) == Iterated(c.size, LAMBDA d : TailDropped(d, n), c)

Stored(c, k, v) ==
  IF Found(c, k) THEN ToFront([c EXCEPT !.data[k] = v], k)
  ELSE LET d == EvictDownTo(c, CacheCap - 1)
       IN  AttachHead([d EXCEPT !.data = Noting(@, k, v), !.size = @ + 1,
                                !.chain[Bucket(k)] = <<k>> \o @], k)

BlockPut(k, v) ==
  handle' = [Stored(handle, k, v) EXCEPT !.used = UsedNow(@, k), !.last = Noting(@, k, v)]

BlockGet(k) ==
  /\ Found(handle, k)
  /\ handle' = [ToFront(handle, k) EXCEPT !.used = UsedNow(@, k)]

BlockInvalidate(k) ==
  /\ Found(handle, k)
  /\ handle' = [Dropped(handle, k) EXCEPT !.used = RemoveFirst(@, k)]

\* Entries are freed along the list from its head.
BlockClear == handle' = Empty

-----------------------------------------------------------------------------
(* The caches of the nosql store.  Hash chains only find an entry by its   *)
(* key and are left out; doubly linked lists are sequences, head first.    *)

PlaceOf(s, k) == CHOOSE i \in DOMAIN s : s[i].key = k
Keyed(s, k)   == \E i \in DOMAIN s : s[i].key = k
Dropping(s, k) == IF Keyed(s, k) THEN RemoveAt(s, PlaceOf(s, k)) ELSE s

(* Least recently used.                                                    *)

NewLru == [kind |-> "lru", list |-> <<>>, now |-> 0, last |-> NoneYet, used |-> <<>>]
Expired(e, now) == e.ttl > 0 /\ e.ttl < now

\* Slip: a hit stays where it is in the list.
PromotedNot(s, k) == s

Promoted(s, k) == <<s[PlaceOf(s, k)]>> \o Dropping(s, k)

LruPut(k, v, ttl) ==
  LET h == handle
      e == [key |-> k, val |-> v, ttl |-> ttl]
      s == IF Keyed(h.list, k) THEN Promoted([h.list EXCEPT ![PlaceOf(h.list, k)] = e], k)
           ELSE IF Len(h.list) < NcCap THEN <<e>> \o h.list
           ELSE <<e>> \o SubSeq(h.list, 1, NcCap - 1)
  IN  handle' = [h EXCEPT !.list = s, !.last = Noting(@, k, v), !.used = UsedNow(@, k)]

\* What has expired is found to be so when it is asked for, and goes.
LruGet(k) ==
  LET h == handle
  IN  /\ Keyed(h.list, k)
      /\ handle' = IF Expired(h.list[PlaceOf(h.list, k)], h.now)
                   THEN [h EXCEPT !.list = Dropping(@, k)]
                   ELSE [h EXCEPT !.list = Promoted(@, k), !.used = UsedNow(@, k)]

LruDel(k) == handle' = [handle EXCEPT !.list = Dropping(@, k)]
LruCleanup ==
  handle' = [handle EXCEPT !.list =
    Those(@, {i \in DOMAIN handle.list : ~Expired(handle.list[i], handle.now)})]
LruTime(t) == t > handle.now /\ handle' = [handle EXCEPT !.now = t]

-----------------------------------------------------------------------------
(* Least frequently used: levels in ascending order of their frequency,    *)
(* each with its entries, last used first.  "uses" counts how often each   *)
(* entry was used since it came in, "ahead" notes that the lowest known    *)
(* frequency was once above that of an entry.                              *)

NewLfu == [kind |-> "lfu", levels |-> <<>>, min |-> 0, count |-> 0, last |-> NoneYet,
           uses |-> NoneYet, used |-> <<>>, ahead |-> FALSE]
LevelAt(ls, f)   == {i \in DOMAIN ls : ls[i].freq = f}
LevelOf(ls, k)   == CHOOSE i \in DOMAIN ls : Keyed(ls[i].entries, k)
InLevels(ls, k)  == \E i \in DOMAIN ls : Keyed(ls[i].entries, k)

\* The levels with the entry at the head of that of frequency f, made if missing,
\* behind all of lower ones.
Leveled(ls, f, e) ==
  IF LevelAt(ls, f) # {}
  THEN [ls EXCEPT ![CHOOSE i \in LevelAt(ls, f) : TRUE].entries = <<e>> \o @]
  ELSE InsertAt(ls, Cardinality({i \in DOMAIN ls : ls[i].freq < f}) + 1,
                [freq |-> f, entries |-> <<e>>])

\* An entry goes one level up.  The level it leaves empty is given up only if it
\* was the lowest known; others stay as empty levels.
Incremented(h, k) ==
  LET i    == LevelOf(h.levels, k)
      f    == h.levels[i].freq
      e    == h.levels[i].entries[PlaceOf(h.levels[i].entries, k)]
      left == [h.levels EXCEPT ![i].entries = Dropping(@, k)]
      gone == left[i].entries = <<>> /\ h.min = f
      up   == Leveled(left, f + 1, e)
  IN  [h EXCEPT !.levels = IF gone THEN RemoveAt(up, i) ELSE up,
                !.min = IF gone THEN f + 1 ELSE IF @ = 0 THEN 1 ELSE @,
                !.uses[k] = @ + 1, !.used = UsedNow(@, k)]

\* Room for one more: the head of the level of the lowest known frequency goes,
\* past empty levels; when there is no such level, nothing goes.
OneOut(h) ==
  LET at == LevelAt(h.levels, h.min)
      i  == CHOOSE x \in at : TRUE
      es == h.levels[i].entries
  IN  IF h.count < NcCap \/ at = {} THEN h
      ELSE IF es = <<>> THEN [h EXCEPT !.min = @ + 1]
      ELSE [h EXCEPT
             !.levels = IF Len(es) = 1 THEN RemoveAt(@, i) ELSE [@ EXCEPT ![i].entries = Tail(es)],
             !.min = IF Len(es) = 1 THEN @ + 1 ELSE @,
             !.count = @ - 1,
             !.uses = Without(@, es[1].key)]
TopFreq(ls) == IF ls = <<>> THEN 0 ELSE Last(ls).freq
Evicted(h) == Iterated(h.count + TopFreq(h.levels) + 1, OneOut, h)

LfuStep(h) ==
  handle' = [h EXCEPT !.ahead = @ \/ \E i \in DOMAIN h.levels :
                                      h.levels[i].freq < h.min /\ h.levels[i].entries # <<>>]

LfuUses(k) == InLevels(handle.levels, k) => handle.uses[k] < NcFreqs

LfuPutThere(k, v) ==
  LET h == handle
      i == LevelOf(h.levels, k)
  IN  /\ InLevels(h.levels, k) /\ LfuUses(k)
      /\ LfuStep(Incremented(
           [h EXCEPT !.levels[i].entries[PlaceOf(h.levels[i].entries, k)].val = v,
                     !.last = Noting(@, k, v)], k))

\* A new entry is used once; the lowest known frequency is not set back to one.
LfuPutNew(k, v) ==
  LET h == Evicted(handle)
  IN  /\ ~InLevels(handle.levels, k)
      /\ LfuStep([h EXCEPT !.levels = Leveled(@, 1, [key |-> k, val |-> v]),
                            !.min = IF @ = 0 THEN 1 ELSE @, !.count = @ + 1,
                            !.uses = Noting(@, k, 1), !.used = UsedNow(@, k),
                            !.last = Noting(@, k, v)])

LfuGet(k) == /\ InLevels(handle.levels, k) /\ LfuUses(k)
             /\ LfuStep(Incremented(handle, k))

-----------------------------------------------------------------------------
(* Second chance.  "evicted" notes that an entry had to go.                *)

Slots == 0..(NcCap - 1)
NewClock == [kind |-> "clock", count |-> 0, hand |-> 0, last |-> NoneYet, evicted |-> FALSE,
             slots |-> [i \in Slots |-> [valid |-> FALSE, key |-> 0, val |-> 0, ref |-> 0]]]
SlotsOf(h, k) == {i \in Slots : h.slots[i].valid /\ h.slots[i].key = k}
Filling(h, i, k, v) ==
  [h EXCEPT !.slots[i] = [valid |-> TRUE, key |-> k, val |-> v, ref |-> 1],
            !.last = Noting(@, k, v)]

\* The hand goes round, taking reference bits away, to the first slot without one.
OnePassed(h) ==
  IF ~h.slots[h.hand].valid \/ h.slots[h.hand].ref = 0 THEN h
  ELSE [h EXCEPT !.slots[h.hand].ref = 0, !.hand = (@ + 1) % NcCap]
Swept(h) == Iterated(NcCap, OnePassed, h)

ClockPutThere(k, v) == \E i \in SlotsOf(handle, k) : handle' = Filling(handle, i, k, v)

\* The first slot that is not in use, if the cache believes there is one.
ClockPutFree(k, v) ==
  LET free == {i \in Slots : ~handle.slots[i].valid}
  IN  /\ SlotsOf(handle, k) = {} /\ handle.count < NcCap
      /\ \E i \in free : /\ \A j \in free : i <= j
                         /\ handle' = Filling([handle EXCEPT !.count = @ + 1], i, k, v)

\* The evicted entry is counted out, the one in its place never counted in.
ClockPutOver(k, v) ==
  LET h == Swept(handle)
  IN  /\ SlotsOf(handle, k) = {} /\ handle.count >= NcCap
      /\ handle' = Filling([h EXCEPT !.hand = (@ + 1) % NcCap, !.count = @ - 1,
                                     !.evicted = TRUE], h.hand, k, v)

ClockGet(k) == \E i \in SlotsOf(handle, k) : handle' = [handle EXCEPT !.slots[i].ref = 1]

-----------------------------------------------------------------------------
CachesInit == handle \in {Empty, NewLru, NewLfu, NewClock}

BlockNext == /\ Holding("bcache")
             /\ \/ \E k \in BlockKeys, v \in BlockVals : BlockPut(k, v)
                \/ \E k \in BlockKeys : BlockGet(k)
                \/ \E k \in BlockKeys : BlockInvalidate(k)
                \/ BlockClear
LruNext == /\ Holding("lru")
           /\ \/ \E k \in NcKeys, v \in NcVals, t \in NcTimes : LruPut(k, v, t)
              \/ \E k \in NcKeys : LruGet(k)
              \/ \E k \in NcKeys : LruDel(k)
              \/ LruCleanup
              \/ \E t \in NcTimes : LruTime(t)
LfuNext == /\ Holding("lfu")
           /\ \/ \E k \in NcKeys, v \in NcVals : LfuPutThere(k, v)
              \/ \E k \in NcKeys, v \in NcVals : LfuPutNew(k, v)
              \/ \E k \in NcKeys : LfuGet(k)
ClockNext == /\ Holding("clock")
             /\ \/ \E k \in NcKeys, v \in NcVals : ClockPutThere(k, v)
                \/ \E k \in NcKeys, v \in NcVals : ClockPutFree(k, v)
                \/ \E k \in NcKeys, v \in NcVals : ClockPutOver(k, v)
                \/ \E k \in NcKeys : ClockGet(k)
CachesNext == BlockNext \/ LruNext \/ LfuNext \/ ClockNext

-----------------------------------------------------------------------------
\* The entry at a place of a list, and what a list is: from its head along next,
\* and from its tail along prev.
Nth(s, i) == IF i \in DOMAIN s THEN s[i] ELSE None
Linked(c, s) ==
  /\ c.head = Nth(s, 1) /\ c.tail = Nth(s, Len(s))
  /\ \A i \in DOMAIN s : c.next[s[i]] = Nth(s, i + 1) /\ c.prev[s[i]] = Nth(s, i - 1)

\* What is in the block cache are the keys used last, those invalidated apart, and
\* never one that was used before one that was evicted, each with what was last
\* put; they stand in that order along the list from either end, and the chains
\* hold exactly the entries of the list, each in its bucket and once.
CacheKeepsRecent ==
  Holding("bcache") =>
    LET list == SubSeq(handle.used, 1, handle.size)
    IN  /\ Linked(handle, list)
        /\ Len(list) = handle.size /\ handle.size <= CacheCap
        /\ DOMAIN handle.data = ToSet(list)
        /\ \A k \in ToSet(list) : handle.data[k] = handle.last[k]
        /\ \A b \in DOMAIN handle.chain :
             /\ ToSet(handle.chain[b]) = {k \in ToSet(list) : Bucket(k) = b}
             /\ IsInjective(handle.chain[b])

\* An LRU cache within its capacity has its entries in the order of their last
\* use, each with the value last put.
LruKeepsRecent ==
  Holding("lru") =>
    LET s == handle.list
    IN  /\ Len(s) <= NcCap
        /\ \A i \in DOMAIN s : s[i].val = handle.last[s[i].key]
        /\ IsInjective(handle.used)
        /\ \A i \in DOMAIN s : s[i].key \in ToSet(handle.used)
        /\ \A i, j \in DOMAIN s : i < j => Precedes(handle.used, s[i].key, s[j].key)

\* An LFU cache files every entry under the number of its uses, in ascending
\* levels and once, with the value last put, and counts its entries.  It grows
\* past its capacity only after the lowest frequency it knows went ahead of the
\* entries it holds.
LfuCountsUses ==
  Holding("lfu") =>
    LET ls == handle.levels
    IN  /\ \A i, j \in DOMAIN ls : i < j => ls[i].freq < ls[j].freq
        /\ handle.count = Cardinality(DOMAIN handle.uses)
        /\ \A k \in DOMAIN handle.uses : InLevels(ls, k)
        /\ \A i \in DOMAIN ls :
             /\ \A j \in DOMAIN ls[i].entries :
                  LET e == ls[i].entries[j]
                  IN  /\ e.key \in DOMAIN handle.uses /\ handle.uses[e.key] = ls[i].freq
                      /\ e.val = handle.last[e.key]
             /\ \A j, m \in DOMAIN ls[i].entries :
                  ls[i].entries[j].key = ls[i].entries[m].key => j = m
        /\ handle.count > NcCap => handle.ahead

\* A second-chance cache has no key twice and the value last put for each.  It
\* counts what it holds until it evicts for the first time; from then on it is
\* full, counts one too few, and so takes no new key any more.
ClockCountsSlots ==
  Holding("clock") =>
    LET valid == {i \in Slots : handle.slots[i].valid}
    IN  /\ \A k \in NcKeys : Cardinality(SlotsOf(handle, k)) <= 1
        /\ \A i \in valid : handle.slots[i].val = handle.last[handle.slots[i].key]
        /\ ~handle.evicted => handle.count = Cardinality(valid)
        /\ handle.evicted => valid = Slots /\ handle.count = NcCap - 1

(* Of the entries used least often an LFU cache that is full gives up the one that was
   used last, and no other entry, unless the lowest frequency it knows went ahead of the
   entries it holds: the victim of lfu_cache_put is the head of its level. *)
LfuGivesUpLastUsed ==
  Holding("lfu") =>
    LET gone == DOMAIN handle.uses \ DOMAIN Evicted(handle).uses
    IN  handle.count >= NcCap /\ ~handle.ahead =>
          \E k \in DOMAIN handle.uses :
             /\ gone = {k}
             /\ \A x \in DOMAIN handle.uses \ {k} :
                  \/ handle.uses[k] < handle.uses[x]
                  \/ handle.uses[k] = handle.uses[x] /\ Precedes(handle.used, k, x)

(* No cache returns what was not last put in it.  The block cache keeps what was used
   last, an LRU cache has its entries in the order of their last use, an LFU cache files
   them by the number of their uses, and a second-chance cache counts one too few after
   its first eviction: bcache_put and bcache_get of the file storage, and the puts, gets
   and evictions of the three caches of nosql_cache.c. *)
CachesKeep == CacheKeepsRecent /\ LruKeepsRecent /\ LfuCountsUses /\ ClockCountsSlots
=============================================================================
