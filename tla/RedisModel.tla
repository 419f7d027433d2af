----------------------------- MODULE RedisModel -----------------------------
(***************************************************************************)
(* The values of mini-nosql-store in the manner of Redis (redis_model.c):  *)
(* lists (kind "rlist"), two sets (kind "rsets"), hashes (kind "rhash")    *)
(* and sorted sets (kind "rzset").  Nodes are numbers; 0 stands for NULL   *)
(* and, in a sorted set, for the header.                                   *)
(***************************************************************************)
EXTENDS Handle, Integers, Sequences, FiniteSets, SequencesExt

CONSTANTS RNodes,        \* nodes that may be allocated at a time: 1..n
          RNames, RVals, \* members and fields, which are numbers, and values
          RBuckets,      \* REDIS_SET_BUCKETS
          RScores,
          RLevels        \* REDIS_ZSET_MAXLVL

Nil    == 0
Null   == [n \in RNodes |-> Nil]
Free(used) == CHOOSE n \in RNodes \ used : \A m \in RNodes \ used : n <= m

\* What is reached from node n on along next.
RECURSIVE Along(_, _)
Along(n, next) == IF n = Nil THEN <<>> ELSE <<n>> \o Along(next[n], next)

AtMost(s, max) == SubSeq(s, 1, IF Len(s) < max THEN Len(s) ELSE max)

\* LRANGE and ZRANGE: places count from 0, negative ones from the end.
Window(s, start, stop, max) ==
  LET len  == Len(s)
      from == IF start >= 0 THEN start ELSE IF len + start < 0 THEN 0 ELSE len + start
      last == IF stop < 0 THEN len + stop ELSE stop
      to   == IF last >= len THEN len - 1 ELSE last
  IN  IF from > to THEN <<>> ELSE AtMost(SubSeq(s, from + 1, to + 1), max)

\* The element at a place, LINDEX: none or one.
AtIndex(s, index) ==
  LET i == IF index < 0 THEN Len(s) + index ELSE index
  IN  IF i < 0 \/ i >= Len(s) THEN {} ELSE {s[i + 1]}

-----------------------------------------------------------------------------
(* Lists: doubly linked.  "seq" is the sequence the caller has in mind.    *)

NewRlist == [kind |-> "rlist", head |-> Nil, tail |-> Nil, next |-> Null, prev |-> Null,
             val |-> [n \in RNodes |-> Nil], length |-> 0, seq |-> <<>>]
InList(l) == ToSet(Along(l.head, l.next))
ListVals(l) == [i \in 1..l.length |-> l.val[Along(l.head, l.next)[i]]]

LPush(v) ==
  LET l == handle
      n == Free(InList(l))
  IN  /\ InList(l) # RNodes
      /\ handle' = [l EXCEPT !.val[n] = v, !.next[n] = l.head, !.head = n,
                             !.prev = [m \in RNodes |-> IF m = n THEN Nil
                                         ELSE IF m = l.head THEN n ELSE @[m]],
                             !.tail = IF @ = Nil THEN n ELSE @,
                             !.length = @ + 1, !.seq = <<v>> \o @]

RPush(v) ==
  LET l == handle
      n == Free(InList(l))
  IN  /\ InList(l) # RNodes
      /\ handle' = [l EXCEPT !.val[n] = v, !.prev[n] = l.tail, !.tail = n,
                             !.next = [m \in RNodes |-> IF m = n THEN Nil
                                         ELSE IF m = l.tail THEN n ELSE @[m]],
                             !.head = IF @ = Nil THEN n ELSE @,
                             !.length = @ + 1, !.seq = Append(@, v)]

PoppedLeft(l) ==
  LET n == l.head
  IN  [l EXCEPT !.head = l.next[n], !.length = @ - 1,
                !.prev = [m \in RNodes |-> IF m = l.next[n] THEN Nil ELSE @[m]],
                !.tail = IF l.next[n] = Nil THEN Nil ELSE @]

LPop == /\ handle.head # Nil
        /\ handle' = [PoppedLeft(handle) EXCEPT !.seq = Tail(@)]

RPop ==
  LET l == handle
      n == l.tail
  IN  /\ n # Nil
      /\ handle' = [l EXCEPT !.tail = l.prev[n], !.length = @ - 1, !.seq = Front(@),
                             !.next = [m \in RNodes |-> IF m = l.prev[n] THEN Nil ELSE @[m]],
                             !.head = IF l.prev[n] = Nil THEN Nil ELSE @]

-----------------------------------------------------------------------------
(* Sets and hashes: buckets of chains, a new entry in front of its chain.  *)

NoChains == [b \in 0..(RBuckets - 1) |-> <<>>]
Has(t, k) == \E i \in DOMAIN t[k % RBuckets] : t[k % RBuckets][i].name = k
Entry(t, k) == SelectSeq(t[k % RBuckets], LAMBDA e : e.name = k)[1]
Chained(t, k, v) ==
  [t EXCEPT ![k % RBuckets] =
     IF Has(t, k) THEN [i \in DOMAIN @ |-> IF @[i].name = k THEN [@[i] EXCEPT !.val = v]
                                           ELSE @[i]]
     ELSE <<[name |-> k, val |-> v]>> \o @]
Unchained(t, k) ==
  [t EXCEPT ![k % RBuckets] = IF Has(t, k) THEN RemoveFirst(@, Entry(t, k)) ELSE @]

\* Bucket after bucket: SMEMBERS, HKEYS, HVALS, HGETALL.
AllEntries(t) == FoldLeft(LAMBDA acc, b : acc \o t[b - 1], <<>>, [b \in 1..RBuckets |-> b])
SUnion(a, b) == AllEntries(a) \o SelectSeq(AllEntries(b), LAMBDA e : ~Has(a, e.name))
SInter(a, b) == SelectSeq(AllEntries(a), LAMBDA e : Has(b, e.name))

NewRsets == [kind |-> "rsets", a |-> NoChains, b |-> NoChains, ca |-> 0, cb |-> 0,
             sa |-> {}, sb |-> {}]
NewRhash == [kind |-> "rhash", a |-> NoChains, count |-> 0, map |-> [n \in {} |-> Nil]]

SAddA(x) == handle' = [handle EXCEPT !.a = Chained(@, x, Nil), !.sa = @ \cup {x},
                                     !.ca = IF Has(handle.a, x) THEN @ ELSE @ + 1]
SAddB(x) == handle' = [handle EXCEPT !.b = Chained(@, x, Nil), !.sb = @ \cup {x},
                                     !.cb = IF Has(handle.b, x) THEN @ ELSE @ + 1]
SRemA(x) == handle' = [handle EXCEPT !.a = Unchained(@, x), !.sa = @ \ {x},
                                     !.ca = IF Has(handle.a, x) THEN @ - 1 ELSE @]
HSet(x, v) == handle' = [handle EXCEPT !.a = Chained(@, x, v),
                           !.count = IF Has(handle.a, x) THEN @ ELSE @ + 1,
                           !.map = [n \in DOMAIN @ \cup {x} |-> IF n = x THEN v ELSE @[n]]]
HDel(x) == handle' = [handle EXCEPT !.a = Unchained(@, x),
                        !.count = IF Has(handle.a, x) THEN @ - 1 ELSE @,
                        !.map = [n \in DOMAIN @ \ {x} |-> @[n]]]

-----------------------------------------------------------------------------
(* Sorted sets: a skip list in the order of the scores.                    *)

Heights == 0..(RLevels - 1)
NewRzset == [kind |-> "rzset", forward |-> [n \in RNodes \cup {Nil} |-> [i \in Heights |-> Nil]],
             backward |-> Null, tail |-> Nil, level |-> 0, length |-> 0,
             score |-> Null, member |-> Null, height |-> [n \in RNodes |-> -1],
             mixed |-> FALSE, dangling |-> FALSE, pairs |-> <<>>]
Nodes(z) == {n \in RNodes : z.height[n] >= 0}
InOrder(z) == Along(z.forward[Nil][0], [n \in RNodes |-> z.forward[n][0]])

\* From node n right at level i while the next one's key is below.
RECURSIVE RightOf(_, _, _, _, _)
RightOf(z, key, n, i, below) ==
  LET m == z.forward[n][i]
  IN  IF m # Nil /\ key[m] < below THEN RightOf(z, key, m, i, below) ELSE n

\* update[]: where each level is left.
UpdatePath(z, key, below) ==
  LET At[i \in Heights] ==
        RightOf(z, key, IF i = RLevels - 1 THEN Nil ELSE At[i + 1], i, below)
  IN  At

\* Along the list members must ascend as scores do for a removal to find its way.
Ascending(z) == \A i, j \in DOMAIN InOrder(z) :
                  i < j => z.member[InOrder(z)[i]] <= z.member[InOrder(z)[j]]

\* What the pairs put in are, in order: a new one goes before those of its score.
Placed(pairs, p) ==
  SelectSeq(pairs, LAMBDA q : q[2] < p[2]) \o <<p>> \o SelectSeq(pairs, LAMBDA q : q[2] >= p[2])

\* Only a pair with this very score, and first among equals, counts as there.
ZAdd(score, member, h) ==
  LET z      == handle
      update == UpdatePath(z, z.score, score)
      first  == z.forward[update[0]][0]
      same   == first # Nil /\ z.score[first] = score /\ z.member[first] = member
      n      == Free(Nodes(z))
      y      == [z EXCEPT !.score[n] = score, !.member[n] = member, !.height[n] = h,
                          !.level = IF h > @ THEN h ELSE @, !.length = @ + 1,
                          !.forward = [m \in DOMAIN @ |-> [i \in Heights |->
                             IF m = n THEN IF i <= h THEN @[update[i]][i] ELSE Nil
                             ELSE IF i <= h /\ update[i] = m THEN n ELSE @[m][i]]],
                          !.backward = [m \in RNodes |-> IF m = n THEN update[0]
                                          ELSE IF m = first THEN n ELSE @[m]],
                          !.tail = IF first = Nil THEN n ELSE @,
                          !.pairs = Placed(@, <<n, score, member>>)]
  IN  /\ ~z.dangling
      /\ same \/ Nodes(z) # RNodes
      /\ handle' = IF same THEN z ELSE [y EXCEPT !.mixed = @ \/ ~Ascending(y)]

\* The way is looked for by member.  Unlinking stops at the first level where the
\* node before is not the one found: what points to the freed node stays.
ZRem(member) ==
  LET z      == handle
      update == UpdatePath(z, z.member, member)
      n      == z.forward[update[0]][0]
      there  == n # Nil /\ z.member[n] = member
      cut    == {i \in 0..z.level : \A j \in 0..i : z.forward[update[j]][j] = n}
      linked == [m \in DOMAIN z.forward |-> [i \in Heights |->
                   IF i \in cut /\ m = update[i] THEN z.forward[n][i] ELSE z.forward[m][i]]]
      top    == {i \in 1..z.level : linked[Nil][i] # Nil} \cup {0}
      behind == z.forward[n][0]
  IN  /\ ~z.dangling /\ there
      /\ handle' = [z EXCEPT !.forward = [linked EXCEPT ![n] = [i \in Heights |-> Nil]],
                             !.backward = [m \in RNodes |->
                                IF m = behind THEN @[n] ELSE IF m = n THEN Nil ELSE @[m]],
                             !.tail = IF behind = Nil THEN z.backward[n] ELSE @,
                             !.level = CHOOSE i \in top : \A j \in top : j <= i,
                             !.height[n] = -1, !.length = @ - 1,
                             !.score[n] = Nil, !.member[n] = Nil,
                             !.pairs = SelectSeq(@, LAMBDA p : p[1] # n),
                             !.dangling = \E m \in (Nodes(z) \ {n}) \cup {Nil}, i \in Heights :
                                            linked[m][i] = n]

\* The score of a member: that of the first node with this name.
ZScore(z, member) ==
  LET s == SelectSeq(InOrder(z), LAMBDA n : z.member[n] = member)
  IN  IF s = <<>> THEN {} ELSE {z.score[s[1]]}
ZRank(z, member) ==
  LET at == {i \in DOMAIN InOrder(z) : z.member[InOrder(z)[i]] = member}
  IN  IF at = {} THEN -1 ELSE (CHOOSE i \in at : \A j \in at : i <= j) - 1
ZRangeByScore(z, min, max) ==
  SelectSeq(InOrder(z), LAMBDA n : min <= z.score[n] /\ z.score[n] <= max)

-----------------------------------------------------------------------------
RedisInit == handle \in {NewRlist, NewRsets, NewRhash, NewRzset}

ListNext == /\ Holding("rlist")
            /\ \/ \E v \in RVals : LPush(v)
               \/ \E v \in RVals : RPush(v)
               \/ LPop
               \/ RPop
SetsNext == /\ Holding("rsets")
            /\ \E x \in RNames : SAddA(x) \/ SAddB(x) \/ SRemA(x)
HashNext == /\ Holding("rhash")
            /\ \E x \in RNames : HDel(x) \/ \E v \in RVals : HSet(x, v)
ZSetNext == /\ Holding("rzset")
            /\ \/ \E s \in RScores, x \in RNames, h \in Heights : ZAdd(s, x, h)
               \/ \E x \in RNames : ZRem(x)
RedisNext == ListNext \/ SetsNext \/ HashNext \/ ZSetNext

\* The places a pair of bounds means.
Between(s, start, stop) ==
  {i \in 0..(Len(s) - 1) : /\ IF start < 0 THEN i - Len(s) >= start ELSE i >= start
                           /\ IF stop < 0 THEN i - Len(s) <= stop ELSE i <= stop}

\* Read from either end, a list is the sequence that pushes and pops at both ends
\* made of it; a range is the part between two places counted from either end.
ListIsDeque ==
  Holding("rlist") =>
    /\ ListVals(handle) = handle.seq /\ handle.length = Len(handle.seq)
    /\ Along(handle.tail, handle.prev) = Reverse(Along(handle.head, handle.next))
    /\ \A start, stop \in -3..3 :
         LET s == handle.seq
             w == Window(s, start, stop, Len(s))
         IN  /\ Len(w) = Cardinality(Between(s, start, stop))
             /\ \A i \in DOMAIN w : w[i] = s[i + (CHOOSE x \in Between(s, start, stop) :
                                            \A y \in Between(s, start, stop) : x <= y)]
             /\ AtIndex(s, start) = {s[i + 1] : i \in Between(s, start, start)}

Names(es) == {es[i].name : i \in DOMAIN es}

\* Names that share a bucket stay apart: union and intersection give each name
\* once, and a hash gives every field's last value.
ChainsAnswerTruly ==
  /\ Holding("rsets") =>
       LET u == SUnion(handle.a, handle.b)
           n == SInter(handle.a, handle.b)
       IN  /\ Names(u) = handle.sa \cup handle.sb /\ Len(u) = Cardinality(Names(u))
           /\ Names(n) = handle.sa \cap handle.sb /\ Len(n) = Cardinality(Names(n))
           /\ handle.ca = Cardinality(handle.sa) /\ handle.cb = Cardinality(handle.sb)
  /\ Holding("rhash") =>
       /\ Names(AllEntries(handle.a)) = DOMAIN handle.map
       /\ handle.count = Cardinality(DOMAIN handle.map)
       /\ \A x \in DOMAIN handle.map : Entry(handle.a, x).val = handle.map[x]

\* A sorted set is in the order of its scores, forward at every level and
\* backward, whatever heights were drawn, and among equal scores what was added
\* last comes first, whatever its member; only after members were added whose
\* order differs from that of their scores may a removal leave a pointer to the
\* node it freed.  A member's score is the least it was added with, its rank lies
\* among those of that score, and a range of scores gives the members in it.
ZSetIsOrdered ==
  Holding("rzset") =>
    LET z == handle
        w == InOrder(z)
        put == ToSet(z.pairs)
    IN  /\ z.dangling => z.mixed
        /\ ~z.dangling =>
             /\ [i \in DOMAIN w |-> <<w[i], z.score[w[i]], z.member[w[i]]>>] = z.pairs
             /\ \A i, j \in DOMAIN w : i < j => z.score[w[i]] <= z.score[w[j]]
             /\ Along(z.tail, z.backward) = Reverse(w) /\ z.length = Len(w)
             /\ \A l \in Heights :
                  Along(z.forward[Nil][l], [n \in RNodes |-> z.forward[n][l]]) =
                    SelectSeq(w, LAMBDA n : z.height[n] >= l)
             /\ \A x \in RNames :
                  LET of    == {p[2] : p \in {q \in put : q[3] = x}}
                      least == CHOOSE s \in of : \A t \in of : s <= t
                  IN  IF of = {} THEN ZScore(z, x) = {} /\ ZRank(z, x) = -1
                      ELSE /\ ZScore(z, x) = {least}
                           /\ ZRank(z, x) >= Cardinality({p \in put : p[2] < least})
                           /\ ZRank(z, x) < Cardinality({p \in put : p[2] <= least})
             /\ \A lo, hi \in RScores :
                  {z.member[n] : n \in ToSet(ZRangeByScore(z, lo, hi))} =
                    {p[3] : p \in {q \in put : lo <= q[2] /\ q[2] <= hi}}

\* What holds of the four types of value.
RedisValuesHold == ListIsDeque /\ ChainsAnswerTruly /\ ZSetIsOrdered
=============================================================================
