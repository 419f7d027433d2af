-------------------------- MODULE PartitionLogProofs --------------------------
(***************************************************************************)
(* What an offset of a partition names, what the cleaner may take and what *)
(* a group of consumers may leave behind, for any number and size of the   *)
(* segments, any keys, any policy and any consumers.                       *)
(***************************************************************************)
EXTENDS PartitionLog, LeastNumber, SequenceTheorems, TLAPS

Rec == [offset : Nat, key : Keys \cup {NoKey}, val : {Data, Empty}, ts : Int]
Seg == [base : Nat, recs : Seq(Rec)]
Typed ==
    /\ segs \in Seq(Seg) /\ Len(segs) >= 1
    /\ history \in Seq(Rec) /\ now \in Int /\ policy \in Policies

IInv == Typed /\ OffsetsNameRecords

(* What cleaning does to a log: the active segment is the same, a segment  *)
(* keeps its base, and its records are deleted together or blanked.        *)
Shrinks(ss, tt) ==
    /\ tt \in Seq(Seg) /\ Len(tt) = Len(ss) /\ tt[Len(ss)] = ss[Len(ss)]
    /\ \A i \in 1 .. Len(ss) :
          /\ tt[i].base = ss[i].base
          /\ \/ tt[i].recs = <<>>
             \/ /\ Len(tt[i].recs) = Len(ss[i].recs)
                /\ \A j \in 1 .. Len(ss[i].recs) :
                      tt[i].recs[j] = ss[i].recs[j] \/ tt[i].recs[j] = Blank(ss[i].recs[j])

LEMMA BlankFacts ==
    ASSUME NEW r \in Rec
    PROVE  /\ Blank(r) \in Rec
           /\ Blank(r).offset = r.offset
           /\ Blank(Blank(r)) = Blank(r)
BY DEF Blank, Rec

LEMMA MapIsSeq ==
    ASSUME NEW S, NEW T, NEW s \in Seq(S), NEW f,
           f = [i \in DOMAIN s |-> f[i]], \A i \in DOMAIN s : f[i] \in T
    PROVE  f \in Seq(T) /\ Len(f) = Len(s)
<1>1. DOMAIN s = 1 .. Len(s) /\ Len(s) \in Nat
  OBVIOUS
<1>2. f \in [1 .. Len(s) -> T]
  BY <1>1
<1> QED BY <1>1, <1>2

LEMMA WithRecs ==
    ASSUME NEW s \in Seg, NEW r
    PROVE  /\ [s EXCEPT !.recs = r].recs = r
           /\ [s EXCEPT !.recs = r].base = s.base
           /\ r \in Seq(Rec) => [s EXCEPT !.recs = r] \in Seg
BY DEF Seg

LEMMA Below == \A n \in Nat : \A i \in 1 .. n - 1 : i \in 1 .. n /\ i # n
OBVIOUS

LEMMA ShrinksTransitive ==
    ASSUME NEW a \in Seq(Seg), Len(a) >= 1, NEW b, NEW c, Shrinks(a, b), Shrinks(b, c)
    PROVE  Shrinks(a, c)
<1>1. b \in Seq(Seg) /\ c \in Seq(Seg) /\ Len(b) = Len(a) /\ Len(c) = Len(a)
  BY DEF Shrinks
<1>2. c[Len(a)] = a[Len(a)]
  BY DEF Shrinks
<1>3. ASSUME NEW i \in 1 .. Len(a)
      PROVE  /\ c[i].base = a[i].base
             /\ \/ c[i].recs = <<>>
                \/ /\ Len(c[i].recs) = Len(a[i].recs)
                   /\ \A j \in 1 .. Len(a[i].recs) :
                         c[i].recs[j] = a[i].recs[j] \/ c[i].recs[j] = Blank(a[i].recs[j])
  <2>1. a[i] \in Seg /\ b[i] \in Seg /\ c[i] \in Seg
    BY <1>1
  <2>2. c[i].base = a[i].base
    BY <1>1 DEF Shrinks
  <2>3. CASE c[i].recs = <<>>
    BY <2>2, <2>3
  <2>4. CASE c[i].recs # <<>>
    <3>1. /\ Len(c[i].recs) = Len(b[i].recs)
          /\ \A j \in 1 .. Len(b[i].recs) :
                c[i].recs[j] = b[i].recs[j] \/ c[i].recs[j] = Blank(b[i].recs[j])
      BY <1>1, <2>4 DEF Shrinks
    <3>2. c[i].recs \in Seq(Rec) /\ a[i].recs \in Seq(Rec) /\ b[i].recs \in Seq(Rec)
      BY <1>1, <2>1 DEF Seg
    <3>3. b[i].recs # <<>>
      BY <2>4, <3>1, <3>2
    <3>4. /\ Len(b[i].recs) = Len(a[i].recs)
          /\ \A j \in 1 .. Len(a[i].recs) :
                b[i].recs[j] = a[i].recs[j] \/ b[i].recs[j] = Blank(a[i].recs[j])
      BY <3>3 DEF Shrinks
    <3>5. ASSUME NEW j \in 1 .. Len(a[i].recs)
          PROVE  c[i].recs[j] = a[i].recs[j] \/ c[i].recs[j] = Blank(a[i].recs[j])
      <4>1. a[i].recs[j] \in Rec
        BY <3>2
      <4>2. Blank(Blank(a[i].recs[j])) = Blank(a[i].recs[j])
        BY <4>1, BlankFacts
      <4> QED BY <3>1, <3>4, <4>2
    <3> QED BY <2>2, <3>1, <3>4, <3>5
  <2> QED BY <2>3, <2>4
<1> QED BY <1>1, <1>2, <1>3 DEF Shrinks

LEMMA EmptiedShrinks ==
    ASSUME NEW ss \in Seq(Seg), Len(ss) >= 1, NEW S, S \subseteq 1 .. Len(ss) - 1
    PROVE  Shrinks(ss, Emptied(ss, S))
<1> DEFINE tt == Emptied(ss, S)
<1>1. DOMAIN ss = 1 .. Len(ss) /\ Len(ss) \in Nat
  OBVIOUS
<1>2. tt = [i \in DOMAIN ss |-> tt[i]]
  BY DEF Emptied
<1>3. ASSUME NEW i \in DOMAIN ss
      PROVE  /\ tt[i] \in Seg /\ tt[i].base = ss[i].base
             /\ tt[i].recs = <<>> \/ tt[i].recs = ss[i].recs
  <2>1. ss[i] \in Seg /\ <<>> \in Seq(Rec)
    BY <1>1
  <2>2. CASE i \in S
    <3>1. tt[i] = [ss[i] EXCEPT !.recs = <<>>]
      BY <2>2 DEF Emptied
    <3> DEFINE none == <<>>
    <3>2. none \in Seq(Rec) /\ none = <<>> /\ tt[i] = [ss[i] EXCEPT !.recs = none]
      BY <3>1
    <3> HIDE DEF tt, none
    <3>3. tt[i].recs = none
      BY <2>1, <3>2, WithRecs
    <3>4. tt[i].base = ss[i].base
      BY <2>1, <3>2, WithRecs
    <3>5. tt[i] \in Seg
      <4>1. none \in Seq(Rec) => [ss[i] EXCEPT !.recs = none] \in Seg
        BY <2>1, WithRecs, Zenon
      <4> QED BY <3>2, <4>1
    <3> QED BY <3>2, <3>3, <3>4, <3>5
  <2>3. CASE i \notin S
    <3>1. tt[i] = ss[i]
      BY <2>3 DEF Emptied
    <3> HIDE DEF tt
    <3> QED BY <2>1, <3>1
  <2> HIDE DEF tt
  <2> QED BY <2>2, <2>3
<1>4. tt \in Seq(Seg) /\ Len(tt) = Len(ss)
  <2> HIDE DEF tt
  <2> QED BY <1>2, <1>3, MapIsSeq
<1>5. tt[Len(ss)] = ss[Len(ss)]
  BY <1>1 DEF Emptied
<1> HIDE DEF tt
<1>6. Shrinks(ss, tt)
  BY <1>1, <1>3, <1>4, <1>5 DEF Shrinks
<1> QED BY <1>6 DEF tt

LEMMA PointwiseShrinks ==
    ASSUME NEW ss \in Seq(Seg), Len(ss) >= 1, NEW tt,
           tt = [i \in DOMAIN ss |-> tt[i]], tt[Len(ss)] = ss[Len(ss)],
           \A i \in 1 .. Len(ss) - 1 :
              /\ tt[i] = [ss[i] EXCEPT !.recs = tt[i].recs]
              /\ tt[i].recs = [j \in DOMAIN ss[i].recs |-> tt[i].recs[j]]
              /\ \A j \in DOMAIN ss[i].recs :
                    tt[i].recs[j] = ss[i].recs[j] \/ tt[i].recs[j] = Blank(ss[i].recs[j])
    PROVE  Shrinks(ss, tt)
<1>1. DOMAIN ss = 1 .. Len(ss) /\ Len(ss) \in Nat /\ \A i \in DOMAIN ss : ss[i] \in Seg
  OBVIOUS
<1>2. ASSUME NEW i \in 1 .. Len(ss)
      PROVE  /\ tt[i] \in Seg /\ tt[i].base = ss[i].base
             /\ Len(tt[i].recs) = Len(ss[i].recs)
             /\ \A j \in 1 .. Len(ss[i].recs) :
                   tt[i].recs[j] = ss[i].recs[j] \/ tt[i].recs[j] = Blank(ss[i].recs[j])
  <2>1. ss[i].recs \in Seq(Rec) /\ ss[i].base \in Nat /\ ss[i] = [base |-> ss[i].base, recs |-> ss[i].recs]
    BY <1>1 DEF Seg
  <2>2. CASE i = Len(ss)
    BY <1>1, <2>2
  <2>3. CASE i \in 1 .. Len(ss) - 1
    <3>1. DOMAIN ss[i].recs = 1 .. Len(ss[i].recs)
      BY <2>1
    <3>2. ASSUME NEW j \in DOMAIN ss[i].recs PROVE tt[i].recs[j] \in Rec
      <4>1. ss[i].recs[j] \in Rec
        BY <2>1
      <4>2. Blank(ss[i].recs[j]) \in Rec
        BY <4>1, BlankFacts
      <4>3. tt[i].recs[j] = ss[i].recs[j] \/ tt[i].recs[j] = Blank(ss[i].recs[j])
        BY <2>3
      <4> QED BY <4>1, <4>2, <4>3
    <3>3. tt[i].recs \in Seq(Rec) /\ Len(tt[i].recs) = Len(ss[i].recs)
      <4>1. tt[i].recs = [j \in DOMAIN ss[i].recs |-> tt[i].recs[j]]
        BY <2>3
      <4> DEFINE old == ss[i].recs
                 new == tt[i].recs
      <4>2. old \in Seq(Rec) /\ new = [j \in DOMAIN old |-> new[j]] /\ \A j \in DOMAIN old : new[j] \in Rec
        BY <2>1, <3>2, <4>1
      <4> HIDE DEF old, new
      <4>3. new \in Seq(Rec) /\ Len(new) = Len(old)
        BY <4>2, MapIsSeq
      <4> QED BY <4>3 DEF old, new
    <3>4. tt[i] = [base |-> ss[i].base, recs |-> tt[i].recs]
      BY <2>1, <2>3
    <3> QED BY <2>1, <2>3, <3>1, <3>3, <3>4 DEF Seg
  <2> QED BY <1>1, <2>2, <2>3
<1>3. tt \in Seq(Seg) /\ Len(tt) = Len(ss)
  BY <1>1, <1>2, MapIsSeq
<1> QED BY <1>1, <1>2, <1>3 DEF Shrinks

LEMMA BlankedShrinks ==
    ASSUME NEW ss \in Seq(Seg), Len(ss) >= 1, NEW B
    PROVE  Shrinks(ss, Blanked(ss, B))
<1> DEFINE tt == Blanked(ss, B)
<1>1. \A i \in DOMAIN ss : ss[i] \in Seg
  OBVIOUS
<1>2. DOMAIN ss = 1 .. Len(ss) /\ Len(ss) \in Nat
  OBVIOUS
<1>3. \A i \in 1 .. Len(ss) - 1 : i \in DOMAIN ss /\ i # Len(ss)
  BY <1>2, Below, Zenon
<1>4. tt = [i \in DOMAIN ss |-> tt[i]]
  BY DEF Blanked
<1>5. tt[Len(ss)] = ss[Len(ss)]
  BY <1>2 DEF Blanked
<1>6. ASSUME NEW i \in 1 .. Len(ss) - 1
      PROVE  /\ tt[i] = [ss[i] EXCEPT !.recs = tt[i].recs]
             /\ tt[i].recs = [j \in DOMAIN ss[i].recs |-> tt[i].recs[j]]
             /\ \A j \in DOMAIN ss[i].recs :
                   tt[i].recs[j] = ss[i].recs[j] \/ tt[i].recs[j] = Blank(ss[i].recs[j])
  <2> DEFINE new == [j \in DOMAIN ss[i].recs |->
                        IF ss[i].recs[j] \in B THEN Blank(ss[i].recs[j]) ELSE ss[i].recs[j]]
  <2>1. ss[i] \in Seg /\ i \in DOMAIN ss /\ i # Len(ss)
    <3> HIDE DEF tt, new
    <3> QED BY <1>1, <1>3
  <2>2. tt[i] = [ss[i] EXCEPT !.recs = new]
    BY <2>1 DEF Blanked
  <2>3. \A j \in DOMAIN ss[i].recs : new[j] = ss[i].recs[j] \/ new[j] = Blank(ss[i].recs[j])
    OBVIOUS
  <2>4. new = [j \in DOMAIN ss[i].recs |-> new[j]]
    OBVIOUS
  <2> HIDE DEF new, tt
  <2>5. tt[i].recs = new
    BY <2>1, <2>2, WithRecs
  <2> QED BY <2>2, <2>3, <2>4, <2>5
<1> HIDE DEF tt
<1>7. Shrinks(ss, tt)
  BY <1>4, <1>5, <1>6, PointwiseShrinks
<1> QED BY <1>7 DEF tt

(* A cycle of the cleaner, under any policy.                               *)
LEMMA CycleShrinks ==
    ASSUME Typed
    PROVE  Shrinks(segs, Cleaned)
<1> DEFINE timely == Emptied(segs, Expired(segs))
           kept   == CASE policy = "time" -> timely
                       [] policy = "size" -> Emptied(timely, Oversize(timely))
                       [] policy = "compaction" -> Compacted(segs)
<1>1. segs \in Seq(Seg) /\ Len(segs) \in Nat /\ Len(segs) >= 1
  BY DEF Typed
<1>2. Shrinks(segs, timely)
  BY <1>1, EmptiedShrinks DEF Expired
<1>3. timely \in Seq(Seg) /\ Len(timely) = Len(segs)
  BY <1>2 DEF Shrinks
<1>4. Shrinks(timely, Emptied(timely, Oversize(timely)))
  <2> HIDE DEF timely
  <2> QED BY <1>1, <1>3, EmptiedShrinks DEF Oversize
<1>5. Shrinks(segs, Emptied(timely, Oversize(timely)))
  <2> HIDE DEF timely
  <2> QED BY <1>1, <1>2, <1>4, ShrinksTransitive
<1>6. Shrinks(segs, Compacted(segs))
  BY <1>1, BlankedShrinks DEF Compacted
<1>7. Shrinks(segs, kept)
  <2>1. policy = "time" \/ policy = "size" \/ policy = "compaction"
    BY LogAssumption DEF Typed, LogAssumption
  <2> HIDE DEF timely
  <2> QED BY <1>2, <1>5, <1>6, <2>1
<1>8. Shrinks(kept, WithoutTombstones(kept))
  <2> HIDE DEF kept
  <2>1. kept \in Seq(Seg) /\ Len(kept) >= 1
    BY <1>1, <1>7 DEF Shrinks
  <2> QED BY <2>1, BlankedShrinks DEF WithoutTombstones
<1>9. Cleaned = WithoutTombstones(kept)
  BY DEF Cleaned
<1> HIDE DEF kept
<1> QED BY <1>1, <1>7, <1>8, <1>9, ShrinksTransitive

-----------------------------------------------------------------------------
(* OffsetsNameRecords of any segments and history.                         *)
Names(ss, h) ==
    /\ EndOf(ss[Len(ss)]) = Len(h)
    /\ \A i \in 1 .. Len(ss) : \A j \in 1 .. Len(ss[i].recs) :
          /\ ss[i].recs[j].offset = ss[i].base + j - 1
          /\ ss[i].recs[j].offset < Len(h)
          /\ \/ ss[i].recs[j] = h[ss[i].recs[j].offset + 1]
             \/ ss[i].recs[j] = Blank(h[ss[i].recs[j].offset + 1])

LEMMA NamesMeans ==
    ASSUME segs \in Seq(Seg), Len(segs) >= 1
    PROVE  OffsetsNameRecords <=> Names(segs, history)
<1>1. DOMAIN segs = 1 .. Len(segs)
  OBVIOUS
<1>2. ASSUME NEW i \in 1 .. Len(segs)
      PROVE  DOMAIN segs[i].recs = 1 .. Len(segs[i].recs)
  BY DEF Seg
<1>3. EndOffset = EndOf(segs[Len(segs)])
  BY DEF EndOffset, Active
<1> QED BY <1>1, <1>2, <1>3 DEF OffsetsNameRecords, Names

LEMMA NamesShrink ==
    ASSUME NEW ss \in Seq(Seg), Len(ss) >= 1, NEW h \in Seq(Rec), NEW tt,
           Names(ss, h), Shrinks(ss, tt)
    PROVE  Names(tt, h)
<1>1. tt \in Seq(Seg) /\ Len(tt) = Len(ss) /\ tt[Len(ss)] = ss[Len(ss)]
  BY DEF Shrinks
<1>2. EndOf(tt[Len(tt)]) = Len(h)
  BY <1>1 DEF Names
<1>3. ASSUME NEW i \in 1 .. Len(tt), NEW j \in 1 .. Len(tt[i].recs)
      PROVE  /\ tt[i].recs[j].offset = tt[i].base + j - 1
             /\ tt[i].recs[j].offset < Len(h)
             /\ \/ tt[i].recs[j] = h[tt[i].recs[j].offset + 1]
                \/ tt[i].recs[j] = Blank(h[tt[i].recs[j].offset + 1])
  <2>1. i \in 1 .. Len(ss) /\ tt[i].base = ss[i].base
    BY <1>1 DEF Shrinks
  <2>2. tt[i].recs # <<>>
    OBVIOUS
  <2>3. /\ Len(tt[i].recs) = Len(ss[i].recs)
        /\ tt[i].recs[j] = ss[i].recs[j] \/ tt[i].recs[j] = Blank(ss[i].recs[j])
    BY <2>1, <2>2 DEF Shrinks
  <2> DEFINE r == ss[i].recs[j]
             old == h[r.offset + 1]
  <2>4. ss[i] \in Seg
    BY <2>1
  <2>5. j \in 1 .. Len(ss[i].recs) /\ ss[i].recs \in Seq(Rec)
    BY <2>3, <2>4 DEF Seg
  <2>6. r \in Rec
    BY <2>5
  <2>7. r.offset = ss[i].base + j - 1 /\ r.offset < Len(h) /\ (r = old \/ r = Blank(old))
    BY <2>1, <2>5 DEF Names
  <2>8. r.offset + 1 \in 1 .. Len(h)
    <3>1. r.offset \in Nat
      BY <2>6 DEF Rec
    <3> HIDE DEF r
    <3> QED BY <3>1, <2>7
  <2>9. old \in Rec
    BY <2>8
  <2> HIDE DEF r, old
  <2>10. Blank(r).offset = r.offset /\ Blank(Blank(old)) = Blank(old)
    BY <2>6, <2>9, BlankFacts
  <2>11. tt[i].recs[j] = r \/ tt[i].recs[j] = Blank(r)
    BY <2>3 DEF r
  <2>12. tt[i].recs[j].offset = r.offset /\ (tt[i].recs[j] = old \/ tt[i].recs[j] = Blank(old))
    BY <2>7, <2>10, <2>11
  <2> QED BY <2>1, <2>7, <2>12 DEF old
<1> QED BY <1>2, <1>3 DEF Names

LEMMA RolledNames ==
    ASSUME NEW ss \in Seq(Seg), Len(ss) >= 1, NEW h \in Seq(Rec), Names(ss, h)
    PROVE  Rolled(ss) \in Seq(Seg) /\ Len(Rolled(ss)) >= 1 /\ Names(Rolled(ss), h)
<1>1. CASE Len(ss) >= MaxSegments
  BY <1>1 DEF Rolled
<1>2. CASE ~(Len(ss) >= MaxSegments)
  <2> DEFINE n == Len(ss)
             new == Segment(EndOf(ss[n]))
             tt == Append(ss, new)
  <2>1. ss[n] \in Seg
    OBVIOUS
  <2>2. EndOf(ss[n]) \in Nat
    BY <2>1 DEF EndOf, Seg
  <2>3. new.base = EndOf(ss[n]) /\ new.recs = <<>> /\ new \in Seg
    BY <2>2 DEF Segment, Seg
  <2> HIDE DEF new
  <2>4. tt \in Seq(Seg) /\ Len(tt) = n + 1 /\ tt[n + 1] = new /\ \A i \in 1 .. n : tt[i] = ss[i]
    BY <2>3
  <2>5. EndOf(tt[Len(tt)]) = Len(h)
    <3>1. EndOf(new) = EndOf(ss[n])
      BY <2>2, <2>3 DEF EndOf
    <3> QED BY <2>4, <3>1 DEF Names
  <2>6. \A i \in 1 .. Len(tt) : i \in 1 .. n \/ tt[i].recs = <<>>
    BY <2>3, <2>4
  <2> HIDE DEF tt
  <2>7. Names(tt, h)
    <3>1. ASSUME NEW i \in 1 .. Len(tt), NEW j \in 1 .. Len(tt[i].recs)
          PROVE  /\ tt[i].recs[j].offset = tt[i].base + j - 1
                 /\ tt[i].recs[j].offset < Len(h)
                 /\ \/ tt[i].recs[j] = h[tt[i].recs[j].offset + 1]
                    \/ tt[i].recs[j] = Blank(h[tt[i].recs[j].offset + 1])
      <4>1. tt[i].recs # <<>>
        OBVIOUS
      <4>2. i \in 1 .. Len(ss) /\ tt[i] = ss[i]
        BY <2>4, <2>6, <4>1
      <4>3. j \in 1 .. Len(ss[i].recs)
        BY <4>2
      <4> QED BY <4>2, <4>3 DEF Names
    <3> QED BY <2>5, <3>1 DEF Names
  <2>8. Rolled(ss) = tt
    BY <1>2 DEF Rolled, tt, new
  <2> QED BY <2>4, <2>7, <2>8
<1> QED BY <1>1, <1>2

Extended(ss, r) == [ss EXCEPT ![Len(ss)].recs = Append(@, r)]

LEMMA ExtendedFacts ==
    ASSUME NEW ss \in Seq(Seg), Len(ss) >= 1, NEW new \in Rec, NEW tt, tt = Extended(ss, new)
    PROVE  /\ tt \in Seq(Seg) /\ Len(tt) = Len(ss)
           /\ tt[Len(ss)].base = ss[Len(ss)].base
           /\ tt[Len(ss)].recs = Append(ss[Len(ss)].recs, new)
           /\ \A i \in 1 .. Len(ss) : i # Len(ss) => tt[i] = ss[i]
<1> DEFINE n == Len(ss)
           s == ss[n]
<1>1. n \in Nat /\ n >= 1 /\ s \in Seg /\ DOMAIN ss = 1 .. n
  OBVIOUS
<1>2. s.base \in Nat /\ s.recs \in Seq(Rec)
  BY <1>1 DEF Seg
<1>3. Append(s.recs, new) \in Seq(Rec) /\ Len(Append(s.recs, new)) = Len(s.recs) + 1
  BY <1>2
<1>4. tt[n] = [s EXCEPT !.recs = Append(s.recs, new)]
  BY <1>1 DEF Extended
<1>5. \A i \in 1 .. n : i # n => tt[i] = ss[i]
  BY <1>1 DEF Extended
<1>6. tt[n].base = s.base /\ tt[n].recs = Append(s.recs, new) /\ tt[n] \in Seg
  <2> DEFINE more == Append(s.recs, new)
  <2>1. more \in Seq(Rec) /\ tt[n] = [s EXCEPT !.recs = more]
    BY <1>3, <1>4
  <2> HIDE DEF more, s
  <2>2. tt[n].recs = more
    BY <1>1, <2>1, WithRecs
  <2>3. tt[n].base = s.base
    <3>1. [s EXCEPT !.recs = more].base = s.base
      BY <1>1, WithRecs, Zenon
    <3> QED BY <2>1, <3>1
  <2>4. more \in Seq(Rec) => [s EXCEPT !.recs = more] \in Seg
    BY <1>1, WithRecs, Zenon
  <2> QED BY <2>1, <2>2, <2>3, <2>4 DEF more
<1>7. tt \in Seq(Seg) /\ Len(tt) = n
  <2>1. tt = [i \in DOMAIN ss |-> tt[i]]
    BY DEF Extended
  <2>2. \A i \in DOMAIN ss : tt[i] \in Seg
    <3>1. \A i \in DOMAIN ss : ss[i] \in Seg
      OBVIOUS
    <3> QED BY <1>1, <1>5, <1>6, <3>1
  <2>3. tt \in [1 .. n -> Seg]
    BY <1>1, <2>1, <2>2, Zenon
  <2> QED BY <1>1, <2>3
<1> QED BY <1>5, <1>6, <1>7

LEMMA AppendNames ==
    ASSUME NEW ss \in Seq(Seg), Len(ss) >= 1, NEW h \in Seq(Rec), Names(ss, h),
           NEW new \in Rec, new.offset = EndOf(ss[Len(ss)]),
           NEW tt, tt = Extended(ss, new)
    PROVE  /\ tt \in Seq(Seg) /\ Len(tt) = Len(ss)
           /\ Names(tt, Append(h, new))
<1> DEFINE n == Len(ss)
           s == ss[n]
           g == Append(h, new)
<1>1. n \in Nat /\ n >= 1 /\ s \in Seg
  OBVIOUS
<1>2. s.base \in Nat /\ s.recs \in Seq(Rec)
  BY <1>1 DEF Seg
<1>3. Append(s.recs, new) \in Seq(Rec) /\ Len(Append(s.recs, new)) = Len(s.recs) + 1
  BY <1>2
<1>4. tt \in Seq(Seg) /\ Len(tt) = n
  BY ExtendedFacts
<1>5. \A i \in 1 .. n : i # n => tt[i] = ss[i]
  BY ExtendedFacts
<1>6. tt[n].base = s.base /\ tt[n].recs = Append(s.recs, new)
  BY ExtendedFacts
<1>8. g \in Seq(Rec) /\ Len(g) = Len(h) + 1 /\ g[Len(h) + 1] = new /\ \A i \in 1 .. Len(h) : g[i] = h[i]
  OBVIOUS
<1>9. new.offset = Len(h) /\ EndOf(s) = Len(h)
  BY DEF Names
<1> HIDE DEF g
<1>10. EndOf(tt[n]) = Len(g)
  <2>1. EndOf(s) = s.base + Len(s.recs) /\ Len(s.recs) \in Nat
    BY <1>2 DEF EndOf
  <2>2. EndOf(tt[n]) = s.base + (Len(s.recs) + 1)
    BY <1>3, <1>6 DEF EndOf
  <2> QED BY <1>2, <1>8, <1>9, <2>1, <2>2
<1>11. ASSUME NEW i \in 1 .. n, NEW j \in 1 .. Len(tt[i].recs)
       PROVE  /\ tt[i].recs[j].offset = tt[i].base + j - 1
              /\ tt[i].recs[j].offset < Len(g)
              /\ \/ tt[i].recs[j] = g[tt[i].recs[j].offset + 1]
                 \/ tt[i].recs[j] = Blank(g[tt[i].recs[j].offset + 1])
  <2>1. CASE i = n /\ j = Len(s.recs) + 1
    <3>1. tt[i].recs[j] = new
      BY <1>2, <1>6, <2>1
    <3>2. s.base + Len(s.recs) = Len(h) /\ Len(s.recs) \in Nat /\ Len(h) \in Nat
      BY <1>2, <1>9 DEF EndOf
    <3>3. new.offset = s.base + j - 1 /\ new.offset < Len(g)
      <4> HIDE DEF s
      <4> QED BY <1>2, <1>8, <1>9, <2>1, <3>2
    <3>4. new = g[new.offset + 1]
      BY <1>8, <1>9
    <3>5. tt[i].base = s.base
      BY <1>6, <2>1
    <3> HIDE DEF s
    <3> QED BY <3>1, <3>3, <3>4, <3>5
  <2>2. CASE ~(i = n /\ j = Len(s.recs) + 1)
    <3>1. /\ tt[i].base = ss[i].base /\ j \in 1 .. Len(ss[i].recs)
          /\ tt[i].recs[j] = ss[i].recs[j]
      <4>1. CASE i = n
        <5>1. tt[i].recs = Append(s.recs, new) /\ tt[i].base = s.base
          BY <1>6, <4>1
        <5>2. j \in 1 .. Len(s.recs)
          BY <1>2, <1>3, <2>2, <4>1, <5>1
        <5>3. Append(s.recs, new)[j] = s.recs[j]
          BY <1>2, <5>2
        <5> QED BY <4>1, <5>1, <5>2, <5>3
      <4>2. CASE i # n
        BY <1>5, <4>2
      <4> QED BY <4>1, <4>2
    <3> DEFINE r == ss[i].recs[j]
    <3>2. /\ r.offset = ss[i].base + j - 1 /\ r.offset < Len(h)
          /\ r = h[r.offset + 1] \/ r = Blank(h[r.offset + 1])
      BY <3>1 DEF Names
    <3>3. r.offset \in Nat
      <4>1. ss[i] \in Seg
        OBVIOUS
      <4>2. ss[i].recs \in Seq(Rec)
        BY <4>1 DEF Seg
      <4>3. r \in Rec
        BY <3>1, <4>2
      <4> QED BY <4>3 DEF Rec
    <3> HIDE DEF r
    <3>4. r.offset + 1 \in 1 .. Len(h) /\ r.offset < Len(g)
      BY <1>8, <3>2, <3>3
    <3>5. g[r.offset + 1] = h[r.offset + 1]
      BY <1>8, <3>4
    <3> QED BY <3>1, <3>2, <3>4, <3>5 DEF r
  <2> QED BY <2>1, <2>2
<1>12. Names(tt, g)
  BY <1>4, <1>10, <1>11 DEF Names
<1> QED BY <1>4, <1>12 DEF g

-----------------------------------------------------------------------------
LEMMA InitIInv == Init => IInv
<1> SUFFICES ASSUME Init PROVE IInv
  OBVIOUS
<1>1. Segment(0) \in Seg /\ Segment(0).base = 0 /\ Segment(0).recs = <<>>
  BY DEF Segment, Seg
<1>2. segs \in Seq(Seg) /\ Len(segs) = 1 /\ segs[1] = Segment(0)
  BY <1>1 DEF Init
<1>3. Typed
  BY <1>2, LogAssumption DEF Init, Typed, LogAssumption
<1>4. Names(segs, history)
  BY <1>1, <1>2 DEF Init, Names, EndOf
<1> QED BY <1>2, <1>3, <1>4, NamesMeans DEF IInv

LEMMA AppendKeeps ==
    ASSUME IInv, NEW p \in Payloads, AppendRecord(p[1], p[2])
    PROVE  IInv'
<1> DEFINE ready == IF Len(Active.recs) >= MaxRecords THEN Rolled(segs) ELSE segs
           n     == Len(ready)
           new   == Record(EndOf(ready[n]), p[1], p[2], now \div MsPerSecond)
<1>1. segs \in Seq(Seg) /\ Len(segs) >= 1 /\ history \in Seq(Rec) /\ Names(segs, history)
  BY NamesMeans DEF IInv, Typed
<1>2. ready \in Seq(Seg) /\ Len(ready) >= 1 /\ Names(ready, history)
  BY <1>1, RolledNames
<1>3. segs' = Extended(ready, new) /\ history' = Append(history, new)
  BY DEF AppendRecord, Extended
<1> HIDE DEF ready
<1>4. new \in Rec /\ new.offset = EndOf(ready[n])
  <2>1. ready[n] \in Seg
    BY <1>2
  <2>2. EndOf(ready[n]) \in Nat
    BY <2>1 DEF EndOf, Seg
  <2>3. p[1] \in Keys \cup {NoKey} /\ p[2] \in {Data, Empty}
    BY LogAssumption DEF LogAssumption
  <2>4. now \div MsPerSecond \in Int
    BY LogAssumption DEF IInv, Typed, LogAssumption
  <2> QED BY <2>2, <2>3, <2>4 DEF Record, Rec
<1> HIDE DEF new
<1>5. segs' \in Seq(Seg) /\ Len(segs') = n /\ Names(segs', history')
  BY <1>1, <1>2, <1>3, <1>4, AppendNames
<1>6. history' \in Seq(Rec)
  BY <1>1, <1>3, <1>4
<1>7. Typed'
  BY <1>2, <1>5, <1>6 DEF AppendRecord, IInv, Typed
<1>8. OffsetsNameRecords'
  <2>1. (segs \in Seq(Seg) /\ Len(segs) >= 1 => (OffsetsNameRecords <=> Names(segs, history)))'
    BY NamesMeans, PTL
  <2> QED BY <1>2, <1>5, <2>1
<1> QED BY <1>7, <1>8 DEF IInv

LEMMA ShrinkKeeps ==
    ASSUME IInv, Shrinks(segs, segs'), UNCHANGED <<now, policy, history>>
    PROVE  IInv'
<1>1. segs \in Seq(Seg) /\ Len(segs) >= 1 /\ history \in Seq(Rec) /\ Names(segs, history)
  BY NamesMeans DEF IInv, Typed
<1>2. segs' \in Seq(Seg) /\ Len(segs') >= 1
  BY <1>1 DEF Shrinks
<1>3. Names(segs', history)
  BY <1>1, NamesShrink
<1>4. OffsetsNameRecords'
  <2>1. (segs \in Seq(Seg) /\ Len(segs) >= 1 => (OffsetsNameRecords <=> Names(segs, history)))'
    BY NamesMeans, PTL
  <2> QED BY <1>2, <1>3, <2>1
<1> QED BY <1>2, <1>4 DEF IInv, Typed

LEMMA NextIInv == IInv /\ [Next]_vars => IInv'
<1> SUFFICES ASSUME IInv, [Next]_vars PROVE IInv'
  OBVIOUS
<1>1. segs \in Seq(Seg) /\ Len(segs) >= 1 /\ history \in Seq(Rec) /\ Names(segs, history)
  BY NamesMeans DEF IInv, Typed
<1>2. CASE \E p \in Payloads : AppendRecord(p[1], p[2])
  BY <1>2, AppendKeeps
<1>3. CASE RollSegment
  <2>1. segs' \in Seq(Seg) /\ Len(segs') >= 1 /\ Names(segs', history')
    BY <1>1, <1>3, RolledNames DEF RollSegment
  <2>2. (segs \in Seq(Seg) /\ Len(segs) >= 1 => (OffsetsNameRecords <=> Names(segs, history)))'
    BY NamesMeans, PTL
  <2> QED BY <1>3, <2>1, <2>2 DEF RollSegment, IInv, Typed
<1>4. CASE RunCycle
  BY <1>4, CycleShrinks, ShrinkKeeps DEF RunCycle, IInv
<1>5. CASE Tick
  BY <1>5, LogAssumption DEF Tick, logVars, IInv, Typed, OffsetsNameRecords, EndOffset, Active, LogAssumption
<1>6. CASE UNCHANGED <<segs, now, policy, history>>
  BY <1>6 DEF IInv, Typed, OffsetsNameRecords, EndOffset, Active
<1>7. CASE \E g \in Groups : ResetToEarliest(g) \/ ResetToLatest(g)
  BY <1>6, <1>7 DEF ResetToEarliest, ResetToLatest
<1>8. CASE \E c \in Consumers : Poll(c) \/ Commit(c) \/ Forget(c)
  BY <1>6, <1>8 DEF Poll, Commit, Forget
<1>9. CASE UNCHANGED vars
  BY <1>6, <1>9 DEF vars
<1> QED BY <1>2, <1>3, <1>4, <1>5, <1>7, <1>8, <1>9 DEF Next

LEMMA SpecIInv == Spec => []IInv
BY InitIInv, NextIInv, PTL DEF Spec

(* An offset that was handed out is not handed out again and names the     *)
(* record it was given, whatever is appended, rolled and cleaned.          *)
THEOREM OffsetsNameRecordsHolds == Spec => []OffsetsNameRecords
<1>1. IInv => OffsetsNameRecords
  BY DEF IInv
<1> QED BY <1>1, SpecIInv, PTL

-----------------------------------------------------------------------------
(* The loop of partition_read over the records of a segment, step by step. *)
Takes(w, taken, s, start) ==
    w[0] = taken /\ \A k \in 1 .. Len(s.recs) : w[k] = Take(w[k - 1], s.recs[k], start)

LEMMA TakeSteps ==
    ASSUME NEW taken, NEW s0 \in Seg, NEW start
    PROVE  \E w : Takes(w, taken, s0, start) /\ TakeAll(taken, s0, start) = w[Len(s0.recs)]
<1> DEFINE n == Len(s0.recs)
           Step(g, s) == IF s = {} THEN taken ELSE Take(g[s \ {Max(s)}], s0.recs[Max(s)], start)
           Solves(g, S) == g = [s \in SUBSET S |-> Step(g, s)]
           iter == CHOOSE g : Solves(g, DOMAIN s0.recs)
<1>1. TakeAll(taken, s0, start) = iter[DOMAIN s0.recs]
  BY DEF TakeAll, FoldLeft, MapThenFoldSet
<1>n. n \in Nat /\ DOMAIN s0.recs = 1 .. n
  BY DEF Seg
<1> HIDE DEF n
<1>2. \E g : Solves(g, 1 .. n)
  <2> DEFINE P == { k \in 0 .. n : \E g : Solves(g, 1 .. k) }
  <2>1. 0 \in P
    <3> DEFINE g == [s \in SUBSET (1 .. 0) |-> taken]
    <3>1. SUBSET (1 .. 0) = {{}}
      OBVIOUS
    <3>2. Solves(g, 1 .. 0)
      BY <3>1
    <3> QED BY <1>n, <3>2
  <2>2. ASSUME NEW k \in 1 .. n, k - 1 \in P PROVE k \in P
    <3>1. k - 1 \in Nat /\ k \in Nat
      BY <1>n
    <3>2. PICK f : Solves(f, 1 .. k - 1)
      BY <2>2
    <3> DEFINE g == [s \in SUBSET (1 .. k) |->
                       IF k \in s THEN Take(f[s \ {k}], s0.recs[k], start) ELSE f[s]]
    <3>3. \A s \in SUBSET (1 .. k - 1) : g[s] = f[s] /\ f[s] = Step(f, s)
      <4> TAKE s \in SUBSET (1 .. k - 1)
      <4>1. k \notin s /\ s \in SUBSET (1 .. k)
        BY <3>1
      <4>2. g[s] = f[s]
        BY <4>1
      <4> HIDE DEF Step, g
      <4> QED BY <3>2, <4>2
    <3>4. ASSUME NEW s \in SUBSET (1 .. k) PROVE g[s] = Step(g, s)
      <4>1. CASE k \in s
        <5>1. Max(s) = k
          BY <3>1, <4>1, MaxOfTop
        <5>2. s \ {k} \in SUBSET (1 .. k - 1)
          BY <3>1
        <5>3. g[s \ {k}] = f[s \ {k}]
          BY <3>3, <5>2
        <5>4. g[s] = Take(f[s \ {k}], s0.recs[k], start)
          BY <4>1
        <5> HIDE DEF g
        <5> QED BY <4>1, <5>1, <5>3, <5>4
      <4>2. CASE k \notin s
        <5>1. s \in SUBSET (1 .. k - 1)
          BY <3>1, <4>2
        <5>2. g[s] = f[s] /\ f[s] = Step(f, s)
          BY <3>3, <5>1
        <5>3. s # {} => s \ {Max(s)} \in SUBSET (1 .. k - 1)
          BY <5>1
        <5>4. s # {} => g[s \ {Max(s)}] = f[s \ {Max(s)}]
          BY <3>3, <5>3
        <5> HIDE DEF g
        <5> QED BY <5>2, <5>4
      <4> QED BY <4>1, <4>2
    <3>5. g = [s \in SUBSET (1 .. k) |-> g[s]]
      OBVIOUS
    <3>6. Solves(g, 1 .. k)
      <4> HIDE DEF g, Step
      <4> QED BY <3>4, <3>5
    <3>7. k \in 0 .. n
      BY <1>n
    <3> HIDE DEF g, Solves
    <3> QED BY <3>6, <3>7
  <2>3. n \in 0 .. n
    BY <1>n
  <2>4. n \in P
    <3> HIDE DEF P
    <3> QED BY <1>n, <2>1, <2>2, <2>3, InductionUpTo
  <2> QED BY <2>4
<1>3. Solves(iter, 1 .. n)
  <2> HIDE DEF Solves
  <2> QED BY <1>2, <1>n
<1> HIDE DEF iter
<1>4. \A s \in SUBSET (1 .. n) : iter[s] = Step(iter, s)
  <2> HIDE DEF Step
  <2> QED BY <1>3
<1> HIDE DEF Solves
<1> DEFINE w == [k \in 0 .. n |-> iter[1 .. k]]
<1>5. w[0] = taken
  <2>1. 1 .. 0 = {} /\ {} \in SUBSET (1 .. n)
    OBVIOUS
  <2>2. iter[{}] = taken
    BY <1>4, <2>1
  <2> QED BY <1>n, <2>1, <2>2
<1>6. ASSUME NEW k \in 1 .. n PROVE w[k] = Take(w[k - 1], s0.recs[k], start)
  <2>1. k \in Nat /\ k \in 1 .. k /\ 1 .. k \in SUBSET (1 .. n)
    BY <1>n
  <2>2. Max(1 .. k) = k
    BY <2>1, MaxOfTop
  <2>3. (1 .. k) \ {k} = 1 .. k - 1
    BY <2>1
  <2>4. iter[1 .. k] = Take(iter[1 .. k - 1], s0.recs[k], start)
    BY <1>4, <2>1, <2>2, <2>3
  <2>5. k \in 0 .. n /\ k - 1 \in 0 .. n
    BY <1>n
  <2> QED BY <2>4, <2>5
<1>7. TakeAll(taken, s0, start) = w[n]
  BY <1>1, <1>n
<1> HIDE DEF w
<1> QED BY <1>5, <1>6, <1>7 DEF n, Takes

(* Its loop over the segments.                                             *)
ReadsOn(w, start) ==
    w[0] = <<>> /\ \A k \in 1 .. Len(segs) : w[k] = ReadSegment(w[k - 1], segs[k], start)

LEMMA ReadSteps ==
    ASSUME segs \in Seq(Seg), NEW start
    PROVE  \E w : ReadsOn(w, start) /\ Read(start) = w[Len(segs)]
<1> DEFINE n == Len(segs)
           Step(g, s) == IF s = {} THEN <<>> ELSE ReadSegment(g[s \ {Max(s)}], segs[Max(s)], start)
           Solves(g, S) == g = [s \in SUBSET S |-> Step(g, s)]
           iter == CHOOSE g : Solves(g, DOMAIN segs)
<1>1. Read(start) = iter[DOMAIN segs]
  BY DEF Read, FoldLeft, MapThenFoldSet
<1>n. n \in Nat /\ DOMAIN segs = 1 .. n
  OBVIOUS
<1> HIDE DEF n
<1>2. \E g : Solves(g, 1 .. n)
  <2> DEFINE P == { k \in 0 .. n : \E g : Solves(g, 1 .. k) }
  <2>1. 0 \in P
    <3> DEFINE g == [s \in SUBSET (1 .. 0) |-> <<>>]
    <3>1. SUBSET (1 .. 0) = {{}}
      OBVIOUS
    <3>2. Solves(g, 1 .. 0)
      BY <3>1
    <3> QED BY <1>n, <3>2
  <2>2. ASSUME NEW k \in 1 .. n, k - 1 \in P PROVE k \in P
    <3>1. k - 1 \in Nat /\ k \in Nat
      BY <1>n
    <3>2. PICK f : Solves(f, 1 .. k - 1)
      BY <2>2
    <3> DEFINE g == [s \in SUBSET (1 .. k) |->
                       IF k \in s THEN ReadSegment(f[s \ {k}], segs[k], start) ELSE f[s]]
    <3>3. \A s \in SUBSET (1 .. k - 1) : g[s] = f[s] /\ f[s] = Step(f, s)
      <4> TAKE s \in SUBSET (1 .. k - 1)
      <4>1. k \notin s /\ s \in SUBSET (1 .. k)
        BY <3>1
      <4>2. g[s] = f[s]
        BY <4>1
      <4> HIDE DEF Step, g
      <4> QED BY <3>2, <4>2
    <3>4. ASSUME NEW s \in SUBSET (1 .. k) PROVE g[s] = Step(g, s)
      <4>1. CASE k \in s
        <5>1. Max(s) = k
          BY <3>1, <4>1, MaxOfTop
        <5>2. s \ {k} \in SUBSET (1 .. k - 1)
          BY <3>1
        <5>3. g[s \ {k}] = f[s \ {k}]
          BY <3>3, <5>2
        <5>4. g[s] = ReadSegment(f[s \ {k}], segs[k], start)
          BY <4>1
        <5> HIDE DEF g
        <5> QED BY <4>1, <5>1, <5>3, <5>4
      <4>2. CASE k \notin s
        <5>1. s \in SUBSET (1 .. k - 1)
          BY <3>1, <4>2
        <5>2. g[s] = f[s] /\ f[s] = Step(f, s)
          BY <3>3, <5>1
        <5>3. s # {} => s \ {Max(s)} \in SUBSET (1 .. k - 1)
          BY <5>1
        <5>4. s # {} => g[s \ {Max(s)}] = f[s \ {Max(s)}]
          BY <3>3, <5>3
        <5> HIDE DEF g
        <5> QED BY <5>2, <5>4
      <4> QED BY <4>1, <4>2
    <3>5. g = [s \in SUBSET (1 .. k) |-> g[s]]
      OBVIOUS
    <3>6. Solves(g, 1 .. k)
      <4> HIDE DEF g, Step
      <4> QED BY <3>4, <3>5
    <3>7. k \in 0 .. n
      BY <1>n
    <3> HIDE DEF g, Solves
    <3> QED BY <3>6, <3>7
  <2>3. n \in 0 .. n
    BY <1>n
  <2>4. n \in P
    <3> HIDE DEF P
    <3> QED BY <1>n, <2>1, <2>2, <2>3, InductionUpTo
  <2> QED BY <2>4
<1>3. Solves(iter, 1 .. n)
  <2> HIDE DEF Solves
  <2> QED BY <1>2, <1>n
<1> HIDE DEF iter
<1>4. \A s \in SUBSET (1 .. n) : iter[s] = Step(iter, s)
  <2> HIDE DEF Step
  <2> QED BY <1>3
<1> HIDE DEF Solves
<1> DEFINE w == [k \in 0 .. n |-> iter[1 .. k]]
<1>5. w[0] = <<>>
  <2>1. 1 .. 0 = {} /\ {} \in SUBSET (1 .. n)
    OBVIOUS
  <2>2. iter[{}] = <<>>
    BY <1>4, <2>1
  <2> QED BY <1>n, <2>1, <2>2
<1>6. ASSUME NEW k \in 1 .. n PROVE w[k] = ReadSegment(w[k - 1], segs[k], start)
  <2>1. k \in Nat /\ k \in 1 .. k /\ 1 .. k \in SUBSET (1 .. n)
    BY <1>n
  <2>2. Max(1 .. k) = k
    BY <2>1, MaxOfTop
  <2>3. (1 .. k) \ {k} = 1 .. k - 1
    BY <2>1
  <2>4. iter[1 .. k] = ReadSegment(iter[1 .. k - 1], segs[k], start)
    BY <1>4, <2>1, <2>2, <2>3
  <2>5. k \in 0 .. n /\ k - 1 \in 0 .. n
    BY <1>n
  <2> QED BY <2>4, <2>5
<1>7. Read(start) = w[n]
  BY <1>1, <1>n
<1> HIDE DEF w
<1> QED BY <1>5, <1>6, <1>7 DEF n, ReadsOn

-----------------------------------------------------------------------------
(* What partition_read returns: every offset of the log from the start to  *)
(* the last one it returns.  The segments hold rising ranges of offsets.   *)
Offsets(ss) == { r.offset : r \in RecordsOf(ss) }
Ordered(ss) == \A i, k \in 1 .. Len(ss) : i < k => EndOf(ss[i]) <= ss[k].base

LEMMA InRecordsOf ==
    ASSUME NEW ss \in Seq(Seg), NEW r
    PROVE  r \in RecordsOf(ss) <=>
              \E i \in 1 .. Len(ss) : \E j \in 1 .. Len(ss[i].recs) : r = ss[i].recs[j]
<1>1. DOMAIN ss = 1 .. Len(ss) /\ \A i \in 1 .. Len(ss) : ss[i] \in Seg
  OBVIOUS
<1>2. \A i \in 1 .. Len(ss) : DOMAIN ss[i].recs = 1 .. Len(ss[i].recs)
  BY <1>1 DEF Seg
<1> QED BY <1>1, <1>2 DEF RecordsOf, ToSet

LEMMA RecordTyped ==
    ASSUME NEW ss \in Seq(Seg), NEW r \in RecordsOf(ss)
    PROVE  r \in Rec /\ r.offset \in Nat
<1>1. PICK i \in 1 .. Len(ss) : \E j \in 1 .. Len(ss[i].recs) : r = ss[i].recs[j]
  BY InRecordsOf
<1>2. ss[i] \in Seg
  OBVIOUS
<1>3. ss[i].recs \in Seq(Rec)
  BY <1>2 DEF Seg
<1>4. r \in Rec
  BY <1>1, <1>3
<1> QED BY <1>4 DEF Rec

(* Where an offset of the log is.                                          *)
LEMMA OffsetInSegment ==
    ASSUME NEW ss \in Seq(Seg), NEW h \in Seq(Rec), Names(ss, h), NEW o \in Offsets(ss)
    PROVE  /\ o \in Nat /\ o < Len(h)
           /\ \E i \in 1 .. Len(ss) : ss[i].base <= o /\ o < EndOf(ss[i])
<1>1. PICK r \in RecordsOf(ss) : r.offset = o
  BY DEF Offsets
<1>2. PICK i \in 1 .. Len(ss) : \E j \in 1 .. Len(ss[i].recs) : r = ss[i].recs[j]
  BY InRecordsOf
<1>3. PICK j \in 1 .. Len(ss[i].recs) : r = ss[i].recs[j]
  BY <1>2
<1>4. ss[i] \in Seg
  OBVIOUS
<1>5. ss[i].base \in Nat /\ Len(ss[i].recs) \in Nat
  BY <1>4 DEF Seg
<1>6. o = ss[i].base + j - 1 /\ o < Len(h)
  BY <1>1, <1>3 DEF Names
<1>7. ss[i].base <= o /\ o < EndOf(ss[i]) /\ o \in Nat
  BY <1>5, <1>6, SMTT(60) DEF EndOf
<1> QED BY <1>6, <1>7

(* What has been taken when the loops come to offset b: an offset below b  *)
(* that was wanted and is missing found no room.                           *)
Taken(O, acc, start, b) ==
    /\ acc \in Seq(Nat)
    /\ \A i \in 1 .. Len(acc) : acc[i] < b
    /\ \A o \in O : start <= o /\ o < b /\ o \notin ToSet(acc)
          => Len(acc) >= FetchMax /\ acc[Len(acc)] < o

LEMMA TakeOne ==
    ASSUME NEW O \in SUBSET Nat, NEW acc, NEW start \in Int, NEW r \in Rec,
           Taken(O, acc, start, r.offset)
    PROVE  Taken(O, Take(acc, r, start), start, r.offset + 1)
<1> DEFINE b == r.offset
<1>1. b \in Nat /\ acc \in Seq(Nat) /\ Len(acc) \in Nat
  BY DEF Rec, Taken
<1>2. FetchMax \in Nat \ {0}
  BY LogAssumption DEF LogAssumption
<1>3. CASE Len(acc) < FetchMax /\ b >= start
  <2> DEFINE acc2 == Append(acc, b)
  <2>1. Take(acc, r, start) = acc2
    BY <1>3 DEF Take
  <2>2. /\ acc2 \in Seq(Nat) /\ Len(acc2) = Len(acc) + 1 /\ acc2[Len(acc) + 1] = b
        /\ \A i \in 1 .. Len(acc) : acc2[i] = acc[i]
    BY <1>1
  <2> HIDE DEF acc2, b
  <2>3. ToSet(acc) \subseteq ToSet(acc2) /\ b \in ToSet(acc2)
    <3>1. DOMAIN acc = 1 .. Len(acc) /\ DOMAIN acc2 = 1 .. Len(acc) + 1
      BY <1>1, <2>2
    <3> QED BY <1>1, <2>2, <3>1, SMTT(60) DEF ToSet
  <2>4. \A o \in O : start <= o /\ o < b + 1 => o \in ToSet(acc2)
    <3> SUFFICES ASSUME NEW o \in O, start <= o, o < b + 1, o # b PROVE o \in ToSet(acc)
      BY <2>3
    <3>1. o < b
      BY <1>1
    <3> QED BY <1>1, <1>2, <1>3, <3>1 DEF Taken, b
  <2>5. \A i \in 1 .. Len(acc2) : acc2[i] < b + 1
    <3>1. \A i \in 1 .. Len(acc) : acc[i] < b /\ acc[i] \in Nat
      BY <1>1 DEF Taken, b
    <3>2. ASSUME NEW i \in 1 .. Len(acc) PROVE acc2[i] < b + 1
      <4>1. acc2[i] = acc[i] /\ acc[i] < b /\ acc[i] \in Nat
        BY <2>2, <3>1
      <4> QED BY <1>1, <4>1
    <3>3. b < b + 1
      BY <1>1
    <3>4. \A i \in 1 .. Len(acc2) : i \in 1 .. Len(acc) \/ i = Len(acc) + 1
      BY <1>1, <2>2
    <3> QED BY <2>2, <3>2, <3>3, <3>4
  <2>6. Taken(O, acc2, start, b + 1)
    BY <2>2, <2>4, <2>5 DEF Taken
  <2> QED BY <2>1, <2>6 DEF b
<1>4. CASE ~(Len(acc) < FetchMax /\ b >= start)
  <2>1. Take(acc, r, start) = acc
    BY <1>4 DEF Take
  <2> HIDE DEF b
  <2>2. \A i \in 1 .. Len(acc) : acc[i] < b /\ acc[i] \in Nat /\ acc[i] < b + 1
    <3>1. \A i \in 1 .. Len(acc) : acc[i] < b /\ acc[i] \in Nat
      BY <1>1 DEF Taken, b
    <3> QED BY <1>1, <3>1
  <2>3. ASSUME NEW o \in O, start <= o, o < b + 1, o \notin ToSet(acc)
        PROVE  Len(acc) >= FetchMax /\ acc[Len(acc)] < o
    <3>1. CASE o < b
      BY <2>3, <3>1 DEF Taken, b
    <3>2. CASE o = b
      <4>1. Len(acc) >= FetchMax /\ Len(acc) \in 1 .. Len(acc)
        BY <1>1, <1>2, <1>4, <2>3, <3>2
      <4> QED BY <2>2, <3>2, <4>1
    <3> QED BY <1>1, <2>3, <3>1, <3>2
  <2>4. Taken(O, acc, start, b + 1)
    BY <1>1, <2>2, <2>3 DEF Taken
  <2> QED BY <2>1, <2>4 DEF b
<1> QED BY <1>3, <1>4

LEMMA TakeGap ==
    ASSUME NEW O \in SUBSET Nat, NEW acc, NEW start \in Int, NEW b \in Int, NEW b2 \in Int,
           b <= b2, \A o \in O : ~(b <= o /\ o < b2), Taken(O, acc, start, b)
    PROVE  Taken(O, acc, start, b2)
<1>1. acc \in Seq(Nat)
  BY DEF Taken
<1>2. \A i \in 1 .. Len(acc) : acc[i] < b2
  <2>1. \A i \in 1 .. Len(acc) : acc[i] < b /\ acc[i] \in Nat
    BY <1>1 DEF Taken
  <2> QED BY <2>1
<1>3. \A o \in O : o < b2 => o < b
  OBVIOUS
<1> QED BY <1>1, <1>2, <1>3 DEF Taken

LEMMA SegmentTaken ==
    ASSUME NEW O \in SUBSET Nat, NEW acc, NEW start \in Int, NEW s \in Seg,
           \A j \in 1 .. Len(s.recs) : s.recs[j].offset = s.base + j - 1,
           Taken(O, acc, start, s.base)
    PROVE  Taken(O, ReadSegment(acc, s, start), start, EndOf(s))
<1> DEFINE n == Len(s.recs)
<1>1. s.base \in Nat /\ s.recs \in Seq(Rec) /\ n \in Nat
  BY DEF Seg
<1>2. CASE start >= EndOf(s)
  <2>1. ReadSegment(acc, s, start) = acc
    BY <1>2 DEF ReadSegment
  <2>2. EndOf(s) = s.base + n /\ EndOf(s) \in Nat
    BY <1>1 DEF EndOf
  <2>3. \A o \in O : ~(start <= o /\ o < EndOf(s))
    BY <1>2, <2>2
  <2>4. acc \in Seq(Nat)
    BY DEF Taken
  <2>5. \A i \in 1 .. Len(acc) : acc[i] < EndOf(s)
    <3>1. \A i \in 1 .. Len(acc) : acc[i] < s.base /\ acc[i] \in Nat
      BY <2>4 DEF Taken
    <3> QED BY <1>1, <2>2, <3>1
  <2> QED BY <2>1, <2>3, <2>4, <2>5 DEF Taken
<1>3. CASE ~(start >= EndOf(s))
  <2>1. PICK w : Takes(w, acc, s, start) /\ TakeAll(acc, s, start) = w[n]
    BY TakeSteps
  <2> DEFINE P == { k \in 0 .. n : Taken(O, w[k], start, s.base + k) }
  <2>2. 0 \in P
    <3>1. w[0] = acc /\ s.base + 0 = s.base /\ 0 \in 0 .. n
      BY <1>1, <2>1 DEF Takes
    <3> QED BY <3>1
  <2>3. ASSUME NEW k \in 1 .. n, k - 1 \in P PROVE k \in P
    <3>1. s.recs[k] \in Rec /\ k \in 0 .. n
      BY <1>1
    <3>2. s.recs[k].offset = s.base + (k - 1) /\ s.recs[k].offset + 1 = s.base + k
      BY <1>1
    <3>3. Taken(O, w[k - 1], start, s.recs[k].offset)
      BY <2>3, <3>2
    <3>4. Taken(O, Take(w[k - 1], s.recs[k], start), start, s.base + k)
      BY <3>1, <3>2, <3>3, TakeOne
    <3>5. w[k] = Take(w[k - 1], s.recs[k], start)
      BY <2>1 DEF Takes
    <3> QED BY <3>1, <3>4, <3>5
  <2>4. n \in P
    <3>1. n \in 0 .. n
      BY <1>1
    <3> HIDE DEF P, n
    <3> QED BY <1>1, <2>2, <2>3, <3>1, InductionUpTo
  <2>5. ReadSegment(acc, s, start) = w[n]
    BY <1>3, <2>1 DEF ReadSegment
  <2> QED BY <2>4, <2>5 DEF EndOf
<1> QED BY <1>2, <1>3

LEMMA AllTaken ==
    ASSUME Typed, Names(segs, history), Ordered(segs), NEW start \in Int
    PROVE  Taken(Offsets(segs), Read(start), start, Len(history))
<1> DEFINE O == Offsets(segs)
           n == Len(segs)
           B(k) == IF k = 0 THEN segs[1].base ELSE EndOf(segs[k])
<1>1. segs \in Seq(Seg) /\ history \in Seq(Rec) /\ n \in Nat /\ n >= 1
  BY DEF Typed
<1>2. \A k \in 1 .. n : segs[k] \in Seg
  BY <1>1
<1>3. \A k \in 1 .. n : segs[k].base \in Nat /\ EndOf(segs[k]) \in Nat /\ segs[k].base <= EndOf(segs[k])
  BY <1>2 DEF EndOf, Seg
<1>4. \A o \in O : o \in Nat /\ \E i \in 1 .. n : segs[i].base <= o /\ o < EndOf(segs[i])
  BY <1>1, OffsetInSegment
<1>5. \A i, k \in 1 .. n : i < k => EndOf(segs[i]) <= segs[k].base
  BY DEF Ordered
<1>6. PICK w : ReadsOn(w, start) /\ Read(start) = w[n]
  BY <1>1, ReadSteps
<1> HIDE DEF O, n
<1>O. O \in SUBSET Nat
  BY <1>4
<1> DEFINE P == { k \in 0 .. n : Taken(O, w[k], start, B(k)) }
<1>7. 0 \in P
  <2>1. \A o \in O : ~(o < segs[1].base)
    <3> SUFFICES ASSUME NEW o \in O, o < segs[1].base PROVE FALSE
      OBVIOUS
    <3>1. PICK i \in 1 .. n : segs[i].base <= o
      BY <1>4
    <3>2. 1 \in 1 .. n /\ segs[1].base <= EndOf(segs[1])
      BY <1>1, <1>3
    <3>3. i = 1 \/ EndOf(segs[1]) <= segs[i].base
      BY <1>5, <3>2
    <3> QED BY <1>3, <1>4, <3>1, <3>2, <3>3
  <2>2. Taken(O, <<>>, start, segs[1].base)
    <3>1. <<>> \in Seq(Nat) /\ Len(<<>>) = 0
      OBVIOUS
    <3> QED BY <2>1, <3>1 DEF Taken
  <2>3. w[0] = <<>> /\ 0 \in 0 .. n
    BY <1>1, <1>6 DEF ReadsOn
  <2> QED BY <2>2, <2>3
<1>8. ASSUME NEW k \in 1 .. n, k - 1 \in P PROVE k \in P
  <2>0. k \in 0 .. n /\ k - 1 \in 0 .. n /\ B(k) = EndOf(segs[k])
    BY <1>1
  <2>1. B(k - 1) \in Int /\ B(k - 1) <= segs[k].base
    <3>1. CASE k = 1
      BY <1>1, <1>3, <3>1
    <3>2. CASE k # 1
      <4>1. k - 1 \in 1 .. n /\ k - 1 < k
        BY <1>1, <3>2
      <4> QED BY <1>3, <1>5, <4>1
    <3> QED BY <3>1, <3>2
  <2>2. \A o \in O : ~(B(k - 1) <= o /\ o < segs[k].base)
    <3> SUFFICES ASSUME NEW o \in O, B(k - 1) <= o, o < segs[k].base PROVE FALSE
      OBVIOUS
    <3>1. PICK i \in 1 .. n : segs[i].base <= o /\ o < EndOf(segs[i])
      BY <1>4
    <3>2. o \in Nat
      BY <1>4
    <3>3. CASE i >= k
      <4>1. i = k \/ EndOf(segs[k]) <= segs[i].base
        BY <1>5, <3>3
      <4> QED BY <1>3, <3>1, <3>2, <4>1
    <3>4. CASE i < k
      <4>1. k # 1 /\ k - 1 \in 1 .. n /\ B(k - 1) = EndOf(segs[k - 1])
        BY <1>1, <3>4
      <4>2. i = k - 1 \/ EndOf(segs[i]) <= segs[k - 1].base
        BY <1>5, <3>4, <4>1
      <4> QED BY <1>3, <3>1, <3>2, <4>1, <4>2
    <3> QED BY <3>3, <3>4
  <2>3. Taken(O, w[k - 1], start, B(k - 1))
    BY <1>8
  <2> HIDE DEF B
  <2>4. Taken(O, w[k - 1], start, segs[k].base)
    BY <1>3, <1>O, <2>1, <2>2, <2>3, TakeGap
  <2>5. \A j \in 1 .. Len(segs[k].recs) : segs[k].recs[j].offset = segs[k].base + j - 1
    BY DEF Names, n
  <2>6. Taken(O, ReadSegment(w[k - 1], segs[k], start), start, EndOf(segs[k]))
    BY <1>2, <1>O, <2>4, <2>5, SegmentTaken
  <2>7. w[k] = ReadSegment(w[k - 1], segs[k], start)
    BY <1>6 DEF ReadsOn, n
  <2> QED BY <2>0, <2>6, <2>7
<1>9. n \in P
  <2>1. n \in 0 .. n
    BY <1>1
  <2> HIDE DEF P
  <2> QED BY <1>1, <1>7, <1>8, <2>1, InductionUpTo
<1>10. B(n) = Len(history)
  BY <1>1 DEF Names, n
<1> QED BY <1>6, <1>9, <1>10 DEF O

-----------------------------------------------------------------------------
(* What the steps of the log do to the offsets that it holds.              *)
LEMMA ShrinksOrdered ==
    ASSUME NEW ss \in Seq(Seg), Len(ss) >= 1, NEW tt, Shrinks(ss, tt), Ordered(ss)
    PROVE  Ordered(tt)
<1>1. tt \in Seq(Seg) /\ Len(tt) = Len(ss)
  BY DEF Shrinks
<1>2. ASSUME NEW i \in 1 .. Len(ss)
      PROVE  /\ tt[i].base = ss[i].base /\ ss[i].base \in Nat
             /\ EndOf(tt[i]) \in Nat /\ EndOf(ss[i]) \in Nat /\ EndOf(tt[i]) <= EndOf(ss[i])
  <2>1. ss[i] \in Seg /\ tt[i] \in Seg
    BY <1>1
  <2>2. /\ ss[i].base \in Nat /\ ss[i].recs \in Seq(Rec)
        /\ tt[i].base \in Nat /\ tt[i].recs \in Seq(Rec)
    BY <2>1 DEF Seg
  <2>3. tt[i].base = ss[i].base
    BY DEF Shrinks
  <2>4. Len(tt[i].recs) = 0 \/ Len(tt[i].recs) = Len(ss[i].recs)
    BY <2>2 DEF Shrinks
  <2> QED BY <2>2, <2>3, <2>4, SMTT(60) DEF EndOf
<1>3. \A i, k \in 1 .. Len(ss) : i < k => EndOf(ss[i]) <= ss[k].base
  BY DEF Ordered
<1>4. \A i, k \in 1 .. Len(ss) : i < k => EndOf(tt[i]) <= tt[k].base
  <2> SUFFICES ASSUME NEW i \in 1 .. Len(ss), NEW k \in 1 .. Len(ss), i < k
               PROVE  EndOf(tt[i]) <= tt[k].base
    OBVIOUS
  <2>1. EndOf(ss[i]) <= ss[k].base
    BY <1>3
  <2> QED BY <1>2, <2>1
<1> QED BY <1>1, <1>4 DEF Ordered

LEMMA ShrinksOffsets ==
    ASSUME NEW ss \in Seq(Seg), Len(ss) >= 1, NEW tt, Shrinks(ss, tt)
    PROVE  Offsets(tt) \subseteq Offsets(ss)
<1> SUFFICES ASSUME NEW o \in Offsets(tt) PROVE o \in Offsets(ss)
  OBVIOUS
<1>1. tt \in Seq(Seg) /\ Len(tt) = Len(ss)
  BY DEF Shrinks
<1>2. PICK r \in RecordsOf(tt) : r.offset = o
  BY DEF Offsets
<1>3. PICK i \in 1 .. Len(tt) : \E j \in 1 .. Len(tt[i].recs) : r = tt[i].recs[j]
  BY <1>1, InRecordsOf
<1>4. PICK j \in 1 .. Len(tt[i].recs) : r = tt[i].recs[j]
  BY <1>3
<1>5. tt[i].recs # <<>>
  BY <1>4
<1>6. /\ Len(tt[i].recs) = Len(ss[i].recs)
      /\ tt[i].recs[j] = ss[i].recs[j] \/ tt[i].recs[j] = Blank(ss[i].recs[j])
  BY <1>1, <1>5 DEF Shrinks
<1> DEFINE q == ss[i].recs[j]
<1>7. q \in RecordsOf(ss)
  BY <1>1, <1>6, InRecordsOf
<1>8. q \in Rec
  BY <1>7, RecordTyped
<1> HIDE DEF q
<1>9. r = q \/ r = Blank(q)
  BY <1>4, <1>6 DEF q
<1>10. r.offset = q.offset
  BY <1>8, <1>9, BlankFacts
<1> QED BY <1>2, <1>7, <1>10 DEF Offsets

LEMMA RolledRecords ==
    ASSUME NEW ss \in Seq(Seg), Len(ss) >= 1, Ordered(ss)
    PROVE  Ordered(Rolled(ss)) /\ RecordsOf(Rolled(ss)) = RecordsOf(ss)
<1>1. CASE Len(ss) >= MaxSegments
  BY <1>1 DEF Rolled
<1>2. CASE ~(Len(ss) >= MaxSegments)
  <2> DEFINE n == Len(ss)
             new == Segment(EndOf(ss[n]))
             tt == Append(ss, new)
  <2>0. n \in Nat /\ n >= 1
    OBVIOUS
  <2>1. \A i \in 1 .. n : ss[i] \in Seg
    OBVIOUS
  <2>2. \A i \in 1 .. n : ss[i].base \in Nat /\ EndOf(ss[i]) \in Nat /\ ss[i].base <= EndOf(ss[i])
    BY <2>1 DEF EndOf, Seg
  <2>3. new.base = EndOf(ss[n]) /\ new.recs = <<>> /\ new \in Seg
    BY <2>0, <2>2 DEF Segment, Seg
  <2> HIDE DEF new
  <2>4. tt \in Seq(Seg) /\ Len(tt) = n + 1 /\ tt[n + 1] = new /\ \A i \in 1 .. n : tt[i] = ss[i]
    BY <2>3
  <2> HIDE DEF tt
  <2>5. Ordered(tt)
    <3> SUFFICES ASSUME NEW i \in 1 .. n + 1, NEW k \in 1 .. n + 1, i < k
                 PROVE  EndOf(tt[i]) <= tt[k].base
      BY <2>4 DEF Ordered
    <3>0. \A a, b \in 1 .. n : a < b => EndOf(ss[a]) <= ss[b].base
      BY DEF Ordered
    <3>1. CASE k \in 1 .. n
      <4>1. i \in 1 .. n
        BY <3>1
      <4> QED BY <2>4, <3>0, <3>1, <4>1
    <3>2. CASE k = n + 1
      <4>1. i \in 1 .. n /\ tt[i] = ss[i] /\ n \in 1 .. n
        BY <2>0, <2>4, <3>2
      <4>2. CASE i = n
        BY <2>2, <2>3, <2>4, <3>2, <4>1, <4>2
      <4>3. CASE i # n
        <5>1. EndOf(ss[i]) <= ss[n].base
          BY <3>0, <4>1, <4>3
        <5>2. EndOf(ss[i]) <= EndOf(ss[n])
          BY <2>2, <4>1, <5>1
        <5> QED BY <2>3, <2>4, <3>2, <4>1, <5>2
      <4> QED BY <4>2, <4>3
    <3> QED BY <3>1, <3>2
  <2>6. ASSUME NEW r \in RecordsOf(ss) PROVE r \in RecordsOf(tt)
    <3>1. PICK i \in 1 .. n : \E j \in 1 .. Len(ss[i].recs) : r = ss[i].recs[j]
      BY InRecordsOf
    <3>2. i \in 1 .. n + 1 /\ tt[i] = ss[i]
      BY <2>0, <2>4
    <3> QED BY <2>4, <3>1, <3>2, InRecordsOf
  <2>8. ASSUME NEW r \in RecordsOf(tt) PROVE r \in RecordsOf(ss)
    <3>1. PICK i \in 1 .. n + 1 : \E j \in 1 .. Len(tt[i].recs) : r = tt[i].recs[j]
      BY <2>4, InRecordsOf
    <3>2. i # n + 1
      BY <2>3, <2>4, <3>1
    <3>3. i \in 1 .. n /\ tt[i] = ss[i]
      BY <2>4, <3>2
    <3> QED BY <3>1, <3>3, InRecordsOf
  <2>7. Rolled(ss) = tt
    BY <1>2 DEF Rolled, tt, new
  <2> QED BY <2>5, <2>6, <2>7, <2>8
<1> QED BY <1>1, <1>2

LEMMA ExtendedRecords ==
    ASSUME NEW ss \in Seq(Seg), Len(ss) >= 1, Ordered(ss),
           NEW new \in Rec, NEW tt, tt = Extended(ss, new)
    PROVE  Ordered(tt) /\ RecordsOf(tt) = RecordsOf(ss) \cup {new}
<1> DEFINE n == Len(ss)
           s == ss[n]
<1>1. n \in Nat /\ n >= 1 /\ s \in Seg
  OBVIOUS
<1>2. s.recs \in Seq(Rec)
  BY <1>1 DEF Seg
<1>3. /\ tt \in Seq(Seg) /\ Len(tt) = n /\ tt[n].base = s.base
      /\ tt[n].recs = Append(s.recs, new)
      /\ \A i \in 1 .. n : i # n => tt[i] = ss[i]
  BY ExtendedFacts
<1>4. Ordered(tt)
  <2> SUFFICES ASSUME NEW i \in 1 .. n, NEW k \in 1 .. n, i < k
               PROVE  EndOf(tt[i]) <= tt[k].base
    BY <1>3 DEF Ordered
  <2>1. tt[i] = ss[i] /\ tt[k].base = ss[k].base
    BY <1>3
  <2> QED BY <2>1 DEF Ordered
<1>5. ASSUME NEW r \in RecordsOf(tt) PROVE r \in RecordsOf(ss) \cup {new}
  <2>1. PICK i \in 1 .. n : \E j \in 1 .. Len(tt[i].recs) : r = tt[i].recs[j]
    BY <1>3, InRecordsOf
  <2>2. PICK j \in 1 .. Len(tt[i].recs) : r = tt[i].recs[j]
    BY <2>1
  <2>3. CASE i # n
    BY <1>3, <2>2, <2>3, InRecordsOf
  <2>4. CASE i = n
    <3>1. r = new \/ (j \in 1 .. Len(s.recs) /\ r = s.recs[j])
      <4> DEFINE q == s.recs
      <4>1. q \in Seq(Rec) /\ tt[i].recs = Append(q, new)
        BY <1>2, <1>3, <2>4
      <4> HIDE DEF q, s
      <4>2. j \in 1 .. Len(q) + 1 /\ r = Append(q, new)[j]
        BY <2>2, <4>1
      <4>3. r = new \/ (j \in 1 .. Len(q) /\ r = q[j])
        BY <4>1, <4>2
      <4> QED BY <4>3 DEF q
    <3> QED BY <1>1, <3>1, InRecordsOf
  <2> QED BY <2>3, <2>4
<1>6. new \in RecordsOf(tt)
  <2>1. Len(tt[n].recs) = Len(s.recs) + 1 /\ tt[n].recs[Len(s.recs) + 1] = new
    BY <1>2, <1>3
  <2>2. Len(s.recs) + 1 \in 1 .. Len(s.recs) + 1 /\ n \in 1 .. n
    BY <1>1, <1>2
  <2> QED BY <1>3, <2>1, <2>2, InRecordsOf
<1>7. ASSUME NEW r \in RecordsOf(ss) PROVE r \in RecordsOf(tt)
  <2>1. PICK i \in 1 .. n : \E j \in 1 .. Len(ss[i].recs) : r = ss[i].recs[j]
    BY InRecordsOf
  <2>2. PICK j \in 1 .. Len(ss[i].recs) : r = ss[i].recs[j]
    BY <2>1
  <2>3. j \in 1 .. Len(tt[i].recs) /\ tt[i].recs[j] = ss[i].recs[j]
    <3>1. CASE i # n
      BY <1>3, <3>1
    <3>2. CASE i = n
      <4> DEFINE q == s.recs
      <4>1. q \in Seq(Rec) /\ j \in 1 .. Len(q) /\ tt[i].recs = Append(q, new) /\ ss[i].recs = q
        BY <1>2, <1>3, <2>2, <3>2
      <4> HIDE DEF q
      <4>2. j \in 1 .. Len(Append(q, new)) /\ Append(q, new)[j] = q[j]
        BY <4>1
      <4> QED BY <4>1, <4>2
    <3> QED BY <3>1, <3>2
  <2> QED BY <1>3, <2>2, <2>3, InRecordsOf
<1> QED BY <1>4, <1>5, <1>6, <1>7

(* What is below the offset of a group is settled, and so is, once it is   *)
(* committed, what a consumer holds: all up to the last record it has read. *)
HoldsOn(h, S) ==
    h # <<>> => /\ h[Len(h)] < Len(history)
                /\ \A o \in Offsets(segs) : o <= h[Len(h)] => o \in S \cup ToSet(h)
GroupsTyped ==
    /\ committed \in [Groups -> Nat] /\ settled \in [Groups -> SUBSET Nat]
    /\ held \in [Consumers -> Seq(Nat)]
GroupInv ==
    /\ GroupsTyped
    /\ \A g \in Groups : /\ committed[g] <= Len(history)
                         /\ \A o \in Offsets(segs) : o < committed[g] => o \in settled[g]
    /\ \A c \in Consumers : HoldsOn(held[c], settled[GroupOf[c]])

GInv == IInv /\ Ordered(segs) /\ GroupInv

LEMMA InitGInv == Init => GInv
<1> SUFFICES ASSUME Init PROVE GInv
  OBVIOUS
<1>1. IInv /\ segs = <<Segment(0)>> /\ history = <<>>
  BY InitIInv DEF Init
<1>2. Len(segs) = 1 /\ segs[1] = Segment(0) /\ segs \in Seq(Seg)
  BY <1>1 DEF IInv, Typed
<1>3. Ordered(segs)
  BY <1>2 DEF Ordered
<1>4. RecordsOf(segs) = {}
  <2>1. \A i \in 1 .. Len(segs) : segs[i].recs = <<>>
    BY <1>2 DEF Segment
  <2> QED BY <1>2, <2>1, InRecordsOf
<1>5. \A c \in Consumers : held[c] = <<>>
  BY DEF Init
<1>6. GroupsTyped
  BY DEF Init, GroupsTyped
<1>7. \A g \in Groups : committed[g] = 0
  BY DEF Init
<1> QED BY <1>1, <1>3, <1>4, <1>5, <1>6, <1>7 DEF GInv, GroupInv, Offsets, HoldsOn

(* A step of the log brings no offset but that of the end.                 *)
LEMMA LogKeepsGroups ==
    ASSUME GInv, UNCHANGED <<committed, held, settled>>,
           history' \in Seq(Rec), Len(history') >= Len(history),
           Offsets(segs') \subseteq Offsets(segs) \cup {Len(history)}
    PROVE  GroupInv'
<1>1. GroupsTyped /\ GroupsTyped' /\ Len(history) \in Nat /\ Len(history') \in Nat
  BY DEF GInv, IInv, Typed, GroupInv, GroupsTyped
<1>2. GroupOf \in [Consumers -> Groups]
  BY LogAssumption DEF LogAssumption
<1>3. ASSUME NEW g \in Groups
      PROVE  /\ committed'[g] <= Len(history')
             /\ \A o \in Offsets(segs') : o < committed'[g] => o \in settled'[g]
  <2>1. committed[g] \in Nat /\ committed[g] <= Len(history)
    BY <1>1 DEF GInv, GroupInv, GroupsTyped
  <2>2. \A o \in Offsets(segs) : o < committed[g] => o \in settled[g]
    BY DEF GInv, GroupInv
  <2>3. ~(Len(history) < committed[g])
    BY <1>1, <2>1
  <2>4. committed'[g] <= Len(history')
    BY <1>1, <2>1
  <2> QED BY <2>2, <2>3, <2>4
<1>4. ASSUME NEW c \in Consumers PROVE HoldsOn(held[c], settled[GroupOf[c]])'
  <2> DEFINE h == held[c]
  <2> SUFFICES ASSUME h # <<>>
               PROVE  /\ h[Len(h)] < Len(history')
                      /\ \A o \in Offsets(segs') : o <= h[Len(h)] => o \in settled[GroupOf[c]] \cup ToSet(h)
    BY DEF HoldsOn
  <2>1. /\ h[Len(h)] < Len(history)
        /\ \A o \in Offsets(segs) : o <= h[Len(h)] => o \in settled[GroupOf[c]] \cup ToSet(h)
    BY DEF GInv, GroupInv, HoldsOn
  <2>2. h \in Seq(Nat)
    BY <1>1 DEF GroupsTyped
  <2>3. h[Len(h)] \in Nat
    <3> HIDE DEF h
    <3> QED BY <2>2
  <2>4. ~(Len(history) <= h[Len(h)]) /\ h[Len(h)] < Len(history')
    BY <1>1, <2>1, <2>3
  <2> QED BY <2>1, <2>4
<1> QED BY <1>1, <1>3, <1>4 DEF GroupInv

LEMMA SettledGrows ==
    ASSUME NEW h, NEW S, NEW T, S \subseteq T, HoldsOn(h, S), UNCHANGED <<segs, history>>
    PROVE  HoldsOn(h, T)'
BY DEF HoldsOn

LEMMA ReadHolds ==
    ASSUME GInv, NEW g \in Groups, Read(Fetched(g)) # <<>>
    PROVE  Read(Fetched(g)) \in Seq(Nat) /\ HoldsOn(Read(Fetched(g)), settled[g])
<1> DEFINE start == Fetched(g)
           h == Read(start)
           O == Offsets(segs)
<1>1. Typed /\ Names(segs, history) /\ Ordered(segs) /\ committed[g] \in Nat
  BY NamesMeans DEF GInv, IInv, Typed, GroupInv, GroupsTyped
<1>2. start \in Int /\ \A o \in O : o \in Nat /\ (o < start => o \in settled[g])
  <2>1. \A o \in O : o \in Nat /\ (o < committed[g] => o \in settled[g])
    BY <1>1, OffsetInSegment DEF Typed, GInv, GroupInv
  <2> QED BY <1>1, <2>1 DEF Fetched
<1>3. Taken(O, h, start, Len(history))
  <2> HIDE DEF start
  <2> QED BY <1>1, <1>2, AllTaken
<1> HIDE DEF h, start, O
<1>4. h \in Seq(Nat) /\ Len(h) \in Nat
  BY <1>3 DEF Taken
<1>5. h # <<>>
  BY DEF h, start
<1>6. Len(h) \in 1 .. Len(h) /\ h[Len(h)] \in Nat
  BY <1>4, <1>5
<1>7. h[Len(h)] < Len(history)
  BY <1>3, <1>6 DEF Taken
<1>8. ASSUME NEW o \in O, o <= h[Len(h)] PROVE o \in settled[g] \cup ToSet(h)
  <2>1. CASE o < start
    BY <1>2, <2>1
  <2>2. CASE start <= o
    <3>1. o < Len(history) /\ ~(h[Len(h)] < o)
      <4>1. Len(history) \in Nat
        BY <1>1 DEF Typed
      <4> QED BY <1>2, <1>6, <1>7, <1>8, <4>1
    <3> QED BY <1>3, <2>2, <3>1 DEF Taken
  <2> QED BY <1>2, <2>1, <2>2
<1> QED BY <1>4, <1>7, <1>8 DEF HoldsOn, h, start, O

LEMMA CommitKeeps ==
    ASSUME GInv, NEW c \in Consumers, Commit(c)
    PROVE  GroupInv'
<1> DEFINE g == GroupOf[c]
           h == held[c]
<1>1. g \in Groups
  BY LogAssumption DEF LogAssumption
<1>2. /\ GroupsTyped /\ h \in Seq(Nat) /\ h # <<>> /\ Len(history) \in Nat
      /\ \A a \in Groups : committed[a] \in Nat /\ committed[a] <= Len(history)
      /\ \A a \in Groups : \A o \in Offsets(segs) : o < committed[a] => o \in settled[a]
  BY DEF GInv, GroupInv, GroupsTyped, IInv, Typed, Commit
<1>3. h[Len(h)] \in Nat
  <2> HIDE DEF h
  <2> QED BY <1>2
<1>4. /\ h[Len(h)] < Len(history)
      /\ \A o \in Offsets(segs) : o <= h[Len(h)] => o \in settled[g] \cup ToSet(h)
  BY <1>2 DEF GInv, GroupInv, HoldsOn
<1>5. ToSet(h) \subseteq Nat
  <2> HIDE DEF h
  <2> QED BY <1>2 DEF ToSet
<1>6. /\ UNCHANGED <<segs, history>>
      /\ committed' = committed \/ committed' = [committed EXCEPT ![g] = h[Len(h)] + 1]
      /\ held' = [held EXCEPT ![c] = <<>>]
      /\ settled' = [settled EXCEPT ![g] = @ \cup ToSet(h)]
  BY DEF Commit, Save, Last
<1> HIDE DEF h, g
<1>7. GroupsTyped'
  <2>1. committed' \in [Groups -> Nat]
    BY <1>1, <1>2, <1>3, <1>6 DEF GroupsTyped
  <2>2. settled' \in [Groups -> SUBSET Nat]
    BY <1>1, <1>2, <1>5, <1>6 DEF GroupsTyped
  <2>3. held' \in [Consumers -> Seq(Nat)]
    <3>1. <<>> \in Seq(Nat)
      OBVIOUS
    <3> QED BY <1>2, <1>6, <3>1 DEF GroupsTyped
  <2> QED BY <2>1, <2>2, <2>3 DEF GroupsTyped
<1>8. \A a \in Groups : settled[a] \subseteq settled'[a]
  BY <1>1, <1>2, <1>6 DEF GroupsTyped
<1>9. ASSUME NEW a \in Groups
      PROVE  /\ committed'[a] <= Len(history')
             /\ \A o \in Offsets(segs') : o < committed'[a] => o \in settled'[a]
  <2>1. CASE committed'[a] = committed[a]
    BY <1>2, <1>6, <1>8, <2>1
  <2>2. CASE committed'[a] # committed[a]
    <3>1. a = g /\ committed'[a] = h[Len(h)] + 1 /\ settled'[a] = settled[g] \cup ToSet(h)
      BY <1>1, <1>2, <1>6, <2>2 DEF GroupsTyped
    <3>2. h[Len(h)] + 1 <= Len(history)
      BY <1>2, <1>3, <1>4
    <3>3. \A o \in Offsets(segs) : o \in Nat
      BY OffsetInSegment, NamesMeans DEF GInv, IInv, Typed
    <3>4. ASSUME NEW o \in Offsets(segs), o < h[Len(h)] + 1 PROVE o <= h[Len(h)]
      BY <1>3, <3>3, <3>4
    <3> QED BY <1>4, <1>6, <3>1, <3>2, <3>4
  <2> QED BY <2>1, <2>2
<1>10. ASSUME NEW d \in Consumers PROVE HoldsOn(held[d], settled[GroupOf[d]])'
  <2>1. GroupOf[d] \in Groups
    BY LogAssumption DEF LogAssumption
  <2>2. held'[d] = held[d] \/ held'[d] = <<>>
    BY <1>2, <1>6 DEF GroupsTyped
  <2>3. HoldsOn(held[d], settled[GroupOf[d]])
    BY DEF GInv, GroupInv
  <2>4. settled[GroupOf[d]] \subseteq settled'[GroupOf[d]]
    BY <1>8, <2>1
  <2> QED BY <1>6, <2>2, <2>3, <2>4 DEF HoldsOn
<1> QED BY <1>7, <1>9, <1>10 DEF GroupInv

LEMMA PollKeeps ==
    ASSUME GInv, NEW c \in Consumers, Poll(c)
    PROVE  GroupInv'
<1> DEFINE g == GroupOf[c]
           h == Read(Fetched(g))
<1>1. g \in Groups
  BY LogAssumption DEF LogAssumption
<1>2. /\ held' = [held EXCEPT ![c] = h] /\ h # <<>>
      /\ UNCHANGED <<segs, history, committed, settled>>
  BY DEF Poll
<1> HIDE DEF g
<1>3. h \in Seq(Nat) /\ HoldsOn(h, settled[g])
  BY <1>1, <1>2, ReadHolds
<1> HIDE DEF h
<1>4. GroupsTyped
  BY DEF GInv, GroupInv
<1>5. GroupsTyped'
  BY <1>2, <1>3, <1>4 DEF GroupsTyped
<1>6. ASSUME NEW d \in Consumers PROVE HoldsOn(held[d], settled[GroupOf[d]])'
  <2>1. HoldsOn(held'[d], settled[GroupOf[d]])
    <3>1. CASE d = c
      BY <1>2, <1>3, <1>4, <3>1 DEF GroupsTyped, g
    <3>2. CASE d # c
      BY <1>2, <1>4, <3>2 DEF GroupsTyped, GInv, GroupInv
    <3> QED BY <3>1, <3>2
  <2> QED BY <1>2, <2>1 DEF HoldsOn
<1> QED BY <1>2, <1>5, <1>6 DEF GInv, GroupInv

LEMMA ForgetKeeps ==
    ASSUME GInv, NEW c \in Consumers, Forget(c)
    PROVE  GroupInv'
<1>1. /\ held' = [held EXCEPT ![c] = <<>>]
      /\ UNCHANGED <<segs, history, committed, settled>>
  BY DEF Forget
<1>2. GroupsTyped
  BY DEF GInv, GroupInv
<1>3. GroupsTyped'
  <2>1. <<>> \in Seq(Nat)
    OBVIOUS
  <2> QED BY <1>1, <1>2, <2>1 DEF GroupsTyped
<1>4. ASSUME NEW d \in Consumers PROVE HoldsOn(held[d], settled[GroupOf[d]])'
  <2>1. held'[d] = held[d] \/ held'[d] = <<>>
    BY <1>1, <1>2 DEF GroupsTyped
  <2> QED BY <1>1, <2>1 DEF HoldsOn, GInv, GroupInv
<1> QED BY <1>1, <1>3, <1>4 DEF GInv, GroupInv

LEMMA ResetKeeps ==
    ASSUME GInv, NEW g \in Groups, ResetToEarliest(g) \/ ResetToLatest(g)
    PROVE  GroupInv'
<1>1. UNCHANGED <<segs, history, held>>
  BY DEF ResetToEarliest, ResetToLatest
<1>2. GroupsTyped /\ Len(history) \in Nat
  BY DEF GInv, IInv, Typed, GroupInv
<1>3. EndOffset = Len(history)
  BY DEF GInv, IInv, OffsetsNameRecords
<1> DEFINE To(e) == /\ committed' = [committed EXCEPT ![g] = e]
                     /\ settled' = [settled EXCEPT ![g] = @ \cup 0 .. e - 1]
<1>4. PICK e \in Nat : e <= Len(history) /\ To(e)
  <2>1. CASE ResetToEarliest(g)
    <3>1. committed' = [committed EXCEPT ![g] = 0] /\ settled' = settled
      BY <2>1 DEF ResetToEarliest, Save
    <3>2. 0 .. 0 - 1 = {} /\ 0 <= Len(history) /\ 0 \in Nat
      BY <1>2
    <3>3. settled' = [settled EXCEPT ![g] = @ \cup 0 .. 0 - 1]
      BY <1>2, <3>1, <3>2 DEF GroupsTyped
    <3>4. To(0)
      BY <3>1, <3>3
    <3> HIDE DEF To
    <3> QED BY <3>2, <3>4
  <2>2. CASE ResetToLatest(g)
    <3>1. To(Len(history))
      BY <1>3, <2>2 DEF ResetToLatest, Save
    <3>2. Len(history) <= Len(history)
      BY <1>2
    <3> HIDE DEF To
    <3> QED BY <1>2, <3>1, <3>2
  <2> QED BY <2>1, <2>2
<1>5. GroupsTyped'
  <2>1. 0 .. e - 1 \subseteq Nat
    OBVIOUS
  <2> QED BY <1>1, <1>2, <1>4, <2>1 DEF GroupsTyped
<1>6. \A a \in Groups : settled[a] \subseteq settled'[a]
  BY <1>2, <1>4 DEF GroupsTyped
<1>7. ASSUME NEW a \in Groups
      PROVE  /\ committed'[a] <= Len(history')
             /\ \A o \in Offsets(segs') : o < committed'[a] => o \in settled'[a]
  <2>1. CASE a = g
    <3>1. committed'[a] = e /\ settled'[a] = settled[g] \cup 0 .. e - 1
      BY <1>2, <1>4, <2>1 DEF GroupsTyped
    <3>2. \A o \in Offsets(segs) : o \in Nat
      BY OffsetInSegment, NamesMeans DEF GInv, IInv, Typed
    <3>3. \A o \in Offsets(segs) : o < e => o \in 0 .. e - 1
      BY <3>2
    <3> QED BY <1>1, <1>4, <3>1, <3>3
  <2>2. CASE a # g
    BY <1>1, <1>2, <1>4, <2>2 DEF GInv, GroupInv, GroupsTyped
  <2> QED BY <2>1, <2>2
<1>8. ASSUME NEW d \in Consumers PROVE HoldsOn(held[d], settled[GroupOf[d]])'
  <2>1. GroupOf[d] \in Groups
    BY LogAssumption DEF LogAssumption
  <2>2. HoldsOn(held[d], settled[GroupOf[d]]) /\ settled[GroupOf[d]] \subseteq settled'[GroupOf[d]]
    BY <1>6, <2>1 DEF GInv, GroupInv
  <2> QED BY <1>1, <2>2 DEF HoldsOn
<1> QED BY <1>5, <1>7, <1>8 DEF GroupInv

LEMMA NextGInv == GInv /\ [Next]_vars => GInv'
<1> SUFFICES ASSUME GInv, [Next]_vars PROVE GInv'
  OBVIOUS
<1>1. IInv /\ IInv'
  BY NextIInv DEF GInv
<1>2. segs \in Seq(Seg) /\ Len(segs) >= 1 /\ history \in Seq(Rec) /\ Ordered(segs)
  BY DEF GInv, IInv, Typed
<1>3. history' \in Seq(Rec)
  BY <1>1 DEF IInv, Typed
<1>4. ASSUME NEW p \in Payloads, AppendRecord(p[1], p[2]) PROVE GInv'
  <2> DEFINE ready == IF Len(Active.recs) >= MaxRecords THEN Rolled(segs) ELSE segs
             n     == Len(ready)
             new   == Record(EndOf(ready[n]), p[1], p[2], now \div MsPerSecond)
  <2>1. ready \in Seq(Seg) /\ Len(ready) >= 1 /\ Names(ready, history)
    BY <1>1, <1>2, NamesMeans, RolledNames DEF IInv
  <2>2. Ordered(ready) /\ RecordsOf(ready) = RecordsOf(segs)
    BY <1>2, RolledRecords
  <2>3. segs' = Extended(ready, new) /\ history' = Append(history, new) /\ UNCHANGED groupVars
    BY <1>4 DEF AppendRecord, Extended
  <2> HIDE DEF ready
  <2>4. new \in Rec /\ new.offset = Len(history)
    <3>1. EndOf(ready[n]) = Len(history)
      BY <2>1 DEF Names
    <3>2. p[1] \in Keys \cup {NoKey} /\ p[2] \in {Data, Empty}
      BY LogAssumption DEF LogAssumption
    <3>3. now \div MsPerSecond \in Int
      BY <1>1, LogAssumption DEF IInv, Typed, LogAssumption
    <3> QED BY <1>2, <3>1, <3>2, <3>3 DEF Record, Rec
  <2> HIDE DEF new
  <2>5. Ordered(segs') /\ Offsets(segs') \subseteq Offsets(segs) \cup {new.offset}
    <3>1. Ordered(segs') /\ RecordsOf(segs') = RecordsOf(ready) \cup {new}
      BY <2>1, <2>2, <2>3, <2>4, ExtendedRecords
    <3> QED BY <2>2, <3>1 DEF Offsets
  <2>6. Len(history') >= Len(history)
    BY <1>2, <2>3, <2>4
  <2>7. GroupInv'
    BY <1>3, <2>2, <2>3, <2>4, <2>5, <2>6, LogKeepsGroups DEF groupVars
  <2> QED BY <1>1, <2>5, <2>7 DEF GInv
<1>5. ASSUME RollSegment PROVE GInv'
  <2>1. Ordered(segs') /\ Offsets(segs') \subseteq Offsets(segs)
    BY <1>2, <1>5, RolledRecords DEF RollSegment, Offsets
  <2>2. Len(history') >= Len(history) /\ UNCHANGED groupVars
    BY <1>2, <1>5 DEF RollSegment
  <2>3. GroupInv'
    BY <1>3, <2>1, <2>2, LogKeepsGroups DEF groupVars
  <2> QED BY <1>1, <2>1, <2>3 DEF GInv
<1>6. ASSUME RunCycle PROVE GInv'
  <2>1. Shrinks(segs, segs')
    BY <1>1, <1>6, CycleShrinks DEF RunCycle, IInv
  <2>2. Ordered(segs') /\ Offsets(segs') \subseteq Offsets(segs)
    BY <1>2, <2>1, ShrinksOrdered, ShrinksOffsets
  <2>3. Len(history') >= Len(history) /\ UNCHANGED groupVars
    BY <1>2, <1>6 DEF RunCycle
  <2>4. GroupInv'
    BY <1>3, <2>2, <2>3, LogKeepsGroups DEF groupVars
  <2> QED BY <1>1, <2>2, <2>4 DEF GInv
<1>7. ASSUME Tick \/ UNCHANGED vars PROVE GInv'
  <2>1. UNCHANGED <<segs, history, committed, held, settled>>
    BY <1>7 DEF Tick, vars, logVars, groupVars
  <2>2. Offsets(segs') \subseteq Offsets(segs) /\ Ordered(segs') /\ Len(history') >= Len(history)
    BY <1>2, <2>1
  <2>3. GroupInv'
    BY <1>3, <2>1, <2>2, LogKeepsGroups
  <2> QED BY <1>1, <2>2, <2>3 DEF GInv
<1>8. ASSUME UNCHANGED segs, GroupInv' PROVE GInv'
  BY <1>1, <1>2, <1>8 DEF GInv
<1>9. ASSUME NEW g \in Groups, ResetToEarliest(g) \/ ResetToLatest(g) PROVE GInv'
  BY <1>8, <1>9, ResetKeeps DEF ResetToEarliest, ResetToLatest
<1>10. ASSUME NEW c \in Consumers, Poll(c) \/ Commit(c) \/ Forget(c) PROVE GInv'
  <2>1. UNCHANGED segs
    BY <1>10 DEF Poll, Commit, Forget
  <2>2. GroupInv'
    BY <1>10, PollKeeps, CommitKeeps, ForgetKeeps
  <2> QED BY <1>8, <2>1, <2>2
<1> QED BY <1>4, <1>5, <1>6, <1>7, <1>9, <1>10 DEF Next

(* No record that is left below the offset of a group is one that nobody   *)
(* of the group worked on or gave up, however late and in whatever order    *)
(* its consumers fetch, commit, stop and reset.                            *)
THEOREM NothingSkippedHolds == Spec => []NothingSkipped
<1>1. GInv => NothingSkipped
  BY DEF GInv, GroupInv, NothingSkipped, Offsets
<1> QED BY <1>1, InitGInv, NextGInv, PTL DEF Spec

-----------------------------------------------------------------------------
(* What Total is: the number of the records from a segment on.             *)
LEMMA TotalSteps ==
    ASSUME NEW ss \in Seq(Seg)
    PROVE  /\ Total(ss, Len(ss) + 1) = 0
           /\ \A i \in 1 .. Len(ss) : Total(ss, i) = Len(ss[i].recs) + Total(ss, i + 1)
<1> DEFINE n == Len(ss)
           At(g, j) == IF j > n THEN 0 ELSE Len(ss[j].recs) + g[j + 1]
           Solves(g, a) == g = [j \in a .. n + 1 |-> At(g, j)]
           left == CHOOSE g : Solves(g, 1)
<1>n. n \in Nat
  OBVIOUS
<1>1. \A i : Total(ss, i) = left[i]
  BY DEF Total
<1> HIDE DEF n
<1>2. \E g : Solves(g, 1)
  <2> DEFINE P == { k \in 0 .. n : \E g : Solves(g, n + 1 - k) }
  <2>1. 0 \in P
    <3> DEFINE g == [j \in n + 1 .. n + 1 |-> 0]
    <3>1. \A j \in n + 1 .. n + 1 : At(g, j) = 0
      BY <1>n
    <3>2. Solves(g, n + 1) /\ n + 1 - 0 = n + 1 /\ 0 \in 0 .. n
      BY <1>n, <3>1
    <3> HIDE DEF Solves
    <3> QED BY <3>2
  <2>2. ASSUME NEW k \in 1 .. n, k - 1 \in P PROVE k \in P
    <3> DEFINE a == n + 1 - k
    <3>1. a \in 1 .. n /\ a + 1 = n + 1 - (k - 1) /\ k \in 0 .. n
      BY <1>n
    <3>2. PICK f : Solves(f, a + 1)
      BY <2>2, <3>1
    <3> HIDE DEF a
    <3> DEFINE g == [j \in a .. n + 1 |-> IF j = a THEN Len(ss[a].recs) + f[a + 1] ELSE f[j]]
    <3>3. \A j \in a + 1 .. n + 1 : j \in a .. n + 1 /\ j # a
      BY <1>n, <3>1
    <3>4. \A j \in a + 1 .. n + 1 : g[j] = f[j] /\ f[j] = At(f, j)
      <4> HIDE DEF At
      <4> QED BY <3>2, <3>3
    <3>5. ASSUME NEW j \in a .. n + 1 PROVE g[j] = At(g, j)
      <4>1. CASE j = a
        <5>1. a + 1 \in a + 1 .. n + 1 /\ ~(a > n)
          BY <1>n, <3>1
        <5>2. g[a + 1] = f[a + 1]
          BY <3>4, <5>1
        <5>3. g[a] = Len(ss[a].recs) + f[a + 1]
          BY <4>1
        <5> HIDE DEF g
        <5> QED BY <4>1, <5>1, <5>2, <5>3
      <4>2. CASE j # a
        <5>1. j \in a + 1 .. n + 1
          BY <1>n, <3>1, <4>2
        <5>2. g[j] = f[j] /\ f[j] = At(f, j)
          BY <3>4, <5>1
        <5>3. ~(j > n) => j + 1 \in a + 1 .. n + 1
          BY <1>n, <3>1, <5>1
        <5>4. ~(j > n) => g[j + 1] = f[j + 1]
          BY <3>4, <5>3
        <5> HIDE DEF g
        <5> QED BY <5>2, <5>4
      <4> QED BY <4>1, <4>2
    <3>6. g = [j \in a .. n + 1 |-> g[j]]
      OBVIOUS
    <3>7. Solves(g, a)
      <4> HIDE DEF g, At
      <4> QED BY <3>5, <3>6
    <3> HIDE DEF g, Solves
    <3> QED BY <3>1, <3>7 DEF a
  <2>3. n \in P
    <3>1. n \in 0 .. n
      BY <1>n
    <3> HIDE DEF P
    <3> QED BY <1>n, <2>1, <2>2, <3>1, InductionUpTo
  <2>4. n + 1 - n = 1
    BY <1>n
  <2> HIDE DEF Solves
  <2> QED BY <2>3, <2>4
<1>3. Solves(left, 1)
  <2> HIDE DEF Solves
  <2> QED BY <1>2
<1> HIDE DEF left
<1>4. \A j \in 1 .. n + 1 : left[j] = At(left, j)
  <2> HIDE DEF At
  <2> QED BY <1>3
<1> HIDE DEF Solves
<1>5. left[n + 1] = 0
  BY <1>n, <1>4
<1>6. \A i \in 1 .. n : left[i] = Len(ss[i].recs) + left[i + 1]
  BY <1>n, <1>4
<1> QED BY <1>1, <1>5, <1>6 DEF n

LEMMA TotalTyped ==
    ASSUME NEW ss \in Seq(Seg)
    PROVE  \A i \in 1 .. Len(ss) + 1 : Total(ss, i) \in Nat
<1> DEFINE n == Len(ss)
           P == { i \in 1 .. n + 1 : Total(ss, i) \in Nat }
<1>1. n \in Nat
  OBVIOUS
<1>2. \A i \in 1 .. n : Len(ss[i].recs) \in Nat
  <2>1. \A i \in 1 .. n : ss[i] \in Seg
    OBVIOUS
  <2> QED BY <2>1 DEF Seg
<1>3. n + 1 \in P
  BY <1>1, TotalSteps
<1>4. \A k \in 1 .. n : k + 1 \in P => k \in P
  <2>1. \A k \in 1 .. n : Total(ss, k) = Len(ss[k].recs) + Total(ss, k + 1)
    BY TotalSteps
  <2> HIDE DEF n
  <2> QED BY <1>1, <1>2, <2>1, SMTT(60)
<1>5. \A k \in 1 .. n + 1 : k \in P
  <2> HIDE DEF P, n
  <2> QED BY <1>1, <1>3, <1>4, InductionDown
<1> QED BY <1>5

(* It is what the segments from there on hold.                             *)
LEMMA TotalSame ==
    ASSUME NEW ss \in Seq(Seg), NEW tt \in Seq(Seg), Len(tt) = Len(ss),
           NEW m \in 1 .. Len(ss) + 1,
           \A i \in 1 .. Len(ss) : i >= m => Len(tt[i].recs) = Len(ss[i].recs)
    PROVE  \A i \in 1 .. Len(ss) + 1 : i >= m => Total(tt, i) = Total(ss, i)
<1> DEFINE n == Len(ss)
           P == { i \in 1 .. n + 1 : i >= m => Total(tt, i) = Total(ss, i) }
<1>1. n \in Nat
  OBVIOUS
<1>2. n + 1 \in P
  <2>1. Total(tt, Len(tt) + 1) = 0 /\ Total(ss, n + 1) = 0
    BY TotalSteps
  <2>2. Total(tt, n + 1) = Total(ss, n + 1) /\ n + 1 \in 1 .. n + 1
    BY <1>1, <2>1
  <2> QED BY <2>2
<1>3. ASSUME NEW k \in 1 .. n, k + 1 \in P PROVE k \in P
  <2>1. Total(ss, k) = Len(ss[k].recs) + Total(ss, k + 1)
    BY TotalSteps
  <2>2. Total(tt, k) = Len(tt[k].recs) + Total(tt, k + 1)
    BY TotalSteps
  <2>3. k \in 1 .. n + 1
    BY <1>1
  <2>4. k >= m => k + 1 >= m
    BY <1>1
  <2>5. k >= m => Total(tt, k + 1) = Total(ss, k + 1) /\ Len(tt[k].recs) = Len(ss[k].recs)
    BY <1>3, <2>4
  <2> QED BY <2>1, <2>2, <2>3, <2>5
<1>4. \A k \in 1 .. n + 1 : k \in P
  <2> HIDE DEF P, n
  <2> QED BY <1>1, <1>2, <1>3, InductionDown
<1> QED BY <1>4

(* Segments without records add nothing.                                   *)
LEMMA TotalOfEmpty ==
    ASSUME NEW ss \in Seq(Seg), NEW a \in 1 .. Len(ss) + 1, NEW b \in 1 .. Len(ss) + 1, a <= b,
           \A i \in 1 .. Len(ss) : a <= i /\ i < b => ss[i].recs = <<>>
    PROVE  Total(ss, a) = Total(ss, b)
<1> DEFINE n == Len(ss)
           P == { i \in 1 .. n + 1 : a <= i /\ i <= b => Total(ss, i) = Total(ss, b) }
<1>1. n \in Nat
  OBVIOUS
<1>2. n + 1 \in P
  BY <1>1
<1>3. ASSUME NEW k \in 1 .. n, k + 1 \in P PROVE k \in P
  <2>1. Total(ss, k) = Len(ss[k].recs) + Total(ss, k + 1)
    BY TotalSteps
  <2>2. k \in 1 .. n + 1 /\ k + 1 \in 1 .. n + 1
    BY <1>1
  <2> SUFFICES ASSUME a <= k, k <= b, k # b PROVE Total(ss, k) = Total(ss, b)
    BY <2>2
  <2>3. a <= k + 1 /\ k + 1 <= b /\ k < b
    BY <1>1
  <2>4. Len(ss[k].recs) = 0
    BY <2>3
  <2>5. Total(ss, k + 1) = Total(ss, b) /\ Total(ss, k + 1) \in Nat
    BY <1>3, <2>2, <2>3, TotalTyped
  <2> QED BY <2>1, <2>4, <2>5
<1>4. \A k \in 1 .. n + 1 : k \in P
  <2> HIDE DEF P, n
  <2> QED BY <1>1, <1>2, <1>3, InductionDown
<1>5. a <= a
  BY <1>1
<1> QED BY <1>4, <1>5

LEMMA TotalFalls ==
    ASSUME NEW ss \in Seq(Seg), NEW a \in 1 .. Len(ss) + 1, NEW b \in 1 .. Len(ss) + 1, a <= b
    PROVE  Total(ss, b) <= Total(ss, a)
<1> DEFINE n == Len(ss)
           P == { i \in 1 .. n + 1 : i <= b => Total(ss, b) <= Total(ss, i) }
<1>1. n \in Nat
  OBVIOUS
<1>2. n + 1 \in P
  <2>1. n + 1 <= b => b = n + 1
    BY <1>1
  <2>2. Total(ss, b) \in Nat /\ n + 1 \in 1 .. n + 1
    BY <1>1, TotalTyped
  <2>3. n + 1 <= b => Total(ss, b) <= Total(ss, n + 1)
    <3> SUFFICES ASSUME n + 1 <= b PROVE Total(ss, b) <= Total(ss, b)
      BY <2>1
    <3> QED BY <2>2
  <2> QED BY <2>2, <2>3
<1>3. ASSUME NEW k \in 1 .. n, k + 1 \in P PROVE k \in P
  <2>1. Total(ss, k) = Len(ss[k].recs) + Total(ss, k + 1)
    BY TotalSteps
  <2>2. k \in 1 .. n + 1 /\ k + 1 \in 1 .. n + 1
    BY <1>1
  <2>3. Len(ss[k].recs) \in Nat
    <3>1. ss[k] \in Seg
      OBVIOUS
    <3> QED BY <3>1 DEF Seg
  <2>4. Total(ss, k) \in Nat /\ Total(ss, k + 1) \in Nat /\ Total(ss, b) \in Nat
    BY <2>2, TotalTyped
  <2>5. k + 1 <= b => Total(ss, b) <= Total(ss, k + 1)
    BY <1>3
  <2>6. k <= b => k = b \/ k + 1 <= b
    BY <1>1
  <2> QED BY <2>1, <2>2, <2>3, <2>4, <2>5, <2>6
<1>4. \A k \in 1 .. n + 1 : k \in P
  <2> HIDE DEF P, n
  <2> QED BY <1>1, <1>2, <1>3, InductionDown
<1> QED BY <1>4

-----------------------------------------------------------------------------
(* Records bear their number and the second they came in, which only grows. *)
Chrono ==
    /\ now \in Nat /\ now >= MsPerSecond
    /\ \A i \in 1 .. Len(history) :
          /\ history[i].offset = i - 1
          /\ history[i].ts \in Nat /\ 1 <= history[i].ts /\ history[i].ts <= now \div MsPerSecond
    /\ \A i, k \in 1 .. Len(history) : i <= k => history[i].ts <= history[k].ts

LEMMA DivGrows ==
    ASSUME NEW a \in Nat, NEW b \in Nat, NEW d \in Nat \ {0}, a <= b
    PROVE  a \div d \in Nat /\ a \div d <= b \div d
OBVIOUS

LEMMA DivPositive ==
    ASSUME NEW a \in Nat, NEW d \in Nat \ {0}, a >= d
    PROVE  a \div d >= 1
OBVIOUS

LEMMA InitChrono == Init => Chrono
<1> SUFFICES ASSUME Init PROVE Chrono
  OBVIOUS
<1>1. now = MsPerSecond /\ Len(history) = 0
  BY DEF Init
<1> QED BY <1>1, LogAssumption DEF Chrono, LogAssumption

LEMMA TimeKeepsChrono ==
    ASSUME Chrono, history' = history, now' \in Nat, now <= now'
    PROVE  Chrono'
<1>1. MsPerSecond \in Nat \ {0}
  BY LogAssumption DEF LogAssumption
<1>2. /\ now \in Nat /\ now >= MsPerSecond
      /\ now \div MsPerSecond \in Nat /\ now \div MsPerSecond <= now' \div MsPerSecond
  BY <1>1, DivGrows DEF Chrono
<1>3. now' \div MsPerSecond \in Nat
  <2>1. now' <= now'
    OBVIOUS
  <2> QED BY <1>1, <2>1, DivGrows
<1>4. now' >= MsPerSecond
  BY <1>1, <1>2
<1>5. ASSUME NEW i \in 1 .. Len(history)
      PROVE  /\ history[i].offset = i - 1 /\ history[i].ts \in Nat
             /\ 1 <= history[i].ts /\ history[i].ts <= now' \div MsPerSecond
  <2>1. /\ history[i].offset = i - 1 /\ history[i].ts \in Nat
        /\ 1 <= history[i].ts /\ history[i].ts <= now \div MsPerSecond
    BY DEF Chrono
  <2> HIDE DEF Chrono
  <2> QED BY <1>2, <1>3, <2>1
<1>6. \A i, k \in 1 .. Len(history) : i <= k => history[i].ts <= history[k].ts
  BY DEF Chrono
<1> QED BY <1>4, <1>5, <1>6 DEF Chrono

LEMMA AppendKeepsChrono ==
    ASSUME Chrono, history \in Seq(Rec), now' = now,
           NEW new \in Rec, new.offset = Len(history), new.ts = now \div MsPerSecond,
           history' = Append(history, new)
    PROVE  Chrono'
<1> DEFINE n == Len(history)
           t == now \div MsPerSecond
           h == history'
<1>1. t \in Nat /\ 1 <= t
  <2>1. MsPerSecond \in Nat \ {0}
    BY LogAssumption DEF LogAssumption
  <2> QED BY <2>1, DivGrows, DivPositive DEF Chrono
<1>2. n \in Nat /\ Len(h) = n + 1 /\ h[n + 1] = new /\ \A i \in 1 .. n : h[i] = history[i]
  OBVIOUS
<1>3. \A i \in 1 .. n : /\ history[i].offset = i - 1
                        /\ history[i].ts \in Nat /\ 1 <= history[i].ts /\ history[i].ts <= t
  BY DEF Chrono
<1>4. \A i, k \in 1 .. n : i <= k => history[i].ts <= history[k].ts
  BY DEF Chrono
<1> HIDE DEF n, t, h
<1>5. ASSUME NEW i \in 1 .. n + 1
      PROVE  h[i].offset = i - 1 /\ h[i].ts \in Nat /\ 1 <= h[i].ts /\ h[i].ts <= t
  <2>1. CASE i = n + 1
    <3>1. i - 1 = n /\ t <= t
      BY <1>1, <1>2, <2>1
    <3> QED BY <1>1, <1>2, <2>1, <3>1 DEF n, t
  <2>2. CASE i # n + 1
    <3>1. i \in 1 .. n
      BY <1>2, <2>2
    <3> QED BY <1>2, <1>3, <3>1
  <2> QED BY <2>1, <2>2
<1>6. ASSUME NEW i \in 1 .. n + 1, NEW k \in 1 .. n + 1, i <= k
      PROVE  h[i].ts <= h[k].ts
  <2>1. CASE k = n + 1
    BY <1>2, <1>5, <2>1 DEF n, t
  <2>2. CASE k # n + 1
    <3>1. i \in 1 .. n /\ k \in 1 .. n
      BY <1>2, <1>6, <2>2
    <3> QED BY <1>2, <1>4, <1>6, <3>1
  <2> QED BY <2>1, <2>2
<1> QED BY <1>2, <1>5, <1>6 DEF Chrono, h, t, n

(* A record in a segment is that of the history, or blanked.               *)
LEMMA NamedRecord ==
    ASSUME NEW ss \in Seq(Seg), NEW h \in Seq(Rec), Names(ss, h),
           NEW i \in 1 .. Len(ss), NEW j \in 1 .. Len(ss[i].recs)
    PROVE  LET r == ss[i].recs[j]
           IN  /\ r \in Rec /\ r \in RecordsOf(ss)
               /\ r.offset = ss[i].base + j - 1 /\ ss[i].base <= r.offset /\ r.offset < EndOf(ss[i])
               /\ r.offset + 1 \in 1 .. Len(h)
               /\ r = h[r.offset + 1] \/ r = Blank(h[r.offset + 1])
               /\ r.ts = h[r.offset + 1].ts
<1> DEFINE r == ss[i].recs[j]
<1>1. ss[i] \in Seg
  OBVIOUS
<1>2. ss[i].base \in Nat /\ ss[i].recs \in Seq(Rec) /\ Len(ss[i].recs) \in Nat
  BY <1>1 DEF Seg
<1>3. r \in Rec /\ r \in RecordsOf(ss)
  BY <1>2, InRecordsOf
<1>4. r.offset \in Nat
  BY <1>3 DEF Rec
<1>5. /\ r.offset = ss[i].base + j - 1 /\ r.offset < Len(h)
      /\ r = h[r.offset + 1] \/ r = Blank(h[r.offset + 1])
  BY DEF Names
<1> HIDE DEF r
<1>6. r.offset + 1 \in 1 .. Len(h) /\ ss[i].base <= r.offset /\ r.offset < EndOf(ss[i])
  BY <1>2, <1>4, <1>5, SMTT(60) DEF EndOf
<1>7. h[r.offset + 1] \in Rec
  BY <1>6
<1>8. r.ts = h[r.offset + 1].ts
  <2>1. Blank(h[r.offset + 1]).ts = h[r.offset + 1].ts
    BY <1>7 DEF Blank, Rec
  <2> QED BY <1>5, <2>1
<1> QED BY <1>3, <1>5, <1>6, <1>8 DEF r

(* What the operations of the cleaner leave in a segment.                  *)
LEMMA EmptiedAt ==
    ASSUME NEW ss \in Seq(Seg), Len(ss) >= 1, NEW S, S \subseteq 1 .. Len(ss) - 1, NEW i \in 1 .. Len(ss)
    PROVE  /\ Emptied(ss, S)[i].base = ss[i].base
           /\ i \in S => Emptied(ss, S)[i].recs = <<>>
           /\ i \notin S => Emptied(ss, S)[i].recs = ss[i].recs
<1>1. ss[i] \in Seg /\ i \in DOMAIN ss
  OBVIOUS
<1>2. CASE i \in S
  <2> DEFINE none == <<>>
  <2>1. Emptied(ss, S)[i] = [ss[i] EXCEPT !.recs = none] /\ none = <<>>
    BY <1>1, <1>2 DEF Emptied
  <2> HIDE DEF none
  <2>2. [ss[i] EXCEPT !.recs = none].recs = none
    BY <1>1, WithRecs, Zenon
  <2>3. [ss[i] EXCEPT !.recs = none].base = ss[i].base
    BY <1>1, WithRecs, Zenon
  <2> QED BY <1>2, <2>1, <2>2, <2>3
<1>3. CASE i \notin S
  BY <1>1, <1>3 DEF Emptied
<1> QED BY <1>2, <1>3

LEMMA BlankedAt ==
    ASSUME NEW ss \in Seq(Seg), Len(ss) >= 1, NEW B, NEW i \in 1 .. Len(ss)
    PROVE  /\ Blanked(ss, B)[i].base = ss[i].base
           /\ Len(Blanked(ss, B)[i].recs) = Len(ss[i].recs)
           /\ \A j \in 1 .. Len(ss[i].recs) :
                 /\ i = Len(ss) \/ ss[i].recs[j] \notin B
                       => Blanked(ss, B)[i].recs[j] = ss[i].recs[j]
                 /\ i # Len(ss) /\ ss[i].recs[j] \in B
                       => Blanked(ss, B)[i].recs[j] = Blank(ss[i].recs[j])
<1> DEFINE tt == Blanked(ss, B)
           new == [j \in DOMAIN ss[i].recs |->
                      IF ss[i].recs[j] \in B THEN Blank(ss[i].recs[j]) ELSE ss[i].recs[j]]
<1>1. ss[i] \in Seg /\ i \in DOMAIN ss
  OBVIOUS
<1>2. ss[i].recs \in Seq(Rec) /\ DOMAIN ss[i].recs = 1 .. Len(ss[i].recs) /\ Len(ss[i].recs) \in Nat
  BY <1>1 DEF Seg
<1>3. CASE i = Len(ss)
  <2>1. tt[i] = ss[i]
    BY <1>1, <1>3 DEF Blanked
  <2> HIDE DEF tt
  <2> QED BY <1>3, <2>1 DEF tt
<1>4. CASE i # Len(ss)
  <2>1. tt[i] = [ss[i] EXCEPT !.recs = new]
    BY <1>1, <1>4 DEF Blanked
  <2>2. Len(new) = Len(ss[i].recs) /\ DOMAIN new = DOMAIN ss[i].recs
    BY <1>2
  <2>3. \A j \in 1 .. Len(ss[i].recs) :
           /\ ss[i].recs[j] \notin B => new[j] = ss[i].recs[j]
           /\ ss[i].recs[j] \in B => new[j] = Blank(ss[i].recs[j])
    BY <1>2
  <2> HIDE DEF new, tt
  <2>4. tt[i].recs = new
    <3>1. [ss[i] EXCEPT !.recs = new].recs = new
      BY <1>1, WithRecs, Zenon
    <3> QED BY <2>1, <3>1
  <2>5. tt[i].base = ss[i].base
    <3>1. [ss[i] EXCEPT !.recs = new].base = ss[i].base
      BY <1>1, WithRecs, Zenon
    <3> QED BY <2>1, <3>1
  <2> QED BY <1>4, <2>2, <2>3, <2>4, <2>5 DEF tt
<1> QED BY <1>3, <1>4

(* From a segment that holds records on, none is missing; and a cycle that *)
(* deletes one of these deletes those before it.                           *)
Whole(ss) ==
    \A i, k \in 1 .. Len(ss) - 1 :
        i <= k /\ ss[i].recs # <<>> => EndOf(ss[k]) = ss[k + 1].base
OldestFirst(ss, S) ==
    \A i, k \in 1 .. Len(ss) :
        i <= k /\ k \in S /\ ss[i].recs # <<>> /\ ss[k].recs # <<>> => i \in S

LEMMA EmptiedWhole ==
    ASSUME NEW ss \in Seq(Seg), Len(ss) >= 1, NEW S, S \subseteq 1 .. Len(ss) - 1,
           Whole(ss), OldestFirst(ss, S)
    PROVE  Whole(Emptied(ss, S))
<1> DEFINE tt == Emptied(ss, S)
           n == Len(ss)
<1>1. Len(tt) = n /\ n \in Nat
  <2>1. Shrinks(ss, tt)
    BY EmptiedShrinks
  <2> HIDE DEF tt
  <2> QED BY <2>1 DEF Shrinks
<1>2. \A i \in 1 .. n : /\ tt[i].base = ss[i].base
                        /\ i \in S => tt[i].recs = <<>>
                        /\ i \notin S => tt[i].recs = ss[i].recs
  BY EmptiedAt
<1> HIDE DEF tt
<1> SUFFICES ASSUME NEW i \in 1 .. n - 1, NEW k \in 1 .. n - 1, i <= k, tt[i].recs # <<>>
             PROVE  EndOf(tt[k]) = tt[k + 1].base
  BY <1>1 DEF Whole, tt
<1>3. i \in 1 .. n /\ k \in 1 .. n /\ k + 1 \in 1 .. n
  BY <1>1
<1>4. i \notin S /\ ss[i].recs # <<>>
  BY <1>2, <1>3
<1>5. EndOf(ss[k]) = ss[k + 1].base
  BY <1>4 DEF Whole
<1>6. tt[k].recs = ss[k].recs
  <2>1. CASE k \in S
    <3>1. ss[k].recs = <<>>
      BY <1>3, <1>4, <2>1 DEF OldestFirst
    <3> QED BY <1>2, <1>3, <2>1, <3>1
  <2>2. CASE k \notin S
    BY <1>2, <1>3, <2>2
  <2> QED BY <2>1, <2>2
<1> QED BY <1>2, <1>3, <1>5, <1>6 DEF EndOf

LEMMA BlankedWhole ==
    ASSUME NEW ss \in Seq(Seg), Len(ss) >= 1, NEW B, Whole(ss)
    PROVE  Whole(Blanked(ss, B))
<1> DEFINE tt == Blanked(ss, B)
           n == Len(ss)
<1>1. Len(tt) = n /\ n \in Nat /\ tt \in Seq(Seg)
  BY BlankedShrinks DEF Shrinks
<1>2. \A i \in 1 .. n : tt[i].base = ss[i].base /\ Len(tt[i].recs) = Len(ss[i].recs)
  BY BlankedAt
<1> HIDE DEF tt
<1> SUFFICES ASSUME NEW i \in 1 .. n - 1, NEW k \in 1 .. n - 1, i <= k, tt[i].recs # <<>>
             PROVE  EndOf(tt[k]) = tt[k + 1].base
  BY <1>1 DEF Whole, tt
<1>3. i \in 1 .. n /\ k \in 1 .. n /\ k + 1 \in 1 .. n
  BY <1>1
<1>4. ss[i].recs # <<>>
  <2>1. tt[i] \in Seg /\ ss[i] \in Seg
    BY <1>1, <1>3
  <2>2. tt[i].recs \in Seq(Rec) /\ ss[i].recs \in Seq(Rec) /\ Len(tt[i].recs) = Len(ss[i].recs)
    BY <1>2, <1>3, <2>1 DEF Seg
  <2> QED BY <2>2
<1>5. EndOf(ss[k]) = ss[k + 1].base
  BY <1>4 DEF Whole
<1> QED BY <1>2, <1>3, <1>5 DEF EndOf

(* The newest stamp of a segment.                                          *)
LEMMA NewestStamp ==
    ASSUME Typed, Names(segs, history), Chrono, NEW i \in 1 .. Len(segs), segs[i].recs # <<>>
    PROVE  /\ MaxTs(segs[i]) \in Nat /\ MaxTs(segs[i]) >= 1
           /\ \E j \in 1 .. Len(segs[i].recs) : MaxTs(segs[i]) = segs[i].recs[j].ts
<1> DEFINE s == segs[i]
           T == { s.recs[j].ts : j \in DOMAIN s.recs }
           top == now \div MsPerSecond
<1>1. segs \in Seq(Seg) /\ history \in Seq(Rec) /\ s \in Seg
  BY DEF Typed
<1>2. s.recs \in Seq(Rec) /\ DOMAIN s.recs = 1 .. Len(s.recs)
  BY <1>1 DEF Seg
<1>3. \A j \in DOMAIN s.recs : /\ s.recs[j].ts \in Nat /\ s.recs[j].ts >= 1
                               /\ s.recs[j].ts <= top
  <2> SUFFICES ASSUME NEW j \in 1 .. Len(segs[i].recs)
               PROVE  s.recs[j].ts \in Nat /\ s.recs[j].ts >= 1 /\ s.recs[j].ts <= top
    BY <1>2
  <2> DEFINE o == s.recs[j].offset
  <2>1. o + 1 \in 1 .. Len(history) /\ s.recs[j].ts = history[o + 1].ts
    BY <1>1, NamedRecord
  <2> HIDE DEF o
  <2>2. /\ history[o + 1].ts \in Nat /\ 1 <= history[o + 1].ts
        /\ history[o + 1].ts <= top
    BY <2>1 DEF Chrono
  <2> QED BY <2>1, <2>2
<1>4. top \in Nat
  BY LogAssumption, DivGrows DEF LogAssumption, Chrono
<1>5. T # {}
  <2>1. 1 \in DOMAIN s.recs
    BY <1>2
  <2>2. s.recs[1].ts \in T
    BY <2>1
  <2> QED BY <2>2
<1> HIDE DEF s, top
<1>6. T \subseteq 0 .. top
  BY <1>3, <1>4
<1>7. Max(T) \in T
  <2> HIDE DEF T
  <2> QED BY <1>4, <1>5, <1>6, MaxIsMember
<1>8. MaxTs(s) = Max(T)
  BY DEF MaxTs, s
<1> QED BY <1>2, <1>3, <1>7, <1>8 DEF s

(* Both deletions take the oldest segments first.                          *)
LEMMA ExpiredOldestFirst ==
    ASSUME Typed, Names(segs, history), Ordered(segs), Chrono
    PROVE  OldestFirst(segs, Expired(segs))
<1> SUFFICES ASSUME NEW i \in 1 .. Len(segs), NEW k \in 1 .. Len(segs), i <= k, k \in Expired(segs),
                    segs[i].recs # <<>>, segs[k].recs # <<>>
             PROVE  i \in Expired(segs)
  BY DEF OldestFirst
<1>1. segs \in Seq(Seg) /\ history \in Seq(Rec) /\ Len(segs) \in Nat
  BY DEF Typed
<1>2. /\ MaxTs(segs[i]) \in Nat /\ MaxTs(segs[i]) >= 1
      /\ MaxTs(segs[k]) \in Nat /\ MaxTs(segs[k]) >= 1
  BY NewestStamp
<1>3. PICK a \in 1 .. Len(segs[i].recs) : MaxTs(segs[i]) = segs[i].recs[a].ts
  BY NewestStamp
<1>4. PICK b \in 1 .. Len(segs[k].recs) : MaxTs(segs[k]) = segs[k].recs[b].ts
  BY NewestStamp
<1> DEFINE p == segs[i].recs[a]
           q == segs[k].recs[b]
<1>5. CASE i # k
  <2>1. EndOf(segs[i]) <= segs[k].base
    BY <1>5 DEF Ordered
  <2>2. p.offset < EndOf(segs[i]) /\ p.offset + 1 \in 1 .. Len(history) /\ p.ts = history[p.offset + 1].ts
    BY <1>1, NamedRecord
  <2>3. segs[k].base <= q.offset /\ q.offset + 1 \in 1 .. Len(history) /\ q.ts = history[q.offset + 1].ts
    BY <1>1, NamedRecord
  <2>4. p \in Rec /\ q \in Rec /\ segs[i] \in Seg /\ segs[k] \in Seg
    BY <1>1, NamedRecord, SMTT(60)
  <2>5. /\ p.offset \in Nat /\ q.offset \in Nat
        /\ EndOf(segs[i]) \in Nat /\ segs[k].base \in Nat
    <3>1. p.offset \in Nat /\ q.offset \in Nat
      BY <2>4 DEF Rec
    <3>2. segs[i].base \in Nat /\ Len(segs[i].recs) \in Nat /\ segs[k].base \in Nat
      BY <2>4 DEF Seg
    <3> QED BY <3>1, <3>2, SMTT(60) DEF EndOf
  <2>6. p.offset + 1 <= q.offset + 1
    <3> DEFINE x == p.offset
               y == q.offset
               end == EndOf(segs[i])
               base == segs[k].base
    <3>1. x \in Nat /\ y \in Nat /\ end \in Nat /\ base \in Nat
      BY <2>5
    <3>2. x < end /\ end <= base /\ base <= y
      BY <2>1, <2>2, <2>3
    <3>3. x + 1 <= y + 1
      <4> HIDE DEF x, y, end, base
      <4> QED BY <3>1, <3>2
    <3> QED BY <3>3
  <2> HIDE DEF p, q
  <2>7. p.ts <= q.ts
    BY <2>2, <2>3, <2>6 DEF Chrono
  <2>8. MaxTs(segs[i]) <= MaxTs(segs[k])
    BY <1>3, <1>4, <2>7 DEF p, q
  <2>9. k \in 1 .. Len(segs) - 1 /\ now - MaxTs(segs[k]) > Retention
    BY DEF Expired
  <2>10. i \in 1 .. Len(segs) - 1
    BY <1>1, <2>9
  <2>11. MaxTs(segs[i]) > 0 /\ now - MaxTs(segs[i]) > Retention
    <3>1. now \in Nat /\ Retention \in Nat
      BY LogAssumption DEF Chrono, LogAssumption
    <3> QED BY <1>2, <2>8, <2>9, <3>1
  <2> QED BY <2>10, <2>11 DEF Expired
<1>6. CASE i = k
  BY <1>6
<1> QED BY <1>5, <1>6

LEMMA OversizeOldestFirst ==
    ASSUME NEW ss \in Seq(Seg), NEW i \in 1 .. Len(ss), NEW k \in 1 .. Len(ss), i <= k, k \in Oversize(ss)
    PROVE  i \in Oversize(ss)
<1>1. Len(ss) \in Nat /\ MaxTotal \in Int
  BY LogAssumption DEF LogAssumption
<1>2. k \in 1 .. Len(ss) - 1 /\ MaxTotal > 0 /\ Total(ss, k) > MaxTotal
  BY DEF Oversize
<1>3. i \in 1 .. Len(ss) - 1 /\ i \in 1 .. Len(ss) + 1 /\ k \in 1 .. Len(ss) + 1
  BY <1>1, <1>2
<1>4. Total(ss, k) <= Total(ss, i) /\ Total(ss, k) \in Nat /\ Total(ss, i) \in Nat
  BY <1>3, TotalFalls, TotalTyped
<1>5. Total(ss, i) > MaxTotal
  BY <1>1, <1>2, <1>4
<1> QED BY <1>2, <1>3, <1>5 DEF Oversize

(* What the deletion by size leaves: the longest end of the log that is    *)
(* within the limit, or the active segment.                                *)
LEMMA OversizeLeaves ==
    ASSUME NEW tt \in Seq(Seg), Len(tt) >= 1, MaxTotal > 0, NEW kk, kk = Emptied(tt, Oversize(tt))
    PROVE  \E m \in 1 .. Len(tt) :
              /\ \A i \in 1 .. Len(tt) : i \in Oversize(tt) <=> i < m
              /\ Total(kk, 1) = Total(tt, m)
              /\ m < Len(tt) => Total(tt, m) <= MaxTotal
<1> DEFINE n == Len(tt)
           S == { i \in 1 .. n : i \notin Oversize(tt) }
<1>1. n \in Nat /\ n >= 1 /\ MaxTotal \in Int
  BY LogAssumption DEF LogAssumption
<1>2. Oversize(tt) \subseteq 1 .. n - 1
  BY DEF Oversize
<1>3. n \in S /\ S \in SUBSET Nat
  <2>1. n \notin 1 .. n - 1 /\ n \in 1 .. n
    BY <1>1
  <2> QED BY <1>2, <2>1
<1>4. PICK m \in S : \A i \in S : m <= i
  <2> HIDE DEF S, n
  <2> QED BY <1>3, LeastExists
<1>5. m \in 1 .. n /\ m \notin Oversize(tt)
  OBVIOUS
<1>6. ASSUME NEW i \in 1 .. n PROVE i \in Oversize(tt) <=> i < m
  <2>1. CASE i < m
    <3>1. ~(m <= i)
      BY <1>5, <2>1
    <3> QED BY <1>4, <2>1, <3>1
  <2>2. CASE ~(i < m)
    <3>1. m <= i
      BY <1>5, <2>2
    <3>2. i \in Oversize(tt) => m \in Oversize(tt)
      BY <1>5, <3>1, OversizeOldestFirst
    <3> QED BY <1>5, <2>2, <3>2
  <2> QED BY <2>1, <2>2
<1>7. \A i \in 1 .. n : /\ i \in Oversize(tt) => kk[i].recs = <<>>
                        /\ i \notin Oversize(tt) => kk[i].recs = tt[i].recs
  BY <1>2, EmptiedAt
<1>8. kk \in Seq(Seg) /\ Len(kk) = n
  <2>1. Shrinks(tt, kk)
    BY <1>2, EmptiedShrinks
  <2> QED BY <2>1 DEF Shrinks
<1> HIDE DEF n, S
<1>9. Total(kk, 1) = Total(kk, m)
  <2>1. 1 \in 1 .. Len(kk) + 1 /\ m \in 1 .. Len(kk) + 1 /\ 1 <= m
    BY <1>1, <1>5, <1>8
  <2>2. \A i \in 1 .. Len(kk) : 1 <= i /\ i < m => kk[i].recs = <<>>
    BY <1>6, <1>7, <1>8
  <2> QED BY <1>8, <2>1, <2>2, TotalOfEmpty
<1>10. Total(kk, m) = Total(tt, m)
  <2>1. m \in 1 .. Len(tt) + 1 /\ m >= m
    BY <1>1, <1>5 DEF n
  <2>2. \A i \in 1 .. Len(tt) : i >= m => Len(kk[i].recs) = Len(tt[i].recs)
    <3> SUFFICES ASSUME NEW i \in 1 .. n, i >= m PROVE kk[i].recs = tt[i].recs
      BY DEF n
    <3>1. ~(i < m)
      BY <1>5
    <3> QED BY <1>6, <1>7, <3>1
  <2>3. Len(kk) = Len(tt)
    BY <1>8 DEF n
  <2>4. \A i \in 1 .. Len(tt) + 1 : i >= m => Total(kk, i) = Total(tt, i)
    BY <1>8, <2>1, <2>2, <2>3, TotalSame
  <2> QED BY <2>1, <2>4
<1>11. m < n => Total(tt, m) <= MaxTotal
  <2> SUFFICES ASSUME m < n PROVE Total(tt, m) <= MaxTotal
    OBVIOUS
  <2>1. m \in 1 .. n - 1 /\ m \in 1 .. Len(tt) + 1
    BY <1>1, <1>5 DEF n
  <2>2. ~(Total(tt, m) > MaxTotal)
    BY <1>5, <2>1 DEF Oversize, n
  <2>3. Total(tt, m) \in Nat
    BY <2>1, TotalTyped
  <2> QED BY <1>1, <2>2, <2>3
<1> QED BY <1>5, <1>6, <1>9, <1>10, <1>11 DEF n

Timely == Emptied(segs, Expired(segs))
Sized == Emptied(Timely, Oversize(Timely))

LEMMA TimelyFacts ==
    ASSUME Typed
    PROVE  /\ Timely \in Seq(Seg) /\ Len(Timely) = Len(segs) /\ Len(segs) >= 1 /\ segs \in Seq(Seg)
           /\ Expired(segs) \subseteq 1 .. Len(segs) - 1
           /\ \A i \in 1 .. Len(segs) :
                 /\ i \in Expired(segs) => Timely[i].recs = <<>>
                 /\ i \notin Expired(segs) => Timely[i].recs = segs[i].recs
<1>1. segs \in Seq(Seg) /\ Len(segs) >= 1
  BY DEF Typed
<1>2. Expired(segs) \subseteq 1 .. Len(segs) - 1
  BY DEF Expired
<1>3. Shrinks(segs, Timely)
  BY <1>1, <1>2, EmptiedShrinks DEF Timely
<1>4. \A i \in 1 .. Len(segs) :
         /\ i \in Expired(segs) => Timely[i].recs = <<>>
         /\ i \notin Expired(segs) => Timely[i].recs = segs[i].recs
  BY <1>1, <1>2, EmptiedAt DEF Timely
<1> QED BY <1>1, <1>2, <1>3, <1>4 DEF Shrinks

LEMMA SizedFacts ==
    ASSUME Typed
    PROVE  /\ Sized \in Seq(Seg) /\ Len(Sized) = Len(segs)
           /\ Oversize(Timely) \subseteq 1 .. Len(segs) - 1
           /\ \A i \in 1 .. Len(segs) :
                 /\ i \in Oversize(Timely) => Sized[i].recs = <<>>
                 /\ i \notin Oversize(Timely) => Sized[i].recs = Timely[i].recs
<1>1. Timely \in Seq(Seg) /\ Len(Timely) = Len(segs) /\ Len(segs) >= 1
  BY TimelyFacts
<1>2. Oversize(Timely) \subseteq 1 .. Len(Timely) - 1
  BY DEF Oversize
<1>3. Shrinks(Timely, Sized)
  BY <1>1, <1>2, EmptiedShrinks DEF Sized
<1>4. \A i \in 1 .. Len(segs) :
         /\ i \in Oversize(Timely) => Sized[i].recs = <<>>
         /\ i \notin Oversize(Timely) => Sized[i].recs = Timely[i].recs
  BY <1>1, <1>2, EmptiedAt DEF Sized
<1> QED BY <1>1, <1>2, <1>3, <1>4 DEF Shrinks

(* A cycle, policy by policy.                                              *)
LEMMA CleanedIs ==
    ASSUME Typed
    PROVE  /\ policy \in {"time", "size", "compaction"}
           /\ policy = "time" => Cleaned = WithoutTombstones(Timely)
           /\ policy = "size" => Cleaned = WithoutTombstones(Sized)
           /\ policy = "compaction" => Cleaned = WithoutTombstones(Compacted(segs))
<1>1. policy \in {"time", "size", "compaction"}
  BY LogAssumption DEF LogAssumption, Typed
<1>2. policy = "time" => Cleaned = WithoutTombstones(Timely)
  BY DEF Cleaned, Timely
<1>3. policy = "size" => Cleaned = WithoutTombstones(Sized)
  BY DEF Cleaned, Timely, Sized
<1>4. policy = "compaction" => Cleaned = WithoutTombstones(Compacted(segs))
  BY DEF Cleaned
<1> QED BY <1>1, <1>2, <1>3, <1>4

LEMMA CleanedWhole ==
    ASSUME Typed, Names(segs, history), Ordered(segs), Chrono, Whole(segs)
    PROVE  Whole(Cleaned)
<1>1. segs \in Seq(Seg) /\ Len(segs) >= 1
  BY DEF Typed
<1>2. Whole(Timely)
  BY <1>1, TimelyFacts, ExpiredOldestFirst, EmptiedWhole DEF Timely
<1>3. Whole(Sized)
  <2>1. Timely \in Seq(Seg) /\ Len(Timely) >= 1 /\ Oversize(Timely) \subseteq 1 .. Len(Timely) - 1
    BY TimelyFacts, SizedFacts
  <2>2. OldestFirst(Timely, Oversize(Timely))
    BY <2>1, OversizeOldestFirst DEF OldestFirst
  <2> QED BY <1>2, <2>1, <2>2, EmptiedWhole DEF Sized
<1>4. Whole(Compacted(segs)) /\ Compacted(segs) \in Seq(Seg) /\ Len(Compacted(segs)) >= 1
  <2>1. Shrinks(segs, Compacted(segs))
    BY <1>1, BlankedShrinks DEF Compacted
  <2>2. Whole(Compacted(segs))
    BY <1>1, BlankedWhole DEF Compacted
  <2> QED BY <1>1, <2>1, <2>2 DEF Shrinks
<1>5. ASSUME NEW kk \in Seq(Seg), Len(kk) >= 1, Whole(kk) PROVE Whole(WithoutTombstones(kk))
  BY <1>5, BlankedWhole DEF WithoutTombstones
<1> QED BY <1>2, <1>3, <1>4, <1>5, CleanedIs, TimelyFacts, SizedFacts

(* A reader that sees a record sees all later ones.                        *)
LEMMA NoneMissing ==
    ASSUME Typed, Names(segs, history), Whole(segs), NEW r \in RecordsOf(segs),
           NEW o \in r.offset .. Len(history) - 1
    PROVE  \E q \in RecordsOf(segs) : q.offset = o
<1> DEFINE n == Len(segs)
<1>1. segs \in Seq(Seg) /\ history \in Seq(Rec) /\ n \in Nat /\ n >= 1 /\ Len(history) \in Nat
  BY DEF Typed
<1>2. PICK i \in 1 .. n : \E j \in 1 .. Len(segs[i].recs) : r = segs[i].recs[j]
  BY <1>1, InRecordsOf, SMTT(60)
<1>3. PICK j \in 1 .. Len(segs[i].recs) : r = segs[i].recs[j]
  BY <1>2
<1>4. segs[i].base <= r.offset /\ r.offset < EndOf(segs[i])
  BY <1>1, <1>3, NamedRecord
<1>5. \A k \in 1 .. n : segs[k].base \in Nat /\ Len(segs[k].recs) \in Nat /\ EndOf(segs[k]) = segs[k].base + Len(segs[k].recs)
  <2>1. \A k \in 1 .. n : segs[k] \in Seg
    BY <1>1
  <2> QED BY <2>1 DEF Seg, EndOf
<1>6. r.offset \in Nat /\ o \in Nat /\ r.offset <= o /\ o < Len(history)
  BY <1>1, RecordTyped
<1>7. EndOf(segs[n]) = Len(history)
  BY DEF Names
<1> DEFINE S == { k \in i .. n : o < EndOf(segs[k]) }
<1>8. n \in S /\ S \in SUBSET Nat
  BY <1>1, <1>6, <1>7
<1>9. PICK k \in S : \A m \in S : k <= m
  <2> HIDE DEF S, n
  <2> QED BY <1>8, LeastExists
<1>10. k \in i .. n /\ k \in 1 .. n /\ o < EndOf(segs[k])
  BY <1>1
<1>11. segs[k].base <= o
  <2>1. CASE k = i
    BY <1>4, <1>5, <1>6, <2>1
  <2>2. CASE k # i
    <3>1. k - 1 \in i .. n /\ k - 1 \in 1 .. n - 1 /\ i \in 1 .. n - 1 /\ i <= k - 1 /\ ~(k <= k - 1)
      BY <1>1, <1>10, <2>2
    <3>2. k - 1 \notin S
      BY <1>9, <3>1
    <3>3. ~(o < EndOf(segs[k - 1]))
      BY <3>1, <3>2
    <3>4. segs[i].recs # <<>>
      BY <1>3
    <3>5. EndOf(segs[k - 1]) = segs[k].base
      <4>1. EndOf(segs[k - 1]) = segs[(k - 1) + 1].base
        BY <3>1, <3>4 DEF Whole
      <4>2. (k - 1) + 1 = k
        BY <1>10
      <4> QED BY <4>1, <4>2
    <3> QED BY <1>5, <1>6, <1>10, <3>3, <3>5
  <2> QED BY <2>1, <2>2
<1> DEFINE a == o - segs[k].base + 1
<1>12. a \in 1 .. Len(segs[k].recs) /\ segs[k].base + a - 1 = o
  BY <1>5, <1>6, <1>10, <1>11, SMTT(60)
<1> HIDE DEF a, S
<1>13. segs[k].recs[a] \in RecordsOf(segs) /\ segs[k].recs[a].offset = segs[k].base + a - 1
  BY <1>1, <1>10, <1>12, NamedRecord
<1> QED BY <1>12, <1>13

(* What a cycle by size comes to.                                          *)
LEMMA SizeBounds ==
    ASSUME Typed, Names(segs, history), Ordered(segs), Chrono, policy = "size", MaxTotal > 0
    PROVE  LET left == Total(Cleaned, 1)
               gone == { i \in DOMAIN segs : segs[i].recs # <<>> /\ Cleaned[i].recs = <<>> }
           IN  /\ \/ left <= MaxTotal
                  \/ \A i \in 1 .. Len(segs) - 1 : Cleaned[i].recs = <<>>
               /\ gone \subseteq Expired(segs) \/ left + Len(segs[Max(gone)].recs) > MaxTotal
<1> DEFINE n == Len(segs)
           gone == { i \in DOMAIN segs : segs[i].recs # <<>> /\ Cleaned[i].recs = <<>> }
<1>1. /\ n \in Nat /\ n >= 1 /\ DOMAIN segs = 1 .. n /\ MaxTotal \in Int
      /\ Timely \in Seq(Seg) /\ Len(Timely) = n /\ Sized \in Seq(Seg) /\ Len(Sized) = n
  BY TimelyFacts, SizedFacts, LogAssumption DEF LogAssumption
<1>2. PICK m \in 1 .. n :
         /\ \A i \in 1 .. n : i \in Oversize(Timely) <=> i < m
         /\ Total(Sized, 1) = Total(Timely, m)
         /\ m < n => Total(Timely, m) <= MaxTotal
  <2>1. \E m \in 1 .. Len(Timely) :
           /\ \A i \in 1 .. Len(Timely) : i \in Oversize(Timely) <=> i < m
           /\ Total(Sized, 1) = Total(Timely, m)
           /\ m < Len(Timely) => Total(Timely, m) <= MaxTotal
    BY <1>1, OversizeLeaves DEF Sized
  <2> QED BY <1>1, <2>1
<1>3. Cleaned = Blanked(Sized, OldTombstones(Sized))
  BY CleanedIs DEF WithoutTombstones
<1>4. Cleaned \in Seq(Seg) /\ Len(Cleaned) = n
  BY <1>1, <1>3, BlankedShrinks DEF Shrinks
<1>5. \A i \in 1 .. n : Len(Cleaned[i].recs) = Len(Sized[i].recs)
  BY <1>1, <1>3, BlankedAt
<1> HIDE DEF n
<1>6. ASSUME NEW i \in 1 .. n PROVE Cleaned[i].recs = <<>> <=> Sized[i].recs = <<>>
  <2>1. Cleaned[i] \in Seg /\ Sized[i] \in Seg
    BY <1>1, <1>4
  <2>2. Cleaned[i].recs \in Seq(Rec) /\ Sized[i].recs \in Seq(Rec)
    BY <2>1 DEF Seg
  <2>3. Len(Cleaned[i].recs) = Len(Sized[i].recs)
    BY <1>5
  <2> QED BY <2>2, <2>3
<1>7. Total(Cleaned, 1) = Total(Sized, 1)
  <2>1. 1 \in 1 .. Len(Sized) + 1 /\ 1 >= 1 /\ Len(Cleaned) = Len(Sized)
    BY <1>1, <1>4
  <2>2. \A i \in 1 .. Len(Sized) : i >= 1 => Len(Cleaned[i].recs) = Len(Sized[i].recs)
    BY <1>1, <1>5
  <2>3. \A i \in 1 .. Len(Sized) + 1 : i >= 1 => Total(Cleaned, i) = Total(Sized, i)
    BY <1>1, <1>4, <2>1, <2>2, TotalSame
  <2> QED BY <2>1, <2>3
<1>8. Total(Cleaned, 1) = Total(Timely, m)
  BY <1>2, <1>7
<1>9. \A i \in 1 .. n : /\ i < m => Sized[i].recs = <<>>
                        /\ ~(i < m) => Sized[i].recs = Timely[i].recs
  BY <1>2, SizedFacts DEF n
<1>10. \/ Total(Cleaned, 1) <= MaxTotal
       \/ \A i \in 1 .. n - 1 : Cleaned[i].recs = <<>>
  <2>1. CASE m < n
    BY <1>2, <1>8, <2>1
  <2>2. CASE ~(m < n)
    <3>1. \A i \in 1 .. n - 1 : i \in 1 .. n /\ i < m
      BY <1>1, <1>2, <2>2
    <3> QED BY <1>6, <1>9, <3>1
  <2> QED BY <2>1, <2>2
<1>11. ASSUME ~(gone \subseteq Expired(segs))
       PROVE  Total(Cleaned, 1) + Len(segs[Max(gone)].recs) > MaxTotal
  <2> DEFINE y == Max(gone)
  <2>1. PICK x \in gone : x \notin Expired(segs)
    BY <1>11
  <2>2. y \in gone /\ \A i \in gone : i <= y
    <3>1. gone \in SUBSET (0 .. n) /\ gone # {}
      BY <1>1, <2>1
    <3> HIDE DEF gone
    <3> QED BY <1>1, <3>1, MaxIsMember
  <2> HIDE DEF y
  <2>3. \A i \in gone : i \in 1 .. n /\ segs[i].recs # <<>> /\ Cleaned[i].recs = <<>>
    BY <1>1
  <2>4. y \notin Expired(segs)
    <3>1. OldestFirst(segs, Expired(segs))
      BY ExpiredOldestFirst
    <3>2. x \in 1 .. Len(segs) /\ y \in 1 .. Len(segs) /\ x <= y
      BY <2>1, <2>2, <2>3 DEF n
    <3>3. segs[x].recs # <<>> /\ segs[y].recs # <<>>
      BY <2>1, <2>2, <2>3
    <3> HIDE DEF gone
    <3> QED BY <2>1, <3>1, <3>2, <3>3 DEF OldestFirst
  <2>5. y \in 1 .. n /\ Timely[y].recs = segs[y].recs /\ segs[y].recs # <<>> /\ Sized[y].recs = <<>>
    BY <1>6, <2>2, <2>3, <2>4, TimelyFacts DEF n
  <2>6. y < m
    BY <1>9, <2>5
  <2>7. Total(Timely, y) > MaxTotal
    BY <1>2, <2>5, <2>6 DEF Oversize
  <2>8. Total(Timely, y) = Len(segs[y].recs) + Total(Timely, y + 1)
    BY <1>1, <2>5, TotalSteps
  <2>9. ASSUME NEW i \in 1 .. Len(Timely), y + 1 <= i, i < m PROVE Timely[i].recs = <<>>
    <3>1. i \in 1 .. n /\ ~(i <= y)
      BY <1>1, <2>5, <2>9
    <3>2. i \notin gone
      BY <2>2, <3>1
    <3>3. Cleaned[i].recs = <<>>
      BY <1>6, <1>9, <2>9, <3>1
    <3>4. segs[i].recs = <<>>
      BY <1>1, <3>1, <3>2, <3>3
    <3> QED BY <3>1, <3>4, TimelyFacts DEF n
  <2>10. Total(Timely, y + 1) = Total(Timely, m)
    <3>1. y + 1 \in 1 .. Len(Timely) + 1 /\ m \in 1 .. Len(Timely) + 1 /\ y + 1 <= m
      BY <1>1, <1>2, <2>5, <2>6
    <3> HIDE DEF gone
    <3> QED BY <1>1, <2>9, <3>1, TotalOfEmpty
  <2>11. Len(segs[y].recs) \in Nat /\ Total(Timely, m) \in Nat
    <3>1. Timely[y] \in Seg
      BY <1>1, <2>5
    <3>2. Len(segs[y].recs) \in Nat
      BY <2>5, <3>1 DEF Seg
    <3>3. m \in 1 .. Len(Timely) + 1
      BY <1>1, <1>2
    <3> QED BY <1>1, <3>2, <3>3, TotalTyped
  <2>12. Total(Cleaned, 1) + Len(segs[y].recs) > MaxTotal
    <3> HIDE DEF gone
    <3> QED BY <1>1, <1>8, <2>7, <2>8, <2>10, <2>11
  <2> QED BY <2>12 DEF y
<1> QED BY <1>10, <1>11 DEF n

-----------------------------------------------------------------------------
(* What blanking does to the records that have a key.                      *)
LEMMA BlankHasNoKey ==
    ASSUME NEW r \in Rec
    PROVE  Blank(r).key = NoKey
BY DEF Blank, Rec

LEMMA BlankedKeeps ==
    ASSUME NEW ss \in Seq(Seg), Len(ss) >= 1, NEW B, NEW i \in 1 .. Len(ss),
           NEW j \in 1 .. Len(ss[i].recs), i = Len(ss) \/ ss[i].recs[j] \notin B
    PROVE  ss[i].recs[j] \in RecordsOf(Blanked(ss, B))
<1> DEFINE tt == Blanked(ss, B)
<1>1. tt \in Seq(Seg) /\ Len(tt) = Len(ss)
  BY BlankedShrinks DEF Shrinks
<1>2. j \in 1 .. Len(tt[i].recs) /\ tt[i].recs[j] = ss[i].recs[j]
  BY BlankedAt
<1> HIDE DEF tt
<1>3. ss[i].recs[j] \in RecordsOf(tt)
  BY <1>1, <1>2, InRecordsOf
<1> QED BY <1>3 DEF tt

LEMMA BlankedFrom ==
    ASSUME NEW ss \in Seq(Seg), Len(ss) >= 1, NEW B,
           NEW r \in RecordsOf(Blanked(ss, B)), r.key # NoKey
    PROVE  \E i \in 1 .. Len(ss) : \E j \in 1 .. Len(ss[i].recs) :
              r = ss[i].recs[j] /\ (i = Len(ss) \/ r \notin B)
<1> DEFINE tt == Blanked(ss, B)
<1>1. tt \in Seq(Seg) /\ Len(tt) = Len(ss)
  BY BlankedShrinks DEF Shrinks
<1>2. \E i \in 1 .. Len(tt) : \E j \in 1 .. Len(tt[i].recs) : r = tt[i].recs[j]
  <2> HIDE DEF tt
  <2> QED BY <1>1, InRecordsOf DEF tt
<1>3. PICK i \in 1 .. Len(ss) : \E j \in 1 .. Len(tt[i].recs) : r = tt[i].recs[j]
  BY <1>1, <1>2
<1>4. PICK j \in 1 .. Len(tt[i].recs) : r = tt[i].recs[j]
  BY <1>3
<1>5. /\ Len(tt[i].recs) = Len(ss[i].recs)
      /\ \A k \in 1 .. Len(ss[i].recs) :
            /\ i = Len(ss) \/ ss[i].recs[k] \notin B => tt[i].recs[k] = ss[i].recs[k]
            /\ i # Len(ss) /\ ss[i].recs[k] \in B => tt[i].recs[k] = Blank(ss[i].recs[k])
  BY BlankedAt
<1> HIDE DEF tt
<1> DEFINE q == ss[i].recs[j]
<1>6. j \in 1 .. Len(ss[i].recs) /\ q \in Rec
  <2>1. j \in 1 .. Len(ss[i].recs)
    BY <1>5
  <2>2. ss[i] \in Seg
    OBVIOUS
  <2>3. ss[i].recs \in Seq(Rec)
    BY <2>2 DEF Seg
  <2> QED BY <2>1, <2>3
<1>7. ~(i # Len(ss) /\ q \in B)
  <2> SUFFICES ASSUME i # Len(ss), q \in B PROVE FALSE
    OBVIOUS
  <2>1. r = Blank(q)
    BY <1>4, <1>5, <1>6
  <2> HIDE DEF q
  <2> QED BY <1>6, <2>1, BlankHasNoKey
<1>8. r = q
  BY <1>4, <1>5, <1>6, <1>7
<1> QED BY <1>6, <1>7, <1>8

(* A record with a key is the one of the history.                          *)
LEMMA KeyedRecord ==
    ASSUME Typed, Names(segs, history), NEW r \in RecordsOf(segs), r.key # NoKey
    PROVE  r.offset + 1 \in 1 .. Len(history) /\ r = history[r.offset + 1]
<1>1. segs \in Seq(Seg) /\ history \in Seq(Rec)
  BY DEF Typed
<1>2. PICK i \in 1 .. Len(segs) : \E j \in 1 .. Len(segs[i].recs) : r = segs[i].recs[j]
  BY <1>1, InRecordsOf
<1>3. PICK j \in 1 .. Len(segs[i].recs) : r = segs[i].recs[j]
  BY <1>2
<1>4. /\ r.offset + 1 \in 1 .. Len(history)
      /\ r = history[r.offset + 1] \/ r = Blank(history[r.offset + 1])
  BY <1>1, <1>3, NamedRecord
<1>5. history[r.offset + 1] \in Rec
  BY <1>1, <1>4
<1> QED BY <1>4, <1>5, BlankHasNoKey

(* Of a key the compacted log has the last record; or that was a tombstone *)
(* and is gone, and all earlier ones with it.                              *)
Later(h, i) == \E k \in 1 .. Len(h) : k > i /\ h[k].key = h[i].key
Gone(ss, h, i) ==
    /\ h[i].val = Empty
    /\ \A k \in 1 .. Len(h) : k < i /\ h[k].key = h[i].key => h[k] \notin RecordsOf(ss)
LastKept(ss, h) ==
    \A i \in 1 .. Len(h) :
        h[i].key # NoKey /\ ~Later(h, i) /\ h[i] \notin RecordsOf(ss) => Gone(ss, h, i)

LEMMA LastOfKey ==
    ASSUME history \in Seq(Rec), NEW i \in 1 .. Len(history)
    PROVE  \E k \in 1 .. Len(history) :
              k >= i /\ history[k].key = history[i].key /\ ~Later(history, k)
<1> DEFINE n == Len(history)
           S == { k \in 1 .. n : k >= i /\ history[k].key = history[i].key }
<1>1. n \in Nat /\ i \in S /\ S \in SUBSET (0 .. n)
  OBVIOUS
<1>2. PICK k \in S : \A m \in S : m <= k
  <2> HIDE DEF S, n
  <2> QED BY <1>1, GreatestExists
<1>3. k \in 1 .. n /\ k >= i /\ history[k].key = history[i].key
  OBVIOUS
<1>4. ~Later(history, k)
  <2> SUFFICES ASSUME NEW m \in 1 .. n, m > k, history[m].key = history[k].key PROVE FALSE
    BY DEF Later
  <2>1. m \in S /\ ~(m <= k)
    BY <1>3
  <2> HIDE DEF S
  <2> QED BY <1>2, <2>1
<1> QED BY <1>3, <1>4

LEMMA LastKeptMeans ==
    ASSUME Typed, Names(segs, history), Chrono, LastKept(segs, history)
    PROVE  Table(RecordsOf(segs)) = Table(ToSet(history))
<1> DEFINE R == RecordsOf(segs)
           H == ToSet(history)
           n == Len(history)
<1>1. history \in Seq(Rec) /\ n \in Nat /\ DOMAIN history = 1 .. n
  BY DEF Typed
<1>2. \A i \in 1 .. n : history[i].offset = i - 1
  BY DEF Chrono
<1>3. \A r \in H : \E i \in 1 .. n : r = history[i]
  BY <1>1 DEF ToSet
<1>4. \A i \in 1 .. n : history[i] \in H
  BY <1>1 DEF ToSet
<1>5. \A r \in R : r.key # NoKey => r.offset + 1 \in 1 .. n /\ r = history[r.offset + 1]
  BY KeyedRecord
<1> HIDE DEF R, H, n
<1>6. ASSUME NEW r \in Table(R) PROVE r \in Table(H)
  <2>1. r \in R /\ r.key # NoKey /\ r.val # Empty /\ \A q \in R : q.key = r.key => q.offset <= r.offset
    BY DEF Table
  <2> DEFINE i == r.offset + 1
  <2>2. i \in 1 .. n /\ r = history[i]
    BY <1>5, <2>1
  <2> HIDE DEF i
  <2>3. PICK k \in 1 .. n : k >= i /\ history[k].key = history[i].key /\ ~Later(history, k)
    BY <1>1, <2>2, LastOfKey DEF n
  <2>4. k = i
    <3> SUFFICES ASSUME k > i PROVE FALSE
      BY <1>1, <2>2, <2>3
    <3>1. CASE history[k] \in R
      <4>1. history[k].offset <= history[i].offset
        BY <2>1, <2>2, <2>3, <3>1
      <4>2. k - 1 <= i - 1
        BY <1>2, <2>2, <4>1
      <4> QED BY <1>1, <2>2, <4>2
    <3>2. CASE history[k] \notin R
      <4>1. Gone(segs, history, k)
        BY <2>1, <2>2, <2>3, <3>2 DEF LastKept, R, n
      <4>2. i < k /\ history[i].key = history[k].key
        BY <1>1, <2>2, <2>3
      <4>3. history[i] \notin R
        BY <2>2, <4>1, <4>2 DEF Gone, R, n
      <4> QED BY <2>1, <2>2, <4>3
    <3> QED BY <3>1, <3>2
  <2>5. ASSUME NEW q \in H, q.key = r.key PROVE q.offset <= r.offset
    <3>1. PICK m \in 1 .. n : q = history[m]
      BY <1>3
    <3>2. ~(m > i)
      BY <2>2, <2>3, <2>4, <2>5, <3>1 DEF Later, n
    <3>3. m - 1 <= i - 1
      BY <1>1, <2>2, <3>2
    <3> QED BY <1>2, <2>2, <3>1, <3>3
  <2>6. r \in H
    BY <1>4, <2>2
  <2> QED BY <2>1, <2>5, <2>6 DEF Table
<1>7. ASSUME NEW r \in Table(H) PROVE r \in Table(R)
  <2>1. r \in H /\ r.key # NoKey /\ r.val # Empty /\ \A q \in H : q.key = r.key => q.offset <= r.offset
    BY DEF Table
  <2>2. PICK i \in 1 .. n : r = history[i]
    BY <1>3, <2>1
  <2>3. ~Later(history, i)
    <3> SUFFICES ASSUME NEW k \in 1 .. n, k > i, history[k].key = history[i].key PROVE FALSE
      BY DEF Later, n
    <3>1. history[k].offset <= history[i].offset
      BY <1>4, <2>1, <2>2
    <3>2. k - 1 <= i - 1
      BY <1>2, <2>2, <3>1
    <3> QED BY <1>1, <2>2, <3>2
  <2>4. r \in R
    <3> SUFFICES ASSUME r \notin R PROVE FALSE
      OBVIOUS
    <3>1. Gone(segs, history, i)
      BY <2>1, <2>2, <2>3 DEF LastKept, R, n
    <3> QED BY <2>1, <2>2, <3>1 DEF Gone
  <2>5. ASSUME NEW q \in R, q.key = r.key PROVE q.offset <= r.offset
    <3>1. q.offset + 1 \in 1 .. n /\ q = history[q.offset + 1]
      BY <1>5, <2>1, <2>5
    <3>2. q \in H
      BY <1>4, <3>1
    <3> QED BY <2>1, <2>5, <3>2
  <2> QED BY <2>1, <2>4, <2>5 DEF Table
<1>8. Table(R) = Table(H)
  BY <1>6, <1>7
<1> QED BY <1>8 DEF R, H

(* An append.                                                              *)
LEMMA AppendLastKept ==
    ASSUME Typed, Chrono, LastKept(segs, history),
           NEW tt, NEW new \in Rec, new.offset = Len(history),
           RecordsOf(tt) = RecordsOf(segs) \cup {new}
    PROVE  LastKept(tt, Append(history, new))
<1> DEFINE n == Len(history)
           h == Append(history, new)
<1>1. history \in Seq(Rec) /\ n \in Nat /\ Len(h) = n + 1 /\ h[n + 1] = new /\ \A i \in 1 .. n : h[i] = history[i]
  BY DEF Typed
<1>2. \A i \in 1 .. n : history[i].offset = i - 1
  BY DEF Chrono
<1> HIDE DEF h
<1>3. \A i \in 1 .. n : history[i] # new
  <2> SUFFICES ASSUME NEW i \in 1 .. n, history[i] = new PROVE FALSE
    OBVIOUS
  <2>1. i - 1 = n
    BY <1>2
  <2> QED BY <1>1, <2>1
<1> SUFFICES ASSUME NEW i \in 1 .. n + 1, h[i].key # NoKey, ~Later(h, i), h[i] \notin RecordsOf(tt)
             PROVE  Gone(tt, h, i)
  BY <1>1 DEF LastKept, h
<1>4. i \in 1 .. n /\ h[i] = history[i] /\ i # n + 1
  BY <1>1
<1>5. ~Later(history, i)
  <2> SUFFICES ASSUME NEW k \in 1 .. n, k > i, history[k].key = history[i].key PROVE Later(h, i)
    BY DEF Later
  <2>1. k \in 1 .. n + 1 /\ h[k].key = h[i].key
    BY <1>1, <1>4
  <2> QED BY <1>1, <2>1 DEF Later
<1>6. Gone(segs, history, i)
  BY <1>4, <1>5 DEF LastKept
<1>7. ASSUME NEW k \in 1 .. n + 1, k < i, h[k].key = h[i].key PROVE h[k] \notin RecordsOf(tt)
  <2>1. k \in 1 .. n /\ h[k] = history[k]
    BY <1>1, <1>4, <1>7
  <2>2. history[k] \notin RecordsOf(segs)
    BY <1>4, <1>6, <1>7, <2>1 DEF Gone
  <2> QED BY <1>3, <2>1, <2>2
<1> QED BY <1>1, <1>4, <1>6, <1>7 DEF Gone

(* A cycle that compacts.                                                  *)
LEMMA CompactedLastKept ==
    ASSUME Typed, Names(segs, history), Ordered(segs), Chrono, LastKept(segs, history)
    PROVE  LastKept(WithoutTombstones(Compacted(segs)), history)
<1> DEFINE kk == Compacted(segs)
           tt == WithoutTombstones(kk)
           n == Len(history)
           a == Len(segs)
<1>1. /\ segs \in Seq(Seg) /\ a >= 1 /\ a \in Nat /\ history \in Seq(Rec) /\ n \in Nat
      /\ \A i \in 1 .. n : history[i].offset = i - 1 /\ history[i] \in Rec
  BY DEF Typed, Chrono
<1>2. Shrinks(segs, kk)
  BY <1>1, BlankedShrinks DEF Compacted
<1>3. kk \in Seq(Seg) /\ Len(kk) = a
  BY <1>2 DEF Shrinks
<1>4. Names(kk, history) /\ Ordered(kk)
  <2> HIDE DEF kk
  <2> QED BY <1>1, <1>2, NamesShrink, ShrinksOrdered
<1>5. ASSUME NEW r \in RecordsOf(kk), r.key # NoKey
      PROVE  \E i \in 1 .. a : \E j \in 1 .. Len(segs[i].recs) :
                r = segs[i].recs[j] /\ (i = a \/ r \notin Superseded(segs))
  BY <1>1, <1>5, BlankedFrom DEF Compacted
<1>6. ASSUME NEW r \in RecordsOf(segs), r \notin Superseded(segs) PROVE r \in RecordsOf(kk)
  <2>1. PICK i \in 1 .. a : \E j \in 1 .. Len(segs[i].recs) : r = segs[i].recs[j]
    BY <1>1, InRecordsOf
  <2>2. PICK j \in 1 .. Len(segs[i].recs) : r = segs[i].recs[j]
    BY <2>1
  <2> QED BY <1>1, <1>6, <2>2, BlankedKeeps DEF Compacted
<1> HIDE DEF kk
<1>7. ASSUME NEW r \in RecordsOf(tt), r.key # NoKey PROVE r \in RecordsOf(kk)
  <2>1. PICK i \in 1 .. a : \E j \in 1 .. Len(kk[i].recs) : r = kk[i].recs[j]
    BY <1>1, <1>3, <1>7, BlankedFrom DEF WithoutTombstones
  <2> QED BY <1>3, <2>1, InRecordsOf
<1>8. ASSUME NEW r \in RecordsOf(kk), r.key # NoKey PROVE r \in RecordsOf(segs)
  <2>1. PICK i \in 1 .. a : \E j \in 1 .. Len(segs[i].recs) : r = segs[i].recs[j]
    BY <1>5, <1>8
  <2> QED BY <1>1, <2>1, InRecordsOf
<1> SUFFICES ASSUME NEW i \in 1 .. n, history[i].key # NoKey, ~Later(history, i),
                    history[i] \notin RecordsOf(tt)
             PROVE  Gone(tt, history, i)
  BY DEF LastKept, kk
<1> HIDE DEF tt
<1>9. CASE history[i] \notin RecordsOf(segs)
  <2>1. Gone(segs, history, i)
    BY <1>9 DEF LastKept
  <2>2. \A k \in 1 .. n : history[k].key = history[i].key /\ history[k] \in RecordsOf(tt)
           => history[k] \in RecordsOf(segs)
    BY <1>7, <1>8
  <2> QED BY <2>1, <2>2 DEF Gone
<1>10. CASE history[i] \in RecordsOf(segs)
  <2>1. history[i] \notin Superseded(segs)
    <3> SUFFICES ASSUME NEW q \in RecordsOf(segs), q.key = history[i].key, ~(q.offset <= history[i].offset)
                 PROVE  FALSE
      BY DEF Superseded, Latest
    <3>1. q.offset + 1 \in 1 .. n /\ q = history[q.offset + 1]
      BY KeyedRecord
    <3>2. q.offset \in Nat
      BY <1>1, RecordTyped
    <3>3. q.offset + 1 > i
      BY <1>1, <3>2
    <3> QED BY <3>1, <3>3 DEF Later
  <2>2. history[i] \in RecordsOf(kk)
    BY <1>6, <1>10, <2>1
  <2>3. PICK b \in 1 .. a : \E j \in 1 .. Len(kk[b].recs) : history[i] = kk[b].recs[j]
    BY <1>3, <2>2, InRecordsOf
  <2>4. PICK j \in 1 .. Len(kk[b].recs) : history[i] = kk[b].recs[j]
    BY <2>3
  <2>5. b # a /\ history[i] \in OldTombstones(kk)
    <3>1. ~(b = a \/ history[i] \notin OldTombstones(kk))
      BY <1>1, <1>3, <2>4, BlankedKeeps DEF WithoutTombstones, tt
    <3> QED BY <3>1
  <2>6. history[i].val = Empty
    BY <2>5 DEF OldTombstones
  <2>7. i - 1 < EndOf(kk[b]) /\ EndOf(kk[b]) <= kk[a].base
    <3>1. kk[b].recs[j].offset < EndOf(kk[b])
      BY <1>1, <1>3, <1>4, <2>4, NamedRecord
    <3>2. EndOf(kk[b]) <= kk[a].base
      BY <1>1, <1>3, <1>4, <2>5, SMTT(60) DEF Ordered
    <3> QED BY <1>1, <2>4, <3>1, <3>2
  <2>8. kk[a].base = segs[a].base /\ kk[a].base \in Nat /\ EndOf(kk[b]) \in Nat
    <3>1. kk[a].base = segs[a].base
      BY <1>1, <1>2 DEF Shrinks
    <3>2. kk[a] \in Seg /\ kk[b] \in Seg
      BY <1>1, <1>3
    <3> QED BY <3>1, <3>2, SMTT(60) DEF Seg, EndOf
  <2>9. ASSUME NEW k \in 1 .. n, k < i, history[k].key = history[i].key
        PROVE  history[k] \notin RecordsOf(tt)
    <3> SUFFICES ASSUME history[k] \in RecordsOf(tt) PROVE FALSE
      OBVIOUS
    <3>1. history[k] \in RecordsOf(kk) /\ history[k].key # NoKey
      BY <1>7, <2>9
    <3>2. PICK c \in 1 .. a : \E l \in 1 .. Len(segs[c].recs) :
             history[k] = segs[c].recs[l] /\ (c = a \/ history[k] \notin Superseded(segs))
      BY <1>5, <3>1
    <3>3. PICK l \in 1 .. Len(segs[c].recs) :
             history[k] = segs[c].recs[l] /\ (c = a \/ history[k] \notin Superseded(segs))
      BY <3>2
    <3>4. history[k].offset = k - 1 /\ history[i].offset = i - 1
      BY <1>1
    <3>5. CASE c = a
      <4>1. segs[a].base <= history[k].offset
        BY <1>1, <3>3, <3>5, NamedRecord, ZenonT(120)
      <4> QED BY <1>1, <2>7, <2>8, <2>9, <3>4, <4>1, SMTT(60)
    <3>6. CASE c # a
      <4>1. history[k] \in RecordsOf(segs)
        BY <1>1, <3>3, InRecordsOf
      <4>2. Latest(segs, history[k])
        BY <3>1, <3>3, <3>6, <4>1 DEF Superseded
      <4>3. i - 1 <= k - 1
        BY <1>10, <2>9, <3>4, <4>2 DEF Latest
      <4> QED BY <2>9, <4>3
    <3> QED BY <3>5, <3>6
  <2> QED BY <2>6, <2>9 DEF Gone
<1> QED BY <1>9, <1>10

-----------------------------------------------------------------------------
CleanInv ==
    /\ IInv /\ Ordered(segs) /\ Chrono /\ Whole(segs)
    /\ policy = "compaction" => LastKept(segs, history)

LEMMA InitCleanInv == Init => CleanInv
<1> SUFFICES ASSUME Init PROVE CleanInv
  OBVIOUS
<1>1. IInv /\ Ordered(segs) /\ Chrono
  BY InitGInv, InitChrono DEF GInv
<1>2. Len(segs) = 1 /\ Len(history) = 0
  BY DEF Init
<1>3. Whole(segs)
  BY <1>2 DEF Whole
<1>4. LastKept(segs, history)
  BY <1>2 DEF LastKept
<1> QED BY <1>1, <1>3, <1>4 DEF CleanInv

LEMMA RolledWhole ==
    ASSUME NEW ss \in Seq(Seg), Len(ss) >= 1, Whole(ss)
    PROVE  Whole(Rolled(ss))
<1>1. CASE Len(ss) >= MaxSegments
  BY <1>1 DEF Rolled
<1>2. CASE ~(Len(ss) >= MaxSegments)
  <2> DEFINE n == Len(ss)
             new == Segment(EndOf(ss[n]))
             tt == Append(ss, new)
  <2>1. n \in Nat /\ n >= 1 /\ Len(tt) = n + 1 /\ tt[n + 1] = new /\ \A i \in 1 .. n : tt[i] = ss[i]
    OBVIOUS
  <2>2. new.base = EndOf(ss[n])
    BY DEF Segment
  <2> HIDE DEF new, tt
  <2>3. ASSUME NEW i \in 1 .. n, NEW k \in 1 .. n, i <= k, tt[i].recs # <<>>
        PROVE  EndOf(tt[k]) = tt[k + 1].base
    <3>1. CASE k = n
      BY <2>1, <2>2, <3>1
    <3>2. CASE k # n
      <4>1. i \in 1 .. n - 1 /\ k \in 1 .. n - 1 /\ k + 1 \in 1 .. n
        BY <2>1, <2>3, <3>2
      <4>2. EndOf(ss[k]) = ss[k + 1].base
        BY <2>1, <2>3, <4>1 DEF Whole
      <4> QED BY <2>1, <4>1, <4>2
    <3> QED BY <3>1, <3>2
  <2>4. Whole(tt)
    <3>1. Len(tt) - 1 = n
      BY <2>1
    <3> QED BY <2>3, <3>1 DEF Whole
  <2> QED BY <1>2, <2>4 DEF Rolled, tt, new
<1> QED BY <1>1, <1>2

LEMMA ExtendedWhole ==
    ASSUME NEW ss \in Seq(Seg), Len(ss) >= 1, Whole(ss),
           NEW new \in Rec, NEW tt, tt = Extended(ss, new)
    PROVE  Whole(tt)
<1> DEFINE n == Len(ss)
<1>1. /\ n \in Nat /\ Len(tt) = n /\ tt[n].base = ss[n].base
      /\ \A i \in 1 .. n : i # n => tt[i] = ss[i]
  BY ExtendedFacts
<1> SUFFICES ASSUME NEW i \in 1 .. n - 1, NEW k \in 1 .. n - 1, i <= k, tt[i].recs # <<>>
             PROVE  EndOf(tt[k]) = tt[k + 1].base
  BY <1>1 DEF Whole
<1>2. i \in 1 .. n /\ i # n /\ k \in 1 .. n /\ k # n /\ k + 1 \in 1 .. n
  BY <1>1
<1>3. EndOf(ss[k]) = ss[k + 1].base
  BY <1>1, <1>2 DEF Whole
<1>4. tt[k] = ss[k] /\ tt[k + 1].base = ss[k + 1].base
  BY <1>1, <1>2
<1> QED BY <1>3, <1>4

LEMMA NextCleanInv == CleanInv /\ [Next]_vars => CleanInv'
<1> SUFFICES ASSUME CleanInv, [Next]_vars PROVE CleanInv'
  OBVIOUS
<1>1. IInv /\ IInv'
  BY NextIInv DEF CleanInv
<1>2. /\ Typed /\ segs \in Seq(Seg) /\ Len(segs) >= 1 /\ history \in Seq(Rec)
      /\ Names(segs, history) /\ Ordered(segs) /\ Chrono /\ Whole(segs)
      /\ policy = "compaction" => LastKept(segs, history)
  BY NamesMeans DEF CleanInv, IInv, Typed
<1>3. now \in Nat /\ now <= now
  BY <1>2 DEF Chrono
<1>4. ASSUME NEW p \in Payloads, AppendRecord(p[1], p[2]) PROVE CleanInv'
  <2> DEFINE ready == IF Len(Active.recs) >= MaxRecords THEN Rolled(segs) ELSE segs
             n     == Len(ready)
             new   == Record(EndOf(ready[n]), p[1], p[2], now \div MsPerSecond)
  <2>1. ready \in Seq(Seg) /\ Len(ready) >= 1 /\ Names(ready, history)
    BY <1>2, RolledNames
  <2>2. Ordered(ready) /\ RecordsOf(ready) = RecordsOf(segs) /\ Whole(ready)
    BY <1>2, RolledRecords, RolledWhole
  <2>3. /\ segs' = Extended(ready, new) /\ history' = Append(history, new)
        /\ now' = now /\ policy' = policy
    BY <1>4 DEF AppendRecord, Extended
  <2> HIDE DEF ready
  <2>4. new \in Rec /\ new.offset = Len(history) /\ new.ts = now \div MsPerSecond
    <3>1. EndOf(ready[n]) = Len(history)
      BY <2>1 DEF Names
    <3>2. p[1] \in Keys \cup {NoKey} /\ p[2] \in {Data, Empty}
      BY LogAssumption DEF LogAssumption
    <3>3. now \div MsPerSecond \in Int
      BY <1>1, LogAssumption DEF IInv, Typed, LogAssumption
    <3> QED BY <1>2, <3>1, <3>2, <3>3 DEF Record, Rec
  <2> HIDE DEF new
  <2>5. Ordered(segs') /\ RecordsOf(segs') = RecordsOf(segs) \cup {new}
    BY <2>1, <2>2, <2>3, <2>4, ExtendedRecords
  <2>6. Whole(segs')
    BY <2>1, <2>2, <2>3, <2>4, ExtendedWhole
  <2>7. Chrono'
    BY <1>2, <2>3, <2>4, AppendKeepsChrono
  <2>8. policy' = "compaction" => LastKept(segs', history')
    BY <1>2, <2>3, <2>4, <2>5, AppendLastKept
  <2> QED BY <1>1, <2>5, <2>6, <2>7, <2>8 DEF CleanInv
<1>5. ASSUME UNCHANGED <<now, policy, history>>, Ordered(segs'), Whole(segs'),
             policy = "compaction" => LastKept(segs', history)
      PROVE  CleanInv'
  <2>1. Chrono'
    BY <1>2, <1>3, <1>5, TimeKeepsChrono
  <2> QED BY <1>1, <1>5, <2>1 DEF CleanInv
<1>6. ASSUME RollSegment PROVE CleanInv'
  <2>1. segs' = Rolled(segs) /\ UNCHANGED <<now, policy, history>>
    BY <1>6 DEF RollSegment
  <2>2. Ordered(segs') /\ RecordsOf(segs') = RecordsOf(segs) /\ Whole(segs')
    BY <1>2, <2>1, RolledRecords, RolledWhole
  <2>3. LastKept(segs, history) => LastKept(segs', history)
    BY <2>2 DEF LastKept, Gone
  <2> QED BY <1>2, <1>5, <2>1, <2>2, <2>3
<1>7. ASSUME RunCycle PROVE CleanInv'
  <2>1. segs' = Cleaned /\ UNCHANGED <<now, policy, history>>
    BY <1>7 DEF RunCycle
  <2>2. Ordered(segs')
    BY <1>2, <2>1, CycleShrinks, ShrinksOrdered
  <2>3. Whole(segs')
    BY <1>2, <2>1, CleanedWhole
  <2>4. policy = "compaction" => LastKept(segs', history)
    BY <1>2, <2>1, CleanedIs, CompactedLastKept
  <2> QED BY <1>5, <2>1, <2>2, <2>3, <2>4
<1>8. ASSUME Tick PROVE CleanInv'
  <2>1. now' = now + 1 /\ UNCHANGED <<policy, segs, history>>
    BY <1>8 DEF Tick, logVars
  <2>2. now' \in Nat /\ now <= now'
    BY <1>3, <2>1
  <2>3. Chrono'
    BY <1>2, <2>1, <2>2, TimeKeepsChrono
  <2> QED BY <1>1, <1>2, <2>1, <2>3 DEF CleanInv
<1>9. ASSUME UNCHANGED <<segs, now, policy, history>> PROVE CleanInv'
  BY <1>2, <1>5, <1>9
<1>10. ASSUME NEW g \in Groups, ResetToEarliest(g) \/ ResetToLatest(g) PROVE CleanInv'
  BY <1>9, <1>10 DEF ResetToEarliest, ResetToLatest
<1>11. ASSUME NEW c \in Consumers, Poll(c) \/ Commit(c) \/ Forget(c) PROVE CleanInv'
  BY <1>9, <1>11 DEF Poll, Commit, Forget
<1>12. CASE UNCHANGED vars
  BY <1>9, <1>12 DEF vars
<1> QED BY <1>4, <1>6, <1>7, <1>8, <1>10, <1>11, <1>12 DEF Next

(* The cleaner takes nothing that a reader still needs: a compacted log    *)
(* keeps the last value of each key and revives no deleted key, a log that *)
(* is not compacted loses records from its old end only, and a cycle by    *)
(* size deletes what it must to be within the limit and no segment more.   *)
THEOREM CleaningIsSoundHolds == Spec => []CleaningIsSound
<1>1. CleanInv => CleaningIsSound
  <2> SUFFICES ASSUME CleanInv PROVE CleaningIsSound
    OBVIOUS
  <2>1. /\ Typed /\ Names(segs, history) /\ Ordered(segs) /\ Chrono /\ Whole(segs)
        /\ policy = "compaction" => LastKept(segs, history)
    BY NamesMeans DEF CleanInv, IInv, Typed
  <2>2. policy = "compaction" => Table(RecordsOf(segs)) = Table(ToSet(history))
    BY <2>1, LastKeptMeans
  <2>3. \A r \in RecordsOf(segs) : \A o \in r.offset .. EndOffset - 1 :
           \E q \in RecordsOf(segs) : q.offset = o
    <3>1. EndOffset = Len(history)
      BY DEF CleanInv, IInv, OffsetsNameRecords
    <3> QED BY <2>1, <3>1, NoneMissing
  <2>4. policy = "size" /\ MaxTotal > 0 =>
          LET left == Total(Cleaned, 1)
              gone == { i \in DOMAIN segs : segs[i].recs # <<>> /\ Cleaned[i].recs = <<>> }
          IN  /\ \/ left <= MaxTotal
                 \/ \A i \in 1 .. Len(segs) - 1 : Cleaned[i].recs = <<>>
              /\ gone \subseteq Expired(segs) \/ left + Len(segs[Max(gone)].recs) > MaxTotal
    BY <2>1, SizeBounds
  <2> QED BY <2>2, <2>3, <2>4 DEF CleaningIsSound
<1> QED BY <1>1, InitCleanInv, NextCleanInv, PTL DEF Spec
=============================================================================
