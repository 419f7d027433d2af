-------------------------- MODULE LockManagerProofs --------------------------
(***************************************************************************)
(* Proofs about the lock manager: its type, that a lock taken or upgraded  *)
(* creates no conflict, and that no queued request is lost.                *)
(***************************************************************************)
EXTENDS LockManager, LeastNumber, SequenceTheorems, TLAPS

(* The walk of lm_release_all over a bucket: the list it has built, and    *)
(* whether it has kept an entry.                                           *)
Walks == [list : Seq(Entries), kept : BOOLEAN]
Unwalked == [list |-> <<>>, kept |-> FALSE]

LEMMA PromoteTyped ==
    ASSUME NEW e \in Entries
    PROVE  Promote(e) \in Seq(Entries)
<1>1. CASE e.queue = <<>>
  BY <1>1 DEF Promote
<1>2. CASE e.queue # <<>>
  <2>1. e.queue \in Seq(Requests)
    BY DEF Entries
  <2>2. Head(e.queue) \in Requests /\ Tail(e.queue) \in Seq(Requests)
    BY <1>2, <2>1
  <2>3. [txn |-> Head(e.queue).txn, res |-> e.res, mode |-> Head(e.queue).mode,
         granted |-> TRUE, queue |-> Tail(e.queue)] \in Entries
    BY <2>2 DEF Entries, Requests
  <2> QED BY <1>2, <2>3 DEF Promote
<1> QED BY <1>1, <1>2

LEMMA VisitTyped ==
    ASSUME NEW acc \in Walks, NEW e \in Entries, NEW t
    PROVE  Visit(acc, e, t) \in Walks
<1>1. Promote(e) \in Seq(Entries)
  BY PromoteTyped
<1>2. acc.list \in Seq(Entries) /\ acc.kept \in BOOLEAN
  BY DEF Walks
<1>3. CASE e.txn = t /\ e.granted
  <2> DEFINE rest == IF acc.kept THEN acc.list ELSE <<>>
  <2>1. rest \in Seq(Entries)
    BY <1>2
  <2>2. Promote(e) \o rest \in Seq(Entries)
    BY <1>1, <2>1
  <2>3. Visit(acc, e, t) = [acc EXCEPT !.list = Promote(e) \o rest]
    BY <1>3 DEF Visit
  <2> HIDE DEF rest
  <2> QED BY <2>2, <2>3 DEF Walks
<1>4. CASE ~(e.txn = t /\ e.granted)
  BY <1>2, <1>4 DEF Visit, Walks
<1> QED BY <1>3, <1>4

(* The walk of lm_release_all over a bucket, step by step.                 *)
IsWalk(w, c, t) ==
    w[0] = Unwalked /\ \A k \in 1 .. Len(c) : w[k] = Visit(w[k - 1], c[k], t)

LEMMA WalkSteps ==
    ASSUME NEW c \in Seq(Entries), NEW t
    PROVE  \E w : IsWalk(w, c, t) /\ AfterReleaseAll(c, t) = w[Len(c)].list
<1> DEFINE n == Len(c)
           Step(g, s) == IF s = {} THEN Unwalked ELSE Visit(g[s \ {Max(s)}], c[Max(s)], t)
           Solves(g, S) == g = [s \in SUBSET S |-> Step(g, s)]
           iter == CHOOSE g : Solves(g, DOMAIN c)
<1>1. AfterReleaseAll(c, t) = iter[DOMAIN c].list
  BY DEF AfterReleaseAll, FoldLeft, MapThenFoldSet, Unwalked
<1>n. n \in Nat /\ DOMAIN c = 1 .. n
  OBVIOUS
<1> HIDE DEF n
<1>2. \E g : Solves(g, 1 .. n)
  <2> DEFINE P == { k \in 0 .. n : \E g : Solves(g, 1 .. k) }
  <2>1. 0 \in P
    <3> DEFINE g == [s \in SUBSET (1 .. 0) |-> Unwalked]
    <3>1. SUBSET (1 .. 0) = {{}}
      OBVIOUS
    <3>2. Solves(g, 1 .. 0)
      BY <3>1
    <3> QED BY <1>n, <3>2
  <2>2. ASSUME NEW k \in 1 .. n, k - 1 \in P PROVE k \in P
    <3>1. k - 1 \in Nat /\ k \in Nat
      BY <1>n
    <3>2. PICK f : Solves(f, 1 .. k - 1)
      BY <2>2
    <3> DEFINE g == [s \in SUBSET (1 .. k) |->
                       IF k \in s THEN Visit(f[s \ {k}], c[k], t) ELSE f[s]]
    <3>3. \A s \in SUBSET (1 .. k - 1) : g[s] = f[s] /\ f[s] = Step(f, s)
      <4> TAKE s \in SUBSET (1 .. k - 1)
      <4>1. k \notin s /\ s \in SUBSET (1 .. k)
        BY <3>1
      <4>2. g[s] = f[s]
        BY <4>1
      <4> HIDE DEF Step, g
      <4> QED BY <3>2, <4>2
    <3>4. ASSUME NEW s \in SUBSET (1 .. k) PROVE g[s] = Step(g, s)
      <4>1. CASE k \in s
        <5>1. Max(s) = k
          BY <3>1, <4>1, MaxOfTop
        <5>2. s \ {k} \in SUBSET (1 .. k - 1)
          BY <3>1
        <5>3. g[s \ {k}] = f[s \ {k}]
          BY <3>3, <5>2
        <5>4. g[s] = Visit(f[s \ {k}], c[k], t)
          BY <4>1
        <5> HIDE DEF g
        <5> QED BY <4>1, <5>1, <5>3, <5>4
      <4>2. CASE k \notin s
        <5>1. s \in SUBSET (1 .. k - 1)
          BY <3>1, <4>2
        <5>2. g[s] = f[s] /\ f[s] = Step(f, s)
          BY <3>3, <5>1
        <5>3. s # {} => s \ {Max(s)} \in SUBSET (1 .. k - 1)
          BY <5>1
        <5>4. s # {} => g[s \ {Max(s)}] = f[s \ {Max(s)}]
          BY <3>3, <5>3
        <5> HIDE DEF g
        <5> QED BY <5>2, <5>4
      <4> QED BY <4>1, <4>2
    <3>5. g = [s \in SUBSET (1 .. k) |-> g[s]]
      OBVIOUS
    <3>6. Solves(g, 1 .. k)
      <4> HIDE DEF g, Step
      <4> QED BY <3>4, <3>5
    <3>7. k \in 0 .. n
      BY <1>n
    <3> HIDE DEF g, Solves
    <3> QED BY <3>6, <3>7
  <2>3. n \in 0 .. n
    BY <1>n
  <2>4. n \in P
    <3> HIDE DEF P
    <3> QED BY <1>n, <2>1, <2>2, <2>3, InductionUpTo
  <2> QED BY <2>4
<1>3. Solves(iter, 1 .. n)
  <2> HIDE DEF Solves
  <2> QED BY <1>2, <1>n
<1> HIDE DEF iter
<1>4. \A s \in SUBSET (1 .. n) : iter[s] = Step(iter, s)
  <2> HIDE DEF Step
  <2> QED BY <1>3
<1> HIDE DEF Solves
<1> DEFINE w == [k \in 0 .. n |-> iter[1 .. k]]
<1>5. w[0] = Unwalked
  <2>1. 1 .. 0 = {} /\ {} \in SUBSET (1 .. n)
    OBVIOUS
  <2>2. iter[{}] = Unwalked
    BY <1>4, <2>1
  <2> QED BY <1>n, <2>1, <2>2
<1>6. ASSUME NEW k \in 1 .. n PROVE w[k] = Visit(w[k - 1], c[k], t)
  <2>1. k \in Nat /\ k \in 1 .. k /\ 1 .. k \in SUBSET (1 .. n)
    BY <1>n
  <2>2. Max(1 .. k) = k
    BY <2>1, MaxOfTop
  <2>3. (1 .. k) \ {k} = 1 .. k - 1
    BY <2>1
  <2>4. iter[1 .. k] = Visit(iter[1 .. k - 1], c[k], t)
    BY <1>4, <2>1, <2>2, <2>3
  <2>5. k \in 0 .. n /\ k - 1 \in 0 .. n
    BY <1>n
  <2> QED BY <2>4, <2>5
<1>7. AfterReleaseAll(c, t) = w[n].list
  BY <1>1, <1>n
<1> HIDE DEF w
<1> QED BY <1>5, <1>6, <1>7 DEF n, IsWalk

LEMMA WalkTyped ==
    ASSUME NEW c \in Seq(Entries), NEW t
    PROVE  AfterReleaseAll(c, t) \in Seq(Entries)
<1>1. PICK w : IsWalk(w, c, t) /\ AfterReleaseAll(c, t) = w[Len(c)].list
  BY WalkSteps
<1> DEFINE P == { k \in 0 .. Len(c) : w[k] \in Walks }
<1>2. 0 \in P
  <2>1. Unwalked \in Walks
    BY DEF Walks, Unwalked
  <2> QED BY <1>1, <2>1 DEF IsWalk
<1>3. ASSUME NEW k \in 1 .. Len(c), k - 1 \in P PROVE k \in P
  <2>1. c[k] \in Entries /\ k \in 0 .. Len(c)
    OBVIOUS
  <2>2. Visit(w[k - 1], c[k], t) \in Walks
    BY <1>3, <2>1, VisitTyped
  <2> QED BY <1>1, <2>1, <2>2 DEF IsWalk
<1>4. Len(c) \in P
  <2>1. Len(c) \in Nat /\ Len(c) \in 0 .. Len(c)
    OBVIOUS
  <2> HIDE DEF P
  <2> QED BY <1>2, <1>3, <2>1, InductionUpTo
<1> QED BY <1>1, <1>4 DEF Walks

-----------------------------------------------------------------------------
LEMMA PushTyped ==
    ASSUME NEW e \in Entries, NEW c \in Seq(Entries)
    PROVE  PushFront(e, c) \in Seq(Entries)
<1>1. <<e>> \in Seq(Entries)
  OBVIOUS
<1>2. \A x, y \in Seq(Entries) : x \o y \in Seq(Entries)
  OBVIOUS
<1> QED BY <1>1, <1>2 DEF PushFront

LEMMA EnqueueTyped ==
    ASSUME NEW c \in Seq(Entries), NEW t \in Txns, NEW r \in Resources, NEW m \in Modes
    PROVE  Enqueue(c, t, r, m) \in Seq(Entries)
<1> DEFINE same == { i \in DOMAIN c : c[i].res = r }
<1>1. CASE same # {}
  <2> DEFINE k == Min(same)
             e == [c[k] EXCEPT !.queue = Append(@, [txn |-> t, mode |-> m])]
  <2>1. k \in DOMAIN c
    <3>1. same \in SUBSET Nat
      OBVIOUS
    <3>2. k \in same
      <4> HIDE DEF same
      <4> QED BY <1>1, <3>1, MinIsMember
    <3> QED BY <3>2
  <2>2. Enqueue(c, t, r, m) = [c EXCEPT ![k] = e]
    BY <1>1 DEF Enqueue
  <2>3. e \in Entries
    <3> HIDE DEF k
    <3>1. c[k] \in Entries
      BY <2>1
    <3>2. c[k].queue \in Seq(Requests)
      BY <3>1 DEF Entries
    <3>3. Append(c[k].queue, [txn |-> t, mode |-> m]) \in Seq(Requests)
      BY <3>2 DEF Requests
    <3> QED BY <3>1, <3>3 DEF Entries
  <2> HIDE DEF k, e
  <2> QED BY <2>1, <2>2, <2>3, ExceptSeq
<1>2. CASE same = {}
  <2>1. NewEntry(t, r, m, FALSE) \in Entries
    BY DEF NewEntry, Entries
  <2>2. PushFront(NewEntry(t, r, m, FALSE), c) \in Seq(Entries)
    BY <2>1, PushTyped
  <2>3. Enqueue(c, t, r, m) = PushFront(NewEntry(t, r, m, FALSE), c)
    BY <1>2 DEF Enqueue
  <2> QED BY <2>2, <2>3
<1> QED BY <1>1, <1>2

LEMMA AcquireTyped ==
    ASSUME NEW c \in Seq(Entries), NEW t \in Txns, NEW r \in Resources, NEW m \in Modes
    PROVE  AfterAcquire(c, t, r, m) \in Seq(Entries)
<1>1. NewEntry(t, r, m, TRUE) \in Entries
  BY DEF NewEntry, Entries
<1>2. PushFront(NewEntry(t, r, m, TRUE), c) \in Seq(Entries)
  BY <1>1, PushTyped
<1> QED BY <1>2, EnqueueTyped DEF AfterAcquire

LEMMA FirstOwnGranted ==
    ASSUME NEW c \in Seq(Entries), NEW t, NEW r, OwnGranted(c, t, r) # {}
    PROVE  LET k == Min(OwnGranted(c, t, r)) IN
           k \in DOMAIN c /\ c[k].txn = t /\ c[k].res = r /\ c[k].granted
<1>1. OwnGranted(c, t, r) \in SUBSET Nat
  BY DEF OwnGranted
<1>2. Min(OwnGranted(c, t, r)) \in OwnGranted(c, t, r)
  BY <1>1, MinIsMember
<1> QED BY <1>2 DEF OwnGranted

LEMMA ReleaseTyped ==
    ASSUME NEW c \in Seq(Entries), NEW t, NEW r
    PROVE  AfterRelease(c, t, r) \in Seq(Entries)
<1>1. CASE OwnGranted(c, t, r) = {}
  BY <1>1 DEF AfterRelease
<1>2. CASE OwnGranted(c, t, r) # {}
  <2> DEFINE k == Min(OwnGranted(c, t, r))
  <2>1. k \in DOMAIN c
    BY <1>2, FirstOwnGranted
  <2>2. AfterRelease(c, t, r) = Promote(c[k]) \o RemoveAt(c, k)
    BY <1>2 DEF AfterRelease
  <2> HIDE DEF k
  <2>3. Promote(c[k]) \in Seq(Entries)
    BY <2>1, PromoteTyped
  <2>4. RemoveAt(c, k) \in Seq(Entries)
    BY <2>1 DEF RemoveAt
  <2> QED BY <2>2, <2>3, <2>4
<1> QED BY <1>1, <1>2

LEMMA UpgradeTyped ==
    ASSUME NEW c \in Seq(Entries), NEW t, NEW r
    PROVE  AfterUpgrade(c, t, r) \in Seq(Entries)
<1>1. CASE UpgradeSucceeds(c, t, r)
  <2> DEFINE k == Min(OwnGranted(c, t, r))
             e == [c[k] EXCEPT !.mode = "X"]
  <2>1. k \in DOMAIN c
    <3>1. OwnGranted(c, t, r) # {}
      BY <1>1 DEF UpgradeSucceeds
    <3> QED BY <3>1, FirstOwnGranted
  <2>2. AfterUpgrade(c, t, r) = [c EXCEPT ![k] = e]
    BY <1>1 DEF AfterUpgrade
  <2> HIDE DEF k
  <2>3. e \in Entries
    <3>1. c[k] \in Entries /\ "X" \in Modes
      BY <2>1 DEF Modes
    <3> QED BY <3>1 DEF Entries
  <2> HIDE DEF e
  <2> QED BY <2>1, <2>2, <2>3, ExceptSeq
<1>2. CASE ~UpgradeSucceeds(c, t, r)
  BY <1>2 DEF AfterUpgrade
<1> QED BY <1>1, <1>2

LEMMA BucketOf ==
    ASSUME NEW r \in Resources
    PROVE  Bucket(r) \in Buckets
BY LMAssumption DEF Bucket, Buckets

(* Whatever is called, a bucket stays a list of entries with their queues, *)
(* and the pool counter of lock_manager.c stays a number.                  *)
THEOREM TypeCorrect == LMSpec => []LMTypeOK
<1>1. LMInit => LMTypeOK
  BY DEF LMInit, LMTypeOK
<1>2. LMTypeOK /\ [LMNext]_lmVars => LMTypeOK'
  <2> SUFFICES ASSUME LMTypeOK, [LMNext]_lmVars PROVE LMTypeOK'
    OBVIOUS
  <2>1. ASSUME NEW t \in Txns, NEW r \in Resources, NEW m \in Modes, Acquire(t, r, m)
        PROVE  LMTypeOK'
    <3>1. CASE PoolFree
      <4>1. AfterAcquire(chain[Bucket(r)], t, r, m) \in Seq(Entries)
        BY BucketOf, AcquireTyped DEF LMTypeOK
      <4> QED BY <2>1, <3>1, <4>1, SMTT(60) DEF Acquire, LMTypeOK
    <3> QED BY <2>1, <3>1 DEF Acquire, LMTypeOK, lmVars
  <2>2. ASSUME NEW t \in Txns, NEW r \in Resources, Release(t, r)
        PROVE  LMTypeOK'
    <3>1. AfterRelease(chain[Bucket(r)], t, r) \in Seq(Entries)
      BY BucketOf, ReleaseTyped DEF LMTypeOK
    <3> QED BY <2>2, <3>1 DEF Release, LMTypeOK
  <2>3. ASSUME NEW t \in Txns, NEW r \in Resources, Upgrade(t, r)
        PROVE  LMTypeOK'
    <3>1. AfterUpgrade(chain[Bucket(r)], t, r) \in Seq(Entries)
      BY BucketOf, UpgradeTyped DEF LMTypeOK
    <3> QED BY <2>3, <3>1 DEF Upgrade, LMTypeOK
  <2>4. ASSUME NEW t \in Txns, ReleaseAll(t)
        PROVE  LMTypeOK'
    <3>1. \A b \in Buckets : AfterReleaseAll(chain[b], t) \in Seq(Entries)
      BY WalkTyped DEF LMTypeOK
    <3> QED BY <2>4, <3>1 DEF ReleaseAll, LMTypeOK
  <2>5. CASE UNCHANGED lmVars
    BY <2>5 DEF LMTypeOK, lmVars
  <2> QED BY <2>1, <2>2, <2>3, <2>4, <2>5 DEF LMNext
<1> QED BY <1>1, <1>2, PTL DEF LMSpec

-----------------------------------------------------------------------------
(* Who holds what, in one bucket.                                          *)
HeldIn(c, t, r, m) ==
    \E i \in DOMAIN c : c[i].granted /\ c[i].txn = t /\ c[i].res = r /\ c[i].mode = m

LEMMA HoldsIsHeldIn ==
    ASSUME NEW ch, NEW t, NEW r, NEW m
    PROVE  Holds(ch, t, r, m) <=> HeldIn(ch[Bucket(r)], t, r, m)
BY DEF Holds, HeldIn, InBucket

(* A request that meets no conflict meets no lock in its way, or has one   *)
(* of its own that covers it.                                              *)
LEMMA NoConflict ==
    ASSUME NEW c \in Seq(Entries), NEW t, NEW r, NEW m, ~HasConflict(c, t, r, m)
    PROVE  \/ \A i \in DOMAIN c : ~Decides(c[i], t, r, m)
           \/ \E i \in DOMAIN c : Decides(c[i], t, r, m) /\ Covers(c[i], t, m)
<1> DEFINE D == { i \in DOMAIN c : Decides(c[i], t, r, m) }
<1> SUFFICES ASSUME D # {} PROVE \E i \in DOMAIN c : Decides(c[i], t, r, m) /\ Covers(c[i], t, m)
  OBVIOUS
<1>1. PICK i \in D : \A j \in D : i <= j
  <2>1. D \in SUBSET Nat
    OBVIOUS
  <2> HIDE DEF D
  <2> QED BY <2>1, LeastExists
<1>2. \A j \in 1 .. i - 1 : ~Decides(c[j], t, r, m)
  <2> SUFFICES ASSUME NEW j \in 1 .. i - 1, Decides(c[j], t, r, m) PROVE FALSE
    OBVIOUS
  <2>1. j \in DOMAIN c /\ j < i
    BY <1>1
  <2> QED BY <1>1, <2>1
<1>3. i \in DOMAIN c /\ Decides(c[i], t, r, m)
  BY <1>1
<1> QED BY <1>2, <1>3 DEF HasConflict

LEMMA AcquireHolds ==
    ASSUME NEW c \in Seq(Entries), NEW t \in Txns, NEW r \in Resources, NEW m \in Modes,
           NEW t1, NEW r1, NEW m1, HeldIn(AfterAcquire(c, t, r, m), t1, r1, m1)
    PROVE  HeldIn(c, t1, r1, m1) \/ (t1 = t /\ r1 = r /\ m1 = m /\ ~HasConflict(c, t, r, m))
<1>1. CASE HasConflict(c, t, r, m)
  <2>1. AfterAcquire(c, t, r, m) = Enqueue(c, t, r, m)
    BY <1>1 DEF AfterAcquire
  <2> DEFINE same == { i \in DOMAIN c : c[i].res = r }
             k == Min(same)
  <2>2. CASE same # {}
    <3>1. Enqueue(c, t, r, m) = [c EXCEPT ![k].queue = Append(@, [txn |-> t, mode |-> m])]
      BY <2>2 DEF Enqueue
    <3> HIDE DEF k
    <3>2. \A i \in DOMAIN c : c[i] \in Entries
      OBVIOUS
    <3>3. PICK i \in DOMAIN c : LET e == Enqueue(c, t, r, m)[i] IN
             e.granted /\ e.txn = t1 /\ e.res = r1 /\ e.mode = m1
      BY <2>1, <3>1 DEF HeldIn
    <3>4. LET e == Enqueue(c, t, r, m)[i] IN
             e.granted = c[i].granted /\ e.txn = c[i].txn /\ e.res = c[i].res /\ e.mode = c[i].mode
      BY <3>1, <3>2 DEF Entries
    <3> QED BY <3>3, <3>4 DEF HeldIn
  <2>3. CASE same = {}
    <3> DEFINE e == NewEntry(t, r, m, FALSE)
    <3>1. Enqueue(c, t, r, m) = <<e>> \o c
      BY <2>3 DEF Enqueue, PushFront
    <3>2. ~e.granted
      BY DEF NewEntry
    <3> HIDE DEF e
    <3>3. PICK i \in DOMAIN (<<e>> \o c) : LET d == (<<e>> \o c)[i] IN
             d.granted /\ d.txn = t1 /\ d.res = r1 /\ d.mode = m1
      BY <2>1, <3>1 DEF HeldIn
    <3>4. i # 1 => i - 1 \in DOMAIN c /\ (<<e>> \o c)[i] = c[i - 1]
      OBVIOUS
    <3>5. (<<e>> \o c)[1] = e
      OBVIOUS
    <3> QED BY <3>2, <3>3, <3>4, <3>5 DEF HeldIn
  <2> QED BY <2>2, <2>3
<1>2. CASE ~HasConflict(c, t, r, m)
  <2> DEFINE e == NewEntry(t, r, m, TRUE)
  <2>1. AfterAcquire(c, t, r, m) = <<e>> \o c
    BY <1>2 DEF AfterAcquire, PushFront
  <2>2. e.txn = t /\ e.res = r /\ e.mode = m
    BY DEF NewEntry
  <2> HIDE DEF e
  <2>3. PICK i \in DOMAIN (<<e>> \o c) : LET d == (<<e>> \o c)[i] IN
           d.granted /\ d.txn = t1 /\ d.res = r1 /\ d.mode = m1
    BY <2>1 DEF HeldIn
  <2>4. i # 1 => i - 1 \in DOMAIN c /\ (<<e>> \o c)[i] = c[i - 1]
    OBVIOUS
  <2>5. (<<e>> \o c)[1] = e
    OBVIOUS
  <2> QED BY <1>2, <2>2, <2>3, <2>4, <2>5 DEF HeldIn
<1> QED BY <1>1, <1>2

LEMMA UpgradeHolds ==
    ASSUME NEW c \in Seq(Entries), NEW t, NEW r,
           NEW t1, NEW r1, NEW m1, HeldIn(AfterUpgrade(c, t, r), t1, r1, m1)
    PROVE  HeldIn(c, t1, r1, m1) \/ (t1 = t /\ r1 = r /\ m1 = "X" /\ UpgradeSucceeds(c, t, r))
<1>1. CASE UpgradeSucceeds(c, t, r)
  <2> DEFINE k == Min(OwnGranted(c, t, r))
  <2>1. k \in DOMAIN c /\ c[k].txn = t /\ c[k].res = r
    <3>1. OwnGranted(c, t, r) # {}
      BY <1>1 DEF UpgradeSucceeds
    <3> QED BY <3>1, FirstOwnGranted
  <2>2. AfterUpgrade(c, t, r) = [c EXCEPT ![k].mode = "X"]
    BY <1>1 DEF AfterUpgrade
  <2> HIDE DEF k
  <2>3. PICK i \in DOMAIN c : LET e == AfterUpgrade(c, t, r)[i] IN
           e.granted /\ e.txn = t1 /\ e.res = r1 /\ e.mode = m1
    BY <2>2 DEF HeldIn
  <2>4. c[i] \in Entries
    OBVIOUS
  <2>5. CASE i = k
    <3>1. LET e == AfterUpgrade(c, t, r)[i] IN
            e.txn = c[k].txn /\ e.res = c[k].res /\ e.mode = "X"
      BY <2>1, <2>2, <2>4, <2>5 DEF Entries
    <3> QED BY <1>1, <2>1, <2>3, <3>1
  <2>6. CASE i # k
    <3>1. AfterUpgrade(c, t, r)[i] = c[i]
      BY <2>2, <2>6
    <3> QED BY <2>3, <3>1 DEF HeldIn
  <2> QED BY <2>5, <2>6
<1>2. CASE ~UpgradeSucceeds(c, t, r)
  BY <1>2 DEF AfterUpgrade
<1> QED BY <1>1, <1>2

(* One bucket whose locks on r are compatible.                             *)
Respects(c, r) ==
    \A t1, t2 \in Txns, m \in Modes :
        t1 # t2 /\ HeldIn(c, t1, r, "X") => ~HeldIn(c, t2, r, m)

LEMMA CompatibleIsRespects ==
    ASSUME NEW ch
    PROVE  Compatible(ch) <=> \A r \in Resources : Respects(ch[Bucket(r)], r)
BY HoldsIsHeldIn DEF Compatible, Respects, HoldsAny

(* What a conflict-free request leaves to others.                          *)
LEMMA NobodyInTheWay ==
    ASSUME NEW c \in Seq(Entries), NEW t \in Txns, NEW r \in Resources, NEW m \in Modes,
           Respects(c, r), ~HasConflict(c, t, r, m),
           NEW u \in Txns, u # t, NEW mode \in Modes, m = "X" \/ mode = "X"
    PROVE  ~HeldIn(c, u, r, mode)
<1> SUFFICES ASSUME NEW i \in DOMAIN c, c[i].granted, c[i].txn = u, c[i].res = r, c[i].mode = mode
             PROVE  FALSE
  BY DEF HeldIn
<1>1. Decides(c[i], t, r, m)
  BY DEF Decides
<1>2. PICK j \in DOMAIN c : Decides(c[j], t, r, m) /\ Covers(c[j], t, m)
  BY <1>1, NoConflict
<1>3. c[j].granted /\ c[j].res = r /\ c[j].txn = t /\ (c[j].mode = "X" \/ m = "S")
  BY <1>2 DEF Decides, Covers
<1>4. c[j].mode \in Modes
  <2>1. c[j] \in Entries
    OBVIOUS
  <2> QED BY <2>1 DEF Entries
<1>5. HeldIn(c, t, r, c[j].mode) /\ HeldIn(c, u, r, mode)
  BY <1>3 DEF HeldIn
<1>6. CASE c[j].mode = "X"
  BY <1>5, <1>6 DEF Respects
<1>7. CASE c[j].mode # "X"
  <2>1. mode = "X"
    BY <1>3, <1>7
  <2> QED BY <1>4, <1>5, <2>1 DEF Respects
<1> QED BY <1>6, <1>7

LEMMA AcquireRespects ==
    ASSUME NEW c \in Seq(Entries), NEW t \in Txns, NEW r \in Resources, NEW m \in Modes,
           NEW s \in Resources, Respects(c, s), Respects(c, r)
    PROVE  Respects(AfterAcquire(c, t, r, m), s)
<1> DEFINE d == AfterAcquire(c, t, r, m)
<1> SUFFICES ASSUME NEW t1 \in Txns, NEW t2 \in Txns, NEW mode \in Modes, t1 # t2,
                    HeldIn(d, t1, s, "X"), HeldIn(d, t2, s, mode)
             PROVE  FALSE
  BY DEF Respects
<1>1. HeldIn(c, t1, s, "X") \/ (t1 = t /\ s = r /\ "X" = m /\ ~HasConflict(c, t, r, m))
  BY AcquireHolds
<1>2. HeldIn(c, t2, s, mode) \/ (t2 = t /\ s = r /\ mode = m /\ ~HasConflict(c, t, r, m))
  BY AcquireHolds
<1> HIDE DEF d
<1>3. CASE HeldIn(c, t1, s, "X") /\ HeldIn(c, t2, s, mode)
  BY <1>3 DEF Respects
<1>4. CASE ~HeldIn(c, t1, s, "X")
  <2>1. t1 = t /\ s = r /\ m = "X" /\ ~HasConflict(c, t, r, m) /\ HeldIn(c, t2, s, mode)
    BY <1>1, <1>2, <1>4
  <2> QED BY <2>1, NobodyInTheWay
<1>5. CASE ~HeldIn(c, t2, s, mode)
  <2>1. t2 = t /\ s = r /\ ~HasConflict(c, t, r, m) /\ HeldIn(c, t1, s, "X") /\ "X" \in Modes
    BY <1>1, <1>2, <1>5 DEF Modes
  <2> QED BY <2>1, NobodyInTheWay
<1> QED BY <1>3, <1>4, <1>5

LEMMA UpgradeRespects ==
    ASSUME NEW c \in Seq(Entries), NEW t \in Txns, NEW r \in Resources,
           NEW s \in Resources, Respects(c, s), Respects(c, r)
    PROVE  Respects(AfterUpgrade(c, t, r), s)
<1> DEFINE d == AfterUpgrade(c, t, r)
<1> SUFFICES ASSUME NEW t1 \in Txns, NEW t2 \in Txns, NEW mode \in Modes, t1 # t2,
                    HeldIn(d, t1, s, "X"), HeldIn(d, t2, s, mode)
             PROVE  FALSE
  BY DEF Respects
<1>1. HeldIn(c, t1, s, "X") \/ (t1 = t /\ s = r /\ UpgradeSucceeds(c, t, r))
  BY UpgradeHolds
<1>2. HeldIn(c, t2, s, mode) \/ (t2 = t /\ s = r /\ UpgradeSucceeds(c, t, r))
  BY UpgradeHolds
<1> HIDE DEF d
<1>3. ASSUME UpgradeSucceeds(c, t, r), NEW u \in Txns, u # t, NEW m \in Modes
      PROVE  ~HeldIn(c, u, r, m)
  <2> DEFINE k == Min(OwnGranted(c, t, r))
  <2>1. OwnGranted(c, t, r) # {}
    BY <1>3 DEF UpgradeSucceeds
  <2>2. k \in DOMAIN c /\ c[k].txn = t /\ c[k].res = r /\ c[k].granted
    BY <2>1, FirstOwnGranted
  <2>3. c[k].mode = "X" \/ ~HasConflict(c, t, r, "X") \/ ~OtherSharers(c, t, r)
    BY <1>3 DEF UpgradeSucceeds
  <2> HIDE DEF k
  <2>4. HeldIn(c, t, r, c[k].mode) /\ c[k].mode \in Modes /\ "X" \in Modes
    <3>1. c[k] \in Entries
      BY <2>2
    <3>2. c[k].mode \in Modes /\ "X" \in Modes
      BY <3>1 DEF Entries, Modes
    <3> QED BY <2>2, <3>2 DEF HeldIn
  <2>5. CASE c[k].mode = "X"
    BY <1>3, <2>4, <2>5 DEF Respects
  <2>6. CASE ~HasConflict(c, t, r, "X")
    BY <1>3, <2>4, <2>6, NobodyInTheWay
  <2>7. CASE ~OtherSharers(c, t, r)
    <3>1. ~HeldIn(c, u, r, "S")
      BY <1>3, <2>7 DEF OtherSharers, HeldIn
    <3>2. ~HeldIn(c, u, r, "X")
      BY <1>3, <2>4 DEF Respects
    <3> QED BY <3>1, <3>2 DEF Modes
  <2> QED BY <2>3, <2>5, <2>6, <2>7
<1>4. CASE HeldIn(c, t1, s, "X") /\ HeldIn(c, t2, s, mode)
  BY <1>4 DEF Respects
<1>5. CASE ~HeldIn(c, t1, s, "X")
  BY <1>1, <1>2, <1>3, <1>5
<1>6. CASE ~HeldIn(c, t2, s, mode)
  <2>1. "X" \in Modes
    BY DEF Modes
  <2> QED BY <1>1, <1>2, <1>3, <1>6, <2>1
<1> QED BY <1>4, <1>5, <1>6

(* lm_lock_acquire and lm_lock_upgrade keep a table in which no two         *)
(* transactions hold conflicting locks that way, for any transactions,     *)
(* resources and buckets.                                                  *)
THEOREM GrantsKeepCompatibilityHolds == LMSpec => GrantsKeepCompatibility
<1>1. LMTypeOK /\ GrantStep /\ Compatible(chain) => Compatible(chain')
  <2> SUFFICES ASSUME LMTypeOK, Compatible(chain),
                      NEW t \in Txns, NEW r \in Resources,
                      (\E m \in Modes : Acquire(t, r, m)) \/ Upgrade(t, r),
                      NEW s \in Resources
               PROVE  Respects(chain'[Bucket(s)], s)
    BY CompatibleIsRespects DEF GrantStep
  <2> DEFINE c == chain[Bucket(r)]
  <2>1. c \in Seq(Entries) /\ chain[Bucket(s)] \in Seq(Entries)
    BY BucketOf DEF LMTypeOK
  <2>2. Respects(c, r) /\ Respects(chain[Bucket(s)], s)
    BY CompatibleIsRespects
  <2>3. Bucket(r) \in Buckets /\ Bucket(s) \in Buckets /\ DOMAIN chain = Buckets
    BY BucketOf DEF LMTypeOK
  <2>4. ASSUME NEW d, chain' = [chain EXCEPT ![Bucket(r)] = d], Respects(c, s) => Respects(d, s)
        PROVE  Respects(chain'[Bucket(s)], s)
    BY <2>2, <2>3, <2>4
  <2>5. CASE Upgrade(t, r)
    <3>1. chain' = [chain EXCEPT ![Bucket(r)] = AfterUpgrade(c, t, r)]
      BY <2>5 DEF Upgrade
    <3>2. Respects(c, s) => Respects(AfterUpgrade(c, t, r), s)
      BY <2>1, <2>2, UpgradeRespects
    <3> HIDE DEF c
    <3> QED BY <2>4, <3>1, <3>2
  <2>6. ASSUME NEW m \in Modes, Acquire(t, r, m)
        PROVE  Respects(chain'[Bucket(s)], s)
    <3>1. CASE PoolFree
      <4>1. chain' = [chain EXCEPT ![Bucket(r)] = AfterAcquire(c, t, r, m)]
        BY <2>6, <3>1 DEF Acquire
      <4>2. Respects(c, s) => Respects(AfterAcquire(c, t, r, m), s)
        BY <2>1, <2>2, AcquireRespects
      <4> HIDE DEF c
      <4> QED BY <2>4, <4>1, <4>2
    <3>2. CASE ~PoolFree
      BY <2>2, <2>6, <3>2 DEF Acquire, lmVars
    <3> QED BY <3>1, <3>2
  <2> QED BY <2>5, <2>6
<1>2. Compatible(chain) /\ UNCHANGED lmVars => Compatible(chain')
  BY DEF lmVars
<1> QED BY <1>1, TypeCorrect, PTL DEF GrantsKeepCompatibility

-----------------------------------------------------------------------------
(* What an entry says of u on r: it is of u, granted or waiting, or a      *)
(* request of u is in its queue.  The second leaves out what u holds.      *)
PlacesIn(e, u, r) ==
    e.res = r /\ (e.txn = u \/ \E k \in DOMAIN e.queue : e.queue[k].txn = u)
WaitsIn(e, u, r) ==
    e.res = r /\ ((e.txn = u /\ ~e.granted) \/ \E k \in DOMAIN e.queue : e.queue[k].txn = u)

HasPlace(c, u, r) == \E i \in DOMAIN c : PlacesIn(c[i], u, r)
Waiting(c, u, r) == \E i \in DOMAIN c : WaitsIn(c[i], u, r)

LEMMA WaitsIsWaiting ==
    ASSUME NEW ch, NEW u, NEW r
    PROVE  Waits(ch, u, r) <=> Waiting(ch[Bucket(r)], u, r)
BY DEF Waits, InBucket, Waiting, WaitsIn

LEMMA PlacedWaitsOrHolds ==
    ASSUME NEW ch, NEW u, NEW r, ch[Bucket(r)] \in Seq(Entries), HasPlace(ch[Bucket(r)], u, r)
    PROVE  Waits(ch, u, r) \/ HoldsAny(ch, u, r)
<1> DEFINE c == ch[Bucket(r)]
<1>1. PICK i \in DOMAIN c : PlacesIn(c[i], u, r)
  BY DEF HasPlace
<1>2. c[i] \in InBucket(ch, Bucket(r))
  BY DEF InBucket
<1>3. c[i].mode \in Modes
  <2>1. c[i] \in Entries
    OBVIOUS
  <2> QED BY <2>1 DEF Entries
<1> HIDE DEF c
<1>4. CASE c[i].txn = u /\ c[i].granted
  BY <1>1, <1>2, <1>3, <1>4 DEF HoldsAny, Holds, PlacesIn
<1>5. CASE ~(c[i].txn = u /\ c[i].granted)
  BY <1>1, <1>2, <1>5 DEF Waits, PlacesIn
<1> QED BY <1>4, <1>5

(* The head of a queue is promoted with the rest of the queue.             *)
LEMMA PromotePlaces ==
    ASSUME NEW e \in Entries, NEW u, NEW k \in DOMAIN e.queue, e.queue[k].txn = u
    PROVE  HasPlace(Promote(e), u, e.res)
<1> DEFINE s == e.queue
           h == [txn |-> Head(s).txn, res |-> e.res, mode |-> Head(s).mode,
                 granted |-> TRUE, queue |-> Tail(s)]
<1>1. s \in Seq(Requests) /\ s # <<>>
  BY DEF Entries
<1>2. Promote(e) = <<h>>
  BY <1>1 DEF Promote
<1>3. 1 \in DOMAIN <<h>> /\ <<h>>[1] = h
  OBVIOUS
<1>4. PlacesIn(h, u, e.res)
  <2>1. h.txn = Head(s).txn /\ h.res = e.res /\ h.queue = Tail(s)
    OBVIOUS
  <2> HIDE DEF h
  <2>2. CASE k = 1
    <3>1. Head(s).txn = u
      BY <1>1, <2>2
    <3> QED BY <2>1, <3>1 DEF PlacesIn
  <2>3. CASE k # 1
    <3>1. k - 1 \in DOMAIN Tail(s) /\ Tail(s)[k - 1] = s[k]
      BY <1>1, <2>3
    <3> QED BY <2>1, <3>1 DEF PlacesIn
  <2> QED BY <2>2, <2>3
<1> HIDE DEF h
<1> QED BY <1>2, <1>3, <1>4 DEF HasPlace

LEMMA PlacedInConcat ==
    ASSUME NEW x \in Seq(Entries), NEW y \in Seq(Entries), NEW u, NEW r
    PROVE  HasPlace(x, u, r) \/ HasPlace(y, u, r) => HasPlace(x \o y, u, r)
<1>1. \A i \in DOMAIN x : i \in DOMAIN (x \o y) /\ (x \o y)[i] = x[i]
  OBVIOUS
<1>2. \A i \in DOMAIN y : Len(x) + i \in DOMAIN (x \o y) /\ (x \o y)[Len(x) + i] = y[i]
  OBVIOUS
<1> QED BY <1>1, <1>2 DEF HasPlace

LEMMA PlacedInAppend ==
    ASSUME NEW x \in Seq(Entries), NEW e \in Entries, NEW u, NEW r
    PROVE  HasPlace(x, u, r) \/ PlacesIn(e, u, r) => HasPlace(Append(x, e), u, r)
<1>1. \A i \in DOMAIN x : i \in DOMAIN Append(x, e) /\ Append(x, e)[i] = x[i]
  OBVIOUS
<1>2. Len(x) + 1 \in DOMAIN Append(x, e) /\ Append(x, e)[Len(x) + 1] = e
  OBVIOUS
<1> QED BY <1>1, <1>2 DEF HasPlace

LEMMA WaitingIsPlaced ==
    ASSUME NEW c, NEW u, NEW r, Waiting(c, u, r)
    PROVE  HasPlace(c, u, r)
BY DEF Waiting, HasPlace, WaitsIn, PlacesIn

-----------------------------------------------------------------------------
(* The operations on one bucket forget nobody.                             *)
LEMMA AcquireForgetsNobody ==
    ASSUME NEW c \in Seq(Entries), NEW t \in Txns, NEW s \in Resources, NEW m \in Modes,
           NEW u, NEW r, HasPlace(c, u, r)
    PROVE  HasPlace(AfterAcquire(c, t, s, m), u, r)
<1>1. ASSUME NEW e \in Entries PROVE HasPlace(PushFront(e, c), u, r)
  <2>1. <<e>> \in Seq(Entries)
    OBVIOUS
  <2> QED BY <2>1, PlacedInConcat DEF PushFront
<1>2. \A g \in BOOLEAN : NewEntry(t, s, m, g) \in Entries
  BY DEF NewEntry, Entries
<1>3. HasPlace(Enqueue(c, t, s, m), u, r)
  <2> DEFINE same == { i \in DOMAIN c : c[i].res = s }
  <2>1. CASE same = {}
    BY <1>1, <1>2, <2>1 DEF Enqueue
  <2>2. CASE same # {}
    <3> DEFINE k == Min(same)
               q == Append(c[k].queue, [txn |-> t, mode |-> m])
               d == [c EXCEPT ![k].queue = q]
    <3>1. Enqueue(c, t, s, m) = d
      BY <2>2 DEF Enqueue
    <3>2. k \in DOMAIN c
      <4>1. same \in SUBSET Nat
        OBVIOUS
      <4>2. k \in same
        <5> HIDE DEF same
        <5> QED BY <2>2, <4>1, MinIsMember
      <4> QED BY <4>2
    <3>3. c[k].queue \in Seq(Requests) /\ [txn |-> t, mode |-> m] \in Requests
      <4>1. c[k] \in Entries
        BY <3>2
      <4> QED BY <4>1 DEF Entries, Requests
    <3>4. \A l \in DOMAIN c[k].queue : l \in DOMAIN q /\ q[l] = c[k].queue[l]
      BY <3>3
    <3> HIDE DEF k, q
    <3>5. PICK i \in DOMAIN c : PlacesIn(c[i], u, r)
      BY DEF HasPlace
    <3>6. i \in DOMAIN d /\ d[i].res = c[i].res /\ d[i].txn = c[i].txn
      <4>1. c[i] \in Entries
        OBVIOUS
      <4>2. i # k => d[i] = c[i]
        OBVIOUS
      <4>3. i = k => d[i] = [c[i] EXCEPT !.queue = q]
        OBVIOUS
      <4> QED BY <4>1, <4>2, <4>3 DEF Entries
    <3>7. \A l \in DOMAIN c[i].queue : l \in DOMAIN d[i].queue /\ d[i].queue[l] = c[i].queue[l]
      <4>1. CASE i # k
        BY <4>1
      <4>2. CASE i = k
        <5>1. c[i] \in Entries
          OBVIOUS
        <5>2. d[i].queue = q
          BY <4>2, <5>1 DEF Entries
        <5> QED BY <3>4, <4>2, <5>2
      <4> QED BY <4>1, <4>2
    <3>8. PlacesIn(d[i], u, r)
      <4> HIDE DEF d
      <4> QED BY <3>5, <3>6, <3>7 DEF PlacesIn
    <3> QED BY <3>1, <3>6, <3>8 DEF HasPlace
  <2> QED BY <2>1, <2>2
<1> QED BY <1>1, <1>2, <1>3 DEF AfterAcquire

LEMMA ReleaseForgetsNobody ==
    ASSUME NEW c \in Seq(Entries), NEW t, NEW s, NEW u, NEW r, Waiting(c, u, r)
    PROVE  HasPlace(AfterRelease(c, t, s), u, r)
<1>1. CASE OwnGranted(c, t, s) = {}
  BY <1>1, WaitingIsPlaced DEF AfterRelease
<1>2. CASE OwnGranted(c, t, s) # {}
  <2> DEFINE p == Min(OwnGranted(c, t, s))
             rest == RemoveAt(c, p)
  <2>1. p \in DOMAIN c /\ c[p].granted
    BY <1>2, FirstOwnGranted
  <2>2. AfterRelease(c, t, s) = Promote(c[p]) \o rest
    BY <1>2 DEF AfterRelease
  <2> HIDE DEF p
  <2>3. Promote(c[p]) \in Seq(Entries)
    BY <2>1, PromoteTyped
  <2>4. rest \in Seq(Entries)
    BY <2>1 DEF RemoveAt
  <2>5. PICK i \in DOMAIN c : WaitsIn(c[i], u, r)
    BY DEF Waiting
  <2>6. CASE i = p
    <3>1. PICK k \in DOMAIN c[p].queue : c[p].queue[k].txn = u
      BY <2>1, <2>5, <2>6 DEF WaitsIn
    <3>2. c[p].res = r
      BY <2>5, <2>6 DEF WaitsIn
    <3>3. HasPlace(Promote(c[p]), u, r)
      BY <2>1, <3>1, <3>2, PromotePlaces
    <3> HIDE DEF rest
    <3> QED BY <2>2, <2>3, <2>4, <3>3, PlacedInConcat
  <2>7. CASE i # p
    <3> DEFINE front == SubSeq(c, 1, p - 1)
               back == SubSeq(c, p + 1, Len(c))
    <3>1. front \in Seq(Entries) /\ back \in Seq(Entries) /\ rest = front \o back
      BY <2>1 DEF RemoveAt
    <3>2. PlacesIn(c[i], u, r)
      BY <2>5 DEF WaitsIn, PlacesIn
    <3>3. HasPlace(rest, u, r)
      <4>1. i \in 1 .. Len(c) /\ p \in 1 .. Len(c) /\ Len(c) \in Nat
        BY <2>1
      <4>2. CASE i < p
        <5>1. i \in DOMAIN front /\ front[i] = c[i]
          BY <4>1, <4>2
        <5> HIDE DEF front, back, rest
        <5>2. HasPlace(front, u, r)
          BY <3>2, <5>1 DEF HasPlace
        <5> QED BY <3>1, <5>2, PlacedInConcat
      <4>3. CASE i > p
        <5>1. i - p \in DOMAIN back /\ back[i - p] = c[i]
          BY <4>1, <4>3
        <5> HIDE DEF front, back, rest
        <5>2. HasPlace(back, u, r)
          BY <3>2, <5>1 DEF HasPlace
        <5> QED BY <3>1, <5>2, PlacedInConcat
      <4> QED BY <2>7, <4>1, <4>2, <4>3
    <3> HIDE DEF rest
    <3> QED BY <2>2, <2>3, <2>4, <3>3, PlacedInConcat
  <2> QED BY <2>6, <2>7
<1> QED BY <1>1, <1>2

LEMMA UpgradeForgetsNobody ==
    ASSUME NEW c \in Seq(Entries), NEW t, NEW s, NEW u, NEW r, HasPlace(c, u, r)
    PROVE  HasPlace(AfterUpgrade(c, t, s), u, r)
<1>1. CASE UpgradeSucceeds(c, t, s)
  <2> DEFINE k == Min(OwnGranted(c, t, s))
             d == [c EXCEPT ![k].mode = "X"]
  <2>1. AfterUpgrade(c, t, s) = d
    BY <1>1 DEF AfterUpgrade
  <2> HIDE DEF k
  <2>2. PICK i \in DOMAIN c : PlacesIn(c[i], u, r)
    BY DEF HasPlace
  <2>3. c[i] \in Entries
    OBVIOUS
  <2>4. i \in DOMAIN d /\ d[i].res = c[i].res /\ d[i].txn = c[i].txn /\ d[i].queue = c[i].queue
    <3>1. i # k => d[i] = c[i]
      OBVIOUS
    <3>2. i = k => d[i] = [c[i] EXCEPT !.mode = "X"]
      OBVIOUS
    <3> QED BY <2>3, <3>1, <3>2 DEF Entries
  <2> HIDE DEF d
  <2>5. PlacesIn(d[i], u, r)
    BY <2>2, <2>4 DEF PlacesIn
  <2> QED BY <2>1, <2>4, <2>5 DEF HasPlace
<1>2. CASE ~UpgradeSucceeds(c, t, s)
  BY <1>2 DEF AfterUpgrade
<1> QED BY <1>1, <1>2

-----------------------------------------------------------------------------
(* The walk of lm_release_all forgets nobody as long as what it promoted   *)
(* before it kept an entry is not dropped.  Up to entry k: everybody who   *)
(* waits there has a place in the list, and nothing was kept exactly when  *)
(* all those entries are granted to t.                                     *)
OwnUpTo(c, t, k) == \A j \in 1 .. k : c[j].txn = t /\ c[j].granted

GoodWalk(w, c, t, u, r, k) ==
    /\ w[k] \in Walks
    /\ ~w[k].kept => OwnUpTo(c, t, k)
    /\ \A i \in 1 .. k : WaitsIn(c[i], u, r) => HasPlace(w[k].list, u, r)

LEMMA VisitForgetsNobody ==
    ASSUME NEW c \in Seq(Entries), NEW t, ~DropsWaiter(c, t), NEW u, NEW r,
           NEW w, IsWalk(w, c, t), NEW k \in 1 .. Len(c), GoodWalk(w, c, t, u, r, k - 1)
    PROVE  GoodWalk(w, c, t, u, r, k)
<1> DEFINE acc == w[k - 1]
           e == c[k]
<1>1. /\ acc \in Walks /\ acc.list \in Seq(Entries) /\ acc.kept \in BOOLEAN /\ e \in Entries
      /\ k \in DOMAIN c /\ k \in Nat
  BY DEF GoodWalk, Walks
<1>2. w[k] = Visit(acc, e, t)
  BY DEF IsWalk
<1>3. ~acc.kept => OwnUpTo(c, t, k - 1)
  BY DEF GoodWalk
<1>4. \A i \in 1 .. k - 1 : WaitsIn(c[i], u, r) => HasPlace(acc.list, u, r)
  BY DEF GoodWalk
<1>5. \A i \in 1 .. k : i # k => i \in 1 .. k - 1 /\ i \in DOMAIN c /\ i < k
  BY <1>1
<1> HIDE DEF acc
<1>6. w[k] \in Walks
  BY <1>1, <1>2, VisitTyped
<1>7. CASE ~(e.txn = t /\ e.granted)
  <2>1. w[k] = [list |-> Append(acc.list, e), kept |-> TRUE]
    BY <1>2, <1>7 DEF Visit
  <2>2. w[k].kept /\ w[k].list = Append(acc.list, e)
    BY <2>1
  <2>3. ASSUME NEW i \in 1 .. k, WaitsIn(c[i], u, r) PROVE HasPlace(w[k].list, u, r)
    <3>1. CASE i = k
      <4>1. PlacesIn(e, u, r)
        BY <2>3, <3>1 DEF WaitsIn, PlacesIn
      <4> HIDE DEF e
      <4> QED BY <1>1, <2>2, <4>1, PlacedInAppend
    <3>2. CASE i # k
      <4>1. HasPlace(acc.list, u, r)
        BY <1>4, <1>5, <2>3, <3>2
      <4> HIDE DEF e
      <4> QED BY <1>1, <2>2, <4>1, PlacedInAppend
    <3> QED BY <3>1, <3>2
  <2> QED BY <1>6, <2>2, <2>3 DEF GoodWalk
<1>8. CASE e.txn = t /\ e.granted
  <2> DEFINE rest == IF acc.kept THEN acc.list ELSE <<>>
  <2>1. w[k].list = Promote(e) \o rest /\ w[k].kept = acc.kept
    <3>1. Visit(acc, e, t) = [acc EXCEPT !.list = Promote(e) \o rest]
      BY <1>8, Zenon DEF Visit
    <3> HIDE DEF rest
    <3> QED BY <1>1, <1>2, <3>1 DEF Walks
  <2>2. Promote(e) \in Seq(Entries) /\ rest \in Seq(Entries)
    BY <1>1, PromoteTyped
  <2>3. ASSUME NEW i \in 1 .. k, WaitsIn(c[i], u, r) PROVE HasPlace(w[k].list, u, r)
    <3>1. CASE i = k
      <4>1. PICK l \in DOMAIN e.queue : e.queue[l].txn = u
        BY <1>8, <2>3, <3>1 DEF WaitsIn
      <4>2. e.res = r
        BY <2>3, <3>1 DEF WaitsIn
      <4> HIDE DEF e, rest
      <4>3. HasPlace(Promote(e), u, r)
        BY <1>1, <4>1, <4>2, PromotePlaces
      <4> QED BY <2>1, <2>2, <4>3, PlacedInConcat
    <3>2. CASE i # k /\ acc.kept
      <4>1. HasPlace(rest, u, r)
        BY <1>4, <1>5, <2>3, <3>2
      <4> HIDE DEF e, rest
      <4> QED BY <2>1, <2>2, <4>1, PlacedInConcat
    <3>3. CASE i # k /\ ~acc.kept
      <4>1. i \in 1 .. k - 1 /\ i \in DOMAIN c /\ i < k
        BY <1>5, <3>3
      <4>2. OwnUpTo(c, t, k - 1)
        BY <1>3, <3>3
      <4>3. \A j \in 1 .. k : c[j].txn = t /\ c[j].granted
        <5> TAKE j \in 1 .. k
        <5> QED BY <1>5, <1>8, <4>2 DEF OwnUpTo
      <4>4. c[i].queue # <<>>
        <5>1. PICK l \in DOMAIN c[i].queue : c[i].queue[l].txn = u
          BY <2>3, <4>3 DEF WaitsIn
        <5> QED BY <5>1
      <4> QED BY <1>1, <4>1, <4>3, <4>4 DEF DropsWaiter
    <3> QED BY <3>1, <3>2, <3>3
  <2>4. ~w[k].kept => OwnUpTo(c, t, k)
    <3> SUFFICES ASSUME ~w[k].kept, NEW j \in 1 .. k PROVE c[j].txn = t /\ c[j].granted
      BY DEF OwnUpTo
    <3>1. OwnUpTo(c, t, k - 1)
      BY <1>3, <2>1
    <3> QED BY <1>5, <1>8, <3>1 DEF OwnUpTo
  <2> QED BY <1>6, <2>3, <2>4 DEF GoodWalk
<1> QED BY <1>7, <1>8

LEMMA ReleaseAllForgetsNobody ==
    ASSUME NEW c \in Seq(Entries), NEW t, ~DropsWaiter(c, t), NEW u, NEW r, Waiting(c, u, r)
    PROVE  HasPlace(AfterReleaseAll(c, t), u, r)
<1> DEFINE n == Len(c)
<1>1. PICK w : IsWalk(w, c, t) /\ AfterReleaseAll(c, t) = w[n].list
  BY WalkSteps
<1> DEFINE Q == { k \in 0 .. n : GoodWalk(w, c, t, u, r, k) }
<1>2. 0 \in Q
  <2>1. w[0] = Unwalked
    BY <1>1 DEF IsWalk
  <2>2. Unwalked \in Walks
    BY DEF Unwalked, Walks
  <2>3. 1 .. 0 = {} /\ 0 \in 0 .. n
    OBVIOUS
  <2> QED BY <2>1, <2>2, <2>3 DEF GoodWalk, OwnUpTo
<1>3. ASSUME NEW k \in 1 .. n, k - 1 \in Q PROVE k \in Q
  <2>1. k \in 0 .. n
    OBVIOUS
  <2>2. GoodWalk(w, c, t, u, r, k)
    BY <1>1, <1>3, VisitForgetsNobody
  <2> QED BY <2>1, <2>2
<1>4. n \in Nat /\ n \in 0 .. n /\ DOMAIN c = 1 .. n
  OBVIOUS
<1>5. n \in Q
  <2> HIDE DEF Q, n
  <2> QED BY <1>2, <1>3, <1>4, InductionUpTo
<1>6. PICK i \in 1 .. n : WaitsIn(c[i], u, r)
  BY <1>4 DEF Waiting
<1> QED BY <1>1, <1>5, <1>6 DEF GoodWalk

-----------------------------------------------------------------------------
(* A queued request stays queued until it is granted, through releases,    *)
(* hand-overs and the end of transactions, for any number of transactions, *)
(* resources, buckets and pool entries and whatever was asked for twice,   *)
(* unless lm_release_all is called on a bucket where it drops a waiter.    *)
THEOREM NoWaiterLostHolds == LMSpec => NoWaiterLost
<1> DEFINE Kept(t, r) ==
              \/ Waits(chain', t, r) \/ HoldsAny(chain', t, r)
              \/ \E u \in Txns : DropsWaiter(chain[Bucket(r)], u) /\ ReleaseAll(u)
<1>1. LMTypeOK /\ LMTypeOK' /\ [LMNext]_lmVars =>
         \A t \in Txns, r \in Resources : Waits(chain, t, r) => Kept(t, r)
  <2> SUFFICES ASSUME LMTypeOK, LMTypeOK', [LMNext]_lmVars,
                      NEW t \in Txns, NEW r \in Resources, Waits(chain, t, r)
               PROVE  Kept(t, r)
    OBVIOUS
  <2> DEFINE b == Bucket(r)
             c == chain[b]
             d == chain'[b]
  <2>1. b \in Buckets /\ DOMAIN chain = Buckets /\ c \in Seq(Entries) /\ d \in Seq(Entries)
    BY BucketOf DEF LMTypeOK
  <2>2. Waiting(c, t, r)
    BY WaitsIsWaiting
  <2>3. HasPlace(c, t, r)
    BY <2>2, WaitingIsPlaced
  <2>4. HasPlace(d, t, r) => Kept(t, r)
    BY <2>1, PlacedWaitsOrHolds
  <2>5. ASSUME NEW s \in Resources, NEW e, chain' = [chain EXCEPT ![Bucket(s)] = e]
        PROVE  d = c \/ (Bucket(s) = b /\ d = e)
    BY <2>1, <2>5
  <2>6. ASSUME NEW u \in Txns, NEW s \in Resources, NEW m \in Modes, Acquire(u, s, m)
        PROVE  HasPlace(d, t, r)
    <3>1. CASE PoolFree
      <4>1. chain' = [chain EXCEPT ![Bucket(s)] = AfterAcquire(chain[Bucket(s)], u, s, m)]
        BY <2>6, <3>1 DEF Acquire
      <4>2. HasPlace(AfterAcquire(c, u, s, m), t, r)
        BY <2>1, <2>3, AcquireForgetsNobody
      <4> QED BY <2>3, <2>5, <4>1, <4>2
    <3>2. CASE ~PoolFree
      BY <2>3, <2>6, <3>2 DEF Acquire, lmVars
    <3> QED BY <3>1, <3>2
  <2>7. ASSUME NEW u \in Txns, NEW s \in Resources, Release(u, s)
        PROVE  HasPlace(d, t, r)
    <3>1. chain' = [chain EXCEPT ![Bucket(s)] = AfterRelease(chain[Bucket(s)], u, s)]
      BY <2>7 DEF Release
    <3>2. HasPlace(AfterRelease(c, u, s), t, r)
      BY <2>1, <2>2, ReleaseForgetsNobody
    <3> QED BY <2>3, <2>5, <3>1, <3>2
  <2>8. ASSUME NEW u \in Txns, NEW s \in Resources, Upgrade(u, s)
        PROVE  HasPlace(d, t, r)
    <3>1. chain' = [chain EXCEPT ![Bucket(s)] = AfterUpgrade(chain[Bucket(s)], u, s)]
      BY <2>8 DEF Upgrade
    <3>2. HasPlace(AfterUpgrade(c, u, s), t, r)
      BY <2>1, <2>3, UpgradeForgetsNobody
    <3> QED BY <2>3, <2>5, <3>1, <3>2
  <2>9. ASSUME NEW u \in Txns, ReleaseAll(u), ~DropsWaiter(c, u)
        PROVE  HasPlace(d, t, r)
    <3>1. d = AfterReleaseAll(c, u)
      BY <2>1, <2>9 DEF ReleaseAll
    <3> QED BY <2>1, <2>2, <2>9, <3>1, ReleaseAllForgetsNobody
  <2>10. ASSUME NEW u \in Txns, ReleaseAll(u)
         PROVE  Kept(t, r)
    BY <2>4, <2>9, <2>10
  <2>11. CASE UNCHANGED lmVars
    BY <2>3, <2>4, <2>11 DEF lmVars
  <2> HIDE DEF Kept
  <2> QED BY <2>4, <2>6, <2>7, <2>8, <2>10, <2>11 DEF LMNext
<1> QED BY <1>1, TypeCorrect, PTL DEF LMSpec, NoWaiterLost
=============================================================================
