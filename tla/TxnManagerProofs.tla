-------------------------- MODULE TxnManagerProofs --------------------------
(***************************************************************************)
(* Proofs about the transaction manager: nobody is refused a lock but for  *)
(* an older transaction, as long as its own list has room, and recovery    *)
(* goes by what really happened, as long as the log has room.              *)
(***************************************************************************)
EXTENDS TxnManager, LeastNumber, SequenceTheorems, TLAPS

Statuses == {"active", "committed", "aborted"}
OwnLists == UNION { [D -> Modes] : D \in SUBSET Rids }
Locks == [rid : Rids, mode : Modes, txn : Nat]

(* The log is not read by who takes or leaves a lock.                      *)
LocksTypeOK ==
    /\ status \in Seq(Statuses) /\ Len(status) <= MaxActive
    /\ own \in Seq(OwnLists) /\ Len(own) = Len(status)
    /\ lockTable \in Seq(Locks)

OwnListsBounded ==
    \A t \in Txns : IsFiniteSet(DOMAIN own[t]) /\ Cardinality(DOMAIN own[t]) <= MaxLocks

(* What is in the table belongs to an active transaction that has it in    *)
(* its own list, and is there once.                                        *)
OwnersActive ==
    \A i \in DOMAIN lockTable :
        lockTable[i].txn \in Active /\ lockTable[i].rid \in DOMAIN own[lockTable[i].txn]

SameLock(l, k) == l.txn = k.txn /\ l.rid = k.rid
OnePlace(c) == \A i, j \in DOMAIN c : SameLock(c[i], c[j]) => i = j

IInv == LocksTypeOK /\ OwnListsBounded /\ OwnersActive /\ OnePlace(lockTable)

-----------------------------------------------------------------------------
(* txn_lock_release, lock by lock.                                         *)
Remaining(c, ending) ==
    FoldLeft(LAMBDA acc, l : MovedUp(acc, l, ending), <<>>, c)

IsRun(w, c, ending) ==
    w[0] = <<>> /\ \A k \in 1 .. Len(c) : w[k] = MovedUp(w[k - 1], c[k], ending)

LEMMA RunSteps ==
    ASSUME NEW c \in Seq(Locks), NEW ending
    PROVE  \E w : IsRun(w, c, ending) /\ Remaining(c, ending) = w[Len(c)]
<1> DEFINE n == Len(c)
           Step(g, s) == IF s = {} THEN <<>> ELSE MovedUp(g[s \ {Max(s)}], c[Max(s)], ending)
           Solves(g, S) == g = [s \in SUBSET S |-> Step(g, s)]
           iter == CHOOSE g : Solves(g, DOMAIN c)
<1>1. Remaining(c, ending) = iter[DOMAIN c]
  BY DEF Remaining, FoldLeft, MapThenFoldSet
<1>n. n \in Nat /\ DOMAIN c = 1 .. n
  OBVIOUS
<1> HIDE DEF n
<1>2. \E g : Solves(g, 1 .. n)
  <2> DEFINE P == { k \in 0 .. n : \E g : Solves(g, 1 .. k) }
  <2>1. 0 \in P
    <3> DEFINE g == [s \in SUBSET (1 .. 0) |-> <<>>]
    <3>1. SUBSET (1 .. 0) = {{}}
      OBVIOUS
    <3>2. Solves(g, 1 .. 0)
      BY <3>1
    <3> QED BY <1>n, <3>2
  <2>2. ASSUME NEW k \in 1 .. n, k - 1 \in P PROVE k \in P
    <3>1. k - 1 \in Nat /\ k \in Nat
      BY <1>n
    <3>2. PICK f : Solves(f, 1 .. k - 1)
      BY <2>2
    <3> DEFINE g == [s \in SUBSET (1 .. k) |->
                       IF k \in s THEN MovedUp(f[s \ {k}], c[k], ending) ELSE f[s]]
    <3>3. \A s \in SUBSET (1 .. k - 1) : g[s] = f[s] /\ f[s] = Step(f, s)
      <4> TAKE s \in SUBSET (1 .. k - 1)
      <4>1. k \notin s /\ s \in SUBSET (1 .. k)
        BY <3>1
      <4>2. g[s] = f[s]
        BY <4>1
      <4> HIDE DEF Step, g
      <4> QED BY <3>2, <4>2
    <3>4. ASSUME NEW s \in SUBSET (1 .. k) PROVE g[s] = Step(g, s)
      <4>1. CASE k \in s
        <5>1. Max(s) = k
          BY <3>1, <4>1, MaxOfTop
        <5>2. s \ {k} \in SUBSET (1 .. k - 1)
          BY <3>1
        <5>3. g[s \ {k}] = f[s \ {k}]
          BY <3>3, <5>2
        <5>4. g[s] = MovedUp(f[s \ {k}], c[k], ending)
          BY <4>1
        <5> HIDE DEF g
        <5> QED BY <4>1, <5>1, <5>3, <5>4
      <4>2. CASE k \notin s
        <5>1. s \in SUBSET (1 .. k - 1)
          BY <3>1, <4>2
        <5>2. g[s] = f[s] /\ f[s] = Step(f, s)
          BY <3>3, <5>1
        <5>3. s # {} => s \ {Max(s)} \in SUBSET (1 .. k - 1)
          BY <5>1
        <5>4. s # {} => g[s \ {Max(s)}] = f[s \ {Max(s)}]
          BY <3>3, <5>3
        <5> HIDE DEF g
        <5> QED BY <5>2, <5>4
      <4> QED BY <4>1, <4>2
    <3>5. g = [s \in SUBSET (1 .. k) |-> g[s]]
      OBVIOUS
    <3>6. Solves(g, 1 .. k)
      <4> HIDE DEF g, Step
      <4> QED BY <3>4, <3>5
    <3>7. k \in 0 .. n
      BY <1>n
    <3> HIDE DEF g, Solves
    <3> QED BY <3>6, <3>7
  <2>3. n \in 0 .. n
    BY <1>n
  <2>4. n \in P
    <3> HIDE DEF P
    <3> QED BY <1>n, <2>1, <2>2, <2>3, InductionUpTo
  <2> QED BY <2>4
<1>3. Solves(iter, 1 .. n)
  <2> HIDE DEF Solves
  <2> QED BY <1>2, <1>n
<1> HIDE DEF iter
<1>4. \A s \in SUBSET (1 .. n) : iter[s] = Step(iter, s)
  <2> HIDE DEF Step
  <2> QED BY <1>3
<1> HIDE DEF Solves
<1> DEFINE w == [k \in 0 .. n |-> iter[1 .. k]]
<1>5. w[0] = <<>>
  <2>1. 1 .. 0 = {} /\ {} \in SUBSET (1 .. n)
    OBVIOUS
  <2>2. iter[{}] = <<>>
    BY <1>4, <2>1
  <2> QED BY <1>n, <2>1, <2>2
<1>6. ASSUME NEW k \in 1 .. n PROVE w[k] = MovedUp(w[k - 1], c[k], ending)
  <2>1. k \in Nat /\ k \in 1 .. k /\ 1 .. k \in SUBSET (1 .. n)
    BY <1>n
  <2>2. Max(1 .. k) = k
    BY <2>1, MaxOfTop
  <2>3. (1 .. k) \ {k} = 1 .. k - 1
    BY <2>1
  <2>4. iter[1 .. k] = MovedUp(iter[1 .. k - 1], c[k], ending)
    BY <1>4, <2>1, <2>2, <2>3
  <2>5. k \in 0 .. n /\ k - 1 \in 0 .. n
    BY <1>n
  <2> QED BY <2>4, <2>5
<1>7. Remaining(c, ending) = w[n]
  BY <1>1, <1>n
<1> HIDE DEF w
<1> QED BY <1>5, <1>6, <1>7 DEF n, IsRun

(* What remains are the locks of the others, each once if it was there     *)
(* once.                                                                   *)
Remains(d, c, k, ending) ==
    /\ d \in Seq(Locks)
    /\ \A i \in DOMAIN d : \E j \in 1 .. k : d[i] = c[j] /\ c[j].txn \notin ending
    /\ OnePlace(d)

LEMMA MovedUpRemains ==
    ASSUME NEW c \in Seq(Locks), OnePlace(c), NEW ending, NEW k \in 1 .. Len(c),
           NEW d, Remains(d, c, k - 1, ending)
    PROVE  Remains(MovedUp(d, c[k], ending), c, k, ending)
<1>1. k \in Nat /\ k - 1 \in Nat /\ c[k] \in Locks /\ DOMAIN c = 1 .. Len(c)
  OBVIOUS
<1>2. CASE c[k].txn \in ending
  BY <1>1, <1>2 DEF MovedUp, Remains
<1>3. CASE c[k].txn \notin ending
  <2> DEFINE e == Append(d, c[k])
             n == Len(d)
  <2>1. d \in Seq(Locks) /\ n \in Nat /\ DOMAIN d = 1 .. n
    BY DEF Remains
  <2>2. e \in Seq(Locks) /\ DOMAIN e = 1 .. n + 1 /\ e[n + 1] = c[k] /\ \A i \in 1 .. n : e[i] = d[i]
    BY <1>1, <2>1
  <2>3. \A i \in 1 .. n : \E j \in 1 .. k - 1 : d[i] = c[j] /\ c[j].txn \notin ending
    BY <2>1 DEF Remains
  <2> HIDE DEF e, n
  <2>4. ASSUME NEW i \in DOMAIN e PROVE \E j \in 1 .. k : e[i] = c[j] /\ c[j].txn \notin ending
    <3>1. CASE i = n + 1
      BY <1>1, <1>3, <2>2, <3>1
    <3>2. CASE i # n + 1
      <4>1. i \in 1 .. n
        BY <2>1, <2>2, <3>2
      <4>2. \A j \in 1 .. k - 1 : j \in 1 .. k
        BY <1>1
      <4> QED BY <2>2, <2>3, <4>1, <4>2
    <3> QED BY <3>1, <3>2
  <2>5. ASSUME NEW i \in 1 .. n PROVE ~SameLock(e[i], e[n + 1])
    <3>1. PICK j \in 1 .. k - 1 : d[i] = c[j]
      BY <2>3
    <3>2. j \in DOMAIN c /\ k \in DOMAIN c /\ j # k
      BY <1>1, <3>1
    <3>3. ~SameLock(c[j], c[k])
      BY <3>2 DEF OnePlace
    <3> QED BY <2>2, <3>1, <3>3
  <2>6. \A i, j \in 1 .. n : SameLock(e[i], e[j]) => i = j
    BY <2>1, <2>2 DEF Remains, OnePlace
  <2>7. \A x \in 1 .. n + 1 : x \in 1 .. n \/ x = n + 1
    BY <2>1
  <2>8. \A l, m : SameLock(l, m) <=> SameLock(m, l)
    BY DEF SameLock
  <2>9. OnePlace(e)
    BY <2>2, <2>5, <2>6, <2>7, <2>8 DEF OnePlace
  <2>10. MovedUp(d, c[k], ending) = e
    BY <1>3 DEF MovedUp, e
  <2> QED BY <2>2, <2>4, <2>9, <2>10 DEF Remains
<1> QED BY <1>2, <1>3

LEMMA OthersRemain ==
    ASSUME NEW c \in Seq(Locks), OnePlace(c), NEW ending
    PROVE  Remains(Remaining(c, ending), c, Len(c), ending)
<1>1. PICK w : IsRun(w, c, ending) /\ Remaining(c, ending) = w[Len(c)]
  BY RunSteps
<1> DEFINE P == { k \in 0 .. Len(c) : Remains(w[k], c, k, ending) }
<1>2. 0 \in P
  <2>1. Remains(<<>>, c, 0, ending)
    BY DEF Remains, OnePlace
  <2> QED BY <1>1, <2>1 DEF IsRun
<1>3. ASSUME NEW k \in 1 .. Len(c), k - 1 \in P PROVE k \in P
  <2>1. Remains(MovedUp(w[k - 1], c[k], ending), c, k, ending)
    BY <1>3, MovedUpRemains
  <2>2. k \in 0 .. Len(c)
    OBVIOUS
  <2> QED BY <1>1, <2>1, <2>2 DEF IsRun
<1>4. Len(c) \in P
  <2>1. Len(c) \in Nat /\ Len(c) \in 0 .. Len(c)
    OBVIOUS
  <2> HIDE DEF P
  <2> QED BY <1>2, <1>3, <2>1, InductionUpTo
<1> QED BY <1>1, <1>4

-----------------------------------------------------------------------------
(* The table holds no more than the own lists do together.                 *)
LockOf(t) == { i \in DOMAIN lockTable : lockTable[i].txn = t }

LEMMA NoMoreThanOwn ==
    ASSUME IInv, NEW t \in Txns
    PROVE  /\ IsFiniteSet(LockOf(t))
           /\ Cardinality(LockOf(t)) <= Cardinality(DOMAIN own[t])
<1> DEFINE S == LockOf(t)
           T == DOMAIN own[t]
           f == [i \in S |-> lockTable[i].rid]
<1>1. \A i \in S : lockTable[i].rid \in T
  BY DEF IInv, OwnersActive, LockOf
<1>2. \A i, j \in S : lockTable[i].rid = lockTable[j].rid => i = j
  BY DEF IInv, OnePlace, SameLock, LockOf
<1>3. IsFiniteSet(T)
  BY DEF IInv, OwnListsBounded
<1> HIDE DEF S, T
<1>4. f \in Injection(S, T)
  BY <1>1, <1>2 DEF Injection, IsInjective
<1> HIDE DEF f
<1> QED BY <1>3, <1>4, FS_Injection DEF S, T

LEMMA RoomInTheTable ==
    ASSUME IInv, NEW t \in Txns, Cardinality(DOMAIN own[t]) < MaxLocks
    PROVE  Len(lockTable) < MaxLocks * MaxActive
<1> DEFINE n == Len(status)
           Upto(k) == { i \in DOMAIN lockTable : lockTable[i].txn \in 1 .. k }
           Bound(k) == MaxLocks * k - (IF t <= k THEN 1 ELSE 0)
           P == { k \in 0 .. n : IsFiniteSet(Upto(k)) /\ Cardinality(Upto(k)) <= Bound(k) }
<1>1. n \in Nat /\ Txns = 1 .. n /\ t \in 1 .. n /\ n <= MaxActive /\ MaxLocks \in Nat /\ MaxActive \in Nat
  BY TxnAssumption DEF IInv, LocksTypeOK, Txns
<1>2. \A i \in DOMAIN lockTable : lockTable[i].txn \in 1 .. n
  BY <1>1 DEF IInv, OwnersActive, Active
<1> HIDE DEF n
<1>3. 0 \in P
  <2>1. Upto(0) = {}
    OBVIOUS
  <2>2. Bound(0) = 0
    BY <1>1
  <2> QED BY <1>1, <2>1, <2>2, FS_EmptySet
<1>4. ASSUME NEW k \in 1 .. n, k - 1 \in P PROVE k \in P
  <2>1. k \in Nat /\ k - 1 \in Nat /\ k \in Txns
    BY <1>1
  <2>2. Upto(k) = Upto(k - 1) \cup LockOf(k) /\ Upto(k - 1) \cap LockOf(k) = {}
    BY <1>1, <1>2, <2>1 DEF LockOf
  <2>3. IsFiniteSet(LockOf(k)) /\ Cardinality(LockOf(k)) <= Cardinality(DOMAIN own[k])
    BY <2>1, NoMoreThanOwn
  <2>4. IsFiniteSet(Upto(k - 1)) /\ Cardinality(Upto(k - 1)) <= Bound(k - 1)
    BY <1>4
  <2>5. IsFiniteSet(DOMAIN own[k]) /\ Cardinality(DOMAIN own[k]) <= MaxLocks
    BY <2>1 DEF IInv, OwnListsBounded
  <2> DEFINE U == Upto(k)
             V == Upto(k - 1)
             L == LockOf(k)
             a == Cardinality(V)
             b == Cardinality(L)
             o == Cardinality(DOMAIN own[k])
             x == MaxLocks * (k - 1)
  <2>6. a \in Nat /\ b \in Nat /\ o \in Nat
    BY <2>3, <2>4, <2>5, FS_CardinalityType
  <2>7. IsFiniteSet(U) /\ Cardinality(U) = a + b
    <3>1. U = V \cup L /\ V \cap L = {} /\ IsFiniteSet(V) /\ IsFiniteSet(L)
      BY <2>2, <2>3, <2>4
    <3> HIDE DEF U, V, L
    <3>2. IsFiniteSet(U) /\ Cardinality(U) = a + b - Cardinality({})
      BY <3>1, FS_Union
    <3> QED BY <2>6, <3>2, FS_EmptySet DEF V, L
  <2>8. MaxLocks * k = x + MaxLocks /\ x \in Nat
    BY <1>1, <2>1
  <2>9. k = t => o < MaxLocks
    OBVIOUS
  <2>10. a <= x - (IF t <= k - 1 THEN 1 ELSE 0) /\ b <= o /\ o <= MaxLocks
    BY <2>3, <2>4, <2>5
  <2>11. a + b <= (x + MaxLocks) - (IF t <= k THEN 1 ELSE 0)
    <3> HIDE DEF a, b, o, x
    <3> QED BY <1>1, <2>1, <2>6, <2>8, <2>9, <2>10
  <2>12. Cardinality(Upto(k)) <= Bound(k)
    BY <2>7, <2>8, <2>11
  <2> QED BY <1>1, <2>7, <2>12
<1>5. n \in P
  <2>1. n \in 0 .. n
    BY <1>1
  <2> HIDE DEF P
  <2> QED BY <1>1, <1>3, <1>4, <2>1, InductionUpTo
<1>6. Upto(n) = DOMAIN lockTable
  BY <1>2
<1>7. Cardinality(DOMAIN lockTable) <= MaxLocks * n - 1
  BY <1>1, <1>5, <1>6
<1>8. Cardinality(DOMAIN lockTable) = Len(lockTable) /\ Len(lockTable) \in Nat
  <2>1. Len(lockTable) \in Nat /\ DOMAIN lockTable = 1 .. Len(lockTable)
    BY DEF IInv, LocksTypeOK
  <2> QED BY <2>1, FS_Interval
<1>9. MaxLocks * n <= MaxLocks * MaxActive /\ MaxLocks * n \in Int /\ MaxLocks * MaxActive \in Int
  BY <1>1
<1> QED BY <1>7, <1>8, <1>9

-----------------------------------------------------------------------------
LEMMA EndKeeps ==
    ASSUME IInv, NEW ending, Release(ending), status' \in Seq(Statuses),
           Len(status') = Len(status),
           \A u \in Txns : u \notin ending => status'[u] = status[u]
    PROVE  IInv'
<1>1. DOMAIN status' = Txns /\ Txns = 1 .. Len(status) /\ Len(status) \in Nat
  BY DEF IInv, LocksTypeOK, Txns
<1>2. Remains(lockTable', lockTable, Len(lockTable), ending)
  <2>1. lockTable' = Remaining(lockTable, ending)
    BY DEF Release, Remaining
  <2> QED BY <2>1, OthersRemain DEF IInv, LocksTypeOK
<1>3. own' = [t \in Txns |-> IF t \in ending THEN [r \in {} |-> Shared] ELSE own[t]]
  BY DEF Release
<1>4. \A t \in Txns : own[t] \in OwnLists
  BY <1>1 DEF IInv, LocksTypeOK
<1>5. [r \in {} |-> Shared] \in OwnLists
  <2>1. [r \in {} |-> Shared] \in [{} -> Modes] /\ {} \in SUBSET Rids
    OBVIOUS
  <2> QED BY <2>1 DEF OwnLists
<1>6. \A t \in Txns : own'[t] \in OwnLists
  BY <1>3, <1>4, <1>5
<1>7. own' \in Seq(OwnLists) /\ Len(own') = Len(status)
  BY <1>1, <1>3, <1>6
<1>8. LocksTypeOK'
  BY <1>2, <1>7 DEF IInv, LocksTypeOK, Remains
<1>9. OwnListsBounded'
  <2> SUFFICES ASSUME NEW t \in Txns
               PROVE  IsFiniteSet(DOMAIN own'[t]) /\ Cardinality(DOMAIN own'[t]) <= MaxLocks
    BY <1>1 DEF OwnListsBounded, Txns
  <2>1. CASE t \in ending
    <3>1. DOMAIN own'[t] = {}
      BY <1>3, <2>1
    <3> QED BY <3>1, FS_EmptySet, TxnAssumption
  <2>2. CASE t \notin ending
    <3>1. own'[t] = own[t]
      BY <1>3, <2>2
    <3> QED BY <3>1 DEF IInv, OwnListsBounded
  <2> QED BY <2>1, <2>2
<1>10. OwnersActive'
  <2> SUFFICES ASSUME NEW i \in DOMAIN lockTable'
               PROVE  /\ lockTable'[i].txn \in Active'
                      /\ lockTable'[i].rid \in DOMAIN own'[lockTable'[i].txn]
    BY DEF OwnersActive
  <2>1. PICK j \in 1 .. Len(lockTable) : lockTable'[i] = lockTable[j] /\ lockTable[j].txn \notin ending
    BY <1>2 DEF Remains
  <2>2. j \in DOMAIN lockTable
    BY DEF IInv, LocksTypeOK
  <2> DEFINE u == lockTable[j].txn
  <2>3. u \in Txns /\ status[u] = "active" /\ lockTable[j].rid \in DOMAIN own[u]
    BY <2>2 DEF IInv, OwnersActive, Active
  <2>4. status'[u] = "active" /\ own'[u] = own[u]
    BY <1>3, <2>1, <2>3
  <2>5. u \in Active'
    BY <1>1, <2>3, <2>4 DEF Active, Txns
  <2> QED BY <2>1, <2>3, <2>4, <2>5
<1>11. OnePlace(lockTable')
  BY <1>2 DEF Remains
<1> QED BY <1>8, <1>9, <1>10, <1>11 DEF IInv

LEMMA BeginKeeps == IInv /\ Begin => IInv'
<1> SUFFICES ASSUME IInv, Begin PROVE IInv'
  OBVIOUS
<1> DEFINE n == Len(status)
           none == [r \in {} |-> Shared]
<1>1. /\ n \in Nat /\ n < MaxActive /\ MaxActive \in Nat /\ Len(own) = n
      /\ status \in Seq(Statuses) /\ own \in Seq(OwnLists)
      /\ status' = Append(status, "active") /\ own' = Append(own, none)
      /\ lockTable' = lockTable
  BY TxnAssumption DEF IInv, LocksTypeOK, Begin
<1>2. none \in OwnLists
  <2>1. none \in [{} -> Modes] /\ {} \in SUBSET Rids
    OBVIOUS
  <2> QED BY <2>1 DEF OwnLists
<1>3. DOMAIN none = {}
  OBVIOUS
<1>4. "active" \in Statuses
  BY DEF Statuses
<1> HIDE DEF none
<1>5. /\ DOMAIN status = 1 .. n /\ DOMAIN status' = 1 .. n + 1
      /\ \A t \in 1 .. n : status'[t] = status[t] /\ own'[t] = own[t]
      /\ own'[n + 1] = none
  BY <1>1, <1>2, <1>4
<1>6. LocksTypeOK'
  <2>1. status' \in Seq(Statuses) /\ Len(status') = n + 1
    BY <1>1, <1>4
  <2>2. own' \in Seq(OwnLists) /\ Len(own') = n + 1
    BY <1>1, <1>2
  <2>3. lockTable' \in Seq(Locks)
    BY <1>1 DEF IInv, LocksTypeOK
  <2> QED BY <1>1, <2>1, <2>2, <2>3 DEF LocksTypeOK
<1>7. OwnListsBounded'
  <2> SUFFICES ASSUME NEW t \in 1 .. n + 1
               PROVE  IsFiniteSet(DOMAIN own'[t]) /\ Cardinality(DOMAIN own'[t]) <= MaxLocks
    BY <1>5 DEF OwnListsBounded, Txns
  <2>1. CASE t = n + 1
    BY <1>3, <1>5, <2>1, FS_EmptySet, TxnAssumption
  <2>2. CASE t # n + 1
    <3>1. t \in 1 .. n
      BY <1>1, <2>2
    <3> QED BY <1>5, <3>1 DEF IInv, OwnListsBounded, Txns
  <2> QED BY <2>1, <2>2
<1>8. OwnersActive'
  <2>1. \A t \in 1 .. n : t \in 1 .. n + 1
    BY <1>1
  <2> QED BY <1>1, <1>5, <2>1 DEF IInv, OwnersActive, Active, Txns
<1>9. OnePlace(lockTable')
  BY <1>1 DEF IInv
<1> QED BY <1>6, <1>7, <1>8, <1>9 DEF IInv

LEMMA UpgradeKeeps ==
    ASSUME IInv, NEW t, NEW rid \in Rids, Upgrade(t, rid)
    PROVE  IInv'
<1>1. /\ t \in Txns /\ rid \in DOMAIN own[t] /\ status' = status /\ lockTable' = lockTable
      /\ own' = [own EXCEPT ![t] = [own[t] EXCEPT ![rid] = Exclusive]]
      /\ own \in Seq(OwnLists)
  BY DEF Upgrade, Active, IInv, LocksTypeOK
<1>2. t \in DOMAIN own /\ DOMAIN own = Txns
  BY <1>1 DEF IInv, LocksTypeOK, Txns
<1>3. DOMAIN own' = DOMAIN own /\ \A u \in DOMAIN own : DOMAIN own'[u] = DOMAIN own[u]
  BY <1>1, <1>2
<1>4. [own[t] EXCEPT ![rid] = Exclusive] \in OwnLists
  <2>1. own[t] \in OwnLists
    BY <1>1, <1>2
  <2>2. PICK D \in SUBSET Rids : own[t] \in [D -> Modes]
    BY <2>1 DEF OwnLists
  <2>3. [own[t] EXCEPT ![rid] = Exclusive] \in [D -> Modes]
    BY <2>2 DEF Modes
  <2> QED BY <2>3 DEF OwnLists
<1>5. own' \in Seq(OwnLists) /\ Len(own') = Len(own)
  BY <1>1, <1>2, <1>4
<1>6. LocksTypeOK'
  BY <1>1, <1>5 DEF IInv, LocksTypeOK
<1>7. OwnListsBounded'
  BY <1>1, <1>2, <1>3 DEF IInv, OwnListsBounded, Txns
<1>8. OwnersActive'
  <2> SUFFICES ASSUME NEW i \in DOMAIN lockTable
               PROVE  /\ lockTable[i].txn \in Active
                      /\ lockTable[i].rid \in DOMAIN own'[lockTable[i].txn]
    BY <1>1 DEF OwnersActive, Active, Txns
  <2>1. lockTable[i].txn \in Active /\ lockTable[i].rid \in DOMAIN own[lockTable[i].txn]
    BY DEF IInv, OwnersActive
  <2> QED BY <1>2, <1>3, <2>1 DEF Active
<1>9. OnePlace(lockTable')
  BY <1>1 DEF IInv
<1> QED BY <1>6, <1>7, <1>8, <1>9 DEF IInv

LEMMA AcquireKeeps ==
    ASSUME IInv, NEW t, NEW rid \in Rids, NEW mode \in Modes, AcquireNew(t, rid, mode)
    PROVE  IInv'
<1> DEFINE lock == [rid |-> rid, mode |-> mode, txn |-> t]
           list == [r \in DOMAIN own[t] \cup {rid} |-> IF r = rid THEN mode ELSE own[t][r]]
           m == Len(lockTable)
<1>1. /\ t \in Active /\ t \in Txns /\ rid \notin DOMAIN own[t] /\ ~ListsFull(t)
      /\ status' = status /\ lockTable' = Append(lockTable, lock)
      /\ own' = [own EXCEPT ![t] = list]
      /\ own \in Seq(OwnLists) /\ lockTable \in Seq(Locks) /\ m \in Nat
  BY DEF AcquireNew, Refused, Active, IInv, LocksTypeOK
<1>2. t \in DOMAIN own /\ DOMAIN own = Txns /\ t \in Nat
  BY <1>1 DEF IInv, LocksTypeOK, Txns
<1>3. list \in OwnLists /\ DOMAIN list = DOMAIN own[t] \cup {rid}
  <2>1. own[t] \in OwnLists
    BY <1>1, <1>2
  <2>2. PICK D \in SUBSET Rids : own[t] \in [D -> Modes]
    BY <2>1 DEF OwnLists
  <2>3. list \in [D \cup {rid} -> Modes] /\ D \cup {rid} \in SUBSET Rids
    BY <2>2
  <2> QED BY <2>2, <2>3 DEF OwnLists
<1>4. lock \in Locks
  BY <1>2 DEF Locks
<1>5. lock.txn = t /\ lock.rid = rid
  OBVIOUS
<1> HIDE DEF lock, list
<1>6. LocksTypeOK'
  <2>1. own' \in Seq(OwnLists) /\ Len(own') = Len(own)
    BY <1>1, <1>2, <1>3
  <2>2. lockTable' \in Seq(Locks)
    BY <1>1, <1>4
  <2> QED BY <1>1, <2>1, <2>2 DEF IInv, LocksTypeOK
<1>7. DOMAIN own' = Txns /\ own'[t] = list /\ \A u \in Txns : u # t => own'[u] = own[u]
  BY <1>1, <1>2
<1>8. OwnListsBounded'
  <2> SUFFICES ASSUME NEW u \in Txns
               PROVE  IsFiniteSet(DOMAIN own'[u]) /\ Cardinality(DOMAIN own'[u]) <= MaxLocks
    BY <1>1 DEF OwnListsBounded, Txns
  <2>1. CASE u = t
    <3> DEFINE S == DOMAIN own[t]
    <3>1. IsFiniteSet(S) /\ ~(Cardinality(S) >= MaxLocks)
      BY <1>1 DEF IInv, OwnListsBounded, ListsFull
    <3>2. DOMAIN own'[u] = S \cup {rid} /\ rid \notin S
      BY <1>1, <1>3, <1>7, <2>1
    <3> HIDE DEF S
    <3>3. IsFiniteSet(S \cup {rid}) /\ Cardinality(S \cup {rid}) = Cardinality(S) + 1
      BY <3>1, <3>2, FS_AddElement
    <3>4. Cardinality(S) \in Nat
      BY <3>1, FS_CardinalityType
    <3> QED BY <3>1, <3>2, <3>3, <3>4, TxnAssumption
  <2>2. CASE u # t
    BY <1>7, <2>2 DEF IInv, OwnListsBounded
  <2> QED BY <2>1, <2>2
<1>9. /\ DOMAIN lockTable = 1 .. m /\ DOMAIN lockTable' = 1 .. m + 1
      /\ lockTable'[m + 1] = lock /\ \A i \in 1 .. m : lockTable'[i] = lockTable[i]
  BY <1>1, <1>4
<1> HIDE DEF m
<1>10. \A i \in 1 .. m + 1 : i \in 1 .. m \/ i = m + 1
  BY <1>1
<1>11. OwnersActive'
  <2> SUFFICES ASSUME NEW i \in 1 .. m + 1
               PROVE  /\ lockTable'[i].txn \in Active
                      /\ lockTable'[i].rid \in DOMAIN own'[lockTable'[i].txn]
    BY <1>1, <1>9 DEF OwnersActive, Active, Txns
  <2>1. CASE i = m + 1
    BY <1>1, <1>3, <1>5, <1>7, <1>9, <2>1
  <2>2. CASE i \in 1 .. m
    <3>1. /\ lockTable[i].txn \in Active /\ lockTable[i].txn \in Txns
          /\ lockTable[i].rid \in DOMAIN own[lockTable[i].txn]
      BY <1>9, <2>2 DEF IInv, OwnersActive, Active
    <3> QED BY <1>3, <1>7, <1>9, <2>2, <3>1
  <2> QED BY <1>10, <2>1, <2>2
<1>12. OnePlace(lockTable')
  <2>1. ASSUME NEW i \in 1 .. m PROVE ~SameLock(lockTable[i], lock)
    <3>1. lockTable[i].rid \in DOMAIN own[lockTable[i].txn]
      BY <1>9 DEF IInv, OwnersActive
    <3> QED BY <1>1, <1>5, <3>1 DEF SameLock
  <2>2. \A i, j \in 1 .. m : SameLock(lockTable[i], lockTable[j]) => i = j
    BY <1>9 DEF IInv, OnePlace
  <2>3. \A l, k : SameLock(l, k) <=> SameLock(k, l)
    BY DEF SameLock
  <2> QED BY <1>9, <1>10, <2>1, <2>2, <2>3 DEF OnePlace
<1> QED BY <1>6, <1>8, <1>11, <1>12 DEF IInv

-----------------------------------------------------------------------------
LEMMA Invariance == Spec => []IInv
<1>1. Init => IInv
  <2> SUFFICES ASSUME Init PROVE IInv
    OBVIOUS
  <2>1. status = <<>> /\ own = <<>> /\ lockTable = <<>>
    BY DEF Init
  <2>2. LocksTypeOK
    BY <2>1, TxnAssumption DEF LocksTypeOK
  <2> QED BY <2>1, <2>2 DEF IInv, OwnListsBounded, OwnersActive, OnePlace, Txns
<1>2. IInv /\ [Next]_vars => IInv'
  <2> SUFFICES ASSUME IInv, [Next]_vars PROVE IInv'
    OBVIOUS
  <2>t. status \in Seq(Statuses) /\ {"committed", "aborted"} \subseteq Statuses
    BY DEF IInv, LocksTypeOK, Statuses
  <2>1. CASE Begin
    BY <2>1, BeginKeeps
  <2>2. ASSUME NEW t \in Txns, Commit(t) PROVE IInv'
    <3>1. Release({t}) /\ status' = [status EXCEPT ![t] = "committed"]
      BY <2>2 DEF Commit
    <3>2. status' \in Seq(Statuses) /\ Len(status') = Len(status)
      BY <2>t, <3>1 DEF Txns
    <3>3. \A u \in Txns : u \notin {t} => status'[u] = status[u]
      BY <3>1 DEF Txns
    <3> QED BY <3>1, <3>2, <3>3, EndKeeps
  <2>3. ASSUME NEW t \in Txns, Abort(t) PROVE IInv'
    <3>1. Release({t}) /\ status' = [status EXCEPT ![t] = "aborted"]
      BY <2>3 DEF Abort
    <3>2. status' \in Seq(Statuses) /\ Len(status') = Len(status)
      BY <2>t, <3>1 DEF Txns
    <3>3. \A u \in Txns : u \notin {t} => status'[u] = status[u]
      BY <3>1 DEF Txns
    <3> QED BY <3>1, <3>2, <3>3, EndKeeps
  <2>4. ASSUME NEW t \in Txns, NEW rid \in Rids, Locking(t, rid) PROVE IInv'
    BY <2>4, UpgradeKeeps, AcquireKeeps DEF Locking
  <2>5. ASSUME NEW t \in Txns, NEW rid \in Rids, Logging(t, rid) PROVE IInv'
    <3>1. UNCHANGED <<status, own, lockTable>>
      BY <2>5, SMTT(60) DEF Logging, WalAppend
    <3> QED BY <3>1 DEF IInv, LocksTypeOK, OwnListsBounded, OwnersActive, OnePlace, Active, Txns
  <2>6. CASE Recover
    <3>1. /\ Release(LoggedActive)
          /\ status' = [t \in Txns |-> IF t \in LoggedActive THEN "aborted" ELSE status[t]]
      BY <2>6 DEF Recover
    <3>2. Txns = 1 .. Len(status) /\ Len(status) \in Nat /\ \A t \in Txns : status[t] \in Statuses
      BY <2>t DEF Txns
    <3>3. \A t \in Txns : status'[t] \in Statuses
      BY <2>t, <3>1, <3>2
    <3>4. status' \in Seq(Statuses) /\ Len(status') = Len(status)
      BY <3>1, <3>2, <3>3
    <3>5. \A u \in Txns : u \notin LoggedActive => status'[u] = status[u]
      BY <3>1
    <3> HIDE DEF LoggedActive
    <3> QED BY <3>1, <3>4, <3>5, EndKeeps
  <2>7. CASE UNCHANGED vars
    BY <2>7 DEF IInv, LocksTypeOK, OwnListsBounded, OwnersActive, OnePlace, Active, Txns, vars
  <2> QED BY <2>1, <2>2, <2>3, <2>4, <2>5, <2>6, <2>7 DEF Next
<1> QED BY <1>1, <1>2, PTL DEF Spec

(* txn_lock_acquire refuses a lock for the sake of an older active         *)
(* transaction only, or because the own list is full: never because of     *)
(* locks that commits, aborts or a recovery left in the lock table, for    *)
(* any number of transactions and any size of the lists.                   *)
THEOREM RefusedOnlyForOlderHolds == Spec => []RefusedOnlyForOlder
<1>1. IInv => RefusedOnlyForOlder
  <2> SUFFICES ASSUME IInv, NEW t \in Active, NEW rid \in Rids, NEW mode \in Modes,
                      Refused(t, rid, mode), ~(Cardinality(DOMAIN own[t]) >= MaxLocks)
               PROVE  \E u \in Active : u < t /\ rid \in DOMAIN own[u]
    BY DEF RefusedOnlyForOlder
  <2>1. OlderHolder(t, rid, mode)
    <3>1. t \in Txns /\ IsFiniteSet(DOMAIN own[t])
      BY DEF Active, IInv, OwnListsBounded
    <3>2. Cardinality(DOMAIN own[t]) < MaxLocks
      <4>1. Cardinality(DOMAIN own[t]) \in Nat
        BY <3>1, FS_CardinalityType
      <4> QED BY <4>1, TxnAssumption
    <3>3. Len(lockTable) < MaxLocks * MaxActive
      BY <3>1, <3>2, RoomInTheTable
    <3>4. Len(lockTable) \in Nat /\ MaxLocks * MaxActive \in Int
      BY TxnAssumption DEF IInv, LocksTypeOK
    <3> QED BY <3>3, <3>4 DEF Refused, ListsFull
  <2> DEFINE C == Conflicts(t, rid, mode)
             i == Min(C)
  <2>2. C \in SUBSET Nat /\ C # {}
    BY <2>1 DEF OlderHolder, Conflicts, IInv, LocksTypeOK
  <2>3. i \in C
    <3> HIDE DEF C
    <3> QED BY <2>2, MinIsMember
  <2>4. i \in DOMAIN lockTable /\ lockTable[i].rid = rid
    BY <2>3 DEF Conflicts
  <2>5. lockTable[i].txn \in Active /\ rid \in DOMAIN own[lockTable[i].txn]
    BY <2>4 DEF IInv, OwnersActive
  <2>6. lockTable[i].txn < t
    BY <2>1 DEF OlderHolder
  <2> QED BY <2>5, <2>6
<1> QED BY <1>1, Invariance, PTL

-----------------------------------------------------------------------------
(* What the log tells.                                                     *)
LogTypes == DataTypes \cup {"BEGIN", "COMMIT", "ABORT"}
LogRecs == [type : LogTypes, txn : Nat, rid : Rids \cup {0}]

Tells(l, t, type) == \E i \in DOMAIN l : l[i].txn = t /\ l[i].type = type

BeginsFirst(l) ==
    \A i, j \in DOMAIN l :
        l[i].txn = l[j].txn /\ l[i].type = "BEGIN" /\ l[j].type # "BEGIN" => i < j

(* A log l that nothing was dropped from tells the states st of all        *)
(* transactions, and of no others.                                         *)
LogTrue(st, l) ==
    /\ \A i \in DOMAIN l : l[i].txn \in DOMAIN st
    /\ BeginsFirst(l)
    /\ \A t \in DOMAIN st : /\ Tells(l, t, "BEGIN")
                            /\ st[t] = "committed" <=> Tells(l, t, "COMMIT")
                            /\ st[t] = "aborted" <=> Tells(l, t, "ABORT")

LogInv ==
    /\ log \in Seq(LogRecs) /\ Len(log) <= LogCap
    /\ Len(log) < LogCap => LogTrue(status, log)

-----------------------------------------------------------------------------
(* FlattenSeq returns a sequence of what is in the parts.                  *)
LEMMA FlattenGathers ==
    ASSUME NEW S, NEW parts \in Seq(Seq(S))
    PROVE  /\ FlattenSeq(parts) \in Seq(S)
           /\ Range(FlattenSeq(parts)) = UNION { Range(parts[k]) : k \in 1 .. Len(parts) }
<1> DEFINE n == Len(parts)
           In(k) == UNION { Range(parts[i]) : i \in 1 .. k }
<1>1. n \in Nat /\ \A k \in 1 .. n : parts[k] \in Seq(S)
  OBVIOUS
<1>2. CASE n = 0
  <2>1. FlattenSeq(parts) = parts /\ parts = <<>>
    BY <1>2 DEF FlattenSeq
  <2>2. Range(<<>>) = {} /\ <<>> \in Seq(S)
    BY DEF Range
  <2>3. In(0) = {}
    OBVIOUS
  <2> QED BY <1>2, <2>1, <2>2, <2>3
<1>3. CASE n # 0
  <2> HIDE DEF n
  <2>1. PICK f : /\ f[1] = parts[1]
                 /\ \A k \in 2 .. n : f[k] = f[k - 1] \o parts[k]
                 /\ FlattenSeq(parts) = f[n]
    BY <1>1, <1>3, FlattenSteps DEF n
  <2> DEFINE P == { k \in 0 .. n : k = 0 \/ (f[k] \in Seq(S) /\ Range(f[k]) = In(k)) }
  <2>2. 0 \in P
    BY <1>1
  <2>3. ASSUME NEW k \in 1 .. n, k - 1 \in P PROVE k \in P
    <3>1. k \in Nat /\ k \in 0 .. n /\ k # 0
      BY <1>1
    <3>2. CASE k = 1
      <4>1. In(1) = Range(parts[1])
        OBVIOUS
      <4> QED BY <1>1, <2>1, <3>1, <3>2, <4>1
    <3>3. CASE k # 1
      <4>1. k \in 2 .. n /\ k - 1 # 0
        BY <3>1, <3>3
      <4>2. f[k - 1] \in Seq(S) /\ Range(f[k - 1]) = In(k - 1)
        BY <2>3, <4>1
      <4>3. f[k] = f[k - 1] \o parts[k] /\ parts[k] \in Seq(S)
        BY <1>1, <2>1, <4>1
      <4>4. f[k] \in Seq(S) /\ Range(f[k]) = Range(f[k - 1]) \cup Range(parts[k])
        BY <4>2, <4>3, RangeConcatenation
      <4>5. In(k) = In(k - 1) \cup Range(parts[k])
        <5>1. \A i : i \in 1 .. k <=> i \in 1 .. k - 1 \/ i = k
          BY <3>1
        <5> QED BY <5>1
      <4> HIDE DEF In
      <4> QED BY <3>1, <4>2, <4>4, <4>5
    <3> QED BY <3>2, <3>3
  <2>4. n \in P
    <3>1. n \in 0 .. n
      BY <1>1
    <3> HIDE DEF P
    <3> QED BY <1>1, <2>2, <2>3, <3>1, InductionUpTo
  <2> QED BY <1>3, <2>1, <2>4 DEF n
<1> QED BY <1>2, <1>3

(* What an abort logs are undo records and one end of its transaction.     *)
LEMMA FirstOfFacts ==
    ASSUME NEW S, NEW c \in Seq(S), NEW n \in Nat
    PROVE  /\ FirstOf(c, n) \in Seq(S) /\ Len(FirstOf(c, n)) <= n
           /\ Len(c) <= n => FirstOf(c, n) = c
           /\ Len(c) >= n => Len(FirstOf(c, n)) = n
<1> DEFINE m == Min({n, Len(c)})
<1>1. Len(c) \in Nat /\ {n, Len(c)} \in SUBSET Nat
  OBVIOUS
<1>2. m \in {n, Len(c)} /\ m <= n /\ m <= Len(c)
  BY <1>1, MinIsMember
<1>3. FirstOf(c, n) = SubSeq(c, 1, m)
  BY DEF FirstOf
<1> HIDE DEF m
<1>4. SubSeq(c, 1, m) \in Seq(S) /\ Len(SubSeq(c, 1, m)) = m
  BY <1>1, <1>2
<1>5. m = Len(c) => SubSeq(c, 1, m) = c
  BY <1>1
<1> QED BY <1>1, <1>2, <1>3, <1>4, <1>5

LEMMA RecordsAtType ==
    ASSUME NEW S, NEW c \in Seq(S), NEW places
    PROVE  RecordsAt(c, places) \in Seq(S)
<1> DEFINE parts == [i \in DOMAIN c |-> IF i \in places THEN <<c[i]>> ELSE <<>>]
<1>1. DOMAIN c = 1 .. Len(c) /\ Len(c) \in Nat /\ \A i \in DOMAIN c : c[i] \in S
  OBVIOUS
<1>2. \A i \in DOMAIN c : <<c[i]>> \in Seq(S)
  BY <1>1
<1>3. <<>> \in Seq(S)
  OBVIOUS
<1>4. \A i \in DOMAIN c : parts[i] \in Seq(S)
  BY <1>2, <1>3
<1>5. parts \in Seq(Seq(S))
  <2>1. parts = [i \in 1 .. Len(c) |-> parts[i]]
    BY <1>1
  <2> HIDE DEF parts
  <2> QED BY <1>1, <1>4, <2>1
<1>6. RecordsAt(c, places) = FlattenSeq(parts)
  BY DEF RecordsAt
<1> HIDE DEF parts
<1> QED BY <1>5, <1>6, FlattenGathers

IsEndOf(r, t) == r \in LogRecs /\ r.type = "ABORT" /\ r.txn = t

LEMMA AbortRecordsEnd ==
    ASSUME log \in Seq(LogRecs), NEW t \in Nat
    PROVE  /\ AbortRecords(t) \in Seq(LogRecs)
           /\ Range(AbortRecords(t)) # {}
           /\ \A r \in Range(AbortRecords(t)) : IsEndOf(r, t)
<1> DEFINE mine == OwnLog(t)
           data == RecordsAt(mine, { i \in DOMAIN mine : mine[i].type \in DataTypes })
           back == Reverse(data)
           undone == [i \in DOMAIN data |-> Record("ABORT", t, back[i].rid)]
           last == <<Record("ABORT", t, 0)>>
<1>1. mine \in Seq(LogRecs)
  <2>1. RecordsAt(log, { i \in DOMAIN log : log[i].txn = t }) \in Seq(LogRecs)
    BY RecordsAtType
  <2> QED BY <2>1, FirstOfFacts, TxnAssumption DEF OwnLog
<1>2. Undone(t) = undone
  BY DEF Undone
<1> HIDE DEF mine
<1>3. data \in Seq(LogRecs)
  BY <1>1, RecordsAtType
<1> HIDE DEF data
<1>4. \A i \in DOMAIN data : back[i] \in LogRecs
  <2>1. DOMAIN data = 1 .. Len(data) /\ Len(data) \in Nat
    BY <1>3
  <2>2. \A i \in 1 .. Len(data) : back[i] = data[Len(data) - i + 1] /\ Len(data) - i + 1 \in 1 .. Len(data)
    BY <2>1 DEF Reverse
  <2> QED BY <1>3, <2>1, <2>2
<1> HIDE DEF back
<1>5. \A rid \in Rids \cup {0} : IsEndOf(Record("ABORT", t, rid), t)
  BY DEF IsEndOf, Record, LogRecs, LogTypes
<1>6. \A i \in DOMAIN data : back[i].rid \in Rids \cup {0}
  BY <1>4 DEF LogRecs
<1>7. \A i \in DOMAIN data : undone[i] = Record("ABORT", t, back[i].rid)
  OBVIOUS
<1>8. \A i \in DOMAIN data : IsEndOf(undone[i], t)
  BY <1>5, <1>6, <1>7
<1>9. DOMAIN undone = DOMAIN data /\ DOMAIN data = 1 .. Len(data) /\ Len(data) \in Nat
  BY <1>3
<1>10. undone = [i \in 1 .. Len(data) |-> undone[i]]
  BY <1>9
<1> HIDE DEF undone
<1>11. undone \in Seq(LogRecs) /\ Len(undone) = Len(data)
  BY <1>8, <1>9, <1>10 DEF IsEndOf
<1>12. IsEndOf(Record("ABORT", t, 0), t)
  BY <1>5
<1>13. last \in Seq(LogRecs) /\ Range(last) = {Record("ABORT", t, 0)}
  <2> DEFINE r == Record("ABORT", t, 0)
  <2>1. r \in LogRecs
    BY <1>12 DEF IsEndOf
  <2> HIDE DEF r
  <2>2. <<r>> \in Seq(LogRecs) /\ DOMAIN <<r>> = {1} /\ <<r>>[1] = r
    BY <2>1
  <2>3. Range(<<r>>) = {r}
    BY <2>2 DEF Range
  <2> QED BY <2>2, <2>3 DEF r
<1>14. AbortRecords(t) = undone \o last
  BY <1>2 DEF AbortRecords
<1> HIDE DEF last
<1>15. undone \o last \in Seq(LogRecs) /\ Range(undone \o last) = Range(undone) \cup Range(last)
  BY <1>11, <1>13, RangeConcatenation
<1>16. \A r \in Range(undone) : IsEndOf(r, t)
  BY <1>8, <1>9 DEF Range
<1> QED BY <1>12, <1>13, <1>14, <1>15, <1>16

(* txn_wal_append, of several records: as long as room remains, nothing    *)
(* was dropped, now or before.                                             *)
LEMMA LoggedAll ==
    ASSUME log \in Seq(LogRecs), Len(log) <= LogCap,
           NEW recs \in Seq(LogRecs), log' = Logged(recs)
    PROVE  /\ log' \in Seq(LogRecs) /\ Len(log') <= LogCap
           /\ Len(log') < LogCap => Len(log) < LogCap /\ log' = log \o recs
<1> DEFINE all == log \o recs
<1>1. LogCap \in Nat
  BY TxnAssumption DEF LogCap
<1>2. all \in Seq(LogRecs) /\ Len(all) = Len(log) + Len(recs) /\ Len(log) \in Nat /\ Len(recs) \in Nat
  OBVIOUS
<1>3. log' = FirstOf(all, LogCap)
  BY DEF Logged
<1> HIDE DEF all
<1>4. /\ FirstOf(all, LogCap) \in Seq(LogRecs) /\ Len(FirstOf(all, LogCap)) <= LogCap
      /\ Len(all) <= LogCap => FirstOf(all, LogCap) = all
      /\ Len(all) >= LogCap => Len(FirstOf(all, LogCap)) = LogCap
  BY <1>1, <1>2, FirstOfFacts
<1>5. ASSUME Len(log') < LogCap PROVE Len(log) < LogCap /\ log' = all
  <2>1. Len(all) < LogCap
    BY <1>1, <1>2, <1>3, <1>4, <1>5
  <2> QED BY <1>1, <1>2, <1>3, <1>4, <2>1
<1> QED BY <1>3, <1>4, <1>5 DEF all

(* Records that begin nothing keep the log true of what they tell.         *)
Told(recs, t, type) == \E r \in Range(recs) : r.txn = t /\ r.type = type

LEMMA TellsMore ==
    ASSUME NEW l \in Seq(LogRecs), NEW recs \in Seq(LogRecs), NEW t, NEW type
    PROVE  Tells(l \o recs, t, type) <=> Tells(l, t, type) \/ Told(recs, t, type)
<1>1. \A c : Told(c, t, type) <=> Tells(c, t, type)
  BY DEF Told, Tells, Range
<1>2. Range(l \o recs) = Range(l) \cup Range(recs)
  BY RangeConcatenation
<1>3. Told(l \o recs, t, type) <=> Told(l, t, type) \/ Told(recs, t, type)
  BY <1>2 DEF Told
<1> QED BY <1>1, <1>3

LEMMA MoreIsTrue ==
    ASSUME NEW st, NEW l \in Seq(LogRecs), LogTrue(st, l), NEW recs \in Seq(LogRecs),
           \A r \in Range(recs) : r.txn \in DOMAIN st /\ r.type # "BEGIN",
           NEW new, DOMAIN new = DOMAIN st,
           \A t \in DOMAIN st :
              /\ new[t] = "committed" <=> st[t] = "committed" \/ Told(recs, t, "COMMIT")
              /\ new[t] = "aborted" <=> st[t] = "aborted" \/ Told(recs, t, "ABORT")
    PROVE  LogTrue(new, l \o recs)
<1> DEFINE n == Len(l)
           m == Len(recs)
           all == l \o recs
<1>1. /\ n \in Nat /\ m \in Nat /\ DOMAIN l = 1 .. n /\ DOMAIN recs = 1 .. m /\ DOMAIN all = 1 .. n + m
      /\ \A i \in 1 .. n : all[i] = l[i]
      /\ \A i \in n + 1 .. n + m : i - n \in 1 .. m /\ all[i] = recs[i - n]
  OBVIOUS
<1> HIDE DEF n, m, all
<1>2. \A i \in 1 .. n + m : i \in 1 .. n \/ i \in n + 1 .. n + m
  BY <1>1
<1>3. \A i \in n + 1 .. n + m : all[i].txn \in DOMAIN st /\ all[i].type # "BEGIN"
  BY <1>1 DEF Range
<1>4. \A i \in DOMAIN all : all[i].txn \in DOMAIN new
  BY <1>1, <1>2, <1>3 DEF LogTrue
<1>5. BeginsFirst(all)
  <2> SUFFICES ASSUME NEW i \in 1 .. n + m, NEW j \in 1 .. n + m,
                      all[i].txn = all[j].txn, all[i].type = "BEGIN", all[j].type # "BEGIN"
               PROVE  i < j
    BY <1>1 DEF BeginsFirst
  <2>1. i \in 1 .. n
    BY <1>2, <1>3
  <2>2. CASE j \in 1 .. n
    BY <1>1, <2>1, <2>2 DEF LogTrue, BeginsFirst
  <2>3. CASE j \in n + 1 .. n + m
    BY <1>1, <2>1, <2>3
  <2> QED BY <1>2, <2>2, <2>3
<1>6. ASSUME NEW t \in DOMAIN st
      PROVE  /\ Tells(all, t, "BEGIN")
             /\ new[t] = "committed" <=> Tells(all, t, "COMMIT")
             /\ new[t] = "aborted" <=> Tells(all, t, "ABORT")
  <2>1. \A type : Tells(all, t, type) <=> Tells(l, t, type) \/ Told(recs, t, type)
    BY TellsMore DEF all
  <2>2. /\ Tells(l, t, "BEGIN")
        /\ st[t] = "committed" <=> Tells(l, t, "COMMIT")
        /\ st[t] = "aborted" <=> Tells(l, t, "ABORT")
    BY DEF LogTrue
  <2>3. /\ new[t] = "committed" <=> st[t] = "committed" \/ Told(recs, t, "COMMIT")
        /\ new[t] = "aborted" <=> st[t] = "aborted" \/ Told(recs, t, "ABORT")
    OBVIOUS
  <2> HIDE DEF Tells, Told
  <2> QED BY <2>1, <2>2, <2>3
<1>7. LogTrue(new, all)
  BY <1>4, <1>5, <1>6 DEF LogTrue
<1> QED BY <1>7 DEF all

(* So does the beginning of a new one.                                     *)
LEMMA BeginIsTrue ==
    ASSUME NEW st \in Seq(Statuses), NEW l \in Seq(LogRecs), LogTrue(st, l),
           NEW r \in LogRecs, r.txn = Len(st) + 1, r.type = "BEGIN"
    PROVE  LogTrue(Append(st, "active"), l \o <<r>>)
<1> DEFINE n == Len(l)
           k == Len(st)
           new == Append(st, "active")
           all == l \o <<r>>
<1>1. /\ n \in Nat /\ DOMAIN l = 1 .. n /\ DOMAIN all = 1 .. n + 1
      /\ all[n + 1] = r /\ \A i \in 1 .. n : all[i] = l[i]
  OBVIOUS
<1>2. "active" \in Statuses
  BY DEF Statuses
<1>3. /\ k \in Nat /\ DOMAIN st = 1 .. k /\ DOMAIN new = 1 .. k + 1
      /\ new[k + 1] = "active" /\ \A t \in 1 .. k : new[t] = st[t]
  BY <1>2
<1>4. r.txn = k + 1
  OBVIOUS
<1> HIDE DEF n, k, new, all
<1>5. \A i \in 1 .. n + 1 : i \in 1 .. n \/ i = n + 1
  BY <1>1
<1>6. \A i \in 1 .. n : l[i].txn \in 1 .. k
  BY <1>1, <1>3 DEF LogTrue
<1>7. \A t \in 1 .. k : t \in 1 .. k + 1 /\ t # k + 1
  BY <1>3
<1>8. \A i \in DOMAIN all : all[i].txn \in DOMAIN new
  <2>1. k + 1 \in 1 .. k + 1
    BY <1>3
  <2> QED BY <1>1, <1>3, <1>4, <1>5, <1>6, <1>7, <2>1
<1>9. BeginsFirst(all)
  <2> SUFFICES ASSUME NEW i \in 1 .. n + 1, NEW j \in 1 .. n + 1,
                      all[i].txn = all[j].txn, all[i].type = "BEGIN", all[j].type # "BEGIN"
               PROVE  i < j
    BY <1>1 DEF BeginsFirst
  <2>1. j \in 1 .. n /\ all[j].txn \in 1 .. k
    BY <1>1, <1>5, <1>6
  <2>2. i \in 1 .. n
    BY <1>1, <1>4, <1>5, <1>7, <2>1
  <2> QED BY <1>1, <2>1, <2>2 DEF LogTrue, BeginsFirst
<1>10. \A t, type : Tells(all, t, type) <=> Tells(l, t, type) \/ (t = k + 1 /\ type = "BEGIN")
  <2> TAKE t, type
  <2>1. ASSUME Tells(all, t, type) PROVE Tells(l, t, type) \/ (t = k + 1 /\ type = "BEGIN")
    BY <1>1, <1>4, <1>5, <2>1 DEF Tells
  <2>2. ASSUME Tells(l, t, type) PROVE Tells(all, t, type)
    <3>1. \A i \in 1 .. n : i \in 1 .. n + 1
      BY <1>1
    <3> QED BY <1>1, <2>2, <3>1 DEF Tells
  <2>3. ASSUME t = k + 1, type = "BEGIN" PROVE Tells(all, t, type)
    <3>1. n + 1 \in 1 .. n + 1
      BY <1>1
    <3> QED BY <1>1, <1>4, <2>3, <3>1 DEF Tells
  <2> QED BY <2>1, <2>2, <2>3
<1>11. \A type : ~Tells(l, k + 1, type)
  BY <1>1, <1>6, <1>7 DEF Tells
<1>12. ASSUME NEW t \in 1 .. k + 1
       PROVE  /\ Tells(all, t, "BEGIN")
              /\ new[t] = "committed" <=> Tells(all, t, "COMMIT")
              /\ new[t] = "aborted" <=> Tells(all, t, "ABORT")
  <2>1. CASE t = k + 1
    BY <1>3, <1>10, <1>11, <2>1
  <2>2. CASE t # k + 1
    <3>1. t \in 1 .. k
      BY <1>3, <2>2
    <3>2. /\ Tells(l, t, "BEGIN")
          /\ st[t] = "committed" <=> Tells(l, t, "COMMIT")
          /\ st[t] = "aborted" <=> Tells(l, t, "ABORT")
      BY <1>3, <3>1 DEF LogTrue
    <3> QED BY <1>3, <1>10, <3>1, <3>2, <2>2
  <2> QED BY <2>1, <2>2
<1>13. LogTrue(new, all)
  BY <1>3, <1>8, <1>9, <1>12 DEF LogTrue
<1> QED BY <1>13 DEF new, all

(* What the analysis of txn_recover finds in such a log is the truth.      *)
LEMMA AnalysisIsTrue ==
    ASSUME LocksTypeOK, log \in Seq(LogRecs), LogTrue(status, log)
    PROVE  /\ LoggedActive = Active
           /\ \A t \in Txns : t \in LoggedCommitted <=> status[t] = "committed"
<1> DEFINE n == Len(log)
<1>1. n \in Nat /\ DOMAIN log = 1 .. n
  OBVIOUS
<1>2. \A t \in Txns : status[t] \in Statuses
  BY DEF LocksTypeOK, Txns
<1> HIDE DEF n
<1>3. ASSUME NEW t \in Txns
      PROVE  LET ends == Steps(t, {"BEGIN", "COMMIT", "ABORT"})
             IN  (ends # {} /\ log[Max(ends)].type = "BEGIN") <=> status[t] = "active"
  <2> DEFINE ends == Steps(t, {"BEGIN", "COMMIT", "ABORT"})
             last == Max(ends)
  <2>1. PICK b \in 1 .. n : log[b].txn = t /\ log[b].type = "BEGIN"
    BY <1>1 DEF LogTrue, Tells, Txns
  <2>2. b \in ends /\ ends \in SUBSET (0 .. n)
    BY <1>1, <2>1 DEF Steps
  <2>3. last \in ends /\ \A i \in ends : i <= last
    <3> HIDE DEF ends
    <3> QED BY <1>1, <2>2, MaxIsMember
  <2>4. last \in 1 .. n /\ log[last].txn = t /\ log[last].type \in {"BEGIN", "COMMIT", "ABORT"}
    BY <1>1, <2>3 DEF Steps
  <2>5. ASSUME NEW i \in 1 .. n, log[i].txn = t, log[i].type \in {"COMMIT", "ABORT"}
        PROVE  i \in ends /\ (log[last].type = "BEGIN" => last < i)
    <3>1. i \in ends
      BY <1>1, <2>5 DEF Steps
    <3>2. log[i].type # "BEGIN"
      BY <2>5
    <3> HIDE DEF last, ends
    <3>3. log[last].type = "BEGIN" => last < i
      BY <1>1, <2>4, <2>5, <3>2 DEF LogTrue, BeginsFirst
    <3> QED BY <3>1, <3>3
  <2>6. ASSUME NEW i \in 1 .. n, log[i].txn = t, log[i].type \in {"COMMIT", "ABORT"}
        PROVE  log[last].type # "BEGIN"
    <3>1. i \in ends /\ (log[last].type = "BEGIN" => last < i)
      BY <2>5, <2>6
    <3>2. i <= last
      BY <2>3, <3>1
    <3> HIDE DEF last, ends
    <3> QED BY <1>1, <2>4, <3>1, <3>2
  <2> HIDE DEF last, ends
  <2>7. ASSUME status[t] = "active" PROVE log[last].type = "BEGIN"
    <3>1. ~Tells(log, t, "COMMIT") /\ ~Tells(log, t, "ABORT")
      BY <2>7 DEF LogTrue, Txns
    <3> QED BY <1>1, <2>4, <3>1 DEF Tells
  <2>8. ASSUME log[last].type = "BEGIN" PROVE status[t] = "active"
    <3>1. ~Tells(log, t, "COMMIT") /\ ~Tells(log, t, "ABORT")
      BY <1>1, <2>6, <2>8 DEF Tells
    <3>2. status[t] # "committed" /\ status[t] # "aborted"
      BY <3>1 DEF LogTrue, Txns
    <3> QED BY <1>2, <3>2 DEF Statuses
  <2> QED BY <2>2, <2>7, <2>8 DEF ends, last
<1>4. LoggedActive = Active
  BY <1>3 DEF LoggedActive, Active
<1>5. ASSUME NEW t \in Txns PROVE t \in LoggedCommitted <=> status[t] = "committed"
  <2>1. t \in LoggedCommitted <=> Tells(log, t, "COMMIT")
    <3>1. ASSUME NEW i \in Steps(t, {"COMMIT"}), NEW j \in Steps(t, {"BEGIN"}) PROVE j < i
      BY <3>1 DEF Steps, LogTrue, BeginsFirst
    <3>2. t \in LoggedCommitted <=> Steps(t, {"COMMIT"}) # {}
      BY <3>1 DEF LoggedCommitted
    <3>3. Steps(t, {"COMMIT"}) # {} <=> Tells(log, t, "COMMIT")
      BY DEF Steps, Tells
    <3> QED BY <3>2, <3>3
  <2> QED BY <2>1 DEF LogTrue, Txns
<1> QED BY <1>4, <1>5

LEMMA OneRecord ==
    ASSUME NEW r \in LogRecs
    PROVE  <<r>> \in Seq(LogRecs) /\ Range(<<r>>) = {r}
<1>1. <<r>> \in Seq(LogRecs) /\ DOMAIN <<r>> = {1} /\ <<r>>[1] = r
  OBVIOUS
<1> QED BY <1>1 DEF Range

(* Every step keeps it.                                                    *)
LEMMA BeginLogs == ASSUME LocksTypeOK, LogInv, Begin PROVE LogInv'
<1> DEFINE r == Record("BEGIN", Len(status) + 1, 0)
<1>1. /\ log \in Seq(LogRecs) /\ Len(log) <= LogCap /\ log' = Logged(<<r>>)
      /\ status \in Seq(Statuses) /\ status' = Append(status, "active")
  BY DEF LogInv, LocksTypeOK, Begin
<1>2. r \in LogRecs /\ r.txn = Len(status) + 1 /\ r.type = "BEGIN"
  BY <1>1 DEF Record, LogRecs, LogTypes
<1> HIDE DEF r
<1>3. <<r>> \in Seq(LogRecs)
  BY <1>2, OneRecord
<1>4. /\ log' \in Seq(LogRecs) /\ Len(log') <= LogCap
      /\ Len(log') < LogCap => Len(log) < LogCap /\ log' = log \o <<r>>
  BY <1>1, <1>3, LoggedAll
<1>5. ASSUME Len(log') < LogCap PROVE LogTrue(status', log')
  <2>1. LogTrue(status, log) /\ log' = log \o <<r>>
    BY <1>4, <1>5 DEF LogInv
  <2>2. LogTrue(Append(status, "active"), log \o <<r>>)
    BY <1>1, <1>2, <2>1, BeginIsTrue
  <2> QED BY <1>1, <2>1, <2>2
<1>6. LogCap' = LogCap
  BY DEF LogCap
<1> QED BY <1>4, <1>5, <1>6 DEF LogInv, LogTrue, BeginsFirst, Tells

(* Every other one logs what it does to the states, when it can.           *)
LEMMA LogsKeep ==
    ASSUME LogInv, NEW recs \in Seq(LogRecs), log' = Logged(recs), DOMAIN status' = Txns,
           LogTrue(status, log) =>
              /\ \A r \in Range(recs) : r.txn \in Txns /\ r.type # "BEGIN"
              /\ \A t \in Txns :
                    /\ status'[t] = "committed" <=> status[t] = "committed" \/ Told(recs, t, "COMMIT")
                    /\ status'[t] = "aborted" <=> status[t] = "aborted" \/ Told(recs, t, "ABORT")
    PROVE  LogInv'
<1>1. log \in Seq(LogRecs) /\ Len(log) <= LogCap
  BY DEF LogInv
<1>2. /\ log' \in Seq(LogRecs) /\ Len(log') <= LogCap
      /\ Len(log') < LogCap => Len(log) < LogCap /\ log' = log \o recs
  BY <1>1, LoggedAll
<1>3. ASSUME Len(log') < LogCap PROVE LogTrue(status', log')
  <2>1. LogTrue(status, log) /\ log' = log \o recs
    BY <1>2, <1>3 DEF LogInv
  <2>2. /\ \A r \in Range(recs) : r.txn \in DOMAIN status /\ r.type # "BEGIN"
        /\ \A t \in DOMAIN status :
              /\ status'[t] = "committed" <=> status[t] = "committed" \/ Told(recs, t, "COMMIT")
              /\ status'[t] = "aborted" <=> status[t] = "aborted" \/ Told(recs, t, "ABORT")
    BY <2>1 DEF Txns
  <2>3. DOMAIN status' = DOMAIN status
    BY DEF Txns
  <2>4. LogTrue(status', log \o recs)
    BY <1>1, <2>1, <2>2, <2>3, MoreIsTrue
  <2> QED BY <2>1, <2>4
<1>4. LogCap' = LogCap
  BY DEF LogCap
<1> QED BY <1>2, <1>3, <1>4 DEF LogInv, LogTrue, BeginsFirst, Tells

LEMMA WalAppendLogs ==
    ASSUME LocksTypeOK, LogInv, NEW t \in Txns, NEW type \in DataTypes, NEW rid \in Rids,
           WalAppend(t, type, rid)
    PROVE  LogInv'
<1> DEFINE r == Record(type, t, rid)
<1>1. log' = Logged(<<r>>) /\ status' = status /\ t \in Nat
  BY DEF WalAppend, LocksTypeOK, Txns
<1>2. r \in LogRecs /\ r.txn = t /\ r.type \in DataTypes
  BY <1>1 DEF Record, LogRecs, LogTypes
<1>3. \A x \in DataTypes : x # "BEGIN" /\ x # "COMMIT" /\ x # "ABORT"
  BY DEF DataTypes
<1> HIDE DEF r
<1>4. <<r>> \in Seq(LogRecs) /\ Range(<<r>>) = {r}
  BY <1>2, OneRecord
<1>5. \A u : ~Told(<<r>>, u, "COMMIT") /\ ~Told(<<r>>, u, "ABORT")
  BY <1>2, <1>3, <1>4 DEF Told
<1>6. \A q \in Range(<<r>>) : q.txn \in Txns /\ q.type # "BEGIN"
  BY <1>2, <1>3, <1>4
<1>7. DOMAIN status' = Txns
  BY <1>1 DEF Txns
<1> QED BY <1>1, <1>4, <1>5, <1>6, <1>7, LogsKeep

LEMMA CommitLogs ==
    ASSUME LocksTypeOK, LogInv, NEW t \in Txns, Commit(t)
    PROVE  LogInv'
<1> DEFINE r == Record("COMMIT", t, 0)
<1>1. /\ log' = Logged(<<r>>) /\ status' = [status EXCEPT ![t] = "committed"]
      /\ status[t] = "active" /\ t \in Nat
  BY DEF Commit, Active, LocksTypeOK, Txns
<1>2. r \in LogRecs /\ r.txn = t /\ r.type = "COMMIT"
  BY <1>1 DEF Record, LogRecs, LogTypes
<1> HIDE DEF r
<1>3. <<r>> \in Seq(LogRecs) /\ Range(<<r>>) = {r}
  BY <1>2, OneRecord
<1>4. \A u : (Told(<<r>>, u, "COMMIT") <=> u = t) /\ ~Told(<<r>>, u, "ABORT")
  BY <1>2, <1>3 DEF Told
<1>5. \A q \in Range(<<r>>) : q.txn \in Txns /\ q.type # "BEGIN"
  BY <1>2, <1>3
<1>6. DOMAIN status' = Txns /\ \A u \in Txns : status'[u] = IF u = t THEN "committed" ELSE status[u]
  BY <1>1 DEF Txns
<1>7. \A u \in Txns :
         /\ status'[u] = "committed" <=> status[u] = "committed" \/ Told(<<r>>, u, "COMMIT")
         /\ status'[u] = "aborted" <=> status[u] = "aborted" \/ Told(<<r>>, u, "ABORT")
  BY <1>1, <1>4, <1>6
<1> QED BY <1>1, <1>3, <1>5, <1>6, <1>7, LogsKeep

LEMMA AbortLogs ==
    ASSUME LocksTypeOK, LogInv, NEW t \in Txns, Abort(t)
    PROVE  LogInv'
<1> DEFINE recs == AbortRecords(t)
<1>1. /\ log' = Logged(recs) /\ status' = [status EXCEPT ![t] = "aborted"]
      /\ status[t] = "active" /\ t \in Nat
  BY DEF Abort, Active, LocksTypeOK, Txns
<1>2. /\ recs \in Seq(LogRecs) /\ Range(recs) # {}
      /\ \A r \in Range(recs) : r.type = "ABORT" /\ r.txn = t
  BY <1>1, AbortRecordsEnd DEF LogInv, IsEndOf
<1> HIDE DEF recs
<1>3. \A u : (Told(recs, u, "ABORT") <=> u = t) /\ ~Told(recs, u, "COMMIT")
  BY <1>2 DEF Told
<1>4. \A q \in Range(recs) : q.txn \in Txns /\ q.type # "BEGIN"
  BY <1>2
<1>5. DOMAIN status' = Txns /\ \A u \in Txns : status'[u] = IF u = t THEN "aborted" ELSE status[u]
  BY <1>1 DEF Txns
<1>6. \A u \in Txns :
         /\ status'[u] = "committed" <=> status[u] = "committed" \/ Told(recs, u, "COMMIT")
         /\ status'[u] = "aborted" <=> status[u] = "aborted" \/ Told(recs, u, "ABORT")
  BY <1>1, <1>3, <1>5
<1> QED BY <1>1, <1>2, <1>4, <1>5, <1>6, LogsKeep

LEMMA RecoverLogs ==
    ASSUME LocksTypeOK, LogInv, Recover
    PROVE  LogInv'
<1> DEFINE E == LoggedActive
           parts == [t \in Txns |-> IF t \in E THEN AbortRecords(t) ELSE <<>>]
           recs == FlattenSeq(parts)
           n == Len(status)
<1>1. /\ log' = Logged(recs)
      /\ status' = [t \in Txns |-> IF t \in E THEN "aborted" ELSE status[t]]
  BY DEF Recover
<1>2. log \in Seq(LogRecs) /\ n \in Nat /\ Txns = 1 .. n
  BY DEF LogInv, LocksTypeOK, Txns
<1>3. E \subseteq Txns
  BY DEF LoggedActive
<1>4. LogTrue(status, log) => \A t \in E : status[t] = "active"
  <2>1. LogTrue(status, log) => E = Active
    BY <1>2, AnalysisIsTrue
  <2> QED BY <2>1 DEF Active
<1> HIDE DEF E, n
<1>5. \A t \in Txns : /\ AbortRecords(t) \in Seq(LogRecs) /\ Range(AbortRecords(t)) # {}
                      /\ \A r \in Range(AbortRecords(t)) : r.type = "ABORT" /\ r.txn = t
  BY <1>2, AbortRecordsEnd DEF IsEndOf
<1>6. parts \in Seq(Seq(LogRecs)) /\ Len(parts) = n /\ \A t \in Txns : parts[t] = IF t \in E THEN AbortRecords(t) ELSE <<>>
  <2>1. <<>> \in Seq(LogRecs)
    OBVIOUS
  <2>2. \A t \in Txns : parts[t] \in Seq(LogRecs)
    BY <1>5, <2>1
  <2>3. parts = [t \in 1 .. n |-> parts[t]]
    BY <1>2
  <2>4. \A t \in Txns : parts[t] = IF t \in E THEN AbortRecords(t) ELSE <<>>
    OBVIOUS
  <2> HIDE DEF parts
  <2> QED BY <1>2, <2>2, <2>3, <2>4
<1> HIDE DEF parts
<1>7. recs \in Seq(LogRecs) /\ Range(recs) = UNION { Range(parts[t]) : t \in 1 .. n }
  BY <1>6, FlattenGathers
<1> HIDE DEF recs
<1>8. \A r \in Range(recs) : r.type = "ABORT" /\ r.txn \in E
  <2> SUFFICES ASSUME NEW r \in Range(recs) PROVE r.type = "ABORT" /\ r.txn \in E
    OBVIOUS
  <2>1. PICK t \in Txns : r \in Range(parts[t])
    BY <1>2, <1>7
  <2>2. t \in E
    <3>1. Range(<<>>) = {}
      BY DEF Range
    <3> QED BY <1>6, <2>1, <3>1
  <2> QED BY <1>5, <1>6, <2>1, <2>2
<1>9. \A t \in E : \E r \in Range(recs) : r.type = "ABORT" /\ r.txn = t
  <2> SUFFICES ASSUME NEW t \in E PROVE \E r \in Range(recs) : r.type = "ABORT" /\ r.txn = t
    OBVIOUS
  <2>1. t \in Txns /\ parts[t] = AbortRecords(t)
    BY <1>3, <1>6
  <2>2. PICK r \in Range(parts[t]) : r.type = "ABORT" /\ r.txn = t
    BY <1>5, <2>1
  <2>3. r \in Range(recs)
    BY <1>2, <1>7, <2>1, <2>2
  <2> QED BY <2>2, <2>3
<1>10. \A u : (Told(recs, u, "ABORT") <=> u \in E) /\ ~Told(recs, u, "COMMIT")
  BY <1>8, <1>9 DEF Told
<1>11. \A q \in Range(recs) : q.txn \in Txns /\ q.type # "BEGIN"
  BY <1>3, <1>8
<1>12. DOMAIN status' = Txns /\ \A u \in Txns : status'[u] = IF u \in E THEN "aborted" ELSE status[u]
  BY <1>1
<1>13. LogTrue(status, log) =>
          \A u \in Txns :
             /\ status'[u] = "committed" <=> status[u] = "committed" \/ Told(recs, u, "COMMIT")
             /\ status'[u] = "aborted" <=> status[u] = "aborted" \/ Told(recs, u, "ABORT")
  BY <1>4, <1>10, <1>12
<1> QED BY <1>1, <1>7, <1>11, <1>12, <1>13, LogsKeep

(* txn_recover goes by the truth: as long as the log has room, its redo    *)
(* goes through the inserts and updates of exactly the committed           *)
(* transactions, its undo through the data of exactly the active ones, and *)
(* those are the ones it aborts; for any number of transactions, locks and *)
(* records, and however often it runs.                                     *)
THEOREM RecoveryTellsTruthHolds == Spec => []RecoveryTellsTruth
<1>1. Init /\ LocksTypeOK => LogInv
  <2> SUFFICES ASSUME Init PROVE LogInv
    OBVIOUS
  <2>1. status = <<>> /\ log = <<>>
    BY DEF Init
  <2>2. LogCap \in Nat
    BY TxnAssumption DEF LogCap
  <2>3. log \in Seq(LogRecs) /\ Len(log) <= LogCap
    BY <2>1, <2>2
  <2>4. DOMAIN log = {} /\ DOMAIN status = {}
    BY <2>1
  <2>5. LogTrue(status, log)
    BY <2>4 DEF LogTrue, BeginsFirst
  <2> QED BY <2>3, <2>5 DEF LogInv
<1>2. LocksTypeOK /\ LogInv /\ [Next]_vars => LogInv'
  <2> SUFFICES ASSUME LocksTypeOK, LogInv, [Next]_vars PROVE LogInv'
    OBVIOUS
  <2>1. CASE Begin
    BY <2>1, BeginLogs
  <2>2. ASSUME NEW t \in Txns, Commit(t) PROVE LogInv'
    BY <2>2, CommitLogs
  <2>3. ASSUME NEW t \in Txns, Abort(t) PROVE LogInv'
    BY <2>3, AbortLogs
  <2>4. ASSUME UNCHANGED <<status, log>> PROVE LogInv'
    BY <2>4 DEF LogInv, LogTrue, BeginsFirst, Tells, LogCap
  <2>5. ASSUME NEW t \in Txns, NEW rid \in Rids, Locking(t, rid) PROVE LogInv'
    <3>1. UNCHANGED <<status, log>>
      BY <2>5 DEF Locking, Upgrade, AcquireNew
    <3> QED BY <2>4, <3>1
  <2>6. ASSUME NEW t \in Txns, NEW rid \in Rids, Logging(t, rid) PROVE LogInv'
    BY <2>6, WalAppendLogs DEF Logging
  <2>7. CASE Recover
    BY <2>7, RecoverLogs
  <2>8. CASE UNCHANGED vars
    BY <2>4, <2>8 DEF vars
  <2> QED BY <2>1, <2>2, <2>3, <2>5, <2>6, <2>7, <2>8 DEF Next
<1>3. LocksTypeOK /\ LogInv => RecoveryTellsTruth
  <2> SUFFICES ASSUME LocksTypeOK, LogInv, Len(log) < LogCap
               PROVE  /\ Redo = { i \in DOMAIN log : /\ status[log[i].txn] = "committed"
                                                     /\ log[i].type \in {"INSERT", "UPDATE"} }
                      /\ Undo = { i \in DOMAIN log : status[log[i].txn] = "active" /\ log[i].type \in DataTypes }
                      /\ Active = LoggedActive
    BY DEF RecoveryTellsTruth
  <2>1. LogTrue(status, log) /\ log \in Seq(LogRecs)
    BY DEF LogInv
  <2>2. LoggedActive = Active /\ \A t \in Txns : t \in LoggedCommitted <=> status[t] = "committed"
    BY <2>1, AnalysisIsTrue
  <2>3. \A i \in DOMAIN log : log[i].txn \in Txns
    BY <2>1 DEF LogTrue, Txns
  <2>4. \A t \in Txns : t \in Active <=> status[t] = "active"
    BY DEF Active
  <2> HIDE DEF LoggedActive, LoggedCommitted, Active
  <2>5. Redo = { i \in DOMAIN log : /\ status[log[i].txn] = "committed"
                                    /\ log[i].type \in {"INSERT", "UPDATE"} }
    BY <2>2, <2>3 DEF Redo
  <2>6. Undo = { i \in DOMAIN log : status[log[i].txn] = "active" /\ log[i].type \in DataTypes }
    BY <2>2, <2>3, <2>4 DEF Undo
  <2> QED BY <2>2, <2>5, <2>6
<1>4. IInv => LocksTypeOK
  BY DEF IInv
<1> QED BY <1>1, <1>2, <1>3, <1>4, Invariance, PTL DEF Spec
=============================================================================
