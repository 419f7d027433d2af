----------------------------- MODULE LeastNumber -----------------------------
(***************************************************************************)
(* The least-number principle: Min and Max of FiniteSetsExt are what their *)
(* names say, what holds at 0 and at each next number holds up to n,       *)
(* FlattenSeq, a fold over 1 .. n and what is repeated n times are made in *)
(* steps, and a finite set of numbers has one ranking.                     *)
(***************************************************************************)
EXTENDS Integers, FiniteSets, FiniteSetsExt, SequencesExt, FiniteSetTheorems,
        SequenceTheorems, WellFoundedInduction, TLAPS

(* A set of numbers has a smallest one.                                    *)
LEMMA LeastExists ==
    ASSUME NEW S \in SUBSET Nat, S # {}
    PROVE  \E n \in S : \A m \in S : n <= m
<1>1. PICK k \in S : TRUE
  OBVIOUS
<1> DEFINE Below(m) == 0 .. m - 1
           T == { Below(m) : m \in { j \in S : j <= k } }
<1>2. T \subseteq SUBSET (0 .. k) /\ T # {}
  <2>1. \A m \in { j \in S : j <= k } : Below(m) \in SUBSET (0 .. k)
    BY <1>1
  <2>2. k \in { j \in S : j <= k }
    BY <1>1
  <2> QED BY <2>1, <2>2
<1>3. PICK x \in T : \A y \in T : <<y, x>> \notin StrictSubsetOrdering(0 .. k)
  <2> HIDE DEF T
  <2>1. IsFiniteSet(0 .. k)
    BY <1>1, FS_Interval
  <2>2. IsWellFoundedOn(StrictSubsetOrdering(0 .. k), SUBSET (0 .. k))
    BY <2>1, FS_StrictSubsetOrderingWellFounded, FS_FiniteSubsetsOfFinite
  <2> QED BY <1>2, <2>2, WFMin
<1>4. PICK n \in S : n <= k /\ x = Below(n)
  OBVIOUS
<1>5. ASSUME NEW m \in S, m < n PROVE FALSE
  <2>1. Below(m) \in T /\ Below(m) \subseteq x /\ Below(m) # x
    <3>1. m \in Below(n) /\ m \notin Below(m)
      BY <1>5
    <3> QED BY <1>1, <1>4, <1>5, <3>1
  <2>2. x \in SUBSET (0 .. k) /\ Below(m) \in SUBSET (0 .. k)
    BY <1>2, <2>1
  <2> QED BY <1>3, <2>1, <2>2 DEF StrictSubsetOrdering
<1> QED BY <1>5

(* Induction with a set in the place of a predicate.                       *)
LEMMA InductionUpTo ==
    ASSUME NEW n \in Nat, NEW P, 0 \in P, \A k \in 1 .. n : k - 1 \in P => k \in P
    PROVE  \A k \in 0 .. n : k \in P
<1> DEFINE Bad == { k \in 0 .. n : k \notin P }
<1> SUFFICES ASSUME Bad # {} PROVE FALSE
  OBVIOUS
<1>1. PICK k \in Bad : \A j \in Bad : k <= j
  <2>1. Bad \in SUBSET Nat
    OBVIOUS
  <2> HIDE DEF Bad
  <2> QED BY <2>1, LeastExists
<1>2. k \in 0 .. n /\ k \notin P
  BY <1>1
<1>3. k \in 1 .. n
  BY <1>2
<1>4. k - 1 \in 0 .. n /\ k - 1 \notin Bad
  <2>1. k - 1 \in 0 .. n /\ ~(k <= k - 1)
    BY <1>3
  <2> HIDE DEF Bad
  <2> QED BY <1>1, <2>1
<1>5. k - 1 \in P
  BY <1>4
<1> QED BY <1>2, <1>3, <1>5

(* The same from the top down.                                             *)
LEMMA InductionDown ==
    ASSUME NEW n \in Nat, NEW P, n + 1 \in P, \A k \in 1 .. n : k + 1 \in P => k \in P
    PROVE  \A k \in 1 .. n + 1 : k \in P
<1> DEFINE Q == { k \in 0 .. n : n + 1 - k \in P }
<1>1. 0 \in Q
  OBVIOUS
<1>2. ASSUME NEW k \in 1 .. n, k - 1 \in Q PROVE k \in Q
  <2>1. n + 1 - k \in 1 .. n /\ (n + 1 - k) + 1 = n + 1 - (k - 1) /\ k \in 0 .. n
    OBVIOUS
  <2>2. (n + 1 - k) + 1 \in P
    BY <1>2, <2>1
  <2> QED BY <2>1, <2>2
<1>3. \A k \in 0 .. n : k \in Q
  <2> HIDE DEF Q
  <2> QED BY <1>1, <1>2, InductionUpTo
<1> SUFFICES ASSUME NEW k \in 1 .. n + 1 PROVE k \in P
  OBVIOUS
<1>4. n + 1 - k \in 0 .. n /\ n + 1 - (n + 1 - k) = k
  OBVIOUS
<1>5. n + 1 - (n + 1 - k) \in P
  BY <1>3, <1>4
<1> QED BY <1>4, <1>5

(* Min is a member, and the smallest one.                                  *)
LEMMA MinIsMember ==
    ASSUME NEW S \in SUBSET Nat, S # {}
    PROVE  Min(S) \in S /\ \A m \in S : Min(S) <= m
<1>1. PICK n \in S : \A m \in S : n <= m
  BY LeastExists
<1> QED BY <1>1 DEF Min

(* A set of numbers with an upper bound has a greatest one.                *)
LEMMA GreatestExists ==
    ASSUME NEW k \in Nat, NEW S \in SUBSET (0 .. k), S # {}
    PROVE  \E n \in S : \A m \in S : m <= n
<1> DEFINE T == { k - m : m \in S }
<1>1. T \in SUBSET Nat /\ T # {}
  <2>1. \A m \in S : k - m \in Nat
    <3>1. \A m \in S : m \in 0 .. k
      OBVIOUS
    <3> QED BY <3>1
  <2>2. PICK m \in S : TRUE
    OBVIOUS
  <2>3. k - m \in T
    OBVIOUS
  <2> QED BY <2>1, <2>3
<1>2. PICK t \in T : \A u \in T : t <= u
  <2> HIDE DEF T
  <2> QED BY <1>1, LeastExists
<1>3. PICK n \in S : t = k - n
  OBVIOUS
<1>4. ASSUME NEW m \in S PROVE m <= n
  <2>1. k - m \in T
    OBVIOUS
  <2>2. t <= k - m
    BY <1>2, <2>1
  <2> QED BY <1>3, <2>2
<1> QED BY <1>4

(* Max is a member, and the greatest one.                                  *)
LEMMA MaxIsMember ==
    ASSUME NEW k \in Nat, NEW S \in SUBSET (0 .. k), S # {}
    PROVE  Max(S) \in S /\ \A m \in S : m <= Max(S)
<1>1. PICK n \in S : \A m \in S : m <= n
  BY GreatestExists
<1>2. \A m \in S : n >= m
  BY <1>1
<1> QED BY <1>2 DEF Max

(* The larger of two numbers.                                              *)
LEMMA MaxOfTwo ==
    ASSUME NEW i \in Nat, NEW j \in Nat
    PROVE  Max({i, j}) = IF i >= j THEN i ELSE j
<1>1. \A x \in {i, j} : (\A y \in {i, j} : x >= y) => x = IF i >= j THEN i ELSE j
  OBVIOUS
<1>2. \E x \in {i, j} : \A y \in {i, j} : x >= y
  OBVIOUS
<1> QED BY <1>1, <1>2 DEF Max

(* The greatest of some numbers up to k, k among them.                     *)
LEMMA MaxOfTop ==
    ASSUME NEW k \in Nat, NEW s \in SUBSET (1 .. k), k \in s
    PROVE  Max(s) = k
<1>1. \A x \in s : (\A y \in s : x >= y) => x = k
  OBVIOUS
<1>2. \A y \in s : k >= y
  OBVIOUS
<1> QED BY <1>1, <1>2 DEF Max

(* FlattenSeq puts the parts together one after the other.                 *)
LEMMA FlattenSteps ==
    ASSUME NEW parts, NEW n \in Nat, Len(parts) = n, n # 0
    PROVE  \E f : /\ f[1] = parts[1]
                  /\ \A k \in 2 .. n : f[k] = f[k - 1] \o parts[k]
                  /\ FlattenSeq(parts) = f[n]
<1> DEFINE Step(g, i) == IF i = 1 THEN parts[i] ELSE g[i - 1] \o parts[i]
           Solves(g, k) == g = [i \in 1 .. k |-> Step(g, i)]
           f == CHOOSE g : Solves(g, n)
           P == { k \in 0 .. n : \E g : Solves(g, k) }
<1>1. FlattenSeq(parts) = f[n]
  BY DEF FlattenSeq
<1>2. 0 \in P
  <2> DEFINE g == [i \in 1 .. 0 |-> <<>>]
  <2>1. Solves(g, 0)
    OBVIOUS
  <2>2. 0 \in 0 .. n
    OBVIOUS
  <2> HIDE DEF g, Solves
  <2> QED BY <2>1, <2>2
<1>3. ASSUME NEW k \in 1 .. n, k - 1 \in P PROVE k \in P
  <2>1. k \in Nat /\ k - 1 \in Nat /\ k \in 0 .. n
    OBVIOUS
  <2>2. PICK h : Solves(h, k - 1)
    BY <1>3
  <2> DEFINE g == [i \in 1 .. k |-> IF i = k THEN Step(h, k) ELSE h[i]]
  <2>3. \A i \in 1 .. k - 1 : g[i] = h[i] /\ h[i] = Step(h, i)
    <3> TAKE i \in 1 .. k - 1
    <3>1. i \in 1 .. k /\ i # k
      BY <2>1
    <3>2. g[i] = h[i]
      BY <3>1
    <3> HIDE DEF Step, g
    <3> QED BY <2>2, <3>2
  <2>4. ASSUME NEW i \in 1 .. k PROVE g[i] = Step(g, i)
    <3>1. i = 1 \/ i - 1 \in 1 .. k - 1
      BY <2>1
    <3>2. Step(g, i) = Step(h, i)
      <4>1. i # 1 => g[i - 1] = h[i - 1]
        BY <2>3, <3>1
      <4> HIDE DEF g
      <4> QED BY <4>1
    <3>3. CASE i = k
      <4>1. g[k] = Step(h, k)
        BY <2>1
      <4> HIDE DEF g, Step
      <4> QED BY <3>2, <3>3, <4>1
    <3>4. CASE i # k
      <4>1. i \in 1 .. k - 1
        BY <2>1, <3>4
      <4> HIDE DEF g, Step
      <4> QED BY <2>3, <3>2, <4>1
    <3> QED BY <3>3, <3>4
  <2>5. g = [i \in 1 .. k |-> g[i]]
    OBVIOUS
  <2>6. Solves(g, k)
    <3> HIDE DEF g, Step
    <3> QED BY <2>4, <2>5
  <2> HIDE DEF g, Solves
  <2> QED BY <2>1, <2>6
<1>4. n \in P
  <2>1. n \in 0 .. n
    OBVIOUS
  <2> HIDE DEF P
  <2> QED BY <1>2, <1>3, <2>1, InductionUpTo
<1>5. Solves(f, n)
  <2> HIDE DEF Solves
  <2> QED BY <1>4
<1> HIDE DEF f
<1>6. \A i \in 1 .. n : f[i] = Step(f, i)
  <2> HIDE DEF Step
  <2> QED BY <1>5
<1>7. f[1] = parts[1] /\ \A k \in 2 .. n : f[k] = f[k - 1] \o parts[k]
  <2>1. 1 \in 1 .. n /\ \A k \in 2 .. n : k \in 1 .. n /\ k # 1
    OBVIOUS
  <2> QED BY <1>6, <2>1
<1> QED BY <1>1, <1>7

(* A step that stays within a set, and the function by which a fold over *)
(* 1 .. n is computed.                                                   *)
StaysIn(n, S, f) == \A k \in 1 .. n, x \in S : f[<<k, x>>] \in S
Folds(h, n, S, base, f) ==
    /\ h \in [SUBSET (1 .. n) -> S]
    /\ \A s \in SUBSET (1 .. n) :
          h[s] = IF s = {} THEN base ELSE f[<<Max(s), h[s \ {Max(s)}]>>]

(* There is such a function, so the choice in the library is of one.     *)
LEMMA FoldSolved ==
    ASSUME NEW n \in Nat, NEW S, NEW base \in S, NEW f, StaysIn(n, S, f)
    PROVE  \E h : Folds(h, n, S, base, f)
<1> USE DEF StaysIn
<1> DEFINE Step(g, s) == IF s = {} THEN base ELSE f[<<Max(s), g[s \ {Max(s)}]>>]
           Solves(g, k) == /\ g = [s \in SUBSET (1 .. k) |-> Step(g, s)]
                           /\ \A s \in SUBSET (1 .. k) : g[s] \in S
           P == { k \in 0 .. n : \E g : Solves(g, k) }
<1>1. 0 \in P
  <2> DEFINE g == [s \in SUBSET (1 .. 0) |-> base]
  <2>1. SUBSET (1 .. 0) = {{}}
    OBVIOUS
  <2>2. g = [s \in SUBSET (1 .. 0) |-> g[s]]
    OBVIOUS
  <2>3. \A s \in SUBSET (1 .. 0) : g[s] = Step(g, s) /\ g[s] \in S
    BY <2>1
  <2> HIDE DEF g, Step
  <2>4. Solves(g, 0)
    BY <2>2, <2>3
  <2> HIDE DEF Solves
  <2> QED BY <2>4
<1>2. ASSUME NEW k \in 1 .. n, k - 1 \in P PROVE k \in P
  <2>1. k - 1 \in Nat /\ k \in Nat
    OBVIOUS
  <2>2. PICK g0 : Solves(g0, k - 1)
    BY <1>2
  <2> DEFINE g == [s \in SUBSET (1 .. k) |-> IF k \in s THEN f[<<k, g0[s \ {k}]>>] ELSE g0[s]]
  <2>3. \A s \in SUBSET (1 .. k - 1) : g[s] = g0[s] /\ g0[s] = Step(g0, s) /\ g0[s] \in S
    <3> TAKE s \in SUBSET (1 .. k - 1)
    <3>1. k \notin s /\ s \in SUBSET (1 .. k)
      BY <2>1
    <3>2. g[s] = g0[s]
      BY <3>1
    <3> HIDE DEF Step, g
    <3> QED BY <2>2, <3>2
  <2>4. ASSUME NEW s \in SUBSET (1 .. k) PROVE g[s] = Step(g, s) /\ g[s] \in S
    <3>1. CASE k \in s
      <4>1. Max(s) = k
        BY <2>1, <3>1, MaxOfTop
      <4>2. s \ {k} \in SUBSET (1 .. k - 1)
        <5>1. \A x \in s \ {k} : x \in 1 .. k /\ x # k
          OBVIOUS
        <5>2. \A x \in 1 .. k : x # k => x \in 1 .. k - 1
          BY <2>1
        <5> QED BY <5>1, <5>2
      <4>3. g[s \ {k}] = g0[s \ {k}] /\ g0[s \ {k}] \in S
        BY <2>3, <4>2
      <4>4. g[s] = f[<<k, g0[s \ {k}]>>]
        BY <3>1
      <4> HIDE DEF g
      <4> QED BY <3>1, <4>1, <4>3, <4>4
    <3>2. CASE k \notin s
      <4>1. s \in SUBSET (1 .. k - 1)
        BY <2>1, <3>2
      <4>2. g[s] = g0[s] /\ g0[s] = Step(g0, s) /\ g0[s] \in S
        BY <2>3, <4>1
      <4>3. s # {} => Max(s) \in 1 .. k - 1
        <5>1. s \in SUBSET (0 .. k)
          OBVIOUS
        <5> QED BY <2>1, <4>1, <5>1, MaxIsMember
      <4>4. s # {} => g[s \ {Max(s)}] = g0[s \ {Max(s)}]
        BY <2>3, <4>1
      <4> HIDE DEF g
      <4> QED BY <4>2, <4>4
    <3> QED BY <3>1, <3>2
  <2>5. g = [s \in SUBSET (1 .. k) |-> g[s]]
    OBVIOUS
  <2>6. Solves(g, k)
    <3> HIDE DEF g, Step
    <3> QED BY <2>4, <2>5
  <2>7. k \in 0 .. n
    OBVIOUS
  <2> HIDE DEF g, Solves
  <2> QED BY <2>6, <2>7
<1>3. n \in P
  <2> HIDE DEF P
  <2> QED BY <1>1, <1>2, InductionUpTo
<1>4. PICK g : Solves(g, n)
  BY <1>3
<1>5. g \in [SUBSET (1 .. n) -> S] /\ \A s \in SUBSET (1 .. n) : g[s] = Step(g, s)
  BY <1>4
<1> QED BY <1>5 DEF Folds

(* The members of a finite set of numbers, the smallest first.            *)
Ranking(S) ==
    [n \in 1 .. Cardinality(S) |-> CHOOSE x \in S : Cardinality({y \in S : y < x}) = n - 1]

(* What Ranking gives: the numbers of the set, ascending, each of them.    *)
Ranks(S, p) ==
    /\ p \in [1 .. Cardinality(S) -> S] /\ Cardinality(S) \in Nat
    /\ \A i, j \in 1 .. Cardinality(S) : i < j => p[i] < p[j]
    /\ \A x \in S : \E i \in 1 .. Cardinality(S) : p[i] = x

LEMMA RankingRanks ==
    ASSUME NEW S \in SUBSET Int, IsFiniteSet(S)
    PROVE  Ranks(S, Ranking(S))
<1> DEFINE n == Cardinality(S)
           Below(x) == {y \in S : y < x}
           rank == [x \in S |-> Cardinality(Below(x)) + 1]
           p == Ranking(S)
<1>1. n \in Nat
  BY FS_CardinalityType
<1>2. ASSUME NEW x \in S PROVE /\ IsFiniteSet(Below(x)) /\ Cardinality(Below(x)) \in Nat
                               /\ Cardinality(Below(x)) < n
  <2>1. Below(x) \in SUBSET S /\ Below(x) # S
    OBVIOUS
  <2> HIDE DEF Below
  <2>2. IsFiniteSet(Below(x)) /\ Cardinality(Below(x)) <= n /\ Cardinality(Below(x)) # n
    BY <2>1, FS_Subset
  <2>3. Cardinality(Below(x)) \in Nat
    BY <2>2, FS_CardinalityType
  <2> QED BY <1>1, <2>2, <2>3
<1>3. ASSUME NEW x \in S, NEW z \in S, x < z PROVE Cardinality(Below(x)) < Cardinality(Below(z))
  <2>1. Below(x) \in SUBSET Below(z) /\ x \in Below(z) /\ x \notin Below(x)
    <3>1. \A y \in S : y \in Int
      OBVIOUS
    <3>2. \A y \in Below(x) : y \in Below(z)
      BY <1>3, <3>1
    <3>3. x \in Below(z) /\ x \notin Below(x)
      BY <1>3, <3>1
    <3> HIDE DEF Below
    <3> QED BY <3>2, <3>3
  <2> HIDE DEF Below
  <2>2. /\ Cardinality(Below(x)) <= Cardinality(Below(z))
        /\ Cardinality(Below(x)) # Cardinality(Below(z))
    <3>1. IsFiniteSet(Below(z))
      BY <1>2
    <3> QED BY <2>1, <3>1, FS_Subset
  <2> QED BY <1>2, <2>2
<1>4. rank \in [S -> 1 .. n] /\ \A x \in S : rank[x] = Cardinality(Below(x)) + 1
  <2> HIDE DEF Below, n
  <2> QED BY <1>1, <1>2
<1> HIDE DEF Below, rank, n
<1>5. rank \in Injection(S, 1 .. n)
  <2>1. ASSUME NEW x \in S, NEW z \in S, rank[x] = rank[z] PROVE x = z
    <3>1. Cardinality(Below(x)) = Cardinality(Below(z))
      BY <1>2, <1>4, <2>1
    <3>2. ~(x < z) /\ ~(z < x)
      BY <1>2, <1>3, <3>1
    <3>3. x \in Int /\ z \in Int
      OBVIOUS
    <3> QED BY <3>2, <3>3
  <2>2. DOMAIN rank = S
    BY <1>4
  <2>3. IsInjective(rank)
    BY <2>1, <2>2 DEF IsInjective
  <2> QED BY <1>4, <2>3 DEF Injection
<1>6. rank \in Surjection(S, 1 .. n)
  <2>1. IsFiniteSet(1 .. n) /\ Cardinality(1 .. n) = n
    BY <1>1, FS_Interval
  <2> QED BY <1>5, <2>1, FS_Injection DEF n
<1>7. ASSUME NEW i \in 1 .. n PROVE p[i] \in S /\ Cardinality(Below(p[i])) = i - 1
  <2>1. PICK x \in S : rank[x] = i
    BY <1>6 DEF Surjection
  <2>2. Cardinality(Below(x)) = i - 1
    BY <1>2, <1>4, <2>1
  <2>3. p[i] = CHOOSE y \in S : Cardinality({z \in S : z < y}) = i - 1
    BY DEF Ranking, n
  <2> HIDE DEF p
  <2> QED BY <2>2, <2>3 DEF Below
<1>8. p = [i \in 1 .. n |-> p[i]]
  BY SMTT(60) DEF Ranking, n
<1> HIDE DEF p
<1>9. p \in [1 .. n -> S]
  BY <1>7, <1>8
<1>10. ASSUME NEW x \in S PROVE \E i \in 1 .. n : p[i] = x
  <2> DEFINE i == Cardinality(Below(x)) + 1
  <2>1. i \in 1 .. n
    BY <1>1, <1>2
  <2>2. p[i] \in S /\ Cardinality(Below(p[i])) = Cardinality(Below(x))
    BY <1>2, <1>7, <2>1
  <2>3. ~(p[i] < x) /\ ~(x < p[i])
    <3> DEFINE y == p[i]
    <3>1. y \in S /\ Cardinality(Below(y)) = Cardinality(Below(x)) /\ Cardinality(Below(x)) \in Nat
      BY <1>2, <2>2
    <3> HIDE DEF y
    <3>2. (y < x => Cardinality(Below(y)) < Cardinality(Below(x)))
          /\ (x < y => Cardinality(Below(x)) < Cardinality(Below(y)))
      BY <1>3, <3>1
    <3>3. ~(y < x) /\ ~(x < y)
      BY <3>1, <3>2
    <3> QED BY <3>3 DEF y
  <2>4. p[i] \in Int /\ x \in Int
    BY <2>2
  <2> QED BY <2>1, <2>3, <2>4
<1>11. ASSUME NEW i \in 1 .. n, NEW j \in 1 .. n, i < j PROVE p[i] < p[j]
  <2>1. p[i] \in S /\ p[j] \in S /\ Cardinality(Below(p[i])) < Cardinality(Below(p[j]))
    BY <1>7, <1>11
  <2>2. ~(p[j] < p[i]) /\ p[i] # p[j]
    <3> DEFINE x == p[i]
               y == p[j]
    <3>1. /\ x \in S /\ y \in S /\ Cardinality(Below(x)) < Cardinality(Below(y))
          /\ Cardinality(Below(x)) \in Nat /\ Cardinality(Below(y)) \in Nat
      BY <1>2, <2>1
    <3> HIDE DEF x, y
    <3>2. y < x => Cardinality(Below(y)) < Cardinality(Below(x))
      BY <1>3, <3>1
    <3>3. ~(y < x) /\ x # y
      BY <3>1, <3>2
    <3> QED BY <3>3 DEF x, y
  <2>3. p[i] \in Int /\ p[j] \in Int
    BY <2>1
  <2> QED BY <2>2, <2>3
<1> QED BY <1>1, <1>9, <1>10, <1>11 DEF Ranks, n, p

(* An ascending row that has each number of a set, and no other, is the    *)
(* one that Ranking gives.                                                 *)
LEMMA RankingSame ==
    ASSUME NEW S \in SUBSET Int, IsFiniteSet(S), NEW m \in Nat, NEW q \in [1 .. m -> S],
           \A i, j \in 1 .. m : i < j => q[i] < q[j],
           \A x \in S : \E i \in 1 .. m : q[i] = x
    PROVE  m = Cardinality(S) /\ Ranking(S) = q
<1> DEFINE p == Ranking(S)
           n == Cardinality(S)
<1>1. Ranks(S, p)
  BY RankingRanks
<1>2. m = n
  <2>1. q \in Surjection(1 .. m, S)
    BY DEF Surjection
  <2>2. q \in Injection(1 .. m, S)
    <3>1. ASSUME NEW i \in 1 .. m, NEW j \in 1 .. m, q[i] = q[j] PROVE i = j
      <4>1. ~(i < j) /\ ~(j < i)
        <5>1. q[i] \in Int /\ q[j] \in Int
          OBVIOUS
        <5>2. ~(q[i] < q[j]) /\ ~(q[j] < q[i])
          BY <3>1, <5>1
        <5> QED BY <5>2
      <4> QED BY <4>1
    <3>2. IsInjective(q)
      BY <3>1 DEF IsInjective
    <3> QED BY <3>2 DEF Injection
  <2>3. IsFiniteSet(1 .. m) /\ Cardinality(1 .. m) = m
    BY FS_Interval
  <2> QED BY <2>1, <2>2, <2>3, FS_Surjection
<1> HIDE DEF p, n
<1>3. /\ p \in [1 .. n -> S] /\ n \in Nat
      /\ \A i, j \in 1 .. n : i < j => p[i] < p[j]
      /\ \A x \in S : \E i \in 1 .. n : p[i] = x
  BY <1>1 DEF Ranks, n
<1> DEFINE P == {k \in 0 .. n : \A i \in 1 .. k : p[i] = q[i]}
<1>4. 0 \in P
  BY <1>3
<1>5. ASSUME NEW k \in 1 .. n, k - 1 \in P PROVE k \in P
  <2>1. k \in Nat /\ k \in 0 .. n /\ \A i \in 1 .. k - 1 : p[i] = q[i]
    BY <1>3, <1>5
  <2>2. PICK i \in 1 .. n : q[i] = p[k]
    BY <1>2, <1>3
  <2>3. PICK j \in 1 .. n : p[j] = q[k]
    BY <1>2, <1>3
  <2>4. ~(i < k) /\ ~(j < k)
    <3>1. i < k => p[i] = p[k] /\ p[i] < p[k]
      BY <1>3, <2>1, <2>2
    <3>2. j < k => q[j] = q[k] /\ q[j] < q[k]
      BY <1>2, <1>3, <2>1, <2>3
    <3>3. p[k] \in Int /\ q[k] \in Int
      BY <1>2, <1>3
    <3> QED BY <3>1, <3>2, <3>3
  <2>5. p[k] = q[k]
    <3>1. p[k] \in Int /\ q[k] \in Int /\ p[j] \in Int /\ q[i] \in Int
      BY <1>2, <1>3
    <3>2. (j > k => p[k] < p[j]) /\ (i > k => q[k] < q[i])
      BY <1>2, <1>3
    <3> QED BY <2>2, <2>3, <2>4, <3>1, <3>2
  <2>6. \A l \in 1 .. k : l = k \/ l \in 1 .. k - 1
    BY <2>1
  <2> QED BY <2>1, <2>5, <2>6
<1>6. n \in P
  <2>1. n \in 0 .. n
    BY <1>3
  <2> HIDE DEF P
  <2> QED BY <1>3, <1>4, <1>5, <2>1, InductionUpTo
<1>7. p = q
  <2>1. \A i \in 1 .. n : p[i] = q[i]
    BY <1>6
  <2>2. p = [i \in 1 .. n |-> p[i]] /\ q = [i \in 1 .. n |-> q[i]]
    BY <1>2, <1>3
  <2> QED BY <2>1, <2>2
<1> QED BY <1>2, <1>7 DEF p, n

(* A row of rows, flattened, and one row more.                             *)
LEMMA FlattenType ==
    ASSUME NEW S, NEW parts \in Seq(Seq(S))
    PROVE  FlattenSeq(parts) \in Seq(S)
<1> DEFINE n == Len(parts)
<1>1. n \in Nat /\ \A k \in 1 .. n : parts[k] \in Seq(S)
  OBVIOUS
<1>2. CASE n = 0
  <2>1. parts = <<>>
    BY <1>2
  <2> QED BY <2>1 DEF FlattenSeq
<1>3. CASE n # 0
  <2>1. PICK f : /\ f[1] = parts[1]
                 /\ \A k \in 2 .. n : f[k] = f[k - 1] \o parts[k]
                 /\ FlattenSeq(parts) = f[n]
    BY <1>1, <1>3, FlattenSteps
  <2> DEFINE P == {k \in 0 .. n : k # 0 => f[k] \in Seq(S)}
  <2> HIDE DEF n
  <2>2. 0 \in P
    BY <1>1
  <2>3. ASSUME NEW k \in 1 .. n, k - 1 \in P PROVE k \in P
    <3>1. k \in 0 .. n /\ parts[k] \in Seq(S)
      BY <1>1
    <3>2. CASE k = 1
      BY <2>1, <3>1, <3>2
    <3>3. CASE k # 1
      <4>1. k \in 2 .. n /\ k - 1 # 0
        BY <1>1, <3>3
      <4>2. f[k - 1] \in Seq(S) /\ f[k] = f[k - 1] \o parts[k]
        BY <2>1, <2>3, <4>1
      <4>3. f[k] \in Seq(S)
        BY <3>1, <4>2
      <4> QED BY <3>1, <4>3
    <3> QED BY <3>2, <3>3
  <2>4. n \in P
    <3>1. n \in 0 .. n
      BY <1>1
    <3> HIDE DEF P
    <3> QED BY <1>1, <2>2, <2>3, <3>1, InductionUpTo
  <2> QED BY <1>3, <2>1, <2>4
<1> QED BY <1>2, <1>3

LEMMA FlattenMore ==
    ASSUME NEW S, NEW parts \in Seq(Seq(S)), NEW x \in Seq(S)
    PROVE  FlattenSeq(Append(parts, x)) = FlattenSeq(parts) \o x
<1> DEFINE n == Len(parts)
           more == Append(parts, x)
<1>1. /\ n \in Nat /\ more \in Seq(Seq(S)) /\ Len(more) = n + 1 /\ more[n + 1] = x
      /\ \A k \in 1 .. n : more[k] = parts[k] /\ parts[k] \in Seq(S)
  OBVIOUS
<1> HIDE DEF more
<1>2. PICK f : /\ f[1] = more[1]
               /\ \A k \in 2 .. n + 1 : f[k] = f[k - 1] \o more[k]
               /\ FlattenSeq(more) = f[n + 1]
  <2>1. n + 1 \in Nat /\ n + 1 # 0
    BY <1>1
  <2> QED BY <1>1, <2>1, FlattenSteps
<1>3. CASE n = 0
  <2>1. parts = <<>> /\ FlattenSeq(parts) = <<>>
    <3>1. parts = <<>>
      BY <1>3
    <3> QED BY <3>1 DEF FlattenSeq
  <2>2. <<>> \o x = x
    OBVIOUS
  <2>3. FlattenSeq(more) = x
    BY <1>1, <1>2, <1>3
  <2> QED BY <2>1, <2>2, <2>3 DEF more
<1>4. CASE n # 0
  <2>1. PICK g : /\ g[1] = parts[1]
                 /\ \A k \in 2 .. n : g[k] = g[k - 1] \o parts[k]
                 /\ FlattenSeq(parts) = g[n]
    BY <1>1, <1>4, FlattenSteps
  <2> DEFINE P == {k \in 0 .. n : k # 0 => f[k] = g[k]}
  <2> HIDE DEF n
  <2>2. 0 \in P
    BY <1>1
  <2>3. ASSUME NEW k \in 1 .. n, k - 1 \in P PROVE k \in P
    <3>1. k \in 0 .. n /\ more[k] = parts[k]
      <4>1. k \in 0 .. n
        BY <1>1
      <4>2. more[k] = parts[k]
        BY <1>1
      <4> QED BY <4>1, <4>2
    <3>2. CASE k = 1
      BY <1>2, <2>1, <3>1, <3>2
    <3>3. CASE k # 1
      <4>1. k \in 2 .. n /\ k \in 2 .. n + 1 /\ k - 1 # 0
        BY <1>1, <3>3
      <4>2. f[k - 1] = g[k - 1]
        BY <2>3, <4>1
      <4> QED BY <1>2, <2>1, <3>1, <4>1, <4>2
    <3> QED BY <3>2, <3>3
  <2>4. n \in P
    <3>1. n \in 0 .. n
      BY <1>1
    <3> HIDE DEF P
    <3> QED BY <1>1, <2>2, <2>3, <3>1, InductionUpTo
  <2>5. n + 1 \in 2 .. n + 1 /\ (n + 1) - 1 = n
    BY <1>1, <1>4
  <2>6. f[n + 1] = f[n] \o x
    BY <1>1, <1>2, <2>5
  <2> QED BY <1>2, <1>4, <2>1, <2>4, <2>6 DEF more
<1> QED BY <1>3, <1>4

LEMMA FlattenTwo ==
    ASSUME NEW S, NEW a \in Seq(Seq(S)), NEW b \in Seq(Seq(S))
    PROVE  FlattenSeq(a \o b) = FlattenSeq(a) \o FlattenSeq(b)
<1> DEFINE n == Len(b)
           B(k) == SubSeq(b, 1, k)
           P == {k \in 0 .. n : FlattenSeq(a \o B(k)) = FlattenSeq(a) \o FlattenSeq(B(k))}
<1>1. n \in Nat
  OBVIOUS
<1>2. \A k \in 0 .. n : B(k) \in Seq(Seq(S)) /\ Len(B(k)) = k
  OBVIOUS
<1>3. 0 \in P
  <2>1. B(0) = <<>> /\ a \o <<>> = a /\ 0 \in 0 .. n
    BY <1>1
  <2>2. FlattenSeq(<<>>) = <<>>
    BY DEF FlattenSeq
  <2>3. FlattenSeq(a) \o <<>> = FlattenSeq(a)
    <3>1. FlattenSeq(a) \in Seq(S)
      BY FlattenType
    <3> QED BY <3>1
  <2> HIDE DEF B, n
  <2> QED BY <2>1, <2>2, <2>3
<1>4. ASSUME NEW k \in 1 .. n, k - 1 \in P PROVE k \in P
  <2> DEFINE c == B(k - 1)
             x == b[k]
  <2>1. k \in 0 .. n /\ k - 1 \in 0 .. n /\ x \in Seq(S)
    OBVIOUS
  <2>2. c \in Seq(Seq(S)) /\ B(k) = Append(c, x)
    OBVIOUS
  <2>3. FlattenSeq(a \o c) = FlattenSeq(a) \o FlattenSeq(c)
    BY <1>4
  <2> HIDE DEF c, x, B
  <2>4. a \o Append(c, x) = Append(a \o c, x) /\ a \o c \in Seq(Seq(S))
    <3> DEFINE ac == a \o c
               l == a \o Append(c, x)
               r == Append(ac, x)
    <3>1. ac \in Seq(Seq(S)) /\ Len(ac) = Len(a) + Len(c) /\ Len(a) \in Nat /\ Len(c) \in Nat
      BY <2>1, <2>2
    <3>2. l \in Seq(Seq(S)) /\ r \in Seq(Seq(S)) /\ Len(l) = Len(r)
      BY <2>1, <2>2, <3>1
    <3>3. \A i \in 1 .. Len(l) : l[i] = r[i]
      BY <2>1, <2>2, <3>1
    <3> HIDE DEF l, r
    <3>4. l = r
      BY <3>2, <3>3, SeqEqual
    <3> QED BY <3>1, <3>4 DEF l, r
  <2>5. FlattenSeq(a) \in Seq(S) /\ FlattenSeq(c) \in Seq(S)
    BY <2>2, FlattenType
  <2>6. FlattenSeq(Append(a \o c, x)) = (FlattenSeq(a) \o FlattenSeq(c)) \o x
    BY <2>1, <2>3, <2>4, FlattenMore
  <2>7. FlattenSeq(Append(c, x)) = FlattenSeq(c) \o x
    BY <2>1, <2>2, FlattenMore
  <2>8. (FlattenSeq(a) \o FlattenSeq(c)) \o x = FlattenSeq(a) \o (FlattenSeq(c) \o x)
    BY <2>1, <2>5, SMTT(60)
  <2> QED BY <2>1, <2>2, <2>4, <2>6, <2>7, <2>8
<1>5. n \in P
  <2>1. n \in 0 .. n
    BY <1>1
  <2> HIDE DEF P, n
  <2> QED BY <1>1, <1>3, <1>4, <2>1, InductionUpTo
<1>6. B(n) = b
  OBVIOUS
<1> HIDE DEF B, n
<1> QED BY <1>5, <1>6

LEMMA SetOfTwo ==
    ASSUME NEW S, NEW a \in Seq(S), NEW b \in Seq(S)
    PROVE  ToSet(a \o b) = ToSet(a) \cup ToSet(b)
<1> DEFINE c == a \o b
           x == Len(a)
           y == Len(b)
<1>1. /\ x \in Nat /\ y \in Nat /\ DOMAIN a = 1 .. x /\ DOMAIN b = 1 .. y /\ DOMAIN c = 1 .. x + y
      /\ \A i \in 1 .. x + y : c[i] = IF i <= x THEN a[i] ELSE b[i - x]
  OBVIOUS
<1> HIDE DEF c, x, y
<1>2. ASSUME NEW i \in 1 .. x + y PROVE c[i] \in ToSet(a) \cup ToSet(b)
  <2>1. CASE i <= x
    <3>1. i \in 1 .. x /\ c[i] = a[i]
      BY <1>1, <2>1
    <3> QED BY <1>1, <3>1 DEF ToSet
  <2>2. CASE ~(i <= x)
    <3>1. i - x \in 1 .. y /\ c[i] = b[i - x]
      BY <1>1, <2>2
    <3> QED BY <1>1, <3>1 DEF ToSet
  <2> QED BY <2>1, <2>2
<1>3. ASSUME NEW i \in 1 .. x PROVE a[i] \in ToSet(c)
  <2>1. i \in 1 .. x + y /\ c[i] = a[i]
    BY <1>1
  <2> QED BY <1>1, <2>1 DEF ToSet
<1>4. ASSUME NEW i \in 1 .. y PROVE b[i] \in ToSet(c)
  <2>1. x + i \in 1 .. x + y /\ ~(x + i <= x) /\ (x + i) - x = i
    BY <1>1
  <2>2. c[x + i] = b[i]
    BY <1>1, <2>1
  <2> QED BY <1>1, <2>1, <2>2 DEF ToSet
<1>5. /\ ToSet(c) = {c[i] : i \in 1 .. x + y} /\ ToSet(a) = {a[i] : i \in 1 .. x}
      /\ ToSet(b) = {b[i] : i \in 1 .. y}
  BY <1>1 DEF ToSet
<1>6. ToSet(c) = ToSet(a) \cup ToSet(b)
  BY <1>2, <1>3, <1>4, <1>5
<1> QED BY <1>6 DEF c

LEMMA SetNotLonger ==
    ASSUME NEW S, NEW s \in Seq(S)
    PROVE  /\ IsFiniteSet(ToSet(s)) /\ Cardinality(ToSet(s)) \in Nat
           /\ Cardinality(ToSet(s)) <= Len(s)
<1> DEFINE n == Len(s)
           T == ToSet(s)
<1>1. n \in Nat /\ DOMAIN s = 1 .. n /\ s = [i \in 1 .. n |-> s[i]]
  <2>1. s \in [1 .. n -> S]
    OBVIOUS
  <2> QED BY <2>1
<1>2. s \in Surjection(1 .. n, T)
  BY <1>1 DEF ToSet, Surjection
<1> HIDE DEF n, T
<1>3. IsFiniteSet(1 .. n) /\ Cardinality(1 .. n) = n
  BY <1>1, FS_Interval
<1>4. IsFiniteSet(T) /\ Cardinality(T) <= n
  BY <1>2, <1>3, FS_Surjection
<1> QED BY <1>4, FS_CardinalityType DEF n, T

(* Each row is among the flattened ones.                                   *)
LEMMA FlattenHas ==
    ASSUME NEW S, NEW parts \in Seq(Seq(S)), NEW j \in DOMAIN parts
    PROVE  ToSet(parts[j]) \subseteq ToSet(FlattenSeq(parts))
<1> DEFINE n == Len(parts)
           B(k) == SubSeq(parts, 1, k)
           P == {k \in 0 .. n : j <= k => ToSet(parts[j]) \subseteq ToSet(FlattenSeq(B(k)))}
<1>1. n \in Nat /\ j \in 1 .. n
  OBVIOUS
<1>2. 0 \in P
  BY <1>1
<1>3. ASSUME NEW k \in 1 .. n, k - 1 \in P PROVE k \in P
  <2> DEFINE c == B(k - 1)
             x == parts[k]
             f == FlattenSeq(c)
  <2>1. k \in 0 .. n /\ x \in Seq(S) /\ c \in Seq(Seq(S)) /\ B(k) = Append(c, x)
    OBVIOUS
  <2>2. j <= k - 1 => ToSet(parts[j]) \subseteq ToSet(f)
    BY <1>3
  <2> HIDE DEF c, B
  <2>3. FlattenSeq(B(k)) = f \o x /\ f \in Seq(S)
    BY <2>1, FlattenMore, FlattenType
  <2> HIDE DEF f
  <2>4. ToSet(f \o x) = ToSet(f) \cup ToSet(x)
    BY <2>1, <2>3, SetOfTwo
  <2>5. j <= k => j <= k - 1 \/ j = k
    BY <1>1, <2>1
  <2> QED BY <2>1, <2>2, <2>3, <2>4, <2>5
<1>4. n \in P
  <2>1. n \in 0 .. n
    BY <1>1
  <2> HIDE DEF P, n
  <2> QED BY <1>1, <1>2, <1>3, <2>1, InductionUpTo
<1>5. B(n) = parts
  OBVIOUS
<1> HIDE DEF B, n
<1> QED BY <1>1, <1>4, <1>5

(* A number of steps, each from where the one before led, within a set.    *)
Repeats(g, n, base, f) == g = [i \in 0 .. n |-> IF i = 0 THEN base ELSE f[g[i - 1]]]

LEMMA RepeatSolved ==
    ASSUME NEW n \in Nat, NEW S, NEW base \in S, NEW f \in [S -> S]
    PROVE  \E g \in [0 .. n -> S] : Repeats(g, n, base, f)
<1> DEFINE e == [p \in (1 .. n) \X S |-> f[p[2]]]
<1>1. \A k \in 1 .. n, x \in S : e[<<k, x>>] = f[x]
  OBVIOUS
<1> HIDE DEF e
<1>2. StaysIn(n, S, e)
  BY <1>1 DEF StaysIn
<1>3. PICK h : Folds(h, n, S, base, e)
  BY <1>2, FoldSolved
<1> DEFINE g == [k \in 0 .. n |-> h[1 .. k]]
<1>4. \A k \in 0 .. n : 1 .. k \in SUBSET (1 .. n)
  OBVIOUS
<1>5. g \in [0 .. n -> S]
  BY <1>3, <1>4 DEF Folds
<1>6. ASSUME NEW k \in 0 .. n PROVE g[k] = IF k = 0 THEN base ELSE f[g[k - 1]]
  <2>1. CASE k = 0
    <3>1. 1 .. 0 = {}
      OBVIOUS
    <3> QED BY <1>3, <1>4, <2>1, <3>1 DEF Folds
  <2>2. CASE k # 0
    <3>1. k \in 1 .. n /\ k \in Nat /\ k \in 1 .. k /\ k - 1 \in 0 .. n
      BY <2>2
    <3>2. Max(1 .. k) = k
      BY <3>1, MaxOfTop
    <3>3. (1 .. k) \ {k} = 1 .. k - 1 /\ 1 .. k # {}
      BY <3>1
    <3>4. h[1 .. k] = e[<<k, h[1 .. k - 1]>>]
      BY <1>3, <1>4, <3>2, <3>3 DEF Folds
    <3>5. h[1 .. k - 1] \in S
      BY <1>3, <1>4, <3>1 DEF Folds
    <3>6. h[1 .. k] = f[h[1 .. k - 1]]
      BY <1>1, <3>1, <3>4, <3>5
    <3> QED BY <2>2, <3>1, <3>6
  <2> QED BY <2>1, <2>2
<1> HIDE DEF g
<1>7. g = [i \in 0 .. n |-> g[i]]
  BY <1>5
<1>8. g = [i \in 0 .. n |-> IF i = 0 THEN base ELSE f[g[i - 1]]]
  BY <1>6, <1>7
<1> QED BY <1>5, <1>8 DEF Repeats

(* Whole blocks of m things, and how many of them n things fill.           *)
LEMMA BlockBounds ==
    ASSUME NEW n \in Nat, NEW m \in Nat \ {0}
    PROVE  /\ (n + m - 1) \div m \in Nat
           /\ \A i \in 1 .. (n + m - 1) \div m :
                 /\ (i - 1) * m \in Nat /\ i * m = (i - 1) * m + m /\ (i - 1) * m < n
           /\ \A j \in 1 .. n : \E i \in 1 .. (n + m - 1) \div m :
                 (i - 1) * m < j /\ j <= i * m
<1> DEFINE q == (n + m - 1) \div m
<1>1. q \in Nat /\ q * m <= n + m - 1 /\ n + m - 1 < q * m + m
  OBVIOUS
<1> HIDE DEF q
<1>2. ASSUME NEW a \in Nat, NEW b \in Nat, a <= b PROVE a * m <= b * m
  BY <1>2
<1>3. ASSUME NEW i \in 1 .. q PROVE (i - 1) * m \in Nat /\ i * m = (i - 1) * m + m /\ (i - 1) * m < n
  <2>1. i \in Nat /\ i - 1 \in Nat /\ q - 1 \in Nat /\ i - 1 <= q - 1
    BY <1>1
  <2>2. (i - 1) * m \in Nat /\ i * m = (i - 1) * m + m /\ q * m = (q - 1) * m + m /\ (q - 1) * m \in Nat
    BY <1>1, <2>1
  <2>3. (i - 1) * m <= (q - 1) * m
    BY <1>2, <2>1
  <2> QED BY <1>1, <2>2, <2>3
<1>4. ASSUME NEW j \in 1 .. n PROVE \E i \in 1 .. q : (i - 1) * m < j /\ j <= i * m
  <2> DEFINE p == (j - 1) \div m
  <2>1. j - 1 \in Nat
    OBVIOUS
  <2>2. p \in Nat /\ p * m <= j - 1 /\ j - 1 < p * m + m
    BY <2>1
  <2> HIDE DEF p
  <2>3. p + 1 \in 1 .. q
    <3> SUFFICES ASSUME q <= p PROVE FALSE
      BY <1>1, <2>2
    <3>1. q * m <= p * m /\ q * m \in Int /\ p * m \in Int
      BY <1>1, <1>2, <2>2
    <3> QED BY <1>1, <2>2, <3>1
  <2>4. (p + 1) - 1 = p /\ (p + 1) * m = p * m + m /\ p * m \in Int
    BY <2>2
  <2>5. p * m < j /\ j <= (p + 1) * m
    BY <2>2, <2>4
  <2> QED BY <2>3, <2>4, <2>5
<1> QED BY <1>1, <1>3, <1>4 DEF q

(* An entry of the flattened lists comes from one of them, from none     *)
(* before that of the entry before it, and all entries of all lists are  *)
(* there.                                                                *)
Placed(S, lists, n, all) ==
    /\ all \in Seq(S)
    /\ \E at \in [1 .. Len(all) -> 1 .. n] :
          /\ \A i \in 1 .. Len(all) : all[i] \in ToSet(lists[at[i]])
          /\ \A i, j \in 1 .. Len(all) : i <= j => at[i] <= at[j]
    /\ \A v \in 1 .. n : ToSet(lists[v]) \subseteq ToSet(all)

(* The next list is put behind those before it.                          *)
LEMMA PlacedNext ==
    ASSUME NEW S, NEW lists, NEW k \in Nat \ {0}, lists[k] \in Seq(S),
           NEW all, Placed(S, lists, k - 1, all)
    PROVE  Placed(S, lists, k, all \o lists[k])
<1> DEFINE a == Len(all)
           b == Len(lists[k])
           z == all \o lists[k]
<1>1. PICK at \in [1 .. a -> 1 .. k - 1] :
         /\ \A i \in 1 .. a : all[i] \in ToSet(lists[at[i]])
         /\ \A i, j \in 1 .. a : i <= j => at[i] <= at[j]
  BY DEF Placed
<1>2. all \in Seq(S) /\ \A v \in 1 .. k - 1 : ToSet(lists[v]) \subseteq ToSet(all)
  BY DEF Placed
<1>3. /\ a \in Nat /\ b \in Nat /\ z \in Seq(S) /\ Len(z) = a + b
      /\ \A i \in 1 .. a : z[i] = all[i]
      /\ \A i \in 1 .. b : z[a + i] = lists[k][i]
      /\ DOMAIN all = 1 .. a /\ DOMAIN (lists[k]) = 1 .. b /\ DOMAIN z = 1 .. a + b
  BY <1>2
<1> HIDE DEF a, b, z
<1> DEFINE new == [i \in 1 .. Len(z) |-> IF i <= a THEN at[i] ELSE k]
<1>4. ASSUME NEW i \in 1 .. Len(z), ~(i <= a)
      PROVE  z[i] \in ToSet(lists[k])
  <2>1. i - a \in 1 .. b /\ a + (i - a) = i
    BY <1>3, <1>4
  <2>2. z[i] = lists[k][i - a]
    BY <1>3, <2>1
  <2> QED BY <1>3, <2>1, <2>2 DEF ToSet
<1>5. \A i \in 1 .. Len(z) : i <= a => i \in 1 .. a
  BY <1>3
<1>6. \A i \in 1 .. a : at[i] \in 1 .. k - 1 /\ at[i] \in 1 .. k /\ at[i] <= k
  BY <1>1
<1>7. new \in [1 .. Len(z) -> 1 .. k]
  BY <1>5, <1>6
<1>8. \A i \in 1 .. Len(z) : z[i] \in ToSet(lists[new[i]])
  BY <1>1, <1>3, <1>4, <1>5
<1>9. ASSUME NEW i \in 1 .. Len(z), NEW j \in 1 .. Len(z), i <= j PROVE new[i] <= new[j]
  <2>1. j <= a => i <= a
    BY <1>3, <1>9
  <2> QED BY <1>1, <1>5, <1>6, <1>9, <2>1
<1>10. ASSUME NEW v \in 1 .. k PROVE ToSet(lists[v]) \subseteq ToSet(z)
  <2>1. CASE v = k
    <3>1. \A i \in 1 .. b : a + i \in 1 .. a + b /\ z[a + i] = lists[k][i]
      BY <1>3
    <3> QED BY <1>3, <2>1, <3>1 DEF ToSet
  <2>2. CASE v # k
    <3>1. v \in 1 .. k - 1
      BY <2>2
    <3>2. ToSet(all) \subseteq ToSet(z)
      <4>1. \A i \in 1 .. a : i \in 1 .. a + b
        BY <1>3
      <4> QED BY <1>3, <4>1 DEF ToSet
    <3> QED BY <1>2, <3>1, <3>2
  <2> QED BY <2>1, <2>2
<1> HIDE DEF new
<1>11. Placed(S, lists, k, z)
  BY <1>3, <1>7, <1>8, <1>9, <1>10 DEF Placed
<1> QED BY <1>11 DEF z

(* The flattened lists are all the lists in their order.                 *)
LEMMA FlattenPlaced ==
    ASSUME NEW S, NEW n \in Nat, NEW lists \in [1 .. n -> Seq(S)]
    PROVE  Placed(S, lists, n, FlattenSeq(lists))
<1>1. Len(lists) = n /\ \A k \in 1 .. n : lists[k] \in Seq(S)
  <2>1. lists \in Seq(Seq(S)) /\ DOMAIN lists = 1 .. n
    OBVIOUS
  <2> QED BY <2>1
<1>2. Placed(S, lists, 0, <<>>)
  <2> DEFINE e == <<>>
             none == [i \in 1 .. 0 |-> i]
  <2>1. e \in Seq(S) /\ Len(e) = 0 /\ none \in [1 .. 0 -> 1 .. 0] /\ 1 .. 0 = {}
    OBVIOUS
  <2> HIDE DEF e, none
  <2>2. Placed(S, lists, 0, e)
    BY <2>1 DEF Placed
  <2> QED BY <2>2 DEF e
<1>3. CASE n = 0
  <2>1. lists = <<>>
    BY <1>3
  <2>2. FlattenSeq(lists) = <<>>
    BY <2>1 DEF FlattenSeq
  <2> QED BY <1>2, <1>3, <2>2
<1>4. CASE n # 0
  <2>1. PICK f : /\ f[1] = lists[1]
                 /\ \A k \in 2 .. n : f[k] = f[k - 1] \o lists[k]
                 /\ FlattenSeq(lists) = f[n]
    BY <1>1, <1>4, FlattenSteps
  <2> DEFINE P == { k \in 0 .. n : k # 0 => Placed(S, lists, k, f[k]) }
  <2>2. 0 \in P
    OBVIOUS
  <2>3. ASSUME NEW k \in 1 .. n, k - 1 \in P PROVE k \in P
    <3>1. k \in Nat \ {0} /\ k \in 0 .. n /\ lists[k] \in Seq(S)
      BY <1>1
    <3>2. CASE k = 1
      <4>1. <<>> \o lists[1] = lists[1]
        BY <3>1, <3>2
      <4>2. Placed(S, lists, 1, <<>> \o lists[1])
        <5> DEFINE e == <<>>
        <5>1. 1 \in Nat \ {0} /\ 1 - 1 = 0 /\ lists[1] \in Seq(S)
          BY <3>1, <3>2
        <5>2. Placed(S, lists, 1 - 1, e)
          BY <1>2, <5>1
        <5> HIDE DEF e
        <5>3. Placed(S, lists, 1, e \o lists[1])
          BY <5>1, <5>2, PlacedNext
        <5> QED BY <5>3 DEF e
      <4> QED BY <2>1, <3>1, <3>2, <4>1, <4>2
    <3>3. CASE k # 1
      <4>1. k \in 2 .. n /\ k - 1 # 0
        BY <3>1, <3>3
      <4>2. Placed(S, lists, k - 1, f[k - 1]) /\ f[k] = f[k - 1] \o lists[k]
        BY <2>1, <2>3, <4>1
      <4> QED BY <3>1, <4>2, PlacedNext
    <3> QED BY <3>2, <3>3
  <2>4. n \in P
    <3>1. n \in 0 .. n
      OBVIOUS
    <3> HIDE DEF P
    <3> QED BY <2>2, <2>3, <3>1, InductionUpTo
  <2> QED BY <1>4, <2>1, <2>4
<1> QED BY <1>3, <1>4
=============================================================================
