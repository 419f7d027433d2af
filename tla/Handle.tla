------------------------------- MODULE Handle -------------------------------
(***************************************************************************)
(* Every library of the repository hands its caller a pointer to one       *)
(* structure (an LSMTree, a SkipList, a SnapshotManager, ...), every       *)
(* function takes that pointer, and structures of different libraries      *)
(* never meet.  A state of the modules that extend this one is therefore   *)
(* one handle: a record with the fields of the C structure, a field "kind" *)
(* that names the structure, and what its caller did with it.              *)
(***************************************************************************)
EXTENDS Integers, FiniteSets

VARIABLE handle

Holding(kind) == handle.kind = kind

-----------------------------------------------------------------------------
(* Helpers of the structures that keep things in order, and of loops.       *)

\* The members of a finite set of numbers, the smallest first.
Ordered(S) ==
  [n \in 1..Cardinality(S) |-> CHOOSE x \in S : Cardinality({y \in S : y < x}) = n - 1]

\* What a sequence has at some of its places, in its order.
Those(s, places) == LET p == Ordered(places) IN [n \in DOMAIN p |-> s[p[n]]]
\* One of two members of a sequence stands before the other.
Precedes(s, x, y) == \E i, j \in DOMAIN s : i < j /\ s[i] = x /\ s[j] = y

\* What a number of steps make of something.
Iterated(n, Step(_), start) ==
  LET After[i \in 0..n] == IF i = 0 THEN start ELSE Step(After[i - 1]) IN After[n]
=============================================================================
