---------------------------- MODULE NosqlCluster ----------------------------
(***************************************************************************)
(* What mini-nosql-store has for many nodes: the ring of hashes that gives *)
(* a key its replicas, with quorums over them, and the hints kept for a    *)
(* node that is away (nosql_hash.c, kinds "ring" and "hints"), and hash    *)
(* trees that compare two replicas (nosql_verify.c, kind "merkle").        *)
(* Hashes of the ring are given by constants, no two alike.  Those of a    *)
(* tree are terms; a leaf's is a term of the part of its data that the     *)
(* hash sees.                                                              *)
(***************************************************************************)
EXTENDS Handle, Integers, FiniteSets, SequencesExt, TLC

CONSTANTS RingPlaces,      \* the hashes of the virtual nodes of each node, by name
          RingKeys,        \* keys, which are their hashes
          RingMaxNodes,    \* HASH_RING_MAX_NODES
          RingReplicas,    \* replication_factor
          RingSteps,       \* bound on the changes and the writes
          HintTargets, HintMax, HintRooms,  \* nodes, bound on hints, rooms to drain into
          LeafData,   \* pairs: what is hashed, and what the length takes the place of
          LeafMax     \* MERKLE_MAX_LEAVES

-----------------------------------------------------------------------------
(* The ring.  A place of it has the hash of a virtual node and the index of *)
(* its node.                                                                *)

RingNames == DOMAIN RingPlaces
VnodesOf(nodes, n) ==
  IF ~nodes[n].active THEN <<>>
  ELSE LET places == RingPlaces[nodes[n].name]
       IN  [v \in DOMAIN places |-> [hash |-> places[v], node |-> n]]
RingOf(nodes) ==
  SortSeq(FlattenSeq([n \in DOMAIN nodes |-> VnodesOf(nodes, n)]), LAMBDA x, y : x.hash < y.hash)

IndexOfName(nodes, name) == SelectInSeq(nodes, LAMBDA n : n.name = name)

\* The first place from lo to hi whose hash is not below the key.
RECURSIVE Clockwise(_, _, _, _)
Clockwise(ring, key, lo, hi) ==
  LET mid == lo + (hi - lo) \div 2
  IN  IF lo > hi THEN lo
      ELSE IF ring[mid].hash < key THEN Clockwise(ring, key, mid + 1, hi)
      ELSE Clockwise(ring, key, lo, mid - 1)
StartOn(ring, key) ==
  LET lo == Clockwise(ring, key, 1, Len(ring)) IN IF lo <= Len(ring) THEN lo ELSE 1

Locate(ring, key) == IF ring = <<>> THEN 0 ELSE ring[StartOn(ring, key)].node

\* Slip: two virtual nodes of one node count as two replicas.
ReplicasWithin(ring, key, max) ==
  FoldLeft(LAMBDA found, i :
             IF Len(found) = max THEN found
             ELSE Append(found, ring[((StartOn(ring, key) - 1 + i) % Len(ring)) + 1].node),
           <<>>, [i \in DOMAIN ring |-> i - 1])

\* The nodes met on the way around, each once.
Replicas(ring, key, max) ==
  FoldLeft(LAMBDA found, i :
             LET n == ring[((StartOn(ring, key) - 1 + i) % Len(ring)) + 1].node
             IN  IF Len(found) = max \/ n \in ToSet(found) THEN found ELSE Append(found, n),
           <<>>, [i \in DOMAIN ring |-> i - 1])
ReplicasOf(h, key)    == Replicas(h.ring, key, RingReplicas)
ReplicaNames(h, key)  == {h.nodes[n].name : n \in ToSet(ReplicasOf(h, key))}

Majority == RingReplicas \div 2 + 1
\* A write counts on the nodes that are active; a read asks them.
ActiveReplicas(h, key) == SelectSeq(ReplicasOf(h, key), LAMBDA n : h.nodes[n].active)
Answers(h, key, quorum) ==
  Len(ReplicasOf(h, key)) >= quorum /\ Len(ActiveReplicas(h, key)) >= quorum

\* wrote: which nodes have the last write of a key; since: the changes of members after it.
NewRing == [kind |-> "ring", nodes |-> <<>>, ring |-> <<>>, steps |-> 0,
            wrote |-> [k \in RingKeys |-> {}], since |-> [k \in RingKeys |-> 0]]

Members(nodes) ==
  /\ handle.steps < RingSteps
  /\ handle' = [handle EXCEPT !.nodes = nodes, !.ring = RingOf(nodes), !.steps = @ + 1,
                              !.since = [k \in RingKeys |-> @[k] + 1]]

AddNode(name) ==
  /\ Len(handle.nodes) < RingMaxNodes /\ IndexOfName(handle.nodes, name) = 0
  /\ Members(Append(handle.nodes, [name |-> name, active |-> TRUE, keys |-> 0]))

\* The last node takes the place of the one that goes.
RemoveNode(name) ==
  LET i == IndexOfName(handle.nodes, name)
  IN  i # 0 /\ Members(Front([handle.nodes EXCEPT ![i] = Last(handle.nodes)]))

SetNodeActive(name, active) ==
  LET i == IndexOfName(handle.nodes, name)
  IN  i # 0 /\ Members([handle.nodes EXCEPT ![i].active = active])

QuorumWrite(key, quorum) ==
  /\ handle.steps < RingSteps /\ Answers(handle, key, quorum)
  /\ handle' = [handle EXCEPT
       !.nodes = [n \in DOMAIN @ |-> IF n \in ToSet(ActiveReplicas(handle, key))
                                     THEN [@[n] EXCEPT !.keys = @ + 1] ELSE @[n]],
       !.steps = @ + 1, !.since[key] = 0,
       !.wrote[key] = {handle.nodes[n].name : n \in ToSet(ActiveReplicas(handle, key))}]

-----------------------------------------------------------------------------
(* Hints, the newest in front.  A hint is the number of the write it is for. *)

NewHints == [kind |-> "hints", list |-> <<>>, count |-> 0, made |-> 0,
             targets |-> <<>>, given |-> [t \in HintTargets |-> <<>>]]

AddHint(target) ==
  /\ handle.made < HintMax
  /\ handle' = [handle EXCEPT !.list = <<[target |-> target, write |-> handle.made + 1]>> \o @,
                              !.count = @ + 1, !.made = @ + 1, !.targets = Append(@, target)]

\* As many hints for the target as there is room, from the front.
Drained(list, target, room) ==
  LET mine == SelectSeq(list, LAMBDA e : e.target = target)
  IN  SubSeq(mine, 1, IF Len(mine) < room THEN Len(mine) ELSE room)
HintsLeft(list, target, room) ==
  SelectSeq(list, LAMBDA e : e \notin ToSet(Drained(list, target, room)))
DrainHints(target, room) ==
  LET got == Drained(handle.list, target, room)
  IN  handle' = [handle EXCEPT !.list = HintsLeft(@, target, room),
                               !.count = @ - Len(got),
                               !.given[target] = @ \o [i \in DOMAIN got |-> got[i].write]]

-----------------------------------------------------------------------------
(* Hash trees: the leaves, then one level after the other up to the root.   *)

\* The length is written over the last bytes of the last block: where more than 56 bytes
\* of data are in it, those behind are not in the hash.
LeafHash(data) == <<"leaf", data[1]>>
HashPair(x, y) == <<"pair", x, y>>

\* The last of an odd level goes up as it is.
RECURSIVE LevelsFrom(_, _, _)
LevelsFrom(nodes, start, size) ==
  IF size <= 1 THEN nodes
  ELSE LET parents == [p \in 1..((size + 1) \div 2) |->
                         IF 2 * p <= size
                         THEN HashPair(nodes[start + 2 * p - 1], nodes[start + 2 * p])
                         ELSE nodes[start + 2 * p - 1]]
       IN  LevelsFrom(nodes \o parents, start + size, Len(parents))

NewMerkle == [leaves |-> <<>>, nodes |-> <<>>, built |-> <<>>]
LeafAdded(t, data) == [t EXCEPT !.leaves = Append(@, data)]
MerkleBuilt(t) ==
  [t EXCEPT !.built = t.leaves,
            !.nodes = LevelsFrom([i \in DOMAIN t.leaves |-> LeafHash(t.leaves[i])], 0, Len(t.leaves))]
MerkleRoot(t) == Last(t.nodes)

\* The brothers of a leaf on its way up; pos counts from 0 in its level.
RECURSIVE ProofFrom(_, _, _, _)
ProofFrom(nodes, start, size, pos) ==
  IF size <= 1 THEN <<>>
  ELSE (IF pos % 2 = 1 THEN <<[hash |-> nodes[start + pos], right |-> FALSE]>>
        ELSE IF pos + 1 < size THEN <<[hash |-> nodes[start + pos + 2], right |-> TRUE]>>
        ELSE <<>>)
       \o ProofFrom(nodes, start + size, (size + 1) \div 2, pos \div 2)
GenerateProof(t, leaf) == ProofFrom(t.nodes, 0, Len(t.leaves), leaf - 1)
VerifyProof(root, data, proof) ==
  FoldLeft(LAMBDA h, p : IF p.right THEN HashPair(h, p.hash) ELSE HashPair(p.hash, h),
           LeafHash(data), proof) = root

\* Equal roots end the comparison; else leaf by leaf, and those one tree has more.
TreeDiff(a, b, max) ==
  IF a.nodes = <<>> \/ b.nodes = <<>> \/ MerkleRoot(a) = MerkleRoot(b) THEN <<>>
  ELSE LET long  == IF Len(a.leaves) > Len(b.leaves) THEN a.leaves ELSE b.leaves
           short == IF Len(a.leaves) > Len(b.leaves) THEN b.leaves ELSE a.leaves
           diff  == SelectSeq([i \in DOMAIN long |-> i],
                              LAMBDA i : i > Len(short) \/ LeafHash(long[i]) # LeafHash(short[i]))
       IN  SubSeq(diff, 1, IF Len(diff) < max THEN Len(diff) ELSE max)

NewMerkles == [kind |-> "merkle", a |-> NewMerkle, b |-> NewMerkle]
AddLeafA(data) == /\ Len(handle.a.leaves) < LeafMax
                  /\ handle' = [handle EXCEPT !.a = LeafAdded(@, data)]
AddLeafB(data) == /\ Len(handle.b.leaves) < LeafMax
                  /\ handle' = [handle EXCEPT !.b = LeafAdded(@, data)]
BuildA == handle.a.leaves # <<>> /\ handle' = [handle EXCEPT !.a = MerkleBuilt(@)]
BuildB == handle.b.leaves # <<>> /\ handle' = [handle EXCEPT !.b = MerkleBuilt(@)]

-----------------------------------------------------------------------------
ClusterInit == handle \in {NewRing, NewHints, NewMerkles}
ClusterNext ==
  \/ Holding("ring") /\ \E n \in RingNames : AddNode(n)
  \/ Holding("ring") /\ \E n \in RingNames : RemoveNode(n)
  \/ Holding("ring") /\ \E n \in RingNames, up \in BOOLEAN : SetNodeActive(n, up)
  \/ Holding("ring") /\ \E k \in RingKeys, q \in {1, Majority, RingReplicas} : QuorumWrite(k, q)
  \/ Holding("hints") /\ \E t \in HintTargets : AddHint(t)
  \/ Holding("hints") /\ \E t \in HintTargets, r \in HintRooms : DrainHints(t, r)
  \/ Holding("merkle") /\ \E d \in LeafData : AddLeafA(d)
  \/ Holding("merkle") /\ \E d \in LeafData : AddLeafB(d)
  \/ Holding("merkle") /\ BuildA
  \/ Holding("merkle") /\ BuildB

-----------------------------------------------------------------------------
(* A key is on the first active node clockwise from its hash, and its replicas are as
   many different active nodes as there are, up to the factor.  A node that comes takes
   keys only to itself, and one that goes gives away only its own.  A read that reaches
   its quorum asks all nodes that have the last write but one for each change of the
   members since: hash_ring_locate, hash_ring_get_replicas and the quorums. *)
RingKeepsReplicas ==
  Holding("ring") =>
    LET up == {n \in DOMAIN handle.nodes : handle.nodes[n].active}
        Gap(n, k) == LET p == RingPlaces[handle.nodes[n].name]
                         away == {IF p[v] >= k THEN p[v] - k ELSE p[v] - k + 1000 : v \in DOMAIN p}
                     IN  CHOOSE d \in away : \A e \in away : d <= e
        OwnerIn(ns, k) == LET at == Locate(RingOf(ns), k) IN IF at = 0 THEN {} ELSE {ns[at].name}
    IN  \A k \in RingKeys :
          LET reps == ReplicasOf(handle, k)
          IN  /\ up # {} => /\ Locate(handle.ring, k) \in up
                            /\ \A n \in up : Gap(Locate(handle.ring, k), k) <= Gap(n, k)
                            /\ Head(reps) = Locate(handle.ring, k)
              /\ IsInjective(reps) /\ ToSet(reps) \subseteq up
              /\ Len(reps) = IF Cardinality(up) < RingReplicas THEN Cardinality(up) ELSE RingReplicas
              /\ \A i \in 1..Len(reps), n \in up \ ToSet(reps) : Gap(reps[i], k) <= Gap(n, k)
              /\ \A n \in up :
                   LET before == OwnerIn([handle.nodes EXCEPT ![n].active = FALSE], k)
                       name   == handle.nodes[n].name
                   IN  OwnerIn(handle.nodes, k) \in {before, {name}}
              /\ (\E q \in 1..RingReplicas : Answers(handle, k, q)) =>
                   Cardinality(handle.wrote[k] \ ReplicaNames(handle, k)) <= handle.since[k]

(* Every hint is kept until it is given, once and to the node it was made for, the newest
   of a drain first; a drain gives as many as there is room for, and with room for all of
   a node's it leaves none: handoff_store_add and handoff_store_drain. *)
HintsArriveOnce ==
  Holding("hints") =>
    /\ handle.count = Len(handle.list)
    /\ \A w \in 1..handle.made :
         Cardinality({i \in DOMAIN handle.list : handle.list[i].write = w})
           + Cardinality({<<t, i>> \in HintTargets \X (1..HintMax) :
                            i <= Len(handle.given[t]) /\ handle.given[t][i] = w}) = 1
    /\ \A i \in DOMAIN handle.list : handle.list[i].target = handle.targets[handle.list[i].write]
    /\ \A t \in HintTargets : \A i \in DOMAIN handle.given[t] : handle.targets[handle.given[t][i]] = t
    /\ \A i, j \in DOMAIN handle.list : i < j => handle.list[i].write > handle.list[j].write
    /\ \A t \in HintTargets, r \in HintRooms :
         LET For(list) == Cardinality({i \in DOMAIN list : list[i].target = t})
             left      == HintsLeft(handle.list, t, r)
         IN  /\ Len(handle.list) - Len(left) = For(handle.list) - For(left)
             /\ For(left) = IF For(handle.list) <= r THEN 0 ELSE For(handle.list) - r

(* The root is that of the leaves at the last build.  Of a tree built since its last
   leaf, each leaf has a proof that shows its data to be in it, and other data only if
   the hash sees no difference; two such trees differ exactly where the hashes of their
   leaves do, so what differs only under the length is not found: nosql_verify.c. *)
MerkleFindsDifferences ==
  Holding("merkle") =>
    LET Fresh(t) == t.leaves = t.built /\ t.built # <<>>
        a == handle.a
        b == handle.b
        longer == IF Len(a.leaves) > Len(b.leaves) THEN Len(a.leaves) ELSE Len(b.leaves)
        Seen(d, e) == d[1] # e[1]
        differ == {i \in 1..longer : \/ i > Len(a.leaves) \/ i > Len(b.leaves)
                                     \/ Seen(a.leaves[i], b.leaves[i])}
    IN  /\ \A t \in {a, b} :
             /\ t.built # <<>> => MerkleRoot(t) = MerkleRoot(MerkleBuilt([t EXCEPT !.leaves = t.built]))
             /\ Fresh(t) => \A i \in DOMAIN t.leaves, d \in LeafData :
                              VerifyProof(MerkleRoot(t), d, GenerateProof(t, i)) = ~Seen(d, t.leaves[i])
        /\ (Fresh(a) /\ Fresh(b)) =>
             /\ ToSet(TreeDiff(a, b, LeafMax)) = differ
             /\ IsPrefix(TreeDiff(a, b, 1), TreeDiff(a, b, LeafMax))
             /\ (differ # {}) = (TreeDiff(a, b, 1) # <<>>)
=============================================================================
