----------------------------- MODULE BPlusTree -----------------------------
(***************************************************************************)
(* The B+tree of mini-relational-db (bptree.c).  Nodes are numbered in the *)
(* order they were allocated: a leaf has its entries and the number of the *)
(* next leaf, 0 for none; an internal node has keys and one child more.    *)
(***************************************************************************)
EXTENDS Handle, Integers, Sequences, FiniteSets, SequencesExt

CONSTANTS BpKeys, BpVals,
          BpMax,         \* BP_MAX_KEYS
          BpWrites       \* bound on insertions and deletions

Leaf(es, next) == [leaf |-> TRUE, entries |-> es, next |-> next]
Inner(ks, cs)  == [leaf |-> FALSE, keys |-> ks, children |-> cs]
NewBpTree      == [nodes |-> <<Leaf(<<>>, 0)>>, root |-> 1, count |-> 0]

\* Binary search for the first entry whose key is not below k.
RECURSIVE LeafFind(_, _, _, _)
LeafFind(es, k, lo, hi) ==
  LET mid == (lo + hi) \div 2
  IN  IF lo >= hi THEN lo
      ELSE IF es[mid].key < k THEN LeafFind(es, k, mid + 1, hi)
      ELSE LeafFind(es, k, lo, mid)

Place(es, k) == LeafFind(es, k, 1, Len(es) + 1)
Holds(es, k) == Place(es, k) <= Len(es) /\ es[Place(es, k)].key = k

\* Slip: a key that equals a separator is looked for on its left.
FindChildLeft(ks, k) == Cardinality({i \in DOMAIN ks : ks[i] < k}) + 1

FindChild(ks, k) == Cardinality({i \in DOMAIN ks : ks[i] <= k}) + 1

LeafInsertAt(es, p, k, v) == InsertAt(es, p, [key |-> k, val |-> v])

\* What an insertion below a node reports: the nodes, and the separator and the
\* number of a new right sibling if the node was split.
Done(nodes)             == [nodes |-> nodes, rc |-> "done"]
Split(nodes, sep, new)  == [nodes |-> nodes, rc |-> "split", sep |-> sep, new |-> new]
Duplicate(nodes)        == [nodes |-> nodes, rc |-> "duplicate"]

InsertLeaf(nodes, n, k, v) ==
  LET es       == nodes[n].entries
      overflow == LeafInsertAt(es, Place(es, k), k, v)
      at       == (BpMax + 1) \div 2
      right    == SubSeq(overflow, at + 1, BpMax + 1)
      new      == Len(nodes) + 1
  IN  IF Holds(es, k) THEN Duplicate(nodes)
      ELSE IF Len(es) < BpMax THEN Done([nodes EXCEPT ![n].entries = overflow])
      ELSE Split(Append([nodes EXCEPT ![n] = Leaf(SubSeq(overflow, 1, at), new)],
                        Leaf(right, nodes[n].next)),
                 right[1].key, new)

\* A child that was split gets its separator and its new sibling in; a full node
\* is split around the middle key, which moves up.
InsertInner(nodes, n, i, sep, child) ==
  LET ks  == InsertAt(nodes[n].keys, i, sep)
      cs  == InsertAt(nodes[n].children, i + 1, child)
      mid == (BpMax + 1) \div 2 + 1
      new == Len(nodes) + 1
  IN  IF Len(nodes[n].keys) < BpMax THEN Done([nodes EXCEPT ![n] = Inner(ks, cs)])
      ELSE Split(Append([nodes EXCEPT ![n] = Inner(SubSeq(ks, 1, mid - 1), SubSeq(cs, 1, mid))],
                        Inner(SubSeq(ks, mid + 1, BpMax + 1), SubSeq(cs, mid + 1, BpMax + 2))),
                 ks[mid], new)

RECURSIVE InsertRec(_, _, _, _)
InsertRec(nodes, n, k, v) ==
  LET i == FindChild(nodes[n].keys, k)
      r == InsertRec(nodes, nodes[n].children[i], k, v)
  IN  IF nodes[n].leaf THEN InsertLeaf(nodes, n, k, v)
      ELSE IF r.rc = "split" THEN InsertInner(r.nodes, n, i, r.sep, r.new)
      ELSE r

BpInserted(t, k, v) ==
  LET r == InsertRec(t.nodes, t.root, k, v)
  IN  CASE r.rc = "duplicate" -> t
        [] r.rc = "done"      -> [t EXCEPT !.nodes = r.nodes, !.count = @ + 1]
        [] r.rc = "split"     ->
             [nodes |-> Append(r.nodes, Inner(<<r.sep>>, <<t.root, r.new>>)),
              root |-> Len(r.nodes) + 1, count |-> t.count + 1]

RECURSIVE LeafOf(_, _, _)
LeafOf(nodes, n, k) ==
  IF nodes[n].leaf THEN n
  ELSE LeafOf(nodes, nodes[n].children[FindChild(nodes[n].keys, k)], k)

\* The values found: none or one.
BpSearch(t, k) ==
  LET es == t.nodes[LeafOf(t.nodes, t.root, k)].entries
  IN  IF Holds(es, k) THEN {es[Place(es, k)].val} ELSE {}

\* Along the leaves from node n on, until a key above high is met.
RECURSIVE ScanFrom(_, _, _, _)
ScanFrom(nodes, n, low, high) ==
  LET es   == nodes[n].entries
      here == SelectSeq(es, LAMBDA e : low <= e.key /\ e.key <= high)
  IN  IF n = 0 THEN <<>>
      ELSE IF \E i \in DOMAIN es : es[i].key > high THEN here
      ELSE here \o ScanFrom(nodes, nodes[n].next, low, high)

BpRangeScan(t, low, high) == ScanFrom(t.nodes, LeafOf(t.nodes, t.root, low), low, high)

\* The entry goes; leaves are never merged, so no internal node loses a key.
BpDeleted(t, k) ==
  LET n  == LeafOf(t.nodes, t.root, k)
      es == t.nodes[n].entries
  IN  IF Holds(es, k) THEN [t EXCEPT !.nodes[n].entries = RemoveAt(@, Place(es, k)),
                                     !.count = @ - 1]
      ELSE t

-----------------------------------------------------------------------------
NoVal == 0

BpInit == handle = [kind |-> "bptree", tree |-> NewBpTree, writes |-> 0,
                    truth |-> [k \in BpKeys |-> NoVal]]

\* "truth" is what the caller inserted first and has not deleted.
BpInsert(k, v) ==
  /\ Holding("bptree") /\ handle.writes < BpWrites
  /\ handle' = [handle EXCEPT !.tree = BpInserted(@, k, v), !.writes = @ + 1,
                              !.truth[k] = IF @ = NoVal THEN v ELSE @]

BpDelete(k) ==
  /\ Holding("bptree") /\ handle.writes < BpWrites
  /\ handle' = [handle EXCEPT !.tree = BpDeleted(@, k), !.writes = @ + 1,
                              !.truth[k] = NoVal]

BpNext == \/ \E k \in BpKeys, v \in BpVals : BpInsert(k, v)
          \/ \E k \in BpKeys : BpDelete(k)

\* The depths at which leaves are found.
RECURSIVE Depths(_, _)
Depths(nodes, n) ==
  IF nodes[n].leaf THEN {1}
  ELSE {d + 1 : d \in UNION {Depths(nodes, nodes[n].children[i]) :
                               i \in DOMAIN nodes[n].children}}

\* After any splits, of leaves, of inner nodes and of the root, and with leaves
\* emptied by deletions, a search finds exactly what is in the tree, a range
\* scan gives exactly the keys of its range in ascending order, and all leaves
\* are equally deep.
BPlusTreeIsMap ==
  Holding("bptree") =>
    LET t       == handle.tree
        present == {k \in BpKeys : handle.truth[k] # NoVal}
    IN  /\ \A k \in BpKeys : BpSearch(t, k) = {handle.truth[k]} \ {NoVal}
        /\ t.count = Cardinality(present)
        /\ Cardinality(Depths(t.nodes, t.root)) = 1
        /\ \A low, high \in BpKeys :
             LET s == BpRangeScan(t, low, high)
             IN  /\ {s[i].key : i \in DOMAIN s} = present \cap (low..high)
                 /\ \A i, j \in DOMAIN s : i < j => s[i].key < s[j].key
=============================================================================
