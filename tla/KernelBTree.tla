---------------------------- MODULE KernelBTree ----------------------------
(***************************************************************************)
(* The index of mini-db-kernel (btree.c).  Nodes are numbered by page_id;  *)
(* a separator is the last key of the left node and stays in it, and an    *)
(* inner node that is split shares a child with its new sibling.           *)
(*                                                                         *)
(* Deletion is modelled as long as it rebalances nothing: see Removable.   *)
(***************************************************************************)
EXTENDS Handle, Integers, Sequences, FiniteSets, SequencesExt

CONSTANTS BtKeys, BtVals,
          BtOrder,       \* BTREE_ORDER
          BtWrites       \* bound on insertions and deletions

NoLeaf == -1
BtLeaf(ks, vs, next) == [is_leaf |-> TRUE, keys |-> ks, values |-> vs, next_leaf |-> next]
BtInner(ks, cs) == [is_leaf |-> FALSE, keys |-> ks, children |-> cs]
NewBTree == [nodes |-> <<BtLeaf(<<>>, <<>>, NoLeaf)>>, root |-> 1, slid |-> FALSE]

IsFull(node) == Len(node.keys) = BtOrder - 1
Mid == (BtOrder - 1) \div 2 + 1

\* The node that a split leaves and the one it makes, numbered new.
SplitNode(nodes, n, new) ==
  LET x == nodes[n]
      K(s) == SubSeq(s, Mid + 1, BtOrder - 1)
      L(s) == SubSeq(s, 1, Mid)
  IN  Append([nodes EXCEPT ![n] =
                IF x.is_leaf THEN BtLeaf(L(x.keys), L(x.values), new)
                ELSE BtInner(L(x.keys), SubSeq(x.children, 1, Mid + 1))],
             IF x.is_leaf THEN BtLeaf(K(x.keys), K(x.values), x.next_leaf)
             ELSE BtInner(K(x.keys), SubSeq(x.children, Mid + 1, BtOrder)))

\* Behind the keys that are not greater.
After(ks, k) == Cardinality({i \in DOMAIN ks : ks[i] <= k}) + 1

\* A full child is split, and then the key goes into its left half even if the
\* separator is smaller than the key: "slid".
RECURSIVE InsertNonfull(_, _, _, _)
InsertNonfull(t, n, k, v) ==
  LET x == t.nodes[n]
      i == After(x.keys, k)
      c == x.children[i]
      new == Len(t.nodes) + 1
      sep == t.nodes[c].keys[Mid]
      halves == SplitNode(t.nodes, c, new)
  IN  IF x.is_leaf
      THEN [t EXCEPT !.nodes[n].keys = InsertAt(@, i, k), !.nodes[n].values = InsertAt(@, i, v)]
      ELSE IF ~IsFull(t.nodes[c]) THEN InsertNonfull(t, c, k, v)
      ELSE InsertNonfull(
             [t EXCEPT !.nodes = [halves EXCEPT ![n] = BtInner(InsertAt(x.keys, i, sep),
                                                   InsertAt(x.children, i + 1, new))],
                       !.slid = @ \/ k > sep],
             c, k, v)

\* A full root is split under a new one, and the right half is taken.
BtInserted(t, k, v) ==
  LET r   == t.root
      new == Len(t.nodes) + 2
      top == Len(t.nodes) + 1
      sep == t.nodes[r].keys[Mid]
      grown == [t EXCEPT !.root = top,
                  !.nodes = SplitNode(Append(@, BtInner(<<sep>>, <<r, new>>)), r, new)]
  IN  IF IsFull(t.nodes[r]) THEN InsertNonfull(grown, IF k > sep THEN new ELSE r, k, v)
      ELSE InsertNonfull(t, r, k, v)

\* The nodes from the root to the leaf where k is looked for.
RECURSIVE Way(_, _, _)
Way(t, n, k) ==
  LET x == t.nodes[n]
  IN  IF x.is_leaf THEN <<n>>
      ELSE <<n>> \o Way(t, x.children[Cardinality({i \in DOMAIN x.keys : x.keys[i] < k}) + 1], k)

FindLeaf(t, k) == Last(Way(t, t.root, k))

Places(x, k) == {i \in DOMAIN x.keys : x.keys[i] = k}
First(S) == CHOOSE i \in S : \A j \in S : i <= j

\* The values found: none or one.
BtSearch(t, k) ==
  LET x == t.nodes[FindLeaf(t, k)]
  IN  IF Places(x, k) = {} THEN {} ELSE {x.values[First(Places(x, k))]}

RECURSIVE LeavesFrom(_, _, _, _)
LeavesFrom(t, n, low, high) ==
  LET x    == t.nodes[n]
      here == SelectSeq(x.keys, LAMBDA k : low <= k /\ k <= high)
  IN  IF n = NoLeaf THEN <<>>
      ELSE IF \E i \in DOMAIN x.keys : x.keys[i] > high THEN here
      ELSE here \o LeavesFrom(t, x.next_leaf, low, high)

BtSearchRange(t, low, high) == LeavesFrom(t, FindLeaf(t, low), low, high)

\* The key is in its leaf only, and the leaf keeps enough keys.
Removable(t, k) ==
  LET w == Way(t, t.root, k)
      x == t.nodes[Last(w)]
  IN  /\ \A i \in 1..(Len(w) - 1) : Places(t.nodes[w[i]], k) = {}
      /\ Len(w) > 1 /\ Places(x, k) # {} => Len(x.keys) > (BtOrder - 1) \div 2

BtRemoved(t, k) ==
  LET n == FindLeaf(t, k)
      p == First(Places(t.nodes[n], k))
  IN  IF Places(t.nodes[n], k) = {} THEN t
      ELSE [t EXCEPT !.nodes[n].keys = RemoveAt(@, p), !.nodes[n].values = RemoveAt(@, p)]

-----------------------------------------------------------------------------
\* "truth" has for each key the values inserted and not deleted, oldest first.
BtInit == handle = [kind |-> "btree", tree |-> NewBTree, writes |-> 0,
                    truth |-> [k \in BtKeys |-> <<>>]]

BtInsert(k, v) ==
  /\ Holding("btree") /\ handle.writes < BtWrites
  /\ handle' = [handle EXCEPT !.tree = BtInserted(@, k, v), !.writes = @ + 1,
                              !.truth[k] = Append(@, v)]

BtDelete(k) ==
  /\ Holding("btree") /\ handle.writes < BtWrites
  /\ Removable(handle.tree, k)
  /\ handle' = [handle EXCEPT !.tree = BtRemoved(@, k), !.writes = @ + 1,
                              !.truth[k] = IF @ = <<>> THEN @ ELSE Tail(@)]

BtNext == \/ \E k \in BtKeys, v \in BtVals : BtInsert(k, v)
          \/ \E k \in BtKeys : BtDelete(k)

\* As long as no key slid into the wrong half of a split, a search gives the
\* oldest value of every key that is in the tree and nothing for the others,
\* and a range search gives every key of the range, as often as it was inserted
\* and in order, across leaves that splits chained.
BTreeFindsOldest ==
  Holding("btree") /\ ~handle.tree.slid =>
    LET t == handle.tree
    IN  /\ \A k \in BtKeys : BtSearch(t, k) = {handle.truth[k][i] : i \in {1} \cap DOMAIN handle.truth[k]}
        /\ \A low, high \in BtKeys :
             LET s == BtSearchRange(t, low, high)
             IN  /\ \A k \in BtKeys : Cardinality({i \in DOMAIN s : s[i] = k}) =
                      IF low <= k /\ k <= high THEN Len(handle.truth[k]) ELSE 0
                 /\ \A i, j \in DOMAIN s : i < j => s[i] <= s[j]
=============================================================================
