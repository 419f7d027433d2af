---------------------------- MODULE VectorIndex -----------------------------
(***************************************************************************)
(* The vectors of mini-vector-db: a graph of small worlds built on its own *)
(* (hnsw.c, kind "hnsw"), one collection with each of its kinds of index   *)
(* and a file it is saved to (vector_db.c, exact_knn.c, ivf_pq.c, lsh.c    *)
(* and serialization.c, kind "coll"), and the directory of collections     *)
(* (kind "vdb").  A vector is a number and distances are differences; a    *)
(* vector, a node and a place are named by their position from 1.          *)
(***************************************************************************)
EXTENDS Handle, Integers, FiniteSets, SequencesExt, TLC

CONSTANTS Vecs, Queries,      \* multiples of the means' denominators
          KnnMax,             \* KNN_MAX_K, the room of every list of results
          HnswM, HnswEf,      \* M and ef_construction
          HnswLevels,         \* the levels a node may get: 0..n
          HnswNodes,          \* bound on the nodes
          VecIds, VecBatches, \* ids, and sequences of <<id, vector>>
          VecCapacity,        \* max_vectors
          Nlist, Nprobe,      \* ivf_nlist, ivf_nprobe
          LshHashes,          \* what lsh_init may draw: one function of vectors for each table
          CollSteps,          \* bound on the steps with a collection
          DbNames, DbMax, DbSteps   \* VDB_MAX_COLLECTIONS

Dist(x, y)     == IF x < y THEN y - x ELSE x - y
NearestFirst(s)     == SortSeq(s, LAMBDA a, b : a.dist < b.dist)   \* qsort, ties as they come
\* A list of results takes no more when it is full, and tells nobody.
Listed(s, x)   == IF Len(s) >= KnnMax THEN s ELSE Append(s, x)
CutTo(s, max)  == SubSeq(s, 1, IF Len(s) < max THEN Len(s) ELSE max)

-----------------------------------------------------------------------------
(* The graph.  The top layers lead to the start of the search below them.   *)

EmptyGraph == [nodes |-> <<>>, entry |-> 0]
Found(g, n, q) == [id |-> n, dist |-> Dist(g.nodes[n].vec, q)]

\* The neighbours of one candidate, as long as they are nearer than the last or there is
\* room; those that the list of the visited has no room for are new each time they are met.
Considered(g, q, ef, acc, n) ==
  IF n \in ToSet(acc.visited) THEN acc
  ELSE LET c    == Found(g, n, q)
           seen == [acc EXCEPT !.visited = Listed(@, n)]
       IN  IF c.dist < Last(acc.cands).dist \/ Len(acc.cands) < ef
           THEN [seen EXCEPT !.cands = CutTo(NearestFirst(Listed(@, c)), ef)]
           ELSE seen

\* Candidates are taken in turn; one that comes in before the turn is never taken, and
\* those it moves back are taken again.  None is ever farther than the last.
RECURSIVE LayerFrom(_, _, _, _, _, _)
LayerFrom(g, q, ef, lc, acc, front) ==
  IF front > Len(acc.cands) THEN acc.cands
  ELSE LayerFrom(g, q, ef, lc,
                 FoldLeft(LAMBDA a, n : Considered(g, q, ef, a, n),
                          acc, g.nodes[acc.cands[front].id].nbrs[lc]), front + 1)
SearchLayer(g, q, eps, ef, lc) ==
  LayerFrom(g, q, ef, lc, [visited |-> [i \in DOMAIN eps |-> eps[i].id], cands |-> NearestFirst(eps)], 1)

\* From the top down to a level, one candidate on each.
RECURSIVE Descend(_, _, _, _, _)
Descend(g, q, eps, lc, level) ==
  IF lc <= level THEN eps
  ELSE Descend(g, q, <<SearchLayer(g, q, eps, 1, lc)[1]>>, lc - 1, level)
StartAt(g, q, level) ==
  Descend(g, q, <<Found(g, g.entry, q)>>, g.nodes[g.entry].level, level)

\* Links from the new node to all that were found, and back from those that have room, as
\* often as they were found.
LinksMax(lc) == IF lc = 0 THEN 2 * HnswM ELSE HnswM
LinkedTo(g, new, eps, lc) ==
  LET Back(n) == SelectSeq(eps, LAMBDA e : e.id = n)
  IN  [g EXCEPT !.nodes = [n \in DOMAIN @ |->
         IF n = new THEN [@[n] EXCEPT !.nbrs[lc] = [i \in DOMAIN eps |-> eps[i].id]]
         ELSE [@[n] EXCEPT !.nbrs[lc] =
                 CutTo(@ \o [i \in DOMAIN Back(n) |-> new], LinksMax(lc))]]]

RECURSIVE LinkDown(_, _, _, _)
LinkDown(g, new, eps, lc) ==
  IF lc < 0 THEN g
  ELSE LET found == CutTo(SearchLayer(g, g.nodes[new].vec, eps, HnswEf, lc), HnswM)
       IN  LinkDown(LinkedTo(g, new, found, lc), new, found, lc - 1)

HnswInsert(g, vec, id, level) ==
  LET new  == Len(g.nodes) + 1
      node == [id |-> id, level |-> level, vec |-> vec, nbrs |-> [l \in HnswLevels |-> <<>>]]
      with == [g EXCEPT !.nodes = Append(@, node)]
  IN  IF g.entry = 0 THEN [with EXCEPT !.entry = new]
      ELSE LET done == LinkDown(with, new, StartAt(g, vec, level), level)
           IN  IF level > g.nodes[g.entry].level THEN [done EXCEPT !.entry = new] ELSE done

\* The nodes found, not their ids.
HnswSearch(g, q, k, ef) ==
  IF g.entry = 0 THEN <<>>
  ELSE CutTo(SearchLayer(g, q, <<StartAt(g, q, 0)[1]>>, IF ef > k THEN ef ELSE 2 * k, 0), k)

NewHnsw == [kind |-> "hnsw", graph |-> EmptyGraph]
InsertNode(vec, level) ==
  /\ Len(handle.graph.nodes) < HnswNodes
  /\ handle' = [handle EXCEPT !.graph = HnswInsert(@, vec, Len(@.nodes) + 1, level)]

-----------------------------------------------------------------------------
(* Exact search: a heap of the k nearest, the farthest on top.              *)

HeapSwap(h, i, j) == [h EXCEPT ![i] = h[j], ![j] = h[i]]
RECURSIVE SiftUp(_, _)
SiftUp(h, i) ==
  IF i = 1 \/ h[i \div 2].dist >= h[i].dist THEN h ELSE SiftUp(HeapSwap(h, i, i \div 2), i \div 2)
RECURSIVE SiftDown(_, _)
SiftDown(h, i) ==
  LET Larger(x, y) == IF y <= Len(h) /\ h[y].dist > h[x].dist THEN y ELSE x
      largest == Larger(Larger(i, 2 * i), 2 * i + 1)
  IN  IF largest = i THEN h ELSE SiftDown(HeapSwap(h, i, largest), largest)
HeapPush(h, e) == SiftUp(Append(h, e), Len(h) + 1)
HeapPop(h)     == SiftDown(Front([h EXCEPT ![1] = Last(h)]), 1)

\* The places of the vectors, not their ids.
BruteForce(vectors, q, k) ==
  NearestFirst(FoldLeft(LAMBDA h, i :
                     LET full == HeapPush(h, [id |-> i, dist |-> Dist(vectors[i], q)])
                     IN  IF Len(full) > k THEN HeapPop(full) ELSE full,
                   <<>>, [i \in DOMAIN vectors |-> i]))

-----------------------------------------------------------------------------
(* Inverted lists.  The means of the vectors are whole numbers; how codes   *)
(* approximate distances is left open, so a search may give any of its      *)
(* candidates.                                                              *)

EmptyIvf == [centers |-> <<>>, lists |-> [c \in 1..Nlist |-> <<>>], ids |-> <<>>, trained |-> FALSE]
\* The first list where there are no centres, as after a file of lists trained but not built.
NearestCenter(centers, v) ==
  IF centers = <<>> THEN 1
  ELSE CHOOSE c \in DOMAIN centers : \A e \in DOMAIN centers :
         Dist(centers[c], v) < Dist(centers[e], v)
         \/ (Dist(centers[c], v) = Dist(centers[e], v) /\ c <= e)

\* Each centre moves to the mean of its vectors, if it has any; ten times over.
Moved(centers, vectors) ==
  [c \in DOMAIN centers |->
     LET mine == SelectSeq(vectors, LAMBDA v : NearestCenter(centers, v) = c)
     IN  IF mine = <<>> THEN centers[c] ELSE FoldLeft(+, 0, mine) \div Len(mine)]
RECURSIVE Lloyd(_, _, _)
Lloyd(centers, vectors, rounds) ==
  IF rounds = 0 THEN centers ELSE Lloyd(Moved(centers, vectors), vectors, rounds - 1)
IvfTrained(vectors, drawn) ==
  LET centers == Lloyd([c \in 1..Nlist |-> vectors[drawn[c]]], vectors, 10)
  IN  [centers |-> centers, lists |-> [c \in 1..Nlist |-> <<>>], ids |-> <<>>, trained |-> TRUE]
IvfAdd(ivf, v, id) ==
  [ivf EXCEPT !.lists[NearestCenter(ivf.centers, v)] = Append(@, Len(ivf.ids) + 1),
              !.ids = Append(@, id)]
\* The places in the lists of the nearest centres.
IvfCandidates(ivf, q, nprobe) ==
  LET order == SortSeq([c \in DOMAIN ivf.centers |-> c],
                       LAMBDA a, b : Dist(ivf.centers[a], q) < Dist(ivf.centers[b], q))
  IN  IF ~ivf.trained THEN <<>>
      ELSE FlattenSeq([p \in DOMAIN CutTo(order, nprobe) |-> ivf.lists[order[p]]])

-----------------------------------------------------------------------------
(* Hashing by random projections: a bucket for each table and hash.         *)

NewLsh(hashes) ==
  [hashes |-> hashes, vecs |-> <<>>, ids |-> <<>>, buckets |-> [t \in DOMAIN hashes |-> <<>>]]
\* A bucket is kept as the places with its hash, in order.
LshInsert(lsh, v, id) ==
  [lsh EXCEPT !.vecs = Append(@, v), !.ids = Append(@, id),
              !.buckets = [t \in DOMAIN @ |->
                 Append(@[t], [hash |-> lsh.hashes[t][v], place |-> Len(lsh.ids) + 1])]]
LshCandidates(lsh, q) ==
  FoldLeft(LAMBDA seen, e : IF e.place \in ToSet(seen) THEN seen ELSE Append(seen, e.place), <<>>,
           FlattenSeq([t \in DOMAIN lsh.buckets |->
             SelectSeq(lsh.buckets[t], LAMBDA e : e.hash = lsh.hashes[t][q])]))
\* What was read back from a file has the sizes of the buckets but no places in them, so
\* that each place is the first, which has neither a vector nor an id: 0 and no distance.
LshSearch(lsh, q, k) ==
  LET Of(p) == IF p \in DOMAIN lsh.ids THEN [id |-> lsh.ids[p], dist |-> Dist(lsh.vecs[p], q)]
               ELSE [id |-> 0, dist |-> 0]
      c == LshCandidates(lsh, q)
      listed == FoldLeft(LAMBDA s, p : Listed(s, Of(p)), <<>>, c)
  IN  CutTo(NearestFirst(listed), k)

-----------------------------------------------------------------------------
(* A collection: vectors and ids side by side.  "put" is the vector last    *)
(* inserted under each id, "twice" the ids a batch gave a second place;     *)
(* "indexed" are the vectors and ids of the last build.                     *)

IndexTypes == {"flat", "hnsw", "ivf", "lsh"}
NewColl(type, hashes) ==
  [type |-> type, vecs |-> <<>>, ids |-> <<>>, built |-> FALSE, trained |-> FALSE,
   hnsw |-> EmptyGraph, ivf |-> EmptyIvf, lsh |-> NewLsh(hashes),
   put |-> [i \in {} |-> 0], twice |-> {}, indexed |-> <<>>]

VecPlace(c, id) == SelectInSeq(c.ids, LAMBDA i : i = id)
GetVector(c, id) == IF VecPlace(c, id) = 0 THEN {} ELSE {c.vecs[VecPlace(c, id)]}
PutAt(put, id, v) == [x \in DOMAIN put \cup {id} |-> IF x = id THEN v ELSE put[x]]

Added(c, v, id) == [c EXCEPT !.vecs = Append(@, v), !.ids = Append(@, id),
                             !.twice = IF id \in ToSet(c.ids) THEN @ \cup {id} ELSE @,
                             !.put = PutAt(@, id, v)]


InsertVector(c, v, id) ==
  LET p == VecPlace(c, id)
  IN  IF p # 0 THEN [c EXCEPT !.vecs[p] = v, !.built = FALSE, !.put = PutAt(@, id, v)]
      ELSE IF Len(c.ids) >= VecCapacity THEN c
      ELSE [Added(c, v, id) EXCEPT !.built = FALSE]

\* No id is looked for; the rest of a batch is left when there is no room.
InsertBatch(c, batch) ==
  [FoldLeft(LAMBDA a, e : IF Len(a.ids) >= VecCapacity THEN a ELSE Added(a, e[2], e[1]), c, batch)
     EXCEPT !.built = FALSE]

\* The last takes the place of the one that goes.
DeleteVector(c, id) ==
  LET p == VecPlace(c, id)
  IN  IF p = 0 THEN c
      ELSE [c EXCEPT !.vecs = Front([@ EXCEPT ![p] = Last(c.vecs)]),
                     !.ids  = Front([@ EXCEPT ![p] = Last(c.ids)]),
                     !.built = FALSE,
                     !.put = [x \in DOMAIN @ \ {id} |-> @[x]]]

\* Training starts the inverted lists anew, which does not undo "built".
TrainIndex(c, drawn) ==
  [c EXCEPT !.trained = TRUE,
            !.ivf = IF c.type = "ivf" THEN IvfTrained(c.vecs, drawn) ELSE @,
            !.indexed = IF c.type = "ivf" THEN <<>> ELSE @]
\* Inverted lists are added to, not started anew; the other two are.
BuildIndex(c, levels, drawn, hashes) ==
  LET Each(start, Add(_, _)) == FoldLeft(Add, start, [i \in DOMAIN c.ids |-> i])
      t    == IF c.type = "ivf" /\ ~c.trained THEN TrainIndex(c, drawn) ELSE c
      what == [i \in DOMAIN c.ids |-> <<c.ids[i], c.vecs[i]>>]
  IN  [t EXCEPT
        !.built = TRUE,
        !.hnsw  = IF c.type # "hnsw" THEN @
                  ELSE Each(EmptyGraph, LAMBDA g, i : HnswInsert(g, c.vecs[i], c.ids[i], levels[i])),
        !.ivf   = IF c.type # "ivf" THEN @ ELSE Each(@, LAMBDA x, i : IvfAdd(x, c.vecs[i], c.ids[i])),
        !.lsh   = IF c.type # "lsh" THEN @
                  ELSE Each(NewLsh(hashes), LAMBDA l, i : LshInsert(l, c.vecs[i], c.ids[i])),
        !.indexed = IF c.type = "ivf" THEN @ \o what ELSE what]

\* A file has the vectors, and of an index that is built: the whole graph up to the level
\* of each node, the centres and the lists without ids, the hashes and sizes of buckets.
SavedNode(n) == [n EXCEPT !.nbrs = [l \in HnswLevels |-> IF l <= n.level THEN @[l] ELSE <<>>]]
Loaded(c, hashes) ==
  LET none == NewColl(c.type, hashes)
      back == [c EXCEPT !.hnsw = none.hnsw, !.ivf = none.ivf, !.lsh = none.lsh]
  IN  IF ~c.built THEN back
      ELSE [back EXCEPT
              !.hnsw = IF c.type # "hnsw" THEN @
                       ELSE [c.hnsw EXCEPT !.nodes = [n \in DOMAIN @ |-> SavedNode(@[n])]],
              !.ivf  = IF c.type # "ivf" THEN @ ELSE [c.ivf EXCEPT !.ids = [i \in DOMAIN @ |-> 0]],
              !.lsh  = IF c.type # "lsh" THEN @
                       ELSE [c.lsh EXCEPT !.vecs = <<>>, !.ids = <<>>,
                               !.buckets = [t \in DOMAIN @ |->
                                  [i \in DOMAIN @[t] |-> [@[t][i] EXCEPT !.place = 1]]]]]

Unsaved == [type |-> "none"]
NewVcoll(type, hashes) ==
  [kind |-> "coll", coll |-> NewColl(type, hashes), file |-> Unsaved, loaded |-> FALSE, steps |-> 0]
CollDoes(c) ==
  /\ handle.steps < CollSteps
  /\ handle' = [handle EXCEPT !.coll = c, !.steps = @ + 1,
                              !.loaded = @ /\ c.indexed = handle.coll.indexed /\ c.built]
\* What rand() gives the kind of index that draws it.
LevelsOf(c) == IF c.type = "hnsw" THEN [DOMAIN c.ids -> HnswLevels] ELSE {<<>>}
DrawsOf(c)  == IF c.type = "ivf" THEN [1..Nlist -> DOMAIN c.ids] ELSE {<<>>}
HashesOf(c) == IF c.type = "lsh" THEN LshHashes ELSE {c.lsh.hashes}

InsertOne(v, id)  == CollDoes(InsertVector(handle.coll, v, id))
Batch(batch)    == CollDoes(InsertBatch(handle.coll, batch))
DeleteOne(id)     == CollDoes(DeleteVector(handle.coll, id))
Train == /\ handle.coll.ids # <<>>
         /\ \E drawn \in DrawsOf(handle.coll) : CollDoes(TrainIndex(handle.coll, drawn))
Build == /\ handle.coll.ids # <<>>
         /\ \E levels \in LevelsOf(handle.coll), drawn \in DrawsOf(handle.coll),
               hashes \in HashesOf(handle.coll) :
              CollDoes(BuildIndex(handle.coll, levels, drawn, hashes))
\* A search builds a graph and trains lists that are not; it does not build lists or tables.
SearchIndexes ==
  /\ handle.coll.ids # <<>>
  /\ \/ /\ handle.coll.type = "hnsw" /\ ~handle.coll.built
        /\ \E levels \in LevelsOf(handle.coll) :
             CollDoes(BuildIndex(handle.coll, levels, <<>>, handle.coll.lsh.hashes))
     \/ /\ handle.coll.type = "ivf" /\ ~handle.coll.trained
        /\ \E drawn \in DrawsOf(handle.coll) : CollDoes(TrainIndex(handle.coll, drawn))
SaveColl == /\ handle.steps < CollSteps
            /\ handle' = [handle EXCEPT !.file = handle.coll, !.steps = @ + 1]
LoadColl == /\ handle.steps < CollSteps /\ handle.file # Unsaved
            /\ \E hashes \in LshHashes :
                 handle' = [handle EXCEPT !.coll = Loaded(handle.file, hashes), !.loaded = TRUE,
                                          !.steps = @ + 1]

\* What a search gives: ids and places, as the kind of index has it.
SearchColl(c, q, k) ==
  IF c.ids = <<>> THEN <<>>
  ELSE CASE c.type = "flat" -> BruteForce(c.vecs, q, k)
         [] c.type = "hnsw" -> HnswSearch(c.hnsw, q, k, HnswEf)
         [] c.type = "lsh"  -> LshSearch(c.lsh, q, k)
         [] c.type = "ivf"  -> LET cands == IvfCandidates(c.ivf, q, Nprobe)
                               IN  [i \in DOMAIN cands |-> [id |-> c.ivf.ids[cands[i]], dist |-> 0]]

-----------------------------------------------------------------------------
(* The directory.  "dims" is what each collection was created with, which a *)
(* pointer to a place of the table is meant to lead to.                     *)

NewVdb == [kind |-> "vdb", table |-> <<>>, dims |-> [n \in {} |-> 0], steps |-> 0]
DbPlace(n) == SelectInSeq(handle.table, LAMBDA e : e.name = n)
CreateColl(n) ==
  /\ handle.steps < DbSteps /\ Len(handle.table) < DbMax /\ DbPlace(n) = 0
  /\ handle' = [handle EXCEPT !.steps = @ + 1,
                              !.table = Append(@, [name |-> n, dim |-> handle.steps + 1]),
                              !.dims = PutAt(@, n, handle.steps + 1)]
DropColl(n) ==
  /\ handle.steps < DbSteps /\ DbPlace(n) # 0
  /\ handle' = [handle EXCEPT !.steps = @ + 1, !.table = RemoveAt(@, DbPlace(n)),
                              !.dims = [x \in DOMAIN @ \ {n} |-> @[x]]]

-----------------------------------------------------------------------------
VectorInit == \/ handle \in {NewHnsw, NewVdb}
              \/ \E type \in IndexTypes, hashes \in LshHashes : handle = NewVcoll(type, hashes)
VectorNext ==
  \/ Holding("hnsw") /\ \E v \in Vecs, l \in HnswLevels : InsertNode(v, l)
  \/ Holding("coll") /\ \E v \in Vecs, i \in VecIds : InsertOne(v, i)
  \/ Holding("coll") /\ \E b \in VecBatches : Batch(b)
  \/ Holding("coll") /\ \E i \in VecIds : DeleteOne(i)
  \/ Holding("coll") /\ Train
  \/ Holding("coll") /\ Build
  \/ Holding("coll") /\ SearchIndexes
  \/ Holding("coll") /\ SaveColl
  \/ Holding("coll") /\ LoadColl
  \/ Holding("vdb") /\ \E n \in DbNames : CreateColl(n)
  \/ Holding("vdb") /\ \E n \in DbNames : DropColl(n)

-----------------------------------------------------------------------------
\* A result in order, of at most k nodes or places with their true distances, and one
\* that has none of them twice.
Truthful(result, vectors, q, k) ==
  /\ Len(result) <= k
  /\ \A i \in DOMAIN result : /\ result[i].id \in DOMAIN vectors
                              /\ result[i].dist = Dist(vectors[result[i].id], q)
  /\ \A i, j \in DOMAIN result : i < j => result[i].dist <= result[j].dist
Different(result) == IsInjective([i \in DOMAIN result |-> result[i].id])

(* No list of links is longer than its limit, and none leads to its own node; each node
   but the first has links on each of its levels; the entry is a highest one.  A search
   gives nodes with their true distances in order, the first no farther than the entry;
   that it finds the nearest is not promised.  As long as there are no more nodes than a
   list of results has room for, no links and no answer have a node twice; beyond, one met
   again counts as new, and links may: hnsw.c. *)
GraphSearchesTruly ==
  Holding("hnsw") =>
    LET g == handle.graph
        vectors == [n \in DOMAIN g.nodes |-> g.nodes[n].vec]
    IN  /\ \A n \in DOMAIN g.nodes, l \in HnswLevels :
             LET nbrs == g.nodes[n].nbrs[l]
             IN  /\ Len(nbrs) <= LinksMax(l) /\ ToSet(nbrs) \subseteq DOMAIN g.nodes \ {n}
                 /\ Len(g.nodes) <= KnnMax => IsInjective(nbrs)
                 /\ (n > 1 /\ l <= g.nodes[n].level) => nbrs # <<>>
        /\ \A n \in DOMAIN g.nodes : g.nodes[n].level <= g.nodes[g.entry].level
        /\ \A q \in Queries, k \in 1..2 :
             LET found == HnswSearch(g, q, k, HnswEf)
             IN  /\ Truthful(found, vectors, q, k)
                 /\ Len(g.nodes) <= KnnMax => Different(found)
                 /\ g.entry # 0 => found # <<>> /\ found[1].dist <= Dist(vectors[g.entry], q)

(* An id has the vector it was last given, unless a batch put it in a second place.  An
   exact search gives the k nearest places, and a graph is never searched after a change
   without being built again.  Lists and tables are: until someone builds them they give
   what they were built from, deleted and replaced vectors included, and nothing newer.
   Inverted lists have each vector of the builds since they were trained once, in the
   list of its nearest centre; tables of hashes, built, have what the collection has, and
   with room for all in a list of results they find a vector they have under its own
   value.  Read back from a file, both give only answers with the id 0: vector_db.c. *)
CollectionAnswers ==
  Holding("coll") =>
    LET c == handle.coll
        FromFile == handle.loaded /\ c.built
    IN  /\ \A i \in VecIds \ c.twice :
             GetVector(c, i) = IF i \in DOMAIN c.put THEN {c.put[i]} ELSE {}
        /\ Len(c.vecs) = Len(c.ids) /\ Len(c.ids) <= VecCapacity
        /\ (c.type # "ivf" /\ c.built) =>
             c.indexed = [i \in DOMAIN c.ids |-> <<c.ids[i], c.vecs[i]>>]
        /\ \A q \in Queries, k \in 1..2 :
             LET found == SearchColl(c, q, k)
             IN  CASE c.type = "flat" ->
                        /\ Truthful(found, c.vecs, q, k) /\ Different(found)
                        /\ Len(found) = IF Len(c.vecs) < k THEN Len(c.vecs) ELSE k
                        /\ \A i \in DOMAIN c.vecs \ {f.id : f \in ToSet(found)} :
                             \A f \in ToSet(found) : f.dist <= Dist(c.vecs[i], q)
                   [] c.type = "hnsw" -> c.built => /\ Truthful(found, c.vecs, q, k)
                                                    /\ Len(c.ids) <= KnnMax => Different(found)
                                                    /\ (c.ids # <<>>) = (found # <<>>)
                   [] c.type = "lsh" ->
                        IF FromFile THEN Len(found) <= 1 /\ \A f \in ToSet(found) : f.id = 0
                        ELSE \A f \in ToSet(found) : \E e \in ToSet(c.indexed) :
                               f = [id |-> e[1], dist |-> Dist(e[2], q)]
                   [] c.type = "ivf" ->
                        \A f \in ToSet(found) :
                          IF FromFile THEN f.id = 0 ELSE f.id \in {e[1] : e \in ToSet(c.indexed)}
        /\ (c.type = "lsh" /\ ~FromFile /\ c.ids # <<>> /\ Len(c.indexed) <= KnnMax) =>
             \A e \in ToSet(c.indexed) :
               [id |-> e[1], dist |-> 0] \in ToSet(LshSearch(c.lsh, e[2], Len(c.indexed)))
        /\ (c.type = "ivf" /\ c.ivf.trained) =>
             /\ Len(FlattenSeq(c.ivf.lists)) = Len(c.indexed)
             /\ \A l \in DOMAIN c.ivf.lists : \A p \in ToSet(c.ivf.lists[l]) :
                  l = NearestCenter(c.ivf.centers, c.indexed[p][2])
             /\ ~FromFile => \A p \in DOMAIN c.indexed : c.ivf.ids[p] = c.indexed[p][1]

(* The directory has each name once, and leads to the collection created under it:
   vdb_create_collection and vdb_drop_collection. *)
DirectoryLeads ==
  Holding("vdb") =>
    /\ Len(handle.table) <= DbMax
    /\ {e.name : e \in ToSet(handle.table)} = DOMAIN handle.dims
    /\ \A n \in DOMAIN handle.dims : handle.table[DbPlace(n)].dim = handle.dims[n]
    /\ \A i, j \in DOMAIN handle.table : handle.table[i].name = handle.table[j].name => i = j
=============================================================================
