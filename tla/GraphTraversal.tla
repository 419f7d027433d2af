----------------------------- MODULE GraphTraversal -----------------------------
(***************************************************************************)
(* The traversals of mini-graph-db (graph_traversal.c).  Arrays indexed by *)
(* node are functions; "parent" holds for every node reached the node and  *)
(* the edge it was reached by.  Paths are shorter than MAX_PATH_LENGTH.    *)
(***************************************************************************)
EXTENDS PropertyGraph

Infinity == 1000000
NoTarget == -1
Origin   == [node |-> 0, edge |-> 0]
NotFound == [found |-> FALSE, nodes |-> <<>>, edges |-> <<>>, weight |-> 0]

\* An id that names no node is taken for the first node.
PlaceOf(g, id) == IF id \in NodesOf(g) THEN id ELSE 1

RECURSIVE Chain(_, _, _)
Chain(parent, start, v) ==
  IF v = start THEN [nodes |-> <<v>>, edges |-> <<>>]
  ELSE LET c == Chain(parent, start, parent[v].node)
       IN  [nodes |-> Append(c.nodes, v), edges |-> Append(c.edges, parent[v].edge)]

PathFrom(parent, start, v, weight) ==
  LET c == Chain(parent, start, v)
  IN  [found |-> TRUE, nodes |-> c.nodes, edges |-> c.edges, weight |-> weight]

Enqueued(s, cur, a) ==
  IF a.to \in DOMAIN s.parent THEN s
  ELSE [s EXCEPT !.queue  = Append(@, a.to),
                 !.depth  = Append(@, s.depth[s.front] + 1),
                 !.parent = @ @@ (a.to :> [node |-> cur, edge |-> a.edge])]

\* The queue keeps the nodes taken from it; front counts them.
RECURSIVE BfsLoop(_, _, _)
BfsLoop(g, target, s) ==
  IF s.front = Len(s.queue) THEN s
  ELSE LET cur   == s.queue[s.front + 1]
           taken == [s EXCEPT !.front = @ + 1]
       IN  IF cur = target THEN taken
           ELSE BfsLoop(g, target,
                        FoldLeft(LAMBDA t, a : Enqueued(t, cur, a), taken, g.adj[cur]))

BfsState(start) ==
  [queue |-> <<start>>, depth |-> <<0>>, front |-> 0, parent |-> start :> Origin]

TraverseBfs(g, start, target) ==
  IF start \notin NodesOf(g) THEN NotFound
  ELSE LET s == BfsLoop(g, target, BfsState(start))
       IN  IF target < 0 THEN [NotFound EXCEPT !.found = TRUE, !.nodes = s.queue]
           ELSE IF PlaceOf(g, target) \notin DOMAIN s.parent THEN NotFound
           ELSE PathFrom(s.parent, start, PlaceOf(g, target), 0)

\* What the visitor is called with: nodes with their depths.
BfsVisits(g, start) ==
  LET s == BfsLoop(g, NoTarget, BfsState(PlaceOf(g, start)))
  IN  [i \in DOMAIN s.queue |-> <<s.queue[i], s.depth[i]>>]

\* The neighbours not yet visited are pushed in reverse, so that the first of
\* the list is on top, and each learns its parent when it is pushed.
Pushed(g, s, cur) ==
  LET new == SelectSeq(g.adj[cur], LAMBDA a : a.to \notin ToSet(s.order))
      d   == Head(s.stack)[2]
  IN  [s EXCEPT
        !.stack  = [i \in DOMAIN new |-> <<new[i].to, d + 1>>] \o Tail(@),
        !.parent = FoldRight(LAMBDA a, p : (a.to :> [node |-> cur, edge |-> a.edge]) @@ p,
                             new, @)]

\* The top of the stack is its head.
RECURSIVE DfsLoop(_, _, _)
DfsLoop(g, target, s) ==
  IF s.stack = <<>> THEN s
  ELSE LET cur == Head(s.stack)[1]
           seen == [s EXCEPT !.order = Append(@, cur), !.depth = Append(@, Head(s.stack)[2])]
       IN  IF cur \in ToSet(s.order) THEN DfsLoop(g, target, [s EXCEPT !.stack = Tail(@)])
           ELSE IF cur = target THEN [seen EXCEPT !.stack = Tail(@)]
           ELSE DfsLoop(g, target, Pushed(g, seen, cur))

DfsState(start) ==
  [stack |-> <<<<start, 0>>>>, order |-> <<>>, depth |-> <<>>, parent |-> start :> Origin]

TraverseDfs(g, start, target) ==
  IF start \notin NodesOf(g) THEN NotFound
  ELSE LET s == DfsLoop(g, target, DfsState(start))
       IN  IF target < 0 THEN [NotFound EXCEPT !.found = TRUE, !.nodes = s.order]
           ELSE IF PlaceOf(g, target) \notin ToSet(s.order) THEN NotFound
           ELSE PathFrom(s.parent, start, PlaceOf(g, target), 0)

DfsVisits(g, start) ==
  LET s == DfsLoop(g, NoTarget, DfsState(PlaceOf(g, start)))
  IN  [i \in DOMAIN s.order |-> <<s.order[i], s.depth[i]>>]

\* The least of the nodes with the least distance among those open.
Nearest(dist, open) ==
  CHOOSE u \in open : \A v \in open : dist[u] < dist[v] \/ (dist[u] = dist[v] /\ u <= v)

Relaxed(g, s, u, a) ==
  LET alt == s.dist[u] + g.edges[a.edge].type
  IN  IF a.to \in s.done \/ alt >= s.dist[a.to] THEN s
      ELSE [s EXCEPT !.dist[a.to] = alt,
                     !.parent[a.to] = [node |-> u, edge |-> a.edge]]

RECURSIVE Rounds(_, _, _)
Rounds(g, target, s) ==
  LET open == {v \in NodesOf(g) \ s.done : s.dist[v] < Infinity}
  IN  IF open = {} THEN s
      ELSE LET u    == Nearest(s.dist, open)
               done == [s EXCEPT !.done = @ \cup {u}]
           IN  IF u = target THEN done
               ELSE Rounds(g, target,
                           FoldLeft(LAMBDA t, a : Relaxed(g, t, u, a), done, g.adj[u]))

TraverseDijkstra(g, start, target) ==
  LET s == Rounds(g, target,
             [dist |-> [v \in NodesOf(g) |-> IF v = start THEN 0 ELSE Infinity],
              parent |-> [v \in NodesOf(g) |-> Origin], done |-> {}])
  IN  IF target \notin NodesOf(g) \/ s.dist[target] >= Infinity THEN NotFound
      ELSE PathFrom(s.parent, start, target, s.dist[target])

\* Every path without a repeated node, no longer than maxDepth; of two equally
\* short ones the later is kept.
RECURSIVE Deepen(_, _, _, _, _, _)
Deepen(g, target, path, edges, best, maxDepth) ==
  IF Len(edges) > maxDepth THEN best
  ELSE IF Last(path) = target
  THEN IF best.found /\ Len(edges) >= Len(best.nodes) THEN best
       ELSE [found |-> TRUE, nodes |-> path, edges |-> edges, weight |-> 0]
  ELSE FoldLeft(LAMBDA b, a : IF a.to \in ToSet(path) THEN b
                              ELSE Deepen(g, target, Append(path, a.to),
                                          Append(edges, a.edge), b, maxDepth),
                best, g.adj[Last(path)])

TraverseAllPaths(g, start, target, maxDepth) ==
  Deepen(g, target, <<start>>, <<>>, NotFound, maxDepth)

-----------------------------------------------------------------------------
(* Reference definitions, from the records of the edges alone.              *)

Step(g, v) == {w \in NodesOf(g) : \E e \in EdgesOf(g) : Leads(g, e, v, w)}

Ball(g, v) ==
  LET B[k \in 0..Len(g.nodes)] ==
        IF k = 0 THEN {v} ELSE B[k - 1] \cup UNION {Step(g, u) : u \in B[k - 1]}
  IN  B

Reach(g, v) == Ball(g, v)[Len(g.nodes)]

\* The distance of every node that v reaches.
Hops(g, v) ==
  LET B == Ball(g, v)
  IN  [w \in Reach(g, v) |-> CHOOSE k \in DOMAIN B : w \in B[k] /\ (k = 0 \/ w \notin B[k - 1])]

\* The cheapest way from v with at most k edges, for every k and node.
Costs(g, v) ==
  LET C[k \in 0..Len(g.nodes)] ==
        [w \in NodesOf(g) |->
           IF k = 0 THEN IF w = v THEN 0 ELSE Infinity
           ELSE Min({C[k - 1][w]} \cup
                    {C[k - 1][u] + g.edges[e].type :
                       <<u, e>> \in {x \in NodesOf(g) \X EdgesOf(g) : Leads(g, x[2], x[1], w)}})]
  IN  C[Len(g.nodes)]

IsPath(g, r, s, t) ==
  /\ r.found /\ r.nodes[1] = s /\ Last(r.nodes) = t /\ Len(r.nodes) = Len(r.edges) + 1
  /\ \A i \in DOMAIN r.edges : Leads(g, r.edges[i], r.nodes[i], r.nodes[i + 1])

\* From every node to every other, with parallel edges, loops and edges of both
\* kinds: each traversal finds a path exactly when there is one, and what it
\* gives is one; those of breadth-first search and of the search of all paths
\* have the fewest edges, those of Dijkstra the least weight; the visitors see
\* every reachable node once, breadth-first with its distance.
PathsAreShortest ==
  Holding("graph") =>
    \A s \in NodesOf(handle) :
      LET g == handle
          hops  == Hops(g, s)
          costs == Costs(g, s)
          bfs   == BfsVisits(g, s)
          dfs   == DfsVisits(g, s)
      IN  /\ \A t \in NodesOf(g) :
               LET all == TraverseAllPaths(g, s, t, Len(g.nodes))
                   dij == TraverseDijkstra(g, s, t)
                   b   == TraverseBfs(g, s, t)
                   d   == TraverseDfs(g, s, t)
               IN  IF t \in Reach(g, s)
                   THEN /\ IsPath(g, all, s, t) /\ Len(all.edges) = hops[t]
                        /\ IsPath(g, b, s, t) /\ Len(b.edges) = hops[t]
                        /\ IsPath(g, d, s, t) /\ IsInjective(d.nodes)
                        /\ IsPath(g, dij, s, t) /\ dij.weight = costs[t]
                        /\ dij.weight = FoldLeft(LAMBDA x, e : x + g.edges[e].type, 0, dij.edges)
                   ELSE ~all.found /\ ~dij.found /\ ~b.found /\ ~d.found
          /\ {bfs[i][1] : i \in DOMAIN bfs} = Reach(g, s) /\ Len(bfs) = Cardinality(Reach(g, s))
          /\ {dfs[i][1] : i \in DOMAIN dfs} = Reach(g, s) /\ Len(dfs) = Cardinality(Reach(g, s))
          /\ \A i \in DOMAIN bfs : bfs[i][2] = hops[bfs[i][1]]
          /\ \A i \in DOMAIN bfs : TraverseBfs(g, s, NoTarget).nodes[i] = bfs[i][1]
          /\ \A i \in DOMAIN dfs : TraverseDfs(g, s, NoTarget).nodes[i] = dfs[i][1]
=============================================================================
