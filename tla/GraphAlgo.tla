--------------------------------- MODULE GraphAlgo ---------------------------------
(***************************************************************************)
(* The algorithms of mini-graph-db (graph_algo.c).  The weight, capacity   *)
(* or cost of an edge is its type, as a caller's function may say.         *)
(***************************************************************************)
EXTENDS GraphTraversal

CONSTANTS DampNum, DampDen,    \* the damping factor as a fraction
          RankRounds           \* rounds of PageRank and of label propagation

NodeSeq(g) == [v \in NodesOf(g) |-> v]
OutDegree(g, v) == Len(g.adj[v])
InDegree(g, v)  == Cardinality({e \in EdgesOf(g) : g.edges[e].to = v})

\* Pairs <<key, id>> sorted by exchanging i and j > i when j's key is smaller.
ExchangeSorted(s) ==
  LET n == Len(s)
      Exchange(t, k) ==
        LET i == ((k - 1) \div n) + 1
            j == ((k - 1) % n) + 1
        IN  IF i < j /\ t[j][1] < t[i][1] THEN [t EXCEPT ![i] = t[j], ![j] = t[i]] ELSE t
  IN  FoldLeft(Exchange, s, [k \in 1..(n * n) |-> k])

-----------------------------------------------------------------------------
(* Union-find.  Path halving changes no root and is left out.               *)

Singletons(g) == [parent |-> NodeSeq(g), rank |-> [v \in NodesOf(g) |-> 0]]

RECURSIVE Root(_, _)
Root(uf, x) == IF uf.parent[x] = x THEN x ELSE Root(uf, uf.parent[x])

Union(uf, x, y) ==
  LET rx == Root(uf, x)
      ry == Root(uf, y)
  IN  IF rx = ry THEN uf
      ELSE IF uf.rank[rx] < uf.rank[ry] THEN [uf EXCEPT !.parent[rx] = ry]
      ELSE [uf EXCEPT !.parent[ry] = rx,
                      !.rank[rx] = IF uf.rank[rx] = uf.rank[ry] THEN @ + 1 ELSE @]

\* The number of each node's component; components are numbered as they come.
ConnectedComponents(g) ==
  LET uf    == FoldLeft(LAMBDA u, e : Union(u, e.from, e.to), Singletons(g), g.edges)
      roots == FoldLeft(LAMBDA r, v : IF Root(uf, v) \in ToSet(r) THEN r
                                      ELSE Append(r, Root(uf, v)), <<>>, NodeSeq(g))
  IN  [v \in NodesOf(g) |-> CHOOSE c \in DOMAIN roots : roots[c] = Root(uf, v)]

\* Edges from light to heavy, each taken when it joins two trees; directions
\* do not matter.
MstKruskal(g) ==
  LET sorted == ExchangeSorted([e \in EdgesOf(g) |-> <<g.edges[e].type, e>>])
      Taken(s, p) ==
        LET e == g.edges[p[2]]
        IN  IF Len(s.mst) >= Len(g.nodes) - 1 \/ Root(s.uf, e.from) = Root(s.uf, e.to) THEN s
            ELSE [uf |-> Union(s.uf, e.from, e.to), mst |-> Append(s.mst, p)]
  IN  FoldLeft(Taken, [uf |-> Singletons(g), mst |-> <<>>], sorted).mst

\* The tree grows from the first node, along the adjacency lists.
RECURSIVE PrimRounds(_, _)
PrimRounds(g, s) ==
  LET open == {v \in NodesOf(g) \ s.done : s.key[v] < Infinity}
      Lighter(t, u, a) ==
        IF a.to \in t.done \/ g.edges[a.edge].type >= t.key[a.to] THEN t
        ELSE [t EXCEPT !.key[a.to] = g.edges[a.edge].type, !.parent[a.to] = u]
  IN  IF open = {} THEN s
      ELSE LET u == Nearest(s.key, open)
               t == [s EXCEPT !.done = @ \cup {u},
                              !.mst = IF s.parent[u] = 0 THEN @
                                      ELSE Append(@, <<s.key[u], s.parent[u], u>>)]
           IN  PrimRounds(g, FoldLeft(LAMBDA x, a : Lighter(x, u, a), t, g.adj[u]))

MstPrim(g) ==
  IF g.nodes = <<>> THEN <<>>
  ELSE PrimRounds(g, [key |-> [v \in NodesOf(g) |-> IF v = 1 THEN 0 ELSE Infinity],
                      parent |-> [v \in NodesOf(g) |-> 0], done |-> {}, mst |-> <<>>]).mst

-----------------------------------------------------------------------------
\* Nodes without an edge into them first; a node follows when the last edge
\* into it has been counted off.
RECURSIVE Peel(_, _)
Peel(g, s) ==
  IF s.front = Len(s.queue) THEN s
  ELSE LET off(t, a) == [t EXCEPT !.deg[a.to] = @ - 1,
                                  !.queue = IF t.deg[a.to] = 1 THEN Append(@, a.to) ELSE @]
       IN  Peel(g, FoldLeft(off, [s EXCEPT !.front = @ + 1], g.adj[s.queue[s.front + 1]]))

TopologicalSort(g) ==
  Peel(g, [deg |-> [v \in NodesOf(g) |-> InDegree(g, v)], front |-> 0,
           queue |-> SelectSeq(NodeSeq(g), LAMBDA v : InDegree(g, v) = 0)]).queue

\* From idx back to the node where the cycle closes.
RECURSIVE Back(_, _, _)
Back(parent, idx, ni) == IF idx = ni THEN <<ni>> ELSE <<idx>> \o Back(parent, parent[idx], ni)

\* state: 0 new, 1 on the path, 2 done.
RECURSIVE DfsCycle(_, _, _)
DfsCycle(g, idx, s) ==
  LET Seen(t, a) ==
        IF t.cycle # <<>> THEN t
        ELSE IF t.state[a.to] = 1 THEN [t EXCEPT !.cycle = Back(t.parent, idx, a.to)]
        ELSE IF t.state[a.to] = 0 THEN DfsCycle(g, a.to, [t EXCEPT !.parent[a.to] = idx])
        ELSE t
      r == FoldLeft(Seen, [s EXCEPT !.state[idx] = 1], g.adj[idx])
  IN  IF r.cycle # <<>> THEN r ELSE [r EXCEPT !.state[idx] = 2]

CycleDetection(g) ==
  FoldLeft(LAMBDA s, v : IF s.cycle # <<>> \/ s.state[v] # 0 THEN s ELSE DfsCycle(g, v, s),
           [state |-> [v \in NodesOf(g) |-> 0], parent |-> [v \in NodesOf(g) |-> 0],
            cycle |-> <<>>], NodeSeq(g)).cycle

RECURSIVE KosarajuDfs1(_, _, _)
KosarajuDfs1(g, v, s) ==
  LET r == FoldLeft(LAMBDA t, a : IF a.to \in t.visited THEN t ELSE KosarajuDfs1(g, a.to, t),
                    [s EXCEPT !.visited = @ \cup {v}], g.adj[v])
  IN  [r EXCEPT !.finish = Append(@, v)]

\* Backwards: on to every node that has v in its list.
RECURSIVE KosarajuDfs2(_, _, _, _)
KosarajuDfs2(g, v, comp, scc) ==
  FoldLeft(LAMBDA c, i : IF c[i] = 0 /\ v \in ToSet(Neighbors(g, i))
                         THEN KosarajuDfs2(g, i, c, scc) ELSE c,
           [comp EXCEPT ![v] = scc], NodeSeq(g))

SccKosaraju(g) ==
  LET first == FoldLeft(LAMBDA s, v : IF v \in s.visited THEN s ELSE KosarajuDfs1(g, v, s),
                        [visited |-> {}, finish |-> <<>>], NodeSeq(g))
  IN  FoldLeft(LAMBDA s, v : IF s.comp[v] # 0 THEN s
                             ELSE [comp |-> KosarajuDfs2(g, v, s.comp, s.count + 1),
                                   count |-> s.count + 1],
               [comp |-> [v \in NodesOf(g) |-> 0], count |-> 0], Reverse(first.finish))

-----------------------------------------------------------------------------
\* A* over functions: h is what the heuristic says of each node.
RECURSIVE AstarRounds(_, _, _, _)
AstarRounds(g, target, h, s) ==
  LET open == {v \in NodesOf(g) \ s.done : s.f[v] < Infinity}
      Better(t, u, a) ==
        LET alt == t.dist[u] + g.edges[a.edge].type
        IN  IF a.to \in t.done \/ alt >= t.dist[a.to] THEN t
            ELSE [t EXCEPT !.dist[a.to] = alt, !.f[a.to] = alt + h[a.to], !.parent[a.to].node = u]
  IN  IF open = {} THEN s
      ELSE LET u == Nearest(s.f, open)
           IN  IF u = target THEN s
               ELSE AstarRounds(g, target, h,
                      FoldLeft(LAMBDA t, a : Better(t, u, a), [s EXCEPT !.done = @ \cup {u}],
                               g.adj[u]))

AstarSearch(g, start, target, h) ==
  LET s == AstarRounds(g, target, h,
             [dist |-> [v \in NodesOf(g) |-> IF v = start THEN 0 ELSE Infinity],
              f |-> [v \in NodesOf(g) |-> IF v = start THEN h[v] ELSE Infinity],
              parent |-> [v \in NodesOf(g) |-> Origin], done |-> {}])
  IN  IF s.parent[target].node = 0 /\ start # target THEN <<>>
      ELSE Chain(s.parent, start, target).nodes

\* Edges count 1 whatever their weight, and only from "from" to "to".
FloydWarshall(g) ==
  LET n  == Len(g.nodes)
      d0 == [p \in NodesOf(g) \X NodesOf(g) |->
               IF \E e \in EdgesOf(g) : <<g.edges[e].from, g.edges[e].to>> = p THEN 1
               ELSE IF p[1] = p[2] THEN 0 ELSE Infinity]
      Through(d, t) == LET via == d[<<t[2], t[1]>>] + d[<<t[1], t[3]>>]
                       IN  IF via < d[<<t[2], t[3]>>] THEN [d EXCEPT ![<<t[2], t[3]>>] = via] ELSE d
      triples == [x \in 1..(n * n * n) |->
                    <<((x - 1) \div (n * n)) + 1, (((x - 1) \div n) % n) + 1, ((x - 1) % n) + 1>>]
  IN  FoldLeft(Through, d0, triples)

-----------------------------------------------------------------------------
\* The last of parallel edges gives the capacity.
Capacities(g) ==
  FoldLeft(LAMBDA r, e : [r EXCEPT ![<<e.from, e.to>>] = e.type],
           [p \in NodesOf(g) \X NodesOf(g) |-> 0], g.edges)

RECURSIVE Augmenting(_, _, _, _)
Augmenting(g, residual, sink, s) ==
  IF s.front = Len(s.queue) \/ sink \in DOMAIN s.parent THEN s.parent
  ELSE LET u == s.queue[s.front + 1]
           Reached(t, v) ==
             IF v \in DOMAIN t.parent \/ residual[<<u, v>>] <= 0 \/ sink \in DOMAIN t.parent THEN t
             ELSE [t EXCEPT !.parent = @ @@ (v :> [node |-> u, edge |-> 0]), !.queue = Append(@, v)]
       IN  Augmenting(g, residual, sink, FoldLeft(Reached, [s EXCEPT !.front = @ + 1], NodeSeq(g)))

\* Slip: nothing flows back.
PushedForward(residual, path, flow) ==
  FoldLeft(LAMBDA r, i : [r EXCEPT ![<<path[i], path[i + 1]>>] = @ - flow],
           residual, [i \in 1..(Len(path) - 1) |-> i])

PushedAlong(residual, path, flow) ==
  FoldLeft(LAMBDA r, i : [r EXCEPT ![<<path[i], path[i + 1]>>] = @ - flow,
                                   ![<<path[i + 1], path[i]>>] = @ + flow],
           residual, [i \in 1..(Len(path) - 1) |-> i])

RECURSIVE EdmondsKarp(_, _, _, _)
EdmondsKarp(g, residual, source, sink) ==
  LET parent == Augmenting(g, residual, sink,
                  [front |-> 0, queue |-> <<source>>, parent |-> source :> Origin])
  IN  IF source = sink \/ sink \notin DOMAIN parent THEN 0
      ELSE LET path == Chain(parent, source, sink).nodes
               flow == Min({residual[<<path[i], path[i + 1]>>] : i \in 1..(Len(path) - 1)})
           IN  flow + EdmondsKarp(g, PushedAlong(residual, path, flow), source, sink)

MaxFlow(g, source, sink) == EdmondsKarp(g, Capacities(g), source, sink)

\* Nodes of high degree first, each with the least colour that no neighbour of
\* its list has yet; -1 stands for no colour.
GraphColoring(g) ==
  LET order == ExchangeSorted([v \in NodesOf(g) |-> <<-OutDegree(g, v), v>>])
  IN  FoldLeft(LAMBDA c, p :
                 LET used == {c[w] : w \in ToSet(Neighbors(g, p[2]))}
                 IN  [c EXCEPT ![p[2]] = CHOOSE x \in (0..Len(g.nodes)) \ used :
                                           \A y \in (0..Len(g.nodes)) \ used : x <= y],
               [v \in NodesOf(g) |-> -1], order)

\* PageRank in whole numbers: every round multiplies the unit by the scale.
RankRound(g, r) ==
  LET n    == Len(g.nodes)
      degs == {OutDegree(g, v) : v \in NodesOf(g)} \ {0}
      L    == FoldSet(LAMBDA d, p : d * p, 1, degs)
      left == FoldSet(LAMBDA v, x : IF OutDegree(g, v) = 0 THEN x + r.pr[v] ELSE x, 0, NodesOf(g))
      base == (DampDen - DampNum) * r.unit * L + DampNum * left * L
      Shared(pr, v) ==
        FoldLeft(LAMBDA p, a : [p EXCEPT ![a.to] =
                                  @ + DampNum * n * (L \div OutDegree(g, v)) * r.pr[v]],
                 pr, g.adj[v])
  IN  [unit |-> r.unit * DampDen * n * L,
       pr |-> FoldLeft(Shared, [v \in NodesOf(g) |-> base], NodeSeq(g))]

RECURSIVE PageRank(_, _)
PageRank(g, rounds) ==
  IF rounds = 0 THEN [unit |-> Len(g.nodes), pr |-> [v \in NodesOf(g) |-> 1]]
  ELSE RankRound(g, PageRank(g, rounds - 1))

\* A node takes the label most frequent in its list, the least of those as
\* frequent; the labels of this round count at once.
Relabelled(g, labels, v) ==
  LET near    == [i \in DOMAIN g.adj[v] |-> labels[g.adj[v][i].to]]
      freq(l) == Cardinality({i \in DOMAIN near : near[i] = l})
      Best(b, l) == IF freq(l) > b.freq \/ (freq(l) = b.freq /\ l < b.label)
                    THEN [label |-> l, freq |-> freq(l)] ELSE b
  IN  IF near = <<>> THEN labels
      ELSE [labels EXCEPT ![v] = FoldLeft(Best, [label |-> labels[v], freq |-> 0], near).label]

RECURSIVE LabelPropagation(_, _)
LabelPropagation(g, rounds) ==
  IF rounds = 0 THEN NodeSeq(g)
  ELSE FoldLeft(LAMBDA labels, v : Relabelled(g, labels, v),
                LabelPropagation(g, rounds - 1), NodeSeq(g))

-----------------------------------------------------------------------------
(* What the algorithms promise, against definitions over sets.              *)

AllDirected(g)   == \A e \in EdgesOf(g) : g.edges[e].directed
NoneDirected(g)  == \A e \in EdgesOf(g) : ~g.edges[e].directed
\* The same graph with every edge undirected.
Undirected(g) ==
  [g EXCEPT !.edges = [e \in EdgesOf(g) |-> [g.edges[e] EXCEPT !.directed = FALSE]]]
\* The other edges become loops.
With(g, es) ==
  [g EXCEPT !.edges = [e \in EdgesOf(g) |-> IF e \in es THEN g.edges[e]
                         ELSE [g.edges[e] EXCEPT !.to = g.edges[e].from]]]
Weight(g, es) == FoldSet(LAMBDA e, x : x + g.edges[e].type, 0, es)
Acyclic(g) == \A v, w \in NodesOf(g) : w \in Step(g, v) => v \notin Reach(g, w)
\* The least weight of edges that keep together what the graph has together.
LeastTree(g) ==
  LET together == [v \in NodesOf(g) |-> Reach(g, v)]
  IN  Min({Weight(g, es) : es \in {x \in SUBSET EdgesOf(g) :
             \A v \in NodesOf(g) : Reach(With(g, x), v) = together[v]}})
\* The least capacity over which every way from s to t leads; an undirected edge is a way
\* in both directions.
LeastCut(g, s, t) ==
  LET Leaves(e, side) == \/ e.from \in side /\ e.to \notin side
                         \/ ~e.directed /\ e.to \in side /\ e.from \notin side
      cut(side) == Weight(g, {e \in EdgesOf(g) : Leaves(g.edges[e], side)})
  IN  Min({cut({s} \cup x) : x \in SUBSET (NodesOf(g) \ {s, t})})
NoneBeside(g) ==
  \A e, f \in EdgesOf(g) :
    g.edges[e].from = g.edges[f].from /\ g.edges[e].to = g.edges[f].to => e = f

\* Two nodes share a component exactly when some chain of edges joins them,
\* whatever their directions, and a strong component when each reaches the
\* other; components are numbered without gaps.  A graph of directed edges is
\* sorted completely exactly when it has no cycle, and then every edge leads
\* forward; a cycle is reported exactly when there is one, and is one.
PartitionsAreRight ==
  Holding("graph") =>
    LET g   == handle
        cc  == ConnectedComponents(g)
        scc == SccKosaraju(g)
        cyc == CycleDetection(g)
        top == TopologicalSort(g)
        at(v) == CHOOSE i \in DOMAIN top : top[i] = v
    IN  /\ \A v, w \in NodesOf(g) :
             /\ cc[v] = cc[w] <=> w \in Reach(Undirected(g), v)
             /\ scc.comp[v] = scc.comp[w] <=> w \in Reach(g, v) /\ v \in Reach(g, w)
        /\ {cc[v] : v \in NodesOf(g)} = 1..Cardinality({cc[v] : v \in NodesOf(g)})
        /\ {scc.comp[v] : v \in NodesOf(g)} = 1..scc.count
        /\ cyc = <<>> <=> Acyclic(g)
        /\ \A i \in DOMAIN cyc : cyc[i] \in Step(g, cyc[(i % Len(cyc)) + 1])
        /\ AllDirected(g) =>
             /\ Len(top) = Len(g.nodes) <=> Acyclic(g)
             /\ IsInjective(top)
             /\ Acyclic(g) => \A e \in EdgesOf(g) : at(g.edges[e].from) < at(g.edges[e].to)

\* Kruskal's forest is lightest and without a cycle, and so is Prim's tree of a
\* connected graph of undirected edges.  A* with no heuristic or an exact one is
\* as cheap as Dijkstra.  Where edges are directed and no two lead from one node
\* to the same other, the flow is the least cut of the edges; an undirected edge
\* counts one way and of parallel ones the last alone, so that it may be less
\* elsewhere, and is never more.  All distances are numbers of edges.  Neighbours
\* over an undirected edge have different colours.  The ranks add up to one, and a
\* label comes from a node that can be reached.
OptimaAreRight ==
  Holding("graph") =>
    LET g     == handle
        mst   == MstKruskal(g)
        prim  == MstPrim(g)
        fw    == FloydWarshall(g)
        color == GraphColoring(g)
        ranks == PageRank(g, RankRounds)
        dist  == [v \in NodesOf(g) |-> Costs(g, v)]
        spread == LabelPropagation(g, RankRounds)
        sum(s) == FoldLeft(LAMBDA x, p : x + p[1], 0, s)
    IN  /\ sum(mst) = LeastTree(Undirected(g))
        /\ Len(mst) = Len(g.nodes) - Cardinality({ConnectedComponents(g)[v] : v \in NodesOf(g)})
        /\ (NoneDirected(g) /\ g.nodes # <<>> /\ Reach(g, 1) = NodesOf(g)) =>
             sum(prim) = LeastTree(g) /\ Len(prim) = Len(g.nodes) - 1
        /\ \A s \in NodesOf(g) :
             LET hops  == Hops(g, s)
                 costs == dist[s]
             IN  \A t \in NodesOf(g) :
                   /\ (s # t /\ AllDirected(g)) =>
                        fw[<<s, t>>] = IF t \in Reach(g, s) THEN hops[t] ELSE Infinity
                   /\ s # t =>
                        LET flow == MaxFlow(g, s, t)
                            cut  == LeastCut(g, s, t)
                        IN  flow <= cut /\ (AllDirected(g) /\ NoneBeside(g) => flow = cut)
                   /\ \A h \in {[v \in NodesOf(g) |-> 0], [v \in NodesOf(g) |-> dist[v][t]]} :
                        LET path == AstarSearch(g, s, t, h)
                        IN  IF costs[t] >= Infinity THEN path = <<>>
                            ELSE /\ path[1] = s /\ Last(path) = t
                                 /\ \A i \in 1..(Len(path) - 1) :
                                      /\ path[i + 1] \in Step(g, path[i])
                                      /\ costs[path[i]] < costs[path[i + 1]]
                                      /\ costs[path[i + 1]] =
                                           costs[path[i]] + dist[path[i]][path[i + 1]]
        /\ \A e \in EdgesOf(g) : ~g.edges[e].directed /\ g.edges[e].from # g.edges[e].to =>
             color[g.edges[e].from] # color[g.edges[e].to]
        /\ FoldSet(LAMBDA v, x : x + ranks.pr[v], 0, NodesOf(g)) = ranks.unit
        /\ \A v \in NodesOf(g) : ranks.pr[v] > 0 /\ spread[v] \in Reach(g, v)

-----------------------------------------------------------------------------
(***************************************************************************)
(* The metrics of mini-graph-db (graph_metrics.c).  A quotient is a pair   *)
(* <<numerator, denominator>>; betweenness is counted in units of one      *)
(* Unit-th, a multiple of the path counts that occur.                      *)
(***************************************************************************)
Unit == 144

Sum(S, f) == FoldSet(LAMBDA v, x : x + f[v], 0, S)

\* A new node gets its distance; over every edge to the next distance the
\* number of shortest paths grows and the predecessor is noted.
Counted(s, v, a) ==
  LET t == IF a.to \in DOMAIN s.dist THEN s
           ELSE [s EXCEPT !.dist = @ @@ (a.to :> s.dist[v] + 1), !.queue = Append(@, a.to)]
  IN  IF t.dist[a.to] # t.dist[v] + 1 THEN t
      ELSE [t EXCEPT !.sigma[a.to] = @ + t.sigma[v], !.pred[a.to] = Append(@, v)]

RECURSIVE Forward(_, _)
Forward(g, s) ==
  IF s.front = Len(s.queue) THEN s
  ELSE LET v == s.queue[s.front + 1]
       IN  Forward(g, FoldLeft(LAMBDA t, a : Counted(t, v, a), [s EXCEPT !.front = @ + 1], g.adj[v]))

FromSource(g, v) ==
  Forward(g, [queue |-> <<v>>, front |-> 0, dist |-> v :> 0,
              sigma |-> [w \in NodesOf(g) |-> IF w = v THEN 1 ELSE 0],
              pred |-> [w \in NodesOf(g) |-> <<>>]])

\* The dependencies on source v, from the farthest node back.
Dependencies(g, v) ==
  LET s == FromSource(g, v)
      Gives(delta, w) ==
        FoldLeft(LAMBDA d, p : [d EXCEPT ![p] = @ + (s.sigma[p] * (Unit + d[w])) \div s.sigma[w]],
                 delta, s.pred[w])
  IN  FoldLeft(Gives, [w \in NodesOf(g) |-> 0], Reverse(s.queue))

\* Nodes with their betweenness, the largest first.
Betweenness(g) ==
  LET cb == [v \in NodesOf(g) |->
               Sum(NodesOf(g) \ {v}, [s \in NodesOf(g) |-> Dependencies(g, s)[v]])]
  IN  ExchangeSorted([v \in NodesOf(g) |-> <<-cb[v], v>>])

\* Fewer than two nodes divide by one.
DegreeCentrality(g) ==
  [v \in NodesOf(g) |-> <<OutDegree(g, v), IF Len(g.nodes) > 1 THEN Len(g.nodes) - 1 ELSE 1>>]

Others(g, v) == {w \in DOMAIN FromSource(g, v).dist : w # v}

Closeness(g) ==
  [v \in NodesOf(g) |->
     IF Others(g, v) = {} THEN <<0, 1>>
     ELSE <<Cardinality(Others(g, v)), Sum(Others(g, v), FromSource(g, v).dist)>>]

\* Betweenness is merged by place, though it comes sorted.
CentralityAll(g) ==
  [v \in NodesOf(g) |-> [degree |-> DegreeCentrality(g)[v], between |-> -Betweenness(g)[v][1],
                         close |-> Closeness(g)[v]]]

\* -1 when some node does not reach every other.
Diameter(g) ==
  IF \E v \in NodesOf(g) : DOMAIN FromSource(g, v).dist # NodesOf(g) THEN -1
  ELSE Max({0} \cup {FromSource(g, p[1]).dist[p[2]] : p \in NodesOf(g) \X NodesOf(g)})

AveragePathLength(g) ==
  IF Len(g.nodes) <= 1 THEN <<0, 1>>
  ELSE LET n == Sum(NodesOf(g), [v \in NodesOf(g) |-> Cardinality(Others(g, v))])
           d == Sum(NodesOf(g), [v \in NodesOf(g) |-> Sum(Others(g, v), FromSource(g, v).dist)])
       IN  IF n = 0 THEN <<0, 1>> ELSE <<d, n>>

\* The pairs of entries of v's list whose first is linked to the second.
LinkedPairs(g, v) ==
  LET near == Neighbors(g, v)
  IN  Cardinality({p \in (DOMAIN near) \X (DOMAIN near) :
                     p[1] < p[2] /\ near[p[2]] \in ToSet(Neighbors(g, near[p[1]]))})

TriangleCount(g) == Sum(NodesOf(g), [v \in NodesOf(g) |-> LinkedPairs(g, v)]) \div 3

LocalClustering(g, v) ==
  LET d == OutDegree(g, v) IN IF d < 2 THEN <<0, 1>> ELSE <<2 * LinkedPairs(g, v), d * (d - 1)>>

GlobalClustering(g) ==
  LET triplets == Sum(NodesOf(g), [v \in NodesOf(g) |->
                                     (OutDegree(g, v) * (OutDegree(g, v) - 1)) \div 2])
  IN  IF triplets = 0 THEN <<0, 1>> ELSE <<3 * TriangleCount(g), triplets>>

\* The first edge speaks for all.
IsDirected(g) == g.edges # <<>> /\ g.edges[1].directed

Density(g) ==
  LET n == Len(g.nodes)
      m == Len(g.edges)
  IN  IF n <= 1 THEN <<0, 1>> ELSE <<IF IsDirected(g) THEN m ELSE 2 * m, n * (n - 1)>>

MaxDegree(g) == Max({0} \cup {OutDegree(g, v) : v \in NodesOf(g)})
MinDegree(g) == IF g.nodes = <<>> THEN 0 ELSE Min({OutDegree(g, v) : v \in NodesOf(g)})

\* Degrees that occur, ascending, with the number of nodes that have each.
DegreeDistribution(g) ==
  LET degs == SetToSortSeq({OutDegree(g, v) : v \in NodesOf(g)}, <)
  IN  [i \in DOMAIN degs |->
         <<degs[i], Cardinality({v \in NodesOf(g) : OutDegree(g, v) = degs[i]})>>]

-----------------------------------------------------------------------------
\* All ways from s to t over as few edges as possible, as sequences of edges.
ShortestWays(g, s, t) ==
  LET Ends(w) == FoldLeft(LAMBDA v, e : IF v # 0 /\ Leads(g, e, v, g.edges[e].to)
                                        THEN g.edges[e].to
                                        ELSE IF v # 0 /\ Leads(g, e, v, g.edges[e].from)
                                        THEN g.edges[e].from ELSE 0, s, w)
  IN  IF t \notin Reach(g, s) THEN {}
      ELSE {w \in [1..Hops(g, s)[t] -> EdgesOf(g)] : Ends(w) = t}

\* The inner nodes that a way from s passes.
Passes(g, s, w, v) ==
  \E i \in 1..(Len(w) - 1) :
    /\ {g.edges[w[i]].from, g.edges[w[i]].to} \cap {v} # {}
    /\ {g.edges[w[i + 1]].from, g.edges[w[i + 1]].to} \cap {v} # {}
    /\ Hops(g, s)[v] = i

\* The array of predecessors has a place per node, so nodes with more edges
\* between them than there are nodes are out of the question.
Roomy(g) == \A v, w \in NodesOf(g) :
              Cardinality({e \in EdgesOf(g) : Leads(g, e, v, w)}) <= Len(g.nodes)
Simple(g) ==
  /\ \A e \in EdgesOf(g) : g.edges[e].from # g.edges[e].to
  /\ \A d, e \in EdgesOf(g) : d # e =>
       {g.edges[d].from, g.edges[d].to} # {g.edges[e].from, g.edges[e].to}

\* Brandes' accumulation gives every node its share of the shortest paths
\* between the others, counted one by one; diameter, closeness and average
\* length are those of the distances; every triangle of a simple undirected
\* graph counts once, its quotients are at most one, and the degrees add up to
\* the ends of the edges.
MetricsAreRight ==
  (Holding("graph") /\ handle.nodes # <<>> /\ Roomy(handle)) =>
    LET g   == handle
        N   == NodesOf(g)
        btw == Betweenness(g)
        hops == [v \in N |-> Hops(g, v)]
        far == UNION {{hops[v][w] : w \in DOMAIN hops[v]} : v \in N}
        deg == DegreeDistribution(g)
        Share(s, t, v) == LET ways == ShortestWays(g, s, t)
                          IN  IF ways = {} THEN 0
                              ELSE (Unit * Cardinality({w \in ways : Passes(g, s, w, v)}))
                                     \div Cardinality(ways)
        corners(T) == \A v, w \in T : v # w => w \in Step(g, v)
    IN  /\ \A i \in DOMAIN btw :
             -btw[i][1] = FoldSet(LAMBDA p, x : x + Share(p[1], p[2], btw[i][2]), 0,
                                  {p \in (N \ {btw[i][2]}) \X (N \ {btw[i][2]}) : p[1] # p[2]})
        /\ Diameter(g) = IF \A v \in N : Reach(g, v) = N THEN Max(far) ELSE -1
        /\ \A v \in N : FromSource(g, v).dist = hops[v]
        /\ (Simple(g) /\ NoneDirected(g)) =>
             TriangleCount(g) = Cardinality({T \in SUBSET N : Cardinality(T) = 3 /\ corners(T)})
        /\ FoldLeft(LAMBDA x, d : x + d[1] * d[2], 0, deg)
             = Len(g.edges) + Cardinality({e \in EdgesOf(g) : ~g.edges[e].directed})
        /\ FoldLeft(LAMBDA x, d : x + d[2], 0, deg) = Len(g.nodes)
        /\ \A v \in N :
             /\ hops[v] # (v :> 0) =>
                  CentralityAll(g)[v].close =
                    <<Cardinality(DOMAIN hops[v]) - 1, Sum(DOMAIN hops[v], hops[v])>>
             /\ \E w \in N : CentralityAll(g)[v].between = -btw[w][1]
        /\ AveragePathLength(g)[1] = Sum(N, [v \in N |-> Sum(DOMAIN hops[v], hops[v])])
        /\ (Simple(g) /\ NoneDirected(g)) =>
             \A q \in {Density(g), GlobalClustering(g)} \cup {LocalClustering(g, v) : v \in N} :
               q[1] <= q[2]
        /\ MinDegree(g) = deg[1][1] /\ MaxDegree(g) = Last(deg)[1]
=============================================================================
