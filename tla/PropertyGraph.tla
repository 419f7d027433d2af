----------------------------- MODULE PropertyGraph -----------------------------
(***************************************************************************)
(* The property graph of mini-graph-db (property_graph.c) and the label,   *)
(* type and property indexes built over it (graph_index.c).  Node and edge *)
(* ids are counted from 1 and nothing is removed, so a node is the place   *)
(* of its record in "nodes" and an edge the place of its in "edges".       *)
(* "adj" has the adjacency lists, head first.                              *)
(***************************************************************************)
EXTENDS Handle, Integers, FiniteSets, SequencesExt

CONSTANTS NodeCap, EdgeCap,            \* MAX_NODES, MAX_EDGES
          LabelCap, PropCap,           \* MAX_NODE_LABELS, MAX_NODE_PROPERTIES
          IndexCap, ListCap,           \* INDEX_BUCKETS, MAX_INDEX_ENTRIES
          Labels, PropKeys, PropVals,  \* what callers give to nodes
          EdgeTypes,                   \* numbers: the caller's weight of an edge
          Seeds                        \* graphs to start from; see Built

ASSUME GraphAssumption ==
  /\ IndexCap \in Nat /\ ListCap \in Nat
  /\ \A seed \in Seeds : seed.n \in Nat /\ seed.room \in Nat
                        /\ seed.edges \in Seq(Nat \X Nat \X EdgeTypes \X BOOLEAN)

\* room: how many more changes the caller makes, a bound.
NewGraph == [kind |-> "graph", nodes |-> <<>>, edges |-> <<>>, adj |-> <<>>, room |-> 0]

NodesOf(g) == DOMAIN g.nodes
EdgesOf(g) == DOMAIN g.edges

CreatedNode(g) ==
  IF Len(g.nodes) >= NodeCap THEN g
  ELSE [g EXCEPT !.nodes = Append(@, [labels |-> <<>>, props |-> <<>>]),
                 !.adj   = Append(@, <<>>)]

Linked(adj, v, e, w) == [adj EXCEPT ![v] = <<[edge |-> e, to |-> w]>> \o @]

\* Slip: an undirected edge is not linked at its other end.
CreatedOneWay(g, from, to, type, directed) ==
  IF Len(g.edges) >= EdgeCap \/ from \notin NodesOf(g) \/ to \notin NodesOf(g) THEN g
  ELSE [g EXCEPT
         !.edges = Append(@, [from |-> from, to |-> to, type |-> type, directed |-> directed]),
         !.adj   = Linked(@, from, Len(g.edges) + 1, to)]

CreatedEdge(g, from, to, type, directed) ==
  IF Len(g.edges) >= EdgeCap \/ from \notin NodesOf(g) \/ to \notin NodesOf(g) THEN g
  ELSE LET e   == Len(g.edges) + 1
           out == Linked(g.adj, from, e, to)
       IN  [g EXCEPT
              !.edges = Append(@, [from |-> from, to |-> to, type |-> type,
                                   directed |-> directed]),
              !.adj   = IF directed THEN out ELSE Linked(out, to, e, from)]

\* A label is added without looking whether the node has it.
Labelled(g, v, l) ==
  IF Len(g.nodes[v].labels) >= LabelCap THEN g
  ELSE [g EXCEPT !.nodes[v].labels = Append(@, l)]

\* Properties are pairs in the order in which their keys first came.
WithProp(g, v, key, value) ==
  LET props == g.nodes[v].props
      at    == {i \in DOMAIN props : props[i][1] = key}
  IN  IF at # {} THEN [g EXCEPT !.nodes[v].props[CHOOSE i \in at : TRUE] = <<key, value>>]
      ELSE IF Len(props) >= PropCap THEN g
      ELSE [g EXCEPT !.nodes[v].props = Append(@, <<key, value>>)]

Neighbors(g, v) == [i \in DOMAIN g.adj[v] |-> g.adj[v][i].to]
OutEdges(g, v)  == [i \in DOMAIN g.adj[v] |-> g.adj[v][i].edge]
InEdges(g, v)   == FlattenSeq([e \in EdgesOf(g) |-> IF g.edges[e].to = v THEN <<e>> ELSE <<>>])
EdgesByType(g, t) ==
  FlattenSeq([e \in EdgesOf(g) |-> IF g.edges[e].type = t THEN <<e>> ELSE <<>>])

-----------------------------------------------------------------------------
(* An index is a list of names, each with the ids filed under it.           *)

Filed(idx, name, id) ==
  LET at == {i \in DOMAIN idx : idx[i].name = name}
  IN  IF at # {} THEN LET i == CHOOSE j \in at : TRUE
                      IN  IF Len(idx[i].ids) >= ListCap THEN idx
                          ELSE [idx EXCEPT ![i].ids = Append(@, id)]
      ELSE IF Len(idx) >= IndexCap THEN idx
      ELSE Append(idx, [name |-> name, ids |-> <<id>>])

\* Pairs of a name and an id, filed one after the other.
FiledAll(pairs) == FoldLeft(LAMBDA idx, p : Filed(idx, p[1], p[2]), <<>>, pairs)

\* What a node has first under a key, if anything.
FirstOf(props, key) ==
  LET at == {i \in DOMAIN props : props[i][1] = key}
  IN  IF at = {} THEN <<>> ELSE <<props[Min(at)][2]>>

Names(names, id) == [i \in DOMAIN names |-> <<names[i], id>>]

NodeIndex(g) == FiledAll(FlattenSeq([v \in NodesOf(g) |-> Names(g.nodes[v].labels, v)]))

EdgeIndex(g) == FiledAll([e \in EdgesOf(g) |-> <<g.edges[e].type, e>>])

PropertyIndex(g, key) ==
  FiledAll(FlattenSeq([v \in NodesOf(g) |-> Names(FirstOf(g.nodes[v].props, key), v)]))

Lookup(idx, name) ==
  LET at == {i \in DOMAIN idx : idx[i].name = name}
  IN  IF at = {} THEN <<>> ELSE idx[CHOOSE i \in at : TRUE].ids

-----------------------------------------------------------------------------
\* A graph of n nodes and the given edges, built by the operations.
Built(seed) ==
  LET nodes == FoldLeft(LAMBDA g, v : CreatedNode(g), NewGraph, [v \in 1..seed.n |-> v])
  IN  [FoldLeft(LAMBDA g, e : CreatedEdge(g, e[1], e[2], e[3], e[4]), nodes, seed.edges)
         EXCEPT !.room = seed.room]

GraphInit == \E seed \in Seeds : handle = Built(seed)

Change(g) == handle.room > 0 /\ handle' = [g EXCEPT !.room = handle.room - 1]

AddNode == Holding("graph") /\ Change(CreatedNode(handle))

AddEdge(from, to, type, directed) ==
  Holding("graph") /\ Change(CreatedEdge(handle, from, to, type, directed))

AddLabel(v, l) == Holding("graph") /\ Change(Labelled(handle, v, l))

SetProperty(v, key, value) == Holding("graph") /\ Change(WithProp(handle, v, key, value))

GraphNext ==
  \/ AddNode
  \/ /\ Holding("graph")
     /\ \/ \E v, w \in NodesOf(handle), t \in EdgeTypes, d \in BOOLEAN : AddEdge(v, w, t, d)
        \/ \E v \in NodesOf(handle) :
             \/ \E l \in Labels : AddLabel(v, l)
             \/ \E k \in PropKeys, x \in PropVals : SetProperty(v, k, x)

-----------------------------------------------------------------------------
\* What the records of edges say: v reaches w over edge e.
Leads(g, e, v, w) ==
  \/ g.edges[e].from = v /\ g.edges[e].to = w
  \/ ~g.edges[e].directed /\ g.edges[e].from = w /\ g.edges[e].to = v

\* The adjacency lists tell what the records of the edges tell, and an index of
\* labels, types or properties that ran into no limit finds exactly the nodes
\* or edges that have the name, in the order of their ids.
ListsAndIndexesAgree ==
  Holding("graph") =>
    LET g == handle
        Plenty(idx) == Len(idx) < IndexCap /\ \A i \in DOMAIN idx : Len(idx[i].ids) < ListCap
        Finds(idx, name, having) ==
          Plenty(idx) => /\ ToSet(Lookup(idx, name)) = having
                         /\ \A i, j \in DOMAIN Lookup(idx, name) :
                              i < j => Lookup(idx, name)[i] <= Lookup(idx, name)[j]
    IN  /\ \A v, w \in NodesOf(g), e \in EdgesOf(g) :
             Leads(g, e, v, w) <=> [edge |-> e, to |-> w] \in ToSet(g.adj[v])
        /\ \A v \in NodesOf(g) :
             ToSet(OutEdges(g, v)) = {e \in EdgesOf(g) : \E w \in NodesOf(g) : Leads(g, e, v, w)}
        /\ \A v \in NodesOf(g) : ToSet(InEdges(g, v)) = {e \in EdgesOf(g) : g.edges[e].to = v}
        /\ \A l \in Labels :
             Finds(NodeIndex(g), l, {v \in NodesOf(g) : l \in ToSet(g.nodes[v].labels)})
        /\ \A t \in EdgeTypes :
             /\ Finds(EdgeIndex(g), t, ToSet(EdgesByType(g, t)))
             /\ ToSet(EdgesByType(g, t)) = {e \in EdgesOf(g) : g.edges[e].type = t}
        /\ \A k \in PropKeys, x \in PropVals :
             Finds(PropertyIndex(g, k), x,
                   {v \in NodesOf(g) : <<k, x>> \in ToSet(g.nodes[v].props)})
-----------------------------------------------------------------------------
(* The query language (cypher_like.c).  A text is a sequence of tokens: a   *)
(* sign, a word, a quoted string.  Names are numbers; 0 stands for no name, *)
(* in an edge for every type.                                               *)

CONSTANTS Patterns,      \* what callers ask: [a, e, b], see CypherText
          MaxRows        \* MAX_RESULT_ROWS

Sign(c)   == [t |-> c, w |-> 0]
WordSign(n)   == [t |-> "word", w |-> n]
Quoted(n) == [t |-> "quoted", w |-> n]
Is(s, c)   == s # <<>> /\ Head(s).t = c
Skip(s, c) == IF Is(s, c) THEN Tail(s) ELSE s
IsString(s) == Is(s, "word") \/ Is(s, "quoted")

\* A function of the parser gives what it leaves of the text and what it found.
ParseName(s) == IF Is(s, "word") THEN <<Tail(s), Head(s).w>> ELSE <<s, 0>>

Texts == Seq([t : STRING, w : Nat])

LabelRun(text) ==
  LET Run[s \in Texts, found \in Seq(Nat)] ==
        LET r == Skip(s, ":")
        IN  IF ~Is(r, "word") THEN <<r, found>>
            ELSE Run[Tail(r), IF Len(found) < LabelCap THEN Append(found, Head(r).w) ELSE found]
  IN  Run[text, <<>>]
ParseLabels(s) == IF Is(s, ":") THEN LabelRun(Tail(s)) ELSE <<s, <<>>>>

\* The loop goes on at the same place for ever if it can skip nothing: "endless".
FilterRun(text) ==
  LET Run[s \in Texts, found \in Seq(Nat \X Nat)] ==
        LET key   == Is(s, "word")
            s1    == Skip(s, "word")
            colon == key /\ Is(s1, ":")
            s2    == IF colon THEN Tail(s1) ELSE s1
            value == colon /\ IsString(s2)
            s3    == Skip(IF value THEN Tail(s2) ELSE s2, ",")
        IN  IF s = <<>> \/ Is(s, "}") THEN <<Skip(s, "}"), found>>
            ELSE IF s3 = s THEN <<<<Sign("endless")>>, found>>
            ELSE Run[s3, IF value /\ Len(found) < PropCap
                         THEN Append(found, <<Head(s).w, Head(s2).w>>) ELSE found]
  IN  Run[text, <<>>]
ParseFilters(s) == IF Is(s, "{") THEN FilterRun(Tail(s)) ELSE <<s, <<>>>>

ParseNode(s) ==
  LET name    == ParseName(Tail(s))
      labels  == ParseLabels(name[1])
      filters == ParseFilters(labels[1])
  IN  IF ~Is(s, "(") \/ ~Is(filters[1], ")") THEN <<>>
      ELSE <<Tail(filters[1]), [name |-> name[2], labels |-> labels[2], props |-> filters[2]]>>

\* The name and type between brackets, as far as they are there.
ParseEdge(s) ==
  LET name == ParseName(s)
      r    == Skip(name[1], ":")
      type == Is(name[1], ":") /\ IsString(r)
  IN  <<Skip(IF type THEN Tail(r) ELSE r, "]"), [name |-> name[2], type |-> IF type THEN Head(r).w ELSE 0]>>

AnyEdge == [name |-> 0, type |-> 0]

\* An arrow to the right may have its dash behind the bracket, one to the left may not.
ParseArrow(s) ==
  LET right == Is(s, "-")
      r     == Skip(Skip(s, "<"), "-")
      edge  == IF Is(r, "[") THEN ParseEdge(Tail(r)) ELSE <<r, AnyEdge>>
  IN  IF right THEN <<Skip(IF Is(r, "[") THEN Skip(edge[1], "-") ELSE r, ">"), edge[2]>>
      ELSE IF Is(s, "<") /\ Is(Tail(s), "-") THEN edge ELSE <<Skip(s, "<"), AnyEdge>>

\* A pattern, or <<>>: a text with one node alone is refused.
CypherParse(s) ==
  LET a == ParseNode(s)
      e == ParseArrow(a[1])
      b == ParseNode(e[1])
  IN  IF a = <<>> THEN <<>>
      ELSE IF b = <<>> THEN <<>>
      ELSE IF b[1] # <<>> THEN <<>>
      ELSE <<[a |-> a[2], e |-> e[2], b |-> b[2]]>>

NodeFits(g, v, n) ==
  /\ ToSet(n.labels) \subseteq ToSet(g.nodes[v].labels)
  /\ \A p \in ToSet(n.props) :
       LET own == SelectSeq(g.nodes[v].props, LAMBDA q : q[1] = p[1])
       IN  own # <<>> /\ own[1][2] = p[2]

\* The direction of the arrow is not looked at, and the other node is where the
\* edge leads to, also when its list was that of this node.  Of a row the caller gets
\* what the pattern has names for.
MatchFrom(g, v, pattern) ==
  LET edges == SelectSeq(OutEdges(g, v), LAMBDA e :
                 /\ NodeFits(g, g.edges[e].to, pattern.b)
                 /\ pattern.e.type \in {0, g.edges[e].type})
  IN  IF ~NodeFits(g, v, pattern.a) THEN <<>>
      ELSE [i \in DOMAIN edges |-> [a |-> v, e |-> edges[i], b |-> g.edges[edges[i]].to]]

FirstRows(rows) == SubSeq(rows, 1, IF Len(rows) > MaxRows THEN MaxRows ELSE Len(rows))
CypherMatch(g, pattern) ==
  FirstRows(FlattenSeq([v \in NodesOf(g) |-> MatchFrom(g, v, pattern)]))
\* A pattern of one node, as a caller may make it without a text.
CypherMatchNode(g, node) ==
  FirstRows(SelectSeq([v \in NodesOf(g) |-> v], LAMBDA v : NodeFits(g, v, node)))

\* The text of a pattern: (a :label {key : "value"}) -[e :type]-> (b ...).
NodeText(n) ==
  <<Sign("(")>> \o (IF n.name = 0 THEN <<>> ELSE <<WordSign(n.name)>>)
    \o FlattenSeq([i \in DOMAIN n.labels |-> <<Sign(":"), WordSign(n.labels[i])>>])
    \o (IF n.props = <<>> THEN <<>>
        ELSE <<Sign("{")>> \o FlattenSeq([i \in DOMAIN n.props |->
               <<WordSign(n.props[i][1]), Sign(":"), Quoted(n.props[i][2]), Sign(",")>>]) \o <<Sign("}")>>)
    \o <<Sign(")")>>
EdgeText(e) ==
  <<Sign("-")>> \o (IF e = AnyEdge THEN <<>>
                    ELSE <<Sign("[")>> \o (IF e.name = 0 THEN <<>> ELSE <<WordSign(e.name)>>)
                           \o (IF e.type = 0 THEN <<>> ELSE <<Sign(":"), WordSign(e.type)>>)
                           \o <<Sign("]"), Sign("-")>>)
    \o <<Sign(">")>>
CypherText(p) == NodeText(p.a) \o EdgeText(p.e) \o NodeText(p.b)

\* The text of a pattern is read as that pattern, and while all edges are directed
\* its rows are the edges of its type between nodes that fit it, each once and
\* grouped by the first node: cypher_parse and cypher_match.  An undirected edge
\* gives a row from either end, whose other node is always the one it was drawn to.
PatternsMatch ==
  Holding("graph") =>
    \A p \in Patterns :
      LET g      == handle
          parsed == CypherParse(CypherText(p))
          rows   == CypherMatch(g, p)
          wanted == {r \in [a : NodesOf(g), e : EdgesOf(g), b : NodesOf(g)] :
                       /\ \E w \in NodesOf(g) : Leads(g, r.e, r.a, w)
                       /\ g.edges[r.e].to = r.b
                       /\ p.e.type # 0 => g.edges[r.e].type = p.e.type
                       /\ NodeFits(g, r.a, p.a) /\ NodeFits(g, r.b, p.b)}
      IN  /\ parsed = <<p>>
          /\ CypherParse(NodeText(p.a)) = <<>>
          /\ ToSet(rows) \subseteq wanted
          /\ Len(rows) < MaxRows => ToSet(rows) = wanted
          /\ (\A e \in EdgesOf(g) : g.edges[e].directed) =>
               /\ Cardinality(ToSet(rows)) = Len(rows)
               /\ \A r \in ToSet(rows) : g.edges[r.e].from = r.a
          /\ \A i, j \in DOMAIN rows : i < j => rows[i].a <= rows[j].a
          /\ LET found == CypherMatchNode(g, p.a)
             IN  Len(found) < MaxRows => ToSet(found) = {v \in NodesOf(g) : NodeFits(g, v, p.a)}
=============================================================================
