------------------------------ MODULE GraphStorage ------------------------------
(***************************************************************************)
(* The storage of mini-graph-db (graph_storage.c): a clock buffer pool,    *)
(* slotted pages, records of nodes and edges, and a redo log.  Sizes are   *)
(* counted in cells: a number, a name or a slot takes one.  A checksum is  *)
(* taken of a page and never looked at, and is left out.                   *)
(***************************************************************************)
EXTENDS PropertyGraph

CONSTANTS PoolFrames,     \* BUFFER_POOL_SIZE
          PageCount,      \* MAX_PAGES
          PageCells,      \* room of a page for records and slots
          MaxSlots,       \* MAX_SLOTS
          StoreSeeds,     \* graphs a caller stores
          LogPages,       \* the pages of logged changes,
          LogCells,       \* and their offsets
          LogRoom         \* bound on the records a caller logs

BlankPage == [type |-> "node", records |-> <<>>, live |-> {}, free |-> 0, slots |-> 0,
              next |-> 0, body |-> [o \in LogCells |-> 0], lsn |-> 0]
Vacant    == [id |-> 0, valid |-> FALSE, dirty |-> FALSE, pin |-> 0, ref |-> FALSE,
              page |-> BlankPage]
\* "evicted": the pages that had to go, of which evict_count is the number of times.
NewPool   == [frames |-> [i \in 1..PoolFrames |-> Vacant], hand |-> 1, evicted |-> {}]

Holder(pool, pid) ==
  LET at == {i \in 1..PoolFrames : pool.frames[i].valid /\ pool.frames[i].id = pid}
  IN  IF at = {} THEN 0 ELSE Min(at)

\* bp_evict, called when no frame is vacant: at most two rounds of the hand.
RECURSIVE Sweep(_, _)
Sweep(pool, scanned) ==
  LET h  == pool.hand
      f  == pool.frames[h]
      on == [pool EXCEPT !.hand = (h % PoolFrames) + 1]
      unpinned == {i \in 1..PoolFrames : pool.frames[i].pin = 0}
  IN  IF scanned = 2 * PoolFrames
      THEN [pool |-> pool, at |-> IF unpinned = {} THEN 0 ELSE Min(unpinned)]
      ELSE IF f.pin > 0 THEN Sweep(on, scanned + 1)
      ELSE IF ~f.ref /\ f.valid THEN [pool |-> [on EXCEPT !.evicted = @ \cup {f.id}], at |-> h]
      ELSE Sweep([on EXCEPT !.frames[h].ref = FALSE], scanned + 1)

\* A page that is not in the pool comes blank: neither is the page that has to
\* go written back nor the one that comes read.  at = 0 stands for NULL.
Room(pool, empty) ==
  IF empty # {} THEN [pool |-> pool, at |-> Min(empty)] ELSE Sweep(pool, 0)
Brought(room, pid) ==
  IF room.at = 0 THEN room
  ELSE [room EXCEPT !.pool.frames[room.at] =
          [id |-> pid, valid |-> TRUE, dirty |-> FALSE, pin |-> 1, ref |-> TRUE,
           page |-> BlankPage]]
Held(pool, at, pid) ==
  IF at # 0
  THEN [pool |-> [pool EXCEPT !.frames[at].pin = @ + 1, !.frames[at].ref = TRUE], at |-> at]
  ELSE Brought(Room(pool, {i \in 1..PoolFrames : ~pool.frames[i].valid /\ pool.frames[i].pin = 0}),
               pid)
GetPage(pool, pid) == Held(pool, Holder(pool, pid), pid)

MarkDirty(pool, pid) ==
  [pool EXCEPT !.frames = [i \in 1..PoolFrames |->
     IF i = Holder(pool, pid) THEN [@[i] EXCEPT !.dirty = TRUE] ELSE @[i]]]

Unpin(pool, pid) ==
  [pool EXCEPT !.frames = [i \in 1..PoolFrames |->
     IF i = Holder(pool, pid) /\ @[i].pin > 0 THEN [@[i] EXCEPT !.pin = @ - 1] ELSE @[i]]]

\* Every dirty page to its place in the file.  Nothing reads the file, so that only which
\* pages it has is kept.
FlushAll(pool, file) ==
  LET dirty == {i \in 1..PoolFrames : pool.frames[i].valid /\ pool.frames[i].dirty}
      ids   == {pool.frames[i].id : i \in dirty}
  IN  [pool |-> [pool EXCEPT !.frames = [i \in 1..PoolFrames |->
                   IF i \in dirty THEN [pool.frames[i] EXCEPT !.dirty = FALSE]
                   ELSE pool.frames[i]]],
       file |-> ids \cup file]

-----------------------------------------------------------------------------
InitPage(type) == [BlankPage EXCEPT !.type = type, !.slots = PageCells]

HasRoom(page, r) == page.free + Len(r) <= page.slots - 1 /\ Len(page.records) < MaxSlots

Inserted(page, r) ==
  [page EXCEPT !.records = Append(@, r), !.live = @ \cup {Len(page.records) + 1},
               !.free = @ + Len(r), !.slots = @ - 1]

GetRecords(page) == SelectSeq([s \in DOMAIN page.records |-> s], LAMBDA s : s \in page.live)

\* node_record_serialize: the id, the labels behind their number, the
\* properties as keys and values behind theirs.
NodeRecord(id, n) ==
  <<id, Len(n.labels)>> \o n.labels \o <<Len(n.props)>>
    \o FlattenSeq([i \in DOMAIN n.props |-> <<n.props[i][1], n.props[i][2]>>])

\* Counts beyond the limits are cut to them.
ReadNode(r) ==
  LET labels == Min({r[2], LabelCap})
      count  == Min({r[3 + labels], PropCap})
  IN  [id |-> r[1],
       node |-> [labels |-> SubSeq(r, 3, 2 + labels),
                 props |-> [i \in 1..count |-> <<r[2 + labels + 2 * i], r[3 + labels + 2 * i]>>]]]

EdgeRecord(id, e) == <<id, e.from, e.to, IF e.directed THEN 1 ELSE 0, e.type>>

ReadEdge(r) ==
  [id |-> r[1], edge |-> [from |-> r[2], to |-> r[3], type |-> r[5], directed |-> r[4] # 0]]

-----------------------------------------------------------------------------
\* gs_alloc_page: the first page from the head of the chain on without a
\* record, which is linked to nothing; pid 0 when there is none.
Tried(r, pid, type) ==
  IF r.at = 0 THEN [pool |-> r.pool, pid |-> 0]
  ELSE IF r.pool.frames[r.at].page.records = <<>>
  THEN [pool |-> Unpin([r.pool EXCEPT !.frames[r.at].page = InitPage(type)], pid), pid |-> pid]
  ELSE [pool |-> Unpin(r.pool, pid), pid |-> 0]
FirstEmpty(pool, head, type) ==
  FoldLeft(LAMBDA s, pid : IF s.pid # 0 THEN s ELSE Tried(GetPage(s.pool, pid), pid, type),
           [pool |-> pool, pid |-> 0], [i \in 1 .. PageCount - head |-> head + i - 1])

\* Slip: the head of the other chain is taken when the own one is unset.
AllocAfter(pool, head, type) == FirstEmpty(pool, IF head = 0 THEN 2 ELSE head, type)

\* Only when that fails a page from anywhere becomes the head of the chain; the
\* search would have found it unless head is past it.
AllocPage(pool, head, type) ==
  LET r == FirstEmpty(pool, IF head = 0 THEN 1 ELSE head, type)
  IN  IF r.pid # 0 \/ head = 0 THEN r ELSE FirstEmpty(r.pool, 1, type)

\* The page a store writes to; at = 0 stands for no page.
OnPage(r, pid) == [pool |-> r.pool, pid |-> pid, at |-> r.at, ok |-> r.at # 0]
Closed(s)    == [s EXCEPT !.pool = Unpin(MarkDirty(s.pool, s.pid), s.pid)]

\* Records go to one page until it is full, then to the next that is empty.
PutIn(s, r) ==
  IF s.ok /\ HasRoom(s.pool.frames[s.at].page, r)
  THEN [s EXCEPT !.pool.frames[s.at].page = Inserted(@, r)]
  ELSE [s EXCEPT !.ok = FALSE]
PutNext(s, a, r) ==
  IF a.pid = 0 THEN [s EXCEPT !.pool = a.pool, !.pid = 0, !.ok = FALSE]
  ELSE PutIn(OnPage(GetPage(a.pool, a.pid), a.pid), r)
PutRecordIn(s, r, type) ==
  IF ~s.ok \/ HasRoom(s.pool.frames[s.at].page, r) THEN PutIn(s, r)
  ELSE PutNext(s, AllocPage(Closed(s).pool, 0, type), r)
StoredRecords(s, records, type) == FoldLeft(LAMBDA t, r : PutRecordIn(t, r, type), s, records)

\* Without nodes and without a page for them, the meta page serves.  A failed
\* call keeps its pin on the page.
NodesIn(a, records) ==
  IF a.pid = 0 /\ records # <<>> THEN [pool |-> a.pool, ok |-> FALSE]
  ELSE StoredRecords(OnPage(GetPage(a.pool, a.pid), a.pid), records, "node")
EdgesIn(a, records) ==
  IF a.pid = 0 THEN [pool |-> a.pool, at |-> 0]
  ELSE StoredRecords(OnPage(GetPage(a.pool, a.pid), a.pid), records, "edge")

\* Edges are stored when all nodes are, and what fails there is not told.
EdgesDone(s) == [pool |-> IF s.at = 0 THEN s.pool ELSE Closed(s).pool, ok |-> TRUE]
NodesDone(s, edges) ==
  IF ~s.ok THEN [pool |-> s.pool, ok |-> FALSE]
  ELSE EdgesDone(EdgesIn(AllocPage(Closed(s).pool, 0, "edge"), edges))
StoredGraph(pool, g) ==
  NodesDone(NodesIn(AllocPage(pool, 0, "node"), [v \in NodesOf(g) |-> NodeRecord(v, g.nodes[v])]),
            [e \in EdgesOf(g) |-> EdgeRecord(e, g.edges[e])])

\* The records of a chain of pages of one type, and the pool that was read.
RECURSIVE ChainFrom(_, _, _, _)
PageRecords(page) ==
  [i \in DOMAIN GetRecords(page) |-> page.records[GetRecords(page)[i]]]
ChainOn(r, pid, type, got) ==
  IF r.at = 0 THEN [pool |-> r.pool, records |-> got]
  ELSE IF r.pool.frames[r.at].page.type # type THEN [pool |-> Unpin(r.pool, pid), records |-> got]
  ELSE ChainFrom(Unpin(r.pool, pid), r.pool.frames[r.at].page.next, type,
                 got \o PageRecords(r.pool.frames[r.at].page))
ChainFrom(pool, pid, type, got) ==
  IF pid = 0 \/ pid >= PageCount THEN [pool |-> pool, records |-> got]
  ELSE ChainOn(GetPage(pool, pid), pid, type, got)
ChainRecords(pool, pid, type) == ChainFrom(pool, pid, type, <<>>)

\* The ids for which the hash of gs_load_graph falls into the bucket where
\* graph_get_node looks, of the 4096 a graph may have.
CommonBuckets == {100, 1424, 1509, 1867, 3539}

\* gs_load_graph into an empty graph: from page 1 the nodes and from page 2 the
\* edges, whose lists are then rebuilt.  byId: what graph_get_node finds.
Link(adj, x, ids) ==
  LET e == x.edge
      out == Linked(adj, e.from, x.id, e.to)
  IN  IF {e.from, e.to} \subseteq ids
      THEN IF e.directed THEN out ELSE Linked(out, e.to, x.id, e.from) ELSE adj
GraphOf(nodes, edges, ids) ==
  [nodes |-> [i \in DOMAIN nodes |-> nodes[i].node],
   edges |-> [i \in DOMAIN edges |-> edges[i].edge],
   adj |-> FoldLeft(LAMBDA adj, x : Link(adj, x, ids), [i \in DOMAIN nodes |-> <<>>], edges),
   byId |-> ids \cap CommonBuckets]
WithEdges(nodes, es) ==
  [pool |-> es.pool,
   graph |-> GraphOf(nodes, [i \in DOMAIN es.records |-> ReadEdge(es.records[i])],
                     {nodes[i].id : i \in DOMAIN nodes})]
WithNodes(ns) == WithEdges([i \in DOMAIN ns.records |-> ReadNode(ns.records[i])],
                           ChainRecords(ns.pool, 2, "edge"))
LoadedGraph(pool) == WithNodes(ChainRecords(pool, 1, "node"))

-----------------------------------------------------------------------------
(* The redo log.  What is in "memory" beyond "flushed" is lost in a crash.  *)

NewLog == [next |-> 1, memory |-> <<>>, flushed |-> 0, file |-> <<>>]

LogInsert(log, pid, o, v) ==
  [log EXCEPT !.next = @ + 1,
              !.memory = Append(@, [lsn |-> log.next, type |-> "insert", pid |-> pid, at |-> o,
                                    old |-> <<>>, new |-> v])]

LogUpdate(log, pid, o, old, v) ==
  [log EXCEPT !.next = @ + 1,
              !.memory = Append(@, [lsn |-> log.next, type |-> "update", pid |-> pid, at |-> o,
                                    old |-> <<old>>, new |-> v])]

LogCommit(log) ==
  [log EXCEPT !.file = @ \o SubSeq(log.memory, log.flushed + 1, Len(log.memory)),
              !.flushed = Len(log.memory)]

\* A mark in the file; the records in memory are dropped, flushed or not.
LogCheckpoint(log) ==
  [log EXCEPT !.next = @ + 1, !.memory = <<>>, !.flushed = 0,
              !.file = Append(@, [lsn |-> log.next, type |-> "checkpoint", pid |-> 0, at |-> 0,
                                  old |-> <<>>, new |-> 0])]

\* One record of wal_recover; all are redone, those before a checkpoint too.
RedoneIn(s, got, r) ==
  IF got.at = 0 THEN [s EXCEPT !.pool = got.pool]
  ELSE [pool |-> Unpin([got.pool EXCEPT !.frames[got.at].page.body[r.at] = r.new,
                                        !.frames[got.at].page.lsn = r.lsn], r.pid),
        redone |-> s.redone + 1]
Redone(s, r) == IF r.type = "checkpoint" THEN [s EXCEPT !.redone = 0]
                ELSE RedoneIn(s, GetPage(s.pool, r.pid), r)

Recovered(pool, log) == FoldLeft(Redone, [pool |-> pool, redone |-> 0], log.file)

-----------------------------------------------------------------------------
NoGraph == [nodes |-> <<>>, edges |-> <<>>, adj |-> <<>>, byId |-> {}]

\* gs_create puts the meta page into the pool.  A caller either logs changes,
\* as many as room says, or stores graphs: the two share nothing but the pool.
Unwritten   == [c \in LogPages \X LogCells |-> 0]
MetaPool(r) == Unpin(MarkDirty([r.pool EXCEPT !.frames[r.at].page = InitPage("meta")], 0), 0)
GStoreInit == \E room \in {0, LogRoom} :
  handle = [kind |-> "gstore", file |-> {}, log |-> NewLog, stored |-> <<>>, loaded |-> NoGraph,
            written |-> Unwritten, room |-> room,
            pool |-> MetaPool(GetPage(NewPool, 0))]

\* "stored" has what was stored and whether the call said so.
GStore(seed) ==
  /\ Holding("gstore") /\ handle.room = 0 /\ handle.log = NewLog /\ Len(handle.stored) < 2
  /\ \E g \in {Built(seed)} : \E r \in {StoredGraph(handle.pool, g)} :
       handle' = [handle EXCEPT !.pool = r.pool, !.stored = Append(@, [graph |-> g, ok |-> r.ok])]

GLoad ==
  /\ Holding("gstore") /\ Len(handle.stored) > 0
  /\ \E r \in {LoadedGraph(handle.pool)} :
       handle' = [handle EXCEPT !.pool = r.pool, !.loaded = r.graph]

GFlush ==
  /\ Holding("gstore")
  /\ LET r == FlushAll(handle.pool, handle.file)
     IN  handle' = [handle EXCEPT !.pool = r.pool, !.file = r.file]

\* "written": what has been logged and flushed, by page and offset; each change has a
\* value of its own.
GLog(pid, o, v) ==
  /\ Holding("gstore") /\ handle.room > 0
  /\ handle' = [handle EXCEPT !.room = @ - 1,
       !.log = IF handle.written[<<pid, o>>] = 0 THEN LogInsert(@, pid, o, v)
               ELSE LogUpdate(@, pid, o, handle.written[<<pid, o>>], v)]

Newest(records, written) ==
  FoldLeft(LAMBDA w, r : IF r.type = "checkpoint" THEN w ELSE [w EXCEPT ![<<r.pid, r.at>>] = r.new],
           written, records)

GCommit ==
  /\ Holding("gstore") /\ Len(handle.log.memory) > handle.log.flushed
  /\ handle' = [handle EXCEPT !.log = LogCommit(@),
       !.written = Newest(SubSeq(handle.log.memory, handle.log.flushed + 1,
                                 Len(handle.log.memory)), @)]

GCheckpoint ==
  /\ Holding("gstore") /\ handle.room > 0
  /\ handle' = [handle EXCEPT !.log = LogCheckpoint(@), !.room = @ - 1]

\* wal_recover into the pool there is.
GRecover ==
  /\ Holding("gstore") /\ handle.log.file # <<>>
  /\ handle' = [handle EXCEPT !.pool = Recovered(@, handle.log).pool]

\* gs_create after a crash or a gs_destroy, which writes the data file anew with what is
\* dirty in the pool.  A start opens the log with "w+b", which empties it, and nothing
\* reads the data file.
GRestart ==
  /\ Holding("gstore") /\ (handle.stored # <<>> \/ handle.log # NewLog)
  /\ \E file \in {handle.file, FlushAll(handle.pool, {}).file} :
       handle' = [handle EXCEPT !.file = file, !.log = NewLog, !.stored = <<>>, !.loaded = NoGraph,
                                !.written = Unwritten, !.pool = MetaPool(GetPage(NewPool, 0))]

GStoreNext ==
  \/ \E seed \in StoreSeeds : GStore(seed)
  \/ \E p \in LogPages, o \in LogCells : GLog(p, o, handle.room)
  \/ GLoad \/ GFlush \/ GCommit \/ GCheckpoint \/ GRecover \/ GRestart

-----------------------------------------------------------------------------
FitInPage(records) ==
  Len(records) <= MaxSlots /\ FoldLeft(LAMBDA x, r : x + Len(r) + 1, 0, records) <= PageCells
OnePage(g) ==
  /\ FitInPage([v \in NodesOf(g) |-> NodeRecord(v, g.nodes[v])])
  /\ FitInPage([e \in EdgesOf(g) |-> EdgeRecord(e, g.edges[e])])

\* Graphs that fit in a page of nodes and one of edges were all stored since the start,
\* the first with some of both.  As long as its two pages did not have to go, the first of them is
\* loaded as it was, its adjacency lists in the same order, whatever is stored, loaded or
\* flushed in between.  A page that had to go comes back blank, so that beyond that nodes
\* and edges may be missing or those of a later graph; they are never a mixture within.
\* No call leaves a page pinned.
SameGraph(g, r) == r.nodes = g.nodes /\ r.edges = g.edges /\ r.adj = g.adj
StoredGraphLoads ==
  LET all  == {handle.stored[i] : i \in DOMAIN handle.stored}
      g    == handle.stored[1].graph
  IN  (/\ Holding("gstore") /\ handle.stored # <<>> /\ g.nodes # <<>> /\ g.edges # <<>>
       /\ \A x \in all : x.ok /\ OnePage(x.graph)) =>
        LET r == LoadedGraph(handle.pool).graph
        IN  /\ handle.pool.evicted \cap {1, 2} = {} => SameGraph(g, r)
            /\ r.nodes \in {<<>>} \cup {x.graph.nodes : x \in all}
            /\ r.edges \in {<<>>} \cup {x.graph.edges : x \in all}
            /\ \A i \in 1..PoolFrames : handle.pool.frames[i].pin = 0

Cell(got, o) == got.pool.frames[got.at].page.body[o]

\* Redoing the log of this start over an empty pool or the one there is, once or again,
\* gives every cell the value that was flushed last, over any commits and checkpoints,
\* but for pages that had to go: their changes go with them.  What an earlier start
\* logged is not redone, since wal_create empties the file.
RedoRestoresFlushed ==
  Holding("gstore") =>
    \A start \in {NewPool, handle.pool} :
      \A once \in {Recovered(start, handle.log).pool} :
        \A pool \in {once, Recovered(once, handle.log).pool}, c \in DOMAIN handle.written :
          LET got == GetPage(pool, c[1])
          IN  c[1] \notin got.pool.evicted => Cell(got, c[2]) = handle.written[c]
=============================================================================
