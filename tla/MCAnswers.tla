------------------------------ MODULE MCAnswers ------------------------------
(***************************************************************************)
(* Instances of the components that compute answers: graphs, their         *)
(* algorithms and their store, the two query executors, the windows of a   *)
(* stream, the encodings of messages, the search engine, vectors.          *)
(***************************************************************************)
EXTENDS GraphAlgo, GraphStorage, Volcano, QueryExec, StreamProcessor, MessageCodec, SearchIndex,
        VectorIndex

-----------------------------------------------------------------------------
\* Graphs to start from: none, nodes alone, an undirected diamond, and a directed
\* graph with a triangle and a tail.  An edge is <<from, to, type, directed>>.
MCSeeds ==
  {[n |-> 0, edges |-> <<>>, room |-> 4], [n |-> 3, edges |-> <<>>, room |-> 2],
   [n |-> 4, room |-> 1,
    edges |-> <<<<1, 2, 1, FALSE>>, <<2, 4, 3, FALSE>>, <<1, 3, 3, FALSE>>, <<3, 4, 1, FALSE>>>>],
   [n |-> 4, room |-> 1,
    edges |-> <<<<1, 2, 3, TRUE>>, <<1, 3, 3, TRUE>>, <<2, 3, 1, TRUE>>, <<2, 4, 1, TRUE>>,
                <<3, 4, 3, TRUE>>>>],
   \* A flow from 1 to 6 that must take back what its first path used.
   [n |-> 6, room |-> 1,
    edges |-> <<<<1, 2, 1, TRUE>>, <<1, 3, 1, TRUE>>, <<2, 5, 1, TRUE>>, <<2, 4, 1, TRUE>>,
                <<3, 4, 1, TRUE>>, <<4, 6, 1, TRUE>>, <<5, 6, 1, TRUE>>>>]}
Node(name, labels, props) == [name |-> name, labels |-> labels, props |-> props]
MCPatterns ==
  {[a |-> Node(1, <<>>, <<>>), e |-> [name |-> 3, type |-> 0], b |-> Node(2, <<>>, <<>>)],
   [a |-> Node(0, <<1>>, <<>>), e |-> AnyEdge, b |-> Node(2, <<>>, <<>>)],
   [a |-> Node(1, <<>>, <<<<1, 2>>>>), e |-> [name |-> 0, type |-> 3], b |-> Node(0, <<1>>, <<>>)],
   [a |-> Node(1, <<>>, <<>>), e |-> [name |-> 3, type |-> 1], b |-> Node(2, <<>>, <<<<1, 1>>>>)]}
MCStoreSeeds ==
  {[n |-> 2, edges |-> <<<<1, 2, 1, FALSE>>>>, room |-> 0], [n |-> 1, edges |-> <<<<1, 1, 3, TRUE>>>>, room |-> 0],
   [n |-> 2, edges |-> <<<<1, 2, 1, TRUE>>, <<2, 1, 3, TRUE>>>>, room |-> 0],
   [n |-> 3, edges |-> <<<<1, 2, 1, TRUE>>, <<3, 2, 3, TRUE>>>>, room |-> 0],
   [n |-> 2, edges |-> <<>>, room |-> 0], [n |-> 0, edges |-> <<>>, room |-> 0]}

-----------------------------------------------------------------------------
\* Statements over table 1, and plans with the joins over both tables.
Stmt(star, n, where, order, catalog) ==
  [table |-> 1, star |-> star, cols |-> n, where |-> where, order |-> order, catalog |-> catalog]
Eq1 == [op |-> "eq", val |-> 1]
Ge2 == [op |-> "ge", val |-> 2]
MCStatements ==
  {Stmt(TRUE, 0, Eq1, FALSE, 1), Stmt(TRUE, 0, Ge2, TRUE, 1), Stmt(FALSE, 1, NoWhere, FALSE, 1),
   Stmt(FALSE, 2, Eq1, TRUE, 1), Stmt(TRUE, 0, NoWhere, TRUE, 1), Stmt(TRUE, 0, NoWhere, FALSE, 2)}
MCJoinPlans ==
  {JoinOf(j, ScanOf(1), ScanOf(2)) : j \in {"hash", "nested", "merge"}} \cup
  {SortOf(JoinOf("merge", ScanOf(1), ScanOf(2))), AggOf(ScanOf(1)),
   SortOf(FilterOf(JoinOf("hash", ScanOf(2), SortOf(ScanOf(1))), Ge2))}
MCTableSeeds ==
  {<<<<>>, <<<<1, 1>>>>>>, <<<<<<2, 1>>, <<1, 2>>>>, <<<<1, 1>>, <<2, 2>>, <<1, 2>>>>>>,
   <<<<<<2, 1>>, <<1, 1>>, <<2, 2>>>>, <<<<2, 2>>, <<2, 1>>>>>>,
   <<<<<<2, 1>>>>, <<<<2, 2>>, <<1, 1>>>>>>}
MCRows == {<<1, 2>>, <<2, 1>>}
MCHash == [v \in 1..3 |-> v % 2]

T0 == NewScanOp(<<>>)
T1 == NewScanOp(<<<<2, 1>>, <<1, 1>>, <<2, 2>>, <<1, 3>>>>)
T2 == NewScanOp(<<<<1, 1>>, <<2, 1>>, <<2, 3>>>>)
Wanted == {r \in (1..2) \X (1..3) : r[1] = 2} \cup {<<1, 3>>}
Joined == NewJoinOp(T1, T2, 1)
MCQueryPlans ==
  {T1, NewLimitOp(NewFilterOp(T1, Wanted), 2), NewLimitOp(T2, 0), NewProjectOp(NewFilterOp(T1, Wanted), <<2>>),
   NewSortOp(T1, 1, TRUE), NewLimitOp(NewSortOp(T1, 1, FALSE), 3), Joined, NewJoinOp(T0, T2, 1),
   NewJoinOp(T2, T0, 1), NewSortOp(Joined, 4, TRUE),
   NewJoinOp(NewSortOp(T1, 2, FALSE), NewLimitOp(T2, 2), 1),
   NewLimitOp(NewSortOp(NewJoinOp(T2, NewJoinOp(NewLimitOp(T2, 1), NewLimitOp(T2, 2), 1), 1), 2, TRUE), 2),
   NewLimitOp(NewJoinOp(NewLimitOp(T1, 3), NewFilterOp(T2, Wanted), 1), 2)}

-----------------------------------------------------------------------------
Config(type, size, hop, gap, grace, max) ==
  [type |-> type, size |-> size, hop |-> hop, gap |-> gap, grace |-> grace, max |-> max]
\* Two topics of the same name.
MCTopics == <<[name |-> "t", count |-> 2], [name |-> "t", count |-> 1], [name |-> "u", count |-> 1]>>
MCWindows == {Config("tumbling", 2, 0, 0, 1, 3), Config("hopping", 3, 2, 0, 1, 2),
              Config("sliding", 2, 0, 0, 1, 2), Config("session", 0, 0, 1, 1, 2)}

\* Bytes of two bits and a top bit.
Rec(time, key, value, headers) ==
  [magic |-> 2, attrs |-> 0, time |-> time, key |-> key, value |-> value, headers |-> headers]
MCRecords == {Rec(3, <<>>, <<>>, <<>>), Rec(1, <<5>>, <<1, 7, 2, 3, 0>>, <<>>),
              Rec(2, <<1>>, <<4>>, <<6, 5>>), Rec(5, <<>>, <<2>>, <<0, 1, 4, 1, 6>>)}
MCCrcData == {<<1, 6, 3>>, <<0, 0, 0>>}
MCRleData == UNION {[1..n -> {0, 2, 5}] : n \in 0..5} \cup {[i \in 1..n |-> 3] : n \in 6..10}
MCNumbers == -20..31
Text(n)   == [i \in 1..n |-> 96 + i]
MCTexts   == {Text(0), Text(3), Text(26), Text(40)}
MCFirst   == {-1, 0, 300}

-----------------------------------------------------------------------------
\* Five terms for four places of the table; a term has its letters.
Ta == <<1>>
Tb == <<2>>
Tab == <<1, 2>>
MCSearchTexts == {<<Ta, Tb>>, <<Tb, Tab, Tb, Tb>>, <<Ta, <<3>>, <<2, 1>>>>, <<Tab>>, <<>>}
\* An operator in the place of a word is the word of its letters, "~" unless it is
\* directly behind a bracket too.
Op(o) == [t |-> o, w |-> <<26>>, star |-> FALSE]
A == PlainWord(Ta)
B == PlainWord(Tb)
C == PlainWord(Tab)
MCSearchQueries ==
  {<<>>, <<A>>, <<A, B>>, <<A, Op("and"), B>>, <<A, Op("or"), B>>, <<Op("not"), A>>, <<A, Op("and"), Op("not"), B>>,
   <<A, Op("or"), B, C>>, <<C, Op("and"), A, Op("or"), Op("not"), B>>, <<A, Op("or"), Op("not"), B, Op("or"), C>>,
   <<Op("("), A, Op("or"), B, Op(")"), Op("and"), C>>, <<Op("not"), Op("("), A, Op("or"), C, Op(")")>>,
   <<StarredWord(Ta)>>, <<StarredWord(Ta), Op("and"), Op("not"), A>>, <<Op("("), A, Op(")"), Op("~"), B>>,
   <<Op("("), A, Op("or"), B, Op(")"), Op("~"), C>>,
   <<A, Op("("), Op(")"), B>>, <<A, Op(")"), B>>, <<Op("not")>>,
   <<Op("and"), A>>, <<A, Op("or"), Op("and"), B>>}
MCPostings == UNION {[1..n -> {0, 1, 2, 5, 200}] : n \in 0..4} \cup
              UNION {{[i \in 1..n |-> 1], [i \in 1..n |-> i], [i \in 1..n |-> (i * i) % 9]} : n \in {8, 15, 16, 30}}
MCSpellWords == FoldSet(LAMBDA w, words : Append(words, w), <<>>,
                        UNION {[1..n -> {1, 2}] : n \in 0..3} \cup {<<2, 6, 1>>, <<1, 6, 2>>, <<2, 1, 2, 6>>, <<6>>})

-----------------------------------------------------------------------------
MCBatches == {<<<<1, 6>>, <<1, 24>>, <<1, 0>>>>, <<<<2, 0>>>>}
\* The sign of a projection with a bias: below or above a limit.
Side(limit) == [v \in Vecs \cup Queries |-> IF v < limit THEN 0 ELSE 1]
MCHashes == {<<Side(3), Side(20)>>, <<Side(15), Side(3)>>}

-----------------------------------------------------------------------------
AnswersInit == GraphInit \/ GStoreInit \/ VolcanoInit \/ QueryInit \/ StreamInit \/ BrokersInit \/ CodecInit \/ WireInit
               \/ SearchInit \/ VectorInit
AnswersNext == GraphNext \/ GStoreNext \/ VolcanoNext \/ QueryNext \/ StreamNext \/ BrokersNext \/ ProducerNext \/ CodecNext \/ WireNext
               \/ SearchNext \/ VectorNext
Spec == AnswersInit /\ [][AnswersNext]_handle

(* The traversals, algorithms and measures of the graph library give what their
   definitions say: shortest paths, components, orders, spanning trees, flows,
   colourings, matchings, the counts behind the metrics, and patterns of the query
   language. *)
GraphAnswersAreRight ==
  PathsAreShortest /\ PartitionsAreRight /\ OptimaAreRight /\ MetricsAreRight /\ PatternsMatch

(* A graph that was stored is loaded as it was, and what the log of the store made
   durable is there after a recovery: gs_load_graph and wal_recover. *)
StoredGraphsSurvive == StoredGraphLoads /\ RedoRestoresFlushed


(* The search engine finds the documents a query asks for when they came in order,
   and no others without a "not", reads its posting lists back from their codes, and
   corrects words to the first ones of its dictionary within the distance asked for. *)
SearchesAnswerTruly ==
  IndexHoldsTexts /\ QueriesFindDocuments /\ PostingsReadBack /\ SpellingIsClose


(* Events are in the windows their times say and what is computed of them is right;
   brokers give back what they acknowledged, producers flush each record once, though to
   nobody: stream_processor.c, broker.c and producer_client.c. *)
StreamAnswersTruly == WindowsPartitionEvents /\ AggregatesAreRight /\ BrokersServe /\ BatchesComplete

(* Messages, batches, numbers, checksums and compressed bytes are read back as they
   were written, on the log and on the wire. *)
EncodingsReadBack == CodecsReadBack /\ WireReadsBack
=============================================================================
