SPECIFICATION Spec
CHECK_DEADLOCK FALSE
CONSTANTS
    NodeCap = 6
    EdgeCap = 7
    LabelCap = 1
    PropCap = 1
    IndexCap = 3
    ListCap = 3
    DampNum = 1
    DampDen = 2
    RankRounds = 2
    Labels = {1}
    PropKeys = {1}
    PropVals = {1, 2}
    EdgeTypes = {1, 3}
    Seeds <- MCSeeds
    Patterns <- MCPatterns
    MaxRows = 6
    PoolFrames = 3
    PageCount = 5
    PageCells = 12
    MaxSlots = 2
    LogPages = {1, 2, 3, 4}
    LogCells = {1}
    LogRoom = 4
    StoreSeeds <- MCStoreSeeds
    TableRows = 3
    ExecBuffer = 4
    JoinHash <- MCHash
    RowValues <- MCRows
    Statements <- MCStatements
    JoinPlans <- MCJoinPlans
    TableSeeds <- MCTableSeeds
    QueryPlans <- MCQueryPlans
    QueryBuffer = 16
    SpConfigs <- MCWindows
    SpWindows = 2
    SpTimes = {0, 1, 2, 3, 4, 5}
    SpVals = {1, 4}
    SpPushes = 3
    BrokerIds = {1, 2}
    Controllers = {2}
    BrokerTopics <- MCTopics
    MaxTopics = 2
    MaxManaged = 2
    PartitionRoom = 2
    BrokerSteps = 4
    BatchMax = 2
    VarintBits = 2
    WordBits = 5
    CrcBits = 6
    CrcPoly = 21
    CodecNumbers <- MCNumbers
    CodecRecords <- MCRecords
    CodecBatch = 3
    CodecRooms = {6, 8, 15, 20, 60}
    RecordRoom = 15
    CrcData <- MCCrcData
    RleData <- MCRleData
    WireStrings <- MCTexts
    WireNumbers <- MCFirst
    WireRooms = {29, 50, 64, 80, 100, 256}
    WireMaxes = {8, 128}
    SearchDocs = {0, 1, 2}
    SearchTexts <- MCSearchTexts
    SearchSteps = 3
    TableSize = 4
    MaxPositions = 2
    SearchQueries <- MCSearchQueries
    PostingInputs <- MCPostings
    SpellWords <- MCSpellWords
    SpellLetters = {1, 2, 6}
    Vecs = {0, 6, 24}
    Queries = {0, 18}
    KnnMax = 3
    HnswM = 2
    HnswEf = 2
    HnswLevels = {0, 1}
    HnswNodes = 5
    VecIds = {1, 2}
    VecBatches <- MCBatches
    VecCapacity = 4
    Nlist = 2
    Nprobe = 1
    LshHashes <- MCHashes
    CollSteps = 4
    DbNames = {"a", "b", "c"}
    DbMax = 2
    DbSteps = 5
INVARIANTS  ListsAndIndexesAgree GraphAnswersAreRight StoredGraphsSurvive  StreamAnswersTruly EncodingsReadBack SearchesAnswerTruly
