SPECIFICATION Spec
CHECK_DEADLOCK FALSE
CONSTANTS
    LsmKeys = {1, 2, 3}
    LsmWrites = 4
    MemCap = 2
    ImmMax = 1
    LsmLevels = 3
    Level0Limit = 1
    SizeRatio = 1
    TierFiles = 3
    BlockEntries = 3
    RestartEvery = 2
    BloomOf <- FilterBits
    Missing = Missing
    SkipKeys = {1, 2, 3}
    SkipVals = {1, 2}
    MaxHeight = 3
    SnapKeys = {1, 2}
    SnapSeq = 4
    SnapMax = 2
    BlockKeys = {1, 2, 3}
    BlockVals = {1, 2}
    Buckets = 2
    CacheCap = 2
    RangeTables <- TwoTables
    RangeBounds <- Ranges
    RangeCap = 3
    RangeLimits = {1, 2, 3}
    TopByte = 3
    NumberBytes = 2
    VarintMax = 4
    KeyStrings <- MCKeyStrings
    KeyNumbers = {0, 1, 3, 4, 6, 12, 15}
    MaxParts = 2
    KKeys = {1, 2, 3}
    KVals = {1, 2}
    KMemMax = 2
    KLevels = 3
    KBaseLimit = 1
    KBits <- FilterBits
    KWrites = 4
    BpKeys = {1, 2, 3, 4, 5, 6, 7}
    BpVals = {1}
    BpMax = 2
    BpWrites = 7
    BtKeys = {1, 2, 3, 4, 5, 6}
    BtVals = {1}
    BtOrder = 4
    BtWrites = 7
    PageSize = 12
    PageHeader = 2
    SlotSize = 1
    PageSlots = 3
    TupleSizes = {1, 3, 4}
    TupleVals = {1, 2}
    PageWrites = 5
    KpPages = {1, 2, 3}
    KpFrames = 2
    KpBuckets = 2
    KpVals = {"a", "b"}
    KpPins = 2
    DmPages = 2
    RNodes = {1, 2, 3}
    RNames = {1, 2, 3}
    RVals = {1, 2}
    RBuckets = 2
    RScores = {1, 2}
    RLevels = 2
    NcKeys = {1, 2, 3}
    NcVals = {1, 2}
    NcCap = 2
    NcTimes = {0, 1, 2}
    NcFreqs = 3
    TtlKeys = {11, 12, 21}
    TtlSlots = 2
    TtlTimes = {0, 1}
    TtlNow = 2
    TtlPuts = 4
    DocNames = {"p", "q"}
    DocIds = {1, 2}
    DocBodies <- MCBodies
    DocFields = {"a", "b"}
    DocSteps = 4
    DocIndexes = 2
    ColRows = {1, 2}
    ColFamilies = {"f"}
    ColNames = {1, 2}
    ColTimes = {1, 3}
    ColNow = 2
    ColLastRow = 9
    ColVersions = 2
    ColColumns = 1
    ColPuts = 4
    ColSplits = 1
    NwKeys = {1}
    NwAppends = 4
    NwCrashes = 2
    EngKeys = {1, 2, 3, 4}
    EngWrites = 4
    EngFull = 2
    EngTableMax = 3
    EngBits <- FilterBits
    EngTables = 3
    RingPlaces <- MCRing
    RingKeys = {5, 40, 75, 95}
    RingMaxNodes = 3
    RingReplicas = 2
    RingSteps = 5
    HintTargets = {1, 2}
    HintMax = 4
    HintRooms = {1, 4}
    LeafData <- MCLeafData
    LeafMax = 4
INVARIANTS ReadsLatest RestartsKeepSafe TreesAreMaps ScansGiveRange KLsmReadsLatest PagesKept ModelsHold NosqlLogHolds ClusterHolds CachesKeep
PROPERTY SettledReadsStay
