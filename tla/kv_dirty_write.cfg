CONSTANTS
    Keys = {0}
    Data = {d1, d2}
    NoData = NoData
    NumBuckets = 2
    PoolSize = 6
    ArrayCap = 3
    TableCap = 256
    Cursors = {}
    MaxTxns = 3
    MaxRecords = 6
SPECIFICATION KVSpec
CHECK_DEADLOCK FALSE
INVARIANT NoDirtyWrite
