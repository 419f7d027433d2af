CONSTANTS
    Keys = {0, 1}
    Data = {d1}
    NoData = NoData
    NumBuckets = 2
    PoolSize = 3
    ArrayCap = 1
    TableCap = 2
    Cursors = {c1}
    MaxTxns = 2
    MaxRecords = 3
SPECIFICATION KVSpec
CHECK_DEADLOCK FALSE
INVARIANT LogDescribesIndex
INVARIANT CommittedIsFlushed
INVARIANT RecoveryUndoesOnlyUncommitted
