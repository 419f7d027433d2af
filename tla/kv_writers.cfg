CONSTANTS
    Keys = {0}
    Data = {d1}
    NoData = NoData
    NumBuckets = 2
    PoolSize = 4
    ArrayCap = 2
    TableCap = 256
    Cursors = {}
    MaxTxns = 3
    MaxRecords = 5
SPECIFICATION WriterSpec
CHECK_DEADLOCK FALSE
PROPERTY OneWriterSpec
