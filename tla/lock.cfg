CONSTANTS
    Txns = {1, 2, 3}
    Resources = {0, 1}
    NumBuckets = 1
    PoolSize = 4
SPECIFICATION LMSpec
PROPERTY GrantsKeepCompatibility
PROPERTY NoWaiterLost
 
