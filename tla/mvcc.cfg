CONSTANTS
    Tuples = {1, 2}
    Cap = 2
    MaxTxns = 3
    MaxVersions = 2
SPECIFICATION Spec
INVARIANT NoDirtyRead
PROPERTY VisibleStays
