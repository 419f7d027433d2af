CONSTANTS
    c1 = c1
    c2 = c2
    g1 = g1
    k1 = k1
    Keys = {k1}
    NoKey = NoKey
    Data = Data
    Empty = Empty
    Payloads <- SomePayloads
    MaxSegments = 3
    MaxRecords = 2
    Policies <- AllPolicies
    Retention = 1
    MaxTotal = 2
    DeleteRetention = 1
    MsPerSecond = 2
    Consumers <- TwoConsumers
    Groups = {g1}
    GroupOf <- SameGroup
    MaxGroups = 1
    FetchMax = 2
    MaxTime = 4
    MaxAppends = 3
SYMMETRY Interchangeable
SPECIFICATION Spec
CHECK_DEADLOCK FALSE
INVARIANT OffsetsNameRecords
INVARIANT CleaningIsSound
INVARIANT NothingSkipped
