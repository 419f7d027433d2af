CONSTANTS
    Brokers = {1, 2, 3}
    Leader = 1
    Electorate = {1, 2, 3}
    MaxIsr = 3
    MaxLag = 0
    MaxOffset = 1
    NoBroker = NoBroker
SPECIFICATION Spec
ACTION_CONSTRAINT VotersInTurn
INVARIANT AcksAllStored
PROPERTY AckedUntilReadable
PROPERTY HWReachesLeader
PROPERTY MajorityDecides
