CONSTANTS
    Consumers = {c1, c2, c3, c4}
    MaxMembers = 3
    MaxPartitions = 8
    Counts <- OneTopic
    Timeout = 0
    MaxGeneration = 6
SPECIFICATION GroupSpec
INVARIANT AssignmentsHold
