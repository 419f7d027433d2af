CONSTANTS
    Rids = {1}
    MaxActive = 3
    MaxLocks = 1
    MaxLog = 2
SPECIFICATION Spec
CHECK_DEADLOCK FALSE
INVARIANT RecoveryTellsTruth
INVARIANT RefusedOnlyForOlder
