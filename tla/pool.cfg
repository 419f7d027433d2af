CONSTANTS
    Pages = {0, 1, 31, 62}
    NumFrames = 2
    DiskPages = 4
    Data = {d1, d2}
    Zeros = Zeros
    NoPage = NoPage
    MaxPins = 2
SPECIFICATION Spec
INVARIANT NothingWrittenIsLost
PROPERTY PinnedStays
