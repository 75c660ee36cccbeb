SPECIFICATION FeedSpec
CONSTANTS
    None = None
    MaxPrice = 3
    Depth = 2
    FirstBook <- MCFirstBook
    Changes <- MCChanges
    MaxExponent = 1
    MaxEpochs = 2
    MaxStarts = 2
    MaxChanges = 2
    MaxLost = 1
INVARIANTS
    EpochBindsDeltas
CHECK_DEADLOCK FALSE
