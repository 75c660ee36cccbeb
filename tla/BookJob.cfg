SPECIFICATION FairSpec
CONSTANTS
    None = None
    MaxPrice = 3
    Depth = 2
    Product = {btc}
    Msg <- MCMsg
    RestartAttempts = 2
    MaxLog = 3
INVARIANTS
    WriteThroughComplete
    ReplayIdentical
    OfiWithinSnapshot
    IInv
PROPERTIES
    CommittedRowsStay
    ExactlyOnce
    EveryMessageCommitted
CHECK_DEADLOCK FALSE
