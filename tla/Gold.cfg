SPECIFICATION FairGold
CONSTANTS
    btc = btc
    eth = eth
    scheduled = scheduled
    manual = manual
    Product <- MCProduct
    BookBar <- MCBookBar
    TradeBar <- MCTradeBar
    CommitAt = {5, 6}
    Refresh = {scheduled, manual}
    Schedule = scheduled
    MaxRetries = 1
    MaxSequence = 4
    MaxLost = 1
    MinCoverage = 1
    Minute = 1
    Long = 1
    Short = 2
INVARIANTS
    GoldTypeOK
    EachMinuteOnce
    RowsFinal
    TestLabelsUnseen
PROPERTIES
    CatchesUp
CHECK_DEADLOCK FALSE
