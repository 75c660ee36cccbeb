SPECIFICATION FairTradeSpec
CONSTANTS
    None = None
    btc = btc
    Product <- MCProduct
    MaxTrade <- MCMaxTrade
    MaxExponent = 1
    MaxEpochs = 2
    MaxStarts = 2
    MaxDlq = 1
    MaxLost = 1
INVARIANTS
    TradeFeedTypeOK
    BacksOff
    BarsCountOnce
    GapsBounded
PROPERTIES
    Recovers
    DropsNoticed
CHECK_DEADLOCK FALSE
