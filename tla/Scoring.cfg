SPECIFICATION FairScoringSpec
CONSTANTS
    None = None
    btc = btc
    Loop = Loop
    endpoint = endpoint
    Products <- MCProducts
    Coroutine <- MCCoroutine
    MaxBreaks = 2
    Horizon = 1
    MaxMinute = 1
    MaxTrouble = 2
INVARIANTS
    ScoringTypeOK
    RecordHasRow
    SentAtMostOnce
    FetchSelfHeals
PROPERTIES
    PredictionsStay
    ConnectionHeals
CHECK_DEADLOCK FALSE
