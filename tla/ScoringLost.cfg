SPECIFICATION ScoringSpec
CONSTANTS
    None = None
    btc = btc
    Loop = Loop
    endpoint = endpoint
    Products <- MCProducts
    Coroutine <- MCCoroutine
    MaxBreaks = 1
    Horizon = 1
    MaxMinute = 2
    MaxTrouble = 1
INVARIANTS
    EveryRowPredicted
CHECK_DEADLOCK FALSE
