SPECIFICATION Spec
CONSTANTS
    btc = btc
    eth = eth
    Product <- MCProduct
    Bar <- MCBar
    Minute = 2
    Margin = 1
    Long = 2
    Short = 2
    Buffer = 4
    MaxRestarts = 1
INVARIANTS
    WindowsMatchGold
    RowsWithinGold
    NothingHeldBack
PROPERTIES
    LatestRewindsOnce
CHECK_DEADLOCK FALSE
