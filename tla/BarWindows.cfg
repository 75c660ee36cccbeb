SPECIFICATION FairWindows
CONSTANTS
    btc = btc
    eth = eth
    Partition = {1, 2, 3}
    Log <- MCLog
    OutOfOrder = 1
    MaxRestarts = 1
INVARIANTS
    WindowsTypeOK
    EachRecordOnce
    DropsOnlyWhenIdle
    SinksDifferByLateOnly
PROPERTIES
    PublishesInOrder
    BarsFire
CHECK_DEADLOCK FALSE
