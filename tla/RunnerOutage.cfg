SPECIFICATION OutageSpec
CONSTANTS
    MaxExponent = 1023
    MaxEpochs = 1100
    MaxStarts = 1
INVARIANTS
    ReconnectsForever
CHECK_DEADLOCK FALSE
