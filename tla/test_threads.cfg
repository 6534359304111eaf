\* Any scheduling, with a loss, a duplicate and failing threads.
SPECIFICATION FairSpec
CONSTANTS
    Epoch = 6
    Packets = 2
    Pace = 1
    Delay = 1
    Timeout = 1
    SeqRange = 2
    Lag = 99
    Prompt = FALSE
    MaxForeign = 0
    MaxLost = 1
    MaxCopies = 1
    Faults = TRUE
    Wrap = 8
    Giga = 10
    MinSeconds = 0
    MaxSeconds = 10
INVARIANTS TypeOK PassIsSound InOrder
PROPERTIES NeverEarly Terminates
CHECK_DEADLOCK FALSE
