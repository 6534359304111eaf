\* No packet is sent or received later than Lag; the delay covers it, and is within half a window.
SPECIFICATION Spec
CONSTANTS
    Epoch = 12
    Packets = 3
    Pace = 2
    Delay = 5
    Timeout = 6
    SeqRange = 4
    Lag = 1
    Prompt = TRUE
    MaxForeign = 1
    MaxLost = 0
    MaxCopies = 0
    Faults = TRUE
    Wrap = 18
    Giga = 10
    MinSeconds = 0
    MaxSeconds = 10
INVARIANT CompleteReceptionPasses
CHECK_DEADLOCK FALSE
