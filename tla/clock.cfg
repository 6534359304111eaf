SPECIFICATION Spec
CONSTANTS
    FreqOne = 8
    FreqDev = 1
    AlphaDen = 2
    MinSample = 4
    PhaseMax = 2
    JumpThreshold = 9
    ResyncInterval = 16
    MaxDuration = 38
    MaxPtpTime = 44
    Latencies = {0, 2}
    Ticks <- MCTicks
    Steps <- MCSteps
    PtpStart = 10
    MaxLocal = 36
    MaxSteps = 1
INVARIANT TypeOK
PROPERTIES StrictlyMonotonic RefinesMonotonicClock Tracks JumpsCaught NoSpuriousReset
