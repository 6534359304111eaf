SPECIFICATION Spec
CONSTANTS
    Talkers <- MCTwoTalkers
    Filter <- MCExact
    SeqRange = 3
    Duplicates = TRUE
    Reorders = TRUE
    MaxPackets <- MCPackets
    MaxForeign = 1
    MaxFlight = 3
INVARIANTS TypeOK
PROPERTY LossIsExact
CHECK_DEADLOCK FALSE
