SPECIFICATION Spec
CONSTANTS
    Talkers <- MCTwoTalkers
    Filter <- MCExact
    SeqRange = 3
    Duplicates = TRUE
    Reorders = FALSE
    MaxPackets <- MCPackets
    MaxForeign = 0
    MaxFlight = 3
PROPERTY PacketsLostWereLost
CHECK_DEADLOCK FALSE
