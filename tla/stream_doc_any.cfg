SPECIFICATION Spec
CONSTANTS
    Talkers <- MCTwoTalkers
    Filter <- MCAny
    SeqRange = 3
    Duplicates = FALSE
    Reorders = FALSE
    MaxPackets <- MCPackets
    MaxForeign = 0
    MaxFlight = 3
PROPERTY ReportedLossIsLoss
CHECK_DEADLOCK FALSE
