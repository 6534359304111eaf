\* The whole program with safety and liveness.
CONSTANTS
    Master = master
    Slave = slave
    Instances = {master, slave}
    StartsTwice = FALSE
    MaxSpawns = 1
    MaxFaults = 1
SPECIFICATION FairSpec
INVARIANTS TypeOK DownMeansGone ReturnCleansUp
PROPERTIES DownIsFinal ExitIsNoticed InterruptEnds
CHECK_DEADLOCK FALSE
