\* Startup failures.
CONSTANTS
    Master = master
    Slave = slave
    Instances = {master, slave}
    StartsTwice = FALSE
    MaxSpawns = 1
    MaxFaults = 1
SPECIFICATION Spec
INVARIANT NoOrphan
CHECK_DEADLOCK FALSE
