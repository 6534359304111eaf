\* One instance, calls in any order, answers of ptp4l in any order.
CONSTANTS
    Instances = {slave}
    StartsTwice = FALSE
    MaxSpawns = 2
    MaxFaults = 1
    PortStates <- MCPortStates
    Missable <- MCMissable
    Fragile <- MCFragile
    MaxBlocks = 4
SPECIFICATION QueriesSpec
INVARIANTS InstanceTypeOK Tracked DropCleansUp
PROPERTIES VerdictIsTrue WholeAnswers SynchronizedWasTrue RefinesPtpInstance
CHECK_DEADLOCK FALSE
