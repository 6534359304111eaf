\* The instance of instance_lifecycle, against what is said of missing answers.
CONSTANTS
    Instances = {slave}
    StartsTwice = FALSE
    MaxSpawns = 2
    MaxFaults = 1
    PortStates <- MCPortStates
    Missable <- MCMissable
    Fragile <- MCFragile
    MaxBlocks = 4
SPECIFICATION QueriesSpec
PROPERTY MissingIsNone
CHECK_DEADLOCK FALSE
