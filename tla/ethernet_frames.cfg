SPECIFICATION TestSpec
CONSTANTS
    MaxLength = 8
    MinFrame = 60
    Inputs <- MCInputs
    Packets <- MCPackets
    OtherFrames <- MCOtherFrames
    Files <- MCFiles
    TalkerStream <- Generic
    SamplesPerPacket = 1
INVARIANTS BuiltIsAccepted SentOnUnchanged
INVARIANTS AudioComesBack CutFileIsRefused RewritingKeeps
PROPERTIES ReceivedIsSent CutIsRefused
CHECK_DEADLOCK FALSE
