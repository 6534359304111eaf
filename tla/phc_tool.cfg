\* Two runs of ptp-tool; a second is 10 ns and the longest suspension.
SPECIFICATION Spec
CONSTANTS
    Tools <- MCTools
    Commands <- MCCommands
    MaxCount = 1
    MaxEvents = 1
    MaxSuspension = 10
    Wrap = 8
    Giga = 10
    MinSeconds <- MCMinSeconds
    MaxSeconds = 1
INVARIANTS TypeOK StartIsAhead CaptureIsAccountedFor StampRecovered TimesAreInstants
CHECK_DEADLOCK FALSE
