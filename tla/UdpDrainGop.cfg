SPECIFICATION Spec
CONSTANTS
    LimitData = 2
    Lengths <- AnySizes
    QueueLength = 4
    DrainAfter = 9
    DelaySuffices = TRUE
    MaxInFlight = 4
    Faults = {"lose"}
    MaxFaults = 2
PROPERTIES DrainsWholeGop
CHECK_DEADLOCK FALSE
