SPECIFICATION Spec
CONSTANTS
    LimitData = 2
    Lengths <- AnySizes
    QueueLength = 4
    DrainAfter = 9
    DelaySuffices = TRUE
    MaxInFlight = 4
    Faults = {}
    MaxFaults = 0
INVARIANTS GopIntact
PROPERTIES FramesArrive
CHECK_DEADLOCK FALSE
