SPECIFICATION Spec
CONSTANTS
    LimitData = 2
    Lengths <- MixedSizes
    QueueLength = 2
    DrainAfter = 2
    DelaySuffices = FALSE
    MaxInFlight = 4
    Faults = {"lose", "duplicate", "reorder"}
    MaxFaults = 2
INVARIANTS CopyInside WholeFrames KeyFramesWhole
CHECK_DEADLOCK FALSE
