SPECIFICATION Spec
CONSTANTS
    MaxCalls = 3
    MAX_IMAGES = 4
    WriterCapacity = 2
INVARIANT OnePullChain
PROPERTIES SilentAfterStop StopIsAnnounced
CHECK_DEADLOCK FALSE
