SPECIFICATION Spec
CONSTANTS
    MaxSessions = 1
    MaxQueue = 1
    MaxOutstanding = 1
    Requests = {"OPTIONS", "SETUP", "TEARDOWN"}
    Unsolicited = FALSE
    LateInit = TRUE
PROPERTIES StopReturns KeepsLifecycle
CHECK_DEADLOCK FALSE
