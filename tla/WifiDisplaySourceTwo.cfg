SPECIFICATION Spec
CONSTANTS
    MaxSessions = 2
    MaxQueue = 1
    MaxOutstanding = 1
    Requests = {"OPTIONS", "SETUP"}
    Unsolicited = FALSE
    LateInit = FALSE
INVARIANT NoOrphanSession
CHECK_DEADLOCK FALSE
