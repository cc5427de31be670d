SPECIFICATION Spec
CONSTANTS
    MaxSessions = 1
    MaxQueue = 1
    MaxOutstanding = 1
    Requests = {"REJECTED", "OPTIONS", "SETUP", "SETUP_BAD", "SETUP_INTERLEAVED", "PLAY", "PAUSE", "TEARDOWN", "SET_PARAMETER", "BINARY_DATA"}
    Unsolicited = TRUE
    LateInit = FALSE
INVARIANTS TypeOK StopReplyMatchesState PlayingIsEstablished ChecksThatHold
PROPERTIES ShutdownIsOneWay
CHECK_DEADLOCK FALSE
