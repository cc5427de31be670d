SPECIFICATION Spec
CONSTANTS
    Tracks <- BothTracks
    VideoTrack <- video
    video = video
    audio = audio
    MaxQueue = 2
INVARIANTS NoCrashWhileLive PullersStopped OneStopNotice
PROPERTY KeepsLifecycle
CHECK_DEADLOCK FALSE
