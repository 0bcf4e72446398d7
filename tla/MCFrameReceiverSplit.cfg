SPECIFICATION Spec
CONSTANTS
    kHeaderSize = 2
    Sizes = {0, 1, 3}
    kFramesPerStep = 2
    kBytesPerStep = 5
    kFrameTimeout = 1
    MaxFrames = 2
    MaxSessions = 2
INVARIANTS
    DeliveredIntact
CHECK_DEADLOCK FALSE
