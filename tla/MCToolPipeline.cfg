SPECIFICATION Spec
CONSTANTS
    Calls = {c1, c2}
    Depth = 2
    ArgumentPool = 8
    ArgumentSizes = {1}
    ResultPool = 8
    ResultSizes = {1, 2}
    kToolWireMax = 2
    kFramesPerStep = 2
    Deadlines = {3, 12}
    ServerTimes = {1}
    ClockSize = 16
    FirstTime = 15
    HubRepeats = TRUE
    NoCall = NoCall
    MaxStream = 3
    MaxEpoch = 2
    MaxTime = 17
SYMMETRY CallSymmetry
INVARIANTS
    NoOrderViolation
    OwnArguments
    ResultBelongs
    CallsAreTracked
PROPERTIES
    DeadlineDecides
CHECK_DEADLOCK FALSE
