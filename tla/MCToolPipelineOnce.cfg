SPECIFICATION FairSpec
CONSTANTS
    Calls = {c1, c2}
    Depth = 2
    ArgumentPool = 8
    ArgumentSizes = {1}
    ResultPool = 7
    ResultSizes = {1}
    kToolWireMax = 1
    kFramesPerStep = 2
    Deadlines = {0, 2}
    ServerTimes = {1}
    ClockSize = 16
    FirstTime = 16
    HubRepeats = FALSE
    NoCall = NoCall
    MaxStream = 3
    MaxEpoch = 2
    MaxTime = 17
INVARIANTS
    SingleAnswer
PROPERTIES
    AcceptedIsAnswered
CHECK_DEADLOCK FALSE
