SPECIFICATION FairSpec
CONSTANTS
    PortCount = 2
    Values = {a, b}
    NoValue = NoValue
    kRevisions = 10
    MaxSamples = 1
    MaxPublishes = 3
    MaxSessions = 2
INVARIANTS
    CleanIsCurrent
PROPERTIES
    LastValueArrives
CHECK_DEADLOCK FALSE
