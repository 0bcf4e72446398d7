SPECIFICATION Spec
CONSTANTS
    PortCount = 2
    Values = {0}
    NoValue = NoValue
    SpecOf <- MCSpecOf
    MaxSamples = 2
    MaxSequence = 2
    MaxBatches = 2
    MaxSessions = 2
INVARIANTS
    OnlyCommittedIsTaken
    LimitsHold
PROPERTIES
    AppliedInOrder
    NewestIsApplied
CHECK_DEADLOCK FALSE
