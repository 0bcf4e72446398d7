SPECIFICATION FairSpec
CONSTANTS
    EventFdFails = TRUE
INVARIANTS
    SleepIsSafe
    NothingFreedInUse
PROPERTIES
    DestructorReturns
CHECK_DEADLOCK FALSE
