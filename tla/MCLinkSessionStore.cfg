SPECIFICATION Spec
CONSTANTS
    kEnrollmentAttempts = 3
    StoreFails = TRUE
    MaxRequests = 3
    MaxBoots = 1
PROPERTIES
    AcceptedWithoutStation
CHECK_DEADLOCK FALSE
