SPECIFICATION FairSpec
CONSTANTS
    kEnrollmentAttempts = 3
    StoreFails = TRUE
    MaxRequests = 2
    MaxBoots = 1
INVARIANTS
    ClaimsHold
    SecretsAreForgotten
    LookupIsForThisHub
PROPERTIES
    TokenIsOneShot
    PortalIsFreed
    ResetErases
CHECK_DEADLOCK FALSE
