SPECIFICATION StoreSpec
CONSTANTS
    Records = {r1, r2}
    NoRecord = NoRecord
    ReadsFail = FALSE
    MaxGeneration = 4
INVARIANTS
    CommittedIsStored
PROPERTY
    ImplementsVault
