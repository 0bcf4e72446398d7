SPECIFICATION MCSpec
CONSTANTS
    Values = {v1, v2}
    Capacity = 2
    Torn = Torn
    ByteRecords <- MCRecords
    ByteCapacity = 8
    OutputBytes = 2
    NoRecord = NoRecord
    JsonCapacity = 16
    ResultCapacity = 10
    kAlignment = 2
    kMaxPayload = 20
    Sizes = {0, 1, 3}
    Text = {t}
    Zero = Zero
    kHeaderSize = 2
    kFramesPerStep = 2
    kBytesPerStep = 5
    kFrameTimeout = 1
    MaxFrames = 3
    MaxSessions = 2
INVARIANTS
    NoDataRace
    AnswersHold
    NothingLeftBehind
    Aligned
    SpoiledOnlyBySends
PROPERTIES
    ImplementsFifo
    ImplementsByteFifo
    ImplementsBlockStore
    InOrder
    PartialFrameEnds
CHECK_DEADLOCK FALSE
