SPECIFICATION MCSpec
CONSTANTS
    RawHosts <- MCRawHosts
    Datagrams <- MCDatagrams
    Suffix <- MCSuffix
    kDnsHeaderBytes = 1
    kQuestionBytes = 1
    kRecordBytes = 2
    kAddressBytes = 1
    kPacketBytes = 10
    kHostBytes = 6
    kMaxQuestions = 1
    kMaxRecords = 2
    kMaxNameSteps = 4
    kMaxExpandedNameBytes = 6
    kDatagramsPerPoll = 1
    ClockSize = 12
    kWifiTimeout = 3
    kWifiRetry = 1
    kReconnect = 2
    kConnectTimeout = 3
    kFrameTimeout = 1
    heartbeatInterval = 2
    kHeartbeatTimeout = 5
    kSafetyWake = 5
    kFallbackPoll = 1
    kPortFlush = 1
    MaxPassTime = 1
    kPrompt = 1
INVARIANTS
    ReadsInside
    AnswerIsExact
    QueryNamesHost
    DeadHubIsDropped
    PromptHubIsKept
PROPERTIES
    LinkWaits
