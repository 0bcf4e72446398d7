SPECIFICATION TimersSpec
CONSTANTS
    ClockSize = 16
    kWifiTimeout = 4
    kWifiRetry = 1
    kReconnect = 2
    kConnectTimeout = 4
    kFrameTimeout = 3
    heartbeatInterval = 2
    kHeartbeatTimeout = 5
    kSafetyWake = 5
    kFallbackPoll = 1
    kPortFlush = 1
    MaxPassTime = 1
    kPrompt = 1
PROPERTIES
    JoinWaits
