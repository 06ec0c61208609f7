\* One vault, one request; every time is one tick.
SPECIFICATION ServiceFairSpec
CONSTANTS
    Vaults = {v1}
    Poll = 1
    ReadyAge = 1
    WatchdogAfter = 1
    StableRun = 1
    InitialBackoff = 1
    MaxBackoff = 1
    Chunks <- MCChunks
    Heartbeat <- MCHeartbeat
    MaxOutput = 4
    MaxRequests = 1
    Grace = 1
INVARIANTS
    ServiceTypeOK
    NothingBeforeSetup
    BeatIsALine
PROPERTIES
    SupervisorSpec
    EndsAfterSignal
CHECK_DEADLOCK FALSE
