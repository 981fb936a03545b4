SPECIFICATION LinksSpec
CONSTANTS
    Threshold = 2
    Tries = 2
    RegistryFaults = {"publish", "lose", "late", "restart", "mute", "manual", "reader_ends"}
    MaxRegistryFaults = 3
    MaxNodeLists = 1
    MaxSyncs = 1
    MaxOnWire = 2
    PLCs = {p1}
    FeedFaults = {"fetch", "tags", "down", "read", "stall"}
    MaxFeedFaults = 2
    MaxChanges = 2
    MaxSaves = 1
    Browsers = {b1, b2}
    Emitters = {e1, e2}
    BroadcastBuffer = 1
    ClientBuffer = 1
    MaxEmitted = 3
    Savers = {v1, v2}
    KafkaFaults = {"commit", "overlap"}
    MaxReconfigures = 3
    MaxBrokerChanges = 2
INVARIANT StaleIsSilent
INVARIANT EventsTellStatus
INVARIANT CacheIsCurrent
INVARIANT HubSendsToOpen
INVARIANT OneReader
PROPERTY KnownEdgeRecovers
PROPERTY LostIsRetried
CHECK_DEADLOCK FALSE
