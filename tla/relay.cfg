SPECIFICATION FairSpec
CONSTANTS
    FailureThreshold = 1
    BaseCooldown = 1
    MaxCooldown = 1
    TripCap = 1
    AgeCap = 1
    BlacklistThreshold = 1
    BlacklistTicks = 1
    FailureTTL = 1
    FailureCap = 1
    c1 = c1
    c2 = c2
    k1 = k1
    k2 = k2
    Channels <- OneChannel
    KeysOf <- TwoKeys
    MaxConcurrency <- OneSlot
    Requests = {json, stream}
    Streams = {stream}
    QueueSize = 2
    Probed = {c1}
    NoChannel = NoChannel
INVARIANTS TypeOK SlotsAccounted QueueAccounted NoPermitLeaks RecordedOnce HealthAccounted
PROPERTIES OnlyServerErrorsBlacklist EveryRequestEnds EverythingReturned
CHECK_DEADLOCK FALSE
