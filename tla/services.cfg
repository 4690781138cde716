SPECIFICATION Services
CONSTANTS
    None = None
    Keys = {key1, key2}
    Rows = {open, off}
    EnabledRows = {open}
    Requests = {r1}
    Admins = {a1}
    TTL = 2
    MaxCached = 1
    MaxDelay = 1
    Plugins = {cch}
    Master = master_switch
    cch = cch
    master_switch = master_switch
    Tasks = {t1, t2}
    Models = {m1}
    Prices = {1, 2}
    Torn = Torn
    Start = Start
    Timer = Timer
    MaxUpdates = 2
    MaxFaults = 1
    Records = {1, 2}
    Never = Never
    Retentions = {0, 2, 3}
    MonthDays = 3
    TicksPerDay = 2
    MaxTime = 7
    Letters = {"<", "t", "/", ">", "x"}
    Bytes = {"d", "n", "r"}
    MaxText = 6
    MaxBytes = 9
    MaxPiece = 3
    ApiKeys = {k1}
    Workers = {json, stream}
    KeyOf <- OneKey
    Limits <- SomeLimits
    Streams = {stream}
    MaxTokens = 2
    MaxCost = 1
    Window = 2
    Cap = 6
    MaxTurns = 3
    MaxChannels = 2
    MaxKeys = 2
INVARIANTS ServicesTypeOK GrantsExpire StaleGrantsExplained SwitchesExplained RetentionKeepsBooks CutsDoNotMatter EventsWhole RpmPerMinute OverrunUnderWay TextsArrive ResultsFollowCalls OneFailureTold
PROPERTIES UsedEntriesStay PricesReturn LimitsReopen
CHECK_DEADLOCK FALSE
