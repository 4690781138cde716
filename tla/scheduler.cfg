SPECIFICATION Scheduler
CONSTANTS
    FailureThreshold = 2
    BaseCooldown = 1
    MaxCooldown = 2
    TripCap = 2
    AgeCap = 3
    MaxAge = 3
    Channels = {c1}
    Hints = {h1, h2}
    Requests = {r1, r2}
    ChannelIds = {1, 2, 3}
    Items <- RouteItems
    Absent = Absent
    Limited = {1}
    Managed = {2}
    Sessions = {s1, s2}
    SessionTTL = 1
    MaxSessions = 1
    MaxSamples = 3
INVARIANTS TypeOK ClosedBelowThreshold CandidatesInOrder
PROPERTIES CoolingNotForgotten RetripNeverShortens CooldownEnds SessionsKept
