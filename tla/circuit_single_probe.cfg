SPECIFICATION Spec
CONSTANTS
    FailureThreshold = 2
    BaseCooldown = 1
    MaxCooldown = 2
    TripCap = 2
    AgeCap = 3
    MaxAge = 3
    Channels = {c1}
    Hints = {h1}
    Requests = {r1, r2}
INVARIANTS SingleProbe
