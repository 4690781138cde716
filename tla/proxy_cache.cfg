SPECIFICATION Caches
CONSTANTS
    None = None
    m1 = m1
    m2 = m2
    c0 = c0
    c1 = c1
    c2 = c2
    a0 = a0
    a1 = a1
    a2 = a2
    i1 = i1
    i2 = i2
    n1 = n1
    n2 = n2
    Models = {m1, m2}
    Channels = {c0, c1, c2}
    Rows <- SomeRows
    RouteIds = {i1, i2}
    Names = {n1, n2}
    Loaders = {l1, l2}
    Admins = {a0, a1, a2}
    MaxCached = 1
SYMMETRY Alike
INVARIANTS StaleIsAccountedFor IndexMatchesCache CacheWithinLimit
