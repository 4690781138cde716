SPECIFICATION Caches
CONSTANTS
    None = None
    m1 = m1
    m2 = m2
    c0 = c0
    c1 = c1
    c2 = c2
    a0 = a0
    a1 = a1
    a2 = a2
    i1 = i1
    i2 = i2
    n1 = n1
    n2 = n2
    Models = {m1, m2}
    Channels = {c1}
    Rows <- SomeRows
    RouteIds = {i1}
    Names = {n1}
    Loaders = {l1}
    Admins = {a1}
    MaxCached = 1
PROPERTIES ChangesInvalidate
CHECK_DEADLOCK FALSE
