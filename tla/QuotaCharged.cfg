SPECIFICATION ApiSpec
CONSTANTS
    Users = {u1}
    ProUsers = {}
    Keys = {k1}
    Programs = {p1, p2}
    StoredPrograms = {p1}
    Clients = {c1}
    FreeLimit = 3
    MaxPosts = 3
    MaxFaults = 0
CHECK_DEADLOCK FALSE
INVARIANT
    QuotaExact
