SPECIFICATION ApiSpec
CONSTANTS
    Users = {u1}
    ProUsers = {}
    Keys = {k1, k2, k3}
    Programs = {p1}
    StoredPrograms = {p1}
    Clients = {c1, c2}
    FreeLimit = 2
    MaxPosts = 3
    MaxFaults = 0
CHECK_DEADLOCK FALSE
SYMMETRY Symmetry
INVARIANT
    FreeLimitRespected
