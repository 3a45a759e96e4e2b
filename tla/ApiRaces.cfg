SPECIFICATION ApiFairSpec
CONSTANTS
    Users = {u1, u2}
    ProUsers = {u2}
    Keys = {k1, k2}
    Programs = {p1, p2}
    StoredPrograms = {p1}
    Clients = {c1, c2}
    FreeLimit = 2
    MaxPosts = 4
    MaxFaults = 1
CHECK_DEADLOCK FALSE
INVARIANTS
    ApiTypeOK
    CounterWithinLimit
    SnapshotPerAssessment
    PublishedRowsExist
PROPERTIES
    CommittedIsDispatched
