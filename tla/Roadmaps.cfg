SPECIFICATION FairSpec
CONSTANTS
    Users = {u1}
    Keys = {k1}
    NoKey = NoKey
    Clients = {c1, c2}
    Workers = {w1, w2}
    MaxRoadmaps = 2
    MaxRetries = 1
    MaxFaults = 1
CHECK_DEADLOCK FALSE
INVARIANTS
    CompletedHasContract
    JobAndRoadmapAgree
    PendingHasCarrier
PROPERTIES
    RoadmapsSettle
    LedgerKept
