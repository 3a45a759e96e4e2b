SPECIFICATION FairSpec
CONSTANTS
    Users = {u1}
    ProUsers = {}
    Keys = {k1}
    Programs = {p1}
    StoredPrograms = {p1}
    Clients = {c1, c2}
    FreeLimit = 3
    MaxPosts = 2
    MaxFaults = 1
    Workers = {w1, w2}
    MaxRetries = 2
    MaxInterrupts = 2
    MaxCrashes = 1
CHECK_DEADLOCK FALSE
INVARIANTS
    CompletedHasResult
    CompletedJobHasResult
    OneCarrierPerDispatch
    UnsettledHasCarrier
PROPERTIES
    AuditTrailKept
    CompletedJobNotRestarted
    ResultLedgerKept
    JobsSettle
