SPECIFICATION FairSpec
CONSTANTS
    Sources = {s1, s2}
    Workers = {w1, w2}
    MaxRetries = 1
    QuarantineAfter = 2
    MaxRuns = 2
    MaxItems = 2
    MaxFaults = 1
CHECK_DEADLOCK FALSE
INVARIANTS
    CompletedRunAllSucceeded
    QuarantineReached
PROPERTIES
    ItemsSettle
    RunsSettle
