SPECIFICATION VersionsSpec
CONSTANTS
    Versions = {1, 2}
    Feeds = {"s1"}
    Pages = {"a"}
    Meaning <- PageMeaning
    Clear = {"a"}
    Requests = {"r1"}
    Patches = {}
    LastMoment = 1
CHECK_DEADLOCK FALSE
INVARIANTS
    RequestedVersionFound
