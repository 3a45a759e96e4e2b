SPECIFICATION IndependentSpec
CONSTANTS
    u1 = u1
    Users = {u1}
    Subs = {s1}
    Customer <- OneCustomer
    Events <- RaceEvents
    Handlers = {h1, h2}
    MaxFaults = 1
    MaxResultItems = 2
    MaxSteps = 2
    Versions = {1, 2}
    Feeds = {"s1", "s2"}
    Pages = {"a", "b"}
    Meaning <- PageMeaning
    Clear = {"a", "b"}
    Requests = {"r1"}
    Patches <- SomePatches
    LastMoment = 1
    RuleSets <- SomeRules
    Applicants <- SomeApplicants
    MatchUsers = {"u1", "u2"}
    Profiles <- SomeProfiles
    Sessions = {"g1", "g2"}
CHECK_DEADLOCK FALSE
SYMMETRY Symmetry
INVARIANTS
    TypeOK
    GrantsBacked
    FallbackCoversGaps
    BetterNeverScoresLess
    ImprovementNeverLowers
    ShownToOwner
PROPERTIES
    AccessKept
    SettledStays
    PublicationInForce
