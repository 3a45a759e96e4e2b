SPECIFICATION EngineSpec
CONSTANTS
    RuleSets <- ExtractedRuleSets
    Applicants <- SomeApplicants
CHECK_DEADLOCK FALSE
INVARIANTS
    MeetingAgeNeverHurts
