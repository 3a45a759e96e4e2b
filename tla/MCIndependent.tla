--------------------------- MODULE MCIndependent ----------------------------
(***************************************************************************)
(* Instances for TLC of components that share no state with another: a     *)
(* behaviour is one of the component `part` names, while the others rest   *)
(* in one of their states.                                                 *)
(***************************************************************************)
EXTENDS MCBilling, RoadmapContracts, ProgramVersions, ScoreEngine, ProfileMatch

VARIABLE part

IndependentInit ==
    /\ part \in {"billing", "contracts", "versions", "engine", "match"}
    /\ Init
    /\ MatchInit
    /\ IF part = "contracts" THEN ContractsInit
       ELSE /\ result_items = << >> /\ contract = NoContract
            /\ stored = {} /\ contract_pc = "rest"
    /\ VersionsInit /\ (part = "versions" \/ newest = 0)
    /\ IF part = "engine" THEN EngineInit
       ELSE /\ rules = {} /\ applicant = << >> /\ rival = << >>
            /\ verdict = << >> /\ engine_pc = "rest"

allVars == <<vars, contractsVars, versionsVars, engineVars, matchVars, part>>

Billing(step) ==
    /\ part = "billing" /\ step
    /\ UNCHANGED <<contractsVars, versionsVars, engineVars, matchVars, part>>

Contracts(step) ==
    /\ part = "contracts" /\ step
    /\ UNCHANGED <<vars, versionsVars, engineVars, matchVars, part>>

ProgramVersion(step) ==
    /\ part = "versions" /\ step
    /\ UNCHANGED <<vars, contractsVars, engineVars, matchVars, part>>

Engine(step) ==
    /\ part = "engine" /\ step
    /\ UNCHANGED <<vars, contractsVars, versionsVars, matchVars, part>>

Match(step) ==
    /\ part = "match" /\ step
    /\ UNCHANGED <<vars, contractsVars, versionsVars, engineVars, part>>

IndependentNext ==
    \/ Billing(Next)
    \/ Contracts(ContractsNext)
    \/ ProgramVersion(VersionsNext)
    \/ Engine(EvaluateBoth)
    \/ Match(MatchNext)

IndependentSpec == IndependentInit /\ [][IndependentNext]_allVars

-----------------------------------------------------------------------------
\* Two pages that mean the same and one that is not clear.
PageMeaning == [p \in Pages |-> IF p = "unclear" THEN "vague" ELSE "rules"]

\* An administrator ends a version and withdraws it, or moves it to the future.
SomePatches ==
    {[status |-> "draft", from |-> 0, to |-> 1],
     [status |-> "active", from |-> 1, to |-> Never]}

\* Groups of an administrator: every operator, and of two conditions any or all.
SomeConditions ==
    {Condition("idade", "between", <<20, 40>>), Condition("idade", "lt", <<45>>),
     Condition("idade", "gt", <<30>>), Condition("en", "exists", <<1>>),
     Condition("en", "gte", <<4>>), Condition("escolaridade_rank", "in", <<4, 5>>),
     Condition("escolaridade_rank", "eq", <<3>>),
     Condition("renda_atual", "ne", <<2000>>), Condition("en", "not_in", <<None, 6>>)}

SomeGroups ==
    {Group("one", c, {Outcome(7, "a"), Outcome(1, "b")}) : c \in SomeConditions} \cup
    [code : {"two"}, match_operator : {"any", "all"},
     conditions : {{Condition("en", "gte", <<4>>), Condition("idade", "lte", <<30>>)}},
     outcomes : {{Outcome(-3, "c")},
                 {[Outcome(2, "d") EXCEPT !.is_blocking = TRUE], Outcome(-1, "e")}}] \cup
    {[code |-> "none", match_operator |-> "all", conditions |-> {},
      outcomes |-> {Outcome(-2, "f")}]}

SomeRules ==
    {gs \in SUBSET SomeGroups : Cardinality(gs) <= 2} \cup
    {ExtractedRules(years, minimum, level) :
        years \in {0, 35}, minimum \in {0, 3000}, level \in {"none", "B2"}}

SomeApplicants ==
    [idade : {30, 45}, renda_atual : {2000, 4000},
     escolaridade : {"tecnico", "graduacao"},
     ingles : {[framework |-> "none", level |-> "none"],
               [framework |-> "CEFR", level |-> "D1"],
               [framework |-> "CEFR", level |-> "C1"],
               [framework |-> "IELTS", level |-> "8.0"]}]

SomeProfiles ==
    [age : {30}, education_level : {"tecnico", "mestrado"}, experience_years : {2, 12},
     english_level : {"A2", "C1"}, french_level : {"A1", "B1"}, savings_brl : {20, 90},
     monthly_income_brl : {5}, profession_area : {"negocios"},
     has_job_offer : BOOLEAN, has_family_abroad : {TRUE},
     willing_to_learn_language : {FALSE}, wants_fast_citizenship : {FALSE},
     preferred_region : {"europa"}]
=============================================================================
