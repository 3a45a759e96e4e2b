-------------------------- MODULE RoadmapContracts --------------------------
(***************************************************************************)
(* The contract of a roadmap, from the items of the assessment result to   *)
(* the stored steps: RoadmapsService._build_provider_payload, the primary  *)
(* (any JSON) or ClaudeLLMProviderStub, the schema, _validate_contract and *)
(* apply_generated_contract.  A message is the number of its item.         *)
(***************************************************************************)
EXTENDS Integers, Sequences, SequencesExt, FiniteSets

CONSTANTS
    MaxResultItems, \* bound: items of the assessment result
    MaxSteps        \* bound: steps the primary answers with

ASSUME ContractsAssumption == {MaxResultItems, MaxSteps} \subseteq Nat

VARIABLES
    result_items,   \* assessment_result_items in creation order
    contract,       \* what the provider has answered
    stored,         \* roadmap_steps rows
    contract_pc

contractsVars == <<result_items, contract, stored, contract_pc>>

ResultItem == [applied : BOOLEAN, score_delta : -1 .. 1, is_blocking : BOOLEAN]

\* v1: settings.roadmap_schema_version
ContractVersion == {"v1", "other"}

\* gap: the item a step is about, 0 for none.
RoadmapStep(order, deps, gap) ==
    [step_order |-> order, dependencias |-> deps, gap_relacionado |-> gap]

NoContract == [version |-> "v1", steps |-> << >>, by |-> "none"]

-----------------------------------------------------------------------------
\* The numbers in S, in increasing order.
InOrder(S) ==
    [n \in 1 .. Cardinality(S) |->
        CHOOSE i \in S : Cardinality({j \in S : j <= i}) = n]

\* The gaps_criticos list _append_assessment_signals collects.
Gaps ==
    InOrder({i \in DOMAIN result_items :
                /\ result_items[i].applied
                /\ result_items[i].is_blocking \/ result_items[i].score_delta < 0})

\* Mutant of FallbackSteps: the orders are counted from 0.
FallbackSteps_zero ==
    IF Gaps = << >> THEN << RoadmapStep(0, {}, 0) >>
    ELSE [i \in DOMAIN Gaps |-> RoadmapStep(i - 1, {}, Gaps[i])]

\* ClaudeLLMProviderStub: a step per gap, in a chain, or one step without.
FallbackSteps ==
    IF Gaps = << >> THEN << RoadmapStep(1, {}, 0) >>
    ELSE [i \in DOMAIN Gaps |-> RoadmapStep(i, IF i > 1 THEN {i - 1} ELSE {}, Gaps[i])]

FallbackContract == [version |-> "v1", steps |-> FallbackSteps, by |-> "fallback"]

\* RoadmapContract: at least one step, step_order >= 1.
SchemaValid(steps) ==
    steps # << >> /\ \A i \in DOMAIN steps : steps[i].step_order >= 1

\* validate_dependencias keeps the numbers from 1 up, once each.
Normalized(steps) ==
    [i \in DOMAIN steps |->
        [steps[i] EXCEPT !.dependencias = {d \in @ : d >= 1}]]

\* _validate_contract: the version, and no step_order twice.
ValidContract(c) ==
    /\ c.version = "v1"
    /\ \A i, j \in DOMAIN c.steps :
          c.steps[i].step_order = c.steps[j].step_order => i = j

\* The steps a primary may come up with, within the bounds.
PrimarySteps ==
    BoundedSeq({RoadmapStep(o, d, 0) : o \in 0 .. 2, d \in {{}, {0, 2}}}, MaxSteps)

-----------------------------------------------------------------------------
ContractsInit ==
    /\ result_items \in BoundedSeq(ResultItem, MaxResultItems)
    /\ contract = NoContract
    /\ stored = {}
    /\ contract_pc = "generate"

\* The primary's answer passes the schema, or the fallback answers.
Primary(version, steps) ==
    /\ contract_pc = "generate"
    /\ contract' = IF SchemaValid(steps)
                   THEN [version |-> version, steps |-> Normalized(steps),
                         by |-> "primary"]
                   ELSE FallbackContract
    /\ contract_pc' = "validate"
    /\ UNCHANGED <<result_items, stored>>

\* The primary raises, or llm_provider is "claude".
Fallback ==
    /\ contract_pc = "generate"
    /\ contract' = FallbackContract
    /\ contract_pc' = "validate"
    /\ UNCHANGED <<result_items, stored>>

\* A ValueError is definitive; otherwise the steps are stored.
Validate ==
    /\ contract_pc = "validate"
    /\ IF ValidContract(contract)
       THEN stored' = ToSet(contract.steps) /\ contract_pc' = "stored"
       ELSE stored' = stored /\ contract_pc' = "rejected"
    /\ UNCHANGED <<result_items, contract>>

ContractsNext ==
    \/ \E v \in ContractVersion, s \in PrimarySteps : Primary(v, s)
    \/ Fallback
    \/ Validate

ContractsSpec == ContractsInit /\ [][ContractsNext]_contractsVars

-----------------------------------------------------------------------------
(***************************************************************************)
(* The fallback exists so that a roadmap never fails for want of a         *)
(* provider: its contract fulfils the schema it is not parsed by and is    *)
(* accepted.  It answers the audit: each gap the assessment applied has    *)
(* one step of its own and nothing else has one, and a step waits only for *)
(* earlier ones, so that the plan can be followed.                         *)
(***************************************************************************)
FallbackCoversGaps ==
    contract.by = "fallback" =>
        /\ SchemaValid(contract.steps) /\ contract_pc # "rejected"
        /\ \A i \in DOMAIN result_items :
              Cardinality({j \in DOMAIN contract.steps :
                              contract.steps[j].gap_relacionado = i})
                = IF /\ result_items[i].applied
                     /\ result_items[i].is_blocking \/ result_items[i].score_delta = -1
                  THEN 1 ELSE 0
        /\ \A j \in DOMAIN contract.steps :
              \A d \in contract.steps[j].dependencias :
                 \E i \in 1 .. j - 1 : contract.steps[i].step_order = d

=============================================================================
