----------------------------- MODULE ScoreEngine -----------------------------
(***************************************************************************)
(* ScoreEngine.evaluate (apps/assessments/engine.py) and the rules the     *)
(* deterministic extractor publishes for it.  Scores are kept in           *)
(* hundredths, deltas in one unit, whichever it is.  Two applicants are    *)
(* scored with the same rules, so that their results can be compared.      *)
(*                                                                         *)
(* A condition is about one field of the normalized profile; the order of  *)
(* groups, conditions and outcomes decides about the breakdown and the     *)
(* hash only, so that they are sets here.                                  *)
(***************************************************************************)
EXTENDS Integers, Sequences, FiniteSets, Functions, TLC

CONSTANTS
    RuleSets,       \* the rules of a program version
    Applicants      \* profiles as the user has entered them

\* rule_outcomes: a score_delta, and an is_blocking that is not null.
ASSUME RulesAssumption ==
    \A gs \in RuleSets :
       /\ IsFiniteSet(gs)
       /\ \A g \in gs :
             /\ IsFiniteSet(g.outcomes)
             /\ \A o \in g.outcomes : o.score_delta \in Int /\ o.is_blocking \in BOOLEAN

VARIABLES
    rules, applicant, rival,
    verdict,        \* results of the applicant and of the rival
    engine_pc

engineVars == <<rules, applicant, rival, verdict, engine_pc>>

\* A field that is not there: _resolve_field returns None.
None == -1

-----------------------------------------------------------------------------
\* _CEFR_TO_NUMERIC, and DeterministicExtractor._cefr_to_rank
CefrToNumeric == [A1 |-> 1, A2 |-> 2, B1 |-> 3, B2 |-> 4, C1 |-> 5, C2 |-> 6]

IeltsToCefrNumeric ==
    "4.0" :> 2 @@ "4.5" :> 3 @@ "5.0" :> 3 @@ "5.5" :> 4 @@ "6.0" :> 4 @@
    "6.5" :> 5 @@ "7.0" :> 5 @@ "7.5" :> 6 @@ "8.0" :> 6 @@ "8.5" :> 6 @@ "9.0" :> 6

\* The table _language_level_to_numeric looks a level up in.
LanguageTable(framework) ==
    IF framework = "CEFR" THEN CefrToNumeric ELSE IeltsToCefrNumeric

Speaks(language) == language.framework # "none"

\* What is not in the table raises ScoreEngineInputError.
LanguageKnown(language) ==
    Speaks(language) => language.level \in DOMAIN LanguageTable(language.framework)

LanguageRank(language) ==
    IF Speaks(language) THEN LanguageTable(language.framework)[language.level] ELSE None

EducationRanks ==
    [fundamental |-> 1, ensino_medio |-> 2, tecnico |-> 3, bachelor |-> 4,
     graduacao |-> 4, master |-> 5, phd |-> 6, doutorado |-> 6]

\* _EDUCATION_RANK.get(education, 0)
EducationRank(education) ==
    IF education \in DOMAIN EducationRanks THEN EducationRanks[education] ELSE 0

\* _normalize_profile: the fields conditions refer to.
Normalize(a) ==
    [idade             |-> a.idade,
     renda_atual       |-> a.renda_atual,
     escolaridade_rank |-> EducationRank(a.escolaridade),
     en                |-> LanguageRank(a.ingles)]

-----------------------------------------------------------------------------
(***************************************************************************)
(* _evaluate_condition.  value_json is written as a sequence: one number,  *)
(* [min, max] or a list; for exists, 1 is true.  No number is compared     *)
(* with a field that is None.                                              *)
(***************************************************************************)
Holds(c, p) ==
    LET actual == p[c.field_key]
        there == actual # None
        value == c.value_json[1]
    IN  \/ c.operator = "exists"  /\ there = (value = 1)
        \/ c.operator = "eq"      /\ actual = value
        \/ c.operator = "ne"      /\ actual # value
        \/ c.operator = "gt"      /\ there /\ actual > value
        \/ c.operator = "gte"     /\ there /\ actual >= value
        \/ c.operator = "lt"      /\ there /\ actual < value
        \/ c.operator = "lte"     /\ there /\ actual <= value
        \/ c.operator = "between" /\ there /\ actual \in value .. c.value_json[2]
        \/ c.operator = "in"      /\ actual \in Range(c.value_json)
        \/ c.operator = "not_in"  /\ actual \notin Range(c.value_json)

\* _evaluate_group_conditions: a group without conditions applies.
Applies(g, p) ==
    \/ g.conditions = {}
    \/ /\ g.match_operator = "any"
       /\ \E c \in g.conditions : Holds(c, p)
    \/ /\ g.match_operator = "all"
       /\ \A c \in g.conditions : Holds(c, p)

Applying(gs, p) == {g \in gs : Applies(g, p)}

Blocks(g) == \E o \in g.outcomes : o.is_blocking

\* _evaluate_scoring_pass: the outcomes that score, each with its group.
Scoring(gs) ==
    {go \in UNION {{g} \X g.outcomes : g \in gs} : ~go[2].is_blocking}

\* The points that scored gives, and those it takes, one by one.
Points(scored) == UNION {{go} \X (1 .. go[2].score_delta) : go \in scored}
Penalties(scored) == UNION {{go} \X (1 .. -go[2].score_delta) : go \in scored}

\* The sum of the deltas.
Total(scored) == Cardinality(Points(scored)) - Cardinality(Penalties(scored))

\* min_possible and max_possible of _normalize_score, whoever is scored.
Scale(gs) ==
    [min |-> -Cardinality(Penalties(Scoring(gs))),
     max |-> Cardinality(Points(Scoring(gs)))]

\* Scores are in hundredths: 100.00.
Hundred == 10000

\* 100 * numerator / denominator in hundredths, rounded half up.
Percent(numerator, denominator) ==
    (20000 * numerator + denominator) \div (2 * denominator)

\* Mutant of NormalizedScore: the scale starts at 0 instead of min_possible.
NormalizedScore_unshifted(raw, scale) ==
    IF scale.max = scale.min \/ raw < 0
    THEN IF raw > 0 THEN Hundred ELSE 0
    ELSE Percent(raw, scale.max - scale.min)

\* _normalize_score and _quantize; the clamp never has anything to do.
NormalizedScore(raw, scale) ==
    IF scale.max = scale.min
    THEN IF raw > 0 THEN Hundred ELSE 0
    ELSE Percent(raw - scale.min, scale.max - scale.min)

\* _to_faixa, and AssessmentsService._faixa of the stored score.
Faixa(score) ==
    CASE score < 4000 -> "baixo"
      [] score \in 4000 .. 6999 -> "medio"
      [] score >= 7000 -> "alto"

(***************************************************************************)
(* evaluate.  The first pass looks at blocking outcomes only; if one       *)
(* applies the score is 0 and nothing else is looked at.                   *)
(***************************************************************************)
Evaluate(gs, a) ==
    LET p == Normalize(a)
        raw == Total(Scoring(Applying(gs, p)))
        score == NormalizedScore(raw, Scale(gs))
    IN  IF \E g \in Applying(gs, p) : Blocks(g)
        THEN [score |-> 0, faixa |-> "baixo", blocked |-> TRUE, eligible |-> FALSE]
        ELSE [score |-> score, faixa |-> Faixa(score), blocked |-> FALSE,
              eligible |-> score >= 6000]

-----------------------------------------------------------------------------
Condition(field, op, value) ==
    [field_key |-> field, operator |-> op, value_json |-> value]

Outcome(delta, code) ==
    [score_delta |-> delta, is_blocking |-> FALSE, outcome_code |-> code]

Group(code, condition, outcomes) ==
    [code |-> code, match_operator |-> "all", conditions |-> {condition},
     outcomes |-> outcomes]

AgeGroup(years) ==
    Group("age_requirement", Condition("idade", "lte", <<years>>),
          {Outcome(15, "AGE_OK"), Outcome(-20, "AGE_RISK")})

IncomeGroup(minimum) ==
    Group("income_requirement", Condition("renda_atual", "gte", <<minimum>>),
          {Outcome(20, "INCOME_OK")})

LanguageGroup(level) ==
    Group("language_requirement", Condition("en", "gte", <<CefrToNumeric[level]>>),
          {Outcome(15, "LANG_OK")})

BaselineGroup ==
    Group("baseline_publication_guard", Condition("escolaridade_rank", "gte", <<0>>),
          {Outcome(5, "BASELINE")})

(***************************************************************************)
(* _build_rule_groups of a text that states an age, an income and a level  *)
(* of English; 0 and "none" stand for a signal that is not found.          *)
(***************************************************************************)
ExtractedRules(years, minimum, level) ==
    {BaselineGroup} \cup {AgeGroup(n) : n \in {years} \ {0}}
      \cup {IncomeGroup(n) : n \in {minimum} \ {0}}
      \cup {LanguageGroup(l) : l \in {level} \ {"none"}}

\* The deterministic confidence, in hundredths.
Confidence(signals) == IF 55 + 10 * signals < 95 THEN 55 + 10 * signals ELSE 95

\* can_auto_publish: what is below the threshold is left to the fallback,
\* which always asks for a manual review.
Publishable(signals, threshold) == Confidence(signals) >= threshold

-----------------------------------------------------------------------------
EngineInit ==
    /\ rules \in RuleSets
    /\ applicant \in Applicants
    /\ rival \in Applicants
    /\ verdict = << >>
    /\ engine_pc = "evaluate"

\* A level that is not known is a ScoreEngineInputError: no result.
EvaluateBoth ==
    /\ engine_pc = "evaluate"
    /\ IF LanguageKnown(applicant.ingles) /\ LanguageKnown(rival.ingles)
       THEN /\ verdict' = <<Evaluate(rules, applicant), Evaluate(rules, rival)>>
            /\ engine_pc' = "done"
       ELSE verdict' = verdict /\ engine_pc' = "refused"
    /\ UNCHANGED <<rules, applicant, rival>>

EngineSpec == EngineInit /\ [][EvaluateBoth]_engineVars

-----------------------------------------------------------------------------
\* All outcomes of g speak for an applicant, or against one.
Favours(g) == \A o \in g.outcomes : o.score_delta >= 0 /\ ~o.is_blocking
Penalizes(g) == \A o \in g.outcomes : o.score_delta <= 0 \/ o.is_blocking

\* The rival gets all that favours the applicant, and no other penalty.
RivalIsBetter ==
    LET p == Normalize(applicant)
        q == Normalize(rival)
    IN  \A g \in rules :
          \/ Applies(g, p) = Applies(g, q)
          \/ Applies(g, q) /\ Favours(g)
          \/ Applies(g, p) /\ Penalizes(g)

\* The applicant gets what there is to get and no penalty, of groups that are
\* one or the other (an extracted age group is both).
ApplicantIsPerfect ==
    /\ \E g \in rules : \E o \in g.outcomes : o.score_delta > 0 /\ ~o.is_blocking
    /\ \A g \in rules :
          /\ Favours(g) \/ Penalizes(g)
          /\ Applies(g, Normalize(applicant)) <=> Favours(g)

(***************************************************************************)
(* The score is fair: whoever satisfies more of the rules that favour an   *)
(* applicant, and fewer of those that penalize or block one, is not scored *)
(* or classified worse, through blocking, normalization, rounding and the  *)
(* thresholds.  The score is a percentage that can be reached, and whoever *)
(* is eligible is above "baixo".                                           *)
(***************************************************************************)
FairResults(mine, other) ==
    /\ mine.score \in 0 .. Hundred
    /\ mine.eligible => mine.faixa # "baixo"
    /\ ApplicantIsPerfect => mine.score = Hundred
    /\ RivalIsBetter =>
          /\ mine.score <= other.score
          /\ mine.eligible => other.eligible
          /\ other.blocked => mine.blocked

BetterNeverScoresLess == engine_pc = "done" => FairResults(verdict[1], verdict[2])

(***************************************************************************)
(* extractors.py: "Age requirement up to {age_value} years matched." and   *)
(* "Age above {age_value} years may reduce eligibility."  Of two           *)
(* applicants who differ in age only, one within the limit scores no less. *)
(***************************************************************************)
MeetingAgeNeverHurts ==
    engine_pc = "done" =>
        \A years \in 1 .. 99 :
            /\ AgeGroup(years) \in rules
            /\ applicant = [rival EXCEPT !.idade = applicant.idade]
            /\ applicant.idade <= years /\ rival.idade > years
            => verdict[1].score >= verdict[2].score
=============================================================================
