---------------------------- MODULE ProfileMatch ----------------------------
(***************************************************************************)
(* ProfileMatchService (apps/profile_match/services.py): the ranking of    *)
(* the countries for a profile, and the submission a guest leaves behind   *)
(* and claims after the login.  A claim reads the submission and writes it *)
(* later, so that claims may overlap.                                      *)
(*                                                                         *)
(* Features are kept in hundredths, their products exactly; amounts are in *)
(* thousands of BRL.  The ranking is a function of the country: the list   *)
(* the API gives is in the order of its values.                            *)
(***************************************************************************)
EXTENDS Integers, Functions

CONSTANTS
    MatchUsers,
    Profiles,       \* ProfileMatchSubmitRequest without guest_session_id
    Sessions        \* guest session ids a browser may send

VARIABLES
    submission,     \* the row, user_id "none" until it is claimed
    loaded,         \* user_id as the claim of a user has read it
    shown,          \* users who were given the results
    overlapped,     \* history: two claims have been in progress at once
    again           \* profile and ranking of a second, better submission

matchVars == <<submission, loaded, shown, overlapped, again>>

-----------------------------------------------------------------------------
CefrScores == [A1 |-> 20, A2 |-> 35, B1 |-> 55, B2 |-> 70, C1 |-> 85, C2 |-> 100]

EducationScores ==
    [ensino_medio |-> 45, tecnico |-> 58, graduacao |-> 72, mestrado |-> 86,
     doutorado |-> 100]

CefrLevels == {"A1", "A2", "B1", "B2", "C1", "C2"}

EducationLevels == {"ensino_medio", "tecnico", "graduacao", "mestrado", "doutorado"}

ProfessionAreas == {"tecnologia", "engenharia", "saude", "negocios", "educacao",
                    "servicos", "outros"}

PreferredRegions == {"americas", "europa", "asia", "indiferente"}

\* What the schema of the request admits.
ProfileMatchSubmitRequest(p) ==
    /\ p.age \in Nat /\ 18 <= p.age /\ p.age <= 70
    /\ p.education_level \in EducationLevels
    /\ p.experience_years \in Nat /\ p.experience_years <= 45
    /\ p.english_level \in CefrLevels /\ p.french_level \in CefrLevels
    /\ p.savings_brl \in Nat /\ p.savings_brl <= 10000
    /\ p.monthly_income_brl \in Nat /\ p.monthly_income_brl <= 1000
    /\ p.profession_area \in ProfessionAreas
    /\ p.has_job_offer \in BOOLEAN /\ p.has_family_abroad \in BOOLEAN
    /\ p.willing_to_learn_language \in BOOLEAN
    /\ p.wants_fast_citizenship \in BOOLEAN
    /\ p.preferred_region \in PreferredRegions

ASSUME UsersAssumption == "none" \notin MatchUsers

ASSUME ProfilesAssumption == \A p \in Profiles : ProfileMatchSubmitRequest(p)

Country(code, region, mode, funds, professions, job, family, speed, boost) ==
    [code |-> code, region |-> region, language_mode |-> mode,
     min_funds_brl |-> funds, preferred_professions |-> professions,
     job_offer_factor |-> job, family_factor |-> family,
     citizenship_speed |-> speed, base_boost |-> boost]

CountryRules ==
    LET T == "tecnologia" E == "engenharia" S == "saude"
        N == "negocios" D == "educacao" V == "servicos"
    IN {Country("US", "americas", "english", 130, {T, E, S, N}, 130, 110, "regular", 1),
        Country("CA", "americas", "hybrid", 90, {T, E, S, D}, 120, 115, "regular", 3),
        Country("GB", "europa", "english", 95, {T, E, S, N}, 120, 105, "regular", 0),
        Country("IE", "europa", "english", 80, {T, E, S, D}, 115, 100, "regular", 1),
        Country("PT", "europa", "local", 55, {T, E, V, N}, 105, 115, "fast", 5),
        Country("DE", "europa", "local", 85, {E, T, S, D}, 120, 100, "regular", 1),
        Country("FR", "europa", "french", 75, {E, S, N, D}, 110, 105, "regular", 0),
        Country("ES", "europa", "local", 60, {V, N, T, E}, 105, 110, "regular", 2),
        Country("IT", "europa", "local", 62, {V, N, E, D}, 100, 105, "regular", 0),
        Country("NL", "europa", "english", 88, {T, E, N, D}, 115, 100, "regular", 1),
        Country("CH", "europa", "hybrid", 120, {E, S, T, N}, 125, 100, "regular", -1),
        Country("BE", "europa", "hybrid", 78, {E, T, S, N}, 110, 105, "regular", 0),
        Country("JP", "asia", "local", 100, {T, E, D, N}, 115, 95, "regular", -1),
        Country("AR", "americas", "local", 45, {N, V, D, T}, 95, 110, "fast", 3),
        Country("PY", "americas", "local", 40, {N, V, E, D}, 95, 110, "fast", 4)}

Larger(m, n) == IF m > n THEN m ELSE n

Clamp(n, lower, upper) == IF n < lower THEN lower ELSE IF n > upper THEN upper ELSE n

AgeScore(age) ==
    CASE age \in 22 .. 34 -> 100
      [] age \in (18 .. 21) \cup (35 .. 40) -> 82
      [] age \in 41 .. 50 -> 62
      [] age > 50 -> 45

\* Mutant of LanguageScore: in a hybrid country French comes before English.
LanguageScore_french(rule, en, fr, willing) ==
    LET local == 2500 + 35 * en + (IF willing THEN 2500 ELSE 0)
    IN  CASE rule.language_mode = "english" -> 100 * en
          [] rule.language_mode = "french"  -> Larger(100 * fr, 45 * en)
          [] rule.language_mode = "hybrid"  -> IF fr >= 55 THEN 80 * fr ELSE 80 * en
          [] rule.language_mode = "local"   -> Clamp(local, 0, 10000)

\* _language_score, in 1/10000; no "local" country is CH or BE.
LanguageScore(rule, en, fr, willing) ==
    LET local == 2500 + 35 * en + (IF willing THEN 2500 ELSE 0)
    IN  CASE rule.language_mode = "english" -> 100 * en
          [] rule.language_mode = "french"  -> Larger(100 * fr, 45 * en)
          [] rule.language_mode = "hybrid"  -> Larger(80 * en, 80 * fr)
          [] rule.language_mode = "local"   -> Clamp(local, 0, 10000)

\* In 1/10000; the quotient is cut off there.
FundsScore(rule, pool) == Clamp((10000 * pool) \div rule.min_funds_brl, 0, 10000)

ProfessionScore(rule, area) ==
    CASE area \in rule.preferred_professions -> 100
      [] area \notin rule.preferred_professions ->
            IF area \in {"tecnologia", "engenharia", "saude"} THEN 70 ELSE 52

CitizenshipScore(wants_fast, speed) ==
    IF wants_fast THEN IF speed = "fast" THEN 100 ELSE 55
                  ELSE IF speed = "fast" THEN 80 ELSE 75

\* weighted_score in millionths.
WeightedScore(rule, p) ==
    LET language == LanguageScore(rule, CefrScores[p.english_level],
                                  CefrScores[p.french_level],
                                  p.willing_to_learn_language)
        funds == FundsScore(rule, p.savings_brl + 8 * p.monthly_income_brl)
        region == IF p.preferred_region \in {"indiferente", rule.region} THEN 100 ELSE 40
        job_offer == IF p.has_job_offer THEN 100 ELSE 20
        family == IF p.has_family_abroad THEN 100 ELSE 35
    IN  100 * (11 * AgeScore(p.age) + 11 * EducationScores[p.education_level]
                 + 15 * Clamp(10 * p.experience_years, 0, 100)
                 + 12 * ProfessionScore(rule, p.profession_area)
                 + 6 * region
                 + 6 * CitizenshipScore(p.wants_fast_citizenship, rule.citizenship_speed))
          + 19 * language + 15 * funds
          + 3 * job_offer * rule.job_offer_factor
          + 2 * family * rule.family_factor
          + 10000 * rule.base_boost

\* match_score in hundredths of a per cent, of every country.
RankProfile(p) ==
    [code \in {rule.code : rule \in CountryRules} |->
        LET rule == CHOOSE r \in CountryRules : r.code = code
        IN  (Clamp(WeightedScore(rule, p), 0, 995000) + 50) \div 100]

-----------------------------------------------------------------------------
Absent == [user_id |-> "none", guest_session_id |-> "none", result |-> << >>]

MatchInit ==
    /\ submission = Absent
    /\ loaded = [u \in MatchUsers |-> "unread"]
    /\ shown = {}
    /\ overlapped = FALSE
    /\ again = << >>

(***************************************************************************)
(* submit_profile, by a guest (owner "none") or a user.  Without a login   *)
(* the result is kept back.                                                *)
(***************************************************************************)
SubmitProfile(p, owner, session) ==
    /\ submission = Absent
    /\ submission' = [user_id |-> owner, guest_session_id |-> session,
                      profile |-> p, result |-> RankProfile(p)]
    /\ shown' = {owner} \ {"none"}
    /\ UNCHANGED <<loaded, overlapped, again>>

\* Another submission of the same browser, before the first is claimed.
SubmitAgain(p) ==
    /\ submission # Absent
    /\ shown = {} /\ again = << >>
    /\ \A u \in MatchUsers : loaded[u] = "unread"
    /\ again' = <<p, RankProfile(p)>>
    /\ UNCHANGED <<submission, loaded, shown, overlapped>>

\* Claims that have read the submission and not yet written it.
InProgress == {v \in MatchUsers : loaded[v] # "unread"}

\* Mutant of LoadClaim: a submission that has an owner is claimed like another.
LoadClaim_owned(u, session) ==
    /\ submission # Absent
    /\ loaded[u] = "unread"
    /\ submission.guest_session_id = session
    /\ loaded' = [loaded EXCEPT ![u] = submission.user_id]
    /\ overlapped' = (overlapped \/ InProgress # {})
    /\ UNCHANGED <<submission, shown, again>>

\* claim_submission reads the row: 403 for another browser's session.
LoadClaim(u, session) ==
    /\ submission # Absent
    /\ loaded[u] = "unread"
    /\ submission.user_id = "none"
    /\ submission.guest_session_id = session
    /\ loaded' = [loaded EXCEPT ![u] = submission.user_id]
    /\ overlapped' = (overlapped \/ InProgress # {})
    /\ UNCHANGED <<submission, shown, again>>

\* The write, the commit and the refresh; nothing is compared again.
WriteClaim(u) ==
    /\ loaded[u] # "unread"
    /\ submission' = [submission EXCEPT !.user_id = u]
    /\ loaded' = [loaded EXCEPT ![u] = "unread"]
    /\ shown' = shown \cup {u}
    /\ UNCHANGED <<overlapped, again>>

\* get_results, or the claim of what is one's own: 404 for anybody else.
ReadResults(u) ==
    /\ submission.user_id = u
    /\ shown' = shown \cup {u}
    /\ UNCHANGED <<submission, loaded, overlapped, again>>

MatchNext ==
    \/ \E p \in Profiles, owner \in MatchUsers \cup {"none"}, session \in Sessions :
          SubmitProfile(p, owner, session)
    \/ \E p \in Profiles : SubmitAgain(p)
    \/ \E u \in MatchUsers :
          \/ \E session \in Sessions : LoadClaim(u, session)
          \/ WriteClaim(u)
          \/ ReadResults(u)

MatchSpec == MatchInit /\ [][MatchNext]_matchVars

-----------------------------------------------------------------------------
(***************************************************************************)
(* Claims of one submission that come one after the other give its results *)
(* to one user: whoever was ever given them owns it and can read them      *)
(* again.  Two claims that overlap break this, since the write does not    *)
(* look at the owner again; only they do.                                  *)
(***************************************************************************)
ShownToOwner == ~overlapped => shown \subseteq {submission.user_id}

\* q is at least as good as p in what an applicant can improve.
Improves(q, p) ==
    /\ EducationScores[q.education_level] >= EducationScores[p.education_level]
    /\ q.experience_years >= p.experience_years
    /\ CefrScores[q.english_level] >= CefrScores[p.english_level]
    /\ CefrScores[q.french_level] >= CefrScores[p.french_level]
    /\ q.savings_brl >= p.savings_brl
    /\ q.monthly_income_brl >= p.monthly_income_brl
    /\ p.has_job_offer => q.has_job_offer
    /\ p.has_family_abroad => q.has_family_abroad
    /\ p.willing_to_learn_language => q.willing_to_learn_language
    /\ \A field \in {"age", "profession_area", "preferred_region",
                    "wants_fast_citizenship"} : q[field] = p[field]

(***************************************************************************)
(* "Aumentar reserva financeira melhora muito a elegibilidade" and its     *)
(* like: a better education, more experience, languages, funds, an offer   *)
(* of work or a family abroad never lower a country's score, whatever the  *)
(* way the country weighs languages.                                       *)
(***************************************************************************)
ImprovementNeverLowers ==
    again # << >> /\ Improves(again[1], submission.profile) =>
        \A code \in DOMAIN again[2] : again[2][code] >= submission.result[code]
=============================================================================
