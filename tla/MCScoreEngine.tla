--------------------------- MODULE MCScoreEngine ---------------------------
(***************************************************************************)
(* An instance of ScoreEngine for TLC: rules the extractor has published.  *)
(***************************************************************************)
EXTENDS ScoreEngine, FiniteSets

\* Those that reach the default confidence_threshold of a source.
ExtractedRuleSets ==
    {gs \in {ExtractedRules(years, minimum, level) :
                years \in {0, 35, 40}, minimum \in {0, 3000}, level \in {"none", "B2"}} :
        Publishable(Cardinality(gs \ {BaselineGroup}), 80)}

SomeApplicants ==
    [idade : {30, 45}, renda_atual : {2000, 4000}, escolaridade : {"graduacao"},
     ingles : {[framework |-> "CEFR", level |-> "C1"],
               [framework |-> "IELTS", level |-> "5.0"]}]
=============================================================================
