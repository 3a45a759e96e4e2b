-------------------------- MODULE MCAssessmentsApi --------------------------
(***************************************************************************)
(* Instances of AssessmentsApi for TLC.  Clients and keys are only ever    *)
(* compared for equality, so the safety runs use them as symmetry sets.    *)
(***************************************************************************)
EXTENDS AssessmentsApi, TLC

Symmetry == Permutations(Clients) \cup Permutations(Keys)
=============================================================================
