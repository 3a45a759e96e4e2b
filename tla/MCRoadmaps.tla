----------------------------- MODULE MCRoadmaps -----------------------------
(***************************************************************************)
(* Instances of Roadmaps for TLC.                                          *)
(***************************************************************************)
EXTENDS Roadmaps, TLC

Symmetry == Permutations(Clients) \cup Permutations(Workers)
=============================================================================
