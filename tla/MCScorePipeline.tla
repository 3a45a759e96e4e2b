-------------------------- MODULE MCScorePipeline ---------------------------
(***************************************************************************)
(* Instances of ScorePipeline for TLC.  The run checks liveness, so it     *)
(* uses no symmetry set.                                                   *)
(***************************************************************************)
EXTENDS ScorePipeline, TLC
=============================================================================
