-------------------------- MODULE MCProgramVersions --------------------------
(***************************************************************************)
(* An instance of ProgramVersions for TLC.                                 *)
(***************************************************************************)
EXTENDS ProgramVersions

PageMeaning == [p \in Pages |-> "rules"]
=============================================================================
