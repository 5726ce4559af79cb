---------------------------- MODULE MCStagedBuild ----------------------------
(***************************************************************************)
(* Two builds under one name that leave arrays of one shape, so that       *)
(* nothing but the recorded identity tells a stopped build of the one from *)
(* the other's.                                                            *)
(***************************************************************************)
EXTENDS StagedBuild, TLC
OneShape == [id \in Identities |-> "rows"]
Symmetry == Permutations(Identities) \cup Permutations(Directories)
=============================================================================
