-------------------------- MODULE LibraryEmptying --------------------------
(***************************************************************************)
(* What a pipeline promises of the library it builds, whatever its runs,   *)
(* processes and locks: an emptying, once begun, ends only over a library  *)
(* that holds nothing, and nothing is built until it has ended. Outputs    *)
(* may go at any time: a redo drops them, a changed input leaves a step    *)
(* without one.                                                            *)
(***************************************************************************)
CONSTANT Steps

VARIABLES
  standing,     \* the steps with an output in the library
  emptying      \* whether an emptying was begun and has not ended

vars == <<standing, emptying>>

Init == standing \subseteq Steps /\ emptying = FALSE

Build(s, gone) ==
  /\ ~emptying
  /\ standing' = (standing \ gone) \cup {s}
  /\ UNCHANGED emptying

Drop(gone) ==
  /\ standing' = standing \ gone
  /\ UNCHANGED emptying

BeginEmptying ==
  /\ emptying' = TRUE
  /\ UNCHANGED standing

EndEmptying ==
  /\ emptying
  /\ standing = {}
  /\ emptying' = FALSE
  /\ UNCHANGED standing

Next ==
  \/ \E gone \in SUBSET Steps : Drop(gone) \/ \E s \in Steps : Build(s, gone)
  \/ BeginEmptying
  \/ EndEmptying

Spec == Init /\ [][Next]_vars
=============================================================================
