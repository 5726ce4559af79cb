---------------------------- MODULE MCExtraction ----------------------------
(* Two modules of a collection, which hold two samples in common and keep  *)
(* them in opposite slots; one of them holds a third sample.               *)
EXTENDS Extraction, TLC

CONSTANTS m1, m2, p1, p2

MCModules == {m1, m2}
MCProcesses == {p1, p2}
MCSlots == (m1 :> <<2, 1>>) @@ (m2 :> <<1, 2, 3>>)

Symmetry == Permutations(MCProcesses)
=============================================================================
