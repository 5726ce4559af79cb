--------------------------- MODULE MCPipelineRuns ---------------------------
(***************************************************************************)
(* Small libraries for PipelineRuns. Three steps stand for the kinds: a    *)
(* pass, a file built from the catalog, and an experiment that reads the   *)
(* file; two keep a run with more runs or restarts small.                  *)
(***************************************************************************)
EXTENDS PipelineRuns, TLC

Requires3 == <<{}, {1}, {2}>>
Pass1 == {1}
File2 == {2}
Both12 == {1, 2}
NoSteps == {}

Ask(targets, scratch, redo) == [targets |-> targets, scratch |-> scratch, redo |-> redo]

(* A plain run, one from scratch, one that redoes the file, and one of the *)
(* first target only.                                                      *)
Requests3 == {Ask({1, 2, 3}, FALSE, {}), Ask({1, 2, 3}, TRUE, {}),
              Ask({1, 2, 3}, FALSE, {2}), Ask({1}, FALSE, {})}

(* Runs are told apart by nothing but their name.                          *)
Symmetry == Permutations(Runs)

(* Two steps: a file and an experiment made from it.                       *)
Requires2 == <<{}, {1}>>
File1 == {1}
Requests2 == {Ask({1, 2}, FALSE, {}), Ask({1, 2}, TRUE, {})}

(* One step and the reset before it, for what runs on to its end.          *)
Requires1 == <<{}>>
Requests1 == {Ask({1}, TRUE, {})}
=============================================================================
