-------------------------- MODULE MCStepGraphLoops --------------------------
(* Every graph over three steps, of which the second cannot run here.      *)
EXTENDS StepGraphLoops
MCUnavailable == {2}
=============================================================================
