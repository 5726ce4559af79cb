----------------------------- MODULE StepGraph -----------------------------
(***************************************************************************)
(* What the step graph of a pipeline promises (pipeline/graph.py), stated  *)
(* over a graph given as a function `requires`: its domain holds the steps *)
(* by their place in declaration order, and requires[s] names the steps s  *)
(* needs before it. StepGraphLoops runs the loops of the code against      *)
(* these definitions; PipelineRuns takes its order of steps from them.     *)
(***************************************************************************)
EXTENDS Integers

Closed(requires, S) == \A s \in S : requires[s] \subseteq S

(* Every step the wanted ones need: the least closed set around them.      *)
Needed(requires, wanted) ==
  {s \in DOMAIN requires :
     \A S \in SUBSET DOMAIN requires :
        wanted \subseteq S /\ Closed(requires, S) => s \in S}

(* Every step that needs s, directly or through another.                   *)
Descendants(requires, s) ==
  {t \in DOMAIN requires \ {s} : s \in Needed(requires, {t})}

(* No group of steps waits only on its own members.                        *)
HasOrder(requires) ==
  \A S \in SUBSET DOMAIN requires :
     S # {} => \E s \in S : requires[s] \cap S = {}

(* Every step is declared after what it requires.                          *)
DeclaredInOrder(requires) ==
  \A s \in DOMAIN requires : \A t \in requires[s] : t < s
=============================================================================
