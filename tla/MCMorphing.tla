----------------------------- MODULE MCMorphing -----------------------------
(***************************************************************************)
(* Two visitors and one request more than there are places. Two light      *)
(* renders fit the cache together, or one heavy one; a huge one is kept    *)
(* nowhere.                                                                *)
(***************************************************************************)
EXTENDS Morphing, TLC

CONSTANTS light1, light2, heavy, huge

MCPoints == {light1, light2, heavy, huge}
MCWeight == light1 :> 1 @@ light2 :> 1 @@ heavy :> 2 @@ huge :> 3
MCCapacity == [k \in Keys |-> IF k = Everyone THEN 2 ELSE 1]

(* A huge render is asked for while no other thread is at work.            *)
HugeApart ==
  \A i, j \in Jobs : ~(job[i].point = huge /\ i # j /\ job[j].at # "none")

Symmetry == Permutations(Visitors) \cup Permutations(Requests) \cup Permutations(Jobs)
              \cup Permutations({light1, light2})
=============================================================================
