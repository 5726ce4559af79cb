--------------------------- MODULE MCApplications ---------------------------
(***************************************************************************)
(* Two applications over two libraries. People work with one of them; the  *)
(* other opens the library its config names, and is left again.            *)
(***************************************************************************)
EXTENDS Applications, TLC

(* Requests that overlap are followed where one application runs alone.    *)
OverlapsAlone ==
  \A a \in Apps : overlapped[a] => \A b \in Apps \ {a} : life[b] = "off"

Symmetry == Permutations(Roots)
=============================================================================
