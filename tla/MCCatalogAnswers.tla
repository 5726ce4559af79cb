-------------------------- MODULE MCCatalogAnswers --------------------------
(***************************************************************************)
(* Two requests. With one thread and one connection, whoever waits for the *)
(* connection holds the only thread; with two of each, both rebuild at     *)
(* once. A stamp, a digest and a count: the revision reads the count last, *)
(* the rows read it second.                                                *)
(***************************************************************************)
EXTENDS CatalogAnswers

CONSTANTS coordinates, rates, occurrences

MCParts == {coordinates, rates, occurrences}
MCRevisionOrder == <<coordinates, rates, occurrences>>
MCBodyOrder == <<coordinates, occurrences, rates>>
MCTold == {-1, -2}
MCFirstTold == -1
MCSizes == {[threads |-> n, connections |-> n] : n \in 1..2}
=============================================================================
