------------------------- MODULE MCAnnotationQueue -------------------------
(* A class of two samples, one of them with nothing to anchor it, and a    *)
(* person who gives a label and who takes it back for a favorite.          *)
EXTENDS AnnotationQueue, TLC

CONSTANTS s1, s2, a

MCSamples == {s1, s2}
MCClassOf == [s \in MCSamples |-> MCSamples]
MCTagsOf == a :> {a}
MCGestures == {[label |-> a, favorite |-> Kept], [label |-> None, favorite |-> TRUE]}
=============================================================================
