--------------------------- MODULE MCAnnotations ---------------------------
EXTENDS Annotations, TLC

CONSTANTS s1, s2, s3, a, b, p, q, w1, w2

MCTagsOf == a :> {p, q} @@ b :> {p}

MCGestures == {[label |-> a, favorite |-> Kept], [label |-> Kept, favorite |-> FALSE]}

Saying(label, favorite, slot) ==
  [decisions |-> [label |-> label, favorite |-> favorite], anchor |-> slot]

MCFiles == {s1 :> Saying(b, FALSE, 1)}

MCLibraries ==
  {s1 :> None @@ s2 :> None @@ s3 :> None,
   s1 :> Saying(b, TRUE, 1) @@ s2 :> Saying(None, TRUE, 1) @@ s3 :> None,
   s1 :> Saying(b, FALSE, 1) @@ s2 :> Saying(None, TRUE, 2) @@ s3 :> None}

MCCatalogs == {<<s1, s2>>, <<s3, None>>}

Swap == Permutations({w1, w2})
=============================================================================
