--------------------------- MODULE AnnotationRows ---------------------------
(***************************************************************************)
(* What a person decides about a sample (samplecore/models/annotation.py)  *)
(* and the changes they make to it. A label stands for whatever wording it *)
(* carries, and the favorite for every decision beside the label: a rating *)
(* is kept, merged and written the same way.                               *)
(***************************************************************************)
EXTENDS Naturals

CONSTANTS
  Samples,     \* sample hashes, those the catalog holds and those it lost
  Labels,
  TagsOf,      \* the tags each label names
  LastSlot,    \* the slots samples are found in are 1..LastSlot, in order
  Gestures,    \* the changes a person makes
  Files,       \* the annotation files at hand
  None,
  Kept         \* what a change leaves alone

Slots == 1..LastSlot

Decisions == [label : Labels \cup {None}, favorite : BOOLEAN]
NoDecisions == [label |-> None, favorite |-> FALSE]

AnnotationChanges == [label : Labels \cup {None, Kept}, favorite : BOOLEAN \cup {Kept}]

(* A stored annotation: decisions, and the slot its sample was found in.   *)
Annotations == [decisions : Decisions \ {NoDecisions}, anchor : Slots]

ASSUME LastSlotAssumption == LastSlot \in Nat
ASSUME GesturesAssumption == Gestures \subseteq AnnotationChanges
ASSUME FilesAssumption ==
  \A file \in Files : DOMAIN file \subseteq Samples
                      /\ \A s \in DOMAIN file : file[s] \in Annotations
ASSUME MarksAssumption ==
  None # Kept /\ None \notin Labels /\ Kept \notin Labels /\ Kept \notin BOOLEAN
  /\ None \notin Annotations /\ None \notin Samples

(* AnnotationChanges.applied_to: a change keeps whatever it leaves alone.  *)
Changed(decisions, g) ==
  [label |-> IF g.label = Kept THEN decisions.label ELSE g.label,
   favorite |-> IF g.favorite = Kept THEN decisions.favorite ELSE g.favorite]
=============================================================================
