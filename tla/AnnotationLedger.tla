-------------------------- MODULE AnnotationLedger --------------------------
(***************************************************************************)
(* What the annotations promise a person: every sample says what the       *)
(* changes made to it so far add up to, each of them taking effect at one  *)
(* moment and on nothing it does not name, and from the moment the history *)
(* begins everything a sample ever said can come back.                     *)
(***************************************************************************)
EXTENDS AnnotationRows

VARIABLES
  says,      \* what each sample says
  past       \* what each sample has said since the history began, or None

Init ==
  /\ says \in [Samples -> Decisions]
  /\ past = None

Keeping ==
  past' = IF past = None THEN None
          ELSE [s \in Samples |-> past[s] \cup {says'[s]}]

(* A gesture reaches some samples and changes what it names in each.       *)
Change ==
  \E S \in SUBSET Samples, g \in Gestures :
    /\ says' = [s \in Samples |-> IF s \in S THEN Changed(says[s], g) ELSE says[s]]
    /\ Keeping

(* A file replaces what the samples it speaks for say.                     *)
TakeIn ==
  \E file \in Files :
    /\ says' = [s \in Samples |-> IF s \in DOMAIN file THEN file[s].decisions
                                  ELSE says[s]]
    /\ Keeping

(* Decisions move to samples that say nothing, none of them lost and no    *)
(* two of them to one sample.                                              *)
Move ==
  \E S \in SUBSET {s \in Samples : says[s] # NoDecisions} :
    \E to \in [S -> {s \in Samples : says[s] = NoDecisions}] :
      /\ \A s, t \in S : to[s] = to[t] => s = t
      /\ says' = [s \in Samples |->
                    IF s \in S THEN NoDecisions
                    ELSE IF \E t \in S : to[t] = s THEN says[CHOOSE t \in S : to[t] = s]
                    ELSE says[s]]
      /\ Keeping

(* The samples say again what each of them once said.                      *)
Restore ==
  /\ past # None
  /\ \A s \in Samples : says'[s] \in past[s]
  /\ says' \in [Samples -> Decisions]
  /\ Keeping

BeginKeeping ==
  /\ past = None
  /\ past' = [s \in Samples |-> {says[s]}]
  /\ UNCHANGED says

Next == Change \/ TakeIn \/ Move \/ Restore \/ BeginKeeping

Spec == Init /\ [][Next]_<<says, past>>
=============================================================================
