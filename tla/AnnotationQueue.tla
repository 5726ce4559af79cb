-------------------------- MODULE AnnotationQueue --------------------------
(***************************************************************************)
(* The gestures of one browser tab on their way to the server and back     *)
(* (frontend/src/samples/annotationWriteQueue.ts, annotationStore.ts).     *)
(*                                                                         *)
(* A gesture is sent once every earlier one on a sample it is known to     *)
(* reach is answered. Which samples a gesture on a whole equivalence class *)
(* reaches is known to the tab only from an earlier answer. The server     *)
(* takes each request in one step (Annotations shows what that rests on);  *)
(* a request may be refused, and an answer may be lost on its way back.    *)
(* Nobody else writes.                                                     *)
(***************************************************************************)
EXTENDS AnnotationRows, FiniteSets, Sequences

CONSTANTS
  ClassOf,       \* the equivalence class each sample is in
  Anchorless,    \* samples the catalog holds nothing to anchor to
  MaxGestures

ASSUME ClassOfAssumption ==
  /\ ClassOf \in [Samples -> SUBSET Samples]
  /\ \A s \in Samples : s \in ClassOf[s] /\ \A t \in ClassOf[s] : ClassOf[t] = ClassOf[s]

VARIABLES
  server,        \* what each sample says in the database
  gestures,      \* the gestures made, in order
  tail,          \* tailBySampleHash: the last gesture on a sample, or 0
  group,         \* groupBySampleHash: the class learned of a sample, or None
  confirmed,     \* annotationBySampleHash: what the server last said, or None
  pending,       \* pendingBySampleHash: the changes laid over it, by number
  unforeseen     \* whether two gestures on one sample ever went side by side
                 \* because the tab had not learned that they met there

tab == <<tail, group, confirmed, pending>>
vars == <<server, gestures, tab, unforeseen>>

Made == 1..Len(gestures)
Scopes == {"sample", "equivalence_class"}
Unsettled == {"queued", "sent", "written"}

(* What a gesture reaches, whether or not the tab knows.                   *)
Reaches(sample, scope) == IF scope = "sample" THEN {sample} ELSE ClassOf[sample]
TrueReach(n) == Reaches(gestures[n].sample, gestures[n].scope)

Settled(n) == gestures[n].status \notin Unsettled
Lost(n) == gestures[n].status = "lost"

(* What an answer says of each sample it names.                            *)
Answers == UNION {[named -> Decisions] : named \in SUBSET Samples}
NoAnswer == [s \in {} |-> NoDecisions]

Gestured == [sample : Samples, scope : Scopes, changes : Gestures, reach : SUBSET Samples,
             after : SUBSET Nat, status : Unsettled \cup {"answered", "refused", "lost"},
             answer : Answers]

TypeOK ==
  /\ server \in [Samples -> Decisions]
  /\ gestures \in Seq(Gestured)
  /\ tail \in [Samples -> Nat]
  /\ group \in [Samples -> (SUBSET Samples) \cup {None}]
  /\ confirmed \in [Samples -> Decisions \cup {None}]
  /\ pending \in [Samples -> SUBSET Nat]
  /\ unforeseen \in BOOLEAN

Init ==
  /\ server = [s \in Samples |-> NoDecisions]
  /\ gestures = <<>>
  /\ tail = [s \in Samples |-> 0]
  /\ group = [s \in Samples |-> None]
  /\ confirmed = [s \in Samples |-> None]
  /\ pending = [s \in Samples |-> {}]
  /\ unforeseen = FALSE

-----------------------------------------------------------------------------
KnownReach(sample, scope) ==
  IF scope = "equivalence_class" /\ group[sample] # None THEN group[sample] ELSE {sample}

(* The samples whose tail a gesture becomes.                               *)
TailedOnly(sample, reach) == {sample}
Tailed(sample, reach) == reach

(* queueAnnotationChange, up to its first await, with beginChange.         *)
Gesture(sample, scope, g) ==
  /\ Len(gestures) < MaxGestures
  /\ LET n == Len(gestures) + 1
         reach == KnownReach(sample, scope)
     IN /\ gestures' = Append(gestures,
             [sample |-> sample, scope |-> scope, changes |-> g, reach |-> reach,
              after |-> {tail[s] : s \in reach} \ {0}, status |-> "queued", answer |-> NoAnswer])
        /\ tail' = [s \in Samples |-> IF s \in Tailed(sample, reach) THEN n ELSE tail[s]]
        /\ pending' = [s \in Samples |-> IF s \in reach THEN pending[s] \cup {n} ELSE pending[s]]
        /\ unforeseen' =
             (unforeseen \/ \E m \in Made : /\ ~ Settled(m)
                                            /\ TrueReach(m) \cap Reaches(sample, scope) # {}
                                            /\ gestures[m].reach \cap reach = {})
  /\ UNCHANGED <<server, group, confirmed>>

(* It is sent once every earlier one on those samples is settled, however  *)
(* it went.                                                                *)
EarlierAnswered(n) == \A m \in gestures[n].after : gestures[m].status = "answered"
EarlierSent(n) == \A m \in gestures[n].after : gestures[m].status # "queued"
EarlierSettled(n) == \A m \in gestures[n].after : Settled(m)

Send(n) ==
  /\ gestures[n].status = "queued"
  /\ EarlierSettled(n)
  /\ gestures' = [gestures EXCEPT ![n].status = "sent"]
  /\ UNCHANGED <<server, tab, unforeseen>>

(* change_annotation: each sample reached merges the change, but one that  *)
(* would say its first word with nothing to anchor it is skipped.          *)
Skipped(n) ==
  {s \in TrueReach(n) \cap Anchorless :
     /\ server[s] = NoDecisions
     /\ Changed(server[s], gestures[n].changes) # NoDecisions}

Written(n) ==
  [s \in TrueReach(n) \ Skipped(n) |-> Changed(server[s], gestures[n].changes)]

Write(n) ==
  /\ gestures[n].status = "sent"
  /\ server' = [s \in Samples |-> IF s \in DOMAIN Written(n) THEN Written(n)[s] ELSE server[s]]
  /\ gestures' = [gestures EXCEPT ![n].status = "written", ![n].answer = Written(n)]
  /\ UNCHANGED <<tab, unforeseen>>

(* The tail of a sample is forgotten once it is settled, unless a later    *)
(* gesture took its place.                                                 *)
TailGone(n) == tail' = [s \in Samples |-> IF tail[s] = n THEN 0 ELSE tail[s]]

(* A change settled comes off every sample the tab laid it over and every  *)
(* sample the answer names.                                                *)
NamedIn(n, answer) == DOMAIN answer
LaidOver(n, answer) == gestures[n].reach \cup DOMAIN answer

TakenOff(n, answer) ==
  pending' = [s \in Samples |-> IF s \in LaidOver(n, answer) THEN pending[s] \ {n} ELSE pending[s]]

(* The answer lands: learnGroup and settleChange.                          *)
Answer(n) ==
  /\ gestures[n].status = "written"
  /\ gestures' = [gestures EXCEPT ![n].status = "answered"]
  /\ group' = IF gestures[n].scope = "equivalence_class"
              THEN [s \in Samples |-> IF s \in TrueReach(n) THEN TrueReach(n) ELSE group[s]]
              ELSE group
  /\ confirmed' = [s \in Samples |-> IF s \in DOMAIN gestures[n].answer
                                     THEN gestures[n].answer[s] ELSE confirmed[s]]
  /\ TakenOff(n, gestures[n].answer)
  /\ TailGone(n)
  /\ UNCHANGED <<server, unforeseen>>

(* The request is refused or lost before the server wrote anything, or its *)
(* answer is lost after it did; failChange takes the change off.           *)
Fail(n) ==
  /\ \/ gestures[n].status = "sent" /\ gestures' = [gestures EXCEPT ![n].status = "refused"]
     \/ gestures[n].status = "written" /\ gestures' = [gestures EXCEPT ![n].status = "lost"]
  /\ TakenOff(n, NoAnswer)
  /\ TailGone(n)
  /\ UNCHANGED <<server, group, confirmed, unforeseen>>

Next ==
  \/ \E s \in Samples, scope \in Scopes, g \in Gestures : Gesture(s, scope, g)
  \/ \E n \in Made : Send(n) \/ Write(n) \/ Answer(n) \/ Fail(n)

(* The tab's event loop sends what may go, and a request ends, with an     *)
(* answer or with an error: the browser gives up a connection in the end.  *)
Progress(n) == n \in Made /\ (Send(n) \/ Write(n) \/ Answer(n) \/ Fail(n))
Fairness == \A n \in 1..MaxGestures : WF_vars(Progress(n))

Spec == Init /\ [][Next]_vars /\ Fairness

-----------------------------------------------------------------------------
(* Gestures known to meet on a sample reach the server in the order they   *)
(* were made: a later one is not sent before the earlier one is settled.   *)
InTheOrderMade ==
  \A m, n \in Made :
    m < n /\ gestures[m].reach \cap gestures[n].reach # {} /\ gestures[n].status # "queued"
      => Settled(m)

(* A sample shows as being saved exactly while a gesture the tab laid over *)
(* it is on its way.                                                       *)
SavingTellsTheTruth ==
  \A s \in Samples :
    pending[s] = {n \in Made : ~ Settled(n) /\ s \in gestures[n].reach}

(* With nothing on its way, what the tab shows of a sample it decided      *)
(* about is what the database holds: answers land in order, so no older    *)
(* row covers a newer one. Two cases are beyond the tab: gestures it could *)
(* not know to meet, and an answer lost after the write.                   *)
QuietTabIsRight ==
  ~ unforeseen /\ (\A n \in Made : Settled(n)) =>
    \A s \in Samples :
      \/ confirmed[s] \in {None, server[s]}
      \/ \E n \in Made : Lost(n) /\ s \in TrueReach(n)

(* Every gesture is sent and settled in the end, whatever became of those  *)
(* before it.                                                              *)
EveryGestureSettles ==
  \A n \in 1..MaxGestures : (n \in Made) ~> (n \in Made /\ Settled(n))
=============================================================================
