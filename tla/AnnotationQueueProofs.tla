------------------------ MODULE AnnotationQueueProofs ------------------------
(***************************************************************************)
(* What AnnotationQueue promises, for every value of its constants: any    *)
(* samples, classes and changes, and any number of gestures.               *)
(*                                                                         *)
(* Gestures the tab knows to meet go in the order made because each waits  *)
(* for the last one on every sample it reaches (Tails), and while it waits *)
(* whatever is unsettled before it stays covered by one it waits for       *)
(* (Waits). What the tab shows rests on that order: of two gestures that   *)
(* meet, one at most is ever between the database and the tab               *)
(* (AnswersStand, Shown).                                                  *)
(***************************************************************************)
EXTENDS AnnotationQueue, SequenceTheorems, WellFoundedInduction, TLAPS

(* What each gesture is.                                                   *)
Sound ==
  \A n \in Made :
    /\ gestures[n].sample \in gestures[n].reach
    /\ gestures[n].reach \subseteq TrueReach(n)
    /\ gestures[n].after \subseteq 1..(n - 1)
    /\ DOMAIN gestures[n].answer \subseteq TrueReach(n)

(* What the tab has learned of a class is the class.                       *)
Learned == \A s \in Samples : group[s] \in {None, ClassOf[s]}

(* The tail of a sample is unsettled and the last that is.                 *)
Tails ==
  \A s \in Samples :
    /\ tail[s] # 0 => tail[s] \in Made /\ ~ Settled(tail[s]) /\ s \in gestures[tail[s]].reach
    /\ \A m \in Made : ~ Settled(m) /\ s \in gestures[m].reach => m <= tail[s]

(* A gesture that waits has one to wait for at every sample it reaches     *)
(* where an earlier one is unsettled.                                      *)
Waits ==
  \A m, n \in Made : \A s \in Samples :
    /\ m < n /\ gestures[n].status = "queued" /\ ~ Settled(m)
    /\ s \in gestures[m].reach \cap gestures[n].reach
    => \E k \in gestures[n].after : m <= k /\ k \in Made /\ s \in gestures[k].reach /\ ~ Settled(k)

(* Nothing met in the dark: two gestures on one sample are known to meet   *)
(* while the earlier is unsettled.                                         *)
Foreseen ==
  ~ unforeseen =>
    \A m, n \in Made :
      m < n /\ ~ Settled(m) /\ TrueReach(m) \cap TrueReach(n) # {}
        => gestures[m].reach \cap gestures[n].reach # {}

(* An answer on its way says what the database holds...                    *)
AnswersStand ==
  ~ unforeseen =>
    \A n \in Made : gestures[n].status = "written" =>
      \A s \in DOMAIN gestures[n].answer : gestures[n].answer[s] = server[s]

(* ...and the tab shows that, is about to be told, or lost the telling.    *)
Untold(s) ==
  \/ \E n \in Made : Lost(n) /\ s \in TrueReach(n)
  \/ \E n \in Made : gestures[n].status = "written" /\ s \in DOMAIN gestures[n].answer

Shown == ~ unforeseen => \A s \in Samples : confirmed[s] \in {None, server[s]} \/ Untold(s)

Inv ==
  /\ TypeOK
  /\ Sound
  /\ Learned
  /\ Tails
  /\ Waits
  /\ InTheOrderMade
  /\ SavingTellsTheTruth
  /\ Foreseen
  /\ AnswersStand
  /\ Shown

-----------------------------------------------------------------------------
(* One gesture changed leaves the others as they are.                      *)
LEMMA OneGesture ==
  ASSUME TypeOK, NEW n \in Made, NEW r \in Gestured, gestures' = [gestures EXCEPT ![n] = r]
  PROVE  /\ gestures' \in Seq(Gestured) /\ Len(gestures') = Len(gestures) /\ Made' = Made
         /\ gestures'[n] = r
         /\ \A m \in Made : m # n => gestures'[m] = gestures[m]
<1>1. gestures \in Seq(Gestured) /\ n \in 1..Len(gestures)
  BY DEF TypeOK, Made
<1>2. /\ gestures' \in Seq(Gestured) /\ Len(gestures') = Len(gestures)
      /\ \A j \in 1..Len(gestures) : gestures'[j] = IF j = n THEN r ELSE gestures[j]
  BY <1>1, ExceptSeq
<1> QED
  BY <1>1, <1>2 DEF Made

(* Every gesture is one.                                                   *)
LEMMA EachGesture ==
  ASSUME TypeOK, NEW n \in Made
  PROVE  gestures[n] \in Gestured /\ n \in Nat /\ n >= 1 /\ n <= Len(gestures) /\ Len(gestures) \in Nat
BY DEF TypeOK, Made

(* A sample's class holds it, and is the class of each that it holds.      *)
LEMMA ReachesItself ==
  ASSUME NEW s \in Samples, NEW scope \in Scopes
  PROVE  s \in Reaches(s, scope) /\ Reaches(s, scope) \subseteq Samples
BY ClassOfAssumption DEF Reaches

(* A change to a decision is a decision.                                   *)
LEMMA ChangedIsADecision ==
  ASSUME NEW d \in Decisions, NEW g \in Gestures
  PROVE  Changed(d, g) \in Decisions
<1>1. g \in AnnotationChanges
  BY GesturesAssumption
<1> QED
  BY <1>1 DEF Changed, Decisions, AnnotationChanges

(* No answer names no sample.                                             *)
LEMMA NoAnswerIsOne == NoAnswer \in Answers /\ DOMAIN NoAnswer = {}
<1>1. NoAnswer \in [{} -> Decisions] /\ {} \in SUBSET Samples
  BY DEF NoAnswer
<1> QED
  BY <1>1 DEF Answers

(* What is written answers for samples the gesture reaches.                *)
LEMMA WrittenIsAnAnswer ==
  ASSUME TypeOK, NEW n \in Made
  PROVE  /\ Written(n) \in Answers
         /\ DOMAIN Written(n) \subseteq TrueReach(n)
         /\ TrueReach(n) \subseteq Samples
<1>1. gestures[n].sample \in Samples /\ gestures[n].scope \in Scopes /\ gestures[n].changes \in Gestures
  BY EachGesture DEF Gestured
<1>2. TrueReach(n) \subseteq Samples
  BY <1>1, ReachesItself DEF TrueReach
<1>3. \A s \in TrueReach(n) \ Skipped(n) : Changed(server[s], gestures[n].changes) \in Decisions
  BY <1>1, <1>2, ChangedIsADecision DEF TypeOK
<1>4. Written(n) \in [TrueReach(n) \ Skipped(n) -> Decisions]
  BY <1>3 DEF Written
<1> QED
  BY <1>2, <1>4 DEF Answers

-----------------------------------------------------------------------------
(* A gesture on its way changes in its status and its answer alone.        *)
Moves(n, r) ==
  /\ gestures' = [gestures EXCEPT ![n] = r]
  /\ r.sample = gestures[n].sample
  /\ r.scope = gestures[n].scope
  /\ r.changes = gestures[n].changes
  /\ r.reach = gestures[n].reach
  /\ r.after = gestures[n].after

(* What an answer to a row changes: that row, and nothing it was made of.  *)
LEMMA Moved ==
  ASSUME TypeOK, NEW n \in Made, NEW r \in Gestured, Moves(n, r)
  PROVE  /\ gestures' \in Seq(Gestured) /\ Made' = Made /\ Len(gestures') = Len(gestures)
         /\ gestures'[n] = r
         /\ \A m \in Made :
              /\ m # n => gestures'[m] = gestures[m]
              /\ gestures'[m].sample = gestures[m].sample /\ gestures'[m].reach = gestures[m].reach
              /\ gestures'[m].after = gestures[m].after /\ TrueReach(m)' = TrueReach(m)
<1>1. /\ gestures' \in Seq(Gestured) /\ Made' = Made /\ Len(gestures') = Len(gestures)
      /\ gestures'[n] = r
      /\ \A m \in Made : m # n => gestures'[m] = gestures[m]
  BY OneGesture DEF Moves
<1>2. ASSUME NEW m \in Made
      PROVE  /\ gestures'[m].sample = gestures[m].sample /\ gestures'[m].scope = gestures[m].scope
             /\ gestures'[m].reach = gestures[m].reach /\ gestures'[m].after = gestures[m].after
  BY <1>1 DEF Moves
<1>3. \A m \in Made : TrueReach(m)' = TrueReach(m)
  BY <1>2 DEF TrueReach, Reaches
<1> QED
  BY <1>1, <1>2, <1>3

(* One that stays under way is still waited for where it was.              *)
LEMMA StaysUnderWay ==
  ASSUME Inv, NEW n \in Made, NEW r \in Gestured, Moves(n, r), ~ Settled(n),
         r.status \in {"sent", "written"}, DOMAIN r.answer \subseteq TrueReach(n),
         UNCHANGED <<tab, unforeseen>>
  PROVE  /\ Sound' /\ Learned' /\ Tails' /\ Waits' /\ SavingTellsTheTruth' /\ Foreseen'
         /\ \A m \in Made : Settled(m)' <=> Settled(m)
<1>1. /\ Made' = Made /\ gestures'[n] = r
      /\ \A m \in Made :
           /\ m # n => gestures'[m] = gestures[m]
           /\ gestures'[m].sample = gestures[m].sample /\ gestures'[m].reach = gestures[m].reach
           /\ gestures'[m].after = gestures[m].after /\ TrueReach(m)' = TrueReach(m)
  BY Moved DEF Inv
<1>2. UNCHANGED <<tail, group, confirmed, pending, unforeseen>>
  BY DEF tab
<1>3. \A m \in Made : Settled(m)' <=> Settled(m)
  BY <1>1 DEF Settled, Unsettled
<1>4. Sound'
  BY <1>1 DEF Inv, Sound
<1>5. Learned'
  BY <1>2 DEF Inv, Learned
<1>6. Tails'
  <2>1. ASSUME NEW s \in Samples, tail'[s] # 0
        PROVE  tail'[s] \in Made' /\ ~ Settled(tail[s])' /\ s \in gestures'[tail'[s]].reach
    <3>1. tail'[s] = tail[s] /\ tail[s] \in Made /\ ~ Settled(tail[s]) /\ s \in gestures[tail[s]].reach
      BY <1>2, <2>1 DEF Inv, Tails
    <3> QED
      BY <1>1, <1>3, <3>1 DEF Settled
  <2>2. ASSUME NEW s \in Samples, NEW m \in Made, ~ Settled(m)', s \in gestures'[m].reach
        PROVE  m <= tail'[s]
    BY <1>1, <1>2, <1>3, <2>2 DEF Inv, Tails
  <2> QED
    BY <1>1, <1>2, <2>1, <2>2 DEF Tails, Settled
<1>7. Waits'
  <2> SUFFICES ASSUME NEW m \in Made, NEW o \in Made, NEW s \in Samples,
                      m < o, gestures'[o].status = "queued", ~ Settled(m)',
                      s \in gestures'[m].reach \cap gestures'[o].reach
               PROVE  \E k \in gestures'[o].after :
                         m <= k /\ k \in Made' /\ s \in gestures'[k].reach /\ ~ Settled(k)'
    BY <1>1 DEF Waits
  <2>1. o # n /\ gestures[o].status = "queued" /\ ~ Settled(m)
    BY <1>1, <1>3
  <2>2. PICK k \in gestures[o].after : m <= k /\ k \in Made /\ s \in gestures[k].reach /\ ~ Settled(k)
    BY <1>1, <2>1 DEF Inv, Waits
  <2> QED
    BY <1>1, <1>3, <2>2
<1>8. SavingTellsTheTruth'
  BY <1>1, <1>2, <1>3 DEF Inv, SavingTellsTheTruth
<1>9. Foreseen'
  BY <1>1, <1>2, <1>3 DEF Inv, Foreseen
<1> QED
  BY <1>3, <1>4, <1>5, <1>6, <1>7, <1>8, <1>9

(* Sent with nothing unsettled among those it waits for, a gesture has     *)
(* nothing unsettled before it on any sample it is known to reach.         *)
LEMMA SendKeeps ==
  ASSUME Inv, NEW n \in Made, Send(n)
  PROVE  Inv'
<1> USE DEF Send
<1>1. gestures[n] \in Gestured /\ gestures[n].status = "queued"
  BY EachGesture DEF Inv
<1>2. PICK r \in Gestured : r = [gestures[n] EXCEPT !.status = "sent"]
  BY <1>1 DEF Gestured, Unsettled
<1>3. Moves(n, r) /\ r.status = "sent" /\ r.answer = gestures[n].answer
  BY <1>1, <1>2 DEF Moves, Gestured
<1>4. /\ gestures' \in Seq(Gestured) /\ Made' = Made /\ gestures'[n] = r
      /\ \A m \in Made :
           /\ m # n => gestures'[m] = gestures[m]
           /\ gestures'[m].reach = gestures[m].reach /\ TrueReach(m)' = TrueReach(m)
  BY <1>3, Moved DEF Inv
<1>5. ~ Settled(n) /\ DOMAIN r.answer \subseteq TrueReach(n)
  BY <1>1, <1>3 DEF Settled, Unsettled, Inv, Sound
<1>6. /\ Sound' /\ Learned' /\ Tails' /\ Waits' /\ SavingTellsTheTruth' /\ Foreseen'
      /\ \A m \in Made : Settled(m)' <=> Settled(m)
  BY <1>3, <1>5, StaysUnderWay
<1>7. UNCHANGED <<server, tail, group, confirmed, pending, unforeseen>>
  BY DEF tab
<1>8. TypeOK'
  BY <1>4, <1>7 DEF Inv, TypeOK
<1>9. InTheOrderMade'
  <2> SUFFICES ASSUME NEW m \in Made, NEW o \in Made, m < o,
                      gestures'[m].reach \cap gestures'[o].reach # {}, gestures'[o].status # "queued",
                      ~ Settled(m)'
               PROVE  FALSE
    BY <1>4 DEF InTheOrderMade
  <2>1. ~ Settled(m) /\ gestures[m].reach \cap gestures[o].reach # {}
    BY <1>4, <1>6
  <2>2. CASE o # n
    BY <1>4, <2>1, <2>2 DEF Inv, InTheOrderMade
  <2>3. CASE o = n
    <3>1. PICK s \in gestures[m].reach \cap gestures[n].reach : s \in Samples
      BY <2>1, <2>3, EachGesture DEF Inv, Gestured
    <3>2. PICK k \in gestures[n].after : ~ Settled(k)
      BY <1>1, <2>1, <2>3, <3>1 DEF Inv, Waits
    <3> QED
      BY <3>2 DEF EarlierSettled
  <2> QED
    BY <2>2, <2>3
<1>10. \A m \in Made : /\ gestures'[m].answer = gestures[m].answer
                       /\ gestures'[m].status = "written" <=> gestures[m].status = "written"
                       /\ gestures'[m].status = "lost" <=> gestures[m].status = "lost"
  BY <1>1, <1>3, <1>4
<1>11. AnswersStand'
  BY <1>4, <1>7, <1>10 DEF Inv, AnswersStand
<1>12. Shown'
  <2>1. \A s : Untold(s)' <=> Untold(s)
    BY <1>4, <1>10 DEF Untold, Lost
  <2> QED
    BY <1>7, <2>1 DEF Inv, Shown
<1> QED
  BY <1>6, <1>8, <1>9, <1>11, <1>12 DEF Inv

(* Of two gestures that meet and are not queued, the earlier is settled.   *)
LEMMA OneBetween ==
  ASSUME Inv, ~ unforeseen, NEW m \in Made, NEW n \in Made, m # n,
         gestures[m].status # "queued", gestures[n].status # "queued",
         ~ Settled(m), ~ Settled(n)
  PROVE  TrueReach(m) \cap TrueReach(n) = {}
<1>1. ASSUME NEW a \in Made, NEW b \in Made, a < b, gestures[b].status # "queued", ~ Settled(a)
      PROVE  TrueReach(a) \cap TrueReach(b) = {}
  BY <1>1 DEF Inv, Foreseen, InTheOrderMade
<1>2. m < n \/ n < m
  BY EachGesture DEF Inv
<1> QED
  BY <1>1, <1>2

(* The server writes what an answer will say; no other answer on its way   *)
(* says anything of these samples.                                         *)
LEMMA WriteKeeps ==
  ASSUME Inv, NEW n \in Made, Write(n)
  PROVE  Inv'
<1> USE DEF Write
<1>1. gestures[n] \in Gestured /\ gestures[n].status = "sent"
  BY EachGesture DEF Inv
<1>2. PICK w : w = Written(n)
  OBVIOUS
<1>3. w \in Answers /\ DOMAIN w \subseteq TrueReach(n) /\ TrueReach(n) \subseteq Samples
  BY <1>2, WrittenIsAnAnswer DEF Inv
<1>4. PICK r \in Gestured : r = [gestures[n] EXCEPT !.status = "written", !.answer = w]
  BY <1>1, <1>3 DEF Gestured, Unsettled
<1>5. Moves(n, r) /\ r.status = "written" /\ r.answer = w
  BY <1>1, <1>2, <1>4 DEF Moves, Gestured
<1>6. /\ gestures' \in Seq(Gestured) /\ Made' = Made /\ gestures'[n] = r
      /\ \A m \in Made :
           /\ m # n => gestures'[m] = gestures[m]
           /\ gestures'[m].reach = gestures[m].reach /\ TrueReach(m)' = TrueReach(m)
  BY <1>5, Moved DEF Inv
<1>7. ~ Settled(n) /\ DOMAIN r.answer \subseteq TrueReach(n)
  BY <1>1, <1>3, <1>5 DEF Settled, Unsettled
<1>8. /\ Sound' /\ Learned' /\ Tails' /\ Waits' /\ SavingTellsTheTruth' /\ Foreseen'
      /\ \A m \in Made : Settled(m)' <=> Settled(m)
  BY <1>5, <1>7, StaysUnderWay
<1>9. /\ UNCHANGED <<tail, group, confirmed, pending, unforeseen>>
      /\ server' = [s \in Samples |-> IF s \in DOMAIN w THEN w[s] ELSE server[s]]
  BY <1>2 DEF tab
<1>10. TypeOK'
  <2>1. \A s \in DOMAIN w : w[s] \in Decisions
    BY <1>3 DEF Answers
  <2>2. server' \in [Samples -> Decisions]
    BY <1>9, <2>1 DEF Inv, TypeOK
  <2> QED
    BY <1>6, <1>9, <2>2 DEF Inv, TypeOK
<1>11. InTheOrderMade'
  BY <1>1, <1>6, <1>8 DEF Inv, InTheOrderMade
<1>12. AnswersStand'
  <2> SUFFICES ASSUME ~ unforeseen', NEW m \in Made', gestures'[m].status = "written",
                      NEW s \in DOMAIN gestures'[m].answer
               PROVE  gestures'[m].answer[s] = server'[s]
    BY DEF AnswersStand
  <2> ~ unforeseen /\ m \in Made
    BY <1>6, <1>9
  <2>1. CASE m = n
    <3>1. s \in DOMAIN w /\ gestures'[m].answer[s] = w[s]
      BY <1>5, <1>6, <2>1
    <3> QED
      BY <1>3, <1>9, <3>1
  <2>2. CASE m # n
    <3>1. gestures[m].status = "written" /\ s \in DOMAIN gestures[m].answer /\ ~ Settled(m)
      BY <1>6, <2>2 DEF Settled, Unsettled
    <3>2. TrueReach(m) \cap TrueReach(n) = {}
      BY <1>1, <1>7, <2>2, <3>1, OneBetween
    <3>3. s \in Samples /\ s \notin DOMAIN w
      BY <1>3, <3>1, <3>2, WrittenIsAnAnswer DEF Inv, Sound
    <3>4. gestures[m].answer[s] = server[s]
      BY <3>1 DEF Inv, AnswersStand
    <3> QED
      BY <1>6, <1>9, <2>2, <3>3, <3>4
  <2> QED
    BY <2>1, <2>2
<1>13. Shown'
  <2> SUFFICES ASSUME ~ unforeseen, NEW s \in Samples
               PROVE  confirmed'[s] \in {None, server'[s]} \/ Untold(s)'
    BY <1>9 DEF Shown
  <2>1. CASE s \in DOMAIN w
    BY <1>5, <1>6, <2>1 DEF Untold
  <2>2. CASE s \notin DOMAIN w
    <3>1. server'[s] = server[s]
      BY <1>9, <2>2
    <3>2. \A m \in Made : gestures[m].status \in {"lost", "written"} => gestures'[m] = gestures[m]
      BY <1>1, <1>6
    <3>3. Untold(s) => Untold(s)'
      BY <1>6, <3>2 DEF Untold, Lost
    <3> QED
      BY <1>9, <3>1, <3>3 DEF Inv, Shown
  <2> QED
    BY <2>1, <2>2
<1> QED
  BY <1>8, <1>10, <1>11, <1>12, <1>13 DEF Inv

(* One that settles comes off its samples, and is the tail of none. Where  *)
(* it was the last, nothing before it is unsettled; and who waited for it  *)
(* has nothing to wait for that came before it.                            *)
LEMMA Ends ==
  ASSUME Inv, NEW n \in Made, gestures[n].status \in {"sent", "written"},
         NEW r \in Gestured, Moves(n, r), r.status \in {"answered", "refused", "lost"},
         r.answer = gestures[n].answer,
         NEW answer, TakenOff(n, answer), TailGone(n), UNCHANGED unforeseen
  PROVE  /\ tail' \in [Samples -> Nat] /\ pending' \in [Samples -> SUBSET Nat]
         /\ Sound' /\ Tails' /\ Waits' /\ InTheOrderMade' /\ SavingTellsTheTruth' /\ Foreseen'
<1>1. /\ Made' = Made /\ gestures'[n] = r
      /\ \A m \in Made :
           /\ m # n => gestures'[m] = gestures[m]
           /\ gestures'[m].sample = gestures[m].sample /\ gestures'[m].reach = gestures[m].reach
           /\ gestures'[m].after = gestures[m].after /\ TrueReach(m)' = TrueReach(m)
  BY Moved DEF Inv
<1>2. tail' \in [Samples -> Nat] /\ pending' \in [Samples -> SUBSET Nat]
  BY DEF Inv, TypeOK, TakenOff, TailGone
<1>3. Made \subseteq Nat \ {0}
  BY EachGesture DEF Inv
<1>4. \A m \in Made : Settled(m)' <=> Settled(m) \/ m = n
  BY <1>1 DEF Settled, Unsettled
<1>5. \A m \in Made : m < n /\ gestures[m].reach \cap gestures[n].reach # {} => Settled(m)
  BY DEF Inv, InTheOrderMade
<1>6. Sound'
  BY <1>1 DEF Inv, Sound
<1>7. Tails'
  <2>1. ASSUME NEW s \in Samples, tail'[s] # 0
        PROVE  tail'[s] \in Made' /\ ~ Settled(tail[s])' /\ s \in gestures'[tail'[s]].reach
    <3>1. tail'[s] = tail[s] /\ tail[s] # n /\ tail[s] \in Made /\ ~ Settled(tail[s])
          /\ s \in gestures[tail[s]].reach
      BY <2>1 DEF Inv, Tails, TailGone
    <3> QED
      BY <1>1, <1>4, <3>1 DEF Settled
  <2>2. ASSUME NEW s \in Samples, NEW m \in Made, ~ Settled(m)', s \in gestures'[m].reach
        PROVE  m <= tail'[s]
    <3>1. ~ Settled(m) /\ m # n /\ s \in gestures[m].reach /\ m <= tail[s]
      BY <1>1, <1>4, <2>2 DEF Inv, Tails
    <3>2. tail[s] # n
      <4>1. ASSUME tail[s] = n
            PROVE  FALSE
        <5>1. s \in gestures[n].reach
          BY <1>3, <4>1 DEF Inv, Tails
        <5>2. m < n
          BY <1>3, <3>1, <4>1
        <5> QED
          BY <1>5, <3>1, <5>1, <5>2
      <4> QED
        BY <4>1
    <3> QED
      BY <3>1, <3>2 DEF TailGone
  <2> QED
    BY <1>1, <2>1, <2>2 DEF Tails, Settled
<1>8. Waits'
  <2> SUFFICES ASSUME NEW m \in Made, NEW o \in Made, NEW s \in Samples,
                      m < o, gestures'[o].status = "queued", ~ Settled(m)',
                      s \in gestures'[m].reach \cap gestures'[o].reach
               PROVE  \E k \in gestures'[o].after :
                         m <= k /\ k \in Made' /\ s \in gestures'[k].reach /\ ~ Settled(k)'
    BY <1>1 DEF Waits
  <2>1. o # n /\ gestures[o].status = "queued" /\ ~ Settled(m) /\ m # n
    BY <1>1, <1>4
  <2>2. PICK k \in gestures[o].after : m <= k /\ k \in Made /\ s \in gestures[k].reach /\ ~ Settled(k)
    BY <1>1, <2>1 DEF Inv, Waits
  <2>3. k # n
    <3>1. ASSUME k = n
          PROVE  FALSE
      <4>1. m < n
        BY <1>3, <2>1, <2>2, <3>1
      <4>2. s \in gestures[m].reach \cap gestures[n].reach
        BY <1>1, <2>2, <3>1
      <4> QED
        BY <1>5, <2>1, <4>1, <4>2
    <3> QED
      BY <3>1
  <2> QED
    BY <1>1, <1>4, <2>2, <2>3
<1>9. InTheOrderMade'
  BY <1>1, <1>4 DEF Inv, InTheOrderMade
<1>10. SavingTellsTheTruth'
  <2> SUFFICES ASSUME NEW s \in Samples
               PROVE  pending'[s] = {m \in Made : ~ Settled(m)' /\ s \in gestures'[m].reach}
    BY <1>1 DEF SavingTellsTheTruth
  <2>1. pending[s] = {m \in Made : ~ Settled(m) /\ s \in gestures[m].reach}
    BY DEF Inv, SavingTellsTheTruth
  <2>2. pending'[s] = pending[s] \ {n}
    BY <2>1 DEF TakenOff, LaidOver
  <2> QED
    BY <1>1, <1>4, <2>1, <2>2
<1>11. Foreseen'
  BY <1>1, <1>4 DEF Inv, Foreseen
<1> QED
  BY <1>2, <1>6, <1>7, <1>8, <1>9, <1>10, <1>11

(* The answer lands: what it says is what the database still holds.        *)
LEMMA AnswerKeeps ==
  ASSUME Inv, NEW n \in Made, Answer(n)
  PROVE  Inv'
<1> USE DEF Answer
<1>1. gestures[n] \in Gestured /\ gestures[n].status = "written"
  BY EachGesture DEF Inv
<1>2. PICK r \in Gestured : r = [gestures[n] EXCEPT !.status = "answered"]
  BY <1>1 DEF Gestured, Unsettled
<1>3. Moves(n, r) /\ r.status = "answered" /\ r.answer = gestures[n].answer
  BY <1>1, <1>2 DEF Moves, Gestured
<1>4. /\ gestures' \in Seq(Gestured) /\ Made' = Made /\ gestures'[n] = r
      /\ \A m \in Made : m # n => gestures'[m] = gestures[m]
      /\ \A m \in Made : TrueReach(m)' = TrueReach(m)
  BY <1>3, Moved DEF Inv
<1>5. /\ tail' \in [Samples -> Nat] /\ pending' \in [Samples -> SUBSET Nat]
      /\ Sound' /\ Tails' /\ Waits' /\ InTheOrderMade' /\ SavingTellsTheTruth' /\ Foreseen'
  <2>1. PICK answer : answer = gestures[n].answer
    OBVIOUS
  <2> QED
    BY <1>1, <1>3, <2>1, Ends
<1>6. TrueReach(n) \subseteq Samples /\ DOMAIN gestures[n].answer \subseteq TrueReach(n)
  BY WrittenIsAnAnswer DEF Inv, Sound
<1>7. group' \in [Samples -> (SUBSET Samples) \cup {None}] /\ Learned'
  <2>1. CASE gestures[n].scope = "equivalence_class"
    <3>1. \A s \in TrueReach(n) : s \in Samples /\ TrueReach(n) = ClassOf[s]
      BY <1>1, <1>6, <2>1, ClassOfAssumption DEF TrueReach, Reaches, Gestured
    <3> QED
      BY <1>6, <2>1, <3>1 DEF Inv, TypeOK, Learned
  <2>2. CASE gestures[n].scope # "equivalence_class"
    BY <2>2 DEF Inv, TypeOK, Learned
  <2> QED
    BY <2>1, <2>2
<1>8. confirmed' \in [Samples -> Decisions \cup {None}]
  <2>1. \A s \in DOMAIN gestures[n].answer : gestures[n].answer[s] \in Decisions
    BY <1>1 DEF Gestured, Answers
  <2> QED
    BY <2>1 DEF Inv, TypeOK
<1>9. TypeOK'
  BY <1>4, <1>5, <1>7, <1>8 DEF Inv, TypeOK
<1>10. AnswersStand'
  <2> SUFFICES ASSUME ~ unforeseen', NEW m \in Made', gestures'[m].status = "written",
                      NEW s \in DOMAIN gestures'[m].answer
               PROVE  gestures'[m].answer[s] = server'[s]
    BY DEF AnswersStand
  <2>1. ~ unforeseen /\ m \in Made /\ m # n /\ gestures'[m] = gestures[m]
    BY <1>3, <1>4
  <2>2. gestures[m].answer[s] = server[s]
    BY <2>1 DEF Inv, AnswersStand
  <2> QED
    BY <2>1, <2>2
<1>11. Shown'
  <2> SUFFICES ASSUME ~ unforeseen', NEW s \in Samples
               PROVE  confirmed'[s] \in {None, server'[s]} \/ Untold(s)'
    BY DEF Shown
  <2> ~ unforeseen
    OBVIOUS
  <2>1. CASE s \in DOMAIN gestures[n].answer
    <3>1. gestures[n].answer[s] = server[s]
      BY <1>1, <2>1 DEF Inv, AnswersStand
    <3> QED
      BY <2>1, <3>1
  <2>2. CASE s \notin DOMAIN gestures[n].answer
    <3>1. Untold(s) => Untold(s)'
      BY <1>1, <1>4, <2>2 DEF Untold, Lost
    <3>2. confirmed'[s] = confirmed[s]
      BY <2>2
    <3> QED
      BY <3>1, <3>2 DEF Inv, Shown
  <2> QED
    BY <2>1, <2>2
<1> QED
  BY <1>5, <1>7, <1>9, <1>10, <1>11 DEF Inv

(* A request refused or lost, or an answer lost: the change comes off, and *)
(* the tab keeps what it was last told.                                    *)
LEMMA FailKeeps ==
  ASSUME Inv, NEW n \in Made, Fail(n)
  PROVE  Inv'
<1> USE DEF Fail
<1>1. gestures[n] \in Gestured /\ gestures[n].status \in {"sent", "written"}
  BY EachGesture DEF Inv
<1>2. PICK status \in {"refused", "lost"} :
        /\ gestures' = [gestures EXCEPT ![n].status = status]
        /\ gestures[n].status = "written" => status = "lost"
  BY <1>1
<1>3. PICK r \in Gestured : r = [gestures[n] EXCEPT !.status = status]
  BY <1>1 DEF Gestured, Unsettled
<1>4. Moves(n, r) /\ r.status = status /\ r.answer = gestures[n].answer
  BY <1>1, <1>2, <1>3 DEF Moves, Gestured
<1>5. /\ gestures' \in Seq(Gestured) /\ Made' = Made /\ gestures'[n] = r
      /\ \A m \in Made : m # n => gestures'[m] = gestures[m]
      /\ \A m \in Made : TrueReach(m)' = TrueReach(m)
  BY <1>4, Moved DEF Inv
<1>6. /\ tail' \in [Samples -> Nat] /\ pending' \in [Samples -> SUBSET Nat]
      /\ Sound' /\ Tails' /\ Waits' /\ InTheOrderMade' /\ SavingTellsTheTruth' /\ Foreseen'
  BY <1>1, <1>4, Ends
<1>7. TypeOK' /\ Learned'
  BY <1>5, <1>6 DEF Inv, TypeOK, Learned
<1>8. AnswersStand'
  <2> SUFFICES ASSUME ~ unforeseen', NEW m \in Made', gestures'[m].status = "written",
                      NEW s \in DOMAIN gestures'[m].answer
               PROVE  gestures'[m].answer[s] = server'[s]
    BY DEF AnswersStand
  <2>1. ~ unforeseen /\ m \in Made /\ m # n /\ gestures'[m] = gestures[m]
    BY <1>4, <1>5
  <2>2. gestures[m].answer[s] = server[s]
    BY <2>1 DEF Inv, AnswersStand
  <2> QED
    BY <2>1, <2>2
<1>9. Shown'
  <2>1. ASSUME NEW s \in Samples, Untold(s)
        PROVE  Untold(s)'
    <3>1. gestures[n].status = "written" /\ s \in DOMAIN gestures[n].answer => s \in TrueReach(n)
      BY DEF Inv, Sound
    <3> QED
      BY <1>1, <1>2, <1>4, <1>5, <2>1, <3>1 DEF Untold, Lost
  <2> QED
    BY <2>1 DEF Inv, Shown
<1> QED
  BY <1>6, <1>7, <1>8, <1>9 DEF Inv

-----------------------------------------------------------------------------
(* A gesture made waits for the tails of what it is known to reach, and    *)
(* becomes their tail.                                                     *)
LEMMA GestureKeeps ==
  ASSUME Inv, NEW sample \in Samples, NEW scope \in Scopes, NEW g \in Gestures,
         Gesture(sample, scope, g)
  PROVE  Inv'
<1> USE DEF Gesture
<1>1. PICK n \in Nat : n = Len(gestures) + 1
  BY DEF Inv, TypeOK
<1>2. PICK reach : reach = KnownReach(sample, scope)
  OBVIOUS
<1>3. sample \in reach /\ reach \subseteq Reaches(sample, scope) /\ reach \subseteq Samples
  <2>1. reach \subseteq Reaches(sample, scope) /\ sample \in reach
    BY <1>2, ClassOfAssumption DEF Inv, Learned, KnownReach, Reaches, Scopes
  <2> QED
    BY <2>1, ReachesItself
<1>4. PICK after : after = {tail[s] : s \in reach} \ {0}
  OBVIOUS
<1>5. after \subseteq Made /\ Made = 1..(n - 1) /\ Made \subseteq Nat /\ n \notin Made
  BY <1>1, <1>3, <1>4 DEF Inv, TypeOK, Tails, Made
<1>6. NoAnswer \in Answers /\ DOMAIN NoAnswer = {}
  BY NoAnswerIsOne
<1>7. PICK r : r = [sample |-> sample, scope |-> scope, changes |-> g, reach |-> reach,
                    after |-> after, status |-> "queued", answer |-> NoAnswer]
  OBVIOUS
<1>8. r \in Gestured
  BY <1>3, <1>5, <1>6, <1>7 DEF Gestured, Unsettled
<1>9. gestures' = Append(gestures, r)
  BY <1>2, <1>4, <1>7
<1>10. /\ gestures' \in Seq(Gestured) /\ Len(gestures') = n /\ gestures'[n] = r
       /\ \A m \in Made : gestures'[m] = gestures[m]
  <2>1. gestures \in Seq(Gestured)
    BY DEF Inv, TypeOK
  <2> QED
    BY <1>1, <1>8, <1>9, <2>1, AppendProperties DEF Made
<1>11. Made' = Made \cup {n} /\ Made' = 1..n
  BY <1>1, <1>5, <1>10 DEF Made
<1>12. /\ \A m \in Made : TrueReach(m)' = TrueReach(m) /\ (Settled(m)' <=> Settled(m))
       /\ TrueReach(n)' = Reaches(sample, scope) /\ ~ Settled(n)'
  <2>1. r.sample = sample /\ r.scope = scope /\ r.status = "queued"
    BY <1>7
  <2>2. \A m \in Made : TrueReach(m)' = TrueReach(m) /\ (Settled(m)' <=> Settled(m))
    BY <1>10 DEF TrueReach, Reaches, Settled
  <2>3. TrueReach(n)' = Reaches(sample, scope) /\ ~ Settled(n)'
    BY <1>10, <2>1 DEF TrueReach, Reaches, Settled, Unsettled
  <2> QED
    BY <2>2, <2>3
<1>13. /\ tail' = [s \in Samples |-> IF s \in reach THEN n ELSE tail[s]]
       /\ pending' = [s \in Samples |-> IF s \in reach THEN pending[s] \cup {n} ELSE pending[s]]
  BY <1>1, <1>2 DEF Tailed
<1>14. TypeOK'
  <2>1. unforeseen' \in BOOLEAN
    OBVIOUS
  <2> QED
    BY <1>10, <1>13, <2>1 DEF Inv, TypeOK
<1>15. Sound'
  <2>1. /\ gestures'[n].sample \in gestures'[n].reach /\ gestures'[n].reach \subseteq TrueReach(n)'
        /\ gestures'[n].after \subseteq 1..(n - 1) /\ DOMAIN gestures'[n].answer \subseteq TrueReach(n)'
    BY <1>3, <1>5, <1>6, <1>7, <1>10, <1>12
  <2> QED
    BY <1>10, <1>11, <1>12, <2>1 DEF Inv, Sound
<1>16. Learned'
  BY DEF Inv, Learned
<1>17. Tails'
  <2>1. ASSUME NEW s \in Samples, tail'[s] # 0
        PROVE  tail'[s] \in Made' /\ ~ Settled(tail[s])' /\ s \in gestures'[tail'[s]].reach
    <3>1. CASE s \in reach
      <4>1. tail'[s] = n
        BY <1>13, <3>1
      <4> QED
        BY <1>7, <1>10, <1>11, <1>12, <3>1, <4>1 DEF Settled
    <3>2. CASE s \notin reach
      <4>1. tail'[s] = tail[s] /\ tail[s] \in Made /\ ~ Settled(tail[s]) /\ s \in gestures[tail[s]].reach
        BY <1>13, <2>1, <3>2 DEF Inv, Tails
      <4> QED
        BY <1>10, <1>11, <4>1 DEF Settled
    <3> QED
      BY <3>1, <3>2
  <2>2. ASSUME NEW s \in Samples, NEW m \in Made', ~ Settled(m)', s \in gestures'[m].reach
        PROVE  m <= tail'[s]
    <3>1. CASE s \in reach
      BY <1>1, <1>11, <1>13, <3>1
    <3>2. CASE s \notin reach
      <4>1. m \in Made /\ ~ Settled(m) /\ s \in gestures[m].reach
        BY <1>7, <1>10, <1>11, <1>12, <2>2, <3>2
      <4> QED
        BY <1>13, <3>2, <4>1 DEF Inv, Tails
    <3> QED
      BY <3>1, <3>2
  <2> QED
    BY <2>1, <2>2 DEF Tails, Settled
<1>18. Waits'
  <2> SUFFICES ASSUME NEW m \in Made', NEW o \in Made', NEW s \in Samples,
                      m < o, gestures'[o].status = "queued", ~ Settled(m)',
                      s \in gestures'[m].reach \cap gestures'[o].reach
               PROVE  \E k \in gestures'[o].after :
                         m <= k /\ k \in Made' /\ s \in gestures'[k].reach /\ ~ Settled(k)'
    BY DEF Waits
  <2>1. m \in Made /\ ~ Settled(m) /\ s \in gestures[m].reach
    BY <1>1, <1>10, <1>11, <1>12
  <2>2. CASE o = n
    <3>1. s \in reach
      BY <1>7, <1>10, <2>2
    <3>2. m <= tail[s] /\ m # 0
      BY <1>5, <2>1 DEF Inv, Tails
    <3>3. tail[s] # 0
      BY <1>5, <2>1, <3>2 DEF Inv, TypeOK
    <3>4. tail[s] \in after
      BY <1>4, <3>1, <3>3
    <3>5. tail[s] \in Made /\ ~ Settled(tail[s]) /\ s \in gestures[tail[s]].reach
      BY <3>3 DEF Inv, Tails
    <3> QED
      BY <1>7, <1>10, <1>11, <1>12, <2>2, <3>2, <3>4, <3>5
  <2>3. CASE o # n
    <3>1. o \in Made /\ gestures[o].status = "queued" /\ s \in gestures[o].reach
      BY <1>10, <1>11, <2>3
    <3>2. PICK k \in gestures[o].after : m <= k /\ k \in Made /\ s \in gestures[k].reach /\ ~ Settled(k)
      BY <2>1, <3>1 DEF Inv, Waits
    <3> QED
      BY <1>10, <1>11, <1>12, <3>1, <3>2
  <2> QED
    BY <2>2, <2>3
<1>19. InTheOrderMade'
  <2> SUFFICES ASSUME NEW m \in Made', NEW o \in Made', m < o,
                      gestures'[m].reach \cap gestures'[o].reach # {}, gestures'[o].status # "queued"
               PROVE  Settled(m)'
    BY DEF InTheOrderMade
  <2>1. o # n
    BY <1>7, <1>10
  <2>2. o \in Made /\ m \in Made
    BY <1>1, <1>5, <1>11, <2>1
  <2> QED
    BY <1>10, <1>12, <2>2 DEF Inv, InTheOrderMade
<1>20. SavingTellsTheTruth'
  <2> SUFFICES ASSUME NEW s \in Samples
               PROVE  pending'[s] = {m \in Made' : ~ Settled(m)' /\ s \in gestures'[m].reach}
    BY DEF SavingTellsTheTruth
  <2>1. pending[s] = {m \in Made : ~ Settled(m) /\ s \in gestures[m].reach}
    BY DEF Inv, SavingTellsTheTruth
  <2>2. ~ Settled(n)' /\ gestures'[n].reach = reach
    BY <1>7, <1>10, <1>12
  <2> QED
    BY <1>10, <1>11, <1>12, <1>13, <2>1, <2>2
<1>21. Foreseen'
  <2> SUFFICES ASSUME ~ unforeseen', NEW m \in Made', NEW o \in Made', m < o, ~ Settled(m)',
                      TrueReach(m)' \cap TrueReach(o)' # {}
               PROVE  gestures'[m].reach \cap gestures'[o].reach # {}
    BY DEF Foreseen
  <2>1. m \in Made /\ ~ Settled(m)
    BY <1>1, <1>5, <1>11, <1>12
  <2>2. ~ unforeseen
    OBVIOUS
  <2>3. CASE o = n
    <3>1. ~ (~ Settled(m) /\ TrueReach(m) \cap Reaches(sample, scope) # {}
             /\ gestures[m].reach \cap reach = {})
      BY <1>2, <2>1
    <3>2. TrueReach(m) \cap Reaches(sample, scope) # {}
      <4>1. TrueReach(m)' = TrueReach(m) /\ TrueReach(n)' = Reaches(sample, scope)
        BY <1>12, <2>1
      <4>2. TrueReach(o)' = TrueReach(n)'
        BY <2>3 DEF TrueReach
      <4> QED
        BY <4>1, <4>2
    <3>3. gestures'[m].reach = gestures[m].reach /\ gestures'[o].reach = reach
      <4>1. r.reach = reach
        BY <1>7
      <4> QED
        BY <1>10, <2>1, <2>3, <4>1
    <3> QED
      BY <2>1, <3>1, <3>2, <3>3
  <2>4. CASE o # n
    <3>1. o \in Made
      BY <1>11, <2>4
    <3> QED
      BY <1>10, <1>12, <2>1, <2>2, <3>1 DEF Inv, Foreseen
  <2> QED
    BY <2>3, <2>4
<1>22. AnswersStand'
  <2> SUFFICES ASSUME ~ unforeseen', NEW m \in Made', gestures'[m].status = "written",
                      NEW s \in DOMAIN gestures'[m].answer
               PROVE  gestures'[m].answer[s] = server'[s]
    BY DEF AnswersStand
  <2>1. ~ unforeseen
    OBVIOUS
  <2>2. m # n
    BY <1>7, <1>10
  <2>3. m \in Made /\ gestures'[m] = gestures[m]
    BY <1>10, <1>11, <2>2
  <2> QED
    BY <2>1, <2>3 DEF Inv, AnswersStand
<1>23. Shown'
  <2>1. \A s : Untold(s) => Untold(s)'
    BY <1>10, <1>11, <1>12 DEF Untold, Lost
  <2> QED
    BY <2>1 DEF Inv, Shown
<1> QED
  BY <1>14, <1>15, <1>16, <1>17, <1>18, <1>19, <1>20, <1>21, <1>22, <1>23 DEF Inv

(* An empty table keeps the invariant.                                     *)
LEMMA InvInit == Init => Inv
<1> SUFFICES ASSUME Init
             PROVE  Inv
  OBVIOUS
<1> USE DEF Init
<1>1. Made = {}
  BY DEF Made
<1>2. NoDecisions \in Decisions
  BY DEF NoDecisions, Decisions
<1>3. TypeOK
  <2>1. gestures \in Seq(Gestured)
    OBVIOUS
  <2>2. pending \in [Samples -> SUBSET Nat] /\ tail \in [Samples -> Nat]
    OBVIOUS
  <2> QED
    BY <1>2, <2>1, <2>2 DEF TypeOK
<1>4. Sound /\ Learned /\ Tails /\ Waits
  BY <1>1 DEF Sound, Learned, Tails, Waits
<1>5. InTheOrderMade /\ SavingTellsTheTruth /\ Foreseen
  BY <1>1 DEF InTheOrderMade, SavingTellsTheTruth, Foreseen
<1>6. AnswersStand /\ Shown
  BY <1>1 DEF AnswersStand, Shown
<1> QED
  BY <1>3, <1>4, <1>5, <1>6 DEF Inv

(* A step that changes nothing keeps it.                                   *)
LEMMA InvStutters ==
  ASSUME Inv, UNCHANGED vars
  PROVE  Inv'
<1>1. UNCHANGED <<server, gestures, tail, group, confirmed, pending, unforeseen>>
  BY DEF vars, tab
<1>2. TypeOK' /\ Sound' /\ Learned' /\ Tails'
  BY <1>1 DEF Inv, TypeOK, Sound, Learned, Tails, Made, TrueReach, Reaches, Settled
<1>3. Waits' /\ InTheOrderMade'
  BY <1>1 DEF Inv, Waits, InTheOrderMade, Made, Settled
<1>4. SavingTellsTheTruth'
  BY <1>1 DEF Inv, SavingTellsTheTruth, Made, Settled
<1>5. Foreseen'
  <2>1. /\ Made' = Made
        /\ \A m \in Made : TrueReach(m)' = TrueReach(m) /\ (Settled(m)' <=> Settled(m))
    BY <1>1 DEF Made, TrueReach, Reaches, Settled
  <2> QED
    BY <1>1, <2>1 DEF Inv, Foreseen
<1>6. AnswersStand' /\ Shown'
  BY <1>1 DEF Inv, AnswersStand, Shown, Untold, Lost, Made, TrueReach, Reaches
<1> QED
  BY <1>2, <1>3, <1>4, <1>5, <1>6 DEF Inv

(* Every step keeps it.                                                    *)
LEMMA InvStep == Inv /\ [Next]_vars => Inv'
<1> SUFFICES ASSUME Inv, [Next]_vars
             PROVE  Inv'
  OBVIOUS
<1>1. CASE \E s \in Samples, scope \in Scopes, g \in Gestures : Gesture(s, scope, g)
  BY <1>1, GestureKeeps
<1>2. CASE \E n \in Made : Send(n) \/ Write(n) \/ Answer(n) \/ Fail(n)
  BY <1>2, SendKeeps, WriteKeeps, AnswerKeeps, FailKeeps
<1>3. CASE UNCHANGED vars
  BY <1>3, InvStutters
<1> QED
  BY <1>1, <1>2, <1>3 DEF Next

-----------------------------------------------------------------------------
(* The inductive invariant holds in every state: what is tailed, what      *)
(* waits, what is laid over, and what the tab was told and what not        *)
(* (annotationWriteQueue.ts, annotationStore.ts).                          *)
THEOREM Invariant == Spec => []Inv
BY InvInit, InvStep, PTL DEF Spec

(* Gestures known to meet on a sample reach the server in the order made,  *)
(* however many wait and however those before them end                     *)
(* (annotationWriteQueue.ts, queueAnnotationChange).                       *)
THEOREM GesturesGoInOrder == Spec => []InTheOrderMade
<1>1. Inv => InTheOrderMade
  BY DEF Inv
<1> QED
  BY <1>1, Invariant, PTL

(* A sample shows as being saved exactly while a gesture laid over it is   *)
(* on its way (annotationStore.ts, withoutSequence).                       *)
THEOREM SavingIsTold == Spec => []SavingTellsTheTruth
<1>1. Inv => SavingTellsTheTruth
  BY DEF Inv
<1> QED
  BY <1>1, Invariant, PTL

(* With nothing on its way, the tab shows what the database holds, but for *)
(* gestures it could not know to meet and answers lost after the write     *)
(* (annotationStore.ts, settleChange and failChange).                      *)
THEOREM QuietTabIsAlwaysRight == Spec => []QuietTabIsRight
<1>1. Inv => QuietTabIsRight
  BY DEF Inv, Shown, Untold, Settled, Unsettled, QuietTabIsRight
<1> QED
  BY <1>1, Invariant, PTL

-----------------------------------------------------------------------------
(* What a gesture waits for reaches a sample it reaches.                   *)
Meets ==
  \A n \in Made : \A k \in gestures[n].after : gestures[k].reach \cap gestures[n].reach # {}

(* A gesture can be sent, or its request can end.                          *)
HasAStep(n) ==
  \/ gestures[n].status = "queued" /\ EarlierSettled(n)
  \/ gestures[n].status \in {"sent", "written"}

(* A gesture on its way waits for none but those it knows to meet.         *)
LEMMA MeetsMoved ==
  ASSUME TypeOK, Sound, Meets, NEW n \in Made, Send(n) \/ Write(n) \/ Answer(n) \/ Fail(n)
  PROVE  Meets'
<1>1. gestures[n] \in Gestured
  BY EachGesture
<1>2. Written(n) \in Answers
  BY WrittenIsAnAnswer
<1>3. \E r \in Gestured : Moves(n, r)
  <2>1. CASE Send(n)
    <3>1. PICK r \in Gestured : r = [gestures[n] EXCEPT !.status = "sent"]
      BY <1>1 DEF Gestured, Unsettled
    <3> QED
      BY <1>1, <2>1, <3>1 DEF Send, Moves, Gestured
  <2>2. CASE Write(n)
    <3>1. PICK r \in Gestured : r = [gestures[n] EXCEPT !.status = "written", !.answer = Written(n)]
      BY <1>1, <1>2 DEF Gestured, Unsettled
    <3> QED
      BY <1>1, <2>2, <3>1 DEF Write, Moves, Gestured
  <2>3. CASE Answer(n)
    <3>1. PICK r \in Gestured : r = [gestures[n] EXCEPT !.status = "answered"]
      BY <1>1 DEF Gestured, Unsettled
    <3> QED
      BY <1>1, <2>3, <3>1 DEF Answer, Moves, Gestured
  <2>4. CASE Fail(n)
    <3>1. PICK status \in {"refused", "lost"} : gestures' = [gestures EXCEPT ![n].status = status]
      BY <2>4 DEF Fail
    <3>2. PICK r \in Gestured : r = [gestures[n] EXCEPT !.status = status]
      BY <1>1 DEF Gestured, Unsettled
    <3> QED
      BY <1>1, <3>1, <3>2 DEF Moves, Gestured
  <2> QED
    BY <2>1, <2>2, <2>3, <2>4
<1>4. /\ Made' = Made
      /\ \A m \in Made : gestures'[m].reach = gestures[m].reach /\ gestures'[m].after = gestures[m].after
  BY <1>3, Moved
<1>5. \A m \in Made : gestures[m].after \subseteq Made
  BY EachGesture DEF Sound, Made
<1> QED
  BY <1>4, <1>5 DEF Meets

(* A gesture made waits for tails, and a tail reaches the sample it is on. *)
LEMMA MeetsGesture ==
  ASSUME TypeOK, Sound, Learned, Tails, Meets, NEW sample \in Samples, NEW scope \in Scopes,
         NEW g \in Gestures, Gesture(sample, scope, g)
  PROVE  Meets'
<1>1. PICK n \in Nat : n = Len(gestures) + 1
  BY DEF TypeOK
<1>2. PICK reach : reach = KnownReach(sample, scope)
  OBVIOUS
<1>3. reach \subseteq Samples
  <2>1. reach \subseteq Reaches(sample, scope)
    BY <1>2, ClassOfAssumption DEF Learned, KnownReach, Reaches, Scopes
  <2> QED
    BY <2>1, ReachesItself
<1>4. PICK after : after = {tail[s] : s \in reach} \ {0}
  OBVIOUS
<1>5. after \subseteq Made /\ Made = 1..(n - 1) /\ \A k \in after : gestures[k].reach \cap reach # {}
  BY <1>1, <1>3, <1>4 DEF TypeOK, Tails, Made
<1>6. PICK r : r = [sample |-> sample, scope |-> scope, changes |-> g, reach |-> reach,
                    after |-> after, status |-> "queued", answer |-> NoAnswer]
  OBVIOUS
<1>7. r \in Gestured
  BY <1>3, <1>5, <1>6, NoAnswerIsOne DEF Gestured, Unsettled
<1>8. gestures' = Append(gestures, r)
  BY <1>2, <1>4, <1>6 DEF Gesture
<1>9. Len(gestures') = n /\ gestures'[n] = r /\ \A m \in Made : gestures'[m] = gestures[m]
  <2>1. gestures \in Seq(Gestured)
    BY DEF TypeOK
  <2> QED
    BY <1>1, <1>7, <1>8, <2>1, AppendProperties DEF Made
<1>10. Made' = Made \cup {n} /\ \A m \in Made : gestures[m].after \subseteq Made
  BY <1>1, <1>5, <1>9, EachGesture DEF Made, Sound
<1>11. \A m \in Made : \A k \in gestures'[m].after : gestures'[k].reach \cap gestures'[m].reach # {}
  BY <1>9, <1>10 DEF Meets
<1>12. \A k \in gestures'[n].after : gestures'[k].reach \cap gestures'[n].reach # {}
  BY <1>5, <1>6, <1>9
<1> QED
  BY <1>10, <1>11, <1>12 DEF Meets

(* In every state a gesture waits for none but those it knows to meet.     *)
LEMMA MeetsAlways == Spec => []Meets
<1>1. Init => Meets
  BY DEF Init, Meets, Made
<1>2. Inv /\ Meets /\ [Next]_vars => Meets'
  <2> SUFFICES ASSUME Inv, Meets, [Next]_vars
               PROVE  Meets'
    OBVIOUS
  <2>1. CASE \E s \in Samples, scope \in Scopes, g \in Gestures : Gesture(s, scope, g)
    BY <2>1, MeetsGesture DEF Inv
  <2>2. CASE \E n \in Made : Send(n) \/ Write(n) \/ Answer(n) \/ Fail(n)
    BY <2>2, MeetsMoved DEF Inv
  <2>3. CASE UNCHANGED vars
    BY <2>3 DEF vars, Meets, Made
  <2> QED
    BY <2>1, <2>2, <2>3 DEF Next
<1> QED
  BY <1>1, <1>2, Invariant, PTL DEF Spec

(* A set of numbers has a least one.                                       *)
LEMMA LeastNumber ==
  ASSUME NEW T, T \subseteq Nat, T # {}
  PROVE  \E x \in T : \A y \in T : x <= y
<1>1. \A x, y \in Nat : x < y => <<x, y>> \in OpToRel(<, Nat)
  BY DEF OpToRel
<1>2. PICK R : IsWellFoundedOn(R, Nat) /\ \A x, y \in Nat : x < y => <<x, y>> \in R
  BY <1>1, NatLessThanWellFounded
<1>3. IsWellFoundedOn(R, Nat)
  BY <1>2
<1>4. \A x, y \in Nat : x < y => <<x, y>> \in R
  BY <1>2
<1>5. PICK x \in T : \A y \in T : ~ (<<y, x>> \in R)
  BY <1>3, WFMin
<1>6. ASSUME NEW y \in T
      PROVE  x <= y
  <2>1. x \in Nat /\ y \in Nat
    OBVIOUS
  <2>2. y < x => <<y, x>> \in R
    BY <1>4, <2>1
  <2>3. ~ (y < x)
    BY <2>2, <1>5
  <2> QED
    BY <2>1, <2>3
<1> QED
  BY <1>6

(* A gesture that cannot move waits for an earlier one, so the first that  *)
(* is unsettled can.                                                       *)
LEMMA SomeGestureIsNext ==
  ASSUME Inv, Meets, NEW n \in Made, ~ Settled(n)
  PROVE  /\ \/ HasAStep(n)
            \/ \E k \in gestures[n].after : /\ k \in Made /\ k < n /\ ~ Settled(k)
                                            /\ gestures[k].reach \cap gestures[n].reach # {}
         /\ \E m \in Made : m <= n /\ HasAStep(m)
<1>1. ASSUME NEW m \in Made, ~ Settled(m)
      PROVE  \/ HasAStep(m)
             \/ \E k \in gestures[m].after : /\ k \in Made /\ k < m /\ ~ Settled(k)
                                             /\ gestures[k].reach \cap gestures[m].reach # {}
  <2>1. gestures[m].status \in Unsettled
    BY <1>1 DEF Settled
  <2>2. \A k \in gestures[m].after : k \in Made /\ k < m
    BY EachGesture DEF Inv, Sound, Made
  <2>3. CASE gestures[m].status = "queued" /\ ~ EarlierSettled(m)
    BY <2>2, <2>3 DEF Meets, EarlierSettled
  <2> QED
    BY <2>1, <2>3 DEF HasAStep, Unsettled
<1>2. \E m \in Made : m <= n /\ HasAStep(m)
  <2> DEFINE Under == {m \in Made : ~ Settled(m)}
  <2>1. Under \subseteq Nat /\ n \in Under
    BY EachGesture DEF Inv
  <2>2. PICK m \in Under : \A k \in Under : m <= k
    BY <2>1, LeastNumber
  <2>3. \A k \in Made : k < m => Settled(k)
    BY <2>1, <2>2
  <2> QED
    BY <1>1, <2>1, <2>2, <2>3
<1> QED
  BY <1>1, <1>2

(* Gestures never wait for each other in a circle: one not settled can move,*)
(* or waits for an earlier one that reaches a sample it reaches too, so    *)
(* that some gesture made no later can always move (queueAnnotationChange, *)
(* whose awaits are on the tails of its samples).                          *)
THEOREM GesturesNeverWaitInACircle ==
  Spec => [](\A n \in Made : ~ Settled(n) =>
               /\ \/ HasAStep(n)
                  \/ \E k \in gestures[n].after :
                       /\ k \in Made /\ k < n /\ ~ Settled(k)
                       /\ gestures[k].reach \cap gestures[n].reach # {}
               /\ \E m \in Made : m <= n /\ HasAStep(m))
<1>1. Inv /\ Meets => \A n \in Made : ~ Settled(n) =>
        /\ \/ HasAStep(n)
           \/ \E k \in gestures[n].after : /\ k \in Made /\ k < n /\ ~ Settled(k)
                                           /\ gestures[k].reach \cap gestures[n].reach # {}
        /\ \E m \in Made : m <= n /\ HasAStep(m)
  BY SomeGestureIsNext
<1> QED
  BY <1>1, Invariant, MeetsAlways, PTL
=============================================================================
