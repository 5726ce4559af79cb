--------------------------- MODULE MorphingProofs ---------------------------
(***************************************************************************)
(* Theorems about the gate of Morphing and the renderer behind it, for any *)
(* visitors, requests and threads, every capacity of the budgets and of    *)
(* the cache, every weight of a render and every number of places.         *)
(*                                                                         *)
(* The places, the debt and what is heard are bounded together. A budget   *)
(* pays for a render before it is asked for or once it is heard; so the    *)
(* induction also keeps count of the renders paid for and not heard yet.   *)
(***************************************************************************)
EXTENDS Morphing, FiniteSetTheorems, WellFoundedInduction, TLAPS

(* The requests a key has paid for already, and has not been answered.     *)
Paid(k) == {q \in Asked : ~request[q].names /\ k \in {request[q].visitor, Everyone}}

(* What was heard, what is paid for and what is left come from the budget. *)
Ledger ==
  \A k \in Keys :
    heard[k] + tokens[k] + Cardinality(Paid(k)) <= Capacity[k] + refilled[k]

IInv == GateTypeOK /\ PlacesComeBack /\ DebtStaysWithinFlight /\ Ledger

-----------------------------------------------------------------------------
(* Counting the requests in flight.                                        *)
LEMMA Finite ==
  ASSUME GateTypeOK, NEW k
  PROVE  /\ IsFiniteSet(Asked) /\ Cardinality(Asked) \in Nat
         /\ IsFiniteSet(Named(k)) /\ Cardinality(Named(k)) \in Nat
         /\ IsFiniteSet(Paid(k)) /\ Cardinality(Paid(k)) \in Nat
         /\ Cardinality(Named(k)) + Cardinality(Paid(k)) <= Cardinality(Asked)
<1>1. /\ Asked \in SUBSET Requests
      /\ Named(k) \in SUBSET Asked
      /\ Paid(k) \in SUBSET Asked
      /\ Named(k) \cap Paid(k) = {}
  BY DEF Asked, Named, Paid
<1>2. IsFiniteSet(Asked)
  BY <1>1, RequestsAssumption, FS_Subset
<1>3. IsFiniteSet(Named(k)) /\ IsFiniteSet(Paid(k))
  BY <1>1, <1>2, FS_Subset
<1>4. /\ Cardinality(Asked) \in Nat
      /\ Cardinality(Named(k)) \in Nat
      /\ Cardinality(Paid(k)) \in Nat
  BY <1>2, <1>3, FS_CardinalityType
<1>5. Cardinality(Named(k) \cup Paid(k)) <= Cardinality(Asked)
  BY <1>1, <1>2, FS_Subset
<1>6. Cardinality(Named(k) \cup Paid(k)) = Cardinality(Named(k)) + Cardinality(Paid(k))
  <2>1. Cardinality(Named(k) \cap Paid(k)) = 0
    BY <1>1, FS_EmptySet
  <2>2. Cardinality(Named(k) \cup Paid(k)) =
          Cardinality(Named(k)) + Cardinality(Paid(k)) - Cardinality(Named(k) \cap Paid(k))
    BY <1>3, FS_Union
  <2> QED
    BY <2>1, <2>2, <1>4
<1> QED
  BY <1>2, <1>3, <1>4, <1>5, <1>6

(* A request that enters is one more in flight, of the kind it is.         *)
LEMMA EnterCounts ==
  ASSUME GateTypeOK,
         NEW q \in Requests, NEW v \in Visitors, NEW names \in BOOLEAN, NEW j,
         Enters(q, v, names, j)
  PROVE  /\ Cardinality(Asked') = Cardinality(Asked) + 1
         /\ \A k \in Keys :
              /\ Cardinality(Named(k)') =
                   Cardinality(Named(k)) + (IF names /\ k \in {v, Everyone} THEN 1 ELSE 0)
              /\ Cardinality(Paid(k)') =
                   Cardinality(Paid(k)) + (IF ~names /\ k \in {v, Everyone} THEN 1 ELSE 0)
<1>1. q \notin Asked
  BY DEF Enters, Asked
<1>2. Asked' = Asked \cup {q}
  BY DEF Enters, Asked, GateTypeOK
<1>3. Cardinality(Asked') = Cardinality(Asked) + 1
  BY <1>1, <1>2, Finite, FS_AddElement
<1>4. ASSUME NEW k \in Keys
      PROVE  /\ Named(k)' = IF names /\ k \in {v, Everyone} THEN Named(k) \cup {q} ELSE Named(k)
             /\ Paid(k)' = IF ~names /\ k \in {v, Everyone} THEN Paid(k) \cup {q} ELSE Paid(k)
  <2>1. /\ request'[q].names = names
        /\ request'[q].visitor = v
        /\ \A r \in Asked : request'[r] = request[r]
    BY <1>1 DEF Enters, Asked, GateTypeOK
  <2> QED
    BY <1>1, <1>2, <2>1 DEF Named, Paid
<1>5. ASSUME NEW k \in Keys
      PROVE  q \notin Named(k) /\ q \notin Paid(k)
  BY <1>1 DEF Named, Paid
<1> QED
  BY <1>3, <1>4, <1>5, Finite, FS_AddElement

(* One that leaves is one less.                                            *)
LEMMA LeaveCounts ==
  ASSUME GateTypeOK, NEW q \in Asked, Leaves(q)
  PROVE  /\ Cardinality(Asked') = Cardinality(Asked) - 1
         /\ \A k \in Keys :
              /\ Cardinality(Named(k)') =
                   Cardinality(Named(k)) - (IF q \in Named(k) THEN 1 ELSE 0)
              /\ Cardinality(Paid(k)') =
                   Cardinality(Paid(k)) - (IF q \in Paid(k) THEN 1 ELSE 0)
<1>1. Asked' = Asked \ {q}
  BY DEF Leaves, Asked, GateTypeOK, Idle
<1>2. \A r \in Asked' : request'[r] = request[r]
  BY <1>1 DEF Leaves, Asked, GateTypeOK
<1>3. \A k \in Keys : Named(k)' = Named(k) \ {q} /\ Paid(k)' = Paid(k) \ {q}
  BY <1>1, <1>2 DEF Named, Paid
<1> QED
  BY <1>1, <1>3, Finite, FS_RemoveElement

(* Where no request changes, none is counted otherwise.                    *)
LEMMA SameCounts ==
  ASSUME UNCHANGED request
  PROVE  Asked' = Asked /\ \A k \in Keys : Named(k)' = Named(k) /\ Paid(k)' = Paid(k)
BY DEF Asked, Named, Paid

-----------------------------------------------------------------------------
(* What the gate is made of, with its types.                               *)

(* Charging a visitor costs one token of that budget and of everyone's.    *)
LEMMA ChargedIs ==
  ASSUME GateTypeOK, NEW v \in Visitors
  PROVE  /\ Charged(v) \in [Keys -> Int]
         /\ \A k \in Keys : Charged(v)[k] = tokens[k] - (IF k \in {v, Everyone} THEN 1 ELSE 0)
         /\ Heard(v) \in [Keys -> Nat]
         /\ \A k \in Keys : Heard(v)[k] = heard[k] + (IF k \in {v, Everyone} THEN 1 ELSE 0)
BY DEF GateTypeOK, Charged, Heard

(* The invariant holds at the start.                                       *)
LEMMA IInvInit == Init => IInv
<1> SUFFICES ASSUME Init PROVE IInv
  OBVIOUS
<1>1. Asked = {} /\ \A k \in Keys : Named(k) = {} /\ Paid(k) = {}
  BY DEF Init, Asked, Idle, Named, Paid
<1>2. Cardinality(Asked) = 0 /\ \A k \in Keys : Cardinality(Named(k)) = 0 /\ Cardinality(Paid(k)) = 0
  BY <1>1, FS_EmptySet
<1>3. GateTypeOK
  BY <1>1, CapacityAssumption DEF Init, GateTypeOK, Idle
<1>4. PlacesComeBack
  BY <1>2, ConcurrentAssumption DEF Init, PlacesComeBack
<1>5. DebtStaysWithinFlight /\ Ledger
  BY <1>2, CapacityAssumption, ConcurrentAssumption DEF Init, DebtStaysWithinFlight, Ledger
<1> QED
  BY <1>3, <1>4, <1>5 DEF IInv

(* Entering keeps it: a place is free, and a budget holds what it pays.    *)
LEMMA EnterStep ==
  ASSUME IInv,
         NEW q \in Requests, NEW v \in Visitors, NEW names \in BOOLEAN, NEW j \in Jobs \cup {None},
         Enters(q, v, names, j), UNCHANGED <<heard, refilled>>
  PROVE  IInv'
<1>1. GateTypeOK
  BY DEF IInv
<1>2. tokens' \in [Keys -> Int]
  BY <1>1, ChargedIs DEF Enters, GateTypeOK
<1>3. GateTypeOK'
  <2>1. \A r \in Asked' : request'[r].visitor \in Visitors
    BY <1>1 DEF Enters, Asked, GateTypeOK
  <2>2. request' \in [Requests -> [visitor : Visitors \cup {None}, names : BOOLEAN,
                                   job : Jobs \cup {None}, at : {"idle", "asked"}]]
    BY <1>1 DEF Enters, GateTypeOK
  <2>3. inFlight' \in Nat
    BY <1>1 DEF Enters, GateTypeOK
  <2> QED
    BY <1>1, <1>2, <2>1, <2>2, <2>3 DEF GateTypeOK
<1>4. PlacesComeBack'
  <2>1. Cardinality(Asked') = Cardinality(Asked) + 1
    BY <1>1, EnterCounts
  <2>2. inFlight' = inFlight + 1 /\ inFlight < Concurrent
    BY DEF Enters
  <2>3. inFlight = Cardinality(Asked) /\ inFlight \in Nat /\ Concurrent \in Nat
    BY <1>1, ConcurrentAssumption DEF IInv, PlacesComeBack, GateTypeOK
  <2> QED
    BY <2>1, <2>2, <2>3 DEF PlacesComeBack
<1>5. ASSUME NEW k \in Keys
      PROVE  /\ tokens'[k] >= Cardinality(Named(k)') - Concurrent
             /\ heard'[k] + tokens'[k] + Cardinality(Paid(k)') <= Capacity[k] + refilled'[k]
  <2>1. /\ Cardinality(Asked) \in Nat /\ Cardinality(Named(k)) \in Nat /\ Cardinality(Paid(k)) \in Nat
        /\ Cardinality(Named(k)) + Cardinality(Paid(k)) <= Cardinality(Asked)
        /\ Cardinality(Asked) < Concurrent
        /\ tokens[k] \in Int /\ heard[k] \in Nat /\ refilled[k] \in Nat
        /\ Capacity[k] \in Nat /\ Concurrent \in Nat
        /\ tokens[k] >= Cardinality(Named(k)) - Concurrent
        /\ heard[k] + tokens[k] + Cardinality(Paid(k)) <= Capacity[k] + refilled[k]
    BY <1>1, Finite, CapacityAssumption, ConcurrentAssumption
    DEF IInv, PlacesComeBack, DebtStaysWithinFlight, Ledger, GateTypeOK, Enters
  <2>2. /\ Cardinality(Named(k)') =
             Cardinality(Named(k)) + (IF names /\ k \in {v, Everyone} THEN 1 ELSE 0)
        /\ Cardinality(Paid(k)') =
             Cardinality(Paid(k)) + (IF ~names /\ k \in {v, Everyone} THEN 1 ELSE 0)
    BY <1>1, EnterCounts
  <2>3. k \in {v, Everyone} => tokens[k] >= IF names THEN 0 ELSE 1
    BY DEF Enters, Admits
  <2>4. tokens'[k] = tokens[k] - (IF ~names /\ k \in {v, Everyone} THEN 1 ELSE 0)
    <3>1. CASE names
      BY <3>1, <2>1 DEF Enters
    <3>2. CASE ~names
      BY <3>2, <1>1, ChargedIs DEF Enters
    <3> QED
      BY <3>1, <3>2
  <2>5. heard'[k] = heard[k] /\ refilled'[k] = refilled[k]
    OBVIOUS
  <2>6. CASE k \in {v, Everyone} /\ names
    BY <2>1, <2>2, <2>3, <2>4, <2>5, <2>6
  <2>7. CASE k \in {v, Everyone} /\ ~names
    BY <2>1, <2>2, <2>3, <2>4, <2>5, <2>7
  <2>8. CASE k \notin {v, Everyone}
    BY <2>1, <2>2, <2>4, <2>5, <2>8
  <2> QED
    BY <2>6, <2>7, <2>8
<1> QED
  BY <1>3, <1>4, <1>5 DEF IInv, DebtStaysWithinFlight, Ledger

(* Leaving keeps it, for each way a request may end: it is heard and paid  *)
(* for, or it is not heard and pays nothing more.                          *)
LEMMA LeaveStep ==
  ASSUME IInv, NEW q \in Asked, Leaves(q), UNCHANGED refilled,
         \/ tokens' = tokens /\ heard' = heard
         \/ tokens' = PaidAfter(q) /\ heard' = Heard(request[q].visitor)
  PROVE  IInv'
<1>1. GateTypeOK /\ q \in Requests /\ request[q].visitor \in Visitors
  BY DEF IInv, GateTypeOK, Asked
<1> DEFINE v == request[q].visitor
<1>2. tokens' \in [Keys -> Int] /\ heard' \in [Keys -> Nat]
  BY <1>1, ChargedIs DEF PaidAfter, GateTypeOK
<1>3. Cardinality(Asked) \in Nat /\ Cardinality(Asked) >= 1
  <2>1. Cardinality(Asked) # 0
    BY <1>1, Finite, FS_EmptySet
  <2> QED
    BY <2>1, <1>1, Finite
<1>4. inFlight' \in Nat /\ inFlight' = inFlight - 1
  BY <1>1, <1>3 DEF Leaves, GivenBack, IInv, PlacesComeBack, GateTypeOK
<1>5. GateTypeOK'
  BY <1>1, <1>2, <1>4 DEF Leaves, GateTypeOK, Asked, Idle
<1>6. PlacesComeBack'
  BY <1>1, <1>3, <1>4, LeaveCounts, ConcurrentAssumption DEF IInv, PlacesComeBack
<1>7. ASSUME NEW k \in Keys
      PROVE  /\ tokens'[k] >= Cardinality(Named(k)') - Concurrent
             /\ heard'[k] + tokens'[k] + Cardinality(Paid(k)') <= Capacity[k] + refilled'[k]
  <2>1. /\ Cardinality(Named(k)) \in Nat /\ Cardinality(Paid(k)) \in Nat
        /\ tokens[k] \in Int /\ heard[k] \in Nat /\ refilled[k] \in Nat
        /\ Capacity[k] \in Nat /\ Concurrent \in Nat
        /\ tokens[k] >= Cardinality(Named(k)) - Concurrent
        /\ heard[k] + tokens[k] + Cardinality(Paid(k)) <= Capacity[k] + refilled[k]
        /\ refilled'[k] = refilled[k]
    BY <1>1, Finite, CapacityAssumption, ConcurrentAssumption
    DEF IInv, DebtStaysWithinFlight, Ledger, GateTypeOK
  <2>2. /\ Cardinality(Named(k)') = Cardinality(Named(k)) - (IF q \in Named(k) THEN 1 ELSE 0)
        /\ Cardinality(Paid(k)') = Cardinality(Paid(k)) - (IF q \in Paid(k) THEN 1 ELSE 0)
    BY <1>1, LeaveCounts
  <2>3. /\ q \in Named(k) <=> request[q].names /\ k \in {v, Everyone}
        /\ q \in Paid(k) <=> ~request[q].names /\ k \in {v, Everyone}
    BY DEF Named, Paid
  <2>4. CASE tokens' = tokens /\ heard' = heard
    BY <2>1, <2>2, <2>4
  <2>5. CASE tokens' = PaidAfter(q) /\ heard' = Heard(v)
    <3>1. tokens'[k] = tokens[k] - (IF q \in Named(k) THEN 1 ELSE 0)
      <4>1. CASE request[q].names
        BY <4>1, <2>3, <2>5, <1>1, ChargedIs DEF PaidAfter
      <4>2. CASE ~request[q].names
        BY <4>2, <2>3, <2>5, <2>1 DEF PaidAfter
      <4> QED
        BY <4>1, <4>2
    <3>2. heard'[k] = heard[k] + (IF k \in {v, Everyone} THEN 1 ELSE 0)
      BY <2>5, <1>1, ChargedIs
    <3>3. CASE k \notin {v, Everyone}
      BY <3>1, <3>2, <3>3, <2>1, <2>2, <2>3
    <3>4. CASE k \in {v, Everyone} /\ request[q].names
      BY <3>1, <3>2, <3>4, <2>1, <2>2, <2>3
    <3>5. CASE k \in {v, Everyone} /\ ~request[q].names
      BY <3>1, <3>2, <3>5, <2>1, <2>2, <2>3
    <3> QED
      BY <3>3, <3>4, <3>5
  <2> QED
    BY <2>4, <2>5
<1> QED
  BY <1>5, <1>6, <1>7 DEF IInv, DebtStaysWithinFlight, Ledger

(* So does refilling a budget, or forgetting one and beginning anew: what  *)
(* is added is written down.                                               *)
LEMMA RefillStep ==
  ASSUME IInv, NEW i \in Keys, NEW n \in Nat,
         tokens' = [tokens EXCEPT ![i] = @ + n],
         refilled' = [refilled EXCEPT ![i] = @ + n],
         UNCHANGED <<request, inFlight, heard>>
  PROVE  IInv'
<1>1. GateTypeOK
  BY DEF IInv
<1>2. Asked' = Asked /\ \A k \in Keys : Named(k)' = Named(k) /\ Paid(k)' = Paid(k)
  BY SameCounts
<1>3. GateTypeOK'
  BY <1>1, <1>2 DEF GateTypeOK
<1>4. PlacesComeBack'
  BY <1>2 DEF IInv, PlacesComeBack
<1>5. ASSUME NEW k \in Keys
      PROVE  /\ tokens'[k] >= Cardinality(Named(k)') - Concurrent
             /\ heard'[k] + tokens'[k] + Cardinality(Paid(k)') <= Capacity[k] + refilled'[k]
  <2>1. /\ Cardinality(Named(k)) \in Nat /\ Cardinality(Paid(k)) \in Nat
        /\ tokens[k] \in Int /\ heard[k] \in Nat /\ refilled[k] \in Nat
        /\ Capacity[k] \in Nat /\ Concurrent \in Nat
        /\ tokens[k] >= Cardinality(Named(k)) - Concurrent
        /\ heard[k] + tokens[k] + Cardinality(Paid(k)) <= Capacity[k] + refilled[k]
    BY <1>1, Finite, CapacityAssumption, ConcurrentAssumption
    DEF IInv, DebtStaysWithinFlight, Ledger, GateTypeOK
  <2>2. /\ tokens'[k] = tokens[k] + (IF k = i THEN n ELSE 0)
        /\ refilled'[k] = refilled[k] + (IF k = i THEN n ELSE 0)
        /\ heard'[k] = heard[k]
    BY <1>1, <2>1 DEF GateTypeOK
  <2> QED
    BY <1>2, <2>1, <2>2
<1> QED
  BY <1>3, <1>4, <1>5 DEF IInv, DebtStaysWithinFlight, Ledger

(* The renderer ending leaves every request to be given up.                *)
LEMMA EndsStep ==
  ASSUME IInv, RendererEnds
  PROVE  IInv'
<1>1. GateTypeOK
  BY DEF IInv
<1>2. \A r \in Requests : /\ request'[r].at = request[r].at
                          /\ request'[r].names = request[r].names
                          /\ request'[r].visitor = request[r].visitor
  BY <1>1 DEF RendererEnds, GateTypeOK
<1>3. Asked' = Asked /\ \A k \in Keys : Named(k)' = Named(k) /\ Paid(k)' = Paid(k)
  BY <1>2 DEF Asked, Named, Paid
<1>4. GateTypeOK'
  BY <1>1, <1>2, <1>3 DEF RendererEnds, GateTypeOK, Asked
<1> QED
  BY <1>3, <1>4 DEF IInv, RendererEnds, PlacesComeBack, DebtStaysWithinFlight, Ledger

(* Every step keeps the invariant.                                         *)
LEMMA IInvStep == IInv /\ [Next]_vars => IInv'
<1> SUFFICES ASSUME IInv, [Next]_vars PROVE IInv'
  OBVIOUS
<1>0. GateTypeOK
  BY DEF IInv
<1>1. ASSUME NEW q \in Requests, NEW v \in Visitors, NEW p \in Points, NEW names \in BOOLEAN,
             NEW j \in Jobs, Ask(q, v, p, names, j)
      PROVE  IInv'
  BY <1>1, EnterStep DEF Ask
<1>2. ASSUME NEW q \in Requests, NEW v \in Visitors, NEW names \in BOOLEAN, AskInVain(q, v, names)
      PROVE  IInv'
  BY <1>2, EnterStep DEF AskInVain
<1>11. ASSUME NEW q \in Requests, NEW v \in Visitors, NEW names \in BOOLEAN, Refuse(q, v, names)
       PROVE  UNCHANGED gate
  <2>1. inFlight \in Nat /\ inFlight' = GivenBack(inFlight + 1)
    BY <1>0, <1>11 DEF Refuse, GateTypeOK
  <2> QED
    BY <2>1, <1>11 DEF Refuse, GivenBack, gate
<1>3. ASSUME NEW q \in Requests, AnswerAudio(q)
      PROVE  IInv'
  <2>1. q \in Asked
    BY <1>3 DEF AnswerAudio, Asked
  <2>2. /\ Leaves(q) /\ UNCHANGED refilled
        /\ tokens' = PaidAfter(q) /\ heard' = Heard(request[q].visitor)
    BY <1>3 DEF AnswerAudio
  <2> QED
    BY <2>1, <2>2, LeaveStep
<1>4. ASSUME NEW q \in Requests, AnswerWithout(q) \/ GiveUp(q)
      PROVE  IInv'
  <2>1. q \in Asked
    BY <1>4 DEF AnswerWithout, GiveUp, Asked
  <2>2. Leaves(q) /\ UNCHANGED <<tokens, heard, refilled>>
    BY <1>4 DEF AnswerWithout, GiveUp
  <2> QED
    BY <2>1, <2>2, LeaveStep
<1>5. ASSUME NEW v \in Visitors, Forget(v)
      PROVE  IInv'
  <2> DEFINE n == Capacity[v] - tokens[v]
  <2>1. v \in Keys /\ tokens[v] \in Int /\ Capacity[v] \in Nat /\ refilled[v] \in Nat
    BY <1>0, CapacityAssumption DEF GateTypeOK, Keys
  <2>2. n \in Nat
    BY <1>5, <2>1 DEF Forget
  <2>3. tokens' = [tokens EXCEPT ![v] = @ + n] /\ refilled' = [refilled EXCEPT ![v] = @ + n]
    <3>1. tokens[v] + n = Capacity[v] /\ refilled[v] + n = refilled[v] + Capacity[v] - tokens[v]
      BY <2>1
    <3> QED
      BY <1>5, <3>1 DEF Forget
  <2>4. UNCHANGED <<request, inFlight, heard>>
    BY <1>5 DEF Forget
  <2> HIDE DEF n
  <2> QED
    BY <2>1, <2>2, <2>3, <2>4, RefillStep
<1>6. ASSUME NEW k \in Keys, Refill(k)
      PROVE  IInv'
  BY <1>6, RefillStep DEF Refill
<1>7. ASSUME NEW j \in Jobs, Look(j) \/ Lock(j) \/ Render(j) \/ Discard(j)
      PROVE  UNCHANGED gate
  BY <1>7 DEF Look, Lock, Render, Discard, gate
<1>8. CASE RendererEnds
  BY <1>8, EndsStep
<1>9. RendererStarts \/ UNCHANGED vars => UNCHANGED gate
  BY DEF RendererStarts, vars, gate
<1>10. UNCHANGED gate => IInv'
  <2> SUFFICES ASSUME UNCHANGED gate PROVE IInv'
    OBVIOUS
  <2>1. UNCHANGED <<request, inFlight, tokens, heard, refilled>>
    BY DEF gate
  <2>2. Asked' = Asked /\ \A k \in Keys : Named(k)' = Named(k) /\ Paid(k)' = Paid(k)
    BY <2>1, SameCounts
  <2> QED
    BY <2>1, <2>2 DEF IInv, GateTypeOK, PlacesComeBack, DebtStaysWithinFlight, Ledger
<1> QED
  BY <1>1, <1>2, <1>3, <1>4, <1>5, <1>6, <1>7, <1>8, <1>9, <1>10, <1>11 DEF Next

-----------------------------------------------------------------------------
(* Every place and every budget is accounted for in all runs.              *)
THEOREM Invariant == Spec => []IInv
<1> QED
  BY IInvInit, IInvStep, PTL DEF Spec

(* The gate's variables keep their types.                                  *)
THEOREM GateTyped == Spec => []GateTypeOK
<1>1. IInv => GateTypeOK
  BY DEF IInv
<1> QED
  BY <1>1, Invariant, PTL

(* A place is given back however a request ends (MorphGate.slot): those    *)
(* taken are those of the requests waiting, and never more than there are. *)
THEOREM PlacesAlwaysComeBack == Spec => []PlacesComeBack
<1>1. IInv => PlacesComeBack
  BY DEF IInv
<1> QED
  BY <1>1, Invariant, PTL

(* Renders paid for after they are asked for (MorphGate.admit, charge)     *)
(* leave no budget deeper in debt than the places there are.               *)
THEOREM DebtIsBounded == Spec => []DebtStaysWithinFlight
<1>1. IInv => DebtStaysWithinFlight
  BY DEF IInv
<1> QED
  BY <1>1, Invariant, PTL

(* Neither a visitor nor all visitors together hear more than their budget *)
(* and the places there are, however requests overlap, fail and time out.  *)
THEOREM BudgetsAlwaysHold == Spec => []BudgetsHold
<1>1. IInv => BudgetsHold
  <2> SUFFICES ASSUME IInv, NEW k \in Keys
               PROVE  heard[k] <= Capacity[k] + refilled[k] + Concurrent
    BY DEF BudgetsHold
  <2>1. /\ Cardinality(Named(k)) \in Nat /\ Cardinality(Paid(k)) \in Nat
        /\ tokens[k] \in Int /\ heard[k] \in Nat /\ refilled[k] \in Nat
        /\ Capacity[k] \in Nat /\ Concurrent \in Nat
        /\ tokens[k] >= Cardinality(Named(k)) - Concurrent
        /\ heard[k] + tokens[k] + Cardinality(Paid(k)) <= Capacity[k] + refilled[k]
    BY Finite, CapacityAssumption, ConcurrentAssumption
    DEF IInv, DebtStaysWithinFlight, Ledger, GateTypeOK
  <2> QED
    BY <2>1
<1> QED
  BY <1>1, Invariant, PTL

-----------------------------------------------------------------------------
(* The renderer. One thread renders at a time, and the cache changes under *)
(* the others only by what is in it already.                               *)
RendererTypeOK ==
  /\ running \in BOOLEAN
  /\ job \in [Jobs -> [at : {"none", "arrived", "waiting", "rendering",
                             "rendered", "confirmed", "refused"},
                       point : Points \cup {None}, names : BOOLEAN]]
  /\ \A j \in Jobs : job[j].at # "none" => job[j].point \in Points
  /\ renderLock \in Jobs \cup {None}
  /\ kept \in Seq(Points)

OneRenders == \A j \in Jobs : job[j].at = "rendering" => renderLock = j

RInv == RendererTypeOK /\ OneRenders /\ RendersOnce

(* Nothing weighs nothing.                                                 *)
LEMMA NothingWeighs == Bytes(<<>>) = 0
<1>1. Range(<<>>) = {}
  BY DEF Range
<1>2. SumFunctionOnSet(Weight, {}) = 0
  <2> DEFINE step(it) == [s \in SUBSET {} |->
               IF s = {} THEN 0
               ELSE LET x == CHOOSE x \in s : TRUE IN Weight[x] + it[s \ {x}]]
  <2> DEFINE zero == [s \in SUBSET {} |-> 0]
  <2>1. zero = step(zero)
    <3>1. \A s \in SUBSET {} : s = {}
      OBVIOUS
    <3> QED
      BY <3>1, Zenon
  <2>2. (CHOOSE it : it = step(it)) = step(CHOOSE it : it = step(it))
    <3> HIDE DEF step, zero
    <3> QED
      BY <2>1, Zenon
  <2>3. SumFunctionOnSet(Weight, {}) = (CHOOSE it : it = step(it))[{}]
    BY DEF SumFunctionOnSet, FoldFunctionOnSet, MapThenFoldSet
  <2>4. step(CHOOSE it : it = step(it))[{}] = 0
    BY Zenon
  <2> QED
    BY <2>2, <2>3, <2>4
<1> QED
  BY <1>1, <1>2 DEF Bytes

(* To touch a render that is kept moves it, and keeps the same renders.    *)
LEMMA TouchedIs ==
  ASSUME kept \in Seq(Points), NEW p \in Points
  PROVE  /\ Touched(p) \in Seq(Points)
         /\ p \in Range(kept) => Range(Touched(p)) = Range(kept)
<1>1. CASE p \in Range(kept)
  <2> DEFINE i == CHOOSE i \in DOMAIN kept : kept[i] = p
  <2>1. i \in 1..Len(kept) /\ kept[i] = p /\ Len(kept) \in Nat
    BY <1>1 DEF Range
  <2>2. Touched(p) = Append(RemoveAt(kept, i), p)
    BY <1>1 DEF Touched
  <2> HIDE DEF i
  <2> DEFINE rest == RemoveAt(kept, i)
  <2>3. /\ rest \in Seq(Points) /\ Len(rest) = Len(kept) - 1
        /\ \A k \in 1..(Len(kept) - 1) : rest[k] = IF k < i THEN kept[k] ELSE kept[k + 1]
    <3> DEFINE front == SubSeq(kept, 1, i - 1)
               back == SubSeq(kept, i + 1, Len(kept))
    <3>1. /\ front \in Seq(Points) /\ Len(front) = i - 1
          /\ \A k \in 1..(i - 1) : front[k] = kept[k]
      BY <2>1
    <3>2. /\ back \in Seq(Points) /\ Len(back) = Len(kept) - i
          /\ \A k \in 1..(Len(kept) - i) : back[k] = kept[i + k]
      BY <2>1
    <3>3. rest = front \o back
      BY DEF RemoveAt
    <3> HIDE DEF front, back, rest
    <3>4. rest \in Seq(Points) /\ Len(rest) = Len(kept) - 1
      <4>1. front \o back \in Seq(Points) /\ Len(front \o back) = Len(front) + Len(back)
        BY <3>1, <3>2
      <4>2. Len(front) + Len(back) = Len(kept) - 1
        BY <2>1, <3>1, <3>2
      <4> QED
        BY <3>3, <4>1, <4>2
    <3>5. ASSUME NEW k \in 1..(Len(kept) - 1)
          PROVE  rest[k] = IF k < i THEN kept[k] ELSE kept[k + 1]
      <4>1. CASE k < i
        BY <2>1, <3>1, <3>2, <3>3, <4>1
      <4>2. CASE ~(k < i)
        <5>1. k - (i - 1) \in 1..(Len(kept) - i) /\ i + (k - (i - 1)) = k + 1
          BY <2>1, <4>2
        <5>2. rest[k] = back[k - (i - 1)]
          BY <2>1, <3>1, <3>2, <3>3, <4>2, <5>1
        <5> QED
          BY <3>2, <4>2, <5>1, <5>2
      <4> QED
        BY <4>1, <4>2
    <3> QED
      BY <3>4, <3>5
  <2> HIDE DEF rest
  <2> DEFINE all == Append(rest, p)
  <2>4. /\ all \in Seq(Points) /\ Len(all) = Len(kept)
        /\ \A k \in 1..(Len(kept) - 1) : all[k] = rest[k]
        /\ all[Len(kept)] = p
    BY <2>1, <2>3
  <2> HIDE DEF all
  <2>5. DOMAIN all = 1..Len(kept) /\ DOMAIN kept = 1..Len(kept)
    BY <2>1, <2>4
  <2>6. ASSUME NEW k \in 1..Len(kept)
        PROVE  all[k] \in Range(kept)
    <3>1. CASE k = Len(kept)
      BY <1>1, <2>4, <3>1
    <3>2. CASE k # Len(kept)
      <4>1. k \in 1..(Len(kept) - 1) /\ k + 1 \in 1..Len(kept)
        BY <2>1, <3>2
      <4> QED
        BY <2>3, <2>4, <2>5, <4>1 DEF Range
    <3> QED
      BY <3>1, <3>2
  <2>7. ASSUME NEW k \in 1..Len(kept)
        PROVE  \E l \in 1..Len(kept) : all[l] = kept[k]
    <3>1. CASE k < i
      <4>1. k \in 1..(Len(kept) - 1)
        BY <2>1, <3>1
      <4> QED
        BY <2>3, <2>4, <3>1, <4>1
    <3>2. CASE k = i
      <4>1. Len(kept) \in 1..Len(kept)
        BY <2>1
      <4> QED
        BY <2>1, <2>4, <3>2, <4>1
    <3>3. CASE k > i
      <4>1. k - 1 \in 1..(Len(kept) - 1) /\ ~(k - 1 < i) /\ (k - 1) + 1 = k /\ k - 1 \in 1..Len(kept)
        BY <2>1, <3>3
      <4> QED
        BY <2>3, <2>4, <4>1
    <3> QED
      BY <2>1, <3>1, <3>2, <3>3
  <2>8. Range(all) = Range(kept)
    BY <2>5, <2>6, <2>7 DEF Range
  <2> QED
    BY <2>2, <2>4, <2>8 DEF all, rest
<1>2. CASE p \notin Range(kept)
  BY <1>2 DEF Touched
<1> QED
  BY <1>1, <1>2

(* What is dropped leaves renders.                                         *)
LEMMA WithoutIs ==
  ASSUME kept \in Seq(Points), NEW p \in Points, NEW n \in 0..Len(Touched(p))
  PROVE  Without(n, p) \in Seq(Points)
<1>1. Touched(p) \in Seq(Points)
  BY TouchedIs
<1> QED
  BY <1>1 DEF Without

(* A renderer that just started keeps the invariant.                       *)
LEMMA RInvInit == Init => RInv
<1> SUFFICES ASSUME Init PROVE RInv
  OBVIOUS
<1>1. RendererTypeOK
  BY DEF Init, RendererTypeOK, NoJob
<1>2. OneRenders
  BY DEF Init, OneRenders, NoJob
<1>3. RendersOnce
  <2>1. \A j \in Jobs : job[j].at # "rendering"
    BY DEF Init, NoJob
  <2>2. Bytes(kept) <= CacheCapacity
    BY NothingWeighs, RendererAssumption DEF Init
  <2> QED
    BY <2>1, <2>2 DEF RendersOnce
<1> QED
  BY <1>1, <1>2, <1>3 DEF RInv

(* A thread that moves and does not begin to render.                       *)
LEMMA JobMoves ==
  ASSUME RInv, NEW j \in Jobs, NEW r, job' = [job EXCEPT ![j] = r],
         r.at # "rendering",
         r \in [at : {"none", "arrived", "waiting", "rendering", "rendered", "confirmed", "refused"},
                point : Points \cup {None}, names : BOOLEAN],
         r.at # "none" => r.point \in Points,
         UNCHANGED <<running, renderLock>>,
         kept' \in Seq(Points), Range(kept') = Range(kept)
  PROVE  RInv'
<1>1. job'[j] = r /\ \A k \in Jobs \ {j} : job'[k] = job[k]
  BY DEF RInv, RendererTypeOK
<1>2. RendererTypeOK'
  BY <1>1 DEF RInv, RendererTypeOK
<1>3. OneRenders'
  BY <1>1 DEF RInv, OneRenders
<1>4. RendersOnce'
  <2>1. Bytes(kept') = Bytes(kept)
    BY DEF Bytes
  <2> QED
    BY <1>1, <2>1 DEF RInv, RendersOnce, Bytes
<1> QED
  BY <1>2, <1>3, <1>4 DEF RInv

(* A thread comes to another place with what it was asked for.             *)
LEMMA SetJobIs ==
  ASSUME RInv, NEW j \in Jobs, job[j].at # "none",
         NEW at \in {"waiting", "rendering", "rendered", "confirmed", "refused"}, SetJob(j, at)
  PROVE  \E r : /\ job' = [job EXCEPT ![j] = r]
                /\ r \in [at : {"none", "arrived", "waiting", "rendering", "rendered", "confirmed", "refused"},
                          point : Points \cup {None}, names : BOOLEAN]
                /\ r.at = at /\ r.point = job[j].point /\ r.point \in Points
<1> DEFINE r == [job[j] EXCEPT !.at = at]
<1>1. /\ r \in [at : {"none", "arrived", "waiting", "rendering", "rendered", "confirmed", "refused"},
                point : Points \cup {None}, names : BOOLEAN]
      /\ r.at = at /\ r.point = job[j].point /\ job[j].point \in Points
  BY DEF RInv, RendererTypeOK
<1>2. job' = [job EXCEPT ![j] = r]
  BY DEF SetJob
<1> HIDE DEF r
<1> QED
  BY <1>1, <1>2

(* A thread that is set to anything but rendering.                         *)
LEMMA JobSet ==
  ASSUME RInv, NEW j \in Jobs, job[j].at # "none",
         NEW at \in {"waiting", "rendered", "confirmed", "refused"}, SetJob(j, at),
         UNCHANGED <<running, renderLock>>,
         kept' = kept \/ (job[j].point \in Range(kept) /\ kept' = Touched(job[j].point))
  PROVE  RInv'
<1>1. PICK r : /\ job' = [job EXCEPT ![j] = r]
               /\ r \in [at : {"none", "arrived", "waiting", "rendering", "rendered", "confirmed", "refused"},
                         point : Points \cup {None}, names : BOOLEAN]
               /\ r.at = at /\ r.point = job[j].point /\ r.point \in Points
  BY SetJobIs
<1>2. kept' \in Seq(Points) /\ Range(kept') = Range(kept)
  BY <1>1, TouchedIs DEF RInv, RendererTypeOK
<1> QED
  BY <1>1, <1>2, JobMoves

(* A thread takes the render lock only for a render that is not kept.      *)
LEMMA LockKeeps ==
  ASSUME RInv, NEW j \in Jobs, Lock(j)
  PROVE  RInv'
<1>1. job[j].at = "waiting" /\ running' = running /\ renderLock = None
  BY DEF Lock
<1>2. CASE /\ job[j].point \in Range(kept) /\ SetJob(j, "rendered")
           /\ kept' = Touched(job[j].point) /\ UNCHANGED renderLock
  BY <1>1, <1>2, JobSet
<1>3. CASE /\ job[j].point \notin Range(kept) /\ SetJob(j, "rendering")
           /\ renderLock' = j /\ UNCHANGED kept
  <2>1. PICK r : /\ job' = [job EXCEPT ![j] = r]
                 /\ r \in [at : {"none", "arrived", "waiting", "rendering", "rendered", "confirmed", "refused"},
                           point : Points \cup {None}, names : BOOLEAN]
                 /\ r.at = "rendering" /\ r.point = job[j].point /\ r.point \in Points
    BY <1>1, <1>3, SetJobIs
  <2>2. job'[j] = r /\ \A k \in Jobs \ {j} : job'[k] = job[k]
    BY <2>1 DEF RInv, RendererTypeOK
  <2>3. \A k \in Jobs : job[k].at # "rendering"
    BY <1>1, NamesAssumption DEF RInv, OneRenders
  <2>4. RendererTypeOK'
    BY <1>1, <1>3, <2>1, <2>2 DEF RInv, RendererTypeOK
  <2>5. OneRenders'
    BY <1>3, <2>2, <2>3 DEF OneRenders
  <2>6. RendersOnce'
    BY <1>3, <2>1, <2>2, <2>3 DEF RInv, RendersOnce
  <2> QED
    BY <2>4, <2>5, <2>6 DEF RInv
<1> QED
  BY <1>2, <1>3 DEF Lock

(* Nobody renders beside a thread that puts its render into the cache.     *)
LEMMA RenderKeeps ==
  ASSUME RInv, NEW j \in Jobs, Render(j)
  PROVE  RInv'
<1>1. job[j].at = "rendering" /\ running' = running /\ renderLock' = None
  BY DEF Render
<1>2. PICK at \in {"rendered", "refused"} :
        SetJob(j, at) /\ (kept' = kept \/ Put(job[j].point))
  BY DEF Render
<1>3. PICK r : /\ job' = [job EXCEPT ![j] = r]
               /\ r \in [at : {"none", "arrived", "waiting", "rendering", "rendered", "confirmed", "refused"},
                         point : Points \cup {None}, names : BOOLEAN]
               /\ r.at = at /\ r.point = job[j].point /\ r.point \in Points
  BY <1>1, <1>2, SetJobIs
<1>4. job'[j] = r /\ \A k \in Jobs \ {j} : job'[k] = job[k]
  BY <1>3 DEF RInv, RendererTypeOK
<1>5. \A k \in Jobs : job'[k].at # "rendering"
  BY <1>1, <1>3, <1>4 DEF RInv, OneRenders
<1>6. kept' \in Seq(Points) /\ Bytes(kept') <= CacheCapacity
  <2>1. kept \in Seq(Points) /\ Bytes(kept) <= CacheCapacity
    BY DEF RInv, RendererTypeOK, RendersOnce
  <2>2. CASE kept' = kept
    BY <2>1, <2>2
  <2>3. CASE \E n \in 0..Len(Touched(r.point)) : Fits(n, r.point) /\ kept' = Without(n, r.point)
    BY <1>3, <2>1, <2>3, WithoutIs DEF Fits
  <2> QED
    BY <1>2, <1>3, <2>2, <2>3 DEF Put
<1>7. RendererTypeOK'
  BY <1>1, <1>3, <1>4, <1>6 DEF RInv, RendererTypeOK
<1> QED
  BY <1>5, <1>6, <1>7 DEF RInv, OneRenders, RendersOnce

(* A thread is free again, or another is asked.                            *)
LEMMA JobEnds ==
  ASSUME RInv, NEW j \in Jobs, job' = [job EXCEPT ![j] = NoJob], UNCHANGED <<running, renderLock, kept>>
  PROVE  RInv'
<1>1. NoJob \in [at : {"none", "arrived", "waiting", "rendering", "rendered", "confirmed", "refused"},
                 point : Points \cup {None}, names : BOOLEAN]
  BY DEF NoJob
<1>2. NoJob.at = "none"
  BY DEF NoJob
<1> QED
  BY <1>1, <1>2, JobMoves DEF RInv, RendererTypeOK

(* Every step keeps it.                                                    *)
LEMMA RInvStep == GateTypeOK /\ RInv /\ [Next]_vars => RInv'
<1> SUFFICES ASSUME GateTypeOK, RInv, [Next]_vars PROVE RInv'
  OBVIOUS
<1>1. ASSUME NEW q \in Requests, NEW v \in Visitors, NEW p \in Points, NEW names \in BOOLEAN,
             NEW j \in Jobs, Ask(q, v, p, names, j)
      PROVE  RInv'
  <2> DEFINE r == [at |-> "arrived", point |-> p, names |-> names]
  <2>1. /\ r \in [at : {"none", "arrived", "waiting", "rendering", "rendered", "confirmed", "refused"},
                  point : Points \cup {None}, names : BOOLEAN]
        /\ r.at = "arrived" /\ r.point = p
    OBVIOUS
  <2>2. job' = [job EXCEPT ![j] = r] /\ UNCHANGED <<running, renderLock, kept>>
    BY <1>1 DEF Ask
  <2> HIDE DEF r
  <2> QED
    BY <2>1, <2>2, JobMoves DEF RInv, RendererTypeOK
<1>2. ASSUME NEW q \in Requests, AnswerAudio(q) \/ AnswerWithout(q)
      PROVE  RInv'
  <2>1. request[q].job \in Jobs
    BY <1>2 DEF AnswerAudio, AnswerWithout, GateTypeOK
  <2>2. job' = [job EXCEPT ![request[q].job] = NoJob] /\ UNCHANGED <<running, renderLock, kept>>
    BY <1>2 DEF AnswerAudio, AnswerWithout
  <2> QED
    BY <2>1, <2>2, JobEnds
<1>3. ASSUME UNCHANGED <<job, renderLock, kept>>, running' \in BOOLEAN
      PROVE  RInv'
  BY <1>3 DEF RInv, RendererTypeOK, OneRenders, RendersOnce, Bytes
<1>4. ASSUME NEW q \in Requests, NEW v \in Visitors, NEW names \in BOOLEAN, AskInVain(q, v, names)
      PROVE  RInv'
  BY <1>3, <1>4 DEF AskInVain, renderer, RInv, RendererTypeOK
<1>12. ASSUME NEW q \in Requests, NEW v \in Visitors, NEW names \in BOOLEAN, Refuse(q, v, names)
       PROVE  RInv'
  BY <1>3, <1>12 DEF Refuse, renderer, RInv, RendererTypeOK
<1>5. ASSUME NEW q \in Requests, GiveUp(q)
      PROVE  RInv'
  BY <1>3, <1>5 DEF GiveUp, renderer, RInv, RendererTypeOK
<1>6. ASSUME NEW k \in Keys, Refill(k) \/ Forget(k)
      PROVE  RInv'
  BY <1>3, <1>6 DEF Refill, Forget, renderer, RInv, RendererTypeOK
<1>7. ASSUME NEW j \in Jobs, Look(j)
      PROVE  RInv'
  BY <1>7, JobSet DEF Look
<1>8. ASSUME NEW j \in Jobs, Discard(j)
      PROVE  RInv'
  BY <1>8, JobEnds DEF Discard
<1>9. CASE RendererEnds
  <2>1. job' = [j \in Jobs |-> NoJob] /\ kept' = <<>> /\ renderLock' = None /\ running' = FALSE
    BY <1>9 DEF RendererEnds
  <2>2. \A j \in Jobs : job'[j].at = "none"
    BY <2>1 DEF NoJob
  <2>3. Bytes(kept') <= CacheCapacity
    BY <2>1, NothingWeighs, RendererAssumption
  <2>4. RendererTypeOK'
    <3>1. NoJob.at = "none" /\ NoJob \in [at : {"none", "arrived", "waiting", "rendering",
                                               "rendered", "confirmed", "refused"},
                                         point : Points \cup {None}, names : BOOLEAN]
      BY DEF NoJob
    <3>2. \A j \in Jobs : job'[j] = NoJob
      BY <2>1
    <3>3. kept' \in Seq(Points)
      BY <2>1
    <3> HIDE DEF NoJob
    <3> QED
      BY <2>1, <3>1, <3>2, <3>3 DEF RendererTypeOK
  <2> QED
    BY <2>2, <2>3, <2>4 DEF RInv, OneRenders, RendersOnce
<1>10. CASE RendererStarts
  BY <1>3, <1>10 DEF RendererStarts
<1>11. CASE UNCHANGED vars
  BY <1>3, <1>11 DEF vars, renderer, RInv, RendererTypeOK
<1> QED
  BY <1>1, <1>2, <1>4, <1>5, <1>6, <1>7, <1>8, <1>9, <1>10, <1>11, <1>12, LockKeeps, RenderKeeps DEF Next, Keys

(* What one thread renders is not kept already, whichever thread had the   *)
(* render lock before and whatever the cache dropped (renderer.py, render; *)
(* caches.py).                                                             *)
THEOREM RendererInvariant == Spec => []RInv
<1>1. IInv => GateTypeOK
  BY DEF IInv
<1> QED
  BY <1>1, Invariant, RInvInit, RInvStep, PTL DEF Spec

(* "Two identical requests arriving together render once", and the renders *)
(* kept never weigh more than the cache's capacity, whatever each weighs.  *)
THEOREM NothingIsRenderedTwice == Spec => []RendersOnce
<1>1. RInv => RendersOnce
  BY DEF RInv
<1> QED
  BY <1>1, RendererInvariant, PTL

(* The gate and the renderer keep their types.                             *)
THEOREM TypeCorrect == Spec => []TypeOK
<1>1. IInv /\ RInv => TypeOK
  BY DEF IInv, RInv, RendererTypeOK, TypeOK
<1> QED
  BY <1>1, Invariant, RendererInvariant, PTL
-----------------------------------------------------------------------------
(* Somebody can always go on. The render lock is held only by the thread   *)
(* that renders, so a thread waits for one that waits for nobody; and that *)
(* one can always put down what it rendered, whatever has to go for it.    *)
HolderRenders == \A j \in Jobs : renderLock = j <=> job[j].at = "rendering"

MakesRoom(p) ==
  \/ Weight[p] > CacheCapacity
  \/ \E n \in 0..Len(Touched(p)) :
       Fits(n, p) /\ \A m \in 0..Len(Touched(p)) : m < n => ~Fits(m, p)

(* Whether a thread, or the request it answers, has a step: a wait's end,  *)
(* a render's, or an answer that is given or goes nowhere.                 *)
HasAStep(j) ==
  \/ job[j].at \in {"arrived", "confirmed", "rendered", "refused"}
  \/ job[j].at = "waiting" /\ renderLock = None
  \/ job[j].at = "rendering" /\ MakesRoom(job[j].point)

(* The lock passes on by the step of the thread that takes or leaves it.   *)
LEMMA HolderStep ==
  ASSUME GateTypeOK, RInv, HolderRenders, [Next]_vars
  PROVE  HolderRenders'
<1> USE NamesAssumption
<1>0. job \in [Jobs -> [at : {"none", "arrived", "waiting", "rendering",
                              "rendered", "confirmed", "refused"},
                        point : Points \cup {None}, names : BOOLEAN]]
  BY DEF RInv, RendererTypeOK
<1>1. ASSUME NEW i \in Jobs, job[i].at # "rendering", job'[i].at # "rendering",
             \A j \in Jobs \ {i} : job'[j] = job[j], UNCHANGED renderLock
      PROVE  HolderRenders'
  BY <1>1 DEF HolderRenders
<1>2. ASSUME NEW q \in Requests, NEW v \in Visitors, NEW p \in Points, NEW names \in BOOLEAN,
             NEW j \in Jobs, Ask(q, v, p, names, j)
      PROVE  HolderRenders'
  <2>1. /\ job[j].at = "none" /\ renderLock' = renderLock
        /\ job' = [job EXCEPT ![j] = [at |-> "arrived", point |-> p, names |-> names]]
    BY <1>2 DEF Ask
  <2>2. job'[j].at = "arrived" /\ \A i \in Jobs \ {j} : job'[i] = job[i]
    BY <1>0, <2>1
  <2> QED
    BY <1>1, <2>1, <2>2
<1>3. ASSUME NEW j \in Jobs, job[j].at \in {"confirmed", "rendered", "refused"},
             job' = [job EXCEPT ![j] = NoJob], UNCHANGED renderLock
      PROVE  HolderRenders'
  <2>1. job'[j].at = "none" /\ \A i \in Jobs \ {j} : job'[i] = job[i]
    BY <1>0, <1>3 DEF NoJob
  <2> QED
    BY <1>1, <1>3, <2>1
<1>4. ASSUME NEW q \in Requests, AnswerAudio(q) \/ AnswerWithout(q)
      PROVE  HolderRenders'
  <2>1. request[q].job \in Jobs
    BY <1>4 DEF AnswerAudio, AnswerWithout, GateTypeOK
  <2>2. /\ job[request[q].job].at \in {"confirmed", "rendered", "refused"}
        /\ job' = [job EXCEPT ![request[q].job] = NoJob] /\ UNCHANGED renderLock
    BY <1>4 DEF AnswerAudio, AnswerWithout, JobOf
  <2> QED
    BY <1>3, <2>1, <2>2
<1>5. ASSUME NEW j \in Jobs, Discard(j)
      PROVE  HolderRenders'
  BY <1>3, <1>5 DEF Discard
<1>6. ASSUME UNCHANGED <<job, renderLock>>
      PROVE  HolderRenders'
  BY <1>6 DEF HolderRenders
<1>7. ASSUME NEW q \in Requests, GiveUp(q) \/ \E v \in Visitors, names \in BOOLEAN :
                                            AskInVain(q, v, names) \/ Refuse(q, v, names)
      PROVE  HolderRenders'
  BY <1>6, <1>7 DEF GiveUp, AskInVain, Refuse, renderer
<1>8. ASSUME NEW k \in Keys, Refill(k) \/ Forget(k)
      PROVE  HolderRenders'
  BY <1>6, <1>8 DEF Refill, Forget, renderer
<1>9. ASSUME NEW j \in Jobs, NEW at \in {"waiting", "rendering", "rendered", "confirmed", "refused"},
             SetJob(j, at)
      PROVE  job'[j].at = at /\ \A i \in Jobs \ {j} : job'[i] = job[i]
  BY <1>0, <1>9 DEF SetJob
<1>10. ASSUME NEW j \in Jobs, Look(j)
       PROVE  HolderRenders'
  <2>1. /\ job[j].at = "arrived" /\ renderLock' = renderLock
        /\ \E at \in {"confirmed", "refused", "rendered", "waiting"} : SetJob(j, at)
    BY <1>10 DEF Look
  <2>2. job'[j].at # "rendering" /\ \A i \in Jobs \ {j} : job'[i] = job[i]
    BY <1>9, <2>1
  <2> QED
    BY <1>1, <2>1, <2>2
<1>11. ASSUME NEW j \in Jobs, Lock(j)
       PROVE  HolderRenders'
  <2>1. CASE SetJob(j, "rendered") /\ UNCHANGED renderLock
    BY <1>1, <1>9, <1>11, <2>1 DEF Lock
  <2>2. CASE SetJob(j, "rendering") /\ renderLock' = j
    BY <1>9, <1>11, <2>2 DEF Lock, HolderRenders
  <2> QED
    BY <1>11, <2>1, <2>2 DEF Lock
<1>12. ASSUME NEW j \in Jobs, Render(j)
       PROVE  HolderRenders'
  <2>1. /\ job[j].at = "rendering" /\ renderLock' = None
        /\ \E at \in {"rendered", "refused"} : SetJob(j, at)
    BY <1>12 DEF Render
  <2>2. job'[j].at # "rendering" /\ \A i \in Jobs \ {j} : job'[i] = job[i]
    BY <1>9, <2>1
  <2>3. renderLock = j
    BY <2>1 DEF HolderRenders
  <2> QED
    BY <2>1, <2>2, <2>3 DEF HolderRenders
<1>13. CASE RendererEnds
  BY <1>13 DEF RendererEnds, NoJob, HolderRenders
<1>14. CASE RendererStarts
  BY <1>6, <1>14 DEF RendererStarts
<1>15. CASE UNCHANGED vars
  BY <1>6, <1>15 DEF vars, renderer
<1> QED
  BY <1>2, <1>4, <1>5, <1>7, <1>8, <1>10, <1>11, <1>12, <1>13, <1>14, <1>15 DEF Next, Keys

(* A set of numbers has a least one.                                       *)
LEMMA LeastNumber ==
  ASSUME NEW T, T \subseteq Nat, T # {}
  PROVE  \E x \in T : \A y \in T : x <= y
<1>1. \A x, y \in Nat : x < y => <<x, y>> \in OpToRel(<, Nat)
  BY DEF OpToRel
<1>2. PICK R : IsWellFoundedOn(R, Nat) /\ \A x, y \in Nat : x < y => <<x, y>> \in R
  BY <1>1, NatLessThanWellFounded
<1>3. IsWellFoundedOn(R, Nat)
  BY <1>2
<1>4. \A x, y \in Nat : x < y => <<x, y>> \in R
  BY <1>2
<1>5. PICK x \in T : \A y \in T : ~ (<<y, x>> \in R)
  BY <1>3, WFMin
<1>6. ASSUME NEW y \in T
      PROVE  x <= y
  <2>1. x \in Nat /\ y \in Nat
    OBVIOUS
  <2>2. y < x => <<y, x>> \in R
    BY <1>4, <2>1
  <2>3. ~ (y < x)
    BY <2>2, <1>5
  <2> QED
    BY <2>1, <2>3
<1> QED
  BY <1>6

(* Whatever is kept, letting the least recently used go ends with room for *)
(* the render: at the latest where nothing is left.                        *)
LEMMA RoomIsMade ==
  ASSUME RInv, NEW p \in Points
  PROVE  MakesRoom(p)
<1> DEFINE L == Len(Touched(p))
           T == {n \in 0..L : Fits(n, p)}
<1>1. Touched(p) \in Seq(Points) /\ L \in Nat
  BY TouchedIs DEF RInv, RendererTypeOK
<1>2. Without(L, p) = <<>>
  <2>1. Touched(p) \in Seq(Points)
    BY <1>1
  <2> QED
    BY <2>1 DEF Without
<1>3. Fits(L, p)
  BY <1>2, NothingWeighs, RendererAssumption DEF Fits
<1>4. T \subseteq Nat /\ T # {}
  <2>1. L \in T
    BY <1>1, <1>3
  <2> QED
    BY <1>1, <2>1
<1>5. PICK n \in T : \A m \in T : n <= m
  <2> HIDE DEF T
  <2> QED
    BY <1>4, LeastNumber
<1>6. \A m \in 0..L : m < n => ~Fits(m, p)
  BY <1>1, <1>5
<1> QED
  BY <1>5, <1>6 DEF MakesRoom

(* No thread of the renderer is ever stuck: one that waits for the render  *)
(* lock waits for a thread that has a step, whatever the cache holds, and  *)
(* no other thread waits (renderer.py, render; caches.py). Nor does a      *)
(* renderer that ended leave its lock behind.                              *)
THEOREM RendererNeverStalls ==
  Spec => [](\A j \in Jobs : job[j].at # "none" =>
                HasAStep(j) \/ (renderLock \in Jobs /\ HasAStep(renderLock)))
<1>1. Init => HolderRenders
  BY NamesAssumption DEF Init, NoJob, HolderRenders
<1>2. GateTypeOK /\ RInv /\ HolderRenders /\ [Next]_vars => HolderRenders'
  BY HolderStep
<1>3. ASSUME RInv, HolderRenders, NEW j \in Jobs, job[j].at # "none"
      PROVE  HasAStep(j) \/ (renderLock \in Jobs /\ HasAStep(renderLock))
  <2>1. /\ job[j].at \in {"arrived", "waiting", "rendering", "rendered", "confirmed", "refused"}
        /\ renderLock \in Jobs \cup {None}
    BY <1>3 DEF RInv, RendererTypeOK
  <2>2. ASSUME NEW i \in Jobs, job[i].at = "rendering"
        PROVE  HasAStep(i)
    BY <1>3, <2>2, RoomIsMade DEF HasAStep, RInv, RendererTypeOK
  <2>3. CASE renderLock = None
    BY <2>1, <2>2, <2>3 DEF HasAStep
  <2>4. CASE renderLock \in Jobs
    BY <1>3, <2>2, <2>4 DEF HolderRenders
  <2> QED
    BY <2>1, <2>3, <2>4
<1>4. IInv => GateTypeOK
  BY DEF IInv
<1>5. RInv /\ HolderRenders =>
        \A j \in Jobs : job[j].at # "none" =>
          HasAStep(j) \/ (renderLock \in Jobs /\ HasAStep(renderLock))
  BY <1>3
<1> QED
  BY <1>1, <1>2, <1>4, <1>5, Invariant, RendererInvariant, PTL DEF Spec
=============================================================================
