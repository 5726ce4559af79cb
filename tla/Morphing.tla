------------------------------ MODULE Morphing ------------------------------
(***************************************************************************)
(* Morphs on a site: the catalog server's gate (sampleserver/visitors.py,  *)
(* routers/morph.py) in front of the renderer (samplemorph/service).       *)
(*                                                                         *)
(* A request takes a place among the renders in flight and is paid for by  *)
(* two budgets, its visitor's and everyone's. One that names a render its  *)
(* browser holds is asked for while neither budget is in debt, and paid    *)
(* for once new audio came. The renderer answers each request on a thread  *)
(* of its own; one lock serializes rendering, another guards a cache of    *)
(* renders bounded by their bytes. A request given up after its timeout    *)
(* leaves its thread at work; a renderer that ends takes all of them.      *)
(*                                                                         *)
(* Tokens are counted in whole morphs: a budget below one, or below zero,  *)
(* is told apart by its floor, which is what a refill in between moves.    *)
(* Filters, which programs ask the renderer for directly, are kept in a    *)
(* cache of their own by the same steps, and left out. So is a request     *)
(* that finds every place taken, which changes nothing.                    *)
(***************************************************************************)
EXTENDS Integers, Sequences, FiniteSets, SequencesExt

CONSTANTS
  Visitors,
  Everyone,        \* the key of the budget everyone shares
  Requests,        \* the requests the catalog server handles at once
  Jobs,            \* the threads of the renderer
  Points,
  None,
  Concurrent,      \* concurrent_morphs
  Capacity,        \* morphs_per_minute and morphs_per_minute_overall
  Weight,          \* the bytes of each point's render
  CacheCapacity,   \* render_cache_bytes
  MaxRefill,       \* bound: tokens all budgets together are refilled with
  MaxEnds          \* bound: how often the renderer ends

Keys == Visitors \cup {Everyone}

ASSUME KeysAssumption == Everyone \notin Visitors
ASSUME NamesAssumption == None \notin Jobs \cup Visitors
ASSUME RequestsAssumption == IsFiniteSet(Requests)
ASSUME ConcurrentAssumption == Concurrent \in Nat \ {0}
ASSUME CapacityAssumption == Capacity \in [Keys -> Nat \ {0}]
ASSUME RendererAssumption ==
  /\ Weight \in [Points -> Nat]
  /\ CacheCapacity \in Nat
ASSUME BoundsAssumption == MaxRefill \in Nat /\ MaxEnds \in Nat

VARIABLES
  request,         \* what each request of the catalog server does
  inFlight,        \* MorphGate._in_flight
  tokens,          \* the floor of each budget, below zero in debt
  heard,           \* history: renders given to each visitor, and to everyone
  refilled,        \* history: tokens each budget was given
  running,         \* whether the renderer runs
  job,             \* what each thread of the renderer does
  renderLock,      \* the thread that renders
  kept,            \* the renders it remembers, the least recently used first
  ends

gate == <<request, inFlight, tokens, heard, refilled>>
renderer == <<running, job, renderLock, kept>>
vars == <<gate, renderer, ends>>

Idle == [visitor |-> None, names |-> FALSE, job |-> None, at |-> "idle"]
NoJob == [at |-> "none", point |-> None, names |-> FALSE]

Init ==
  /\ request = [q \in Requests |-> Idle]
  /\ inFlight = 0
  /\ tokens = Capacity
  /\ heard = [k \in Keys |-> 0]
  /\ refilled = [k \in Keys |-> 0]
  /\ running = TRUE
  /\ job = [j \in Jobs |-> NoJob]
  /\ renderLock = None
  /\ kept = <<>>
  /\ ends = 0

-----------------------------------------------------------------------------
(* The gate.                                                               *)
Asked == {q \in Requests : request[q].at = "asked"}

(* The requests a key pays for only once they are answered.                *)
Named(k) == {q \in Asked : request[q].names /\ k \in {request[q].visitor, Everyone}}

AdmitsAnyNamed(v, names) == \A k \in {v, Everyone} : names \/ tokens[k] >= 1
Admits(v, names) == \A k \in {v, Everyone} : tokens[k] >= IF names THEN 0 ELSE 1

Charged(v) == [k \in Keys |-> IF k \in {v, Everyone} THEN tokens[k] - 1 ELSE tokens[k]]

Enters(q, v, names, j) ==
  /\ request[q].at = "idle"
  /\ inFlight < Concurrent
  /\ Admits(v, names)
  /\ request' = [request EXCEPT ![q] = [visitor |-> v, names |-> names, job |-> j, at |-> "asked"]]
  /\ inFlight' = inFlight + 1
  /\ tokens' = IF names THEN tokens ELSE Charged(v)

Ask(q, v, p, names, j) ==
  /\ Enters(q, v, names, j)
  /\ running
  /\ job[j].at = "none"
  /\ job' = [job EXCEPT ![j] = [at |-> "arrived", point |-> p, names |-> names]]
  /\ UNCHANGED <<heard, refilled, running, renderLock, kept, ends>>

(* No renderer answers: a new render stays paid for.                       *)
AskInVain(q, v, names) ==
  /\ Enters(q, v, names, None)
  /\ ~running
  /\ UNCHANGED <<heard, refilled, renderer, ends>>

(* The place is given back on every way out of the block...                *)
GivenBack(places) == places - 1

Leaves(q) ==
  /\ request' = [request EXCEPT ![q] = Idle]
  /\ inFlight' = GivenBack(inFlight)

(* ...that of a request refused for its budgets too, which are asked only  *)
(* once it has its place.                                                  *)
RefuseInItsPlace(q, v, names) ==
  /\ request[q].at = "idle"
  /\ inFlight < Concurrent
  /\ ~Admits(v, names)
  /\ inFlight' = inFlight + 1
  /\ UNCHANGED <<request, tokens, heard, refilled, renderer, ends>>

Refuse(q, v, names) ==
  /\ request[q].at = "idle"
  /\ inFlight < Concurrent
  /\ ~Admits(v, names)
  /\ inFlight' = GivenBack(inFlight + 1)
  /\ UNCHANGED <<request, tokens, heard, refilled, renderer, ends>>

JobOf(q) == job[request[q].job]
Heard(v) == [k \in Keys |-> IF k \in {v, Everyone} THEN heard[k] + 1 ELSE heard[k]]

UnpaidWhenNamed(q) == tokens
PaidAfter(q) == IF request[q].names THEN Charged(request[q].visitor) ELSE tokens

(* New audio, which a request that named a render pays for now...          *)
AnswerAudio(q) ==
  /\ request[q].at = "asked" /\ request[q].job # None
  /\ JobOf(q).at = "rendered"
  /\ Leaves(q)
  /\ tokens' = PaidAfter(q)
  /\ heard' = Heard(request[q].visitor)
  /\ job' = [job EXCEPT ![request[q].job] = NoJob]
  /\ UNCHANGED <<refilled, running, renderLock, kept, ends>>

(* ...or a 304, or one of the renderer's refusals, relayed.                *)
AnswerWithout(q) ==
  /\ request[q].at = "asked" /\ request[q].job # None
  /\ JobOf(q).at \in {"confirmed", "refused"}
  /\ Leaves(q)
  /\ job' = [job EXCEPT ![request[q].job] = NoJob]
  /\ UNCHANGED <<tokens, heard, refilled, running, renderLock, kept, ends>>

(* TimeoutException, or TransportError where the renderer ended meanwhile. *)
GiveUp(q) ==
  /\ request[q].at = "asked"
  /\ Leaves(q)
  /\ UNCHANGED <<tokens, heard, refilled, renderer, ends>>

(* Time passes.                                                            *)
Refilled == FoldFunction(+, 0, refilled)

Refill(k) ==
  /\ tokens[k] < Capacity[k]
  /\ Refilled < MaxRefill
  /\ tokens' = [tokens EXCEPT ![k] = @ + 1]
  /\ refilled' = [refilled EXCEPT ![k] = @ + 1]
  /\ UNCHANGED <<request, inFlight, heard, renderer, ends>>

(* The visitor idle longest is forgotten, and begins with a full budget.   *)
Forget(v) ==
  /\ tokens[v] < Capacity[v]
  /\ Refilled + Capacity[v] - tokens[v] <= MaxRefill
  /\ tokens' = [tokens EXCEPT ![v] = Capacity[v]]
  /\ refilled' = [refilled EXCEPT ![v] = @ + Capacity[v] - tokens[v]]
  /\ UNCHANGED <<request, inFlight, heard, renderer, ends>>

-----------------------------------------------------------------------------
(* The renderer.                                                           *)
SetJob(j, at) == job' = [job EXCEPT ![j].at = at]

(* LruCache.get and put make what they are asked for the last to go.       *)
Touched(p) ==
  IF p \in Range(kept)
    THEN Append(RemoveAt(kept, CHOOSE i \in DOMAIN kept : kept[i] = p), p)
    ELSE Append(kept, p)

(* The validator and the bounds, and then the cache.                       *)
Look(j) ==
  LET p == job[j].point IN
  /\ job[j].at = "arrived"
  /\ \/ job[j].names /\ SetJob(j, "confirmed") /\ UNCHANGED kept
     \/ SetJob(j, "refused") /\ UNCHANGED kept
     \/ p \in Range(kept) /\ SetJob(j, "rendered") /\ kept' = Touched(p)
     \/ p \notin Range(kept) /\ SetJob(j, "waiting") /\ UNCHANGED kept
  /\ UNCHANGED <<gate, running, renderLock, ends>>

(* The render lock, and the cache once more: a request for the same point  *)
(* may have been answered meanwhile.                                       *)
LockUnlooked(j) ==
  /\ job[j].at = "waiting"
  /\ renderLock = None
  /\ SetJob(j, "rendering")
  /\ renderLock' = j
  /\ UNCHANGED <<gate, running, kept, ends>>

Lock(j) ==
  LET p == job[j].point IN
  /\ job[j].at = "waiting"
  /\ renderLock = None
  /\ \/ /\ p \in Range(kept)
        /\ SetJob(j, "rendered")
        /\ kept' = Touched(p)
        /\ UNCHANGED renderLock
     \/ /\ p \notin Range(kept)
        /\ SetJob(j, "rendering")
        /\ renderLock' = j
        /\ UNCHANGED kept
  /\ UNCHANGED <<gate, running, ends>>

(* LruCache.put: the least recently used go until the weight fits, and one *)
(* that never would is not kept.                                           *)
Bytes(renders) == SumFunctionOnSet(Weight, Range(renders))
Without(n, p) == SubSeq(Touched(p), n + 1, Len(Touched(p)))
Fits(n, p) == Bytes(Without(n, p)) <= CacheCapacity

Put(p) ==
  \/ Weight[p] > CacheCapacity /\ UNCHANGED kept
  \/ /\ Weight[p] <= CacheCapacity
     /\ \E n \in 0..Len(Touched(p)) :
          /\ Fits(n, p)
          /\ \A m \in 0..Len(Touched(p)) : m < n => ~Fits(m, p)
          /\ kept' = Without(n, p)

Render(j) ==
  /\ job[j].at = "rendering"
  /\ \/ SetJob(j, "rendered") /\ Put(job[j].point)
     \/ SetJob(j, "refused") /\ UNCHANGED kept
  /\ renderLock' = None
  /\ UNCHANGED <<gate, running, ends>>

(* The answer of a request given up goes nowhere.                          *)
Discard(j) ==
  /\ job[j].at \in {"confirmed", "rendered", "refused"}
  /\ \A q \in Asked : request[q].job # j
  /\ job' = [job EXCEPT ![j] = NoJob]
  /\ UNCHANGED <<gate, running, renderLock, kept, ends>>

(* The renderer's process ends, and another begins with nothing.           *)
RendererEnds ==
  /\ running
  /\ ends < MaxEnds
  /\ ends' = ends + 1
  /\ running' = FALSE
  /\ request' = [q \in Requests |-> [request[q] EXCEPT !.job = None]]
  /\ job' = [j \in Jobs |-> NoJob]
  /\ renderLock' = None
  /\ kept' = <<>>
  /\ UNCHANGED <<inFlight, tokens, heard, refilled>>

RendererStarts ==
  /\ ~running
  /\ running' = TRUE
  /\ UNCHANGED <<gate, job, renderLock, kept, ends>>

Next ==
  \/ \E q \in Requests :
       \/ \E v \in Visitors, p \in Points, names \in BOOLEAN, j \in Jobs : Ask(q, v, p, names, j)
       \/ \E v \in Visitors, names \in BOOLEAN : AskInVain(q, v, names) \/ Refuse(q, v, names)
       \/ AnswerAudio(q) \/ AnswerWithout(q) \/ GiveUp(q)
  \/ \E v \in Visitors : Forget(v)
  \/ \E k \in Keys : Refill(k)
  \/ \E j \in Jobs : Look(j) \/ Lock(j) \/ Render(j) \/ Discard(j)
  \/ RendererEnds \/ RendererStarts

Spec == Init /\ [][Next]_vars

-----------------------------------------------------------------------------
(* The gate's variables have their types...                                *)
GateTypeOK ==
  /\ request \in [Requests -> [visitor : Visitors \cup {None}, names : BOOLEAN,
                               job : Jobs \cup {None}, at : {"idle", "asked"}]]
  /\ \A q \in Asked : request[q].visitor \in Visitors
  /\ inFlight \in Nat
  /\ tokens \in [Keys -> Int]
  /\ heard \in [Keys -> Nat]
  /\ refilled \in [Keys -> Nat]

(* ...and so have the renderer's.                                          *)
TypeOK ==
  /\ GateTypeOK
  /\ running \in BOOLEAN
  /\ job \in [Jobs -> [at : {"none", "arrived", "waiting", "rendering",
                             "rendered", "confirmed", "refused"},
                       point : Points \cup {None}, names : BOOLEAN]]
  /\ renderLock \in Jobs \cup {None}
  /\ kept \in Seq(Points)

(* Every place is one of a request waiting for the renderer, whichever way *)
(* requests ended before: answered, refused, timed out or cut off.         *)
PlacesComeBack == inFlight = Cardinality(Asked) /\ inFlight <= Concurrent

(* "The debt a visitor runs up that way stays within the renders in        *)
(* flight", and so does everyone's: what is still to be paid for after     *)
(* being asked for never takes a budget below the places there are.        *)
DebtStaysWithinFlight ==
  \A k \in Keys : tokens[k] >= Cardinality(Named(k)) - Concurrent

(* What it comes to: over any time, a visitor hears no more renders than   *)
(* the budget began with and was refilled with, and the places there are.  *)
(* The same holds of all visitors together.                                *)
BudgetsHold == \A k \in Keys : heard[k] <= Capacity[k] + refilled[k] + Concurrent

(* "Two identical requests arriving together render once": no thread makes *)
(* a render that is there, and the renders kept fit.                       *)
RendersOnce ==
  /\ \A j \in Jobs : job[j].at = "rendering" => job[j].point \notin Range(kept)
  /\ Bytes(kept) <= CacheCapacity
=============================================================================
