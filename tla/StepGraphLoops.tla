--------------------------- MODULE StepGraphLoops ---------------------------
(***************************************************************************)
(* The loops of StepGraph (pipeline/graph.py): building a graph refuses    *)
(* one whose steps require one another in a circle, order() grows the set  *)
(* of steps its targets need, unavailable_reason() looks for the first of  *)
(* them this installation cannot run, and descendants() grows the set of   *)
(* steps behind one. One behaviour is one graph, one set of wanted steps   *)
(* and one step whose descendants are asked for.                           *)
(***************************************************************************)
EXTENDS StepGraph

CONSTANTS
  StepCount,        \* how many steps the graph declares
  Unavailable       \* the steps this installation cannot run

Steps == 1..StepCount
NoStep == 0

ASSUME StepCountAssumption == StepCount \in Nat \ {0}
ASSUME UnavailableAssumption == Unavailable \subseteq Steps

VARIABLES
  requires,         \* what each step needs before it
  wanted,           \* the steps the named targets hold
  asked,            \* the step whose descendants are asked for
  pc,               \* which loop runs
  settled,          \* _require_an_order: the steps an order reaches so far
  needed,           \* order: the steps the targets need so far
  lacking,          \* unavailable_reason: the step it names, or NoStep
  reached           \* descendants: what is reached from `asked` so far

vars == <<requires, wanted, asked, pc, settled, needed, lacking, reached>>

TypeOK ==
  /\ requires \in [Steps -> SUBSET Steps]
  /\ wanted \in SUBSET Steps \ {{}}
  /\ asked \in Steps
  /\ pc \in {"building", "ordering", "screening", "descending", "answered", "refused"}
  /\ settled \subseteq Steps
  /\ needed \subseteq Steps
  /\ lacking \in Steps \cup {NoStep}
  /\ reached \subseteq Steps

Init ==
  /\ requires \in [Steps -> SUBSET Steps]
  /\ wanted \in SUBSET Steps \ {{}}
  /\ asked \in Steps
  /\ pc = "building"
  /\ settled = {}
  /\ needed = {}
  /\ lacking = NoStep
  /\ reached = {}

(* __post_init__ and _require_an_order: settle whatever is ready, until    *)
(* nothing remains or nothing is ready.                                    *)
Ready == {s \in Steps \ settled : requires[s] \subseteq settled}

Settle ==
  /\ pc = "building"
  /\ Ready # {}
  /\ settled' = settled \cup Ready
  /\ UNCHANGED <<requires, wanted, asked, pc, needed, lacking, reached>>

RefuseAtOnce ==
  /\ settled = {}
  /\ Ready = {}
  /\ pc = "building"
  /\ pc' = "refused"
  /\ UNCHANGED <<requires, wanted, asked, settled, needed, lacking, reached>>

Refuse ==
  /\ pc = "building"
  /\ settled # Steps
  /\ Ready = {}
  /\ pc' = "refused"
  /\ UNCHANGED <<requires, wanted, asked, settled, needed, lacking, reached>>

Accept ==
  /\ pc = "building"
  /\ settled = Steps
  /\ pc' = "ordering"
  /\ needed' = wanted
  /\ UNCHANGED <<requires, wanted, asked, settled, lacking, reached>>

(* order: take in whatever the needed steps require, until nothing is new. *)
RequiredByNamed == UNION {requires[s] : s \in wanted}
Required == UNION {requires[s] : s \in needed}

Grow ==
  /\ pc = "ordering"
  /\ ~(Required \subseteq needed)
  /\ needed' = needed \cup Required
  /\ UNCHANGED <<requires, wanted, asked, pc, settled, lacking, reached>>

Ordered ==
  /\ pc = "ordering"
  /\ Required \subseteq needed
  /\ pc' = "screening"
  /\ UNCHANGED <<requires, wanted, asked, settled, needed, lacking, reached>>

(* The order a run takes: the needed steps by their place in the           *)
(* declaration, which `order` reads off `self.steps`.                      *)
Before(s, t) == s < t

(* unavailable_reason: the first needed step that cannot run here.         *)
Screen ==
  /\ pc = "screening"
  /\ LET missing == needed \cap Unavailable
     IN lacking' = IF missing = {} THEN NoStep
                   ELSE CHOOSE s \in missing : \A t \in missing \ {s} : Before(s, t)
  /\ pc' = "descending"
  /\ reached' = {asked}
  /\ UNCHANGED <<requires, wanted, asked, settled, needed>>

(* descendants: take in every step requiring something reached.            *)
Grown == reached \cup {s \in Steps : requires[s] \cap reached # {}}

Descend ==
  /\ pc = "descending"
  /\ Grown # reached
  /\ reached' = Grown
  /\ UNCHANGED <<requires, wanted, asked, pc, settled, needed, lacking>>

Answer ==
  /\ pc = "descending"
  /\ Grown = reached
  /\ reached' = reached \ {asked}
  /\ pc' = "answered"
  /\ UNCHANGED <<requires, wanted, asked, settled, needed, lacking>>

Next ==
  \/ Settle \/ Refuse \/ Accept
  \/ Grow \/ Ordered
  \/ Screen
  \/ Descend \/ Answer

Spec == Init /\ [][Next]_vars
FairSpec == Spec /\ WF_vars(Next)

-----------------------------------------------------------------------------
(* A graph is refused exactly where its steps wait on one another in a     *)
(* circle, whatever the number of rounds the loop settles them in.         *)
RefusesExactlyCircles ==
  /\ pc = "refused" => ~HasOrder(requires)
  /\ pc \notin {"building", "refused"} => HasOrder(requires)

(* order() answers exactly what the targets need.                          *)
OrderTakesWhatIsNeeded ==
  pc \in {"screening", "descending", "answered"} => needed = Needed(requires, wanted)

(* A run is let through exactly when everything it needs can run, a step   *)
(* it needs only through another included.                                 *)
ScreensEveryNeededStep ==
  pc \in {"descending", "answered"} =>
    (lacking = NoStep <=> Needed(requires, wanted) \cap Unavailable = {})

(* descendants() and order() read one relation from its two ends.          *)
DescendantsNeedTheirAncestor ==
  pc = "answered" => reached = Descendants(requires, asked)

(* The loops answer what the definitions do, for every graph and every     *)
(* request: which graphs have an order, what targets need, whether all of  *)
(* it can run here, and what needs a step.                                 *)
AnswersAreRight ==
  /\ RefusesExactlyCircles
  /\ OrderTakesWhatIsNeeded
  /\ ScreensEveryNeededStep
  /\ DescendantsNeedTheirAncestor

(* Every loop ends, whatever graph it is given.                            *)
LoopsEnd == <>(pc \in {"answered", "refused"})
=============================================================================
