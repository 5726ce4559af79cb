--------------------------- MODULE ExtractionProofs ---------------------------
(***************************************************************************)
(* What Extraction promises of its passes and prunes, for every value of   *)
(* its constants: any modules, samples, passes, processes and restarts.    *)
(*                                                                         *)
(* Inv joins what every step keeps together: who holds the lock (Locks),   *)
(* what is true of each pass beside the stores (Fits), that passes under   *)
(* way list the same unless they are mixed (Alike), and the stores among   *)
(* themselves (Whole). Every action but a restart changes one pass, so     *)
(* the proofs of the actions rest on OneStep, and on Steps where it leaves *)
(* the stores alone too.                                                   *)
(***************************************************************************)
EXTENDS Extraction, WellFoundedInduction, TLAPS

Landing == {"inserting", "storing", "placing"}
Sharers == {"covering"} \cup Landing
Pruners == {"removing", "naming", "unlinking"}
Mirrored == {"naming", "unlinking", "relisting", "recording"}
Ending == {"claiming", "removing"} \cup Mirrored

(* What a pass knows of itself. A transaction inserts in hash order: what  *)
(* it holds comes before what it has left.                                 *)
Shape(r) ==
  /\ r.todo \subseteq r.listed
  /\ r.pc \in {"listed", "forgetting", "waiting"} => r.todo = r.listed
  /\ r.now # None <=> r.pc \in Landing
  /\ r.now # None => r.now \in r.listed
  /\ r.gone \cap r.listed = {}
  /\ r.pc \notin {"storing", "placing"} => r.left = {} /\ r.pending = {}
  /\ r.pc \in {"storing", "placing"} => r.left \cup r.pending \subseteq SamplesOf(r.now)
  /\ r.pc = "placing" => r.left # {}
  /\ \A x \in r.pending, y \in r.left : x < y \/ (x = y /\ r.pc = "placing")
  /\ r.pc \in {"covered"} \cup Ending => r.todo = {}
  /\ r.pc \in Ending => ~ r.failed

(* The samples of a module being landed have a row, have one in its        *)
(* transaction, or are still to get one; and what its transaction inserted *)
(* has its audio once it is stored.                                        *)
Lands(r) ==
  r.pc \in {"storing", "placing"} /\ ~ r.cut =>
    /\ SamplesOf(r.now) \subseteq samples \cup r.pending \cup r.left
    /\ r.pc = "placing" => Min(r.left) \in samples \cup r.pending
    /\ ~ walkCut => r.pending \ r.left \subseteq objects

(* A walk holds the names the catalog holds; without a restart it has met  *)
(* every object they do not hold, or will.                                 *)
Walks(r) ==
  /\ r.pc = "unlinking" /\ ~ r.cut => r.names = samples
  /\ r.pc = "unlinking" /\ ~ walkCut => ~ r.cut
  /\ restarts = 0 => ~ r.cut
  /\ restarts = 0 /\ r.pc = "unlinking" => objects \subseteq r.names \cup r.unseen

(* What the catalog has of a pass's listing, of passes that list the same. *)
Mirrors(r) ==
  ~ mixed =>
    /\ r.pc \notin {"idle", "listed", "forgetting", "waiting"} /\ ~ r.failed =>
         r.listed \ (r.todo \cup {r.now}) \subseteq modules
    /\ r.pc \in {"claiming", "removing"} => modules \ r.listed \subseteq r.gone
    /\ r.pc \in Mirrored => modules = r.listed
    /\ record # None /\ r.pc \notin {"idle", "listed", "forgetting"} => r.listed = record

Fits(r) == Shape(r) /\ Lands(r) /\ Walks(r) /\ Mirrors(r)

Locks ==
  /\ alone # None => sharing = {}
  /\ \A p \in Processes :
       /\ p \in sharing <=> pass[p].pc \in Sharers /\ ~ pass[p].cut
       /\ alone = p <=> pass[p].pc \in Pruners /\ ~ pass[p].cut

Alike ==
  ~ mixed =>
    \A p, q \in Processes : UnderWay(p) /\ UnderWay(q) => pass[p].listed = pass[q].listed

Whole ==
  /\ samples = HeldBy(modules)
  /\ ~ walkCut => samples \subseteq objects
  /\ ~ mixed /\ record # None => modules = record

Inv ==
  /\ TypeOK
  /\ Locks
  /\ \A p \in Processes : Fits(pass[p])
  /\ Alike
  /\ Whole

-----------------------------------------------------------------------------
(* The least of some samples, by which a transaction takes the next one.   *)
LEMMA LeastNumber ==
  ASSUME NEW T, T \subseteq Nat, T # {}
  PROVE  \E x \in T : \A y \in T : x <= y
<1>1. \A x, y \in Nat : x < y => <<x, y>> \in OpToRel(<, Nat)
  BY DEF OpToRel
<1>2. PICK R : IsWellFoundedOn(R, Nat) /\ \A x, y \in Nat : x < y => <<x, y>> \in R
  BY <1>1, NatLessThanWellFounded
<1>3. IsWellFoundedOn(R, Nat)
  BY <1>2
<1>4. \A x, y \in Nat : x < y => <<x, y>> \in R
  BY <1>2
<1>5. PICK x \in T : \A y \in T : ~ (<<y, x>> \in R)
  BY <1>3, WFMin
<1>6. ASSUME NEW y \in T
      PROVE  x <= y
  <2>1. x \in Nat /\ y \in Nat
    OBVIOUS
  <2>2. y < x => <<y, x>> \in R
    BY <1>4, <2>1
  <2>3. ~ (y < x)
    BY <2>2, <1>5
  <2> QED
    BY <2>1, <2>3
<1> QED
  BY <1>6

(* What MIN answers of samples.                                            *)
LEMMA MinIsLeast ==
  ASSUME NEW T, T \subseteq Samples, T # {}
  PROVE  Min(T) \in T /\ \A y \in T : Min(T) <= y
<1>1. T \subseteq Nat
  BY SlotsAssumption DEF Samples
<1>2. \E x \in T : \A y \in T : x <= y
  BY <1>1, LeastNumber
<1> QED
  BY <1>2 DEF Min

(* Of samples there are, one has the greatest number.                      *)
LEMMA GreatestSample ==
  ASSUME NEW T, T \subseteq Samples, T # {}
  PROVE  \E x \in T : \A y \in T : y <= x
<1> DEFINE D == {LastSample - t : t \in T}
<1>1. LastSample \in Nat /\ \A t \in T : t \in Nat /\ LastSample - t \in Nat
  BY SlotsAssumption DEF Samples
<1>2. D \subseteq Nat /\ D # {}
  BY <1>1
<1>3. PICK d \in D : \A e \in D : d <= e
  BY <1>2, LeastNumber
<1>4. PICK x \in T : d = LastSample - x
  BY <1>3
<1>5. ASSUME NEW y \in T
      PROVE  y <= x
  <2>1. d <= LastSample - y
    BY <1>3
  <2> QED
    BY <1>1, <1>4, <2>1
<1> QED
  BY <1>5

(* What modules hold together.                                             *)
LEMMA Holding ==
  ASSUME NEW ms \in SUBSET Modules
  PROVE  /\ HeldBy(ms) \subseteq Samples
         /\ \A m \in ms : SamplesOf(m) \subseteq HeldBy(ms)
         /\ \A m \in Modules : HeldBy(ms \cup {m}) = HeldBy(ms) \cup SamplesOf(m)
         /\ \A s : s \in HeldBy(ms) <=> \E m \in ms : s \in SamplesOf(m)
<1>1. \A m \in ms : SamplesOf(m) \subseteq Samples
  BY SlotsAssumption DEF SamplesOf
<1> QED
  BY <1>1 DEF HeldBy

-----------------------------------------------------------------------------
(* A pass that becomes something leaves the others as they are.            *)
LEMMA Becoming ==
  ASSUME TypeOK, NEW p \in Processes, NEW r \in Pass, Becomes(p, r)
  PROVE  /\ pass' \in [Processes -> Pass]
         /\ pass'[p] = r
         /\ \A q \in Processes \ {p} : pass'[q] = pass[q]
BY DEF TypeOK, Becomes

(* The lock is held by whom the passes' places say.                        *)
LocksFollow(p, r) ==
  /\ alone' # None => sharing' = {}
  /\ \A q \in Processes \ {p} : (q \in sharing' <=> q \in sharing) /\ (alone' = q <=> alone = q)
  /\ p \in sharing' <=> r.pc \in Sharers /\ ~ r.cut
  /\ alone' = p <=> r.pc \in Pruners /\ ~ r.cut

(* One step of one pass: what it becomes fits, every other pass still      *)
(* does, and the stores stay whole.                                        *)
LEMMA OneStep ==
  ASSUME Inv, NEW p \in Processes, NEW r \in Pass, Becomes(p, r),
         UNCHANGED <<files, passes, changes, restarts, mixed>>,
         LocksFollow(p, r), sharing' \subseteq Processes, alone' \in Processes \cup {None},
         modules' \subseteq Modules, samples' \subseteq Samples, objects' \subseteq Samples,
         record' # None => record' \subseteq Modules, walkCut' \in BOOLEAN,
         r.pc # "idle" => pass[p].pc # "idle" /\ r.listed = pass[p].listed,
         Fits(r)', \A q \in Processes \ {p} : Fits(pass[q])', Whole'
  PROVE  Inv'
<1>1. /\ pass' \in [Processes -> Pass]
      /\ pass'[p] = r
      /\ \A q \in Processes \ {p} : pass'[q] = pass[q]
  BY Becoming DEF Inv
<1>2. TypeOK'
  BY <1>1 DEF Inv, TypeOK
<1>3. Locks'
  BY <1>1 DEF Inv, Locks, LocksFollow
<1>4. \A q \in Processes : Fits(pass[q])'
  <2>1. Fits(pass[p])'
    BY <1>1 DEF Fits, Shape, Lands, Walks, Mirrors
  <2> QED
    BY <2>1
<1>5. Alike'
  BY <1>1 DEF Inv, Alike, UnderWay, At
<1> QED
  BY <1>2, <1>3, <1>4, <1>5 DEF Inv

(* A step that leaves the stores alone needs only to fit them itself.      *)
LEMMA Steps ==
  ASSUME Inv, NEW p \in Processes, NEW r \in Pass, Becomes(p, r),
         UNCHANGED <<files, stores, record, history, bounds>>,
         LocksFollow(p, r), sharing' \subseteq Processes, alone' \in Processes \cup {None},
         r.pc # "idle" => pass[p].pc # "idle" /\ r.listed = pass[p].listed,
         Fits(r)
  PROVE  Inv'
<1>1. UNCHANGED <<files, modules, samples, objects, record, mixed, walkCut, passes, changes, restarts>>
  BY DEF stores, history, bounds
<1>2. Fits(r)'
  BY <1>1 DEF Fits, Shape, Lands, Walks, Mirrors
<1>3. ASSUME NEW q \in Processes \ {p}
      PROVE  Fits(pass[q])'
  <2>1. pass'[q] = pass[q] /\ Fits(pass[q])
    BY Becoming DEF Inv
  <2> QED
    BY <1>1, <2>1 DEF Fits, Shape, Lands, Walks, Mirrors
<1>4. Whole'
  BY <1>1 DEF Inv, Whole, HeldBy
<1>5. modules' \subseteq Modules /\ samples' \subseteq Samples /\ objects' \subseteq Samples
  BY <1>1 DEF Inv, TypeOK
<1>6. (record' # None => record' \subseteq Modules) /\ walkCut' \in BOOLEAN
  BY <1>1 DEF Inv, TypeOK
<1> QED
  BY <1>1, <1>2, <1>3, <1>4, <1>5, <1>6, OneStep

(* What a pass leaves behind, ended or killed, fits anything.              *)
LEMMA IdleFits ==
  Idle \in Pass /\ Fits(Idle)
<1>1. Idle \in Pass
  BY DEF Idle, Pass, Places
<1>2. Shape(Idle)
  BY DEF Idle, Shape, Landing, Ending, Mirrored
<1>3. Lands(Idle) /\ Walks(Idle) /\ Mirrors(Idle)
  BY DEF Idle, Lands, Walks, Mirrors, Mirrored
<1> QED
  BY <1>1, <1>2, <1>3 DEF Fits

(* A pass that ends, of its own or not, releases what it held.             *)
LEMMA Leaves ==
  ASSUME Inv, NEW p \in Processes, Leave(p), UNCHANGED <<files, stores, record, history, bounds>>,
         alone' = (IF alone = p THEN None ELSE alone), sharing' = sharing \ {p}
  PROVE  Inv'
<1>1. PICK r \in Pass : r = Idle /\ r.pc = "idle" /\ Fits(r)
  BY IdleFits DEF Idle
<1>2. Becomes(p, r)
  BY <1>1 DEF Leave
<1>3. LocksFollow(p, r)
  BY <1>1, NoneAssumption DEF Inv, Locks, LocksFollow, Sharers, Landing, Pruners
<1>4. sharing' \subseteq Processes /\ alone' \in Processes \cup {None}
  BY DEF Inv, TypeOK
<1> QED
  BY <1>1, <1>2, <1>3, <1>4, Steps

(* One that holds no lock leaves the locks alone.                          *)
LEMMA LeavesLocks ==
  ASSUME Inv, NEW p \in Processes, pass[p].cut \/ pass[p].pc \notin Sharers \cup Pruners,
         UNCHANGED locks
  PROVE  alone' = (IF alone = p THEN None ELSE alone) /\ sharing' = sharing \ {p}
BY DEF Inv, Locks, locks

-----------------------------------------------------------------------------
(* The steps of a pass that leave the stores alone.                        *)

(* main and _goes_ahead: a pass ends on the record it finds, or goes on.   *)
LEMMA LookKeeps ==
  ASSUME Inv, NEW p \in Processes, Look(p)
  PROVE  Inv'
<1> USE DEF Look
<1>1. CASE Leave(p)
  <2>1. pass[p].pc \notin Sharers \cup Pruners
    BY DEF At, Sharers, Landing, Pruners
  <2> QED
    BY <1>1, <2>1, LeavesLocks, Leaves
<1>2. CASE Goto(p, "forgetting")
  <2>1. pass[p] \in Pass /\ pass[p].pc = "listed" /\ Fits(pass[p])
    BY DEF Inv, TypeOK, At
  <2>2. PICK r \in Pass : r = [pass[p] EXCEPT !.pc = "forgetting"]
    BY <2>1 DEF Pass, Places
  <2>3. Fits(r)
    BY <2>1, <2>2 DEF Fits, Shape, Lands, Walks, Mirrors, Landing, Ending, Mirrored, Pass
  <2>4. LocksFollow(p, r)
    BY <2>1, <2>2 DEF Inv, Locks, LocksFollow, Sharers, Landing, Pruners, Pass, locks
  <2>5. sharing' \subseteq Processes /\ alone' \in Processes \cup {None}
    BY DEF Inv, TypeOK, locks
  <2>6. r.pc # "idle" => pass[p].pc # "idle" /\ r.listed = pass[p].listed
    BY <2>1, <2>2 DEF Pass
  <2>7. Becomes(p, r)
    BY <1>2, <2>2 DEF Goto
  <2> QED
    BY <2>3, <2>4, <2>5, <2>6, <2>7, Steps
<1> QED
  BY <1>1, <1>2

(* share_extraction_lock: a pass adds beside others, never beside a prune. *)
LEMMA ShareKeeps ==
  ASSUME Inv, NEW p \in Processes, Share(p)
  PROVE  Inv'
<1> USE DEF Share
<1>1. pass[p] \in Pass /\ pass[p].pc = "waiting" /\ ~ pass[p].cut /\ Fits(pass[p])
  BY DEF Inv, TypeOK, At, Asking
<1>2. PICK r \in Pass : r = [pass[p] EXCEPT !.pc = "covering"]
  BY <1>1 DEF Pass, Places
<1>3. Fits(r)
  BY <1>1, <1>2 DEF Fits, Shape, Lands, Walks, Mirrors, Landing, Ending, Mirrored, Pass
<1>4. LocksFollow(p, r)
  BY <1>1, <1>2 DEF Inv, Locks, LocksFollow, Sharers, Landing, Pruners, Pass, NoPrune
<1>5. sharing' \subseteq Processes /\ alone' \in Processes \cup {None}
  BY DEF Inv, TypeOK
<1>6. r.pc # "idle" => pass[p].pc # "idle" /\ r.listed = pass[p].listed
  BY <1>1, <1>2 DEF Pass
<1>7. Becomes(p, r)
  BY <1>2 DEF Goto
<1> QED
  BY <1>3, <1>4, <1>5, <1>6, <1>7, Steps

(* run_extraction: a file read is one less to read; the next module begins *)
(* to land, is known, or cannot be read.                                   *)
LEMMA ReadFileKeeps ==
  ASSUME Inv, NEW p \in Processes, NEW m \in Modules, ReadFile(p, m)
  PROVE  Inv'
<1> USE DEF ReadFile
<1>1. /\ pass[p] \in Pass /\ pass[p].pc = "covering" /\ ~ pass[p].cut /\ Fits(pass[p])
      /\ m \in pass[p].todo
  BY DEF Inv, TypeOK, At, Asking
<1>2. PICK rest \in Pass : rest = [pass[p] EXCEPT !.todo = @ \ {m}]
  BY <1>1 DEF Pass
<1>3. \/ m \notin files /\ Becomes(p, [rest EXCEPT !.failed = TRUE])
      \/ m \in modules /\ Becomes(p, rest)
      \/ m \notin modules /\ Becomes(p, [rest EXCEPT !.pc = "inserting", !.now = m])
  BY <1>2
<1>4. /\ rest.pc = "covering" /\ ~ rest.cut /\ rest.listed = pass[p].listed
      /\ rest.todo = pass[p].todo \ {m} /\ rest.now = pass[p].now /\ rest.failed = pass[p].failed
      /\ rest.left = pass[p].left /\ rest.pending = pass[p].pending /\ rest.gone = pass[p].gone
      /\ rest.names = pass[p].names /\ rest.unseen = pass[p].unseen
  BY <1>1, <1>2 DEF Pass
<1>5. ASSUME NEW r \in Pass, Fits(r), r.listed = pass[p].listed, r.pc \in {"covering", "inserting"},
             ~ r.cut, Becomes(p, r)
      PROVE  Inv'
  <2>1. LocksFollow(p, r)
    BY <1>1, <1>5 DEF Inv, Locks, LocksFollow, Sharers, Landing, Pruners, locks
  <2>2. sharing' \subseteq Processes /\ alone' \in Processes \cup {None}
    BY DEF Inv, TypeOK, locks
  <2> QED
    BY <1>1, <1>5, <2>1, <2>2, Steps
<1>6. CASE Becomes(p, [rest EXCEPT !.failed = TRUE])
  <2>1. PICK r \in Pass : r = [rest EXCEPT !.failed = TRUE]
    BY <1>1 DEF Pass
  <2>2. Fits(r)
    BY <1>1, <1>4, <2>1 DEF Fits, Shape, Lands, Walks, Mirrors, Landing, Ending, Mirrored, Pass
  <2> QED
    BY <1>4, <1>5, <1>6, <2>1, <2>2 DEF Pass
<1>7. CASE m \in modules /\ Becomes(p, rest)
  <2>1. Fits(rest)
    BY <1>1, <1>4, <1>7 DEF Fits, Shape, Lands, Walks, Mirrors, Landing, Ending, Mirrored
  <2> QED
    BY <1>4, <1>5, <1>7, <2>1
<1>8. CASE Becomes(p, [rest EXCEPT !.pc = "inserting", !.now = m])
  <2>1. PICK r \in Pass : r = [rest EXCEPT !.pc = "inserting", !.now = m]
    BY <1>1 DEF Pass, Places
  <2>2. m # None
    BY NoneAssumption
  <2>3. /\ r.pc = "inserting" /\ r.listed = pass[p].listed /\ ~ r.cut /\ r.now = m
        /\ r.todo = pass[p].todo \ {m} /\ r.failed = pass[p].failed /\ r.left = {}
        /\ r.pending = {} /\ r.gone = pass[p].gone
    BY <1>1, <1>4, <2>1 DEF Fits, Shape, Pass
  <2>4. Shape(r) /\ Lands(r) /\ Walks(r)
    BY <1>1, <2>2, <2>3 DEF Fits, Shape, Lands, Walks, Landing, Ending, Mirrored
  <2>5. Mirrors(r)
    <3>1. r.listed \ (r.todo \cup {r.now}) \subseteq
            pass[p].listed \ (pass[p].todo \cup {pass[p].now})
      BY <1>1, <2>3, NoneAssumption DEF Fits, Shape, Landing, Pass
    <3> QED
      BY <1>1, <2>3, <3>1 DEF Fits, Mirrors, Mirrored
  <2> QED
    BY <1>4, <1>5, <1>8, <2>1, <2>3, <2>4, <2>5 DEF Fits
<1> QED
  BY <1>3, <1>6, <1>7, <1>8

(* ingest_module's transaction begins with the module's row, or ends at    *)
(* one another pass has inserted.                                          *)
LEMMA InsertModuleKeeps ==
  ASSUME Inv, NEW p \in Processes, InsertModule(p)
  PROVE  Inv'
<1> USE DEF InsertModule
<1>1. pass[p] \in Pass /\ pass[p].pc = "inserting" /\ ~ pass[p].cut /\ Fits(pass[p])
  BY DEF Inv, TypeOK, At, Asking
<1>2. pass[p].now \in Modules
  BY <1>1 DEF Fits, Shape, Landing, Pass
<1>3. SamplesOf(pass[p].now) \in SUBSET Samples
  BY <1>2, SlotsAssumption DEF SamplesOf
<1>4. PICK r \in Pass :
        /\ Becomes(p, r)
        /\ \/ pass[p].now \in modules /\ r = [pass[p] EXCEPT !.pc = "covering", !.now = None]
           \/ r = [pass[p] EXCEPT !.pc = "storing", !.left = SamplesOf(pass[p].now)]
  <2>1. [pass[p] EXCEPT !.pc = "covering", !.now = None] \in Pass
    BY <1>1 DEF Pass, Places
  <2>2. [pass[p] EXCEPT !.pc = "storing", !.left = SamplesOf(pass[p].now)] \in Pass
    BY <1>1, <1>3 DEF Pass, Places
  <2> QED
    BY <2>1, <2>2
<1>5. /\ r.listed = pass[p].listed /\ ~ r.cut /\ r.todo = pass[p].todo /\ r.failed = pass[p].failed
      /\ r.pending = {} /\ r.gone = pass[p].gone
      /\ \/ pass[p].now \in modules /\ r.pc = "covering" /\ r.now = None /\ r.left = {}
         \/ r.pc = "storing" /\ r.now = pass[p].now /\ r.left = SamplesOf(r.now)
  BY <1>1, <1>4 DEF Fits, Shape, Pass
<1>6. Fits(r)
  BY <1>1, <1>2, <1>5, NoneAssumption DEF Fits, Shape, Lands, Walks, Mirrors, Landing, Ending, Mirrored
<1>7. LocksFollow(p, r)
  BY <1>1, <1>5 DEF Inv, Locks, LocksFollow, Sharers, Landing, Pruners, locks
<1>8. sharing' \subseteq Processes /\ alone' \in Processes \cup {None}
  BY DEF Inv, TypeOK, locks
<1> QED
  BY <1>1, <1>4, <1>5, <1>6, <1>7, <1>8, Steps

(* The samples are inserted in hash order: the one inserted now comes      *)
(* after what the transaction holds and before what it has left.           *)
LEMMA UpsertSampleKeeps ==
  ASSUME Inv, NEW p \in Processes, UpsertSample(p)
  PROVE  Inv'
<1> USE DEF UpsertSample
<1>1. /\ pass[p] \in Pass /\ pass[p].pc = "storing" /\ ~ pass[p].cut /\ Fits(pass[p])
      /\ pass[p].left # {}
  BY DEF Inv, TypeOK, At, Asking
<1>2. pass[p].left \subseteq Samples
  BY <1>1 DEF Pass
<1>3. /\ First(p) \in pass[p].left /\ \A y \in pass[p].left : First(p) <= y
      /\ First(p) \in Samples
  BY <1>1, <1>2, MinIsLeast DEF First
<1>4. PICK r \in Pass :
        r = [pass[p] EXCEPT !.pc = "placing", !.pending = @ \cup ({First(p)} \ samples)]
  BY <1>1, <1>3 DEF Pass, Places
<1>5. /\ r.pc = "placing" /\ r.listed = pass[p].listed /\ ~ r.cut /\ r.todo = pass[p].todo
      /\ r.failed = pass[p].failed /\ r.now = pass[p].now /\ r.left = pass[p].left
      /\ r.pending = pass[p].pending \cup ({First(p)} \ samples) /\ r.gone = pass[p].gone
  BY <1>1, <1>4 DEF Pass
<1>6. Shape(r)
  <2>1. \A x \in r.pending, y \in r.left : x < y \/ x = y
    <3>1. \A x \in pass[p].pending, y \in pass[p].left : x < y
      BY <1>1 DEF Fits, Shape
    <3>2. \A y \in pass[p].left : First(p) < y \/ First(p) = y
      BY <1>2, <1>3, SlotsAssumption DEF Samples
    <3> QED
      BY <1>5, <3>1, <3>2
  <2> QED
    BY <1>1, <1>3, <1>5, <2>1 DEF Fits, Shape, Landing, Ending, Mirrored
<1>7. Lands(r)
  <2>1. Min(r.left) = First(p)
    BY <1>5 DEF First
  <2> QED
    BY <1>1, <1>3, <1>5, <2>1 DEF Fits, Lands
<1>8. Walks(r) /\ Mirrors(r)
  BY <1>1, <1>5 DEF Fits, Walks, Mirrors, Mirrored
<1>9. LocksFollow(p, r)
  BY <1>1, <1>5 DEF Inv, Locks, LocksFollow, Sharers, Landing, Pruners, locks
<1>10. sharing' \subseteq Processes /\ alone' \in Processes \cup {None}
  BY DEF Inv, TypeOK, locks
<1>11. Becomes(p, r)
  BY <1>4
<1> QED
  BY <1>1, <1>5, <1>6, <1>7, <1>8, <1>9, <1>10, <1>11, Steps DEF Fits

(* A listing covered ends the connection: a prune goes on with another.    *)
LEMMA CoveredKeeps ==
  ASSUME Inv, NEW p \in Processes, Covered(p)
  PROVE  Inv'
<1> USE DEF Covered
<1>1. /\ pass[p] \in Pass /\ pass[p].pc = "covering" /\ Fits(pass[p]) /\ pass[p].todo = {}
  BY DEF Inv, TypeOK, At
<1>2. alone # p
  BY <1>1 DEF Inv, Locks, Pruners
<1>3. CASE Leave(p)
  BY <1>2, <1>3, Leaves
<1>4. CASE Becomes(p, [pass[p] EXCEPT !.pc = "covered", !.cut = FALSE])
  <2>1. PICK r \in Pass : r = [pass[p] EXCEPT !.pc = "covered", !.cut = FALSE]
    BY <1>1 DEF Pass, Places
  <2>2. /\ r.pc = "covered" /\ r.listed = pass[p].listed /\ ~ r.cut /\ r.now = pass[p].now
        /\ r.todo = {} /\ r.failed = pass[p].failed /\ r.left = {} /\ r.pending = {}
        /\ r.gone = pass[p].gone
    BY <1>1, <2>1 DEF Fits, Shape, Pass
  <2>3. Fits(r)
    BY <1>1, <2>2 DEF Fits, Shape, Lands, Walks, Mirrors, Landing, Ending, Mirrored
  <2>4. LocksFollow(p, r)
    BY <1>1, <1>2, <2>2 DEF Inv, Locks, LocksFollow, Sharers, Landing, Pruners
  <2>5. sharing' \subseteq Processes /\ alone' \in Processes \cup {None}
    BY DEF Inv, TypeOK
  <2> QED
    BY <1>1, <1>4, <2>1, <2>2, <2>3, <2>4, <2>5, Steps
<1> QED
  BY <1>3, <1>4

(* gone_modules: what the catalog holds beyond the listing.                *)
LEMMA FindGoneKeeps ==
  ASSUME Inv, NEW p \in Processes, FindGone(p)
  PROVE  Inv'
<1> USE DEF FindGone
<1>1. pass[p] \in Pass /\ pass[p].pc = "covered" /\ Fits(pass[p])
  BY DEF Inv, TypeOK, At
<1>2. CASE Leave(p)
  BY <1>1, <1>2, LeavesLocks, Leaves DEF Sharers, Landing, Pruners
<1>3. CASE ~ Refused(p) /\ Becomes(p, [pass[p] EXCEPT !.pc = "claiming", !.gone = modules \ pass[p].listed])
  <2>1. modules \ pass[p].listed \subseteq Modules
    BY DEF Inv, TypeOK
  <2>2. PICK r \in Pass : r = [pass[p] EXCEPT !.pc = "claiming", !.gone = modules \ pass[p].listed]
    BY <1>1, <2>1 DEF Pass, Places
  <2>3. /\ r.pc = "claiming" /\ r.listed = pass[p].listed /\ r.cut = pass[p].cut
        /\ r.now = pass[p].now /\ r.todo = pass[p].todo /\ ~ r.failed
        /\ r.left = pass[p].left /\ r.pending = pass[p].pending
        /\ r.gone = modules \ r.listed
    BY <1>1, <1>3, <2>2 DEF Refused, Pass
  <2>4. Fits(r)
    BY <1>1, <1>3, <2>3 DEF Fits, Shape, Lands, Walks, Mirrors, Landing, Ending, Mirrored, Refused
  <2>5. LocksFollow(p, r)
    BY <1>1, <2>3 DEF Inv, Locks, LocksFollow, Sharers, Landing, Pruners, locks
  <2>6. sharing' \subseteq Processes /\ alone' \in Processes \cup {None}
    BY DEF Inv, TypeOK, locks
  <2> QED
    BY <1>1, <1>3, <2>2, <2>3, <2>4, <2>5, <2>6, Steps
<1> QED
  BY <1>2, <1>3

(* claim_extraction_lock: a prune holds the lock alone, or ends.           *)
LEMMA ClaimKeeps ==
  ASSUME Inv, NEW p \in Processes, Claim(p)
  PROVE  Inv'
<1> USE DEF Claim
<1>1. pass[p] \in Pass /\ pass[p].pc = "claiming" /\ ~ pass[p].cut /\ Fits(pass[p])
  BY DEF Inv, TypeOK, At, Asking
<1>2. CASE Leave(p) /\ UNCHANGED alone
  <2>1. UNCHANGED locks
    BY <1>2 DEF locks
  <2> QED
    BY <1>1, <1>2, <2>1, LeavesLocks, Leaves DEF Sharers, Landing, Pruners
<1>3. CASE NothingRuns /\ alone' = p /\ Goto(p, "removing")
  <2>1. PICK r \in Pass : r = [pass[p] EXCEPT !.pc = "removing"]
    BY <1>1 DEF Pass, Places
  <2>2. Fits(r)
    BY <1>1, <2>1 DEF Fits, Shape, Lands, Walks, Mirrors, Landing, Ending, Mirrored, Pass
  <2>3. r.pc = "removing" /\ r.listed = pass[p].listed /\ ~ r.cut
    BY <1>1, <2>1 DEF Pass
  <2>4. LocksFollow(p, r)
    BY <1>1, <1>3, <2>3, NoneAssumption DEF Inv, Locks, LocksFollow, Sharers, Landing, Pruners, NothingRuns
  <2>5. sharing' \subseteq Processes /\ alone' \in Processes \cup {None}
    BY <1>3 DEF Inv, TypeOK
  <2>6. Becomes(p, r)
    BY <1>3, <2>1 DEF Goto
  <2> QED
    BY <1>1, <2>2, <2>3, <2>4, <2>5, <2>6, Steps
<1> QED
  BY <1>2, <1>3

(* _remove_unnamed_objects: the names are what the catalog holds now, and  *)
(* every object is still to meet.                                          *)
LEMMA ReadNamesKeeps ==
  ASSUME Inv, NEW p \in Processes, ReadNames(p)
  PROVE  Inv'
<1> USE DEF ReadNames
<1>1. pass[p] \in Pass /\ pass[p].pc = "naming" /\ ~ pass[p].cut /\ Fits(pass[p])
  BY DEF Inv, TypeOK, At, Asking
<1>2. samples \subseteq Samples /\ objects \subseteq Samples
  BY DEF Inv, TypeOK
<1>3. PICK r \in Pass : r = [pass[p] EXCEPT !.pc = "unlinking", !.names = samples, !.unseen = Samples]
  BY <1>1, <1>2 DEF Pass, Places
<1>4. /\ r.pc = "unlinking" /\ r.listed = pass[p].listed /\ ~ r.cut /\ r.now = pass[p].now
      /\ r.todo = pass[p].todo /\ r.failed = pass[p].failed /\ r.left = pass[p].left
      /\ r.pending = pass[p].pending /\ r.gone = pass[p].gone
      /\ r.names = samples /\ r.unseen = Samples
  BY <1>1, <1>3 DEF Pass
<1>5. Fits(r)
  BY <1>1, <1>2, <1>4 DEF Fits, Shape, Lands, Walks, Mirrors, Landing, Ending, Mirrored
<1>6. LocksFollow(p, r)
  BY <1>1, <1>4 DEF Inv, Locks, LocksFollow, Sharers, Landing, Pruners, locks
<1>7. sharing' \subseteq Processes /\ alone' \in Processes \cup {None}
  BY DEF Inv, TypeOK, locks
<1> QED
  BY <1>1, <1>3, <1>4, <1>5, <1>6, <1>7, Steps

(* The walk over, the connection closes and frees the lock.                *)
LEMMA PrunedKeeps ==
  ASSUME Inv, NEW p \in Processes, Pruned(p)
  PROVE  Inv'
<1> USE DEF Pruned
<1>1. pass[p] \in Pass /\ pass[p].pc = "unlinking" /\ Fits(pass[p])
  BY DEF Inv, TypeOK, At
<1>2. PICK r \in Pass : r = [pass[p] EXCEPT !.pc = "relisting", !.cut = FALSE]
  BY <1>1 DEF Pass, Places
<1>3. /\ r.pc = "relisting" /\ r.listed = pass[p].listed /\ ~ r.cut /\ r.now = pass[p].now
      /\ r.todo = pass[p].todo /\ r.failed = pass[p].failed /\ r.left = pass[p].left
      /\ r.pending = pass[p].pending /\ r.gone = pass[p].gone
  BY <1>1, <1>2 DEF Pass
<1>4. Fits(r)
  BY <1>1, <1>3 DEF Fits, Shape, Lands, Walks, Mirrors, Landing, Ending, Mirrored
<1>5. LocksFollow(p, r)
  BY <1>1, <1>3, NoneAssumption DEF Inv, Locks, LocksFollow, Sharers, Landing, Pruners
<1>6. sharing' \subseteq Processes /\ alone' \in Processes \cup {None}
  BY DEF Inv, TypeOK
<1> QED
  BY <1>1, <1>2, <1>3, <1>4, <1>5, <1>6, Steps

(* _record_the_complete_pass lists the collection again.                   *)
LEMMA RelistKeeps ==
  ASSUME Inv, NEW p \in Processes, Relist(p)
  PROVE  Inv'
<1> USE DEF Relist
<1>1. pass[p] \in Pass /\ pass[p].pc = "relisting" /\ Fits(pass[p])
  BY DEF Inv, TypeOK, At
<1>2. CASE Leave(p)
  BY <1>1, <1>2, LeavesLocks, Leaves DEF Sharers, Landing, Pruners
<1>3. CASE Goto(p, "recording")
  <2>1. PICK r \in Pass : r = [pass[p] EXCEPT !.pc = "recording"]
    BY <1>1 DEF Pass, Places
  <2>2. Fits(r)
    BY <1>1, <2>1 DEF Fits, Shape, Lands, Walks, Mirrors, Landing, Ending, Mirrored, Pass
  <2>3. r.pc = "recording" /\ r.listed = pass[p].listed
    BY <1>1, <2>1 DEF Pass
  <2>4. LocksFollow(p, r)
    BY <1>1, <2>3 DEF Inv, Locks, LocksFollow, Sharers, Landing, Pruners, locks
  <2>5. sharing' \subseteq Processes /\ alone' \in Processes \cup {None}
    BY DEF Inv, TypeOK, locks
  <2>6. Becomes(p, r)
    BY <1>3, <2>1 DEF Goto
  <2> QED
    BY <1>1, <2>2, <2>3, <2>4, <2>5, <2>6, Steps
<1> QED
  BY <1>2, <1>3

(* A pass killed, and one that fails for want of its connection.           *)
LEMMA EndsKeep ==
  ASSUME Inv, NEW p \in Processes, Kill(p) \/ Fail(p)
  PROVE  Inv'
<1>1. CASE Kill(p)
  BY <1>1, Leaves DEF Kill
<1>2. CASE Fail(p)
  BY <1>2, LeavesLocks, Leaves DEF Fail
<1> QED
  BY <1>1, <1>2

-----------------------------------------------------------------------------
(* The steps that change what the stores hold.                             *)

(* A pass that goes ahead drops the record.                                *)
LEMMA ForgetKeeps ==
  ASSUME Inv, NEW p \in Processes, Forget(p)
  PROVE  Inv'
<1> USE DEF Forget
<1>1. pass[p] \in Pass /\ pass[p].pc = "forgetting" /\ ~ pass[p].cut /\ Fits(pass[p])
  BY DEF Inv, TypeOK, At, Asking
<1>2. PICK r \in Pass : r = [pass[p] EXCEPT !.pc = "waiting"]
  BY <1>1 DEF Pass, Places
<1>3. Becomes(p, r)
  BY <1>2 DEF Goto
<1>4. record' = None
  BY DEF Forgotten
<1>5. UNCHANGED <<modules, samples, objects, mixed, walkCut, restarts, passes, changes, files>>
  BY DEF stores, history, bounds
<1>6. Fits(r)'
  BY <1>1, <1>2, <1>4, <1>5 DEF Fits, Shape, Lands, Walks, Mirrors, Landing, Ending, Mirrored, Pass
<1>7. ASSUME NEW q \in Processes \ {p}
      PROVE  Fits(pass[q])'
  <2>1. pass'[q] = pass[q] /\ Fits(pass[q])
    BY <1>3, Becoming DEF Inv
  <2> QED
    BY <1>4, <1>5, <2>1 DEF Fits, Shape, Lands, Walks, Mirrors
<1>8. Whole'
  BY <1>4, <1>5 DEF Inv, Whole, HeldBy
<1>9. LocksFollow(p, r)
  BY <1>1, <1>2 DEF Inv, Locks, LocksFollow, Sharers, Landing, Pruners, Pass, locks
<1>10. sharing' \subseteq Processes /\ alone' \in Processes \cup {None}
  BY DEF Inv, TypeOK, locks
<1>11. modules' \subseteq Modules /\ samples' \subseteq Samples /\ objects' \subseteq Samples /\ walkCut' \in BOOLEAN
  BY <1>5 DEF Inv, TypeOK
<1>12. r.pc # "idle" => pass[p].pc # "idle" /\ r.listed = pass[p].listed
  BY <1>1, <1>2 DEF Pass
<1> QED
  BY <1>3, <1>4, <1>5, <1>6, <1>7, <1>8, <1>9, <1>10, <1>11, <1>12, OneStep

(* The record is left by a prune whose listing the catalog mirrors, and    *)
(* every pass beside it lists the same.                                    *)
LEMMA RecordKeeps ==
  ASSUME Inv, NEW p \in Processes, Record(p)
  PROVE  Inv'
<1> USE DEF Record
<1>1. pass[p] \in Pass /\ pass[p].pc = "recording" /\ Fits(pass[p])
  BY DEF Inv, TypeOK, At
<1>2. PICK r \in Pass : r = Idle /\ r.pc = "idle" /\ Fits(r)
  BY IdleFits DEF Idle
<1>3. Becomes(p, r)
  BY <1>2 DEF Leave
<1>4. UNCHANGED <<modules, samples, objects, mixed, walkCut, restarts, passes, changes, files>>
  BY DEF stores, history, bounds
<1>5. record' = pass[p].listed /\ pass[p].listed \subseteq Modules
  BY <1>1 DEF Pass
<1>6. Fits(r)'
  BY <1>2, <1>4 DEF Fits, Shape, Lands, Walks, Mirrors, Mirrored
<1>7. ASSUME NEW q \in Processes \ {p}
      PROVE  Fits(pass[q])'
  <2>1. pass'[q] = pass[q] /\ Fits(pass[q])
    BY <1>3, Becoming DEF Inv
  <2>2. ~ mixed /\ pass[q].pc # "idle" => pass[q].listed = pass[p].listed
    BY <1>1 DEF Inv, Alike, UnderWay, At
  <2>3. Mirrors(pass[q])'
    BY <1>4, <1>5, <2>1, <2>2 DEF Fits, Mirrors
  <2> QED
    BY <1>4, <2>1, <2>3 DEF Fits, Shape, Lands, Walks
<1>8. Whole'
  <2>1. ~ mixed => modules = record'
    BY <1>1, <1>5 DEF Fits, Mirrors, Mirrored
  <2> QED
    BY <1>4, <2>1 DEF Inv, Whole, HeldBy
<1>9. LocksFollow(p, r)
  BY <1>1, <1>2 DEF Inv, Locks, LocksFollow, Sharers, Landing, Pruners, locks
<1>10. sharing' \subseteq Processes /\ alone' \in Processes \cup {None}
  BY DEF Inv, TypeOK, locks
<1>11. modules' \subseteq Modules /\ samples' \subseteq Samples /\ objects' \subseteq Samples /\ walkCut' \in BOOLEAN
  BY <1>4 DEF Inv, TypeOK
<1> QED
  BY <1>2, <1>3, <1>4, <1>5, <1>6, <1>7, <1>8, <1>9, <1>10, <1>11, OneStep

(* While a pass that adds holds the lock, no prune of the same database    *)
(* walks; while one prunes, none adds.                                     *)
LEMMA Apart ==
  ASSUME Inv, NEW p \in Processes, NEW q \in Processes \ {p}
  PROVE  /\ pass[p].pc \in Sharers /\ ~ pass[p].cut => ~ (pass[q].pc \in Pruners /\ ~ pass[q].cut)
         /\ pass[p].pc \in Pruners /\ ~ pass[p].cut =>
              ~ (pass[q].pc \in Sharers \cup Pruners /\ ~ pass[q].cut)
BY NoneAssumption DEF Inv, Locks

(* A sample's audio is put in place; a walk is never beside it unless a    *)
(* restart ended either.                                                   *)
LEMMA WriteObjectKeeps ==
  ASSUME Inv, NEW p \in Processes, WriteObject(p)
  PROVE  Inv'
<1> USE DEF WriteObject
<1>1. pass[p] \in Pass /\ pass[p].pc = "placing" /\ Fits(pass[p])
  BY DEF Inv, TypeOK, At
<1>2. pass[p].left \subseteq Samples /\ pass[p].left # {}
  BY <1>1 DEF Fits, Shape, Pass
<1>3. /\ First(p) \in pass[p].left /\ \A y \in pass[p].left : First(p) <= y
      /\ First(p) \in Samples
  BY <1>2, MinIsLeast DEF First
<1>4. PICK r \in Pass : r = [pass[p] EXCEPT !.pc = "storing", !.left = @ \ {First(p)}]
  BY <1>1 DEF Pass, Places
<1>5. Becomes(p, r)
  BY <1>4
<1>6. /\ r.pc = "storing" /\ r.listed = pass[p].listed /\ r.cut = pass[p].cut /\ r.todo = pass[p].todo
      /\ r.failed = pass[p].failed /\ r.now = pass[p].now /\ r.left = pass[p].left \ {First(p)}
      /\ r.pending = pass[p].pending /\ r.gone = pass[p].gone
  BY <1>1, <1>4 DEF Pass
<1>7. UNCHANGED <<modules, samples, record, mixed, walkCut, restarts, passes, changes, files>>
  BY DEF history, bounds
<1>8. objects' = objects \cup {First(p)}
  OBVIOUS
<1>9. Shape(r)
  <2>1. \A x \in pass[p].pending, y \in pass[p].left : x < y \/ x = y
    BY <1>1 DEF Fits, Shape
  <2>2. \A x \in r.pending, y \in r.left : x < y
    <3> SUFFICES ASSUME NEW x \in r.pending, NEW y \in r.left
                 PROVE  x < y
      OBVIOUS
    <3>1. x \in Nat /\ y \in Nat /\ First(p) \in Nat
      BY <1>2, <1>3, <1>6, SlotsAssumption DEF Samples, Pass
    <3>2. (x < First(p) \/ x = First(p)) /\ First(p) <= y /\ y # First(p)
      BY <1>3, <1>6, <2>1
    <3> QED
      BY <3>1, <3>2
  <2> QED
    BY <1>1, <1>6, <2>2 DEF Fits, Shape, Landing, Ending, Mirrored
<1>10. Fits(r)'
  <2>1. Shape(r)'
    BY <1>9 DEF Shape
  <2>2. Lands(r)'
    <3>1. ~ r.cut => First(p) \in samples \cup pass[p].pending
      BY <1>1, <1>6 DEF Fits, Lands, First
    <3> QED
      BY <1>1, <1>6, <1>7, <1>8, <3>1 DEF Fits, Lands
  <2>3. Walks(r)' /\ Mirrors(r)'
    BY <1>1, <1>6, <1>7 DEF Fits, Walks, Mirrors, Mirrored
  <2> QED
    BY <2>1, <2>2, <2>3 DEF Fits
<1>11. ASSUME NEW q \in Processes \ {p}
       PROVE  Fits(pass[q])'
  <2>1. pass'[q] = pass[q] /\ Fits(pass[q])
    BY <1>5, Becoming DEF Inv
  <2>2. restarts = 0 => pass[q].pc # "unlinking"
    BY <1>1, <2>1, Apart DEF Fits, Walks, Sharers, Landing, Pruners
  <2> QED
    BY <1>7, <1>8, <2>1, <2>2 DEF Fits, Shape, Lands, Walks, Mirrors
<1>12. Whole'
  BY <1>7, <1>8 DEF Inv, Whole, HeldBy
<1>13. LocksFollow(p, r)
  BY <1>1, <1>6 DEF Inv, Locks, LocksFollow, Sharers, Landing, Pruners, locks
<1>14. sharing' \subseteq Processes /\ alone' \in Processes \cup {None}
  BY DEF Inv, TypeOK, locks
<1>15. /\ modules' \subseteq Modules /\ samples' \subseteq Samples /\ objects' \subseteq Samples
       /\ walkCut' \in BOOLEAN /\ (record' # None => record' \subseteq Modules)
  BY <1>3, <1>7 DEF Inv, TypeOK
<1> QED
  BY <1>1, <1>5, <1>6, <1>7, <1>10, <1>11, <1>12, <1>13, <1>14, <1>15, OneStep

(* A transaction committed adds a module and the samples it holds.         *)
LEMMA CommitKeeps ==
  ASSUME Inv, NEW p \in Processes, Commit(p)
  PROVE  Inv'
<1> USE DEF Commit
<1>1. /\ pass[p] \in Pass /\ pass[p].pc = "storing" /\ ~ pass[p].cut /\ Fits(pass[p])
      /\ pass[p].left = {}
  BY DEF Inv, TypeOK, At, Asking
<1>2. pass[p].now \in Modules /\ pass[p].now \in pass[p].listed /\ pass[p].pending \subseteq Samples
  BY <1>1 DEF Fits, Shape, Landing, Pass
<1>3. PICK r \in Pass : r = [pass[p] EXCEPT !.pc = "covering", !.now = None, !.pending = {}]
  BY <1>1 DEF Pass, Places
<1>4. Becomes(p, r)
  BY <1>3
<1>5. /\ r.pc = "covering" /\ r.listed = pass[p].listed /\ ~ r.cut /\ r.todo = pass[p].todo
      /\ r.failed = pass[p].failed /\ r.now = None /\ r.left = {} /\ r.pending = {}
      /\ r.gone = pass[p].gone
  BY <1>1, <1>3 DEF Pass
<1>6. UNCHANGED <<objects, record, mixed, walkCut, restarts, passes, changes, files>>
  BY DEF history, bounds
<1>7. modules' = modules \cup {pass[p].now} /\ samples' = samples \cup pass[p].pending
  OBVIOUS
<1>8. Fits(r)'
  <2>1. r.listed \ (r.todo \cup {r.now}) \subseteq
          (pass[p].listed \ (pass[p].todo \cup {pass[p].now})) \cup {pass[p].now}
    BY <1>5
  <2>2. Mirrors(r)'
    BY <1>1, <1>5, <1>6, <1>7, <2>1 DEF Fits, Mirrors, Mirrored
  <2> QED
    BY <1>1, <1>5, <1>6, <2>2 DEF Fits, Shape, Lands, Walks, Landing, Ending, Mirrored
<1>9. ASSUME NEW q \in Processes \ {p}
      PROVE  Fits(pass[q])'
  <2>1. pass'[q] = pass[q] /\ Fits(pass[q])
    BY <1>4, Becoming DEF Inv
  <2>2. pass[q].pc = "unlinking" => pass[q].cut
    BY <1>1, Apart DEF Sharers, Landing, Pruners
  <2>3. Shape(pass[q])' /\ Lands(pass[q])' /\ Walks(pass[q])'
    BY <1>6, <1>7, <2>1, <2>2 DEF Fits, Shape, Lands, Walks
  <2>4. ~ mixed /\ pass[q].pc # "idle" => pass[p].now \in pass[q].listed
    BY <1>1, <1>2 DEF Inv, Alike, UnderWay, At
  <2>5. Mirrors(pass[q])'
    BY <1>6, <1>7, <2>1, <2>4 DEF Fits, Mirrors, Mirrored
  <2> QED
    BY <2>3, <2>5 DEF Fits
<1>10. Whole'
  <2>1. HeldBy(modules') = HeldBy(modules) \cup SamplesOf(pass[p].now)
    BY <1>2, <1>7, Holding DEF Inv, TypeOK
  <2>2. SamplesOf(pass[p].now) \subseteq samples \cup pass[p].pending
    BY <1>1 DEF Fits, Lands
  <2>3. pass[p].pending \subseteq SamplesOf(pass[p].now)
    BY <1>1 DEF Fits, Shape
  <2>4. samples' = HeldBy(modules')
    BY <1>7, <2>1, <2>2, <2>3 DEF Inv, Whole
  <2>5. ~ walkCut => pass[p].pending \subseteq objects
    BY <1>1 DEF Fits, Lands
  <2>6. ~ mixed /\ record # None => pass[p].now \in modules
    BY <1>1, <1>2 DEF Inv, Whole, Fits, Mirrors
  <2>7. HeldBy(modules)' = HeldBy(modules')
    BY DEF HeldBy
  <2> QED
    BY <1>6, <1>7, <2>4, <2>5, <2>6, <2>7 DEF Inv, Whole
<1>11. LocksFollow(p, r)
  BY <1>1, <1>5 DEF Inv, Locks, LocksFollow, Sharers, Landing, Pruners, locks
<1>12. sharing' \subseteq Processes /\ alone' \in Processes \cup {None}
  BY DEF Inv, TypeOK, locks
<1>13. /\ modules' \subseteq Modules /\ samples' \subseteq Samples /\ objects' \subseteq Samples
       /\ walkCut' \in BOOLEAN /\ (record' # None => record' \subseteq Modules)
  BY <1>2, <1>6, <1>7 DEF Inv, TypeOK
<1> QED
  BY <1>1, <1>4, <1>5, <1>6, <1>8, <1>9, <1>10, <1>11, <1>12, <1>13, OneStep

(* prune_modules' transaction takes the modules that are gone, and the     *)
(* samples no module is left to hold. No pass adds meanwhile.              *)
LEMMA RemoveGoneKeeps ==
  ASSUME Inv, NEW p \in Processes, RemoveGone(p)
  PROVE  Inv'
<1> USE DEF RemoveGone
<1>1. pass[p] \in Pass /\ pass[p].pc = "removing" /\ ~ pass[p].cut /\ Fits(pass[p])
  BY DEF Inv, TypeOK, At, Asking
<1>2. PICK r \in Pass : r = [pass[p] EXCEPT !.pc = "naming"]
  BY <1>1 DEF Pass, Places
<1>3. Becomes(p, r)
  BY <1>2 DEF Goto
<1>4. /\ r.pc = "naming" /\ r.listed = pass[p].listed /\ ~ r.cut /\ r.todo = {}
      /\ ~ r.failed /\ r.now = pass[p].now /\ r.now = None /\ r.left = {} /\ r.pending = {}
      /\ r.gone = pass[p].gone /\ pass[p].todo = {} /\ ~ pass[p].failed
  BY <1>1, <1>2 DEF Pass, Fits, Shape, Landing, Ending
<1>5. UNCHANGED <<objects, record, mixed, walkCut, restarts, passes, changes, files>>
  BY DEF history, bounds
<1>6. modules' = modules \ pass[p].gone /\ modules \subseteq Modules /\ modules' \subseteq modules
  BY DEF Inv, TypeOK
<1>7. samples' = HeldBy(modules') /\ samples' \subseteq samples
  <2>1. HeldBy(modules') \subseteq HeldBy(modules)
    BY <1>6, Holding
  <2>2. samples' = samples \ (samples \ HeldBy(modules'))
    BY <1>6 DEF Orphans
  <2> QED
    BY <2>1, <2>2 DEF Inv, Whole
<1>8. pass[p].gone \cap pass[p].listed = {}
  BY <1>1 DEF Fits, Shape
<1>9. ~ mixed => modules' = pass[p].listed
  <2>1. ~ mixed => modules \ pass[p].listed \subseteq pass[p].gone
    BY <1>1 DEF Fits, Mirrors
  <2>2. ~ mixed => pass[p].listed \ {None} \subseteq modules
    BY <1>1, <1>4 DEF Fits, Mirrors
  <2>3. None \notin pass[p].listed
    BY <1>1, NoneAssumption DEF Pass
  <2> QED
    BY <1>6, <1>8, <2>1, <2>2, <2>3
<1>10. Fits(r)'
  <2>1. Shape(r)' /\ Lands(r)' /\ Walks(r)'
    BY <1>1, <1>4, <1>5 DEF Fits, Shape, Lands, Walks, Landing, Ending, Mirrored
  <2>2. Mirrors(r)'
    BY <1>1, <1>4, <1>5, <1>9 DEF Fits, Mirrors, Mirrored
  <2> QED
    BY <2>1, <2>2 DEF Fits
<1>11. ASSUME NEW q \in Processes \ {p}
       PROVE  Fits(pass[q])'
  <2>1. pass'[q] = pass[q] /\ Fits(pass[q])
    BY <1>3, Becoming DEF Inv
  <2>2. ~ (pass[q].pc \in Sharers \cup Pruners /\ ~ pass[q].cut)
    BY <1>1, Apart DEF Pruners
  <2>3. Shape(pass[q])' /\ Lands(pass[q])' /\ Walks(pass[q])'
    BY <1>5, <2>1, <2>2 DEF Fits, Shape, Lands, Walks, Sharers, Landing, Pruners
  <2>4. ~ mixed /\ pass[q].pc # "idle" => pass[q].listed = pass[p].listed
    BY <1>1 DEF Inv, Alike, UnderWay, At
  <2>5. Mirrors(pass[q])'
    BY <1>5, <1>6, <1>8, <1>9, <2>1, <2>4 DEF Fits, Mirrors, Mirrored
  <2> QED
    BY <2>3, <2>5 DEF Fits
<1>12. Whole'
  <2>1. ~ mixed /\ record # None => pass[p].listed = record
    BY <1>1 DEF Fits, Mirrors
  <2>2. HeldBy(modules)' = HeldBy(modules')
    BY DEF HeldBy
  <2> QED
    BY <1>5, <1>7, <1>9, <2>1, <2>2 DEF Inv, Whole
<1>13. LocksFollow(p, r)
  BY <1>1, <1>4 DEF Inv, Locks, LocksFollow, Sharers, Landing, Pruners, locks
<1>14. sharing' \subseteq Processes /\ alone' \in Processes \cup {None}
  BY DEF Inv, TypeOK, locks
<1>15. /\ modules' \subseteq Modules /\ samples' \subseteq Samples /\ objects' \subseteq Samples
       /\ walkCut' \in BOOLEAN /\ (record' # None => record' \subseteq Modules)
  BY <1>5, <1>6, <1>7 DEF Inv, TypeOK
<1> QED
  BY <1>1, <1>3, <1>4, <1>5, <1>10, <1>11, <1>12, <1>13, <1>14, <1>15, OneStep

(* The walk unlinks an object only if the catalog does not name it, unless *)
(* a restart freed the lock it walks under.                                *)
LEMMA VisitKeeps ==
  ASSUME Inv, NEW p \in Processes, NEW s \in Samples, Visit(p, s)
  PROVE  Inv'
<1> USE DEF Visit
<1>1. pass[p] \in Pass /\ pass[p].pc = "unlinking" /\ Fits(pass[p])
  BY DEF Inv, TypeOK, At
<1>2. PICK r \in Pass : r = [pass[p] EXCEPT !.unseen = @ \ {s}]
  BY <1>1 DEF Pass
<1>3. Becomes(p, r)
  BY <1>2
<1>4. /\ r.pc = "unlinking" /\ r.listed = pass[p].listed /\ r.cut = pass[p].cut
      /\ r.todo = pass[p].todo /\ r.failed = pass[p].failed /\ r.now = pass[p].now
      /\ r.left = pass[p].left /\ r.pending = pass[p].pending /\ r.gone = pass[p].gone
      /\ r.names = pass[p].names /\ r.unseen = pass[p].unseen \ {s}
  BY <1>1, <1>2 DEF Pass
<1>5. UNCHANGED <<modules, samples, record, mixed, walkCut, restarts, passes, changes, files>>
  BY DEF history, bounds
<1>6. objects' = objects \ ({s} \ pass[p].names)
  OBVIOUS
<1>7. Fits(r)'
  BY <1>1, <1>4, <1>5, <1>6 DEF Fits, Shape, Lands, Walks, Mirrors, Landing, Ending, Mirrored
<1>8. ASSUME NEW q \in Processes \ {p}
      PROVE  Fits(pass[q])'
  <2>1. pass'[q] = pass[q] /\ Fits(pass[q])
    BY <1>3, Becoming DEF Inv
  <2>2. ~ walkCut => ~ (pass[q].pc \in Sharers /\ ~ pass[q].cut)
    BY <1>1, Apart DEF Fits, Walks, Pruners
  <2> QED
    BY <1>5, <1>6, <2>1, <2>2 DEF Fits, Shape, Lands, Walks, Mirrors, Sharers, Landing
<1>9. Whole'
  <2>1. ~ walkCut => pass[p].names = samples
    BY <1>1 DEF Fits, Walks
  <2> QED
    BY <1>5, <1>6, <2>1 DEF Inv, Whole, HeldBy
<1>10. LocksFollow(p, r)
  BY <1>1, <1>4 DEF Inv, Locks, LocksFollow, Sharers, Landing, Pruners, locks
<1>11. sharing' \subseteq Processes /\ alone' \in Processes \cup {None}
  BY DEF Inv, TypeOK, locks
<1>12. /\ modules' \subseteq Modules /\ samples' \subseteq Samples /\ objects' \subseteq Samples
       /\ walkCut' \in BOOLEAN /\ (record' # None => record' \subseteq Modules)
  BY <1>5, <1>6 DEF Inv, TypeOK
<1> QED
  BY <1>1, <1>3, <1>4, <1>5, <1>7, <1>8, <1>9, <1>10, <1>11, <1>12, OneStep

-----------------------------------------------------------------------------
(* A pass begins with a listing of the collection. One of another listing  *)
(* than that of a pass under way mixes the two.                            *)
LEMMA ListKeeps ==
  ASSUME Inv, NEW p \in Processes, List(p)
  PROVE  Inv'
<1> USE DEF List
<1>1. PICK prune \in BOOLEAN :
        Becomes(p, [Idle EXCEPT !.pc = "listed", !.prune = prune, !.listed = files, !.todo = files])
  OBVIOUS
<1>2. files \subseteq Modules /\ Idle \in Pass
  BY IdleFits DEF Inv, TypeOK
<1>3. PICK r \in Pass :
        r = [Idle EXCEPT !.pc = "listed", !.prune = prune, !.listed = files, !.todo = files]
  BY <1>2 DEF Pass, Places
<1>4. /\ r.pc = "listed" /\ r.listed = files /\ r.todo = files /\ ~ r.cut /\ r.now = None
      /\ r.left = {} /\ r.pending = {} /\ r.gone = {}
  BY <1>2, <1>3 DEF Idle, Pass
<1>5. /\ pass' \in [Processes -> Pass] /\ pass'[p] = r
      /\ \A q \in Processes \ {p} : pass'[q] = pass[q]
  BY <1>1, <1>3, Becoming DEF Inv
<1>6. UNCHANGED <<files, modules, samples, objects, record, sharing, alone, walkCut, changes, restarts>>
  BY DEF stores, locks
<1>7. TypeOK'
  BY <1>5, <1>6 DEF Inv, TypeOK
<1>8. Locks'
  BY <1>4, <1>5, <1>6 DEF Inv, Locks, At, Sharers, Landing, Pruners
<1>9. mixed' \in BOOLEAN /\ (mixed => mixed')
  BY DEF Inv, TypeOK
<1>10. ASSUME NEW q \in Processes
       PROVE  Fits(pass[q])'
  <2>1. CASE q = p
    BY <1>4, <1>5, <2>1 DEF Fits, Shape, Lands, Walks, Mirrors, Landing, Ending, Mirrored
  <2>2. CASE q # p
    BY <1>5, <1>6, <1>9, <2>2 DEF Inv, Fits, Shape, Lands, Walks, Mirrors
  <2> QED
    BY <2>1, <2>2
<1>11. Alike'
  <2>1. ~ mixed' => \A q \in Processes : pass[q].pc # "idle" => pass[q].listed = files
    BY DEF UnderWay, At
  <2>2. ~ mixed' => \A q \in Processes : pass'[q].pc # "idle" => pass'[q].listed = files
    BY <1>4, <1>5, <2>1
  <2> QED
    BY <2>2 DEF Alike, UnderWay, At
<1>12. Whole'
  BY <1>6, <1>9 DEF Inv, Whole, HeldBy
<1> QED
  BY <1>7, <1>8, <1>10, <1>11, <1>12 DEF Inv

(* The database restarts: no lock, no transaction and no connection        *)
(* outlives it; a walk goes on with neither.                               *)
LEMMA RestartKeeps ==
  ASSUME Inv, Restart
  PROVE  Inv'
<1> USE DEF Restart
<1>1. UNCHANGED <<files, modules, samples, objects, record, mixed, passes, changes>>
  BY DEF stores
<1>2. /\ restarts \in Nat /\ restarts' \in Nat /\ restarts' # 0
      /\ walkCut' \in BOOLEAN /\ (walkCut => walkCut')
  BY DEF Inv, TypeOK
<1>3. ASSUME NEW q \in Processes
      PROVE  /\ pass'[q] \in Pass /\ pass'[q].pc = pass[q].pc /\ pass'[q].listed = pass[q].listed
             /\ pass'[q].todo = pass[q].todo /\ pass'[q].failed = pass[q].failed
             /\ pass'[q].now = pass[q].now /\ pass'[q].left = pass[q].left
             /\ pass'[q].pending = pass[q].pending /\ pass'[q].gone = pass[q].gone
             /\ pass'[q].names = pass[q].names /\ pass'[q].unseen = pass[q].unseen
             /\ pass[q].pc \in Connected => pass'[q].cut
  <2>1. pass[q] \in Pass
    BY DEF Inv, TypeOK
  <2>2. CASE pass[q].pc \in Connected
    <3>1. pass'[q] = [pass[q] EXCEPT !.cut = TRUE]
      BY <2>2
    <3> QED
      BY <2>1, <3>1 DEF Pass
  <2>3. CASE pass[q].pc \notin Connected
    BY <2>1, <2>3
  <2> QED
    BY <2>2, <2>3
<1>4. pass' \in [Processes -> Pass]
  BY <1>3
<1>5. TypeOK'
  BY <1>1, <1>2, <1>4 DEF Inv, TypeOK
<1>6. Locks'
  BY <1>3, NoneAssumption DEF Locks, Sharers, Landing, Pruners, Connected
<1>7. ASSUME NEW q \in Processes
      PROVE  Fits(pass[q])'
  <2>1. Fits(pass[q])
    BY DEF Inv
  <2>2. Shape(pass[q])'
    BY <1>3, <2>1 DEF Fits, Shape
  <2>3. Lands(pass[q])'
    BY <1>3 DEF Lands, Connected
  <2>4. Walks(pass[q])'
    <3>1. pass[q].pc = "unlinking" => walkCut'
      BY DEF At
    <3> QED
      BY <1>2, <1>3, <3>1 DEF Walks, Connected
  <2>5. Mirrors(pass[q])'
    BY <1>1, <1>3, <2>1 DEF Fits, Mirrors
  <2> QED
    BY <2>2, <2>3, <2>4, <2>5 DEF Fits
<1>8. Alike'
  BY <1>1, <1>3 DEF Inv, Alike, UnderWay, At
<1>9. Whole'
  BY <1>1, <1>2 DEF Inv, Whole, HeldBy
<1> QED
  BY <1>5, <1>6, <1>7, <1>8, <1>9 DEF Inv

(* Files come and go beside all of it.                                     *)
LEMMA RestKeeps ==
  ASSUME Inv, (\E m \in Modules : Change(m)) \/ UNCHANGED vars
  PROVE  Inv'
<1>1. UNCHANGED <<modules, samples, objects, record, sharing, alone, pass, mixed, walkCut, passes, restarts>>
  BY DEF Change, vars, stores, locks, history, bounds
<1>2. files' \subseteq Modules /\ changes' \in Nat
  BY DEF Change, vars, bounds, Inv, TypeOK
<1>3. TypeOK' /\ Locks' /\ Alike' /\ Whole'
  BY <1>1, <1>2 DEF Inv, TypeOK, Locks, Alike, UnderWay, At, Whole, HeldBy
<1>4. \A q \in Processes : Fits(pass[q])'
  BY <1>1 DEF Inv, Fits, Shape, Lands, Walks, Mirrors
<1> QED
  BY <1>3, <1>4 DEF Inv

(* A library with nothing in it keeps the invariant.                       *)
LEMMA InvInit == Init => Inv
<1> SUFFICES ASSUME Init
             PROVE  Inv
  OBVIOUS
<1> USE DEF Init
<1>1. \A p \in Processes : pass[p] = Idle /\ Idle.pc = "idle" /\ Idle.cut = FALSE
  BY DEF Idle
<1>2. TypeOK
  BY IdleFits DEF TypeOK
<1>3. Locks
  BY <1>1, NoneAssumption DEF Locks, Sharers, Landing, Pruners
<1>4. \A p \in Processes : Fits(pass[p])
  BY <1>1, IdleFits
<1>5. Alike
  BY <1>1 DEF Alike, UnderWay, At
<1>6. Whole
  BY DEF Whole, HeldBy
<1> QED
  BY <1>2, <1>3, <1>4, <1>5, <1>6 DEF Inv

(* Every step keeps it.                                                    *)
LEMMA InvStep == Inv /\ [Next]_vars => Inv'
<1> SUFFICES ASSUME Inv, [Next]_vars
             PROVE  Inv'
  OBVIOUS
<1>1. ASSUME NEW p \in Processes,
             \/ List(p) \/ Look(p) \/ Forget(p) \/ Share(p)
             \/ \E m \in Modules : ReadFile(p, m)
             \/ InsertModule(p) \/ UpsertSample(p) \/ WriteObject(p) \/ Commit(p) \/ Covered(p)
      PROVE  Inv'
  BY <1>1, ListKeeps, LookKeeps, ForgetKeeps, ShareKeeps, ReadFileKeeps, InsertModuleKeeps,
     UpsertSampleKeeps, WriteObjectKeeps, CommitKeeps, CoveredKeeps
<1>2. ASSUME NEW p \in Processes,
             \/ FindGone(p) \/ Claim(p) \/ RemoveGone(p) \/ ReadNames(p)
             \/ \E s \in Samples : Visit(p, s)
             \/ Pruned(p) \/ Relist(p) \/ Record(p)
             \/ Kill(p) \/ Fail(p)
      PROVE  Inv'
  BY <1>2, FindGoneKeeps, ClaimKeeps, RemoveGoneKeeps, ReadNamesKeeps, VisitKeeps, PrunedKeeps,
     RelistKeeps, RecordKeeps, EndsKeep
<1>3. CASE (\E m \in Modules : Change(m)) \/ UNCHANGED vars
  BY <1>3, RestKeeps
<1>4. CASE Restart
  BY <1>4, RestartKeeps
<1> QED
  BY <1>1, <1>2, <1>3, <1>4 DEF Next

-----------------------------------------------------------------------------
(* The inductive invariant holds in every state: types, who holds the      *)
(* extraction lock, and what each pass may rely on in the stores while     *)
(* others add, prune, are killed and lose the database (run.py, ingest.py, *)
(* prune.py).                                                              *)
THEOREM Invariant == Spec => []Inv
BY InvInit, InvStep, PTL DEF Spec

(* The catalog holds exactly the samples its modules hold, for any modules *)
(* that share any samples: ingest_module commits a module whole, and       *)
(* prune_modules takes no sample that is still held (prune.py,             *)
(* _orphaned_sample_hashes).                                               *)
THEOREM SamplesAreAlwaysHeld == Spec => []SamplesAreHeld
<1>1. Inv => SamplesAreHeld
  BY DEF Inv, Whole, SamplesAreHeld
<1> QED
  BY <1>1, Invariant, PTL

(* Every cataloged sample keeps its audio unless the database restarted    *)
(* under a prune's walk: no walk and no open transaction are beside each   *)
(* other (prune.py, _remove_unnamed_objects; ingest.py, _store_content).   *)
THEOREM ObjectsAlwaysStand == Spec => []ObjectsStandUnlessCut
<1>1. Inv => ObjectsStandUnlessCut
  BY DEF Inv, Whole, ObjectsStandUnlessCut, ObjectsStand
<1> QED
  BY <1>1, Invariant, PTL

(* A record stands only for a catalog that mirrors the recorded            *)
(* collection, unless passes over different listings ran beside each other *)
(* (cli.py, _goes_ahead and _record_the_complete_pass).                    *)
THEOREM RecordIsAlwaysTrue == Spec => []RecordIsTrue
<1>1. Inv => RecordIsTrue
  BY DEF Inv, Whole, RecordIsTrue
<1> QED
  BY <1>1, Invariant, PTL

(* Passes never wait in a circle. Whom another waits for and who waits     *)
(* itself is storing, and what it waits for comes after what it has        *)
(* inserted; so the one that waits for the greatest sample of them waits   *)
(* for none of them (ingest.py, _distinct_samples sorts by hash).          *)
THEOREM NobodyWaitsInACircle == Spec => []NoCircle
<1>1. ASSUME Inv, NEW ring \in SUBSET Processes, ring # {},
             \A p \in ring : \E q \in ring : WaitsFor(p, q)
      PROVE  FALSE
  <2> DEFINE Stuck == {p \in ring : pass[p].pc = "storing" /\ pass[p].left # {}}
             Wanted == {First(p) : p \in Stuck}
  <2>1. ASSUME NEW p \in Stuck
        PROVE  /\ First(p) \in pass[p].left /\ First(p) \in Samples
               /\ \A y \in pass[p].left : First(p) <= y
    <3>1. pass[p].left \subseteq Samples /\ pass[p].left # {}
      BY <1>1 DEF Inv, TypeOK, Pass
    <3> QED
      BY <3>1, MinIsLeast DEF First
  <2>2. ASSUME NEW p \in ring, NEW q \in ring, WaitsFor(p, q)
        PROVE  q \in Stuck
    <3>1. PICK o \in ring : WaitsFor(q, o)
      BY <1>1
    <3>2. pass[q].pc \in {"waiting", "inserting", "storing"} /\ ~ pass[q].cut
      BY <3>1 DEF WaitsFor, Asking, At
    <3>3. alone # q
      BY <1>1, <3>2 DEF Inv, Locks, Pruners
    <3>4. InTransaction(q)
      BY <2>2, <3>3 DEF WaitsFor, InsertsModule, InsertsSample
    <3> QED
      BY <3>1, <3>2, <3>4 DEF InTransaction, WaitsFor, Asking, At
  <2>3. Stuck # {}
    BY <1>1, <2>2
  <2>4. PICK w \in Wanted : \A v \in Wanted : v <= w
    <3>1. Wanted \subseteq Samples /\ Wanted # {}
      BY <2>1, <2>3
    <3> HIDE DEF Wanted
    <3> QED
      BY <3>1, GreatestSample
  <2>5. PICK p \in Stuck : w = First(p)
    BY <2>4
  <2>6. PICK q \in ring : WaitsFor(p, q)
    BY <1>1
  <2>7. q \in Stuck
    BY <2>2, <2>5, <2>6
  <2>8. First(p) \in pass[q].pending
    BY <2>5, <2>6 DEF WaitsFor, Asking, At, InsertsSample
  <2>9. First(p) < First(q)
    <3>1. \A x \in pass[q].pending, y \in pass[q].left : x < y \/ (x = y /\ pass[q].pc = "placing")
      BY <1>1 DEF Inv, Fits, Shape
    <3>2. pass[q].pc = "storing" /\ First(q) \in pass[q].left
      BY <2>1, <2>7
    <3> QED
      BY <2>8, <3>1, <3>2
  <2>10. First(q) <= First(p)
    BY <2>4, <2>5, <2>7
  <2>11. First(p) \in Nat /\ First(q) \in Nat
    BY <2>1, <2>7, SlotsAssumption DEF Samples
  <2> QED
    BY <2>9, <2>10, <2>11
<1>2. ASSUME Inv, NEW ring \in (SUBSET Processes) \ {{}}
      PROVE  \E p \in ring : \A q \in ring : ~ WaitsFor(p, q)
  BY <1>1, <1>2
<1>3. Inv => NoCircle
  BY <1>2 DEF NoCircle
<1> QED
  BY <1>3, Invariant, PTL

(* A pass comes to list the collection again only when its walk is over.   *)
LEMMA OnlyWalksRelist ==
  ASSUME Inv, [Next]_vars, NEW p \in Processes,
         pass'[p].pc = "relisting", pass[p].pc # "relisting"
  PROVE  Pruned(p)
<1>1. pass \in [Processes -> Pass] /\ \A o \in Processes : pass[o] \in Pass
  BY DEF Inv, TypeOK
<1>2. ASSUME NEW o \in Processes, NEW r, r.pc \in Places \ {"relisting"}, Becomes(o, r)
      PROVE  FALSE
  BY <1>1, <1>2 DEF Becomes
<1>3. ASSUME NEW o \in Processes, NEW place \in Places \ {"relisting"}, Goto(o, place)
      PROVE  FALSE
  <2>1. [pass[o] EXCEPT !.pc = place].pc = place
    BY <1>1 DEF Pass
  <2> QED
    BY <1>2, <1>3, <2>1 DEF Goto
<1>4. ASSUME NEW o \in Processes, Leave(o)
      PROVE  FALSE
  BY <1>2, <1>4 DEF Leave, Idle, Places
<1>5. ASSUME NEW o \in Processes, Look(o) \/ Forget(o) \/ Share(o) \/ Claim(o) \/ RemoveGone(o) \/ Relist(o)
      PROVE  FALSE
  BY <1>3, <1>4, <1>5 DEF Look, Forget, Share, Claim, RemoveGone, Relist, Places
<1>6. ASSUME NEW o \in Processes, Record(o) \/ Kill(o) \/ Fail(o)
      PROVE  FALSE
  BY <1>4, <1>6 DEF Record, Kill, Fail
<1>7. ASSUME NEW o \in Processes, List(o)
      PROVE  FALSE
  <2>1. PICK prune \in BOOLEAN :
          Becomes(o, [Idle EXCEPT !.pc = "listed", !.prune = prune, !.listed = files, !.todo = files])
    BY <1>7 DEF List
  <2>2. [Idle EXCEPT !.pc = "listed", !.prune = prune, !.listed = files, !.todo = files].pc = "listed"
    BY DEF Idle
  <2> QED
    BY <1>2, <2>1, <2>2 DEF Places
<1>8. ASSUME NEW o \in Processes, NEW m, ReadFile(o, m)
      PROVE  FALSE
  <2>1. PICK rest : rest = [pass[o] EXCEPT !.todo = @ \ {m}]
    OBVIOUS
  <2>2. /\ rest.pc = "covering" /\ [rest EXCEPT !.failed = TRUE].pc = "covering"
        /\ [rest EXCEPT !.pc = "inserting", !.now = m].pc = "inserting"
    BY <1>1, <1>8, <2>1 DEF ReadFile, Asking, At, Pass
  <2>3. \/ Becomes(o, [rest EXCEPT !.failed = TRUE])
        \/ Becomes(o, rest)
        \/ Becomes(o, [rest EXCEPT !.pc = "inserting", !.now = m])
    BY <1>8, <2>1 DEF ReadFile
  <2> QED
    BY <1>2, <2>2, <2>3 DEF Places
<1>9. ASSUME NEW o \in Processes, InsertModule(o) \/ Commit(o)
      PROVE  FALSE
  <2>1. /\ [pass[o] EXCEPT !.pc = "covering", !.now = None].pc = "covering"
        /\ [pass[o] EXCEPT !.pc = "storing", !.left = SamplesOf(pass[o].now)].pc = "storing"
        /\ [pass[o] EXCEPT !.pc = "covering", !.now = None, !.pending = {}].pc = "covering"
    BY <1>1 DEF Pass
  <2> QED
    BY <1>2, <1>9, <2>1 DEF InsertModule, Commit, Places
<1>10. ASSUME NEW o \in Processes, UpsertSample(o) \/ WriteObject(o)
       PROVE  FALSE
  <2>1. /\ [pass[o] EXCEPT !.pc = "placing", !.pending = @ \cup ({First(o)} \ samples)].pc = "placing"
        /\ [pass[o] EXCEPT !.pc = "storing", !.left = @ \ {First(o)}].pc = "storing"
    BY <1>1 DEF Pass
  <2> QED
    BY <1>2, <1>10, <2>1 DEF UpsertSample, WriteObject, Places
<1>11. ASSUME NEW o \in Processes, Covered(o) \/ FindGone(o)
       PROVE  FALSE
  <2>1. /\ [pass[o] EXCEPT !.pc = "covered", !.cut = FALSE].pc = "covered"
        /\ [pass[o] EXCEPT !.pc = "claiming", !.gone = modules \ pass[o].listed].pc = "claiming"
    BY <1>1 DEF Pass
  <2> QED
    BY <1>2, <1>4, <1>11, <2>1 DEF Covered, FindGone, Places
<1>12. ASSUME NEW o \in Processes, NEW s, ReadNames(o) \/ Visit(o, s)
       PROVE  FALSE
  <2>1. /\ [pass[o] EXCEPT !.pc = "unlinking", !.names = samples, !.unseen = Samples].pc = "unlinking"
        /\ [pass[o] EXCEPT !.unseen = @ \ {s}].pc = pass[o].pc
    BY <1>1 DEF Pass
  <2>2. Visit(o, s) => pass[o].pc = "unlinking"
    BY DEF Visit, At
  <2> QED
    BY <1>2, <1>12, <2>1, <2>2 DEF ReadNames, Visit, Places
<1>13. ASSUME NEW o \in Processes, Pruned(o)
       PROVE  Pruned(p)
  BY <1>1, <1>13 DEF Pruned, Becomes
<1>14. ~ Restart
  <2>1. ASSUME Restart
        PROVE  pass'[p].pc = pass[p].pc
    BY <1>1, <2>1 DEF Restart, Pass
  <2> QED
    BY <2>1
<1>15. ~ (\E m \in Modules : Change(m)) /\ ~ UNCHANGED vars
  BY DEF Change, vars
<1> QED
  BY <1>5, <1>6, <1>7, <1>8, <1>9, <1>10, <1>11, <1>12, <1>13, <1>14, <1>15 DEF Next

(* A prune that ends its walk leaves no object the catalog does not name,  *)
(* whatever passes and prunes killed before it left behind (prune.py,      *)
(* _remove_unnamed_objects).                                               *)
THEOREM NothingIsLeftOver == Spec => PruneLeavesNothing
<1>1. ASSUME Inv, [Next]_vars, restarts = 0, NEW p \in Processes,
             pass'[p].pc = "relisting", pass[p].pc # "relisting"
      PROVE  objects' \subseteq samples'
  <2>1. Pruned(p)
    BY <1>1, OnlyWalksRelist
  <2>2. pass[p].pc = "unlinking" /\ pass[p].unseen = {} /\ Fits(pass[p])
    BY <1>1, <2>1 DEF Pruned, At, Inv
  <2>3. objects \subseteq samples
    BY <1>1, <2>2 DEF Fits, Walks
  <2> QED
    BY <2>1, <2>3 DEF Pruned, stores
<1>2. Inv /\ [Next]_vars =>
        (restarts = 0 =>
           \A p \in Processes :
             At(p, "relisting")' /\ ~ At(p, "relisting") => objects' \subseteq samples')
  BY <1>1 DEF At
<1> QED
  BY <1>2, Invariant, PTL DEF Spec, PruneLeavesNothing
=============================================================================
