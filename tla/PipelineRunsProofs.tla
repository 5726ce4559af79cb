------------------------- MODULE PipelineRunsProofs -------------------------
(***************************************************************************)
(* Theorems about PipelineRuns, for every graph, every set of runs and     *)
(* requests and every bound on restarts and interrupts; and about the      *)
(* loops their graph is read by, at the end.                               *)
(***************************************************************************)
EXTENDS PipelineRuns, FiniteSetTheorems, WellFoundedInduction, TLAPS

-----------------------------------------------------------------------------
(* Typing, one lemma per piece the actions are made of.                    *)

(* Only runs, processes and locks the code has are there at the start.     *)
LEMMA TypeInit == Init => TypeOK
<1> SUFFICES ASSUME Init PROVE TypeOK
  OBVIOUS
<1>1. NoChild \in Children
  BY DEF NoChild, Children
<1>2. /\ "new" \in Places
      /\ "none" \in Verdicts
      /\ "none" \in RunOutcomes
      /\ 0 \in 0..RestartLimit
      /\ 0 \in 0..InterruptLimit
  BY LimitsAssumption DEF Places, Verdicts, RunOutcomes
<1> QED
  BY <1>1, <1>2 DEF Init, TypeOK

(* Naming the unreached steps leaves an account of verdicts.               *)
LEMMA TypeUnreached ==
  ASSUME NEW given \in [Steps -> Verdicts], NEW steps
  PROVE  WithUnreached(given, steps) \in [Steps -> Verdicts]
BY DEF WithUnreached, Verdicts

(* Ending a run leaves its outcome, its place and the lock well typed.     *)
LEMMA TypeEnd ==
  ASSUME TypeOK, NEW r \in Runs, NEW how \in RunOutcomes, End(r, how)
  PROVE  /\ pc' \in [Runs -> Places]
         /\ outcome' \in [Runs -> RunOutcomes]
         /\ pipelineLock' \in Runs \cup {NoRun}
BY DEF TypeOK, End, Goto, Places

(* So does a verdict that lets a run go on...                              *)
LEMMA TypeSettle ==
  ASSUME TypeOK, NEW r \in Runs, NEW s \in left[r], NEW how \in Verdicts, Settle(r, s, how)
  PROVE  /\ pc' \in [Runs -> Places]
         /\ verdict' \in [Runs -> [Steps -> Verdicts]]
         /\ left' \in [Runs -> SUBSET AllSteps]
         /\ outcome' \in [Runs -> RunOutcomes]
         /\ pipelineLock' \in Runs \cup {NoRun}
BY DEF TypeOK, Settle, Goto, Reached, Places

(* ...and one that stops it.                                               *)
LEMMA TypeStop ==
  ASSUME TypeOK, NEW r \in Runs, NEW s, NEW how \in Verdicts, Stop(r, s, how)
  PROVE  /\ pc' \in [Runs -> Places]
         /\ verdict' \in [Runs -> [Steps -> Verdicts]]
         /\ left' \in [Runs -> SUBSET AllSteps]
         /\ outcome' \in [Runs -> RunOutcomes]
         /\ pipelineLock' \in Runs \cup {NoRun}
<1>1. [verdict[r] EXCEPT ![s] = how] \in [Steps -> Verdicts]
  BY DEF TypeOK
<1>2. WithUnreached([verdict[r] EXCEPT ![s] = how], left[r] \ {s}) \in [Steps -> Verdicts]
  BY <1>1, TypeUnreached
<1>3. verdict' \in [Runs -> [Steps -> Verdicts]] /\ left' \in [Runs -> SUBSET AllSteps]
  BY <1>2 DEF TypeOK, Stop, Reached
<1> QED
  BY <1>3, TypeEnd DEF Stop, RunOutcomes

(* A run that dies forgets what it held in memory.                         *)
LEMMA TypeVanish ==
  ASSUME TypeOK, NEW r \in Runs, Vanish(r)
  PROVE  /\ pc' \in [Runs -> Places]
         /\ left' \in [Runs -> SUBSET AllSteps]
         /\ busy' \in [Runs -> SUBSET AllSteps]
         /\ interrupts' \in [Runs -> 0..InterruptLimit]
BY LimitsAssumption DEF TypeOK, Vanish, Goto, Places

(* A process starts for a step the graph holds, or for the reset.          *)
LEMMA TypeSpawn ==
  ASSUME TypeOK, NEW r \in Runs, NEW s \in AllSteps, Spawn(r, s)
  PROVE  /\ pc' \in [Runs -> Places]
         /\ child' \in [Runs -> Children]
         /\ stepLock' \in [AllSteps -> Runs \cup {NoRun}]
<1>1. \A at \in {"starting", "working", "exited"}, status \in {"none", "refused"} :
        [step |-> s, at |-> at, status |-> status] \in Children
  BY DEF Children, Statuses
<1>2. child' \in [Runs -> Children]
  BY <1>1 DEF TypeOK, Spawn
<1>3. pc' \in [Runs -> Places] /\ stepLock' \in [AllSteps -> Runs \cup {NoRun}]
  BY DEF TypeOK, Spawn, Goto, Places
<1> QED
  BY <1>2, <1>3

(* A process ends with a status and lets go of its lock.                   *)
LEMMA TypeExited ==
  ASSUME TypeOK, NEW r \in Runs, NEW status \in Statuses, Exited(r, status)
  PROVE  /\ child' \in [Runs -> Children]
         /\ stepLock' \in [AllSteps -> Runs \cup {NoRun}]
<1>1. [child[r] EXCEPT !.at = "exited", !.status = status] \in Children
  BY DEF Children, TypeOK
<1> QED
  BY <1>1 DEF Exited, TypeOK

(* A process moves on in its work.                                         *)
LEMMA TypeChildAt ==
  ASSUME TypeOK, NEW r \in Runs, NEW at \in {"working", "finished"}, ChildAt(r, at)
  PROVE  child' \in [Runs -> Children]
<1>1. [child[r] EXCEPT !.at = at] \in Children
  BY DEF Children, TypeOK
<1> QED
  BY <1>1 DEF ChildAt, TypeOK

(* What a run was asked for lies within the graph.                         *)
LEMMA RequestsLieInTheGraph ==
  ASSUME TypeOK, NEW r \in Runs
  PROVE  /\ request[r].targets \subseteq Steps
         /\ request[r].redo \subseteq Steps
         /\ Steps \subseteq AllSteps
         /\ Files \subseteq Steps
BY RequestsAssumption, KindsAssumption, StepsAssumption DEF TypeOK, Steps, AllSteps

(* A set of steps kept for each run stays one when a step joins it...      *)
LEMMA SetsOfStepsGrow ==
  ASSUME NEW f \in [Runs -> SUBSET AllSteps], NEW r \in Runs, NEW s \in AllSteps
  PROVE  [f EXCEPT ![r] = @ \cup {s}] \in [Runs -> SUBSET AllSteps]
OBVIOUS

(* ...and when one leaves it.                                              *)
LEMMA SetsOfStepsShrink ==
  ASSUME NEW f \in [Runs -> SUBSET AllSteps], NEW r \in Runs, NEW s
  PROVE  [f EXCEPT ![r] = @ \ {s}] \in [Runs -> SUBSET AllSteps]
OBVIOUS

(* Every step of a run leaves the state well typed.                        *)
LEMMA TypeRunStep ==
  ASSUME TypeOK, NEW r \in Runs, RunStep(r) PROVE TypeOK'
<1>0. /\ request[r].targets \subseteq AllSteps
      /\ request[r].redo \subseteq AllSteps
      /\ Files \subseteq AllSteps
      /\ left[r] \subseteq AllSteps
  BY RequestsLieInTheGraph DEF TypeOK
<1> USE <1>0 DEF TypeOK, lockVars, libraryVars
<1>1. CASE Start(r)
  <2>1. pc' \in [Runs -> Places] /\ outcome' \in [Runs -> RunOutcomes]
        /\ pipelineLock' \in Runs \cup {NoRun}
    BY <1>1, TypeEnd DEF Start, Goto, Places, RunOutcomes
  <2> QED
    BY <1>1, <2>1 DEF Start
<1>2. CASE Screen(r)
  <2>1. pc' \in [Runs -> Places] /\ outcome' \in [Runs -> RunOutcomes]
        /\ pipelineLock' \in Runs \cup {NoRun}
    BY <1>2, TypeEnd DEF Screen, Goto, Places, RunOutcomes
  <2>2. left' \in [Runs -> SUBSET AllSteps]
    BY <1>2 DEF Screen
  <2> QED
    BY <1>2, <2>1, <2>2 DEF Screen
<1>3. CASE RecordIntent(r)
  BY <1>3 DEF RecordIntent, Goto, Places
<1>4. CASE StartReset(r)
  <2>1. Reset \in AllSteps
    BY StepsAssumption DEF Reset, AllSteps
  <2> QED
    BY <1>4, <2>1, TypeSpawn DEF StartReset
<1>5. CASE ClearIntent(r)
  BY <1>5 DEF ClearIntent, Goto, Places
<1>6. CASE BeginTaking(r)
  <2>1. left' \in [Runs -> SUBSET AllSteps]
    BY <1>6 DEF BeginTaking
  <2>2. pc' \in [Runs -> Places]
    BY <1>6 DEF BeginTaking, Goto, Places
  <2> QED
    BY <1>6, <2>1, <2>2 DEF BeginTaking
<1>7. CASE Take(r)
  <2>1. pc' \in [Runs -> Places] /\ outcome' \in [Runs -> RunOutcomes]
        /\ pipelineLock' \in Runs \cup {NoRun}
    BY <1>7, TypeEnd DEF Take, Goto, Places, RunOutcomes
  <2>2. WithUnreached(verdict[r], left[r]) \in [Steps -> Verdicts]
    BY TypeUnreached
  <2>3. verdict' \in [Runs -> [Steps -> Verdicts]]
    BY <1>7, <2>2 DEF Take
  <2>4. left' \in [Runs -> SUBSET AllSteps]
    BY <1>7 DEF Take
  <2> QED
    BY <1>7, <2>1, <2>3, <2>4 DEF Take
<1>8. CASE Reap(r)
  <2>1. OutcomeOf(child[r].status, interrupts[r] > 0) \in AttemptOutcomes \cup {"none"}
    BY DEF OutcomeOf, AttemptOutcomes, Statuses, Children
  <2>2. attempt' \in [Runs -> AttemptOutcomes \cup {"none"}]
    BY <1>8, <2>1 DEF Reap
  <2>3. NoChild \in Children
    BY DEF NoChild, Children
  <2>4. child' \in [Runs -> Children] /\ interrupts' \in [Runs -> 0..InterruptLimit]
    BY <1>8, <2>3, LimitsAssumption DEF Reap
  <2>5. \/ Stop(r, child[r].step, "ran")
        \/ End(r, "stopped") /\ UNCHANGED <<verdict, left>>
        \/ /\ UNCHANGED <<verdict, outcome, pipelineLock>>
           /\ left' \in [Runs -> SUBSET AllSteps]
           /\ \E place \in Places : Goto(r, place)
    <3>1. Files \subseteq AllSteps /\ {"sweeping", "binding"} \subseteq Places
      BY DEF Places
    <3>2. ASSUME left' = [left EXCEPT ![r] = Files] PROVE left' \in [Runs -> SUBSET AllSteps]
      BY <3>1, <3>2
    <3> QED
      BY <1>8, <3>1, <3>2 DEF Reap
  <2>6. /\ verdict' \in [Runs -> [Steps -> Verdicts]]
        /\ left' \in [Runs -> SUBSET AllSteps]
        /\ pc' \in [Runs -> Places]
        /\ outcome' \in [Runs -> RunOutcomes]
        /\ pipelineLock' \in Runs \cup {NoRun}
    BY <2>5, TypeStop, TypeEnd DEF Verdicts, RunOutcomes, Goto
  <2> QED
    BY <1>8, <2>2, <2>4, <2>6 DEF Reap
<1>9. CASE LoseCatalog(r)
  BY <1>9, TypeVanish DEF LoseCatalog
<1>10. ASSUME NEW s \in left[r], Probe(r, s) PROVE TypeOK'
  <2>1. /\ stepLock' = stepLock \/ stepLock' = [stepLock EXCEPT ![s] = r]
        /\ busy' = busy \/ busy' = [busy EXCEPT ![r] = @ \cup {s}]
        /\ left' = left \/ left' = [left EXCEPT ![r] = @ \ {s}]
        /\ pc' = pc \/ pc' = [pc EXCEPT ![r] = "probe"]
    BY <1>10 DEF Probe, Goto, Reached
  <2>2. stepLock' \in [AllSteps -> Runs \cup {NoRun}]
    BY <2>1
  <2>0. s \in AllSteps
    OBVIOUS
  <2>3. busy' \in [Runs -> SUBSET AllSteps]
    <3>1. busy \in [Runs -> SUBSET AllSteps]
      OBVIOUS
    <3>2. [busy EXCEPT ![r] = @ \cup {s}] \in [Runs -> SUBSET AllSteps]
      BY ONLY <2>0, <3>1, r \in Runs, SetsOfStepsGrow
    <3> QED
      BY ONLY <2>1, <3>1, <3>2
  <2>4. left' \in [Runs -> SUBSET AllSteps]
    <3>1. left \in [Runs -> SUBSET AllSteps]
      OBVIOUS
    <3>2. [left EXCEPT ![r] = @ \ {s}] \in [Runs -> SUBSET AllSteps]
      BY ONLY <3>1, r \in Runs, SetsOfStepsShrink
    <3> QED
      BY ONLY <2>1, <3>1, <3>2
  <2>5. pc' \in [Runs -> Places]
    BY <2>1 DEF Places
  <2> QED
    BY <1>10, <2>2, <2>3, <2>4, <2>5 DEF Probe
<1>11. ASSUME NEW s \in left[r], Unprobe(r, s) PROVE TypeOK'
  BY <1>11 DEF Unprobe, Released, Goto, Reached, Places
<1>12. ASSUME NEW s \in left[r], Sweep(r, s) PROVE TypeOK'
  BY <1>12 DEF Sweep, Reached, Outputs
<1>13. ASSUME NEW s \in left[r], Forget(r, s) PROVE TypeOK'
  BY <1>13 DEF Forget, Reached, Outputs
<1>14. ASSUME NEW s \in left[r], Decide(r, s) PROVE TypeOK'
  <2>1. /\ verdict' \in [Runs -> [Steps -> Verdicts]]
        /\ left' \in [Runs -> SUBSET AllSteps]
        /\ pc' \in [Runs -> Places]
        /\ outcome' \in [Runs -> RunOutcomes]
        /\ pipelineLock' \in Runs \cup {NoRun}
    BY <1>14, TypeStop, TypeSettle DEF Decide, Goto, Places, Verdicts
  <2> QED
    BY <1>14, <2>1 DEF Decide
<1>15. ASSUME NEW s \in left[r], Reseal(r, s) PROVE TypeOK'
  <2>1. /\ verdict' \in [Runs -> [Steps -> Verdicts]]
        /\ left' \in [Runs -> SUBSET AllSteps]
        /\ pc' \in [Runs -> Places]
        /\ outcome' \in [Runs -> RunOutcomes]
        /\ pipelineLock' \in Runs \cup {NoRun}
    BY <1>15, TypeStop, TypeSettle DEF Reseal, Verdicts
  <2>2. output' \in [Steps -> Outputs]
    BY <1>15 DEF Reseal, Outputs
  <2> QED
    BY <1>15, <2>1, <2>2 DEF Reseal
<1>16. ASSUME NEW s \in left[r], StartStep(r, s) PROVE TypeOK'
  BY <1>16, TypeSpawn DEF StartStep
<1>17. ASSUME NEW s \in left[r], Bind(r, s) PROVE TypeOK'
  <2>1. /\ verdict' \in [Runs -> [Steps -> Verdicts]]
        /\ left' \in [Runs -> SUBSET AllSteps]
        /\ pc' \in [Runs -> Places]
        /\ outcome' \in [Runs -> RunOutcomes]
        /\ pipelineLock' \in Runs \cup {NoRun}
    BY <1>17, TypeStop, TypeSettle DEF Bind, Verdicts
  <2>2. output' \in [Steps -> Outputs] /\ attempt' \in [Runs -> AttemptOutcomes \cup {"none"}]
    BY <1>17 DEF Bind, Outputs, AttemptOutcomes
  <2> QED
    BY <1>17, <2>1, <2>2 DEF Bind
<1> QED
  BY <1>1, <1>2, <1>3, <1>4, <1>5, <1>6, <1>7, <1>8, <1>9, <1>10, <1>11, <1>12, <1>13,
     <1>14, <1>15, <1>16, <1>17 DEF RunStep

(* Every step of a step's process leaves the state well typed.             *)
LEMMA TypeChildStep ==
  ASSUME TypeOK, NEW r \in Runs, ChildStep(r) PROVE TypeOK'
<1> USE DEF TypeOK, lockVars, libraryVars, runVars
<1>1. CASE TakeStepLock(r)
  <2>1. child' \in [Runs -> Children] /\ stepLock' \in [AllSteps -> Runs \cup {NoRun}]
    BY <1>1, TypeExited, TypeChildAt DEF TakeStepLock, Statuses
  <2> QED
    BY <1>1, <2>1 DEF TakeStepLock
<1>2. CASE EmptyCatalog(r)
  <2>1. child' \in [Runs -> Children]
    BY <1>2, TypeChildAt DEF EmptyCatalog
  <2>2. output' \in [Steps -> Outputs]
    BY <1>2 DEF EmptyCatalog, Outputs
  <2> QED
    BY <1>2, <2>1, <2>2 DEF EmptyCatalog
<1>3. CASE Produce(r)
  <2>1. child' \in [Runs -> Children]
    BY <1>3, TypeChildAt DEF Produce
  <2>2. output' \in [Steps -> Outputs]
    BY <1>3 DEF Produce, Outputs
  <2> QED
    BY <1>3, <2>1, <2>2 DEF Produce
<1>4. CASE Exit(r)
  BY <1>4, TypeExited DEF Exit
<1>5. CASE Killed(r)
  BY <1>5, TypeExited DEF Killed, Statuses
<1> QED
  BY <1>1, <1>2, <1>3, <1>4, <1>5 DEF ChildStep

(* Every step of the system leaves the state well typed.                   *)
LEMMA TypeNext == TypeOK /\ [Next]_vars => TypeOK'
<1> SUFFICES ASSUME TypeOK, [Next]_vars PROVE TypeOK'
  OBVIOUS
<1>1. ASSUME NEW r \in Runs, RunStep(r) PROVE TypeOK'
  BY <1>1, TypeRunStep
<1>2. ASSUME NEW r \in Runs, ChildStep(r) PROVE TypeOK'
  BY <1>2, TypeChildStep
<1>3. ASSUME NEW r \in Runs, Interrupt(r) PROVE TypeOK'
  BY <1>3, LimitsAssumption DEF Interrupt, TypeOK, lockVars, libraryVars
<1>4. ASSUME NEW r \in Runs, Die(r) PROVE TypeOK'
  BY <1>4, TypeVanish DEF Die, TypeOK, libraryVars
<1>5. CASE Restart
  BY <1>5, LimitsAssumption DEF Restart, TypeOK, libraryVars, runVars
<1>6. CASE UNCHANGED vars
  BY <1>6 DEF TypeOK, vars
<1> QED
  BY <1>1, <1>2, <1>3, <1>4, <1>5, <1>6 DEF Next, Quiet

(* The state is well typed: no handler leaves a run, a process or a lock   *)
(* outside the values the code gives them.                                 *)
THEOREM TypeCorrect == Spec => []TypeOK
<1>1. Init => TypeOK
  BY TypeInit
<1>2. TypeOK /\ [Next]_vars => TypeOK'
  BY TypeNext
<1> QED
  BY <1>1, <1>2, PTL DEF Spec

-----------------------------------------------------------------------------
(* What the locks keep apart until the database server restarts, whichever *)
(* runs and processes die and when: one run acts, and one process works on *)
(* a step.                                                                 *)

(* The library's lock is exactly what makes a run act.                     *)
LibraryLockInv == \A r \in Runs : Acting(r) <=> pipelineLock = r

(* Who works on a step, or probes it, holds its lock...                    *)
WorkerHoldsInv ==
  \A r \in Runs : HoldsItsStep(r) => stepLock[child[r].step] = r
ProbeHoldsInv ==
  \A r \in Runs : \A s \in left[r] :
    pc[r] = "probe" /\ First(r, s) => stepLock[s] = r

(* ...and nobody else does.                                                *)
HolderInv ==
  \A s \in AllSteps : stepLock[s] # NoRun =>
    \/ HoldsItsStep(stepLock[s]) /\ child[stepLock[s]].step = s
    \/ pc[stepLock[s]] = "probe" /\ First(stepLock[s], s)

(* Only a run that waits, or died waiting, has a process of its own.       *)
ChildInv ==
  \A r \in Runs :
    /\ pc[r] \notin {"waiting", "dead"} => child[r].at = "none"
    /\ child[r].at # "none" => child[r].step \in AllSteps

LockInv ==
  /\ LibraryLockInv
  /\ WorkerHoldsInv
  /\ ProbeHoldsInv
  /\ HolderInv
  /\ ChildInv

-----------------------------------------------------------------------------
(* Nothing is locked and nothing runs at the start.                        *)
LEMMA LockInit == Init => LockInv
<1> SUFFICES ASSUME Init PROVE LockInv
  OBVIOUS
<1>1. LibraryLockInv
  BY RunsAssumption DEF Init, LibraryLockInv, Acting
<1>2. WorkerHoldsInv /\ ChildInv
  BY DEF Init, WorkerHoldsInv, ChildInv, HoldsItsStep, NoChild
<1>3. ProbeHoldsInv
  BY DEF Init, ProbeHoldsInv
<1>4. HolderInv
  BY DEF Init, HolderInv
<1> QED
  BY <1>1, <1>2, <1>3, <1>4 DEF LockInv

(* What the invariant reads is all it depends on.                          *)
LEMMA LockFrame ==
  ASSUME LockInv, UNCHANGED <<pc, left, child, pipelineLock, stepLock>>
  PROVE  LockInv'
BY DEF LockInv, LibraryLockInv, WorkerHoldsInv, ProbeHoldsInv, HolderInv, ChildInv,
       Acting, HoldsItsStep, First

(* A run moves on, ends or dies without touching a step's lock. The        *)
(* process it had, if any, has exited or is left to itself.                *)
LEMMA RunMoves ==
  ASSUME TypeOK, LockInv, NEW r \in Runs, NEW place \in Places,
         Acting(r), pc[r] # "probe", place \notin {"probe", "new"},
         pc' = [pc EXCEPT ![r] = place],
         left' \in [Runs -> SUBSET AllSteps],
         \A q \in Runs \ {r} : left'[q] = left[q],
         \/ child' = child
         \/ child' = [child EXCEPT ![r] = NoChild] /\ child[r].at = "exited",
         child'[r].at = "none" \/ place \in {"waiting", "dead"},
         stepLock' = stepLock,
         pipelineLock' = IF place \in {"ended", "dead"} THEN NoRun ELSE pipelineLock
  PROVE  LockInv'
<1>1. /\ \A q \in Runs \ {r} : pc'[q] = pc[q] /\ child'[q] = child[q]
      /\ pc'[r] = place
      /\ \/ child'[r] = child[r]
         \/ child'[r] = NoChild /\ child[r].at = "exited"
  BY DEF TypeOK
<1>2. LibraryLockInv'
  BY <1>1, RunsAssumption DEF LockInv, LibraryLockInv, Acting, TypeOK
<1>3. WorkerHoldsInv'
  BY <1>1 DEF LockInv, WorkerHoldsInv, HoldsItsStep, NoChild
<1>4. ProbeHoldsInv'
  BY <1>1 DEF LockInv, ProbeHoldsInv, First
<1>5. HolderInv'
  <2> SUFFICES ASSUME NEW s \in AllSteps, stepLock[s] # NoRun
               PROVE  \/ HoldsItsStep(stepLock[s])' /\ child'[stepLock[s]].step = s
                      \/ pc'[stepLock[s]] = "probe" /\ First(stepLock[s], s)'
    BY DEF HolderInv
  <2>1. stepLock[s] \in Runs
    BY DEF TypeOK
  <2>2. CASE stepLock[s] = r
    <3>1. HoldsItsStep(r) /\ child[r].step = s
      BY <2>2 DEF LockInv, HolderInv
    <3> QED
      BY <1>1, <2>2, <3>1 DEF HoldsItsStep
  <2>3. CASE stepLock[s] # r
    BY <1>1, <2>1, <2>3 DEF LockInv, HolderInv, HoldsItsStep, First
  <2> QED
    BY <2>2, <2>3
<1>6. ChildInv'
  BY <1>1 DEF LockInv, ChildInv, NoChild
<1> QED
  BY <1>2, <1>3, <1>4, <1>5, <1>6 DEF LockInv

(* A step's process moves from nowhere to nothing, or from its start on,   *)
(* and takes or keeps the lock of its step.                                *)
LEMMA ProcessWorks ==
  ASSUME TypeOK, LockInv, NEW r \in Runs, NEW s \in AllSteps,
         pc[r] \notin {"probe", "new"},
         Acting(r)' <=> Acting(r),
         \A q \in Runs \ {r} : pc'[q] = pc[q] /\ child'[q] = child[q],
         pc'[r] \in {"waiting", "dead"},
         child'[r].step = s, child'[r].at \in {"starting", "working", "finished", "exited"},
         left' = left,
         pipelineLock' = pipelineLock,
         \/ /\ stepLock' = stepLock
            /\ ~HoldsItsStep(r)
            /\ ~HoldsItsStep(r)'
         \/ /\ stepLock' = stepLock
            /\ HoldsItsStep(r) /\ child[r].step = s
            /\ HoldsItsStep(r)'
         \/ /\ stepLock[s] = NoRun
            /\ ~HoldsItsStep(r)
            /\ stepLock' = [stepLock EXCEPT ![s] = r]
            /\ HoldsItsStep(r)'
         \/ /\ child[r].step = s
            /\ \A t \in AllSteps : stepLock'[t] = IF t = s /\ stepLock[t] = r
                                                 THEN NoRun ELSE stepLock[t]
            /\ ~HoldsItsStep(r)'
  PROVE  LockInv'
<1>0. stepLock \in [AllSteps -> Runs \cup {NoRun}] /\ NoRun \notin Runs
  BY RunsAssumption DEF TypeOK
<1>1. LibraryLockInv'
  BY DEF LockInv, LibraryLockInv, Acting
<1>2. WorkerHoldsInv'
  <2> SUFFICES ASSUME NEW q \in Runs, HoldsItsStep(q)' PROVE stepLock'[child'[q].step] = q
    BY DEF WorkerHoldsInv
  <2>1. CASE q = r
    BY <2>1 DEF LockInv, WorkerHoldsInv, HoldsItsStep, TypeOK
  <2>2. CASE q # r
    <3>1. /\ HoldsItsStep(q)
          /\ child'[q] = child[q]
          /\ child[q].step \in AllSteps
          /\ stepLock[child[q].step] = q
      BY <2>2 DEF LockInv, WorkerHoldsInv, ChildInv, HoldsItsStep
    <3> QED
      BY <2>2, <3>1, RunsAssumption DEF TypeOK
  <2> QED
    BY <2>1, <2>2
<1>3. ProbeHoldsInv'
  <2> SUFFICES ASSUME NEW q \in Runs, NEW t \in left[q], pc'[q] = "probe", First(q, t)
               PROVE  stepLock'[t] = q
    BY DEF ProbeHoldsInv, First
  <2>1. q # r /\ t \in AllSteps
    BY DEF TypeOK
  <2>2. stepLock[t] = q
    BY <2>1 DEF LockInv, ProbeHoldsInv
  <2> QED
    BY <2>1, <2>2, RunsAssumption DEF TypeOK
<1>4. HolderInv'
  <2> SUFFICES ASSUME NEW t \in AllSteps, NEW h, h = stepLock'[t], h # NoRun
               PROVE  \/ child'[h].at \in {"working", "finished"} /\ child'[h].step = t
                      \/ pc'[h] = "probe" /\ First(h, t)
    BY DEF HolderInv, First, HoldsItsStep
  <2>1. \/ h = stepLock[t]
        \/ h = r /\ t = s /\ child'[r].at \in {"working", "finished"}
    BY <1>0 DEF HoldsItsStep
  <2>2. CASE h = stepLock[t] /\ h = r
    <3>1. \/ HoldsItsStep(h) /\ child[h].step = t
          \/ pc[h] = "probe" /\ First(h, t)
      BY <2>2 DEF LockInv, HolderInv
    <3>2. HoldsItsStep(r) /\ child[r].step = t
      BY <2>2, <3>1
    <3> QED
      BY <1>0, <2>2, <3>2 DEF HoldsItsStep
  <2>3. CASE h = stepLock[t] /\ h # r
    <3>1. h \in Runs \ {r}
      BY <1>0, <2>3
    <3>2. \/ child[h].at \in {"working", "finished"} /\ child[h].step = t
          \/ pc[h] = "probe" /\ First(h, t)
      BY <2>3 DEF LockInv, HolderInv, HoldsItsStep
    <3> QED
      BY <3>1, <3>2
  <2>4. CASE h = r /\ t = s /\ child'[r].at \in {"working", "finished"}
    BY <2>4
  <2> QED
    BY <2>1, <2>2, <2>3, <2>4
<1>5. ChildInv'
  BY DEF LockInv, ChildInv
<1> QED
  BY <1>1, <1>2, <1>3, <1>4, <1>5 DEF LockInv

(* The library's lock is claimed by at most one of the runs that start.    *)
LEMMA LockStart ==
  ASSUME TypeOK, LockInv, NEW r \in Runs, Start(r) PROVE LockInv'
<1>1. /\ pc[r] = "new" /\ pipelineLock # r /\ child[r].at = "none"
      /\ \A q \in Runs \ {r} : pc'[q] = pc[q] /\ left'[q] = left[q]
      /\ UNCHANGED <<stepLock, child>>
  BY DEF Start, End, Goto, TypeOK, LockInv, LibraryLockInv, ChildInv, Acting
<1>2. \/ pc'[r] = "probing" /\ pipelineLock = NoRun /\ pipelineLock' = r
      \/ pc'[r] = "ended" /\ pipelineLock' = pipelineLock
  BY <1>1 DEF Start, LibraryFree, End, Goto, Owns, TypeOK
<1>3. LibraryLockInv'
  BY <1>1, <1>2, RunsAssumption DEF LockInv, LibraryLockInv, Acting
<1>4. WorkerHoldsInv' /\ ChildInv'
  BY <1>1, <1>2 DEF LockInv, WorkerHoldsInv, ChildInv, HoldsItsStep
<1>5. ProbeHoldsInv'
  BY <1>1, <1>2 DEF LockInv, ProbeHoldsInv, First
<1>6. HolderInv'
  <2> SUFFICES ASSUME NEW s \in AllSteps, stepLock[s] # NoRun
               PROVE  \/ HoldsItsStep(stepLock[s]) /\ child[stepLock[s]].step = s
                      \/ pc'[stepLock[s]] = "probe" /\ First(stepLock[s], s)'
    BY <1>1 DEF HolderInv, HoldsItsStep
  <2>1. stepLock[s] \in Runs
    BY DEF TypeOK
  <2> QED
    BY <1>1, <2>1 DEF LockInv, HolderInv, HoldsItsStep, First
<1> QED
  BY <1>3, <1>4, <1>5, <1>6 DEF LockInv

(* A probe takes a step's lock only where nobody holds it...               *)
LEMMA LockProbe ==
  ASSUME TypeOK, LockInv, NEW r \in Runs, NEW s \in left[r], Probe(r, s) PROVE LockInv'
<1>1. /\ pc[r] = "probing" /\ First(r, s) /\ s \in AllSteps /\ child[r].at = "none"
      /\ UNCHANGED <<pipelineLock, child>>
  BY DEF Probe, TypeOK, LockInv, ChildInv
<1>2. CASE stepLock[s] = NoRun
  <2>1. /\ stepLock' = [stepLock EXCEPT ![s] = r]
        /\ pc' = [pc EXCEPT ![r] = "probe"]
        /\ left' = left
    BY <1>2 DEF Probe, Goto
  <2>2. stepLock \in [AllSteps -> Runs \cup {NoRun}] /\ pc \in [Runs -> Places]
        /\ NoRun \notin Runs
    BY RunsAssumption DEF TypeOK
  <2>3. LibraryLockInv' /\ ChildInv'
    BY <1>1, <2>1, <2>2 DEF LockInv, LibraryLockInv, ChildInv, Acting
  <2>4. WorkerHoldsInv'
    BY <1>1, <1>2, <2>1, <2>2 DEF LockInv, WorkerHoldsInv, ChildInv, HoldsItsStep
  <2>5. ProbeHoldsInv'
    <3> SUFFICES ASSUME NEW q \in Runs, NEW t \in left[q], pc'[q] = "probe", First(q, t)
                 PROVE  stepLock'[t] = q
      BY <2>1 DEF ProbeHoldsInv, First
    <3>1. CASE q = r
      <4>1. t <= s /\ s <= t /\ t \in Int /\ s \in Int
        BY <1>1, <3>1, StepsAssumption DEF First, TypeOK, AllSteps
      <4> QED
        BY <1>1, <2>1, <2>2, <3>1, <4>1
    <3>2. CASE q # r
      <4>1. stepLock[t] = q /\ t \in AllSteps
        BY <2>1, <2>2, <3>2 DEF LockInv, ProbeHoldsInv, TypeOK
      <4> QED
        BY <1>2, <2>1, <2>2, <4>1
    <3> QED
      BY <3>1, <3>2
  <2>6. HolderInv'
    <3> SUFFICES ASSUME NEW t \in AllSteps, NEW h, h = stepLock'[t], h # NoRun
                 PROVE  \/ HoldsItsStep(h) /\ child[h].step = t
                        \/ pc'[h] = "probe" /\ First(h, t)
      BY <1>1, <2>1 DEF HolderInv, First, HoldsItsStep
    <3>1. CASE t = s
      BY <1>1, <2>1, <2>2, <3>1
    <3>2. CASE t # s
      <4>1. h = stepLock[t] /\ h \in Runs
        BY <2>1, <2>2, <3>2
      <4>2. \/ HoldsItsStep(h) /\ child[h].step = t
            \/ pc[h] = "probe" /\ First(h, t)
        BY <4>1 DEF LockInv, HolderInv
      <4> QED
        BY <2>1, <2>2, <4>1, <4>2
    <3> QED
      BY <3>1, <3>2
  <2> QED
    BY <2>3, <2>4, <2>5, <2>6 DEF LockInv
<1>3. CASE stepLock[s] # NoRun
  <2>1. /\ pc' = [pc EXCEPT ![r] = "probing"]
        /\ UNCHANGED stepLock
        /\ left' = [left EXCEPT ![r] = @ \ {s}]
    BY <1>1, <1>3 DEF Probe, Reached, TypeOK
  <2>2. left' \in [Runs -> SUBSET AllSteps] /\ \A q \in Runs \ {r} : left'[q] = left[q]
    BY <2>1 DEF TypeOK
  <2>3. "probing" \in Places /\ Acting(r)
    BY <1>1 DEF Places, Acting
  <2> QED
    BY <1>1, <2>1, <2>2, <2>3, RunMoves
<1> QED
  BY <1>2, <1>3

(* ...and whoever probes a step lets go of that lock and of no other,      *)
(* whether the probe ends or its run dies.                                 *)
LEMMA ProbeEnds ==
  ASSUME TypeOK, LockInv, NEW r \in Runs, pc[r] = "probe",
         NEW place \in {"probing", "dead"},
         pc' = [pc EXCEPT ![r] = place],
         \A q \in Runs \ {r} : left'[q] = left[q],
         child' = child,
         \A t \in AllSteps : stepLock'[t] = IF stepLock[t] = r THEN NoRun ELSE stepLock[t],
         pipelineLock' = IF place = "dead" THEN NoRun ELSE pipelineLock
  PROVE  LockInv'
<1>1. /\ stepLock \in [AllSteps -> Runs \cup {NoRun}] /\ NoRun \notin Runs
      /\ pc'[r] = place /\ child[r].at = "none"
      /\ \A q \in Runs \ {r} : pc'[q] = pc[q]
  BY RunsAssumption DEF TypeOK, LockInv, ChildInv
<1>2. LibraryLockInv'
  BY <1>1 DEF LockInv, LibraryLockInv, Acting
<1>3. ChildInv'
  BY <1>1 DEF LockInv, ChildInv
<1>4. WorkerHoldsInv'
  <2> SUFFICES ASSUME NEW q \in Runs, HoldsItsStep(q) PROVE stepLock'[child[q].step] = q
    BY DEF WorkerHoldsInv, HoldsItsStep
  <2>1. q # r /\ child[q].step \in AllSteps /\ stepLock[child[q].step] = q
    BY <1>1 DEF LockInv, WorkerHoldsInv, ChildInv, HoldsItsStep
  <2> QED
    BY <2>1
<1>5. ProbeHoldsInv'
  <2> SUFFICES ASSUME NEW q \in Runs, NEW t \in left'[q], pc'[q] = "probe", First(q, t)'
               PROVE  stepLock'[t] = q
    BY DEF ProbeHoldsInv
  <2>1. q # r /\ t \in left[q] /\ First(q, t) /\ pc[q] = "probe"
    BY <1>1 DEF First
  <2>2. stepLock[t] = q /\ t \in AllSteps
    BY <2>1 DEF LockInv, ProbeHoldsInv, TypeOK
  <2> QED
    BY <2>1, <2>2
<1>6. HolderInv'
  <2> SUFFICES ASSUME NEW t \in AllSteps, NEW h, h = stepLock'[t], h # NoRun
               PROVE  \/ HoldsItsStep(h) /\ child[h].step = t
                      \/ pc'[h] = "probe" /\ First(h, t)'
    BY DEF HolderInv, HoldsItsStep, First
  <2>1. h = stepLock[t] /\ h \in Runs \ {r}
    BY <1>1
  <2>2. \/ HoldsItsStep(h) /\ child[h].step = t
        \/ pc[h] = "probe" /\ First(h, t)
    BY <2>1 DEF LockInv, HolderInv
  <2> QED
    BY <1>1, <2>1, <2>2 DEF First
<1> QED
  BY <1>2, <1>3, <1>4, <1>5, <1>6 DEF LockInv

(* A probe lets go of what it found free.                                  *)
LEMMA LockUnprobe ==
  ASSUME TypeOK, LockInv, NEW r \in Runs, NEW s \in left[r], Unprobe(r, s) PROVE LockInv'
<1>1. /\ pc[r] = "probe" /\ First(r, s) /\ s \in AllSteps
      /\ stepLock' = [stepLock EXCEPT ![s] = NoRun]
      /\ pc' = [pc EXCEPT ![r] = "probing"]
      /\ left' = [left EXCEPT ![r] = @ \ {s}]
      /\ UNCHANGED <<pipelineLock, child>>
  BY DEF Unprobe, Released, Reached, Goto, TypeOK
<1>2. stepLock[s] = r
  BY <1>1 DEF LockInv, ProbeHoldsInv
<1>3. ASSUME NEW t \in AllSteps, stepLock[t] = r PROVE t = s
  <2>1. First(r, t)
    BY <1>1, <1>3, RunsAssumption DEF LockInv, HolderInv, ChildInv, HoldsItsStep
  <2>2. t <= s /\ s <= t /\ t \in Int /\ s \in Int
    BY <1>1, <2>1, StepsAssumption DEF First, AllSteps
  <2> QED
    BY <2>2
<1>4. \A t \in AllSteps : stepLock'[t] = IF stepLock[t] = r THEN NoRun ELSE stepLock[t]
  BY <1>1, <1>2, <1>3 DEF TypeOK
<1>5. \A q \in Runs \ {r} : left'[q] = left[q]
  BY <1>1 DEF TypeOK
<1> QED
  BY <1>1, <1>4, <1>5, ProbeEnds

(* A run that dies while it probes lets go of what it held; one that dies  *)
(* while it waits leaves its process to itself.                            *)
LEMMA LockDie ==
  ASSUME TypeOK, LockInv, NEW r \in Runs, Die(r) PROVE LockInv'
<1>1. /\ Acting(r) /\ pipelineLock' = NoRun
      /\ pc' = [pc EXCEPT ![r] = "dead"]
      /\ left' = [left EXCEPT ![r] = {}]
      /\ child' = child
  BY DEF Die, Vanish, Goto, Owns, LockInv, LibraryLockInv
<1>2. left' \in [Runs -> SUBSET AllSteps] /\ \A q \in Runs \ {r} : left'[q] = left[q]
  BY <1>1 DEF TypeOK
<1>3. \A s \in AllSteps : stepLock'[s] = IF pc[r] = "probe" /\ stepLock[s] = r
                                         THEN NoRun ELSE stepLock[s]
  BY DEF Die
<1>4. CASE pc[r] = "probe"
  BY <1>1, <1>2, <1>3, <1>4, ProbeEnds
<1>5. CASE pc[r] # "probe"
  <2>1. stepLock' = stepLock
    BY <1>5 DEF Die, TypeOK
  <2>2. "dead" \in Places
    BY DEF Places
  <2> QED
    BY <1>1, <1>2, <1>5, <2>1, <2>2, RunMoves
<1> QED
  BY <1>4, <1>5

(* A process that starts for a step has its lock, has yet to take it, or   *)
(* is refused by whoever holds it.                                         *)
LEMMA LockSpawn ==
  ASSUME TypeOK, LockInv, NEW r \in Runs, NEW s \in AllSteps,
         Acting(r), pc[r] \notin {"probe", "waiting"}, Spawn(r, s),
         UNCHANGED <<left, pipelineLock>>
  PROVE  LockInv'
<1>1. /\ child[r].at = "none" /\ pc[r] \notin {"probe", "new"}
      /\ pc' = [pc EXCEPT ![r] = "waiting"]
  BY DEF LockInv, ChildInv, Acting, Spawn, Goto
<1>2. pc'[r] = "waiting" /\ (Acting(r)' <=> Acting(r)) /\ ~HoldsItsStep(r)
  BY <1>1 DEF TypeOK, Acting, HoldsItsStep
<1>3. \A q \in Runs \ {r} : pc'[q] = pc[q] /\ child'[q] = child[q]
  BY <1>1 DEF Spawn, TypeOK
<1>4. /\ child'[r].step = s
      /\ \/ child'[r].at = "starting" /\ stepLock' = stepLock
         \/ /\ child'[r].at = "working"
            /\ stepLock[s] = NoRun
            /\ stepLock' = [stepLock EXCEPT ![s] = r]
         \/ child'[r].at = "exited" /\ stepLock' = stepLock
  BY DEF Spawn, TypeOK
<1> QED
  BY <1>1, <1>2, <1>3, <1>4, ProcessWorks DEF HoldsItsStep

(* A process that ends lets go of its step's lock and of no other.         *)
LEMMA LockExited ==
  ASSUME TypeOK, LockInv, NEW r \in Runs, NEW status,
         child[r].at # "none", Exited(r, status), UNCHANGED <<pc, left, pipelineLock>>
  PROVE  LockInv'
<1>1. child[r].step \in AllSteps /\ pc[r] \in {"waiting", "dead"}
  BY DEF LockInv, ChildInv
<1>2. /\ \A q \in Runs \ {r} : pc'[q] = pc[q] /\ child'[q] = child[q]
      /\ child'[r].step = child[r].step
      /\ child'[r].at = "exited"
  BY DEF Exited, TypeOK, Children
<1>3. \A t \in AllSteps : stepLock'[t] = IF t = child[r].step /\ stepLock[t] = r
                                         THEN NoRun ELSE stepLock[t]
  BY DEF Exited
<1>4. (Acting(r)' <=> Acting(r)) /\ ~HoldsItsStep(r)'
  BY <1>2 DEF Acting, HoldsItsStep
<1> QED
  BY <1>1, <1>2, <1>3, <1>4, ProcessWorks

(* Every step of a step's process keeps the invariant.                     *)
LEMMA LockChildStep ==
  ASSUME TypeOK, LockInv, NEW r \in Runs, ChildStep(r) PROVE LockInv'
<1>1. CASE TakeStepLock(r)
  <2>1. CASE StepFree(r)
    <3>1. child[r].step \in AllSteps /\ pc[r] \in {"waiting", "dead"} /\ ~HoldsItsStep(r)
      BY <1>1 DEF TakeStepLock, LockInv, ChildInv, HoldsItsStep
    <3>2. /\ child' = [child EXCEPT ![r].at = "working"]
          /\ stepLock' = [stepLock EXCEPT ![child[r].step] = r]
          /\ stepLock[child[r].step] = NoRun
          /\ UNCHANGED <<pc, left, pipelineLock>>
      BY <1>1, <2>1 DEF TakeStepLock, ChildAt, StepFree, runVars
    <3>3. /\ \A q \in Runs \ {r} : pc'[q] = pc[q] /\ child'[q] = child[q]
          /\ child'[r].step = child[r].step
          /\ child'[r].at = "working"
      BY <3>2 DEF TypeOK, Children
    <3>4. (Acting(r)' <=> Acting(r)) /\ HoldsItsStep(r)'
      BY <3>2, <3>3 DEF Acting, HoldsItsStep
    <3> QED
      BY <3>1, <3>2, <3>3, <3>4, ProcessWorks
  <2>2. CASE ~StepFree(r)
    BY <1>1, <2>2, LockExited DEF TakeStepLock, runVars
  <2> QED
    BY <2>1, <2>2
<1>2. CASE EmptyCatalog(r) \/ Produce(r)
  <2>1. /\ child[r].at = "working"
        /\ child' = [child EXCEPT ![r].at = "finished"]
        /\ UNCHANGED <<pc, left, pipelineLock, stepLock>>
    BY <1>2 DEF EmptyCatalog, Produce, ChildAt, lockVars, runVars
  <2>2. child[r].step \in AllSteps /\ pc[r] \in {"waiting", "dead"} /\ HoldsItsStep(r)
    BY <2>1 DEF LockInv, ChildInv, HoldsItsStep
  <2>3. /\ \A q \in Runs \ {r} : pc'[q] = pc[q] /\ child'[q] = child[q]
        /\ child'[r].step = child[r].step
        /\ child'[r].at = "finished"
    BY <2>1 DEF TypeOK, Children
  <2>4. (Acting(r)' <=> Acting(r)) /\ HoldsItsStep(r)'
    BY <2>1, <2>3 DEF Acting, HoldsItsStep
  <2> QED
    BY <2>1, <2>2, <2>3, <2>4, ProcessWorks
<1>3. CASE Exit(r)
  BY <1>3, LockExited DEF Exit, runVars
<1>4. CASE Killed(r)
  BY <1>4, LockExited DEF Killed, WithinReach, runVars
<1> QED
  BY <1>1, <1>2, <1>3, <1>4 DEF ChildStep

(* A run that goes on between its steps keeps the invariant...             *)
LEMMA RunGoesOn ==
  ASSUME TypeOK, TypeOK', LockInv, NEW r \in Runs,
         Acting(r), pc[r] \notin {"probe", "waiting"},
         NEW place \in Places \ {"new", "probe", "waiting", "ended", "dead"},
         pc' = [pc EXCEPT ![r] = place],
         \A q \in Runs \ {r} : left'[q] = left[q],
         UNCHANGED <<child, stepLock, pipelineLock>>
  PROVE  LockInv'
<1>1. child'[r].at = "none"
  BY DEF LockInv, ChildInv, Acting
<1>2. left' \in [Runs -> SUBSET AllSteps]
  BY DEF TypeOK
<1> QED
  BY <1>1, <1>2, RunMoves

(* ...and so does one that ends.                                           *)
LEMMA RunEnds ==
  ASSUME TypeOK, TypeOK', LockInv, NEW r \in Runs, NEW how,
         Acting(r), pc[r] \notin {"probe", "waiting"}, End(r, how),
         \A q \in Runs \ {r} : left'[q] = left[q],
         UNCHANGED <<child, stepLock>>
  PROVE  LockInv'
<1>1. child'[r].at = "none"
  BY DEF LockInv, ChildInv, Acting
<1>2. /\ pc' = [pc EXCEPT ![r] = "ended"]
      /\ pipelineLock' = NoRun
      /\ left' \in [Runs -> SUBSET AllSteps]
      /\ "ended" \in Places
  BY DEF End, Goto, Owns, Places, LockInv, LibraryLockInv, TypeOK
<1> QED
  BY <1>1, <1>2, RunMoves

(* A run that has read how its step ended holds on to no process.          *)
LEMMA LockReap ==
  ASSUME TypeOK, TypeOK', LockInv, NEW r \in Runs, Reap(r) PROVE LockInv'
<1>1. /\ pc[r] = "waiting" /\ child[r].at = "exited"
      /\ child' = [child EXCEPT ![r] = NoChild]
      /\ stepLock' = stepLock
  BY DEF Reap
<1>2. /\ child'[r].at = "none" /\ Acting(r) /\ pipelineLock = r
      /\ left' \in [Runs -> SUBSET AllSteps]
  BY <1>1 DEF NoChild, TypeOK, Acting, LockInv, LibraryLockInv
<1>3. \A q \in Runs \ {r} : left'[q] = left[q]
  BY DEF Reap, Stop, Reached, TypeOK
<1>4. \/ pc' = [pc EXCEPT ![r] = "sweeping"] /\ pipelineLock' = pipelineLock
      \/ pc' = [pc EXCEPT ![r] = "binding"] /\ pipelineLock' = pipelineLock
      \/ pc' = [pc EXCEPT ![r] = "ended"] /\ pipelineLock' = NoRun
  BY <1>2 DEF Reap, Stop, End, Goto, Owns
<1>5. {"sweeping", "binding", "ended"} \subseteq Places
  BY DEF Places
<1> QED
  BY <1>1, <1>2, <1>3, <1>4, <1>5, RunMoves

(* A verdict lets its run go on or ends it.                                *)
LEMMA LockVerdict ==
  ASSUME TypeOK, TypeOK', LockInv, NEW r \in Runs, NEW s, NEW how,
         Acting(r), pc[r] \notin {"probe", "waiting"},
         Settle(r, s, how) \/ Stop(r, s, how), UNCHANGED <<child, stepLock>>
  PROVE  LockInv'
<1>1. \A q \in Runs \ {r} : left'[q] = left[q]
  BY DEF Settle, Stop, Reached, TypeOK
<1>2. CASE Settle(r, s, how)
  <2>1. /\ pc' = [pc EXCEPT ![r] = "taking"] /\ pipelineLock' = pipelineLock
        /\ "taking" \in Places
    BY <1>2 DEF Settle, Goto, Places
  <2> QED
    BY <1>1, <2>1, RunGoesOn
<1>3. CASE Stop(r, s, how)
  BY <1>1, <1>3, RunEnds DEF Stop
<1> QED
  BY <1>2, <1>3

(* Every step of a run keeps the invariant.                                *)
LEMMA LockRunStep ==
  ASSUME TypeOK, TypeOK', LockInv, NEW r \in Runs, RunStep(r) PROVE LockInv'
<1> DEFINE OthersStay == \A q \in Runs \ {r} : left'[q] = left[q]
           Between == Places \ {"new", "probe", "waiting", "ended", "dead"}
<1>0. /\ {"recording", "resetting", "sweeping", "redoing", "taking", "deciding",
           "resealing", "starting", "binding"} \subseteq Between
      /\ pc[r] \in Between => Acting(r) /\ pc[r] \notin {"probe", "waiting"}
      /\ pc[r] = "probing" => Acting(r) /\ pc[r] \notin {"probe", "waiting"}
      /\ pc = [pc EXCEPT ![r] = pc[r]]
      /\ Reset \in AllSteps /\ left[r] \subseteq AllSteps
  BY StepsAssumption DEF Places, Acting, TypeOK, Reset, AllSteps
<1>1. CASE Start(r)
  BY <1>1, LockStart
<1>2. CASE Screen(r)
  <2>1. pc[r] = "probing" /\ OthersStay /\ UNCHANGED <<child, stepLock>>
    BY <1>2 DEF Screen, TypeOK
  <2>2. \/ End(r, "refused")
        \/ /\ pipelineLock' = pipelineLock
           /\ \E place \in Between : pc' = [pc EXCEPT ![r] = place]
    BY <1>0, <1>2 DEF Screen, Goto
  <2> QED
    BY <1>0, <2>1, <2>2, RunGoesOn, RunEnds
<1>3. CASE RecordIntent(r)
  BY <1>0, <1>3, RunGoesOn DEF RecordIntent, Goto, lockVars
<1>4. CASE StartReset(r)
  BY <1>0, <1>4, LockSpawn DEF StartReset
<1>5. CASE ClearIntent(r)
  <2>1. OthersStay
    BY <1>5 DEF ClearIntent, TypeOK
  <2> QED
    BY <1>0, <1>5, <2>1, RunGoesOn DEF ClearIntent, Goto, lockVars
<1>6. CASE BeginTaking(r)
  <2>1. OthersStay
    BY <1>6 DEF BeginTaking, TypeOK
  <2> QED
    BY <1>0, <1>6, <2>1, RunGoesOn DEF BeginTaking, Goto, lockVars
<1>7. CASE Take(r)
  <2>1. pc[r] = "taking" /\ OthersStay /\ UNCHANGED <<child, stepLock>>
    BY <1>7 DEF Take, TypeOK
  <2>2. \/ \E how \in RunOutcomes : End(r, how)
        \/ pc' = [pc EXCEPT ![r] = "deciding"] /\ pipelineLock' = pipelineLock
    BY <1>7 DEF Take, Goto, RunOutcomes
  <2> QED
    BY <1>0, <2>1, <2>2, RunGoesOn, RunEnds
<1>8. CASE Reap(r)
  BY <1>8, LockReap
<1>9. CASE LoseCatalog(r)
  BY <1>9 DEF LoseCatalog, Owns, LockInv, LibraryLockInv, Acting
<1>10. ASSUME NEW s \in left[r], Probe(r, s) PROVE LockInv'
  BY <1>10, LockProbe
<1>11. ASSUME NEW s \in left[r], Unprobe(r, s) PROVE LockInv'
  BY <1>11, LockUnprobe
<1>12. ASSUME NEW s \in left[r], Sweep(r, s) \/ Forget(r, s) PROVE LockInv'
  <2>1. /\ pc[r] \in {"sweeping", "redoing"}
        /\ OthersStay
        /\ UNCHANGED <<pc, child, stepLock, pipelineLock>>
    BY <1>12 DEF Sweep, Forget, Reached, TypeOK, lockVars
  <2> QED
    BY <1>0, <2>1, RunGoesOn
<1>13. ASSUME NEW s \in left[r], Decide(r, s) PROVE LockInv'
  <2>1. pc[r] = "deciding" /\ UNCHANGED <<child, stepLock>>
    BY <1>13 DEF Decide
  <2>2. \/ Stop(r, s, "refused")
        \/ Settle(r, s, "satisfied")
        \/ /\ UNCHANGED <<left, pipelineLock>>
           /\ \E place \in Between : pc' = [pc EXCEPT ![r] = place]
    BY <1>0, <1>13 DEF Decide, Goto
  <2> QED
    BY <1>0, <2>1, <2>2, LockVerdict, RunGoesOn
<1>14. ASSUME NEW s \in left[r], Reseal(r, s) PROVE LockInv'
  BY <1>0, <1>14, LockVerdict DEF Reseal
<1>15. ASSUME NEW s \in left[r], StartStep(r, s) PROVE LockInv'
  BY <1>0, <1>15, LockSpawn DEF StartStep
<1>16. ASSUME NEW s \in left[r], Bind(r, s) PROVE LockInv'
  BY <1>0, <1>16, LockVerdict DEF Bind
<1> QED
  BY <1>1, <1>2, <1>3, <1>4, <1>5, <1>6, <1>7, <1>8, <1>9, <1>10, <1>11, <1>12,
     <1>13, <1>14, <1>15, <1>16 DEF RunStep

-----------------------------------------------------------------------------
(* Only a restart of the server counts as one.                             *)
LEMMA RunsRestartNothing ==
  ASSUME NEW r \in Runs, RunStep(r) PROVE restarts' = restarts
<1>1. CASE Start(r) \/ Screen(r) \/ Take(r) \/ Reap(r)
  BY <1>1 DEF Start, Screen, Take, Reap
<1>2. CASE RecordIntent(r) \/ StartReset(r) \/ ClearIntent(r) \/ BeginTaking(r) \/ LoseCatalog(r)
  BY <1>2 DEF RecordIntent, StartReset, ClearIntent, BeginTaking, LoseCatalog
<1>3. ASSUME NEW s \in left[r], Probe(r, s) \/ Unprobe(r, s) \/ Sweep(r, s) \/ Forget(r, s)
      PROVE  restarts' = restarts
  BY <1>3 DEF Probe, Unprobe, Sweep, Forget
<1>4. ASSUME NEW s \in left[r],
             Decide(r, s) \/ Reseal(r, s) \/ StartStep(r, s) \/ Bind(r, s)
      PROVE  restarts' = restarts
  BY <1>4 DEF Decide, Reseal, StartStep, Bind
<1> QED
  BY <1>1, <1>2, <1>3, <1>4 DEF RunStep

(* A server that has not restarted by the end of a step had not before it. *)
LEMMA UpBefore ==
  ASSUME TypeOK, [Next]_vars, restarts' = 0 PROVE restarts = 0
<1>1. \A r \in Runs : RunStep(r) => restarts' = restarts
  BY RunsRestartNothing
<1>2. \A r \in Runs : ChildStep(r) \/ Interrupt(r) \/ Die(r) => restarts' = restarts
  BY DEF ChildStep, TakeStepLock, EmptyCatalog, Produce, Exit, Killed, Interrupt, Die
<1>3. Quiet \/ UNCHANGED vars => restarts' = restarts
  BY DEF Quiet, vars
<1>4. ~Restart
  BY LimitsAssumption DEF Restart, TypeOK
<1> QED
  BY <1>1, <1>2, <1>3, <1>4 DEF Next

(* Until the server restarts, every step of the system keeps it.           *)
LEMMA LockNext ==
  ASSUME restarts' = 0, TypeOK, TypeOK', LockInv, [Next]_vars PROVE LockInv'
<1>1. ASSUME NEW r \in Runs, RunStep(r) PROVE LockInv'
  BY <1>1, LockRunStep
<1>2. ASSUME NEW r \in Runs, ChildStep(r) PROVE LockInv'
  BY <1>2, LockChildStep
<1>3. ASSUME NEW r \in Runs, Interrupt(r) PROVE LockInv'
  BY <1>3, LockFrame DEF Interrupt, lockVars
<1>4. ASSUME NEW r \in Runs, Die(r) PROVE LockInv'
  BY <1>4, LockDie
<1>5. CASE Restart
  BY <1>5, LimitsAssumption DEF Restart, TypeOK
<1>6. CASE UNCHANGED vars
  BY <1>6, LockFrame DEF vars
<1> QED
  BY <1>1, <1>2, <1>3, <1>4, <1>5, <1>6 DEF Next, Quiet

(* Until the server restarts, the locks say exactly who acts, who works    *)
(* and who probes.                                                         *)
THEOREM LocksAreTrue == Spec => [](restarts = 0 => LockInv)
<1>1. Init => TypeOK /\ LockInv
  BY TypeInit, LockInit
<1>2. TypeOK /\ (restarts = 0 => LockInv) /\ [Next]_vars => (restarts = 0 => LockInv)'
  BY TypeNext, LockNext, UpBefore
<1> QED
  BY <1>1, <1>2, TypeCorrect, PTL DEF Spec

(* Until the server restarts, PipelineLock keeps every other run of the    *)
(* library out from a run's claim to its end, whichever runs die when.     *)
THEOREM OneRunActsAtATime == Spec => [](restarts = 0 => OneRunActs)
<1>1. LockInv => OneRunActs
  BY DEF LockInv, LibraryLockInv, OneRunActs
<1> QED
  BY <1>1, LocksAreTrue, PTL

(* hold_step_lock keeps two processes from one step, those of a dead run   *)
(* and of its relaunch included, and keeps probes apart from both, until   *)
(* the server restarts.                                                    *)
THEOREM OneProcessWorksOnAStep == Spec => [](restarts = 0 => OneProcessPerStep)
<1>1. TypeOK /\ LockInv => OneProcessPerStep
  <2> SUFFICES ASSUME TypeOK, LockInv, NEW r \in Runs, NEW q \in Runs, HoldsItsStep(r)
               PROVE  /\ HoldsItsStep(q) /\ child[q].step = child[r].step => r = q
                      /\ pc[q] = "probe" => ~First(q, child[r].step)
    BY DEF OneProcessPerStep
  <2>1. stepLock[child[r].step] = r
    BY DEF LockInv, WorkerHoldsInv
  <2>2. HoldsItsStep(q) => stepLock[child[q].step] = q
    BY DEF LockInv, WorkerHoldsInv
  <2>3. ASSUME pc[q] = "probe", First(q, child[r].step) PROVE FALSE
    <3>1. stepLock[child[r].step] = q
      BY <2>3 DEF First, LockInv, ProbeHoldsInv
    <3> QED
      BY <2>1, <2>3, <3>1 DEF LockInv, ChildInv, HoldsItsStep
  <2> QED
    BY <2>1, <2>2, <2>3
<1> QED
  BY <1>1, LocksAreTrue, TypeCorrect, PTL

-----------------------------------------------------------------------------
(* An emptying that was begun is finished before any step is taken,        *)
(* whichever run began it, died over it or takes it up again.              *)

(* A run past its emptying has found or left no intent.                    *)
PastEmptying(r) == TakingSteps(r) \/ pc[r] = "redoing"
EmptyingInv == \A r \in Runs : PastEmptying(r) => ~intent

(* A run past its emptying acts.                                           *)
LEMMA PastEmptyingActs == ASSUME NEW r, PastEmptying(r) PROVE Acting(r)
BY DEF PastEmptying, TakingSteps, Acting

(* A run whose own place and process a step leaves alone is past its       *)
(* emptying after the step only if it was before.                          *)
LEMMA OthersStayWhereTheyAre ==
  ASSUME NEW q, pc'[q] = pc[q], child'[q].step = child[q].step, PastEmptying(q)'
  PROVE  PastEmptying(q)
BY DEF PastEmptying, TakingSteps

(* A step of a run that leaves the intent alone gets the run past its      *)
(* emptying only where there is no intent.                                 *)
LEMMA EmptyingFrame ==
  ASSUME EmptyingInv, NEW r \in Runs, intent' = intent,
         \A q \in Runs \ {r} : pc'[q] = pc[q] /\ child'[q].step = child[q].step,
         PastEmptying(r)' => PastEmptying(r) \/ ~intent
  PROVE  EmptyingInv'
BY OthersStayWhereTheyAre DEF EmptyingInv

(* A run that goes from one place to another leaves every other where it   *)
(* is.                                                                     *)
LEMMA GoingMovesOneRun ==
  ASSUME TypeOK, NEW r \in Runs, NEW place, Goto(r, place)
  PROVE  \A q \in Runs \ {r} : pc'[q] = pc[q]
<1>1. pc \in [Runs -> Places]
  BY DEF TypeOK
<1> QED
  BY <1>1 DEF Goto

(* Every step of a run keeps the invariant.                                *)
LEMMA EmptyingRunStep ==
  ASSUME TypeOK, LockInv, EmptyingInv, NEW r \in Runs, RunStep(r) PROVE EmptyingInv'
<1> DEFINE OthersStay == \A q \in Runs \ {r} : pc'[q] = pc[q] /\ child'[q].step = child[q].step
<1>1. CASE Start(r) \/ LoseCatalog(r) \/ Take(r)
  <2>1. OthersStay /\ intent' = intent
    <3>1. child' = child /\ intent' = intent
      <4>1. CASE Start(r)
        BY <4>1 DEF Start, libraryVars
      <4>2. CASE LoseCatalog(r)
        BY <4>2 DEF LoseCatalog, libraryVars
      <4>3. CASE Take(r)
        BY <4>3 DEF Take, libraryVars
      <4> QED
        BY <1>1, <4>1, <4>2, <4>3
    <3>2. PICK place : Goto(r, place)
      <4>1. CASE Start(r)
        BY <4>1 DEF Start, End
      <4>2. CASE LoseCatalog(r)
        BY <4>2 DEF LoseCatalog, Vanish
      <4>3. CASE Take(r)
        BY <4>3 DEF Take, End
      <4> QED
        BY <1>1, <4>1, <4>2, <4>3
    <3> QED
      BY <3>1, <3>2, GoingMovesOneRun
  <2>2. PastEmptying(r)' => PastEmptying(r)
    BY <1>1 DEF Start, LoseCatalog, Vanish, Take, End, Goto, TypeOK, PastEmptying, TakingSteps
  <2> QED
    BY <2>1, <2>2, EmptyingFrame
<1>2. CASE Screen(r)
  <2>1. OthersStay /\ intent' = intent
    BY <1>2 DEF Screen, End, Goto, TypeOK, libraryVars
  <2>2. PastEmptying(r)' => ~intent
    BY <1>2 DEF Screen, End, Goto, TypeOK, PastEmptying, TakingSteps, EmptiesFirst
  <2> QED
    BY <2>1, <2>2, EmptyingFrame
<1>3. CASE RecordIntent(r)
  <2>1. /\ pc[r] = "recording" /\ Acting(r) /\ pc' = [pc EXCEPT ![r] = "resetting"]
        /\ child' = child
    BY <1>3 DEF RecordIntent, Goto, Acting
  <2>2. ASSUME NEW q \in Runs PROVE ~PastEmptying(q)'
    <3>1. CASE q = r
      BY <2>1, <3>1 DEF TypeOK, PastEmptying, TakingSteps
    <3>2. CASE q # r
      <4>1. ~Acting(q)
        BY <2>1, <3>2 DEF LockInv, LibraryLockInv
      <4> QED
        BY <2>1, <3>2, <4>1, PastEmptyingActs, OthersStayWhereTheyAre DEF TypeOK
    <3> QED
      BY <3>1, <3>2
  <2> QED
    BY <2>2 DEF EmptyingInv
<1>4. CASE StartReset(r) \/ \E s \in left[r] : StartStep(r, s)
  <2>1. OthersStay /\ intent' = intent
    BY <1>4 DEF StartReset, StartStep, Spawn, Goto, TypeOK, libraryVars
  <2>2. PastEmptying(r)' => PastEmptying(r)
    <3>1. CASE StartReset(r)
      BY <3>1 DEF StartReset, Spawn, Goto, TypeOK, PastEmptying, TakingSteps
    <3>2. CASE \E s \in left[r] : StartStep(r, s)
      BY <3>2 DEF StartStep, PastEmptying, TakingSteps
    <3> QED
      BY <1>4, <3>1, <3>2
  <2> QED
    BY <2>1, <2>2, EmptyingFrame
<1>5. CASE ClearIntent(r)
  BY <1>5 DEF ClearIntent, EmptyingInv
<1>6. CASE BeginTaking(r)
  <2>1. OthersStay /\ intent' = intent /\ PastEmptying(r)
    BY <1>6 DEF BeginTaking, Goto, TypeOK, libraryVars, PastEmptying
  <2> QED
    BY <2>1, EmptyingFrame
<1>7. CASE Reap(r)
  <2>1. OthersStay /\ intent' = intent
    BY <1>7 DEF Reap, Stop, End, Goto, TypeOK, libraryVars
  <2>2. PastEmptying(r)' => PastEmptying(r)
    BY <1>7 DEF Reap, Stop, End, Goto, TypeOK, PastEmptying, TakingSteps
  <2> QED
    BY <2>1, <2>2, EmptyingFrame
<1>8. ASSUME NEW s \in left[r],
             Probe(r, s) \/ Unprobe(r, s) \/ Sweep(r, s) \/ Forget(r, s)
      PROVE  EmptyingInv'
  <2>1. OthersStay /\ intent' = intent
    BY <1>8 DEF Probe, Unprobe, Sweep, Forget, Goto, TypeOK, libraryVars
  <2>2. PastEmptying(r)' => PastEmptying(r)
    BY <1>8 DEF Probe, Unprobe, Sweep, Forget, Goto, TypeOK, PastEmptying, TakingSteps
  <2> QED
    BY <2>1, <2>2, EmptyingFrame
<1>9. ASSUME NEW s \in left[r], Decide(r, s) \/ Reseal(r, s) \/ Bind(r, s)
      PROVE  EmptyingInv'
  <2>1. OthersStay /\ intent' = intent
    <3>1. /\ \E place \in Places : pc' = [pc EXCEPT ![r] = place]
          /\ child' = child /\ intent' = intent
      BY <1>9 DEF Decide, Reseal, Bind, Stop, Settle, End, Goto, Places, libraryVars
    <3> QED
      BY <3>1 DEF TypeOK
  <2>2. PastEmptying(r)
    BY <1>9 DEF Decide, Reseal, Bind, PastEmptying, TakingSteps
  <2> QED
    BY <2>1, <2>2, EmptyingFrame
<1> QED
  BY <1>1, <1>2, <1>3, <1>4, <1>5, <1>6, <1>7, <1>8, <1>9 DEF RunStep

(* Every step of the system keeps the invariant, beside the locks'.        *)
LEMMA EmptyingNext ==
  ASSUME TypeOK, LockInv, EmptyingInv, [Next]_vars PROVE EmptyingInv'
<1>1. ASSUME NEW r \in Runs, RunStep(r) PROVE EmptyingInv'
  BY <1>1, EmptyingRunStep
<1>2. ASSUME NEW r \in Runs, ChildStep(r) PROVE EmptyingInv'
  <2>1. UNCHANGED <<pc, intent>>
    BY <1>2 DEF ChildStep, TakeStepLock, EmptyCatalog, Produce, Exit, Killed, runVars,
                libraryVars
  <2>2. \A q \in Runs : child'[q].step = child[q].step
    <3>1. ASSUME NEW at, ChildAt(r, at) PROVE \A q \in Runs : child'[q].step = child[q].step
      BY <3>1 DEF ChildAt, TypeOK, Children
    <3>2. ASSUME NEW status, Exited(r, status)
          PROVE  \A q \in Runs : child'[q].step = child[q].step
      BY <3>2 DEF Exited, TypeOK, Children
    <3> QED
      BY <1>2, <3>1, <3>2 DEF ChildStep, TakeStepLock, EmptyCatalog, Produce, Exit, Killed
  <2> QED
    BY <2>1, <2>2, EmptyingFrame, OthersStayWhereTheyAre
<1>3. ASSUME NEW r \in Runs, Interrupt(r) PROVE EmptyingInv'
  BY <1>3 DEF Interrupt, libraryVars, EmptyingInv, PastEmptying, TakingSteps
<1>4. ASSUME NEW r \in Runs, Die(r) PROVE EmptyingInv'
  <2>1. /\ intent' = intent /\ pc'[r] = "dead"
        /\ \A q \in Runs \ {r} : pc'[q] = pc[q] /\ child'[q].step = child[q].step
    BY <1>4 DEF Die, Vanish, Goto, TypeOK, libraryVars
  <2> QED
    BY <2>1, EmptyingFrame DEF PastEmptying, TakingSteps
<1>5. CASE Restart \/ UNCHANGED vars
  BY <1>5 DEF Restart, vars, runVars, libraryVars, EmptyingInv, PastEmptying, TakingSteps
<1> QED
  BY <1>1, <1>2, <1>3, <1>4, <1>5 DEF Next, Quiet

(* start_from_scratch is finished before a step is taken: until the server *)
(* restarts, no run, asked for an emptying or not, builds on what an       *)
(* unfinished one left.                                                    *)
THEOREM EmptyingIsFinishedFirst == Spec => [](restarts = 0 => EmptyingComesFirst)
<1>1. Init => EmptyingInv
  BY DEF Init, EmptyingInv
<1>2. TypeOK /\ (restarts = 0 => LockInv /\ EmptyingInv) /\ [Next]_vars
        => (restarts = 0 => EmptyingInv)'
  BY EmptyingNext, UpBefore
<1>3. EmptyingInv => EmptyingComesFirst
  BY DEF EmptyingInv, PastEmptying, EmptyingComesFirst
<1> QED
  BY <1>1, <1>2, <1>3, LocksAreTrue, TypeCorrect, PTL DEF Spec

-----------------------------------------------------------------------------
(* What a run writes down of its steps, whoever else acts, dies or         *)
(* restarts: nothing before it takes them, then how each one it reached    *)
(* went, in order.                                                         *)

SettledVerdicts == {"satisfied", "ran", "resealed"}

(* An account of some targets, the rest of which are yet to be taken...    *)
TakenSoFar(targets, rest, given) ==
  /\ rest \subseteq targets
  /\ \A s \in Steps : s \in rest \/ s \notin targets => given[s] = "none"
  /\ \A s \in targets \ rest : given[s] \in SettledVerdicts /\ \A t \in rest : s < t

(* ...and one that says the truth of a run which ended so or goes on.      *)
WholeAccount(targets, given, how) ==
  /\ \A s \in Steps \ targets : given[s] = "none"
  /\ \A s, t \in targets : s < t /\ given[s] \in {"none", "not reached"} => given[t] = given[s]
  /\ how = "completed" => \A s \in targets : given[s] \in SettledVerdicts
  /\ how = "lock lost" => \A s \in targets : given[s] # "none"
  /\ how = "stopped" /\ (\E s \in Steps : given[s] # "none") =>
       \A s \in targets : given[s] # "none"

AccountOf(r) ==
  /\ pc[r] # "ended" => outcome[r] = "none"
  /\ pc[r] \notin {"ended", "dead"} /\ ~TakingSteps(r) => \A s \in Steps : verdict[r][s] = "none"
  /\ TakingSteps(r) => TakenSoFar(request[r].targets, left[r], verdict[r])
  /\ pc[r] = "waiting" /\ child[r].step # Reset => First(r, child[r].step)
  /\ WholeAccount(request[r].targets, verdict[r], outcome[r])

AccountInv == \A r \in Runs : AccountOf(r)

-----------------------------------------------------------------------------
(* What a run does touches no other run's memory or process...             *)
LEMMA RunsMindThemselves ==
  ASSUME TypeOK, NEW r \in Runs, RunStep(r)
  PROVE  /\ UNCHANGED <<request, slipped>>
         /\ \A q \in Runs \ {r} :
              /\ pc'[q] = pc[q] /\ left'[q] = left[q] /\ busy'[q] = busy[q]
              /\ verdict'[q] = verdict[q] /\ outcome'[q] = outcome[q]
              /\ child'[q] = child[q]
<1> USE DEF TypeOK, Goto, End, Reached, Settle, Stop, libraryVars, lockVars
<1>1. CASE Start(r) \/ Screen(r)
  BY <1>1 DEF Start, Screen
<1>2. CASE RecordIntent(r) \/ StartReset(r) \/ ClearIntent(r) \/ BeginTaking(r)
  BY <1>2 DEF RecordIntent, StartReset, Spawn, ClearIntent, BeginTaking
<1>3. CASE Take(r)
  <2>1. /\ UNCHANGED <<request, slipped, busy, child>>
        /\ \/ UNCHANGED verdict
           \/ \E v : verdict' = [verdict EXCEPT ![r] = v]
        /\ \/ UNCHANGED left
           \/ \E v : left' = [left EXCEPT ![r] = v]
        /\ \/ UNCHANGED outcome
           \/ \E v : outcome' = [outcome EXCEPT ![r] = v]
        /\ \E v : pc' = [pc EXCEPT ![r] = v]
    BY <1>3 DEF Take
  <2> QED
    BY <2>1
<1>4. CASE Reap(r)
  <2>1. /\ UNCHANGED <<request, slipped, busy>>
        /\ child' = [child EXCEPT ![r] = NoChild]
        /\ \/ UNCHANGED verdict
           \/ \E v : verdict' = [verdict EXCEPT ![r] = v]
        /\ \/ UNCHANGED left
           \/ \E v : left' = [left EXCEPT ![r] = v]
        /\ \/ UNCHANGED outcome
           \/ \E v : outcome' = [outcome EXCEPT ![r] = v]
        /\ \E v : pc' = [pc EXCEPT ![r] = v]
    BY <1>4 DEF Reap
  <2> QED
    BY <2>1
<1>5. CASE LoseCatalog(r)
  BY <1>5 DEF LoseCatalog, Vanish
<1>6. ASSUME NEW s \in left[r], Probe(r, s) \/ Unprobe(r, s) \/ Sweep(r, s) \/ Forget(r, s)
      PROVE  /\ UNCHANGED <<request, slipped>>
             /\ \A q \in Runs \ {r} :
                  /\ pc'[q] = pc[q] /\ left'[q] = left[q] /\ busy'[q] = busy[q]
                  /\ verdict'[q] = verdict[q] /\ outcome'[q] = outcome[q]
                  /\ child'[q] = child[q]
  BY <1>6 DEF Probe, Unprobe, Sweep, Forget
<1>7. ASSUME NEW s \in left[r],
             Decide(r, s) \/ Reseal(r, s) \/ StartStep(r, s) \/ Bind(r, s)
      PROVE  /\ UNCHANGED <<request, slipped>>
             /\ \A q \in Runs \ {r} :
                  /\ pc'[q] = pc[q] /\ left'[q] = left[q] /\ busy'[q] = busy[q]
                  /\ verdict'[q] = verdict[q] /\ outcome'[q] = outcome[q]
                  /\ child'[q] = child[q]
  <2>1. CASE Decide(r, s)
    BY <2>1 DEF Decide
  <2>2. CASE Reseal(r, s)
    BY <2>2 DEF Reseal
  <2>3. CASE StartStep(r, s)
    BY <2>3 DEF StartStep, Spawn
  <2>4. CASE Bind(r, s)
    BY <2>4 DEF Bind
  <2> QED
    BY <1>7, <2>1, <2>2, <2>3, <2>4
<1> QED
  BY <1>1, <1>2, <1>3, <1>4, <1>5, <1>6, <1>7 DEF RunStep

(* ...and a step's process touches no run's memory and no other process.   *)
LEMMA ProcessesMindThemselves ==
  ASSUME TypeOK, NEW r \in Runs, ChildStep(r)
  PROVE  /\ UNCHANGED <<pc, left, busy, verdict, outcome, request, slipped, intent, pipelineLock>>
         /\ \A q \in Runs \ {r} : child'[q] = child[q]
         /\ child'[r].step = child[r].step
         /\ child[r].at \in {"starting", "working", "finished"}
<1>1. /\ UNCHANGED <<pc, left, busy, verdict, outcome, request, slipped, intent, pipelineLock>>
      /\ child[r].at \in {"starting", "working", "finished"}
  BY DEF ChildStep, TakeStepLock, EmptyCatalog, Produce, Exit, Killed, WithinReach, runVars,
         libraryVars, lockVars
<1>2. ASSUME NEW at, ChildAt(r, at)
      PROVE  child'[r].step = child[r].step /\ \A q \in Runs \ {r} : child'[q] = child[q]
  BY <1>2 DEF ChildAt, TypeOK, Children
<1>3. ASSUME NEW status, Exited(r, status)
      PROVE  child'[r].step = child[r].step /\ \A q \in Runs \ {r} : child'[q] = child[q]
  BY <1>3 DEF Exited, TypeOK, Children
<1> QED
  BY <1>1, <1>2, <1>3 DEF ChildStep, TakeStepLock, EmptyCatalog, Produce, Exit, Killed

(* A run that has taken nothing has a whole account of it...               *)
LEMMA NothingIsWhole ==
  ASSUME NEW targets \in SUBSET Steps, NEW given, NEW how, how \notin {"completed", "lock lost"},
         \A s \in Steps : given[s] = "none"
  PROVE  WholeAccount(targets, given, how)
BY DEF WholeAccount

(* ...and may begin to take its targets.                                   *)
LEMMA NothingIsTaken ==
  ASSUME NEW targets \in SUBSET Steps, NEW given, \A s \in Steps : given[s] = "none"
  PROVE  TakenSoFar(targets, targets, given)
BY DEF TakenSoFar

(* What was taken is ordered before what is left, and recorded before it.  *)
LEMMA TakenIsWhole ==
  ASSUME NEW targets \in SUBSET Steps, NEW rest, NEW given,
         TakenSoFar(targets, rest, given)
  PROVE  /\ WholeAccount(targets, given, "none")
         /\ rest = {} => WholeAccount(targets, given, "completed")
<1>1. \A s \in Steps \ targets : given[s] = "none"
  BY DEF TakenSoFar
<1>2. ASSUME NEW s \in targets, NEW t \in targets, s < t, given[s] \in {"none", "not reached"}
      PROVE  given[t] = given[s]
  <2>1. s \in rest
    BY <1>2 DEF TakenSoFar, SettledVerdicts
  <2>2. t \in rest
    <3>1. t \notin rest => t < s
      BY <2>1 DEF TakenSoFar
    <3>2. s \in Int /\ t \in Int /\ s < t
      <4>1. Steps \subseteq Int
        BY DEF Steps
      <4> QED
        BY <1>2, <4>1
    <3>3. ~(t < s)
      BY <3>2
    <3> QED
      BY <3>1, <3>3
  <2> QED
    BY <2>1, <2>2 DEF TakenSoFar
<1> QED
  BY <1>1, <1>2 DEF WholeAccount, TakenSoFar

(* The next step settled is one more taken.                                *)
LEMMA OneMoreTaken ==
  ASSUME NEW targets \in SUBSET Steps, NEW rest, NEW given \in [Steps -> Verdicts],
         TakenSoFar(targets, rest, given),
         NEW s \in rest, \A t \in rest : s <= t, NEW how \in SettledVerdicts
  PROVE  TakenSoFar(targets, rest \ {s}, [given EXCEPT ![s] = how])
<1>1. s \in Steps /\ rest \ {s} \subseteq targets
  BY DEF TakenSoFar
<1>2. \A t \in Steps : t \in rest \ {s} \/ t \notin targets => [given EXCEPT ![s] = how][t] = "none"
  BY DEF TakenSoFar
<1>3. ASSUME NEW t \in targets \ (rest \ {s})
      PROVE  /\ [given EXCEPT ![s] = how][t] \in SettledVerdicts
             /\ \A u \in rest \ {s} : t < u
  BY <1>1 DEF TakenSoFar, Steps
<1> QED
  BY <1>1, <1>2, <1>3 DEF TakenSoFar

(* A run that stops at a step, or before one, has a whole account with     *)
(* what it never reached.                                                  *)
LEMMA StoppedIsWhole ==
  ASSUME NEW targets \in SUBSET Steps, NEW rest, NEW given \in [Steps -> Verdicts],
         TakenSoFar(targets, rest, given),
         NEW s \in rest, \A t \in rest : s <= t, NEW how \in {"ran", "refused"}
  PROVE  WholeAccount(targets, WithUnreached([given EXCEPT ![s] = how], rest \ {s}), "stopped")
<1>1. PICK given2 : given2 = WithUnreached([given EXCEPT ![s] = how], rest \ {s})
  OBVIOUS
<1>2. s \in Steps /\ s \in targets /\ rest \subseteq targets /\ Steps \subseteq Int
  BY StepsAssumption DEF TakenSoFar, Steps
<1>3. \A t \in Steps : given2[t] = IF t \in rest \ {s} THEN "not reached"
                                   ELSE IF t = s THEN how ELSE given[t]
  BY <1>1 DEF WithUnreached
<1>4. \A t \in Steps \ targets : given2[t] = "none"
  BY <1>2, <1>3 DEF TakenSoFar
<1>5. ASSUME NEW t \in targets, NEW u \in targets, t < u, given2[t] \in {"none", "not reached"}
      PROVE  given2[u] = given2[t]
  <2>1. t \in rest \ {s}
    BY <1>3, <1>5 DEF TakenSoFar, SettledVerdicts
  <2>2. u \in rest \ {s}
    <3>1. u \notin rest => u < t
      BY <2>1 DEF TakenSoFar
    <3>2. s \in Int /\ t \in Int /\ u \in Int /\ s <= t /\ t < u
      BY <1>2, <1>5, <2>1
    <3>3. ~(u < t) /\ u # s
      BY <3>2
    <3> QED
      BY <3>1, <3>3
  <2> QED
    BY <1>3, <2>1, <2>2
<1>6. \A t \in targets : given2[t] # "none"
  BY <1>3 DEF TakenSoFar, SettledVerdicts
<1> QED
  BY <1>1, <1>4, <1>5, <1>6 DEF WholeAccount

(* So does one that lost its lock before a step.                           *)
LEMMA LostIsWhole ==
  ASSUME NEW targets \in SUBSET Steps, NEW rest, NEW given, TakenSoFar(targets, rest, given)
  PROVE  WholeAccount(targets, WithUnreached(given, rest), "lock lost")
<1>1. PICK given2 : given2 = WithUnreached(given, rest)
  OBVIOUS
<1>2. rest \subseteq targets /\ Steps \subseteq Int
  BY StepsAssumption DEF TakenSoFar, Steps
<1>3. \A t \in Steps : given2[t] = IF t \in rest THEN "not reached" ELSE given[t]
  BY <1>1 DEF WithUnreached
<1>4. \A t \in Steps \ targets : given2[t] = "none"
  BY <1>2, <1>3 DEF TakenSoFar
<1>5. ASSUME NEW t \in targets, NEW u \in targets, t < u, given2[t] \in {"none", "not reached"}
      PROVE  given2[u] = given2[t]
  <2>1. t \in rest
    BY <1>3, <1>5 DEF TakenSoFar, SettledVerdicts
  <2>2. u \in rest
    <3>1. u \notin rest => u < t
      BY <2>1 DEF TakenSoFar
    <3>2. t \in Int /\ u \in Int /\ t < u
      BY <1>2, <1>5
    <3>3. ~(u < t)
      BY <3>2
    <3> QED
      BY <3>1, <3>3
  <2> QED
    BY <1>3, <2>1, <2>2
<1>6. \A t \in targets : given2[t] # "none"
  BY <1>3 DEF TakenSoFar, SettledVerdicts
<1> QED
  BY <1>1, <1>4, <1>5, <1>6 DEF WholeAccount

(* A run before its steps keeps a blank account until it takes them.       *)
LEMMA StillBlank ==
  ASSUME TypeOK, NEW r \in Runs, AccountOf(r),
         pc[r] \notin {"ended", "dead"}, ~TakingSteps(r), ~TakingSteps(r)',
         UNCHANGED <<request, verdict>>,
         pc'[r] # "ended" => outcome'[r] = "none",
         outcome'[r] \notin {"completed", "lock lost"},
         pc'[r] = "waiting" => child'[r].step = Reset
  PROVE  AccountOf(r)'
<1>1. request[r].targets \in SUBSET Steps
  BY RequestsLieInTheGraph
<1>2. \A s \in Steps : verdict[r][s] = "none"
  BY DEF AccountOf
<1>3. WholeAccount(request[r].targets, verdict[r], outcome'[r])
  BY <1>1, <1>2, NothingIsWhole
<1> QED
  BY <1>2, <1>3 DEF AccountOf

(* A run at its steps keeps its account until it settles one.              *)
LEMMA StillTaking ==
  ASSUME TypeOK, NEW r \in Runs, AccountOf(r), TakingSteps(r),
         UNCHANGED <<request, verdict, left, outcome>>,
         TakingSteps(r)',
         pc'[r] = "waiting" => First(r, child'[r].step)
  PROVE  AccountOf(r)'
<1>1. pc'[r] \notin {"ended", "dead"} /\ pc[r] # "ended"
  BY DEF TakingSteps
<1>2. First(r, child'[r].step) => First(r, child[r].step)'
  BY DEF First
<1> QED
  BY <1>1, <1>2 DEF AccountOf

(* A verdict on the first step left keeps the account true, whether the    *)
(* run goes on or ends with it.                                            *)
LEMMA VerdictsAreKept ==
  ASSUME TypeOK, NEW r \in Runs, AccountOf(r), TakingSteps(r), NEW s \in left[r], First(r, s),
         UNCHANGED request,
         \/ \E how \in SettledVerdicts : Settle(r, s, how)
         \/ \E how \in {"ran", "refused"} : Stop(r, s, how)
  PROVE  AccountOf(r)'
<1>1. /\ request[r].targets \in SUBSET Steps
      /\ verdict \in [Runs -> [Steps -> Verdicts]] /\ verdict[r] \in [Steps -> Verdicts]
      /\ pc \in [Runs -> Places] /\ outcome \in [Runs -> RunOutcomes]
      /\ left \in [Runs -> SUBSET AllSteps]
  BY RequestsLieInTheGraph DEF TypeOK
<1>2. /\ TakenSoFar(request[r].targets, left[r], verdict[r]) /\ outcome[r] = "none"
      /\ \A t \in left[r] : s <= t
  BY DEF AccountOf, TakingSteps, First
<1>3. ASSUME NEW how \in SettledVerdicts, Settle(r, s, how) PROVE AccountOf(r)'
  <2>1. /\ pc'[r] = "taking" /\ outcome'[r] = "none"
        /\ left'[r] = left[r] \ {s} /\ verdict'[r] = [verdict[r] EXCEPT ![s] = how]
    BY <1>1, <1>2, <1>3 DEF Settle, Goto, Reached
  <2>2. TakenSoFar(request[r].targets, left[r] \ {s}, [verdict[r] EXCEPT ![s] = how])
    BY <1>1, <1>2, <1>3, OneMoreTaken
  <2>3. WholeAccount(request[r].targets, [verdict[r] EXCEPT ![s] = how], "none")
    BY <1>1, <2>2, TakenIsWhole
  <2> QED
    BY <2>1, <2>2, <2>3 DEF AccountOf, TakingSteps
<1>4. ASSUME NEW how \in {"ran", "refused"}, Stop(r, s, how) PROVE AccountOf(r)'
  <2>1. /\ pc'[r] = "ended" /\ outcome'[r] = "stopped"
        /\ verdict'[r] = WithUnreached([verdict[r] EXCEPT ![s] = how], left[r] \ {s})
    BY <1>1, <1>4 DEF Stop, End, Goto
  <2>2. WholeAccount(request[r].targets,
                     WithUnreached([verdict[r] EXCEPT ![s] = how], left[r] \ {s}), "stopped")
    BY <1>1, <1>2, <1>4, StoppedIsWhole
  <2>3. WholeAccount(request[r].targets, verdict'[r], "stopped")
    BY <2>1, <2>2
  <2> QED
    BY <2>1, <2>3 DEF AccountOf, TakingSteps
<1> QED
  BY <1>3, <1>4

(* Every step of a run keeps its account true.                             *)
LEMMA AccountRunStep ==
  ASSUME TypeOK, NEW r \in Runs, AccountOf(r), RunStep(r) PROVE AccountOf(r)'
<1>1. /\ request[r].targets \in SUBSET Steps /\ request' = request
      /\ verdict \in [Runs -> [Steps -> Verdicts]] /\ verdict[r] \in [Steps -> Verdicts]
      /\ pc \in [Runs -> Places] /\ outcome \in [Runs -> RunOutcomes]
      /\ left \in [Runs -> SUBSET AllSteps] /\ child \in [Runs -> Children]
  BY RequestsLieInTheGraph, RunsMindThemselves DEF TypeOK
<1>2. pc[r] # "ended" => outcome[r] = "none"
  BY DEF AccountOf
<1>3. CASE Start(r) \/ Screen(r) \/ RecordIntent(r) \/ ClearIntent(r)
  <2>1. /\ pc[r] \in {"new", "probing", "recording", "sweeping"}
        /\ pc'[r] \in {"probing", "ended", "recording", "redoing", "resetting"}
        /\ UNCHANGED <<request, verdict>>
        /\ pc'[r] # "ended" => outcome'[r] = outcome[r]
        /\ pc'[r] = "ended" => outcome'[r] = "refused"
    BY <1>1, <1>3 DEF Start, Screen, RecordIntent, ClearIntent, Goto, End
  <2> QED
    BY <1>2, <2>1, StillBlank DEF TakingSteps
<1>4. CASE StartReset(r)
  <2>1. /\ pc[r] = "resetting" /\ pc'[r] = "waiting" /\ child'[r].step = Reset
        /\ UNCHANGED <<request, verdict, outcome>>
    BY <1>1, <1>4 DEF StartReset, Spawn, Goto
  <2> QED
    BY <1>2, <2>1, StillBlank DEF TakingSteps
<1>5. CASE BeginTaking(r)
  <2>1. /\ pc[r] = "redoing" /\ pc'[r] = "taking"
        /\ UNCHANGED <<request, verdict, outcome>>
        /\ left'[r] = request[r].targets
    BY <1>1, <1>5 DEF BeginTaking, Goto
  <2>2. \A s \in Steps : verdict[r][s] = "none"
    BY <2>1 DEF AccountOf, TakingSteps
  <2>3. TakenSoFar(request[r].targets, request[r].targets, verdict[r])
    BY <1>1, <2>2, NothingIsTaken
  <2> QED
    BY <1>2, <2>1, <2>3 DEF AccountOf, TakingSteps
<1>6. CASE Take(r)
  <2>1. TakingSteps(r) /\ pc[r] = "taking"
    BY <1>6 DEF Take, TakingSteps
  <2>2. TakenSoFar(request[r].targets, left[r], verdict[r]) /\ outcome[r] = "none"
    BY <1>2, <2>1 DEF AccountOf
  <2>3. CASE left[r] = {}
    <3>1. pc'[r] = "ended" /\ outcome'[r] = "completed" /\ verdict' = verdict
      BY <1>1, <1>6, <2>3 DEF Take, End, Goto
    <3>2. WholeAccount(request[r].targets, verdict[r], "completed")
      BY <1>1, <2>2, <2>3, TakenIsWhole
    <3> QED
      BY <1>1, <3>1, <3>2 DEF AccountOf, TakingSteps
  <2>4. CASE left[r] # {} /\ Held(r)
    <3>1. pc'[r] = "deciding" /\ UNCHANGED <<request, verdict, left, outcome>>
      BY <1>1, <1>6, <2>4 DEF Take, Goto
    <3> QED
      BY <2>1, <3>1, StillTaking DEF TakingSteps
  <2>5. CASE left[r] # {} /\ ~Held(r)
    <3>1. /\ pc'[r] = "ended" /\ outcome'[r] = "lock lost"
          /\ verdict'[r] = WithUnreached(verdict[r], left[r])
      BY <1>1, <1>6, <2>5 DEF Take, End, Goto
    <3>2. WholeAccount(request[r].targets, verdict'[r], "lock lost")
      BY <1>1, <2>2, <3>1, LostIsWhole
    <3> QED
      BY <1>1, <3>1, <3>2 DEF AccountOf, TakingSteps
  <2> QED
    BY <2>3, <2>4, <2>5
<1>7. CASE Reap(r)
  <2>1. pc[r] = "waiting" /\ outcome[r] = "none"
    BY <1>2, <1>7 DEF Reap
  <2>2. CASE child[r].step = Reset
    <3>1. /\ UNCHANGED <<request, verdict>>
          /\ \/ pc'[r] = "sweeping" /\ outcome'[r] = "none"
             \/ pc'[r] = "ended" /\ outcome'[r] = "stopped"
      BY <1>1, <1>7, <2>1, <2>2 DEF Reap, Goto, End
    <3> QED
      BY <2>1, <2>2, <3>1, StillBlank DEF TakingSteps
  <2>3. CASE child[r].step # Reset
    <3>1. TakingSteps(r) /\ First(r, child[r].step)
      BY <2>1, <2>3 DEF TakingSteps, AccountOf
    <3>2. \/ /\ pc'[r] = "binding"
             /\ UNCHANGED <<request, verdict, left, outcome>>
          \/ Stop(r, child[r].step, "ran")
      BY <1>1, <1>7, <2>3 DEF Reap, Goto
    <3>3. CASE pc'[r] = "binding" /\ UNCHANGED <<request, verdict, left, outcome>>
      BY <3>1, <3>3, StillTaking DEF TakingSteps
    <3>4. CASE Stop(r, child[r].step, "ran")
      <4>1. child[r].step \in left[r]
        BY <3>1 DEF First
      <4> QED
        BY <1>1, <3>1, <3>4, <4>1, VerdictsAreKept
    <3> QED
      BY <3>2, <3>3, <3>4
  <2> QED
    BY <2>2, <2>3
<1>8. CASE LoseCatalog(r)
  <2>1. pc'[r] = "dead" /\ UNCHANGED <<verdict, outcome>> /\ pc[r] # "ended"
    BY <1>1, <1>8 DEF LoseCatalog, Vanish, Goto
  <2> QED
    BY <1>1, <2>1 DEF AccountOf, TakingSteps
<1>9. ASSUME NEW s \in left[r], Probe(r, s) \/ Unprobe(r, s) \/ Sweep(r, s) \/ Forget(r, s)
      PROVE  AccountOf(r)'
  <2>1. /\ pc[r] \in {"probing", "probe", "sweeping", "redoing"}
        /\ pc'[r] \in {"probing", "probe", "sweeping", "redoing"}
        /\ UNCHANGED <<request, verdict, outcome>>
    BY <1>1, <1>9 DEF Probe, Unprobe, Sweep, Forget, Goto
  <2> QED
    BY <1>2, <2>1, StillBlank DEF TakingSteps
<1>10. ASSUME NEW s \in left[r], Decide(r, s) \/ Reseal(r, s) \/ Bind(r, s)
       PROVE  AccountOf(r)'
  <2>1. TakingSteps(r) /\ First(r, s) /\ pc[r] \in {"deciding", "resealing", "binding"}
    BY <1>10 DEF Decide, Reseal, Bind, TakingSteps
  <2>2. \/ \E how \in SettledVerdicts : Settle(r, s, how)
        \/ \E how \in {"ran", "refused"} : Stop(r, s, how)
        \/ /\ UNCHANGED <<verdict, left, outcome>>
           /\ pc'[r] \in {"resealing", "starting"}
    BY <1>1, <1>10 DEF Decide, Reseal, Bind, SettledVerdicts, Goto
  <2>3. CASE UNCHANGED <<verdict, left, outcome>> /\ pc'[r] \in {"resealing", "starting"}
    BY <1>1, <2>1, <2>3, StillTaking DEF TakingSteps
  <2> QED
    BY <1>1, <2>1, <2>2, <2>3, VerdictsAreKept
<1>11. ASSUME NEW s \in left[r], StartStep(r, s) PROVE AccountOf(r)'
  <2>1. /\ TakingSteps(r) /\ First(r, s) /\ pc'[r] = "waiting" /\ child'[r].step = s
        /\ UNCHANGED <<verdict, left, outcome>>
    BY <1>1, <1>11 DEF StartStep, Spawn, Goto, TakingSteps
  <2>2. s # Reset
    <3>1. left[r] \subseteq Steps
      BY <1>1, <2>1 DEF AccountOf, TakenSoFar
    <3> QED
      BY <3>1 DEF Steps, Reset
  <2> QED
    BY <1>1, <2>1, <2>2, StillTaking DEF TakingSteps
<1> QED
  BY <1>3, <1>4, <1>5, <1>6, <1>7, <1>8, <1>9, <1>10, <1>11 DEF RunStep

(* What one run's account is told from leaves every other's alone.         *)
LEMMA AccountStays ==
  ASSUME NEW q \in Runs, AccountOf(q),
         pc'[q] = pc[q], left'[q] = left[q], verdict'[q] = verdict[q], outcome'[q] = outcome[q],
         child'[q].step = child[q].step, request' = request
  PROVE  AccountOf(q)'
BY DEF AccountOf, TakingSteps, First

(* Every step of the system keeps every account true.                      *)
LEMMA AccountNext ==
  ASSUME TypeOK, AccountInv, [Next]_vars PROVE AccountInv'
<1>1. ASSUME NEW r \in Runs, RunStep(r) PROVE AccountInv'
  <2>1. AccountOf(r)'
    BY <1>1, AccountRunStep DEF AccountInv
  <2>2. \A q \in Runs \ {r} : AccountOf(q)'
    BY <1>1, RunsMindThemselves, AccountStays DEF AccountInv
  <2> QED
    BY <2>1, <2>2 DEF AccountInv
<1>2. ASSUME NEW r \in Runs, ChildStep(r) PROVE AccountInv'
  <2>1. \A q \in Runs : child'[q].step = child[q].step
    BY <1>2, ProcessesMindThemselves
  <2>2. UNCHANGED <<pc, left, verdict, outcome, request>>
    BY <1>2, ProcessesMindThemselves
  <2> QED
    BY <2>1, <2>2, AccountStays DEF AccountInv
<1>3. ASSUME NEW r \in Runs, Interrupt(r) PROVE AccountInv'
  BY <1>3, AccountStays DEF Interrupt, AccountInv
<1>4. ASSUME NEW r \in Runs, Die(r) PROVE AccountInv'
  <2>1. /\ UNCHANGED <<request, verdict, outcome, child>> /\ pc'[r] = "dead" /\ Acting(r)
        /\ \A q \in Runs \ {r} : pc'[q] = pc[q] /\ left'[q] = left[q]
    BY <1>4 DEF Die, Vanish, Goto, TypeOK
  <2>2. AccountOf(r)'
    BY <2>1 DEF AccountInv, AccountOf, TakingSteps, Acting
  <2>3. \A q \in Runs \ {r} : AccountOf(q)'
    BY <2>1, AccountStays DEF AccountInv
  <2> QED
    BY <2>2, <2>3 DEF AccountInv
<1>5. CASE Restart \/ UNCHANGED vars
  <2>1. UNCHANGED <<pc, left, verdict, outcome, request, child>>
    BY <1>5 DEF Restart, vars, runVars
  <2> QED
    BY <2>1, AccountStays DEF AccountInv
<1> QED
  BY <1>1, <1>2, <1>3, <1>4, <1>5 DEF Next, Quiet

(* No run has an account to give at the start.                             *)
LEMMA AccountInit == Init => AccountInv
<1> SUFFICES ASSUME Init, NEW r \in Runs PROVE AccountOf(r)
  BY DEF AccountInv
<1>1. request[r].targets \in SUBSET Steps
  BY TypeInit, RequestsLieInTheGraph
<1>2. /\ \A s \in Steps : verdict[r][s] = "none"
      /\ pc[r] = "new" /\ outcome[r] = "none"
  BY DEF Init
<1>3. WholeAccount(request[r].targets, verdict[r], "none")
  BY <1>1, <1>2, NothingIsWhole
<1> QED
  BY <1>2, <1>3 DEF AccountOf, TakingSteps

(* The account a run leaves names every step of its targets, in order and  *)
(* up to where it stopped, whatever dies and however often the database    *)
(* server restarts (pipeline/scheduler.py, _take_in_order).                *)
THEOREM AccountsNameEveryStep == Spec => []AccountNamesEveryStep
<1>1. Init => AccountInv
  BY AccountInit
<1>2. TypeOK /\ AccountInv /\ [Next]_vars => AccountInv'
  BY AccountNext
<1>3. AccountInv => AccountNamesEveryStep
  BY DEF AccountInv, AccountOf, WholeAccount, AccountNamesEveryStep, SettledVerdicts
<1> QED
  BY <1>1, <1>2, <1>3, TypeCorrect, PTL DEF Spec

-----------------------------------------------------------------------------
(* What becomes of the processes of dead runs, as long as none slipped     *)
(* past the check of a relaunch.                                           *)

(* A dead run's process had its lock...                                    *)
DeadHeldTheirLocks == ~slipped => \A q \in Runs : pc[q] = "dead" => child[q].at # "starting"

(* ...which the probes of a relaunch have yet to come to or have found.    *)
ProbesComeToIt ==
  ~slipped => \A r, q \in Runs :
    r # q /\ pc[r] \in {"probing", "probe"} /\ HoldsItsStep(q) =>
      child[q].step \in left[r] \cup busy[r]

OrphanInv == DeadHeldTheirLocks /\ ProbesComeToIt /\ LockedOrphansAreSeen

(* A run that takes a step of its own has no process at work and lives.    *)
LEMMA RunsStepAlone ==
  ASSUME TypeOK, LockInv, NEW r \in Runs, RunStep(r)
  PROVE  pc'[r] # "dead" /\ ~HoldsItsStep(r)'
<1>1. /\ pc \in [Runs -> Places] /\ child \in [Runs -> Children]
      /\ pc[r] \notin {"waiting", "dead"} => child[r].at = "none"
      /\ Acting(r) => Owns(r)
  BY DEF TypeOK, LockInv, ChildInv, LibraryLockInv, Owns
<1>2. CASE Start(r) \/ Screen(r) \/ RecordIntent(r) \/ ClearIntent(r) \/ BeginTaking(r) \/ Take(r)
  <2>1. pc[r] \notin {"waiting", "dead"} /\ child' = child /\ pc'[r] # "dead"
    BY <1>1, <1>2 DEF Start, Screen, RecordIntent, ClearIntent, BeginTaking, Take, End, Goto
  <2> QED
    BY <1>1, <2>1 DEF HoldsItsStep
<1>3. CASE StartReset(r)
  BY <1>1, <1>3 DEF StartReset, Spawn, Goto, HoldsItsStep
<1>4. CASE Reap(r)
  <2>1. child'[r] = NoChild /\ pc'[r] \in {"sweeping", "binding", "ended"}
    BY <1>1, <1>4 DEF Reap, Stop, End, Goto
  <2> QED
    BY <2>1 DEF HoldsItsStep, NoChild
<1>5. CASE LoseCatalog(r)
  BY <1>1, <1>5 DEF LoseCatalog, Acting
<1>6. ASSUME NEW s \in left[r], Probe(r, s) \/ Unprobe(r, s) \/ Sweep(r, s) \/ Forget(r, s)
      PROVE  pc'[r] # "dead" /\ ~HoldsItsStep(r)'
  <2>1. pc[r] \notin {"waiting", "dead"} /\ child' = child /\ pc'[r] # "dead"
    BY <1>1, <1>6 DEF Probe, Unprobe, Sweep, Forget, Goto
  <2> QED
    BY <1>1, <2>1 DEF HoldsItsStep
<1>7. ASSUME NEW s \in left[r], Decide(r, s) \/ Reseal(r, s) \/ Bind(r, s)
      PROVE  pc'[r] # "dead" /\ ~HoldsItsStep(r)'
  <2>1. pc[r] \notin {"waiting", "dead"} /\ child' = child /\ pc'[r] # "dead"
    BY <1>1, <1>7 DEF Decide, Reseal, Bind, Settle, Stop, End, Goto
  <2> QED
    BY <1>1, <2>1 DEF HoldsItsStep
<1>8. ASSUME NEW s \in left[r], StartStep(r, s)
      PROVE  pc'[r] # "dead" /\ ~HoldsItsStep(r)'
  BY <1>1, <1>8 DEF StartStep, Spawn, Goto, HoldsItsStep
<1> QED
  BY <1>2, <1>3, <1>4, <1>5, <1>6, <1>7, <1>8 DEF RunStep

(* A run gets past its check only where it found nothing at work.          *)
LEMMA ChecksFindNothing ==
  ASSUME TypeOK, NEW r \in Runs, RunStep(r), PastTheCheck(r)'
  PROVE  \/ PastTheCheck(r)
         \/ pc[r] = "probing" /\ left[r] = {} /\ busy[r] = {}
<1> USE DEF PastTheCheck, Acting
<1>0. pc \in [Runs -> Places]
  BY DEF TypeOK
<1>1. CASE Start(r)
  BY <1>0, <1>1 DEF Start, End, Goto
<1>2. CASE Screen(r)
  BY <1>0, <1>2 DEF Screen, RefusedAtTheCheck, End, Goto
<1>3. CASE LoseCatalog(r)
  BY <1>0, <1>3 DEF LoseCatalog, Vanish, Goto
<1>4. ASSUME NEW s \in left[r], Probe(r, s) \/ Unprobe(r, s)
      PROVE  PastTheCheck(r)
  BY <1>0, <1>4 DEF Probe, Unprobe, Goto
<1>5. CASE \/ RecordIntent(r) \/ StartReset(r) \/ ClearIntent(r)
           \/ BeginTaking(r) \/ Take(r) \/ Reap(r)
  BY <1>5 DEF RecordIntent, StartReset, ClearIntent, BeginTaking, Take, Reap
<1>6. ASSUME NEW s \in left[r],
             Sweep(r, s) \/ Forget(r, s) \/ Decide(r, s) \/ Reseal(r, s) \/ StartStep(r, s) \/ Bind(r, s)
      PROVE  PastTheCheck(r)
  BY <1>6 DEF Sweep, Forget, Decide, Reseal, StartStep, Bind
<1> QED
  BY <1>1, <1>2, <1>3, <1>4, <1>5, <1>6 DEF RunStep

(* A probe finds the lock another run's process holds, and a free one is   *)
(* nobody's.                                                               *)
LEMMA ProbesMissNothing ==
  ASSUME TypeOK, LockInv, NEW r \in Runs, NEW q \in Runs \ {r}, HoldsItsStep(q), RunStep(r),
         pc'[r] \in {"probing", "probe"},
         pc[r] \in {"probing", "probe"} => child[q].step \in left[r] \cup busy[r]
  PROVE  child[q].step \in left'[r] \cup busy'[r]
<1>1. /\ pc \in [Runs -> Places] /\ left \in [Runs -> SUBSET AllSteps]
      /\ busy \in [Runs -> SUBSET AllSteps]
      /\ child[q].step \in AllSteps /\ stepLock[child[q].step] = q
  BY DEF TypeOK, LockInv, ChildInv, WorkerHoldsInv, HoldsItsStep
<1>2. CASE Start(r)
  BY <1>1, <1>2 DEF Start, End, Goto
<1>3. ASSUME NEW s \in left[r], Probe(r, s) PROVE child[q].step \in left'[r] \cup busy'[r]
  BY <1>1, <1>3 DEF Probe, Reached
<1>4. ASSUME NEW s \in left[r], Unprobe(r, s) PROVE child[q].step \in left'[r] \cup busy'[r]
  <2>1. stepLock[s] = r
    BY <1>1, <1>4 DEF Unprobe, LockInv, ProbeHoldsInv
  <2> QED
    BY <1>1, <1>4, <2>1 DEF Unprobe, Reached
<1>5. CASE \/ Screen(r) \/ RecordIntent(r) \/ StartReset(r) \/ ClearIntent(r)
           \/ BeginTaking(r) \/ Take(r) \/ LoseCatalog(r)
  BY <1>1, <1>5 DEF Screen, RecordIntent, StartReset, Spawn, ClearIntent, BeginTaking, Take,
                    LoseCatalog, Vanish, End, Goto
<1>6. CASE Reap(r)
  <2>1. pc'[r] \in {"sweeping", "binding", "ended"}
    BY <1>1, <1>6 DEF Reap, Stop, End, Goto
  <2> QED
    BY <2>1
<1>7. ASSUME NEW s \in left[r],
             Sweep(r, s) \/ Forget(r, s) \/ Decide(r, s) \/ Reseal(r, s) \/ StartStep(r, s) \/ Bind(r, s)
      PROVE  FALSE
  BY <1>1, <1>7 DEF Sweep, Forget, Decide, Reseal, StartStep, Spawn, Bind, Settle, Stop, End, Goto
<1> QED
  BY <1>2, <1>3, <1>4, <1>5, <1>6, <1>7 DEF RunStep

(* Every step of a run keeps an eye on the processes of dead ones.         *)
LEMMA OrphanRunStep ==
  ASSUME TypeOK, LockInv, OrphanInv, NEW r \in Runs, RunStep(r) PROVE OrphanInv'
<1>1. /\ slipped' = slipped
      /\ \A q \in Runs \ {r} :
           pc'[q] = pc[q] /\ left'[q] = left[q] /\ busy'[q] = busy[q] /\ child'[q] = child[q]
  BY RunsMindThemselves
<1>2. pc'[r] # "dead" /\ ~HoldsItsStep(r)'
  BY RunsStepAlone
<1>3. DeadHeldTheirLocks'
  BY <1>1, <1>2 DEF OrphanInv, DeadHeldTheirLocks
<1>4. ProbesComeToIt'
  <2> SUFFICES ASSUME ~slipped', NEW p \in Runs, NEW q \in Runs, p # q,
                      pc'[p] \in {"probing", "probe"}, HoldsItsStep(q)'
               PROVE  child'[q].step \in left'[p] \cup busy'[p]
    BY DEF ProbesComeToIt
  <2>1. q # r /\ child'[q] = child[q] /\ HoldsItsStep(q) /\ ~slipped
    BY <1>1, <1>2 DEF HoldsItsStep
  <2>2. pc[p] \in {"probing", "probe"} => child[q].step \in left[p] \cup busy[p]
    BY <2>1 DEF OrphanInv, ProbesComeToIt
  <2>3. CASE p = r
    BY <2>1, <2>2, <2>3, ProbesMissNothing
  <2>4. CASE p # r
    BY <1>1, <2>1, <2>2, <2>4
  <2> QED
    BY <2>3, <2>4
<1>5. LockedOrphansAreSeen'
  <2> SUFFICES ASSUME ~slipped', NEW p \in Runs, NEW q \in Runs, p # q,
                      PastTheCheck(p)', HoldsItsStep(q)'
               PROVE  FALSE
    BY DEF LockedOrphansAreSeen, NoRunActsBesideAnOrphan
  <2>1. q # r /\ HoldsItsStep(q) /\ ~slipped
    BY <1>1, <1>2 DEF HoldsItsStep
  <2>2. ~PastTheCheck(p)
    BY <2>1 DEF OrphanInv, LockedOrphansAreSeen, NoRunActsBesideAnOrphan
  <2>3. p = r
    BY <1>1, <2>2 DEF PastTheCheck, Acting
  <2>4. pc[r] = "probing" /\ left[r] = {} /\ busy[r] = {}
    BY <2>2, <2>3, ChecksFindNothing
  <2> QED
    BY <2>1, <2>3, <2>4 DEF OrphanInv, ProbesComeToIt
<1> QED
  BY <1>3, <1>4, <1>5 DEF OrphanInv

(* A process that comes to work belongs to a run that waits for it, which  *)
(* is then the one that acts.                                              *)
LEMMA WorkersAreAwaited ==
  ASSUME TypeOK, LockInv, OrphanInv, ~slipped, NEW r \in Runs, ChildStep(r), ~HoldsItsStep(r)
  PROVE  pc[r] = "waiting" /\ \A q \in Runs \ {r} : ~Acting(q)
<1>1. child[r].at = "starting"
  BY ProcessesMindThemselves DEF HoldsItsStep
<1>2. pc[r] = "waiting"
  BY <1>1 DEF LockInv, ChildInv, OrphanInv, DeadHeldTheirLocks
<1> QED
  BY <1>2 DEF LockInv, LibraryLockInv, Acting

(* Every step of a process keeps that eye on it.                           *)
LEMMA OrphanChildStep ==
  ASSUME TypeOK, LockInv, OrphanInv, NEW r \in Runs, ChildStep(r) PROVE OrphanInv'
<1>1. /\ UNCHANGED <<pc, left, busy, slipped>>
      /\ \A q \in Runs \ {r} : child'[q] = child[q]
      /\ child'[r].step = child[r].step
  BY ProcessesMindThemselves
<1>2. child'[r].at # "starting"
  <2>1. ASSUME NEW at \in {"working", "finished"}, ChildAt(r, at) PROVE child'[r].at # "starting"
    BY <2>1 DEF ChildAt, TypeOK, Children
  <2>2. ASSUME NEW status, Exited(r, status) PROVE child'[r].at # "starting"
    BY <2>2 DEF Exited, TypeOK, Children
  <2> QED
    BY <2>1, <2>2 DEF ChildStep, TakeStepLock, EmptyCatalog, Produce, Exit, Killed
<1>3. DeadHeldTheirLocks'
  BY <1>1, <1>2 DEF OrphanInv, DeadHeldTheirLocks
<1>4. ASSUME ~slipped, NEW p \in Runs, NEW q \in Runs, p # q, Acting(p), HoldsItsStep(q)'
      PROVE  HoldsItsStep(q) /\ child'[q].step = child[q].step
  <2>1. CASE q = r
    BY <1>1, <1>4, <2>1, WorkersAreAwaited
  <2>2. CASE q # r
    BY <1>1, <1>4, <2>2 DEF HoldsItsStep
  <2> QED
    BY <2>1, <2>2
<1>5. ProbesComeToIt'
  <2> SUFFICES ASSUME ~slipped', NEW p \in Runs, NEW q \in Runs, p # q,
                      pc'[p] \in {"probing", "probe"}, HoldsItsStep(q)'
               PROVE  child'[q].step \in left'[p] \cup busy'[p]
    BY DEF ProbesComeToIt
  <2>1. Acting(p) /\ ~slipped /\ pc[p] \in {"probing", "probe"}
    BY <1>1 DEF Acting
  <2> QED
    BY <1>1, <1>4, <2>1 DEF OrphanInv, ProbesComeToIt
<1>6. LockedOrphansAreSeen'
  <2> SUFFICES ASSUME ~slipped', NEW p \in Runs, NEW q \in Runs, p # q,
                      PastTheCheck(p)', HoldsItsStep(q)'
               PROVE  FALSE
    BY DEF LockedOrphansAreSeen, NoRunActsBesideAnOrphan
  <2>1. Acting(p) /\ ~slipped /\ PastTheCheck(p)
    BY <1>1 DEF PastTheCheck, Acting
  <2> QED
    BY <1>4, <2>1 DEF OrphanInv, LockedOrphansAreSeen, NoRunActsBesideAnOrphan
<1> QED
  BY <1>3, <1>5, <1>6 DEF OrphanInv

(* What the invariant reads is all it depends on.                          *)
LEMMA OrphanFrame ==
  ASSUME OrphanInv, UNCHANGED <<pc, left, busy, child, slipped>> PROVE OrphanInv'
BY DEF OrphanInv, DeadHeldTheirLocks, ProbesComeToIt, LockedOrphansAreSeen,
       NoRunActsBesideAnOrphan, PastTheCheck, Acting, HoldsItsStep

(* Every step of the system keeps that eye.                                *)
LEMMA OrphanNext ==
  ASSUME TypeOK, LockInv, OrphanInv, [Next]_vars PROVE OrphanInv'
<1>1. ASSUME NEW r \in Runs, RunStep(r) \/ ChildStep(r) PROVE OrphanInv'
  BY <1>1, OrphanRunStep, OrphanChildStep
<1>2. ASSUME NEW r \in Runs, Interrupt(r) PROVE OrphanInv'
  BY <1>2, OrphanFrame DEF Interrupt
<1>3. ASSUME NEW r \in Runs, Die(r) PROVE OrphanInv'
  <2>1. /\ UNCHANGED child /\ pc'[r] = "dead"
        /\ \A q \in Runs \ {r} : pc'[q] = pc[q] /\ left'[q] = left[q] /\ busy'[q] = busy[q]
        /\ ~slipped' => ~slipped /\ child[r].at # "starting"
    BY <1>3 DEF Die, Vanish, Goto, TypeOK
  <2>2. DeadHeldTheirLocks' /\ ProbesComeToIt'
    BY <2>1 DEF OrphanInv, DeadHeldTheirLocks, ProbesComeToIt, HoldsItsStep
  <2>3. LockedOrphansAreSeen'
    BY <2>1 DEF OrphanInv, LockedOrphansAreSeen, NoRunActsBesideAnOrphan, HoldsItsStep,
                PastTheCheck, Acting
  <2> QED
    BY <2>2, <2>3 DEF OrphanInv
<1>4. CASE Restart \/ UNCHANGED vars
  BY <1>4, OrphanFrame DEF Restart, vars, runVars
<1> QED
  BY <1>1, <1>2, <1>3, <1>4 DEF Next, Quiet

(* No run is past its check at the start.                                  *)
LEMMA OrphanInit == Init => OrphanInv
BY DEF Init, OrphanInv, DeadHeldTheirLocks, ProbesComeToIt, LockedOrphansAreSeen,
       NoRunActsBesideAnOrphan, PastTheCheck, Acting

(* "A relaunch while an orphaned step still runs, is refused", but for a   *)
(* process that was still starting up when its run died                    *)
(* (pipeline/scheduler.py, running_steps; pipeline/step_lock.py).          *)
THEOREM LockedOrphansAreAlwaysSeen == Spec => [](restarts = 0 => LockedOrphansAreSeen)
<1>1. Init => OrphanInv
  BY OrphanInit
<1>2. TypeOK /\ (restarts = 0 => LockInv /\ OrphanInv) /\ [Next]_vars
        => (restarts = 0 => OrphanInv)'
  BY OrphanNext, UpBefore
<1>3. OrphanInv => LockedOrphansAreSeen
  BY DEF OrphanInv
<1> QED
  BY <1>1, <1>2, <1>3, LocksAreTrue, TypeCorrect, PTL DEF Spec

-----------------------------------------------------------------------------
(* What a run settled stays settled while it goes on.                      *)

(* A step that needs another is declared after it.                         *)
LEMMA DescendantsComeLater ==
  ASSUME NEW s \in Steps, NEW t \in Descendants(Requires, s) PROVE t \in Steps /\ s < t
<1>1. DOMAIN Requires = Steps /\ Steps \subseteq Int
  BY GraphAssumption DEF Steps
<1>2. t \in Steps /\ t # s /\ s \in Needed(Requires, {t})
  BY <1>1 DEF Descendants
<1>3. PICK before : before = {u \in Steps : u <= t}
  OBVIOUS
<1>4. Closed(Requires, before)
  <2> SUFFICES ASSUME NEW u \in before, NEW v \in Requires[u] PROVE v \in before
    BY DEF Closed
  <2>1. u \in Steps /\ u <= t
    BY <1>3
  <2>2. v \in Steps /\ v < u
    BY <1>1, <2>1, GraphAssumption DEF DeclaredInOrder
  <2>3. v \in Int /\ u \in Int /\ t \in Int
    BY <1>1, <1>2, <2>1, <2>2
  <2>4. v <= t
    BY <2>1, <2>2, <2>3
  <2> QED
    BY <1>3, <2>2, <2>4
<1>5. before \subseteq Steps /\ t \in before
  BY <1>1, <1>2, <1>3
<1>6. s \in before
  BY <1>1, <1>2, <1>4, <1>5 DEF Needed
<1> QED
  BY <1>1, <1>2, <1>3, <1>6

(* A run builds nothing itself: its outputs go, or stay and get sealed.    *)
LEMMA RunsBuildNothing ==
  ASSUME TypeOK, NEW r \in Runs, RunStep(r)
  PROVE  /\ \A s \in Steps : \/ output'[s] = output[s]
                             \/ output'[s] = "absent"
                             \/ output[s] # "absent" /\ output'[s] = "sealed"
         /\ intent' = intent \/ RecordIntent(r) \/ ClearIntent(r)
<1>0. output \in [Steps -> Outputs]
  BY DEF TypeOK
<1>1. CASE \/ Start(r) \/ Screen(r) \/ RecordIntent(r) \/ StartReset(r) \/ ClearIntent(r)
           \/ BeginTaking(r) \/ Take(r) \/ Reap(r) \/ LoseCatalog(r)
  <2>1. output' = output /\ (intent' = intent \/ RecordIntent(r) \/ ClearIntent(r))
    BY <1>1 DEF Start, Screen, RecordIntent, StartReset, ClearIntent, BeginTaking, Take, Reap,
                LoseCatalog, libraryVars
  <2> QED
    BY <2>1
<1>2. ASSUME NEW s \in left[r], Probe(r, s) \/ Unprobe(r, s) \/ Decide(r, s) \/ StartStep(r, s)
      PROVE  UNCHANGED <<output, intent>>
  BY <1>2 DEF Probe, Unprobe, Decide, StartStep, libraryVars
<1>3. ASSUME NEW s \in left[r], Sweep(r, s) \/ Forget(r, s)
      PROVE  output' = [output EXCEPT ![s] = "absent"] /\ intent' = intent
  BY <1>3 DEF Sweep, Forget
<1>4. ASSUME NEW s \in left[r], Reseal(r, s) \/ Bind(r, s)
      PROVE  /\ \/ UNCHANGED output
                \/ output[s] # "absent" /\ output' = [output EXCEPT ![s] = "sealed"]
             /\ intent' = intent
  BY <1>4 DEF Reseal, Bind
<1>5. ASSUME NEW s \in left[r], \/ Sweep(r, s) \/ Forget(r, s) \/ Reseal(r, s) \/ Bind(r, s)
      PROVE  /\ \A t \in Steps : \/ output'[t] = output[t]
                                 \/ output'[t] = "absent"
                                 \/ output[t] # "absent" /\ output'[t] = "sealed"
             /\ intent' = intent
  BY <1>0, <1>3, <1>4, <1>5
<1> QED
  BY <1>1, <1>2, <1>5 DEF RunStep

(* A step of a run is the one of the run that acts, or a start.            *)
LEMMA OthersStandBy ==
  ASSUME TypeOK, LockInv, NEW r \in Runs, RunStep(r)
  PROVE  \/ UNCHANGED <<output, intent>> /\ Start(r)
         \/ Acting(r) /\ \A q \in Runs \ {r} : ~Acting(q)
<1>1. ASSUME Acting(r) PROVE \A q \in Runs \ {r} : ~Acting(q)
  BY <1>1 DEF LockInv, LibraryLockInv
<1>2. Start(r) => UNCHANGED <<output, intent>>
  BY DEF Start, libraryVars
<1>3. ~Start(r) => Acting(r)
  BY DEF RunStep, Acting, Screen, RecordIntent, StartReset, ClearIntent, BeginTaking, Take, Reap,
         LoseCatalog, Probe, Unprobe, Sweep, Forget, Decide, Reseal, StartStep, Bind
<1> QED
  BY <1>1, <1>2, <1>3

(* What one run has settled.                                               *)
SettledOf(r) == request[r].targets \ (left[r] \cup Passes)
StandsFor(r) == TakingSteps(r) /\ ~slipped => \A s \in SettledOf(r) : output[s] = "sealed"

(* A step of a run at its steps leaves what it settled, and settles what   *)
(* stands.                                                                 *)
LEMMA StandsRunStep ==
  ASSUME TypeOK, NEW r \in Runs, AccountOf(r), StandsFor(r), RunStep(r) PROVE StandsFor(r)'
<1> SUFFICES ASSUME TakingSteps(r)', ~slipped', NEW t \in SettledOf(r)'
             PROVE  output'[t] = "sealed"
  BY DEF StandsFor
<1>1. /\ pc \in [Runs -> Places] /\ left \in [Runs -> SUBSET AllSteps]
      /\ child \in [Runs -> Children] /\ output \in [Steps -> Outputs]
      /\ request' = request /\ slipped' = slipped
      /\ request[r].targets \in SUBSET Steps
  BY RunsMindThemselves, RequestsLieInTheGraph DEF TypeOK
<1>2. t \in Steps /\ t \in request[r].targets /\ t \notin left'[r] /\ t \notin Passes
  BY <1>1 DEF SettledOf
<1>3. ASSUME TakingSteps(r), t \notin left[r] PROVE output[t] = "sealed"
  BY <1>1, <1>2, <1>3 DEF StandsFor, SettledOf
<1>4. CASE \/ Start(r) \/ Screen(r) \/ RecordIntent(r) \/ StartReset(r) \/ ClearIntent(r)
           \/ LoseCatalog(r)
  BY <1>1, <1>4 DEF Start, Screen, RecordIntent, StartReset, Spawn, ClearIntent, LoseCatalog,
                    Vanish, End, Goto, TakingSteps
<1>5. CASE BeginTaking(r)
  BY <1>1, <1>2, <1>5 DEF BeginTaking
<1>6. CASE Take(r)
  <2>1. /\ pc[r] = "taking" /\ output' = output
        /\ pc'[r] = "ended" \/ left' = left
    BY <1>1, <1>6 DEF Take, End, Goto, libraryVars
  <2> QED
    BY <1>2, <1>3, <2>1 DEF TakingSteps
<1>7. CASE Reap(r)
  <2>1. pc'[r] \in {"sweeping", "binding", "ended"} /\ output' = output /\ pc[r] = "waiting"
    BY <1>1, <1>7 DEF Reap, Stop, End, Goto, libraryVars
  <2>2. pc'[r] = "binding"
    BY <2>1 DEF TakingSteps
  <2>3. child[r].step # Reset /\ left' = left
    BY <1>1, <1>7, <2>2 DEF Reap, Stop, End, Goto
  <2> QED
    BY <1>2, <1>3, <2>1, <2>3 DEF TakingSteps
<1>8. ASSUME NEW s \in left[r], Probe(r, s) \/ Unprobe(r, s) \/ Sweep(r, s) \/ Forget(r, s)
      PROVE  FALSE
  BY <1>1, <1>8 DEF Probe, Unprobe, Sweep, Forget, Goto, TakingSteps
<1>9. ASSUME NEW s \in left[r], StartStep(r, s) PROVE output'[t] = "sealed"
  BY <1>2, <1>3, <1>9 DEF StartStep, libraryVars, TakingSteps
<1>10. ASSUME NEW s \in left[r], Decide(r, s) PROVE output'[t] = "sealed"
  <2>1. TakingSteps(r) /\ output' = output
    BY <1>10 DEF Decide, libraryVars, TakingSteps
  <2>2. \/ pc'[r] = "ended"
        \/ left' = left
        \/ left'[r] = left[r] \ {s} /\ Action(s) = "skip"
    BY <1>1, <1>10 DEF Decide, Stop, Settle, Reached, End, Goto
  <2>3. t = s /\ Action(s) = "skip" => output[t] = "sealed"
    BY <1>1, <1>2 DEF Action, Outputs
  <2> QED
    BY <1>2, <1>3, <2>1, <2>2, <2>3 DEF TakingSteps
<1>11. ASSUME NEW s \in left[r], Reseal(r, s) \/ Bind(r, s) PROVE output'[t] = "sealed"
  <2>1. TakingSteps(r)
    BY <1>11 DEF Reseal, Bind, TakingSteps
  <2>2. \/ pc'[r] = "ended"
        \/ left'[r] = left[r] \ {s} /\ output' = [output EXCEPT ![s] = "sealed"]
        \/ left'[r] = left[r] \ {s} /\ output' = output /\ s \in Passes
    BY <1>1, <1>11 DEF Reseal, Bind, Stop, Settle, Reached, End, Goto
  <2> QED
    BY <1>1, <1>2, <1>3, <2>1, <2>2 DEF TakingSteps
<1> QED
  BY <1>4, <1>5, <1>6, <1>7, <1>8, <1>9, <1>10, <1>11 DEF RunStep

(* The process of a step takes away nothing that was settled before it.    *)
LEMMA StandsChildStep ==
  ASSUME TypeOK, LockInv, OrphanInv, NEW q \in Runs, AccountOf(q), StandsFor(q),
         NEW r \in Runs, ChildStep(r)
  PROVE  StandsFor(q)'
<1> SUFFICES ASSUME TakingSteps(q)', ~slipped', NEW t \in SettledOf(q)'
             PROVE  output'[t] = "sealed"
  BY DEF StandsFor
<1>1. /\ UNCHANGED <<pc, left, request, slipped>>
      /\ child'[q].step = child[q].step
      /\ child[r].at \in {"starting", "working", "finished"}
      /\ request[q].targets \in SUBSET Steps
  BY ProcessesMindThemselves, RequestsLieInTheGraph
<1>2. TakingSteps(q) /\ ~slipped /\ t \in SettledOf(q) /\ t \in Steps
  BY <1>1 DEF TakingSteps, SettledOf
<1>3. output[t] = "sealed"
  BY <1>2 DEF StandsFor
<1>4. CASE output' = output
  BY <1>3, <1>4
<1>5. CASE EmptyCatalog(r) \/ Produce(r)
  <2>1. HoldsItsStep(r)
    BY <1>5 DEF EmptyCatalog, Produce, HoldsItsStep
  <2>2. q = r
    BY <1>2, <2>1 DEF OrphanInv, LockedOrphansAreSeen, NoRunActsBesideAnOrphan, PastTheCheck,
                      Acting, TakingSteps
  <2>3. pc[r] = "waiting" /\ child[r].step # Reset
    BY <1>2, <2>1, <2>2 DEF LockInv, ChildInv, HoldsItsStep, TakingSteps
  <2>4. First(r, child[r].step) /\ TakenSoFar(request[r].targets, left[r], verdict[r])
    BY <1>2, <2>2, <2>3 DEF AccountOf
  <2>5. Produce(r) /\ child[r].step \in Steps
    BY <1>5, <2>3 DEF EmptyCatalog, Produce
  <2>6. t < child[r].step
    BY <1>2, <2>2, <2>4 DEF SettledOf, TakenSoFar, First
  <2>7. t # child[r].step /\ t \notin Descendants(Requires, child[r].step)
    <3>1. t \in Descendants(Requires, child[r].step) => child[r].step < t
      BY <2>5, DescendantsComeLater
    <3>2. t \in Int /\ child[r].step \in Int
      BY <1>2, <2>5 DEF Steps
    <3> QED
      BY <2>6, <3>1, <3>2
  <2>8. output'[t] = output[t]
    BY <1>2, <2>5, <2>7 DEF Produce
  <2> QED
    BY <1>3, <2>8
<1> QED
  BY <1>4, <1>5 DEF ChildStep, TakeStepLock, Exit, Killed, libraryVars

(* What is settled depends on no more than this.                           *)
LEMMA StandsFrame ==
  ASSUME NEW q \in Runs, StandsFor(q), slipped' => slipped, slipped => slipped',
         pc'[q] = pc[q], left'[q] = left[q], child'[q].step = child[q].step,
         UNCHANGED <<request, output>>
  PROVE  StandsFor(q)'
BY DEF StandsFor, TakingSteps, SettledOf

(* Every step of the system leaves what a run settled.                     *)
LEMMA StandsNext ==
  ASSUME TypeOK, LockInv, OrphanInv, AccountInv, \A q \in Runs : StandsFor(q), [Next]_vars
  PROVE  \A q \in Runs : StandsFor(q)'
<1> SUFFICES ASSUME NEW q \in Runs PROVE StandsFor(q)'
  OBVIOUS
<1>1. ASSUME NEW r \in Runs, RunStep(r) PROVE StandsFor(q)'
  <2>1. CASE q = r
    BY <1>1, <2>1, StandsRunStep DEF AccountInv
  <2>2. CASE q # r
    <3>1. /\ pc'[q] = pc[q] /\ left'[q] = left[q] /\ child'[q].step = child[q].step
          /\ UNCHANGED <<request, slipped>>
      BY <1>1, <2>2, RunsMindThemselves
    <3>2. CASE UNCHANGED output
      BY <3>1, <3>2, StandsFrame
    <3>3. CASE ~Acting(q)
      BY <3>1, <3>3 DEF StandsFor, TakingSteps, Acting
    <3> QED
      BY <1>1, <2>2, <3>2, <3>3, OthersStandBy
  <2> QED
    BY <2>1, <2>2
<1>2. ASSUME NEW r \in Runs, ChildStep(r) PROVE StandsFor(q)'
  BY <1>2, StandsChildStep DEF AccountInv
<1>3. ASSUME NEW r \in Runs, Interrupt(r) PROVE StandsFor(q)'
  BY <1>3, StandsFrame DEF Interrupt, libraryVars
<1>4. ASSUME NEW r \in Runs, Die(r) PROVE StandsFor(q)'
  <2>1. /\ UNCHANGED <<child, request, output>> /\ pc'[r] = "dead"
        /\ q # r => pc'[q] = pc[q] /\ left'[q] = left[q]
        /\ slipped => slipped'
    BY <1>4 DEF Die, Vanish, Goto, TypeOK, libraryVars
  <2>2. CASE q = r
    BY <2>1, <2>2 DEF StandsFor, TakingSteps
  <2>3. CASE q # r
    BY <2>1, <2>3 DEF StandsFor, TakingSteps, SettledOf
  <2> QED
    BY <2>2, <2>3
<1>5. CASE Restart \/ UNCHANGED vars
  BY <1>5, StandsFrame DEF Restart, vars, runVars, libraryVars
<1> QED
  BY <1>1, <1>2, <1>3, <1>4, <1>5 DEF Next, Quiet

(* What a run settled stands while it goes on: no later step of its order, *)
(* no relaunch and no process an earlier run left takes it away            *)
(* (pipeline/scheduler.py, _take_in_order).                                *)
THEOREM SettledStepsStand == Spec => [](restarts = 0 => WhatARunSettledStands)
<1> DEFINE Stands == \A q \in Runs : StandsFor(q)
           Base == TypeOK /\ AccountInv /\ (restarts = 0 => LockInv /\ OrphanInv /\ Stands)
<1>1. Init => Stands /\ OrphanInv /\ AccountInv
  BY OrphanInit, AccountInit DEF Init, StandsFor, TakingSteps
<1>2. Base /\ [Next]_vars => (AccountInv /\ (restarts = 0 => OrphanInv /\ Stands))'
  BY StandsNext, OrphanNext, AccountNext, UpBefore
<1>3. Stands => WhatARunSettledStands
  BY DEF StandsFor, SettledOf, WhatARunSettledStands
<1> HIDE DEF Stands
<1> QED
  BY <1>1, <1>2, <1>3, LocksAreTrue, TypeCorrect, PTL DEF Spec

-----------------------------------------------------------------------------
(* The runs, processes and locks keep the promise of LibraryEmptying.      *)

(* A run in the middle of an emptying, and one whose reset has emptied the *)
(* catalog.                                                                *)
AwaitsReset(r) == pc[r] = "waiting" /\ child[r].step = Reset
Emptying(r) == pc[r] \in {"resetting", "sweeping"} \/ AwaitsReset(r)
ResetIsDone(r) ==
  /\ AwaitsReset(r)
  /\ \/ child[r].at = "finished"
     \/ child[r].at = "exited" /\ child[r].status = "completed"

(* The intent stands until everything is gone, and no process of a step    *)
(* works while it does.                                                    *)
EmptyingTruth(r) ==
  /\ Emptying(r) => intent
  /\ ResetIsDone(r) => Standing \subseteq Files
  /\ pc[r] = "sweeping" => Standing \subseteq left[r]
  /\ HoldsItsStep(r) /\ child[r].step # Reset => ~intent

PromiseInv ==
  /\ Standing \cap Passes = {}
  /\ ~slipped => \A r \in Runs : EmptyingTruth(r)

(* A run adds nothing to what stands...                                    *)
LEMMA RunsAddNothing ==
  ASSUME TypeOK, NEW r \in Runs, RunStep(r) PROVE Standing' \subseteq Standing
BY RunsBuildNothing DEF Standing

(* ...and a step's process adds its step's output, if it leaves one.       *)
LEMMA ProcessesAddTheirStep ==
  ASSUME TypeOK, NEW r \in Runs, ChildStep(r)
  PROVE  \/ output' = output
         \/ /\ EmptyCatalog(r)
            /\ Standing' = Standing \ Cataloged
         \/ /\ HoldsItsStep(r) /\ child[r].step \in Steps
            /\ \E gone \in SUBSET Steps :
                 \/ child[r].step \notin Passes /\ Standing' = (Standing \ gone) \cup {child[r].step}
                 \/ Standing' = Standing \ gone
<1>0. output \in [Steps -> Outputs]
  BY DEF TypeOK
<1>1. CASE EmptyCatalog(r)
  <2>1. \A s \in Steps : output'[s] = IF s \in Cataloged THEN "absent" ELSE output[s]
    BY <1>1 DEF EmptyCatalog
  <2> QED
    BY <1>1, <2>1 DEF Standing
<1>2. CASE Produce(r)
  <2>1. PICK s \in Steps : s = child[r].step /\ HoldsItsStep(r)
    BY <1>2 DEF Produce, HoldsItsStep
  <2>2. PICK moved \in {{}, Descendants(Requires, s)} :
          output' = [t \in Steps |-> IF t \in moved THEN "absent"
                                     ELSE IF t # s \/ s \in Passes THEN output[t]
                                     ELSE IF s \in Files THEN "made" ELSE "sealed"]
    BY <1>2, <2>1 DEF Produce
  <2>3. moved \in SUBSET Steps /\ s \notin moved
    BY GraphAssumption DEF Descendants
  <2>4. CASE s \in Passes
    <3>1. Standing' = Standing \ moved
      BY <2>2, <2>4 DEF Standing
    <3> QED
      BY <2>1, <2>3, <3>1
  <2>5. CASE s \notin Passes
    <3>1. Standing' = (Standing \ moved) \cup {s}
      BY <2>2, <2>3, <2>5 DEF Standing
    <3> QED
      BY <2>1, <2>3, <2>5, <3>1
  <2> QED
    BY <2>4, <2>5
<1> QED
  BY <1>1, <1>2 DEF ChildStep, TakeStepLock, Exit, Killed, libraryVars

(* A step of a run keeps its own emptying true.                            *)
LEMMA EmptyingTruthOfTheRun ==
  ASSUME TypeOK, LockInv, NEW r \in Runs, AccountOf(r), EmptyingTruth(r), RunStep(r)
  PROVE  EmptyingTruth(r)'
<1>1. /\ pc \in [Runs -> Places] /\ left \in [Runs -> SUBSET AllSteps]
      /\ child \in [Runs -> Children] /\ output \in [Steps -> Outputs]
  BY DEF TypeOK
<1>2. ~HoldsItsStep(r)'
  BY RunsStepAlone
<1> SUFFICES /\ Emptying(r)' => intent'
             /\ ResetIsDone(r)' => Standing' \subseteq Files
             /\ pc'[r] = "sweeping" => Standing' \subseteq left'[r]
  BY <1>2 DEF EmptyingTruth
<1> USE DEF Emptying, ResetIsDone, AwaitsReset
<1>3. CASE \/ Start(r) \/ Screen(r) \/ ClearIntent(r) \/ BeginTaking(r) \/ Take(r) \/ LoseCatalog(r)
  <2>1. pc'[r] \in {"probing", "ended", "recording", "redoing", "taking", "deciding", "dead"}
    BY <1>1, <1>3 DEF Start, Screen, ClearIntent, BeginTaking, Take, LoseCatalog, Vanish, End, Goto
  <2> QED
    BY <2>1
<1>4. CASE RecordIntent(r)
  BY <1>1, <1>4 DEF RecordIntent, Goto
<1>5. CASE StartReset(r)
  <2>1. pc[r] = "resetting" /\ intent' = intent /\ pc'[r] = "waiting" /\ child'[r].at = "starting"
    BY <1>1, <1>5 DEF StartReset, Spawn, Goto, libraryVars
  <2> QED
    BY <2>1 DEF EmptyingTruth
<1>6. CASE Reap(r)
  <2>1. /\ pc[r] = "waiting" /\ child[r].at = "exited" /\ UNCHANGED <<output, intent>>
        /\ \/ pc'[r] \in {"binding", "ended"}
           \/ /\ pc'[r] = "sweeping" /\ left'[r] = Files /\ child[r].step = Reset
              /\ OutcomeOf(child[r].status, interrupts[r] > 0) = "completed"
    BY <1>1, <1>6 DEF Reap, Stop, End, Goto, libraryVars
  <2>2. OutcomeOf(child[r].status, interrupts[r] > 0) = "completed" => child[r].status = "completed"
    BY DEF OutcomeOf
  <2>3. pc'[r] = "sweeping" => Standing \subseteq Files /\ intent
    BY <2>1, <2>2 DEF EmptyingTruth
  <2>4. Standing' = Standing
    BY <2>1 DEF Standing
  <2> QED
    BY <2>1, <2>3, <2>4
<1>7. ASSUME NEW s \in left[r], Sweep(r, s)
      PROVE  /\ pc[r] = "sweeping" /\ UNCHANGED <<pc, intent>>
             /\ left'[r] = left[r] \ {s} /\ Standing' = Standing \ {s}
  BY <1>1, <1>7 DEF Sweep, Reached, Standing
<1>8. ASSUME NEW s \in left[r],
             Probe(r, s) \/ Unprobe(r, s) \/ Forget(r, s) \/ Decide(r, s) \/ Reseal(r, s) \/ Bind(r, s)
      PROVE  pc'[r] \in {"probing", "probe", "redoing", "ended", "taking", "resealing", "starting"}
  <2>1. CASE Probe(r, s) \/ Unprobe(r, s) \/ Forget(r, s)
    BY <1>1, <2>1 DEF Probe, Unprobe, Forget, Goto
  <2>2. CASE Decide(r, s)
    BY <1>1, <2>2 DEF Decide, Settle, Stop, End, Goto
  <2>3. CASE Reseal(r, s) \/ Bind(r, s)
    BY <1>1, <2>3 DEF Reseal, Bind, Settle, Stop, End, Goto
  <2> QED
    BY <1>8, <2>1, <2>2, <2>3
<1>9. ASSUME NEW s \in left[r], StartStep(r, s)
      PROVE  pc'[r] = "waiting" /\ child'[r].step # Reset
  <2>1. pc[r] = "starting" /\ pc'[r] = "waiting" /\ child'[r].step = s
    BY <1>1, <1>9 DEF StartStep, Spawn, Goto
  <2>2. left[r] \subseteq Steps
    BY <2>1, RequestsLieInTheGraph DEF AccountOf, TakingSteps, TakenSoFar
  <2> QED
    BY <2>1, <2>2 DEF Steps, Reset
<1>10. ASSUME NEW s \in left[r],
              \/ Sweep(r, s) \/ StartStep(r, s)
              \/ Probe(r, s) \/ Unprobe(r, s) \/ Forget(r, s) \/ Decide(r, s) \/ Reseal(r, s) \/ Bind(r, s)
       PROVE  /\ Emptying(r)' => intent'
              /\ ResetIsDone(r)' => Standing' \subseteq Files
              /\ pc'[r] = "sweeping" => Standing' \subseteq left'[r]
  <2>1. CASE Sweep(r, s)
    BY <1>7, <2>1 DEF EmptyingTruth
  <2>2. CASE ~Sweep(r, s)
    BY <1>8, <1>9, <1>10, <2>2
  <2> QED
    BY <2>1, <2>2
<1> QED
  BY <1>3, <1>4, <1>5, <1>6, <1>10 DEF RunStep

(* A step of one run leaves another's emptying as true as it was.          *)
LEMMA EmptyingTruthOfOthers ==
  ASSUME TypeOK, LockInv, OrphanInv, ~slipped, NEW r \in Runs, NEW q \in Runs \ {r},
         EmptyingTruth(q), RunStep(r)
  PROVE  EmptyingTruth(q)'
<1>1. /\ pc'[q] = pc[q] /\ left'[q] = left[q] /\ child'[q] = child[q]
  BY RunsMindThemselves
<1>2. CASE UNCHANGED <<output, intent>>
  BY <1>1, <1>2 DEF EmptyingTruth, Emptying, ResetIsDone, AwaitsReset, HoldsItsStep, Standing
<1>3. CASE ~Acting(q)
  <2>1. ~Emptying(q)' /\ ~ResetIsDone(q)' /\ pc'[q] # "sweeping"
    BY <1>1, <1>3 DEF Emptying, ResetIsDone, AwaitsReset, Acting
  <2>2. HoldsItsStep(q)' => HoldsItsStep(q) /\ ~PastTheCheck(r)
    BY <1>1 DEF HoldsItsStep, OrphanInv, LockedOrphansAreSeen, NoRunActsBesideAnOrphan
  <2>3. HoldsItsStep(q)' => ~RecordIntent(r)
    BY <2>2 DEF RecordIntent, PastTheCheck, Acting
  <2>4. intent' = intent \/ RecordIntent(r) \/ ~intent'
    BY RunsBuildNothing DEF ClearIntent
  <2> QED
    BY <1>1, <2>1, <2>2, <2>3, <2>4 DEF EmptyingTruth
<1> QED
  BY <1>2, <1>3, OthersStandBy

(* A step's process keeps its run's emptying true...                       *)
LEMMA EmptyingTruthOfTheProcess ==
  ASSUME TypeOK, LockInv, OrphanInv, EmptyingInv, ~slipped, Standing \cap Passes = {},
         NEW r \in Runs, EmptyingTruth(r), ChildStep(r)
  PROVE  EmptyingTruth(r)'
<1>1. /\ UNCHANGED <<pc, left, intent>> /\ child'[r].step = child[r].step
      /\ child[r].at \in {"starting", "working", "finished"}
      /\ pc[r] \in {"waiting", "dead"}
  BY ProcessesMindThemselves DEF LockInv, ChildInv
<1>2. /\ child \in [Runs -> Children] /\ output \in [Steps -> Outputs]
      /\ Standing \subseteq Steps
  BY DEF TypeOK, Standing
<1>3. Emptying(r)' => intent'
  BY <1>1 DEF EmptyingTruth, Emptying, AwaitsReset
<1>4. pc'[r] # "sweeping"
  BY <1>1
<1>5. HoldsItsStep(r)' /\ child'[r].step # Reset => ~intent'
  <2>1. CASE HoldsItsStep(r)
    BY <1>1, <2>1 DEF EmptyingTruth
  <2>2. CASE ~HoldsItsStep(r)
    <3>1. pc[r] = "waiting"
      BY <2>2, WorkersAreAwaited
    <3> QED
      BY <1>1, <3>1 DEF EmptyingInv, PastEmptying, TakingSteps
  <2> QED
    BY <2>1, <2>2
<1>6. ResetIsDone(r)' => Standing' \subseteq Files
  <2> SUFFICES ASSUME ResetIsDone(r)' PROVE Standing' \subseteq Files
    OBVIOUS
  <2>1. /\ AwaitsReset(r)
        /\ \/ child'[r].at = "finished"
           \/ child'[r].at = "exited" /\ child'[r].status = "completed"
    BY <1>1 DEF ResetIsDone, AwaitsReset
  <2>2. child[r].step \notin Steps
    BY <2>1 DEF AwaitsReset, Reset, Steps
  <2>3. CASE EmptyCatalog(r)
    <3>1. Standing' = Standing \ Cataloged
      BY <1>2, <2>3 DEF EmptyCatalog, Standing
    <3> QED
      BY <1>2, <3>1 DEF Cataloged
  <2>4. CASE Exit(r)
    <3>1. child[r].at = "finished" /\ output' = output
      <4>1. PICK status \in Statuses :
              /\ status = "completed" => \/ child[r].at = "finished"
                                         \/ child[r].at = "working" /\ child[r].step # Reset
              /\ Exited(r, status)
        BY <2>4 DEF Exit
      <4>2. child'[r].status = status /\ child'[r].at = "exited"
        BY <1>2, <4>1 DEF Exited, Children
      <4> QED
        BY <2>1, <2>4, <4>1, <4>2 DEF AwaitsReset, Exit, libraryVars
    <3> QED
      BY <2>1, <3>1 DEF EmptyingTruth, ResetIsDone, Standing
  <2>5. CASE TakeStepLock(r) \/ Killed(r)
    <3>1. child'[r].at = "working" \/ child'[r].status # "completed"
      BY <1>2, <2>5 DEF TakeStepLock, Killed, ChildAt, Exited, Children
    <3>2. child'[r].at = "working" => FALSE
      BY <2>1
    <3>3. child'[r].at = "exited" /\ child'[r].status = "completed"
      <4>1. child'[r].at \in {"working", "exited"}
        BY <1>2, <2>5 DEF TakeStepLock, Killed, ChildAt, Exited, Children
      <4> QED
        BY <2>1, <4>1
    <3> QED
      BY <3>1, <3>2, <3>3
  <2>6. ~Produce(r)
    BY <2>2 DEF Produce
  <2> QED
    BY <2>3, <2>4, <2>5, <2>6 DEF ChildStep
<1> QED
  BY <1>3, <1>4, <1>5, <1>6 DEF EmptyingTruth

(* ...and no other's less true.                                            *)
LEMMA EmptyingTruthBesideAProcess ==
  ASSUME TypeOK, OrphanInv, ~slipped, NEW r \in Runs, NEW q \in Runs \ {r},
         EmptyingTruth(q), ChildStep(r)
  PROVE  EmptyingTruth(q)'
<1>1. UNCHANGED <<pc, left, intent>> /\ child'[q] = child[q]
  BY ProcessesMindThemselves
<1>2. CASE output' = output
  BY <1>1, <1>2 DEF EmptyingTruth, Emptying, ResetIsDone, AwaitsReset, HoldsItsStep, Standing
<1>3. CASE HoldsItsStep(r)
  <2>1. ~PastTheCheck(q)
    BY <1>3 DEF OrphanInv, LockedOrphansAreSeen, NoRunActsBesideAnOrphan
  <2>2. ~Emptying(q) /\ ~AwaitsReset(q) /\ pc[q] # "sweeping"
    BY <2>1 DEF PastTheCheck, Emptying, AwaitsReset, Acting
  <2> QED
    BY <1>1, <2>2 DEF EmptyingTruth, Emptying, ResetIsDone, AwaitsReset, HoldsItsStep
<1>4. EmptyCatalog(r) => HoldsItsStep(r)
  BY DEF EmptyCatalog, HoldsItsStep
<1> QED
  BY <1>2, <1>3, <1>4, ProcessesAddTheirStep

(* What the promise rests on depends on no more than this.                 *)
LEMMA PromiseFrame ==
  ASSUME PromiseInv, UNCHANGED <<pc, left, child, output, intent, slipped>> PROVE PromiseInv'
BY DEF PromiseInv, EmptyingTruth, Emptying, ResetIsDone, AwaitsReset, HoldsItsStep, Standing

(* Every step of the system keeps what the promise rests on.               *)
LEMMA PromiseNext ==
  ASSUME TypeOK, LockInv, EmptyingInv, AccountInv, OrphanInv, PromiseInv, [Next]_vars
  PROVE  PromiseInv'
<1>1. ASSUME NEW r \in Runs, RunStep(r) PROVE PromiseInv'
  <2>1. Standing' \cap Passes = {}
    BY <1>1, RunsAddNothing DEF PromiseInv
  <2>2. ASSUME ~slipped', NEW q \in Runs PROVE EmptyingTruth(q)'
    <3>1. ~slipped /\ EmptyingTruth(q)
      BY <1>1, <2>2, RunsMindThemselves DEF PromiseInv
    <3>2. CASE q = r
      BY <1>1, <3>1, <3>2, EmptyingTruthOfTheRun DEF AccountInv
    <3>3. CASE q # r
      BY <1>1, <3>1, <3>3, EmptyingTruthOfOthers
    <3> QED
      BY <3>2, <3>3
  <2> QED
    BY <2>1, <2>2 DEF PromiseInv
<1>2. ASSUME NEW r \in Runs, ChildStep(r) PROVE PromiseInv'
  <2>1. Standing' \cap Passes = {}
    <3>1. output' = output => Standing' = Standing
      BY DEF Standing
    <3> QED
      BY <1>2, <3>1, ProcessesAddTheirStep DEF PromiseInv
  <2>2. ASSUME ~slipped', NEW q \in Runs PROVE EmptyingTruth(q)'
    <3>1. ~slipped /\ EmptyingTruth(q) /\ Standing \cap Passes = {}
      BY <1>2, <2>2, ProcessesMindThemselves DEF PromiseInv
    <3>2. CASE q = r
      BY <1>2, <3>1, <3>2, EmptyingTruthOfTheProcess
    <3>3. CASE q # r
      BY <1>2, <3>1, <3>3, EmptyingTruthBesideAProcess
    <3> QED
      BY <3>2, <3>3
  <2> QED
    BY <2>1, <2>2 DEF PromiseInv
<1>3. ASSUME NEW r \in Runs, Interrupt(r) PROVE PromiseInv'
  BY <1>3, PromiseFrame DEF Interrupt, libraryVars
<1>4. ASSUME NEW r \in Runs, Die(r) PROVE PromiseInv'
  <2>1. /\ UNCHANGED <<child, output, intent>> /\ pc'[r] = "dead"
        /\ slipped => slipped'
        /\ \A q \in Runs \ {r} : pc'[q] = pc[q] /\ left'[q] = left[q]
    BY <1>4 DEF Die, Vanish, Goto, TypeOK, libraryVars
  <2>2. Standing' = Standing
    BY <2>1 DEF Standing
  <2>3. ASSUME ~slipped', NEW q \in Runs PROVE EmptyingTruth(q)'
    <3>1. EmptyingTruth(q)
      BY <1>4, <2>3 DEF PromiseInv, Die
    <3>2. CASE q = r
      BY <2>1, <3>1, <3>2 DEF EmptyingTruth, Emptying, ResetIsDone, AwaitsReset, HoldsItsStep
    <3>3. CASE q # r
      BY <2>1, <2>2, <3>1, <3>3
         DEF EmptyingTruth, Emptying, ResetIsDone, AwaitsReset, HoldsItsStep
    <3> QED
      BY <3>2, <3>3
  <2> QED
    BY <2>2, <2>3 DEF PromiseInv
<1>5. CASE Restart \/ UNCHANGED vars
  BY <1>5, PromiseFrame DEF Restart, vars, runVars, libraryVars
<1> QED
  BY <1>1, <1>2, <1>3, <1>4, <1>5 DEF Next, Quiet

-----------------------------------------------------------------------------
(* What the mapping hides of a library something slipped into, it shows    *)
(* of every other.                                                         *)
Shown == IF slipped THEN {} ELSE Standing

(* Outputs that go, and only go, are a step of the promise.                *)
LEMMA LosingIsPromised ==
  ASSUME Shown \subseteq Steps, Shown' \subseteq Shown, intent' = intent
  PROVE  Promise!Next
<1>1. PICK gone \in SUBSET Steps : Shown' = Shown \ gone
  <2>1. Shown' = Shown \ (Shown \ Shown')
    OBVIOUS
  <2> QED
    BY <2>1
<1>2. Promise!Drop(gone)
  BY <1>1 DEF Promise!Drop, Shown
<1> QED
  BY <1>2 DEF Promise!Next

(* Every step of the system is a step of the promise or none of its        *)
(* business.                                                               *)
LEMMA StepsKeepThePromise ==
  ASSUME TypeOK, LockInv, PromiseInv, [Next]_vars
  PROVE  [Promise!Next]_(Promise!vars)
<1>0. Shown \subseteq Steps
  BY DEF Shown, Standing
<1>1. ASSUME NEW r \in Runs, RunStep(r) PROVE [Promise!Next]_(Promise!vars)
  <2>1. Standing' \subseteq Standing /\ slipped' = slipped
    BY <1>1, RunsAddNothing, RunsMindThemselves
  <2>2. Shown' \subseteq Shown
    BY <2>1 DEF Shown
  <2>3. CASE intent' = intent
    BY <1>0, <2>2, <2>3, LosingIsPromised
  <2>4. CASE RecordIntent(r)
    <3>1. intent' = TRUE /\ Shown' = Shown
      BY <2>1, <2>4 DEF RecordIntent, Shown, Standing
    <3>2. Promise!BeginEmptying
      BY <3>1 DEF Promise!BeginEmptying, Shown
    <3> QED
      BY <3>2 DEF Promise!Next
  <2>5. CASE ClearIntent(r) /\ intent' # intent
    <3>1. ~intent' /\ intent' \in BOOLEAN /\ output' = output
      BY <2>5 DEF ClearIntent
    <3>2. intent \in BOOLEAN /\ intent
      BY <2>5, <3>1 DEF TypeOK
    <3>3. Shown' = Shown
      BY <2>1, <3>1 DEF Shown, Standing
    <3>4. Shown = {}
      BY <2>5 DEF ClearIntent, Swept, PromiseInv, EmptyingTruth, Shown
    <3>5. Promise!EndEmptying
      BY <2>5, <3>2, <3>3, <3>4 DEF Promise!EndEmptying, Shown, ClearIntent
    <3> QED
      BY <3>5 DEF Promise!Next
  <2> QED
    BY <1>1, <2>3, <2>4, <2>5, RunsBuildNothing
<1>2. ASSUME NEW r \in Runs, ChildStep(r) PROVE [Promise!Next]_(Promise!vars)
  <2>1. intent' = intent /\ slipped' = slipped
    BY <1>2, ProcessesMindThemselves
  <2>2. CASE Shown' \subseteq Shown
    BY <1>0, <2>1, <2>2, LosingIsPromised
  <2>3. CASE ~(Shown' \subseteq Shown)
    <3>1. ~slipped /\ Shown' = Standing' /\ Shown = Standing
      BY <2>1, <2>3 DEF Shown
    <3>2. output' # output
      BY <2>3, <3>1 DEF Standing
    <3>3. PICK gone \in SUBSET Steps :
            /\ HoldsItsStep(r) /\ child[r].step \in Steps
            /\ Standing' = (Standing \ gone) \cup {child[r].step}
      BY <1>2, <2>3, <3>1, <3>2, ProcessesAddTheirStep
    <3>4. ~intent
      BY <3>1, <3>3 DEF PromiseInv, EmptyingTruth, Reset, Steps
    <3>5. Promise!Build(child[r].step, gone)
      BY <2>1, <3>1, <3>3, <3>4 DEF Promise!Build, Shown
    <3> QED
      BY <3>3, <3>5 DEF Promise!Next
  <2> QED
    BY <2>2, <2>3
<1>3. ASSUME NEW r \in Runs, Die(r) PROVE [Promise!Next]_(Promise!vars)
  <2>1. intent' = intent /\ Shown' \subseteq Shown
    BY <1>3 DEF Die, libraryVars, Shown, Standing
  <2> QED
    BY <1>0, <2>1, LosingIsPromised
<1>4. CASE (\E r \in Runs : Interrupt(r)) \/ Restart \/ UNCHANGED vars
  <2>1. intent' = intent /\ Shown' = Shown
    BY <1>4 DEF Interrupt, Restart, vars, libraryVars, Shown, Standing
  <2> QED
    BY <1>0, <2>1, LosingIsPromised
<1> QED
  BY <1>1, <1>2, <1>3, <1>4 DEF Next, Quiet

(* Where the server stays up and no process slipped past a relaunch's      *)
(* check, an emptying that was begun ends over an empty library only, and  *)
(* nothing is built before it has ended, whichever runs and processes die  *)
(* (pipeline/scratch.py, start_from_scratch).                              *)
THEOREM ThePromiseIsKept == Spec /\ [](restarts = 0) => KeepsThePromise
<1> DEFINE Base == TypeOK /\ LockInv /\ EmptyingInv /\ AccountInv /\ OrphanInv
<1>1. Init => EmptyingInv /\ AccountInv /\ OrphanInv /\ PromiseInv
  <2>1. Init => EmptyingInv
    BY DEF Init, EmptyingInv, PastEmptying, TakingSteps
  <2>2. Init => PromiseInv
    BY DEF Init, PromiseInv, Standing, EmptyingTruth, Emptying, ResetIsDone, AwaitsReset,
           HoldsItsStep, NoChild
  <2> QED
    BY <2>1, <2>2, AccountInit, OrphanInit
<1>2. Base /\ PromiseInv /\ [Next]_vars => (EmptyingInv /\ AccountInv /\ OrphanInv /\ PromiseInv)'
  BY EmptyingNext, AccountNext, OrphanNext, PromiseNext
<1>3. Init => Promise!Init
  BY DEF Init, Promise!Init, Standing
<1>4. TypeOK /\ LockInv /\ PromiseInv /\ [Next]_vars => [Promise!Next]_(Promise!vars)
  BY StepsKeepThePromise
<1> QED
  BY <1>1, <1>2, <1>3, <1>4, LocksAreTrue, TypeCorrect, PTL DEF Spec, KeepsThePromise, Promise!Spec

-----------------------------------------------------------------------------
(* What a run and its process hold, however often the server restarts: the *)
(* library's lock while the run acts, its step's lock while the process is *)
(* at work, and while the run probes a step that step's lock, which goes   *)
(* when the library's does.                                                *)
HoldsOnlyItsOwn(r) ==
  /\ Owns(r) => Acting(r)
  /\ \A s \in AllSteps : stepLock[s] = r =>
       \/ HoldsItsStep(r) /\ child[r].step = s
       \/ pc[r] = "probe" /\ First(r, s) /\ Owns(r)
  /\ pc[r] \notin {"waiting", "dead"} => child[r].at = "none"
  /\ child[r].at # "none" => child[r].step \in AllSteps

HoldersInv == \A r \in Runs : HoldsOnlyItsOwn(r)

(* A step of a run claims or lets go of the library's lock for that run... *)
LEMMA RunsClaimForThemselves ==
  ASSUME NEW r \in Runs, RunStep(r)
  PROVE  \A q \in Runs \ {r} : pipelineLock' = q <=> pipelineLock = q
<1> USE RunsAssumption DEF Owns, LibraryFree, End, Settle, Stop, Spawn, lockVars
<1>1. CASE Start(r) \/ Screen(r) \/ Take(r) \/ Reap(r)
  <2>1. \/ UNCHANGED pipelineLock
        \/ pipelineLock' = IF Owns(r) THEN NoRun ELSE pipelineLock
        \/ LibraryFree /\ pipelineLock' = r
    BY <1>1 DEF Start, Screen, Take, Reap
  <2> QED
    BY <2>1
<1>2. CASE RecordIntent(r) \/ StartReset(r) \/ ClearIntent(r) \/ BeginTaking(r) \/ LoseCatalog(r)
  BY <1>2 DEF RecordIntent, StartReset, ClearIntent, BeginTaking, LoseCatalog
<1>3. ASSUME NEW s \in left[r], Probe(r, s) \/ Unprobe(r, s) \/ Sweep(r, s) \/ Forget(r, s)
      PROVE  pipelineLock' = pipelineLock
  BY <1>3 DEF Probe, Unprobe, Sweep, Forget
<1>4. ASSUME NEW s \in left[r],
             Decide(r, s) \/ Reseal(r, s) \/ StartStep(r, s) \/ Bind(r, s)
      PROVE  \A q \in Runs \ {r} : pipelineLock' = q <=> pipelineLock = q
  BY <1>4 DEF Decide, Reseal, StartStep, Bind
<1> QED
  BY <1>1, <1>2, <1>3, <1>4 DEF RunStep

(* ...and leaves the steps' locks alone, unless it probes or is through    *)
(* with probing, which is of that run's own.                               *)
LEMMA RunsProbeForThemselves ==
  ASSUME TypeOK, NEW r \in Runs, RunStep(r)
  PROVE  \/ stepLock' = stepLock
         \/ \E s \in left[r] : Probe(r, s) \/ Unprobe(r, s)
BY DEF RunStep, Start, Screen, RecordIntent, StartReset, ClearIntent, BeginTaking, Take, Reap,
       LoseCatalog, Sweep, Forget, Decide, Reseal, StartStep, Bind, Spawn, lockVars

(* A run and a process a step leaves where they are hold what they did, or *)
(* less.                                                                   *)
LEMMA HoldersFrame ==
  ASSUME NEW q \in Runs, HoldsOnlyItsOwn(q),
         pc'[q] = pc[q], left'[q] = left[q], child'[q] = child[q],
         pipelineLock' = q <=> pipelineLock = q,
         \A s \in AllSteps : stepLock'[s] = q => stepLock[s] = q
  PROVE  HoldsOnlyItsOwn(q)'
BY DEF HoldsOnlyItsOwn, HoldsItsStep, Acting, Owns, First

(* A run that neither probes nor waits holds no step's lock.               *)
LEMMA OnlyProbesAndProcessesHold ==
  ASSUME NEW r \in Runs, HoldsOnlyItsOwn(r), pc[r] # "probe", ~HoldsItsStep(r)
  PROVE  \A s \in AllSteps : stepLock[s] # r
BY DEF HoldsOnlyItsOwn

(* Such a run goes on, ends or dies holding no step's lock.                *)
LEMMA HoldersMove ==
  ASSUME NEW r \in Runs, HoldsOnlyItsOwn(r), pc[r] # "probe", ~HoldsItsStep(r),
         stepLock' = stepLock, Owns(r)' => Acting(r)',
         \/ child'[r].at = "none"
         \/ child'[r].step \in AllSteps /\ pc'[r] \in {"waiting", "dead"}
  PROVE  HoldsOnlyItsOwn(r)'
<1>1. \A s \in AllSteps : stepLock'[s] # r
  BY OnlyProbesAndProcessesHold
<1> QED
  BY <1>1 DEF HoldsOnlyItsOwn

(* A run's own step leaves it what is its own.                             *)
LEMMA HoldersRunStep ==
  ASSUME TypeOK, NEW r \in Runs, HoldsOnlyItsOwn(r), RunStep(r)
  PROVE  HoldsOnlyItsOwn(r)'
<1>0. /\ r # NoRun
      /\ pc \in [Runs -> Places]
      /\ child \in [Runs -> Children]
      /\ stepLock \in [AllSteps -> Runs \cup {NoRun}]
      /\ left \in [Runs -> SUBSET AllSteps]
      /\ Reset \in AllSteps
  BY RunsAssumption, StepsAssumption DEF TypeOK, Reset, AllSteps
<1>1. ASSUME pc[r] \notin {"probe", "waiting", "dead"}, stepLock' = stepLock,
             child'[r] = child[r], Owns(r)' => Acting(r)'
      PROVE  HoldsOnlyItsOwn(r)'
  <2>1. child[r].at = "none"
    BY <1>1 DEF HoldsOnlyItsOwn
  <2> QED
    BY <1>1, <2>1, HoldersMove DEF HoldsItsStep
<1>2. CASE Start(r) \/ Screen(r) \/ Take(r)
  <2>1. /\ pc[r] \in {"new", "probing", "taking"}
        /\ stepLock' = stepLock /\ child' = child
        /\ \/ pipelineLock' # r
           \/ \E place \in {"probing", "recording", "redoing", "deciding"} : Goto(r, place)
    BY <1>0, <1>2 DEF Start, Screen, Take, End, Owns
  <2>2. Owns(r)' => Acting(r)'
    BY <1>0, <2>1 DEF Goto, Owns, Acting
  <2> QED
    BY <1>1, <2>1, <2>2
<1>3. CASE RecordIntent(r) \/ ClearIntent(r) \/ BeginTaking(r)
  <2>1. /\ pc[r] \in {"recording", "sweeping", "redoing"}
        /\ stepLock' = stepLock /\ child' = child
        /\ \E place \in {"resetting", "redoing", "taking"} : Goto(r, place)
    BY <1>3 DEF RecordIntent, ClearIntent, BeginTaking, lockVars
  <2> QED
    BY <1>0, <1>1, <2>1 DEF Goto, Acting
<1>4. ASSUME NEW s \in AllSteps, (s = Reset /\ StartReset(r)) \/ StartStep(r, s)
      PROVE  HoldsOnlyItsOwn(r)'
  <2>1. /\ pc[r] \in {"resetting", "starting"}
        /\ stepLock' = stepLock
        /\ child'[r] = [step |-> s, at |-> "starting", status |-> "none"]
        /\ pc'[r] = "waiting"
    BY <1>0, <1>4 DEF StartReset, StartStep, Spawn, Goto
  <2>2. child[r].at = "none"
    BY <2>1 DEF HoldsOnlyItsOwn
  <2> QED
    BY <2>1, <2>2, HoldersMove DEF HoldsItsStep, Acting
<1>5. CASE Reap(r)
  <2>1. /\ pc[r] = "waiting" /\ child[r].at = "exited"
        /\ stepLock' = stepLock
        /\ child'[r] = NoChild
    BY <1>0, <1>5 DEF Reap
  <2>2. \/ pipelineLock' # r
        \/ \E place \in {"sweeping", "binding"} : Goto(r, place)
    BY <1>0, <1>5 DEF Reap, Stop, End, Owns
  <2>3. Owns(r)' => Acting(r)'
    BY <1>0, <2>2 DEF Goto, Owns, Acting
  <2> QED
    BY <2>1, <2>3, HoldersMove DEF HoldsItsStep, NoChild
<1>6. CASE LoseCatalog(r)
  <2>1. /\ pc[r] \in {"probing", "probe", "deciding", "binding"}
        /\ pipelineLock # r /\ pipelineLock' = pipelineLock
        /\ stepLock' = stepLock /\ child' = child
        /\ pc'[r] = "dead"
    BY <1>0, <1>6 DEF LoseCatalog, Vanish, Goto, Owns, lockVars
  <2>2. child[r].at = "none" /\ \A s \in AllSteps : stepLock[s] # r
    BY <2>1 DEF HoldsOnlyItsOwn, HoldsItsStep, Owns
  <2> QED
    BY <2>1, <2>2 DEF HoldsOnlyItsOwn, Owns
<1>7. ASSUME NEW s \in left[r], Probe(r, s) PROVE HoldsOnlyItsOwn(r)'
  <2>1. pc[r] = "probing" /\ child[r].at = "none" /\ Owns(r)
        /\ pipelineLock' = pipelineLock /\ child' = child
    BY <1>7 DEF Probe, HoldsOnlyItsOwn
  <2>2. \A t \in AllSteps : stepLock[t] # r
    BY <2>1, OnlyProbesAndProcessesHold DEF HoldsItsStep
  <2>3. CASE stepLock[s] = NoRun
    <3>1. /\ stepLock' = [stepLock EXCEPT ![s] = r] /\ pc'[r] = "probe"
          /\ left' = left /\ First(r, s)
      BY <1>0, <1>7, <2>3 DEF Probe, Goto
    <3> QED
      BY <1>0, <2>1, <2>2, <3>1 DEF HoldsOnlyItsOwn, Owns, Acting, First
  <2>4. CASE stepLock[s] # NoRun
    <3>1. stepLock' = stepLock /\ pc' = pc
      BY <1>7, <2>4 DEF Probe
    <3> QED
      BY <1>1, <2>1, <3>1 DEF Owns, Acting
  <2> QED
    BY <2>3, <2>4
<1>8. ASSUME NEW s \in left[r], Unprobe(r, s) PROVE HoldsOnlyItsOwn(r)'
  <2>1. /\ pc[r] = "probe" /\ First(r, s) /\ pc'[r] = "probing"
        /\ stepLock' = [stepLock EXCEPT ![s] = NoRun]
        /\ child' = child
    BY <1>0, <1>8 DEF Unprobe, Released, Goto
  <2>2. child[r].at = "none"
    BY <2>1 DEF HoldsOnlyItsOwn
  <2>3. ASSUME NEW t \in AllSteps, stepLock[t] = r PROVE t = s
    <3>1. First(r, t)
      BY <2>2, <2>3 DEF HoldsOnlyItsOwn, HoldsItsStep
    <3>2. s \in AllSteps
      BY <1>0
    <3> QED
      BY <2>1, <3>1, <3>2, StepsAssumption DEF First, AllSteps
  <2>4. \A t \in AllSteps : stepLock'[t] # r
    BY <1>0, <2>1, <2>3
  <2> QED
    BY <2>1, <2>2, <2>4 DEF HoldsOnlyItsOwn, Acting
<1>9. ASSUME NEW s \in left[r],
             Sweep(r, s) \/ Forget(r, s) \/ Decide(r, s) \/ Reseal(r, s) \/ Bind(r, s)
      PROVE  HoldsOnlyItsOwn(r)'
  <2>1. /\ pc[r] \in {"sweeping", "redoing", "deciding", "resealing", "binding"}
        /\ stepLock' = stepLock /\ child' = child
    BY <1>9 DEF Sweep, Forget, Decide, Reseal, Bind, lockVars
  <2>2. \/ pipelineLock' # r
        \/ pc' = pc
        \/ \E place \in {"taking", "resealing", "starting"} : Goto(r, place)
    BY <1>0, <1>9 DEF Sweep, Forget, Decide, Reseal, Bind, Stop, Settle, End, Owns
  <2>3. Owns(r)' => Acting(r)'
    BY <1>0, <2>1, <2>2 DEF Goto, Owns, Acting
  <2> QED
    BY <1>1, <2>1, <2>3
<1>10. left[r] \subseteq AllSteps
  BY <1>0
<1> QED
  BY <1>0, <1>2, <1>3, <1>4, <1>5, <1>6, <1>7, <1>8, <1>9, <1>10 DEF RunStep

(* So does a step of its process.                                          *)
LEMMA HoldersChildStep ==
  ASSUME TypeOK, NEW r \in Runs, HoldsOnlyItsOwn(r), ChildStep(r)
  PROVE  /\ HoldsOnlyItsOwn(r)'
         /\ \A q \in Runs \ {r} : \A s \in AllSteps : stepLock'[s] = q => stepLock[s] = q
<1>0. /\ r # NoRun
      /\ child \in [Runs -> Children]
      /\ stepLock \in [AllSteps -> Runs \cup {NoRun}]
  BY RunsAssumption DEF TypeOK
<1>1. /\ UNCHANGED <<pc, pipelineLock>>
      /\ child'[r].step = child[r].step
      /\ child[r].at \in {"starting", "working", "finished"}
  BY ProcessesMindThemselves
<1>2. /\ pc[r] \in {"waiting", "dead"} /\ child[r].step \in AllSteps
      /\ \A s \in AllSteps : stepLock[s] = r => s = child[r].step
  BY <1>1 DEF HoldsOnlyItsOwn
<1>3. ASSUME \A s \in AllSteps : stepLock'[s] = r => s = child[r].step /\ HoldsItsStep(r)'
      PROVE  HoldsOnlyItsOwn(r)'
  BY <1>1, <1>2, <1>3 DEF HoldsOnlyItsOwn, Owns, Acting
<1>4. ASSUME NEW status, Exited(r, status)
      PROVE  \A s \in AllSteps : stepLock'[s] # r /\ (stepLock'[s] = stepLock[s] \/ stepLock'[s] = NoRun)
  BY <1>0, <1>2, <1>4 DEF Exited
<1>5. CASE TakeStepLock(r) /\ StepFree(r)
  <2>1. /\ child' = [child EXCEPT ![r].at = "working"]
        /\ stepLock' = [stepLock EXCEPT ![child[r].step] = r]
    BY <1>5 DEF TakeStepLock, ChildAt
  <2>2. HoldsItsStep(r)'
    BY <1>0, <2>1 DEF HoldsItsStep, Children
  <2> QED
    BY <1>0, <1>2, <1>3, <2>1, <2>2
<1>6. CASE EmptyCatalog(r) \/ Produce(r)
  <2>1. /\ child' = [child EXCEPT ![r].at = "finished"]
        /\ stepLock' = stepLock
    BY <1>6 DEF EmptyCatalog, Produce, ChildAt, lockVars
  <2>2. HoldsItsStep(r)'
    BY <1>0, <2>1 DEF HoldsItsStep, Children
  <2> QED
    BY <1>2, <1>3, <2>1, <2>2
<1>7. CASE \E status : Exited(r, status)
  BY <1>3, <1>4, <1>7, RunsAssumption
<1> QED
  BY <1>5, <1>6, <1>7 DEF ChildStep, TakeStepLock, Exit, Killed

(* Every step leaves every run and process what is its own.                *)
LEMMA HoldersNext == TypeOK /\ HoldersInv /\ [Next]_vars => HoldersInv'
<1> SUFFICES ASSUME TypeOK, HoldersInv, [Next]_vars PROVE HoldersInv'
  OBVIOUS
<1>0. /\ NoRun \notin Runs
      /\ stepLock \in [AllSteps -> Runs \cup {NoRun}]
      /\ left \in [Runs -> SUBSET AllSteps]
  BY RunsAssumption DEF TypeOK
<1> SUFFICES ASSUME NEW q \in Runs PROVE HoldsOnlyItsOwn(q)'
  BY DEF HoldersInv
<1>q. HoldsOnlyItsOwn(q)
  BY DEF HoldersInv
<1>1. ASSUME NEW r \in Runs, RunStep(r) PROVE HoldsOnlyItsOwn(q)'
  <2>1. CASE r = q
    BY <1>q, <1>1, <2>1, HoldersRunStep
  <2>2. CASE r # q
    <3>1. \A s \in AllSteps : stepLock'[s] = q => stepLock[s] = q
      <4>1. ASSUME NEW s \in left[r], Probe(r, s) \/ Unprobe(r, s)
            PROVE  \A t \in AllSteps : stepLock'[t] \in {stepLock[t], r, NoRun}
        BY <1>0, <4>1 DEF Probe, Unprobe, Released
      <4> QED
        BY <1>0, <1>1, <2>2, <4>1, RunsProbeForThemselves
    <3>2. /\ pc'[q] = pc[q] /\ left'[q] = left[q] /\ child'[q] = child[q]
          /\ pipelineLock' = q <=> pipelineLock = q
      BY <1>1, <2>2, RunsMindThemselves, RunsClaimForThemselves
    <3> QED
      BY <1>q, <3>1, <3>2, HoldersFrame
  <2> QED
    BY <2>1, <2>2
<1>2. ASSUME NEW r \in Runs, ChildStep(r) PROVE HoldsOnlyItsOwn(q)'
  <2>1. HoldsOnlyItsOwn(r)
    BY DEF HoldersInv
  <2>2. CASE r = q
    BY <1>2, <2>1, <2>2, HoldersChildStep
  <2>3. CASE r # q
    <3>1. \A s \in AllSteps : stepLock'[s] = q => stepLock[s] = q
      BY <1>2, <2>1, <2>3, HoldersChildStep
    <3>2. /\ pc'[q] = pc[q] /\ left'[q] = left[q] /\ child'[q] = child[q]
          /\ pipelineLock' = pipelineLock
      BY <1>2, <2>3, ProcessesMindThemselves
    <3> QED
      BY <1>q, <3>1, <3>2, HoldersFrame
  <2> QED
    BY <2>2, <2>3
<1>3. ASSUME NEW r \in Runs, Interrupt(r) PROVE HoldsOnlyItsOwn(q)'
  BY <1>q, <1>3, HoldersFrame DEF Interrupt, lockVars
<1>4. ASSUME NEW r \in Runs, Die(r) PROVE HoldsOnlyItsOwn(q)'
  <2>1. /\ Goto(r, "dead") /\ left' = [left EXCEPT ![r] = {}] /\ child' = child
        /\ pipelineLock' = IF Owns(r) THEN NoRun ELSE pipelineLock
        /\ stepLock' = [s \in AllSteps |-> IF pc[r] = "probe" /\ stepLock[s] = r
                                           THEN NoRun ELSE stepLock[s]]
    BY <1>4 DEF Die, Vanish
  <2>2. \A s \in AllSteps : stepLock'[s] = q => stepLock[s] = q
    BY <1>0, <2>1
  <2>3. CASE r # q
    <3>1. pc'[q] = pc[q] /\ left'[q] = left[q]
      BY <2>1, <2>3 DEF Goto, TypeOK
    <3>2. pipelineLock' = q <=> pipelineLock = q
      BY <1>0, <2>1, <2>3 DEF Owns
    <3> QED
      BY <1>q, <2>1, <2>2, <3>1, <3>2, HoldersFrame
  <2>4. CASE r = q
    <3>1. pc'[q] = "dead" /\ ~Owns(q)'
      BY <1>0, <2>1, <2>4 DEF Goto, Owns, TypeOK
    <3>2. ASSUME NEW s \in AllSteps, stepLock'[s] = q
          PROVE  HoldsItsStep(q) /\ child[q].step = s
      BY <1>0, <1>q, <2>1, <2>2, <2>4, <3>2 DEF HoldsOnlyItsOwn
    <3> QED
      BY <1>q, <2>1, <3>1, <3>2 DEF HoldsOnlyItsOwn, HoldsItsStep
  <2> QED
    BY <2>3, <2>4
<1>5. CASE Restart
  <2>1. /\ UNCHANGED <<pc, left, child>>
        /\ pipelineLock' = NoRun
        /\ stepLock' = [s \in AllSteps |-> NoRun]
    BY <1>5 DEF Restart, runVars
  <2> QED
    BY <1>0, <1>q, <2>1 DEF HoldsOnlyItsOwn, Owns
<1>6. CASE UNCHANGED vars
  BY <1>q, <1>6, HoldersFrame DEF vars
<1> QED
  BY <1>1, <1>2, <1>3, <1>4, <1>5, <1>6 DEF Next, Quiet

(* However often the server restarts, no lock is left behind: the library's*)
(* lock belongs to a run that acts, and a step's lock to a process at work *)
(* or to a probe (pipeline/locks.py, pipeline/step_lock.py).               *)
THEOREM LocksEndWithTheirHolders == Spec => []NoLockOutlivesItsHolder
<1>1. Init => HoldersInv
  BY RunsAssumption DEF Init, HoldersInv, HoldsOnlyItsOwn, Owns, NoChild
<1>2. TypeOK /\ HoldersInv /\ [Next]_vars => HoldersInv'
  BY HoldersNext
<1>3. TypeOK /\ HoldersInv => NoLockOutlivesItsHolder
  <2> SUFFICES ASSUME TypeOK, HoldersInv PROVE NoLockOutlivesItsHolder
    OBVIOUS
  <2>1. /\ pipelineLock # NoRun => pipelineLock \in Runs
        /\ \A s \in AllSteps : stepLock[s] # NoRun => stepLock[s] \in Runs
    BY DEF TypeOK
  <2> QED
    BY <2>1 DEF HoldersInv, HoldsOnlyItsOwn, Owns, NoLockOutlivesItsHolder
<1> QED
  BY <1>1, <1>2, <1>3, TypeCorrect, PTL DEF Spec

-----------------------------------------------------------------------------
(* A run whose lock a restart took: between two steps without it, ended or *)
(* dead.                                                                   *)
MakesWay(r) == (pc[r] = "taking" /\ ~Owns(r)) \/ pc[r] \in {"ended", "dead"}

(* A run that makes way takes no step but to its end.                      *)
LEMMA MakingWayIsEnding ==
  ASSUME TypeOK, NEW r \in Runs, MakesWay(r), RunStep(r)
  PROVE  pc'[r] = "ended"
<1>1. pc[r] \in {"taking", "ended", "dead"}
  BY DEF MakesWay
<1>2. Take(r)
  BY <1>1 DEF RunStep, Start, Screen, RecordIntent, StartReset, ClearIntent, BeginTaking, Reap,
              LoseCatalog, Probe, Unprobe, Sweep, Forget, Decide, Reseal, StartStep, Bind
<1>3. ~Held(r)
  BY <1>2 DEF Take, MakesWay, Owns, Held
<1>4. Goto(r, "ended")
  BY <1>2, <1>3 DEF Take, End
<1> QED
  BY <1>4 DEF Goto, TypeOK

(* No step of the system lets a run that makes way go on.                  *)
LEMMA MakingWayNext ==
  ASSUME TypeOK, NEW r \in Runs, MakesWay(r), [Next]_vars
  PROVE  MakesWay(r)'
<1> USE DEF MakesWay, Owns
<1>0. ASSUME pc'[r] = pc[r], pipelineLock' = r => pipelineLock = r
      PROVE  MakesWay(r)'
  BY <1>0
<1>1. ASSUME NEW q \in Runs, RunStep(q) PROVE MakesWay(r)'
  <2>1. CASE q = r
    BY <1>1, <2>1, MakingWayIsEnding
  <2>2. CASE q # r
    BY <1>0, <1>1, <2>2, RunsMindThemselves, RunsClaimForThemselves, RunsAssumption
  <2> QED
    BY <2>1, <2>2
<1>2. ASSUME NEW q \in Runs, ChildStep(q) PROVE MakesWay(r)'
  BY <1>0, <1>2, ProcessesMindThemselves
<1>3. ASSUME NEW q \in Runs, Interrupt(q) PROVE MakesWay(r)'
  BY <1>0, <1>3 DEF Interrupt, lockVars
<1>4. ASSUME NEW q \in Runs, Die(q) PROVE MakesWay(r)'
  <2>1. Goto(q, "dead") /\ pipelineLock' \in {pipelineLock, NoRun}
    BY <1>4 DEF Die, Vanish
  <2>2. CASE q = r
    BY <2>1, <2>2 DEF Goto, TypeOK
  <2>3. CASE q # r
    BY <1>0, <2>1, <2>3, GoingMovesOneRun, RunsAssumption
  <2> QED
    BY <2>2, <2>3
<1>5. CASE Restart
  BY <1>0, <1>5, RunsAssumption DEF Restart, runVars
<1>6. CASE UNCHANGED vars
  BY <1>0, <1>6 DEF vars
<1> QED
  BY <1>1, <1>2, <1>3, <1>4, <1>5, <1>6 DEF Next, Quiet

(* However often the server restarts: a run that has lost the library's    *)
(* lock when it is between two steps takes no further step, ever, since it *)
(* reads its lock back first and never claims it again (scheduler.py,      *)
(* _take_in_order).                                                        *)
THEOREM LostRunsAlwaysMakeWay == Spec => LostRunsTakeNothingMore
<1>1. ASSUME NEW r \in Runs
      PROVE  Spec => [](pc[r] = "taking" /\ ~Owns(r) => [](pc[r] \in {"taking", "ended", "dead"}))
  <2>1. pc[r] = "taking" /\ ~Owns(r) => MakesWay(r)
    BY DEF MakesWay
  <2>2. TypeOK /\ MakesWay(r) /\ [Next]_vars => MakesWay(r)'
    BY MakingWayNext
  <2>3. MakesWay(r) => pc[r] \in {"taking", "ended", "dead"}
    BY DEF MakesWay
  <2> QED
    BY <2>1, <2>2, <2>3, TypeCorrect, PTL DEF Spec
<1> QED
  BY <1>1 DEF LostRunsTakeNothingMore

-----------------------------------------------------------------------------
(* What keeps a run going, however often the server restarts: somebody     *)
(* always has a step to take, and every step gets its run nearer its end.  *)

(* A run that has a step in hand has it left.                              *)
LeftInv ==
  \A r \in Runs :
    pc[r] \in {"probe", "deciding", "resealing", "starting", "binding"} => left[r] # {}

(* A run that waits has a process, or the exit of one to read.             *)
WaitsInv == \A r \in Runs : pc[r] = "waiting" => child[r].at # "none"

(* The guards of RunStep, action by action.                                *)
HasAStep(r) ==
  \/ pc[r] = "new"
  \/ pc[r] \in {"probing", "probe"} /\ Owns(r) /\ \E s \in left[r] : First(r, s)
  \/ pc[r] \in {"probing", "probe", "deciding", "binding"} /\ ~Owns(r)
  \/ pc[r] \in {"probing", "sweeping", "redoing"} /\ left[r] = {}
  \/ pc[r] \in {"recording", "resetting", "taking"}
  \/ pc[r] \in {"sweeping", "deciding", "resealing", "starting"} /\ \E s \in left[r] : First(r, s)
  \/ pc[r] = "redoing" /\ \E s \in left[r] : TRUE
  \/ pc[r] = "waiting" /\ child[r].at = "exited"
  \/ pc[r] = "binding" /\ \E s \in left[r] : First(r, s) /\ (s \in Cataloged => Owns(r))

(* A run goes through its phases in order...                               *)
PhaseAt(place, step) ==
  CASE place = "new" -> 0
    [] place \in {"probing", "probe"} -> 1
    [] place = "recording" -> 2
    [] place = "resetting" -> 3
    [] place = "waiting" /\ step = Reset -> 4
    [] place = "sweeping" -> 5
    [] place = "redoing" -> 6
    [] place = "waiting" /\ step # Reset -> 7
    [] place \in {"taking", "deciding", "resealing", "starting", "binding"} -> 7
    [] OTHER -> 8

(* ...and with the step in hand through these places.                      *)
ErrandAt(place) ==
  CASE place \in {"probing", "taking"} -> 0
    [] place \in {"probe", "deciding"} -> 1
    [] place \in {"resealing", "starting"} -> 2
    [] place = "waiting" -> 3
    [] OTHER -> 4

(* It comes to a later phase, is through with a step, or further with one. *)
GoesOn(r) ==
  LET phase == PhaseAt(pc[r], child[r].step)
      next == PhaseAt(pc'[r], child'[r].step)
  IN \/ phase < next
     \/ phase = next /\ left'[r] \subseteq left[r] /\ left'[r] # left[r]
     \/ phase = next /\ left'[r] = left[r] /\ ErrandAt(pc[r]) < ErrandAt(pc'[r])

(* A set of numbers has a least one.                                       *)
LEMMA LeastNumber ==
  ASSUME NEW T, T \subseteq Nat, T # {}
  PROVE  \E x \in T : \A y \in T : x <= y
<1>1. \A x, y \in Nat : x < y => <<x, y>> \in OpToRel(<, Nat)
  BY DEF OpToRel
<1>2. PICK R : IsWellFoundedOn(R, Nat) /\ \A x, y \in Nat : x < y => <<x, y>> \in R
  BY <1>1, NatLessThanWellFounded
<1>3. IsWellFoundedOn(R, Nat)
  BY <1>2
<1>4. \A x, y \in Nat : x < y => <<x, y>> \in R
  BY <1>2
<1>5. PICK x \in T : \A y \in T : ~ (<<y, x>> \in R)
  BY <1>3, WFMin
<1>6. ASSUME NEW y \in T
      PROVE  x <= y
  <2>1. x \in Nat /\ y \in Nat
    OBVIOUS
  <2>2. y < x => <<y, x>> \in R
    BY <1>4, <2>1
  <2>3. ~ (y < x)
    BY <2>2, <1>5
  <2> QED
    BY <2>1, <2>3
<1> QED
  BY <1>6

(* The step a run has reached.                                             *)
LEMMA SomeStepIsFirst ==
  ASSUME TypeOK, NEW r \in Runs, left[r] # {}
  PROVE  \E s \in left[r] : First(r, s)
<1>1. left[r] \subseteq Nat
  BY StepsAssumption DEF TypeOK, AllSteps
<1> QED
  BY <1>1, LeastNumber DEF First

(* A run takes a step in hand only where one is left.                      *)
LEMMA LeftRunStep ==
  ASSUME TypeOK, AccountInv, LeftInv, NEW r \in Runs, RunStep(r)
  PROVE  pc'[r] \in {"probe", "deciding", "resealing", "starting", "binding"} => left'[r] # {}
<1> USE DEF Goto, Settle, Stop, End
<1>0. /\ pc \in [Runs -> Places] /\ left \in [Runs -> SUBSET AllSteps]
  BY DEF TypeOK
<1>1. CASE Start(r) \/ Screen(r) \/ RecordIntent(r) \/ StartReset(r) \/ ClearIntent(r) \/ BeginTaking(r)
           \/ LoseCatalog(r)
  BY <1>0, <1>1 DEF Start, Screen, RecordIntent, StartReset, Spawn, ClearIntent, BeginTaking,
                    LoseCatalog, Vanish
<1>2. CASE Take(r)
  BY <1>0, <1>2 DEF Take
<1>3. CASE Reap(r)
  <2>1. pc'[r] \in {"sweeping", "ended"} \/ (left' = left /\ child[r].step # Reset)
    BY <1>0, <1>3 DEF Reap
  <2>2. pc[r] = "waiting"
    BY <1>3 DEF Reap
  <2>3. child[r].step # Reset => left[r] # {}
    BY <2>2 DEF AccountInv, AccountOf, First
  <2> QED
    BY <2>1, <2>3
<1>4. ASSUME NEW s \in left[r], Probe(r, s) \/ Unprobe(r, s) \/ Sweep(r, s) \/ Forget(r, s)
      PROVE  pc'[r] \in {"probe", "deciding", "resealing", "starting", "binding"} => left'[r] # {}
  BY <1>0, <1>4 DEF Probe, Unprobe, Sweep, Forget
<1>5. ASSUME NEW s \in left[r], Decide(r, s) \/ Reseal(r, s) \/ StartStep(r, s) \/ Bind(r, s)
      PROVE  pc'[r] \in {"probe", "deciding", "resealing", "starting", "binding"} => left'[r] # {}
  BY <1>0, <1>5 DEF Decide, Reseal, StartStep, Spawn, Bind
<1> QED
  BY <1>1, <1>2, <1>3, <1>4, <1>5 DEF RunStep

(* Nobody takes it away from a run before it is through with it.           *)
LEMMA LeftNext ==
  ASSUME TypeOK, AccountInv, LeftInv, [Next]_vars PROVE LeftInv'
<1>1. ASSUME NEW r \in Runs, RunStep(r) PROVE LeftInv'
  BY <1>1, LeftRunStep, RunsMindThemselves DEF LeftInv
<1>2. ASSUME NEW r \in Runs, ChildStep(r) PROVE LeftInv'
  BY <1>2, ProcessesMindThemselves DEF LeftInv
<1>3. ASSUME NEW r \in Runs, Interrupt(r) PROVE LeftInv'
  BY <1>3 DEF Interrupt, LeftInv
<1>4. ASSUME NEW r \in Runs, Die(r) PROVE LeftInv'
  <2>1. /\ pc'[r] = "dead"
        /\ \A q \in Runs \ {r} : pc'[q] = pc[q] /\ left'[q] = left[q]
    BY <1>4 DEF Die, Vanish, Goto, TypeOK
  <2> QED
    BY <2>1 DEF LeftInv
<1>5. CASE Restart \/ UNCHANGED vars
  BY <1>5 DEF Restart, vars, runVars, LeftInv
<1> QED
  BY <1>1, <1>2, <1>3, <1>4, <1>5 DEF Next, Quiet

(* A run that waits started a step, and has not read its exit.             *)
LEMMA WaitsRunStep ==
  ASSUME TypeOK, NEW r \in Runs, RunStep(r), pc'[r] = "waiting"
  PROVE  child'[r].at # "none"
<1> USE DEF Goto, Settle, Stop, End, Reached
<1>0. pc \in [Runs -> Places] /\ child \in [Runs -> Children]
  BY DEF TypeOK
<1>1. ~ (Start(r) \/ Screen(r) \/ RecordIntent(r) \/ ClearIntent(r) \/ BeginTaking(r) \/ Take(r)
         \/ LoseCatalog(r))
  BY <1>0 DEF Start, Screen, RecordIntent, ClearIntent, BeginTaking, Take, LoseCatalog, Vanish
<1>2. ~ Reap(r)
  <2>1. Reap(r) => pc'[r] \in {"sweeping", "binding", "ended"}
    BY <1>0 DEF Reap
  <2> QED
    BY <2>1
<1>3. \A s \in left[r] :
        ~ (Probe(r, s) \/ Unprobe(r, s) \/ Sweep(r, s) \/ Forget(r, s) \/ Decide(r, s)
           \/ Reseal(r, s) \/ Bind(r, s))
  BY <1>0 DEF Probe, Unprobe, Sweep, Forget, Decide, Reseal, Bind
<1>4. \E s : Spawn(r, s)
  BY <1>1, <1>2, <1>3 DEF RunStep, StartReset, StartStep
<1> QED
  BY <1>0, <1>4 DEF Spawn

(* No process is taken from a run that waits for it.                       *)
LEMMA WaitsNext ==
  ASSUME TypeOK, WaitsInv, [Next]_vars PROVE WaitsInv'
<1>1. ASSUME NEW r \in Runs, RunStep(r) PROVE WaitsInv'
  BY <1>1, WaitsRunStep, RunsMindThemselves DEF WaitsInv
<1>2. ASSUME NEW r \in Runs, ChildStep(r) PROVE WaitsInv'
  <2>1. child'[r].at # "none"
    BY <1>2 DEF ChildStep, TakeStepLock, EmptyCatalog, Produce, Exit, Killed, WithinReach, ChildAt,
                Exited, TypeOK, Children
  <2> QED
    BY <1>2, <2>1, ProcessesMindThemselves DEF WaitsInv
<1>3. ASSUME NEW r \in Runs, Interrupt(r) PROVE WaitsInv'
  BY <1>3 DEF Interrupt, WaitsInv
<1>4. ASSUME NEW r \in Runs, Die(r) PROVE WaitsInv'
  <2>1. /\ pc'[r] = "dead" /\ child' = child
        /\ \A q \in Runs \ {r} : pc'[q] = pc[q]
    BY <1>4 DEF Die, Vanish, Goto, TypeOK
  <2> QED
    BY <2>1 DEF WaitsInv
<1>5. CASE Restart \/ UNCHANGED vars
  BY <1>5 DEF Restart, vars, runVars, WaitsInv
<1> QED
  BY <1>1, <1>2, <1>3, <1>4, <1>5 DEF Next, Quiet

(* A run is never left without a step of its own to take but where it      *)
(* waits for a process it started that is still there, so that a third     *)
(* interrupt finds it; whoever holds which lock and however often a restart*)
(* of the server takes them away (pipeline/scheduler.py, run_pipeline).    *)
THEOREM RunsAlwaysHaveAStep ==
  Spec => [](\A r \in Runs :
               Acting(r) => HasAStep(r) \/ (pc[r] = "waiting" /\ WithinReach(r)))
<1>1. Init => LeftInv /\ WaitsInv
  BY DEF Init, LeftInv, WaitsInv
<1>2. TypeOK /\ AccountInv /\ LeftInv /\ [Next]_vars => AccountInv' /\ LeftInv'
  BY AccountNext, LeftNext
<1>3. TypeOK /\ WaitsInv /\ [Next]_vars => WaitsInv'
  BY WaitsNext
<1>4. TypeOK /\ LeftInv /\ WaitsInv => \A r \in Runs :
        Acting(r) => HasAStep(r) \/ (pc[r] = "waiting" /\ WithinReach(r))
  <2> SUFFICES ASSUME TypeOK, LeftInv, WaitsInv, NEW r \in Runs, Acting(r)
               PROVE  HasAStep(r) \/ (pc[r] = "waiting" /\ WithinReach(r))
    OBVIOUS
  <2>1. pc[r] \in Places
    BY DEF TypeOK
  <2>2. CASE pc[r] = "waiting"
    <3>1. child[r].at \in {"starting", "working", "finished", "exited"}
      BY <2>2 DEF WaitsInv, TypeOK, Children
    <3> QED
      BY <2>2, <3>1 DEF HasAStep, WithinReach
  <2>3. CASE pc[r] # "waiting" /\ left[r] = {}
    BY <2>1, <2>3 DEF LeftInv, HasAStep, Acting, Places
  <2>4. CASE pc[r] # "waiting" /\ left[r] # {}
    <3>1. PICK s \in left[r] : First(r, s)
      BY <2>4, SomeStepIsFirst
    <3> QED
      BY <2>1, <2>4, <3>1 DEF HasAStep, Acting, Places
  <2> QED
    BY <2>2, <2>3, <2>4
<1> QED
  BY <1>1, <1>2, <1>3, <1>4, AccountInit, TypeCorrect, PTL DEF Spec

(* The order of the phases...                                              *)
LEMMA PhasesAre ==
  ASSUME NEW step
  PROVE  /\ PhaseAt("new", step) = 0
         /\ PhaseAt("probing", step) = 1 /\ PhaseAt("probe", step) = 1
         /\ PhaseAt("recording", step) = 2
         /\ PhaseAt("resetting", step) = 3
         /\ step = Reset => PhaseAt("waiting", step) = 4
         /\ step # Reset => PhaseAt("waiting", step) = 7
         /\ PhaseAt("sweeping", step) = 5
         /\ PhaseAt("redoing", step) = 6
         /\ PhaseAt("taking", step) = 7 /\ PhaseAt("deciding", step) = 7
         /\ PhaseAt("resealing", step) = 7 /\ PhaseAt("starting", step) = 7
         /\ PhaseAt("binding", step) = 7
         /\ PhaseAt("ended", step) = 8 /\ PhaseAt("dead", step) = 8
<1>1. PhaseAt("new", step) = 0
  BY DEF PhaseAt
<1>2. PhaseAt("probing", step) = 1 /\ PhaseAt("probe", step) = 1
  BY DEF PhaseAt
<1>3. PhaseAt("recording", step) = 2 /\ PhaseAt("resetting", step) = 3
  BY DEF PhaseAt
<1>4. PhaseAt("waiting", Reset) = 4
  BY DEF PhaseAt
<1>5. ASSUME step # Reset PROVE PhaseAt("waiting", step) = 7
  BY <1>5 DEF PhaseAt
<1>6. PhaseAt("sweeping", step) = 5 /\ PhaseAt("redoing", step) = 6
  BY DEF PhaseAt
<1>7. \A place \in {"taking", "deciding", "resealing", "starting", "binding"} :
        PhaseAt(place, step) = 7
  BY DEF PhaseAt
<1>8. PhaseAt("ended", step) = 8 /\ PhaseAt("dead", step) = 8
  BY DEF PhaseAt
<1> QED
  BY <1>1, <1>2, <1>3, <1>4, <1>5, <1>6, <1>7, <1>8

(* ...and of the places.                                                   *)
LEMMA ErrandsAre ==
  /\ ErrandAt("probing") < ErrandAt("probe")
  /\ ErrandAt("taking") < ErrandAt("deciding")
  /\ ErrandAt("deciding") < ErrandAt("resealing")
  /\ ErrandAt("deciding") < ErrandAt("starting")
  /\ ErrandAt("starting") < ErrandAt("waiting")
  /\ ErrandAt("waiting") < ErrandAt("binding")
BY DEF ErrandAt

(* Every step of a run is one on its way.                                  *)
LEMMA RunsGoOn ==
  ASSUME TypeOK, AccountInv, NEW r \in Runs, RunStep(r) PROVE GoesOn(r)
<1> USE DEF Goto, Settle, Stop, End, Reached
<1>0. /\ pc \in [Runs -> Places] /\ left \in [Runs -> SUBSET AllSteps]
      /\ child \in [Runs -> Children]
  BY DEF TypeOK
<1>1. CASE Start(r) \/ Screen(r)
  <2>1. \/ pc[r] = "new" /\ pc'[r] \in {"probing", "ended"}
        \/ pc[r] = "probing" /\ pc'[r] \in {"ended", "recording", "redoing"}
    BY <1>0, <1>1 DEF Start, Screen
  <2> QED
    BY <2>1, PhasesAre, ErrandsAre DEF GoesOn
<1>2. CASE RecordIntent(r) \/ ClearIntent(r) \/ BeginTaking(r) \/ LoseCatalog(r)
  <2>1. \/ pc[r] = "recording" /\ pc'[r] = "resetting"
        \/ pc[r] = "sweeping" /\ pc'[r] = "redoing"
        \/ pc[r] = "redoing" /\ pc'[r] = "taking"
        \/ pc[r] \in {"probing", "probe", "deciding", "binding"} /\ pc'[r] = "dead"
    BY <1>0, <1>2 DEF RecordIntent, ClearIntent, BeginTaking, LoseCatalog, Vanish
  <2> QED
    BY <2>1, PhasesAre, ErrandsAre DEF GoesOn
<1>3. CASE StartReset(r)
  <2>1. pc[r] = "resetting" /\ pc'[r] = "waiting" /\ child'[r].step = Reset
    BY <1>0, <1>3 DEF StartReset, Spawn
  <2> QED
    BY <2>1, PhasesAre, ErrandsAre DEF GoesOn
<1>4. CASE Take(r)
  <2>1. pc[r] = "taking" /\ (pc'[r] = "ended" \/ (pc'[r] = "deciding" /\ left' = left))
    BY <1>0, <1>4 DEF Take
  <2> QED
    BY <2>1, PhasesAre, ErrandsAre DEF GoesOn
<1>5. CASE Reap(r)
  <2>1. /\ pc[r] = "waiting"
        /\ \/ pc'[r] = "ended"
           \/ pc'[r] = "sweeping" /\ child[r].step = Reset
           \/ pc'[r] = "binding" /\ child[r].step # Reset /\ left' = left
    BY <1>0, <1>5 DEF Reap
  <2> QED
    BY <2>1, PhasesAre, ErrandsAre DEF GoesOn
<1>6. ASSUME NEW s \in left[r], Probe(r, s) \/ Unprobe(r, s) \/ Sweep(r, s) \/ Forget(r, s)
      PROVE  GoesOn(r)
  <2>1. \/ pc[r] = "probing" /\ pc'[r] = "probe" /\ left'[r] = left[r]
        \/ /\ pc[r] \in {"probing", "probe"} /\ pc'[r] = "probing"
           /\ left'[r] = left[r] \ {s}
        \/ pc[r] \in {"sweeping", "redoing"} /\ pc'[r] = pc[r] /\ left'[r] = left[r] \ {s}
    BY <1>0, <1>6 DEF Probe, Unprobe, Sweep, Forget
  <2> QED
    BY <2>1, PhasesAre, ErrandsAre DEF GoesOn
<1>7. ASSUME NEW s \in left[r], Decide(r, s) \/ Reseal(r, s) \/ Bind(r, s)
      PROVE  GoesOn(r)
  <2>1. /\ pc[r] \in {"deciding", "resealing", "binding"}
        /\ \/ pc'[r] = "ended"
           \/ pc'[r] = "taking" /\ left'[r] = left[r] \ {s}
           \/ pc[r] = "deciding" /\ pc'[r] \in {"resealing", "starting"} /\ left' = left
    BY <1>0, <1>7 DEF Decide, Reseal, Bind
  <2> QED
    BY <2>1, PhasesAre, ErrandsAre DEF GoesOn
<1>8. ASSUME NEW s \in left[r], StartStep(r, s)
      PROVE  GoesOn(r)
  <2>1. pc[r] = "starting" /\ pc'[r] = "waiting" /\ child'[r].step = s /\ left' = left
    BY <1>0, <1>8 DEF StartStep, Spawn
  <2>2. s # Reset
    <3>1. s \in request[r].targets
      BY <1>8, <2>1 DEF AccountInv, AccountOf, TakingSteps, TakenSoFar
    <3> QED
      BY <3>1, RequestsLieInTheGraph DEF Steps, Reset
  <2> QED
    BY <2>1, <2>2, PhasesAre, ErrandsAre DEF GoesOn
<1> QED
  BY <1>1, <1>2, <1>3, <1>4, <1>5, <1>6, <1>7, <1>8 DEF RunStep

(* No run ever turns back: each of its steps brings it to a later phase,   *)
(* or is through with a step of those left, or further with the one in     *)
(* hand; and nothing else that happens moves a run, but for what kills it. *)
(* With the steps there are, a run that is not left waiting therefore ends *)
(* (pipeline/scheduler.py, run_pipeline and _take_in_order).               *)
THEOREM RunsOnlyGoOn ==
  Spec => [][\A r \in Runs : /\ RunStep(r) => GoesOn(r)
                             /\ GoesOn(r) \/ (pc'[r] = pc[r] /\ left'[r] = left[r])]_vars
<1>1. ASSUME TypeOK, AccountInv, [Next]_vars, NEW r \in Runs
      PROVE  GoesOn(r) \/ (pc'[r] = pc[r] /\ left'[r] = left[r])
  <2>1. ASSUME NEW q \in Runs, RunStep(q)
        PROVE  GoesOn(r) \/ (pc'[r] = pc[r] /\ left'[r] = left[r])
    BY <1>1, <2>1, RunsGoOn, RunsMindThemselves
  <2>2. ASSUME NEW q \in Runs, ChildStep(q) \/ Interrupt(q)
        PROVE  pc'[r] = pc[r] /\ left'[r] = left[r]
    BY <1>1, <2>2, ProcessesMindThemselves DEF Interrupt
  <2>3. ASSUME NEW q \in Runs, Die(q)
        PROVE  GoesOn(r) \/ (pc'[r] = pc[r] /\ left'[r] = left[r])
    <3>1. /\ Acting(q) /\ pc'[q] = "dead"
          /\ q # r => pc'[r] = pc[r] /\ left'[r] = left[r]
      BY <1>1, <2>3 DEF Die, Vanish, Goto, TypeOK
    <3>2. q = r => GoesOn(r)
      <4> SUFFICES ASSUME q = r PROVE GoesOn(r)
        OBVIOUS
      <4>1. pc[r] \in Places \ {"new", "ended", "dead"}
        BY <1>1, <3>1 DEF Acting, TypeOK
      <4>2. PhaseAt(pc[r], child[r].step) \in 1..7
        BY <4>1, PhasesAre DEF Places
      <4>3. PhaseAt(pc'[r], child'[r].step) = 8
        BY <3>1, PhasesAre
      <4> QED
        BY <4>2, <4>3 DEF GoesOn
    <3> QED
      BY <3>1, <3>2
  <2>4. CASE Restart \/ UNCHANGED vars
    BY <2>4 DEF Restart, vars, runVars
  <2> QED
    BY <1>1, <2>1, <2>2, <2>3, <2>4 DEF Next, Quiet
<1>2. TypeOK /\ AccountInv /\ [Next]_vars =>
        [\A r \in Runs : /\ RunStep(r) => GoesOn(r)
                         /\ GoesOn(r) \/ (pc'[r] = pc[r] /\ left'[r] = left[r])]_vars
  BY <1>1, RunsGoOn
<1>3. TypeOK /\ AccountInv /\ [Next]_vars => AccountInv'
  BY AccountNext
<1> QED
  BY <1>2, <1>3, AccountInit, TypeCorrect, PTL DEF Spec

-----------------------------------------------------------------------------
(* The loops that answer for a graph (StepGraphLoops), over a graph and    *)
(* variables of their own: what a run takes its order of steps from.       *)
VARIABLES graph, wanted, asked, loop, settled, needed, lacking, reached

Loops == INSTANCE StepGraphLoops WITH requires <- graph, pc <- loop

(* What is settled has an order; what is needed so far the targets need;   *)
(* what is reached so far needs the step asked for.                        *)
LoopsInv ==
  /\ Loops!TypeOK
  /\ \A S \in SUBSET Steps : S \cap settled # {} => \E s \in S : graph[s] \cap S = {}
  /\ loop \notin {"building", "refused"} => settled = Steps
  /\ loop = "refused" => ~ HasOrder(graph)
  /\ loop = "ordering" => wanted \subseteq needed /\ needed \subseteq Needed(graph, wanted)
  /\ loop \in {"screening", "descending", "answered"} => needed = Needed(graph, wanted)
  /\ loop \in {"descending", "answered"} => (lacking = 0 <=> needed \cap Unavailable = {})
  /\ loop = "descending" =>
       asked \in reached /\ \A t \in reached : asked \in Needed(graph, {t})
  /\ loop = "answered" => reached = Descendants(graph, asked)

(* What steps need is the least set around them that needs nothing more.   *)
LEMMA NeededIs ==
  ASSUME NEW g \in [Steps -> SUBSET Steps], NEW W \in SUBSET Steps
  PROVE  /\ W \subseteq Needed(g, W) /\ Needed(g, W) \subseteq Steps
         /\ Closed(g, Needed(g, W))
         /\ \A S \in SUBSET Steps : W \subseteq S /\ Closed(g, S) => Needed(g, W) \subseteq S
<1>1. Needed(g, W) = {s \in Steps : \A S \in SUBSET Steps : W \subseteq S /\ Closed(g, S) => s \in S}
  BY DEF Needed
<1>2. ASSUME NEW s \in Needed(g, W), NEW t \in g[s]
      PROVE  t \in Needed(g, W)
  <2>1. t \in Steps
    BY <1>1
  <2>2. ASSUME NEW S \in SUBSET Steps, W \subseteq S, Closed(g, S)
        PROVE  t \in S
    BY <1>1, <2>2 DEF Closed
  <2> QED
    BY <1>1, <2>1, <2>2
<1>3. Closed(g, Needed(g, W))
  BY <1>2 DEF Closed
<1> QED
  BY <1>1, <1>3

(* The definitions the loops are held against are those of StepGraph.      *)
LEMMA SameDefinitions ==
  /\ Loops!Steps = Steps
  /\ \A g, W : Loops!Needed(g, W) = Needed(g, W)
  /\ \A g, s : Loops!Descendants(g, s) = Descendants(g, s)
  /\ \A g : Loops!HasOrder(g) = HasOrder(g)
<1>1. \A g, S : Loops!Closed(g, S) <=> Closed(g, S)
  BY DEF Loops!Closed, Closed
<1>2. ASSUME NEW g, NEW W PROVE Loops!Needed(g, W) = Needed(g, W)
  BY <1>1 DEF Loops!Needed, Needed
<1>3. ASSUME NEW g, NEW s PROVE Loops!Descendants(g, s) = Descendants(g, s)
  BY <1>2 DEF Loops!Descendants, Descendants
<1> QED
  BY <1>2, <1>3 DEF Loops!Steps, Steps, Loops!HasOrder, HasOrder

(* What is ready waits on nothing but what is settled.                     *)
LEMMA SettlingKeepsOrder ==
  ASSUME LoopsInv, Loops!Settle
  PROVE  LoopsInv'
<1>1. /\ graph \in [Steps -> SUBSET Steps] /\ settled \subseteq Steps /\ loop = "building"
      /\ settled' = settled \cup Loops!Ready
      /\ UNCHANGED <<graph, wanted, asked, loop, needed, lacking, reached>>
  BY SameDefinitions DEF LoopsInv, Loops!TypeOK, Loops!Settle
<1>2. Loops!Ready = {s \in Steps \ settled : graph[s] \subseteq settled}
  BY SameDefinitions DEF Loops!Ready
<1>3. ASSUME NEW S \in SUBSET Steps, S \cap settled' # {}
      PROVE  \E s \in S : graph[s] \cap S = {}
  <2>1. CASE S \cap settled # {}
    BY <2>1 DEF LoopsInv
  <2>2. CASE S \cap settled = {}
    <3>1. PICK s \in S : s \in Loops!Ready
      BY <1>1, <1>3, <2>2
    <3>2. graph[s] \cap S = {}
      BY <1>2, <2>2, <3>1
    <3> QED
      BY <3>2
  <2> QED
    BY <2>1, <2>2
<1>4. Loops!TypeOK'
  BY <1>1, <1>2, SameDefinitions DEF LoopsInv, Loops!TypeOK
<1> QED
  BY <1>1, <1>3, <1>4 DEF LoopsInv

(* A graph is refused over steps that wait on one another.                 *)
LEMMA RefusingIsRight ==
  ASSUME LoopsInv, Loops!Refuse
  PROVE  LoopsInv'
<1>1. /\ graph \in [Steps -> SUBSET Steps] /\ settled \subseteq Steps /\ settled # Steps
      /\ Loops!Ready = {} /\ loop' = "refused"
      /\ UNCHANGED <<graph, wanted, asked, settled, needed, lacking, reached>>
  BY SameDefinitions DEF LoopsInv, Loops!TypeOK, Loops!Refuse
<1>2. Loops!Ready = {s \in Steps \ settled : graph[s] \subseteq settled}
  BY SameDefinitions DEF Loops!Ready
<1> DEFINE S == Steps \ settled
<1>3. S \in SUBSET Steps /\ S # {} /\ \A s \in S : graph[s] \cap S # {}
  BY <1>1, <1>2
<1>4. DOMAIN graph = Steps
  BY <1>1
<1> HIDE DEF S
<1>5. ~ HasOrder(graph)
  BY <1>3, <1>4 DEF HasOrder
<1>6. Loops!TypeOK'
  BY <1>1 DEF LoopsInv, Loops!TypeOK
<1> QED
  BY <1>1, <1>5, <1>6 DEF LoopsInv

(* What the targets name, they need.                                       *)
LEMMA AcceptingIsRight ==
  ASSUME LoopsInv, Loops!Accept
  PROVE  LoopsInv'
<1>1. /\ graph \in [Steps -> SUBSET Steps] /\ wanted \in SUBSET Steps /\ settled = Steps
      /\ loop' = "ordering" /\ needed' = wanted
      /\ UNCHANGED <<graph, wanted, asked, settled, lacking, reached>>
  BY SameDefinitions DEF LoopsInv, Loops!TypeOK, Loops!Accept
<1>2. wanted \subseteq Needed(graph, wanted)
  BY <1>1, NeededIs
<1>3. Loops!TypeOK'
  BY <1>1, SameDefinitions DEF LoopsInv, Loops!TypeOK
<1> QED
  BY <1>1, <1>2, <1>3 DEF LoopsInv

(* What is required by what is needed is needed; where that adds nothing,  *)
(* nothing is left out.                                                    *)
LEMMA GrowingIsRight ==
  ASSUME LoopsInv, Loops!Grow \/ Loops!Ordered
  PROVE  LoopsInv'
<1>1. /\ graph \in [Steps -> SUBSET Steps] /\ wanted \in SUBSET Steps /\ needed \subseteq Steps
      /\ loop = "ordering" /\ wanted \subseteq needed /\ needed \subseteq Needed(graph, wanted)
      /\ UNCHANGED <<graph, wanted, asked, settled, lacking, reached>>
  BY SameDefinitions DEF LoopsInv, Loops!TypeOK, Loops!Grow, Loops!Ordered
<1>2. /\ Closed(graph, Needed(graph, wanted)) /\ Needed(graph, wanted) \subseteq Steps
      /\ \A S \in SUBSET Steps : wanted \subseteq S /\ Closed(graph, S) => Needed(graph, wanted) \subseteq S
  BY <1>1, NeededIs
<1>3. Loops!Required = UNION {graph[s] : s \in needed}
  BY DEF Loops!Required
<1>4. CASE Loops!Grow
  <2>1. needed' = needed \cup Loops!Required /\ loop' = loop
    BY <1>4 DEF Loops!Grow
  <2>2. Loops!Required \subseteq Needed(graph, wanted)
    BY <1>1, <1>2, <1>3 DEF Closed
  <2>3. Loops!TypeOK'
    BY <1>1, <1>2, <2>1, <2>2, SameDefinitions DEF LoopsInv, Loops!TypeOK
  <2> QED
    BY <1>1, <2>1, <2>2, <2>3 DEF LoopsInv
<1>5. CASE Loops!Ordered
  <2>1. needed' = needed /\ loop' = "screening" /\ Loops!Required \subseteq needed
    BY <1>5 DEF Loops!Ordered
  <2>2. Closed(graph, needed)
    BY <1>3, <2>1 DEF Closed
  <2>3. needed = Needed(graph, wanted)
    BY <1>1, <1>2, <2>2
  <2>4. Loops!TypeOK'
    BY <1>1, <2>1 DEF LoopsInv, Loops!TypeOK
  <2> QED
    BY <1>1, <2>1, <2>3, <2>4 DEF LoopsInv
<1> QED
  BY <1>4, <1>5

(* Some step needed is unavailable exactly where one is named.             *)
LEMMA ScreeningIsRight ==
  ASSUME LoopsInv, Loops!Screen
  PROVE  LoopsInv'
<1> DEFINE missing == needed \cap Unavailable
<1>1. /\ graph \in [Steps -> SUBSET Steps] /\ asked \in Steps /\ needed = Needed(graph, wanted)
      /\ loop = "screening" /\ loop' = "descending" /\ reached' = {asked}
      /\ lacking' = IF missing = {} THEN 0
                    ELSE CHOOSE s \in missing : \A t \in missing \ {s} : s < t
      /\ UNCHANGED <<graph, wanted, asked, settled, needed>>
  BY SameDefinitions
     DEF LoopsInv, Loops!TypeOK, Loops!Screen, Loops!Before, Loops!NoStep
<1>2. missing \subseteq Steps
  BY KindsAssumption
<1> HIDE DEF missing
<1>3. lacking' \in Steps \cup {0} /\ (lacking' = 0 <=> missing = {})
  <2>1. CASE missing = {}
    BY <1>1, <2>1
  <2>2. CASE missing # {}
    <3>1. missing \subseteq Nat
      BY <1>2, StepsAssumption DEF Steps
    <3>2. PICK x \in missing : \A y \in missing : x <= y
      BY <2>2, <3>1, LeastNumber
    <3>3. \A t \in missing \ {x} : x < t
      BY <3>1, <3>2
    <3>4. lacking' \in missing
      BY <1>1, <2>2, <3>3
    <3>5. 0 \notin Steps
      BY StepsAssumption DEF Steps
    <3> QED
      BY <1>2, <2>2, <3>4, <3>5
  <2> QED
    BY <2>1, <2>2
<1>4. asked \in Needed(graph, {asked})
  BY <1>1, NeededIs
<1>5. Loops!TypeOK'
  BY <1>1, <1>3, SameDefinitions DEF LoopsInv, Loops!TypeOK, Loops!NoStep
<1> QED
  BY <1>1, <1>3, <1>4, <1>5 DEF LoopsInv, missing

(* What requires something reached needs the step asked for; where nothing *)
(* more does, no step that is not reached needs it.                        *)
LEMMA DescendingIsRight ==
  ASSUME LoopsInv, Loops!Descend \/ Loops!Answer
  PROVE  LoopsInv'
<1>1. /\ graph \in [Steps -> SUBSET Steps] /\ asked \in Steps /\ reached \subseteq Steps
      /\ loop = "descending" /\ asked \in reached
      /\ \A t \in reached : asked \in Needed(graph, {t})
      /\ UNCHANGED <<graph, wanted, asked, settled, needed, lacking>>
  BY SameDefinitions DEF LoopsInv, Loops!TypeOK, Loops!Descend, Loops!Answer
<1>2. Loops!Grown = reached \cup {s \in Steps : graph[s] \cap reached # {}}
  BY SameDefinitions DEF Loops!Grown
<1>3. CASE Loops!Descend
  <2>1. reached' = Loops!Grown /\ loop' = loop
    BY <1>3 DEF Loops!Descend
  <2>2. ASSUME NEW t \in Loops!Grown
        PROVE  asked \in Needed(graph, {t})
    <3>1. CASE t \in reached
      BY <1>1, <3>1
    <3>2. CASE t \in Steps /\ graph[t] \cap reached # {}
      <4>1. PICK u \in reached : u \in graph[t]
        BY <3>2
      <4>2. t \in Needed(graph, {t}) /\ Closed(graph, Needed(graph, {t}))
            /\ Needed(graph, {t}) \subseteq Steps
        BY <1>1, <3>2, NeededIs
      <4>3. u \in Needed(graph, {t})
        BY <4>1, <4>2 DEF Closed
      <4>4. {u} \subseteq Needed(graph, {t}) /\ {u} \in SUBSET Steps
        BY <1>1, <4>3
      <4>5. Needed(graph, {u}) \subseteq Needed(graph, {t})
        BY <1>1, <4>2, <4>4, NeededIs
      <4> QED
        BY <1>1, <4>1, <4>5
    <3> QED
      BY <1>2, <2>2, <3>1, <3>2
  <2>3. Loops!TypeOK'
    BY <1>1, <1>2, <2>1, SameDefinitions DEF LoopsInv, Loops!TypeOK
  <2> QED
    BY <1>1, <1>2, <2>1, <2>2, <2>3 DEF LoopsInv
<1>4. CASE Loops!Answer
  <2>1. reached' = reached \ {asked} /\ loop' = "answered" /\ Loops!Grown = reached
    BY <1>4 DEF Loops!Answer
  <2>2. ASSUME NEW t \in Steps, asked \in Needed(graph, {t}), t \notin reached
        PROVE  FALSE
    <3> DEFINE S == Steps \ reached
    <3>1. Closed(graph, S)
      <4>1. ASSUME NEW s \in S
            PROVE  graph[s] \subseteq S
        <5>1. graph[s] \cap reached = {} /\ graph[s] \subseteq Steps
          BY <1>1, <1>2, <2>1
        <5> QED
          BY <5>1
      <4> QED
        BY <4>1 DEF Closed
    <3>2. S \in SUBSET Steps /\ {t} \subseteq S /\ {t} \in SUBSET Steps /\ asked \notin S
      BY <1>1, <2>2
    <3> HIDE DEF S
    <3>3. Needed(graph, {t}) \subseteq S
      BY <1>1, <3>1, <3>2, NeededIs
    <3> QED
      BY <2>2, <3>2, <3>3
  <2>3. Descendants(graph, asked) = {t \in Steps \ {asked} : asked \in Needed(graph, {t})}
    BY <1>1 DEF Descendants
  <2>4. reached' = Descendants(graph, asked)
    BY <1>1, <2>1, <2>2, <2>3
  <2>5. Loops!TypeOK'
    BY <1>1, <2>1 DEF LoopsInv, Loops!TypeOK
  <2> QED
    BY <1>1, <2>1, <2>4, <2>5 DEF LoopsInv
<1> QED
  BY <1>3, <1>4

(* What the loops have so far is right at every round.                     *)
LEMMA LoopsInvariant == Loops!Spec => []LoopsInv
<1>1. Loops!Init => LoopsInv
  <2> SUFFICES ASSUME Loops!Init PROVE LoopsInv
    OBVIOUS
  <2>1. Loops!TypeOK
    BY DEF Loops!Init, Loops!TypeOK
  <2> QED
    BY <2>1 DEF LoopsInv, Loops!Init
<1>2. LoopsInv /\ [Loops!Next]_(Loops!vars) => LoopsInv'
  <2> SUFFICES ASSUME LoopsInv, [Loops!Next]_(Loops!vars) PROVE LoopsInv'
    OBVIOUS
  <2>1. CASE UNCHANGED Loops!vars
    BY <2>1 DEF Loops!vars, LoopsInv, Loops!TypeOK
  <2>2. CASE Loops!Next
    BY <2>2, SettlingKeepsOrder, RefusingIsRight, AcceptingIsRight, GrowingIsRight,
       ScreeningIsRight, DescendingIsRight DEF Loops!Next
  <2> QED
    BY <2>1, <2>2
<1> QED
  BY <1>1, <1>2, PTL DEF Loops!Spec

(* For every graph and whatever is asked of it, the loops answer what the  *)
(* definitions say: a graph is refused exactly where steps wait on one     *)
(* another, a run's order holds what its targets need and nothing else,    *)
(* an installation is refused exactly where it cannot run some of that,    *)
(* and descendants are what needs a step (pipeline/graph.py).              *)
THEOREM LoopsAlwaysAnswerRight == Loops!Spec => []Loops!AnswersAreRight
<1>1. LoopsInv => Loops!AnswersAreRight
  <2> SUFFICES ASSUME LoopsInv PROVE Loops!AnswersAreRight
    OBVIOUS
  <2>1. graph \in [Steps -> SUBSET Steps] /\ loop \in {"building", "ordering", "screening",
                                                       "descending", "answered", "refused"}
    BY SameDefinitions DEF LoopsInv, Loops!TypeOK
  <2>2. ASSUME settled = Steps
        PROVE  HasOrder(graph)
    <3>1. ASSUME NEW S \in SUBSET Steps, S # {}
          PROVE  \E s \in S : graph[s] \cap S = {}
      BY <2>2, <3>1 DEF LoopsInv
    <3> QED
      BY <2>1, <3>1 DEF HasOrder
  <2>3. Loops!RefusesExactlyCircles
    BY <2>2, SameDefinitions DEF LoopsInv, Loops!RefusesExactlyCircles
  <2>4. Loops!OrderTakesWhatIsNeeded
    BY SameDefinitions DEF LoopsInv, Loops!OrderTakesWhatIsNeeded
  <2>5. Loops!ScreensEveryNeededStep
    BY SameDefinitions DEF LoopsInv, Loops!ScreensEveryNeededStep, Loops!NoStep
  <2>6. Loops!DescendantsNeedTheirAncestor
    BY SameDefinitions DEF LoopsInv, Loops!DescendantsNeedTheirAncestor
  <2> QED
    BY <2>3, <2>4, <2>5, <2>6 DEF Loops!AnswersAreRight
<1> QED
  BY <1>1, LoopsInvariant, PTL

(* The loops come one after the other...                                   *)
LoopAt(place) ==
  CASE place = "building" -> 0
    [] place = "ordering" -> 1
    [] place = "screening" -> 2
    [] place = "descending" -> 3
    [] OTHER -> 4

(* ...each takes steps into a set...                                       *)
Growing ==
  CASE loop = "building" -> settled
    [] loop = "ordering" -> needed
    [] loop = "descending" -> reached
    [] OTHER -> {}

(* ...and has one round more than there are steps to take in.              *)
RoundsLeft == (4 - LoopAt(loop)) * (StepCount + 1) + (StepCount - Cardinality(Growing))

(* A set of steps has no more members than there are steps.                *)
LEMMA StepsAreFew ==
  ASSUME NEW S \in SUBSET Steps
  PROVE  IsFiniteSet(S) /\ Cardinality(S) \in 0..StepCount
<1>1. IsFiniteSet(Steps) /\ Cardinality(Steps) = StepCount
  BY StepsAssumption, FS_Interval DEF Steps
<1>2. IsFiniteSet(S) /\ Cardinality(S) <= StepCount
  BY <1>1, FS_Subset
<1> QED
  BY <1>2, FS_CardinalityType, StepsAssumption

(* What a loop takes steps into is a set of steps.                         *)
LEMMA GrowingIs ==
  ASSUME LoopsInv
  PROVE  /\ Growing \in SUBSET Steps
         /\ LoopAt(loop) \in 0..4
BY SameDefinitions DEF LoopsInv, Loops!TypeOK, Growing, LoopAt

(* A round ends its loop or takes in a step it had not.                    *)
LEMMA RoundsGoOn ==
  ASSUME LoopsInv, Loops!Next
  PROVE  \/ LoopAt(loop) < LoopAt(loop')
         \/ loop' = loop /\ Growing \subseteq Growing' /\ Growing # Growing'
<1>1. CASE Loops!Settle
  BY <1>1 DEF Loops!Settle, Loops!Ready, Growing
<1>2. CASE Loops!Grow
  BY <1>2 DEF Loops!Grow, Growing
<1>3. CASE Loops!Descend
  BY <1>3 DEF Loops!Descend, Loops!Grown, Growing
<1>4. CASE Loops!Refuse \/ Loops!Accept \/ Loops!Ordered \/ Loops!Screen \/ Loops!Answer
  BY <1>4 DEF Loops!Refuse, Loops!Accept, Loops!Ordered, Loops!Screen, Loops!Answer, LoopAt
<1> QED
  BY <1>1, <1>2, <1>3, <1>4 DEF Loops!Next

(* No graph keeps a loop from ending, a refused one included: every round  *)
(* leaves fewer to go, of no more than five for each step and four, whatever*)
(* is wanted or asked for (pipeline/graph.py).                             *)
THEOREM LoopsTakeBoundedlyManyRounds ==
  Loops!Spec => /\ [](RoundsLeft \in 0..(5 * StepCount + 4))
                /\ [][RoundsLeft' < RoundsLeft]_(Loops!vars)
<1>1. LoopsInv => RoundsLeft \in 0..(5 * StepCount + 4)
  <2> SUFFICES ASSUME LoopsInv
               PROVE  RoundsLeft \in 0..(5 * StepCount + 4)
    OBVIOUS
  <2>1. Cardinality(Growing) \in 0..StepCount /\ LoopAt(loop) \in 0..4
    BY GrowingIs, StepsAreFew
  <2>2. LoopAt(loop) \in {0, 1, 2, 3, 4}
    BY <2>1
  <2> QED
    BY <2>1, <2>2, StepsAssumption DEF RoundsLeft
<1>2. LoopsInv /\ LoopsInv' /\ Loops!Next => RoundsLeft' < RoundsLeft
  <2> SUFFICES ASSUME LoopsInv, LoopsInv', Loops!Next
               PROVE  RoundsLeft' < RoundsLeft
    OBVIOUS
  <2>1. Growing \in SUBSET Steps /\ LoopAt(loop) \in 0..4
    BY GrowingIs
  <2>2. Growing' \in SUBSET Steps /\ LoopAt(loop') \in 0..4
    BY SameDefinitions DEF LoopsInv, Loops!TypeOK, Growing, LoopAt
  <2>3. /\ IsFiniteSet(Growing') /\ Cardinality(Growing) \in 0..StepCount
        /\ Cardinality(Growing') \in 0..StepCount
    BY <2>1, <2>2, StepsAreFew
  <2>4. CASE LoopAt(loop) < LoopAt(loop')
    <3>1. LoopAt(loop) \in {0, 1, 2, 3, 4} /\ LoopAt(loop') \in {0, 1, 2, 3, 4}
      BY <2>1, <2>2
    <3> QED
      BY <2>3, <2>4, <3>1, StepsAssumption DEF RoundsLeft
  <2>5. CASE loop' = loop /\ Growing \subseteq Growing' /\ Growing # Growing'
    <3>1. Cardinality(Growing) < Cardinality(Growing')
      BY <2>3, <2>5, FS_Subset
    <3>2. LoopAt(loop') = LoopAt(loop) /\ LoopAt(loop) \in {0, 1, 2, 3, 4}
      BY <2>1, <2>5
    <3> QED
      BY <2>3, <3>1, <3>2, StepsAssumption DEF RoundsLeft
  <2> QED
    BY <2>4, <2>5, RoundsGoOn
<1>3. [Loops!Next]_(Loops!vars) /\ LoopsInv /\ LoopsInv' => [RoundsLeft' < RoundsLeft]_(Loops!vars)
  BY <1>2
<1> QED
  BY <1>1, <1>3, LoopsInvariant, PTL DEF Loops!Spec
=============================================================================
