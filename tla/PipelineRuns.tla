---------------------------- MODULE PipelineRuns ----------------------------
(***************************************************************************)
(* Runs of one library's pipeline (pipeline/scheduler.py), the processes   *)
(* they start for their steps (pipeline/execution.py), and the Postgres    *)
(* session locks between them (pipeline/locks.py, step_lock.py).           *)
(*                                                                         *)
(* A run is one process: it takes the library's lock, makes sure no step   *)
(* of an earlier run still works, empties the library where it was asked   *)
(* to or where an earlier run began to (pipeline/scratch.py), drops what   *)
(* it was asked to redo, and takes its steps in order. Each step's command *)
(* runs in a process and a session of its own, which outlives the run that *)
(* started it. Any process may die between any two of its actions, and the *)
(* database server may restart, which lets go of every lock.               *)
(***************************************************************************)
EXTENDS StepGraph

CONSTANTS
  StepCount,       \* how many steps the graph declares
  Requires,        \* what each step needs before it
  Passes,          \* steps that always run and skip their own work
  Files,           \* steps that leave an artifact beside a sidecar
  Refusing,        \* steps that may refuse: a guarded pass, unreadable inputs
  Unavailable,     \* steps this installation cannot run
  Runs,            \* the runs that are started, each once
  NoRun,
  Requests,        \* what a run may be asked for
  RestartLimit,    \* bound: how often the database server restarts
  InterruptLimit   \* bound: the interrupts a run is sent while it waits, at most 3

Steps == 1..StepCount
Reset == 0                    \* the step a run from scratch starts first
AllSteps == 0..StepCount
NoStep == -1

(* The steps whose output is in the catalog: experiments and pointers.     *)
Cataloged == Steps \ (Passes \cup Files)

ASSUME StepsAssumption == StepCount \in Nat \ {0}
ASSUME GraphAssumption ==
  /\ Requires \in [Steps -> SUBSET Steps]
  /\ DeclaredInOrder(Requires)
ASSUME KindsAssumption ==
  /\ Passes \subseteq Steps
  /\ Files \subseteq Steps
  /\ Passes \cap Files = {}
  /\ Refusing \subseteq Steps
  /\ Unavailable \subseteq Steps
ASSUME RunsAssumption == NoRun \notin Runs
ASSUME RequestsAssumption ==
  /\ Requests \subseteq [targets : SUBSET Steps, scratch : BOOLEAN, redo : SUBSET Steps]
  /\ \A q \in Requests : Closed(Requires, q.targets)
ASSUME LimitsAssumption == RestartLimit \in Nat /\ InterruptLimit \in 0..3

Outputs == {"absent", "made", "sealed"}
Verdicts == {"none", "satisfied", "ran", "resealed", "refused", "not reached"}
Statuses == {"completed", "failed", "refused", "interrupted", "memory cap reached"}
AttemptOutcomes == Statuses \cup {"no output"}
RunOutcomes == {"none", "completed", "stopped", "refused", "lock lost"}
Places == {"new", "probing", "probe", "recording", "resetting", "sweeping", "redoing",
           "taking", "deciding", "resealing", "starting", "waiting", "binding",
           "ended", "dead"}

VARIABLES
  pipelineLock,    \* the run holding the library's lock, or NoRun
  stepLock,        \* for each step, the run whose probe or process holds its lock
  output,          \* what stands of each step's output in the library
  intent,          \* whether the record of an emptying underway stands
  restarts,        \* how often the server has restarted
  pc,              \* where each run is
  request,         \* what each run was asked for
  left,            \* the steps the current phase of a run has yet to reach
  busy,            \* the steps a run found still running
  verdict,         \* what each run decided of each step
  attempt,         \* how each run's last attempt ended, or "none"
  outcome,         \* how each run ended
  interrupts,      \* interrupts a run has passed on to the step it waits for
  child,           \* the process of the step each run started last
  slipped          \* history: a run died over a process still starting up

runVars == <<pc, request, left, busy, verdict, attempt, outcome, interrupts>>
libraryVars == <<output, intent>>
lockVars == <<pipelineLock, stepLock>>
vars == <<pipelineLock, stepLock, output, intent, restarts, pc, request, left,
          busy, verdict, attempt, outcome, interrupts, child, slipped>>

NoChild == [step |-> NoStep, at |-> "none", status |-> "none"]
Children == [step : AllSteps \cup {NoStep},
             at : {"none", "starting", "working", "finished", "exited"},
             status : Statuses \cup {"none"}]

TypeOK ==
  /\ pipelineLock \in Runs \cup {NoRun}
  /\ stepLock \in [AllSteps -> Runs \cup {NoRun}]
  /\ output \in [Steps -> Outputs]
  /\ intent \in BOOLEAN
  /\ restarts \in 0..RestartLimit
  /\ pc \in [Runs -> Places]
  /\ request \in [Runs -> Requests]
  /\ left \in [Runs -> SUBSET AllSteps]
  /\ busy \in [Runs -> SUBSET AllSteps]
  /\ verdict \in [Runs -> [Steps -> Verdicts]]
  /\ attempt \in [Runs -> AttemptOutcomes \cup {"none"}]
  /\ outcome \in [Runs -> RunOutcomes]
  /\ interrupts \in [Runs -> 0..InterruptLimit]
  /\ child \in [Runs -> Children]
  /\ slipped \in BOOLEAN

(* A library some earlier run may have left: passes leave nothing a step   *)
(* is decided by, and an experiment needs no sidecar to stand.             *)
Init ==
  /\ pipelineLock = NoRun
  /\ stepLock = [s \in AllSteps |-> NoRun]
  /\ output \in [Steps -> Outputs]
  /\ \A s \in Passes : output[s] = "absent"
  /\ \A s \in Cataloged : output[s] # "made"
  /\ intent = FALSE
  /\ restarts = 0
  /\ pc = [r \in Runs |-> "new"]
  /\ request \in [Runs -> Requests]
  /\ left = [r \in Runs |-> {}]
  /\ busy = [r \in Runs |-> {}]
  /\ verdict = [r \in Runs |-> [s \in Steps |-> "none"]]
  /\ attempt = [r \in Runs |-> "none"]
  /\ outcome = [r \in Runs |-> "none"]
  /\ interrupts = [r \in Runs |-> 0]
  /\ child = [r \in Runs |-> NoChild]
  /\ slipped = FALSE

-----------------------------------------------------------------------------
First(r, s) == s \in left[r] /\ \A t \in left[r] : s <= t

Acting(r) == pc[r] \notin {"new", "ended", "dead"}

Owns(r) == pipelineLock = r

Goto(r, place) == pc' = [pc EXCEPT ![r] = place]

Reached(r, s) == left' = [left EXCEPT ![r] = @ \ {s}]

(* A run ends: its process exits, which closes its connections.            *)
End(r, how) ==
  /\ Goto(r, "ended")
  /\ outcome' = [outcome EXCEPT ![r] = how]
  /\ pipelineLock' = IF Owns(r) THEN NoRun ELSE pipelineLock

(* Every step a stopped run never reached is recorded so.                  *)
WithoutUnreached(given, steps) == given
WithUnreached(given, steps) ==
  [s \in Steps |-> IF s \in steps THEN "not reached" ELSE given[s]]

(* A run dies: what it held in memory is gone.                             *)
Vanish(r) ==
  /\ Goto(r, "dead")
  /\ left' = [left EXCEPT ![r] = {}]
  /\ busy' = [busy EXCEPT ![r] = {}]
  /\ interrupts' = [interrupts EXCEPT ![r] = 0]

(* One step's verdict stands and lets the run go on.                       *)
Settle(r, s, how) ==
  /\ verdict' = [verdict EXCEPT ![r][s] = how]
  /\ Reached(r, s)
  /\ Goto(r, "taking")
  /\ UNCHANGED <<outcome, pipelineLock>>

(* One step's verdict ends the run, and every later step is unreached.     *)
Stop(r, s, how) ==
  /\ verdict' = [verdict EXCEPT ![r] =
                   WithUnreached([@ EXCEPT ![s] = how], left[r] \ {s})]
  /\ Reached(r, s)
  /\ End(r, "stopped")

-----------------------------------------------------------------------------
(* pg_try_advisory_lock over the library's name.                           *)
AssumedFree == TRUE
LibraryFree == pipelineLock = NoRun

(* cli.py claims the library's lock and hands run_pipeline what it got.    *)
Start(r) ==
  /\ pc[r] = "new"
  /\ IF LibraryFree
       THEN /\ pipelineLock' = r
            /\ Goto(r, "probing")
            /\ left' = [left EXCEPT ![r] = AllSteps]
            /\ UNCHANGED outcome
       ELSE /\ End(r, "refused")
            /\ UNCHANGED left
  /\ UNCHANGED <<stepLock, libraryVars, restarts, request, busy, verdict,
                 attempt, interrupts, child, slipped>>

(* step_is_running claims a step's lock to see whether it is free...       *)
Probe(r, s) ==
  /\ pc[r] = "probing"
  /\ First(r, s)
  /\ Owns(r)
  /\ IF stepLock[s] = NoRun
       THEN /\ stepLock' = [stepLock EXCEPT ![s] = r]
            /\ Goto(r, "probe")
            /\ UNCHANGED <<left, busy>>
       ELSE /\ busy' = [busy EXCEPT ![r] = @ \cup {s}]
            /\ Reached(r, s)
            /\ UNCHANGED <<stepLock, pc>>
  /\ UNCHANGED <<pipelineLock, libraryVars, restarts, request, verdict,
                 attempt, outcome, interrupts, child, slipped>>

(* ...and lets go of it again.                                             *)
Kept(s) == stepLock
Released(s) == [stepLock EXCEPT ![s] = NoRun]

Unprobe(r, s) ==
  /\ pc[r] = "probe"
  /\ First(r, s)
  /\ Owns(r)
  /\ stepLock' = Released(s)
  /\ Reached(r, s)
  /\ Goto(r, "probing")
  /\ UNCHANGED <<pipelineLock, libraryVars, restarts, request, busy, verdict,
                 attempt, outcome, interrupts, child, slipped>>

RedoRefused(q) ==
  \/ q.scratch /\ q.redo # {}
  \/ ~(q.redo \subseteq q.targets \cap Files)

(* Why a run that holds the lock is refused before its first step.         *)
RefusedOverTheRequest(r) ==
  RedoRefused(request[r]) \/ request[r].targets \cap Unavailable # {}

RefusedAtTheCheck(r) == busy[r] # {} \/ RefusedOverTheRequest(r)

(* An emptying an earlier run began is finished, asked for or not.         *)
EmptiesAsAsked(r) == request[r].scratch
EmptiesFirst(r) == request[r].scratch \/ intent

(* What run_pipeline settles before its first step.                        *)
Screen(r) ==
  /\ pc[r] = "probing"
  /\ left[r] = {}
  /\ IF RefusedAtTheCheck(r)
       THEN End(r, "refused") /\ UNCHANGED left
       ELSE /\ UNCHANGED <<outcome, pipelineLock>>
            /\ IF EmptiesFirst(r)
                 THEN Goto(r, "recording") /\ UNCHANGED left
                 ELSE /\ Goto(r, "redoing")
                      /\ left' = [left EXCEPT ![r] = request[r].redo]
  /\ UNCHANGED <<stepLock, libraryVars, restarts, request, busy, verdict,
                 attempt, interrupts, child, slipped>>

-----------------------------------------------------------------------------
(* run_step_command: the process starts, in a session of its own.          *)
Spawn(r, s) ==
  /\ Goto(r, "waiting")
  /\ child' = [child EXCEPT ![r] = [step |-> s, at |-> "starting", status |-> "none"]]
  /\ UNCHANGED stepLock

(* start_from_scratch: the intent stands before anything goes...           *)
RecordIntent(r) ==
  /\ pc[r] = "recording"
  /\ intent' = TRUE
  /\ Goto(r, "resetting")
  /\ UNCHANGED <<lockVars, output, restarts, request, left, busy, verdict,
                 attempt, outcome, interrupts, child, slipped>>

StartReset(r) ==
  /\ pc[r] = "resetting"
  /\ Spawn(r, Reset)
  /\ UNCHANGED <<pipelineLock, libraryVars, restarts, request, left, busy,
                 verdict, attempt, outcome, interrupts, slipped>>

(* ...remove_pipeline_outputs takes one artifact after another...          *)
Sweep(r, s) ==
  /\ pc[r] = "sweeping"
  /\ First(r, s)
  /\ output' = [output EXCEPT ![s] = "absent"]
  /\ Reached(r, s)
  /\ UNCHANGED <<lockVars, intent, restarts, pc, request, busy, verdict,
                 attempt, outcome, interrupts, child, slipped>>

(* ...and the intent goes once everything has.                             *)
SweptSoon(r) == TRUE
Swept(r) == left[r] = {}

ClearIntent(r) ==
  /\ pc[r] = "sweeping"
  /\ Swept(r)
  /\ intent' = FALSE
  /\ Goto(r, "redoing")
  /\ left' = [left EXCEPT ![r] = request[r].redo]
  /\ UNCHANGED <<lockVars, output, restarts, request, busy, verdict, attempt,
                 outcome, interrupts, child, slipped>>

(* _apply_redo: FileArtifactStep.forget drops the artifact and its sidecar.*)
Forget(r, s) ==
  /\ pc[r] = "redoing"
  /\ s \in left[r]
  /\ output' = [output EXCEPT ![s] = "absent"]
  /\ Reached(r, s)
  /\ UNCHANGED <<lockVars, intent, restarts, pc, request, busy, verdict,
                 attempt, outcome, interrupts, child, slipped>>

BeginTaking(r) ==
  /\ pc[r] = "redoing"
  /\ left[r] = {}
  /\ Goto(r, "taking")
  /\ left' = [left EXCEPT ![r] = request[r].targets]
  /\ UNCHANGED <<lockVars, libraryVars, restarts, request, busy, verdict,
                 attempt, outcome, interrupts, child, slipped>>

-----------------------------------------------------------------------------
(* PipelineLock.held: the lock is read back from the server.               *)
Unread(r) == TRUE
Held(r) == pipelineLock = r

(* _take_in_order: the lock is read back before each step.                 *)
Take(r) ==
  /\ pc[r] = "taking"
  /\ IF left[r] = {}
       THEN End(r, "completed") /\ UNCHANGED <<verdict, left>>
       ELSE IF Held(r)
            THEN Goto(r, "deciding") /\ UNCHANGED <<verdict, left, outcome, pipelineLock>>
            ELSE /\ End(r, "lock lost")
                 /\ verdict' = [verdict EXCEPT ![r] = WithUnreached(@, left[r])]
                 /\ left' = [left EXCEPT ![r] = {}]
  /\ UNCHANGED <<stepLock, libraryVars, restarts, request, busy, attempt,
                 interrupts, child, slipped>>

(* What a step says is left to do about itself, read from its output.      *)
ActionByExistence(s) ==
  IF s \in Passes \/ output[s] = "absent" THEN "run" ELSE "skip"

Action(s) ==
  CASE s \in Passes -> "run"
    [] output[s] = "sealed" -> "skip"
    [] output[s] = "made" -> "seal"
    [] OTHER -> "run"

Decide(r, s) ==
  /\ pc[r] = "deciding"
  /\ First(r, s)
  /\ \/ /\ s \in Refusing
        /\ Stop(r, s, "refused")
     \/ /\ Action(s) = "skip"
        /\ Settle(r, s, "satisfied")
     \/ /\ Action(s) = "seal"
        /\ Goto(r, "resealing")
        /\ UNCHANGED <<verdict, left, outcome, pipelineLock>>
     \/ /\ Action(s) = "run"
        /\ Goto(r, "starting")
        /\ UNCHANGED <<verdict, left, outcome, pipelineLock>>
  /\ UNCHANGED <<stepLock, libraryVars, restarts, request, busy, attempt,
                 interrupts, child, slipped>>

(* A build an earlier run completed and never sealed.                      *)
Reseal(r, s) ==
  /\ pc[r] = "resealing"
  /\ First(r, s)
  /\ IF output[s] = "absent"
       THEN Stop(r, s, "ran") /\ UNCHANGED output
       ELSE Settle(r, s, "resealed") /\ output' = [output EXCEPT ![s] = "sealed"]
  /\ UNCHANGED <<stepLock, intent, restarts, request, busy, attempt,
                 interrupts, child, slipped>>

StartStep(r, s) ==
  /\ pc[r] = "starting"
  /\ First(r, s)
  /\ Spawn(r, s)
  /\ UNCHANGED <<pipelineLock, libraryVars, restarts, request, left, busy,
                 verdict, attempt, outcome, interrupts, slipped>>

(* _outcome_of: a status of success stands whatever the run was sent.      *)
OutcomeOf(status, interrupted) ==
  IF status = "completed" THEN "completed"
  ELSE IF interrupted THEN "interrupted"
  ELSE status

(* The run has waited for its step's process and reads how it ended.       *)
Reap(r) ==
  LET s == child[r].step
      how == OutcomeOf(child[r].status, interrupts[r] > 0)
  IN
  /\ pc[r] = "waiting"
  /\ child[r].at = "exited"
  /\ attempt' = [attempt EXCEPT ![r] = how]
  /\ child' = [child EXCEPT ![r] = NoChild]
  /\ interrupts' = [interrupts EXCEPT ![r] = 0]
  /\ \/ /\ how = "completed"
        /\ s = Reset
        /\ Goto(r, "sweeping")
        /\ left' = [left EXCEPT ![r] = Files]
        /\ UNCHANGED <<verdict, outcome, pipelineLock>>
     \/ /\ how = "completed"
        /\ s # Reset
        /\ Goto(r, "binding")
        /\ UNCHANGED <<verdict, outcome, pipelineLock, left>>
     \/ /\ how # "completed"
        /\ s = Reset
        /\ End(r, "stopped")
        /\ UNCHANGED <<verdict, left>>
     \/ /\ how # "completed"
        /\ s # Reset
        /\ Stop(r, s, "ran")
  /\ UNCHANGED <<stepLock, libraryVars, restarts, request, busy, slipped>>

(* _sealed after a run: bind what the step produced to its inputs, or read *)
(* the attempt as one that left nothing.                                   *)
Bind(r, s) ==
  /\ pc[r] = "binding"
  /\ First(r, s)
  /\ s \in Cataloged => Owns(r)
  /\ \/ /\ s \in Passes
        /\ Settle(r, s, "ran")
        /\ UNCHANGED <<output, attempt>>
     \/ /\ s \notin Passes
        /\ output[s] # "absent"
        /\ Settle(r, s, "ran")
        /\ output' = [output EXCEPT ![s] = "sealed"]
        /\ UNCHANGED attempt
     \/ /\ s \notin Passes
        /\ output[s] = "absent"
        /\ Stop(r, s, "ran")
        /\ attempt' = [attempt EXCEPT ![r] = "no output"]
        /\ UNCHANGED output
  /\ UNCHANGED <<stepLock, intent, restarts, request, busy, interrupts, child, slipped>>

(* A read of the catalog on a connection a restarted server has closed.    *)
AskAgain(r) == FALSE

LoseCatalog(r) ==
  /\ pc[r] \in {"probing", "probe", "deciding", "binding"}
  /\ ~Owns(r)
  /\ Vanish(r)
  /\ UNCHANGED <<lockVars, libraryVars, restarts, request, verdict, attempt,
                 outcome, child, slipped>>

RunStep(r) ==
  \/ Start(r) \/ Screen(r)
  \/ RecordIntent(r) \/ StartReset(r) \/ ClearIntent(r)
  \/ BeginTaking(r) \/ Take(r) \/ Reap(r)
  \/ LoseCatalog(r)
  \/ \E s \in left[r] : Probe(r, s) \/ Unprobe(r, s) \/ Sweep(r, s) \/ Forget(r, s)
                        \/ Decide(r, s) \/ Reseal(r, s) \/ StartStep(r, s) \/ Bind(r, s)

-----------------------------------------------------------------------------
ChildAt(r, at) == child' = [child EXCEPT ![r].at = at]

Exited(r, status) ==
  /\ child' = [child EXCEPT ![r].at = "exited", ![r].status = status]
  /\ stepLock' = [s \in AllSteps |-> IF s = child[r].step /\ stepLock[s] = r
                                     THEN NoRun ELSE stepLock[s]]

(* claim_named_lock over the name of the step a process was started for.   *)
NotAsked(r) == TRUE
StepFree(r) == stepLock[child[r].step] = NoRun

(* hold_step_lock: a process that has started up takes its step's lock, or *)
(* refuses to run beside the one that holds it.                            *)
TakeStepLock(r) ==
  /\ child[r].at = "starting"
  /\ IF StepFree(r)
       THEN ChildAt(r, "working") /\ stepLock' = [stepLock EXCEPT ![child[r].step] = r]
       ELSE Exited(r, "refused")
  /\ UNCHANGED <<pipelineLock, libraryVars, restarts, runVars, slipped>>

(* reset_library empties the catalog in one transaction.                   *)
EmptyCatalog(r) ==
  /\ child[r].at = "working"
  /\ child[r].step = Reset
  /\ output' = [s \in Steps |-> IF s \in Cataloged THEN "absent" ELSE output[s]]
  /\ ChildAt(r, "finished")
  /\ UNCHANGED <<lockVars, intent, restarts, runVars, slipped>>

(* A step's command leaves its output. What it produced may read otherwise *)
(* than before, which leaves the steps behind it without an output of      *)
(* their inputs.                                                           *)
Produce(r) ==
  LET s == child[r].step IN
  /\ child[r].at = "working"
  /\ s \in Steps
  /\ \E moved \in {{}, Descendants(Requires, s)} :
       output' = [t \in Steps |->
                    IF t \in moved THEN "absent"
                    ELSE IF t # s \/ s \in Passes THEN output[t]
                    ELSE IF s \in Files THEN "made" ELSE "sealed"]
  /\ ChildAt(r, "finished")
  /\ UNCHANGED <<lockVars, intent, restarts, runVars, slipped>>

(* The process ends, which lets go of its lock. It ends a success once it  *)
(* is finished, or where it found nothing to build; it may fail, refuse,   *)
(* outgrow its memory or heed an interrupt at any moment of its work.      *)
(* Nobody reads how the process of a dead run ends.                        *)
Exit(r) ==
  /\ child[r].at \in {"starting", "working", "finished"}
  /\ \E status \in Statuses :
       /\ status = "completed" => \/ child[r].at = "finished"
                                  \/ child[r].at = "working" /\ child[r].step # Reset
       /\ status = "interrupted" => interrupts[r] > 0
       /\ pc[r] = "dead" => status = "failed"
       /\ child[r].at = "starting" => status \in {"failed", "interrupted"}
       /\ Exited(r, status)
  /\ UNCHANGED <<pipelineLock, libraryVars, restarts, runVars, slipped>>

(* Where a signal to the step's process group finds the process.           *)
WithinReachOnceWorking(r) == child[r].at \in {"working", "finished"}
WithinReach(r) == child[r].at \in {"starting", "working", "finished"}

(* The third interrupt kills everything the step started.                  *)
Killed(r) ==
  /\ pc[r] = "waiting"
  /\ interrupts[r] = 3
  /\ WithinReach(r)
  /\ Exited(r, "interrupted")
  /\ UNCHANGED <<pipelineLock, libraryVars, restarts, runVars, slipped>>

ChildStep(r) == TakeStepLock(r) \/ EmptyCatalog(r) \/ Produce(r) \/ Exit(r) \/ Killed(r)

-----------------------------------------------------------------------------
(* InterruptWatch: an interrupt while a step runs goes to the step.        *)
Interrupt(r) ==
  /\ pc[r] = "waiting"
  /\ interrupts[r] < InterruptLimit
  /\ interrupts' = [interrupts EXCEPT ![r] = @ + 1]
  /\ UNCHANGED <<lockVars, libraryVars, restarts, pc, request, left, busy,
                 verdict, attempt, outcome, child, slipped>>

(* A run is killed, or interrupted while no step runs. Its connections go, *)
(* and with them the library's lock and a lock it was probing; the process *)
(* of its step works on.                                                   *)
Die(r) ==
  /\ Acting(r)
  /\ Vanish(r)
  /\ pipelineLock' = IF Owns(r) THEN NoRun ELSE pipelineLock
  /\ stepLock' = [s \in AllSteps |-> IF pc[r] = "probe" /\ stepLock[s] = r
                                     THEN NoRun ELSE stepLock[s]]
  /\ slipped' = (slipped \/ child[r].at = "starting")
  /\ UNCHANGED <<libraryVars, restarts, request, verdict, attempt, outcome, child>>

(* The database server restarts, which ends every session and its locks.   *)
Restart ==
  /\ restarts < RestartLimit
  /\ restarts' = restarts + 1
  /\ pipelineLock' = NoRun
  /\ stepLock' = [s \in AllSteps |-> NoRun]
  /\ UNCHANGED <<libraryVars, runVars, child, slipped>>

(* Every run has ended and so has every process they started.              *)
Quiet ==
  /\ \A r \in Runs : pc[r] \in {"ended", "dead"} /\ child[r].at \in {"none", "exited"}
  /\ UNCHANGED vars

Next ==
  \/ \E r \in Runs : RunStep(r) \/ ChildStep(r) \/ Interrupt(r) \/ Die(r)
  \/ Restart
  \/ Quiet

Spec == Init /\ [][Next]_vars

(* A run that is not stopped goes on: each of its steps is a plain call    *)
(* that returns. A kill ends a process. Nothing is assumed of a step's     *)
(* command, which may work for days or hang.                               *)
FairSpec == Spec /\ \A r \in Runs : WF_vars(RunStep(r)) /\ WF_vars(Killed(r))

-----------------------------------------------------------------------------
(* A run that has made its check for steps still running.                  *)
PastTheCheck(r) == Acting(r) /\ pc[r] \notin {"probing", "probe"}

(* A run that is taking its steps, past any emptying and redoing.          *)
TakingSteps(r) ==
  \/ pc[r] \in {"taking", "deciding", "resealing", "starting", "binding"}
  \/ pc[r] = "waiting" /\ child[r].step # Reset

HoldsItsStep(r) == child[r].at \in {"working", "finished"}

(* "The one lock a library's pipeline runs under": while the server stays  *)
(* up, no two runs are past their claim of it, whichever of them die when. *)
OneRunActs == \A r, q \in Runs : Acting(r) /\ Acting(q) => r = q

(* No step is worked on by two processes at once: neither by those of a    *)
(* dead run and of its relaunch, nor while a probe holds the step's lock.  *)
OneProcessPerStep ==
  \A r, q \in Runs :
    HoldsItsStep(r) =>
      /\ HoldsItsStep(q) /\ child[q].step = child[r].step => r = q
      /\ pc[q] = "probe" => ~First(q, child[r].step)

(* No lock outlives what it stands for: the library's lock belongs to a    *)
(* run that acts, a step's lock to a process at work or to a probe. A lock *)
(* left behind would refuse every later run.                               *)
NoLockOutlivesItsHolder ==
  /\ pipelineLock # NoRun => Acting(pipelineLock)
  /\ \A s \in AllSteps : stepLock[s] # NoRun =>
       LET r == stepLock[s]
       IN \/ HoldsItsStep(r) /\ child[r].step = s
          \/ pc[r] = "probe" /\ First(r, s)

(* "A run stopped partway through finishes the emptying before it builds   *)
(* anything": no run takes a step while the intent stands, a relaunch that *)
(* was asked for no emptying included.                                     *)
EmptyingComesFirst == \A r \in Runs : TakingSteps(r) => ~intent

(* The account a run leaves names every step of its targets: those it took *)
(* in order, then the ones it never reached, and none outside its targets. *)
AccountNamesEveryStep ==
  \A r \in Runs :
    /\ \A s \in Steps \ request[r].targets : verdict[r][s] = "none"
    /\ \A s, t \in request[r].targets :
         s < t /\ verdict[r][s] \in {"none", "not reached"} => verdict[r][t] = verdict[r][s]
    /\ outcome[r] = "completed" =>
         \A s \in request[r].targets : verdict[r][s] \in {"satisfied", "ran", "resealed"}
    /\ outcome[r] = "lock lost" =>
         \A s \in request[r].targets : verdict[r][s] # "none"
    /\ outcome[r] = "stopped" /\ (\E s \in Steps : verdict[r][s] # "none") =>
         \A s \in request[r].targets : verdict[r][s] # "none"

(* architecture.md: "a relaunch while an orphaned step still runs, is      *)
(* refused": no run gets past its check while a process another run        *)
(* started works on its step.                                              *)
NoRunActsBesideAnOrphan ==
  \A r, q \in Runs : r # q /\ PastTheCheck(r) => ~HoldsItsStep(q)

(* That holds of every orphan that had its lock when its run died: only a  *)
(* process still starting up then can slip past a relaunch's check.        *)
LockedOrphansAreSeen == ~slipped => NoRunActsBesideAnOrphan

(* While a run goes on, whatever it has settled stands: no later step of   *)
(* its order, no relaunch and no process an earlier run left takes it away,*)
(* as long as none slipped past. A run that completes therefore leaves     *)
(* every step of its targets done.                                         *)
WhatARunSettledStands ==
  \A r \in Runs : TakingSteps(r) /\ ~slipped =>
    \A s \in request[r].targets \ (left[r] \cup Passes) : output[s] = "sealed"

(* As long as none slipped past, the runs, processes and locks keep the    *)
(* promise of LibraryEmptying: the intent is removed over an empty library *)
(* only, and half a library is never left behind as a whole one.           *)
Standing == {s \in Steps : output[s] # "absent"}
Promise == INSTANCE LibraryEmptying
             WITH standing <- IF slipped THEN {} ELSE Standing, emptying <- intent
KeepsThePromise == Promise!Spec

(* A run whose lock a restart let go of finishes the step it is in and     *)
(* takes no other, so that it makes way for the run that holds the lock.   *)
LostRunsTakeNothingMore ==
  \A r \in Runs :
    [](pc[r] = "taking" /\ ~Owns(r) => [](pc[r] \in {"taking", "ended", "dead"}))

(* A run waits for nothing but a step it started: no lock, no other run    *)
(* and no step an earlier run left keeps it from ending.                   *)
RunsWaitOnlyForTheirStep ==
  \A r \in Runs : Acting(r) ~> (Acting(r) => pc[r] = "waiting" /\ child[r].at # "exited")

(* A person who interrupts three times is not left waiting, however stuck  *)
(* the step is.                                                            *)
ThreeInterruptsEndTheWait ==
  \A r \in Runs : (pc[r] = "waiting" /\ interrupts[r] = 3) ~> pc[r] # "waiting"
=============================================================================
