---------------------------- MODULE Applications ----------------------------
(***************************************************************************)
(* Desktop applications (sampleripper/app/launcher.py), each run under a   *)
(* config file of its own, over libraries that several configs may name.   *)
(*                                                                         *)
(* An application opens the library its config names: it takes the         *)
(* library's file lock, runs the library's managed database, and builds    *)
(* the catalog API over it. Choosing folders writes the config and         *)
(* schedules another activation; options and builds are asked for on       *)
(* threads beside the event loop. Activations and the final stop exclude   *)
(* one another by the launcher's lock. An application may be killed at any *)
(* point, which frees its file locks and leaves its database server and    *)
(* its builds running.                                                     *)
(*                                                                         *)
(* Every config here leaves its database to the application. A choice the  *)
(* validators refuse changes nothing and is left out. What choose_sources  *)
(* does between reading and replacing the config file is one step: no      *)
(* other code of the event loop runs in it.                                *)
(***************************************************************************)
EXTENDS Naturals, Sequences, FiniteSets

CONSTANTS
  Apps,            \* the applications, each under its config
  Roots,           \* the libraries
  None,
  Threads,         \* the threads requests run on
  Busy,            \* the applications people work with; the others are started and left
  MaxChoices,      \* bound: choices of folders opened in each application, that at its start included
  MaxBuilds,       \* bound: builds each application starts
  MaxStarts,       \* bound: how often each application is started
  MaxFaults        \* bound: applications killed, and databases that will not stop

ASSUME NoneAssumption == None \notin Apps \cup Roots
ASSUME BusyAssumption == Busy \subseteq Apps
ASSUME ThreadsAssumption == IsFiniteSet(Threads)
ASSUME BoundsAssumption ==
  /\ MaxChoices \in Nat
  /\ MaxBuilds \in Nat
  /\ MaxStarts \in Nat
  /\ MaxFaults \in Nat

Activations == [root : Roots, number : Nat]
Builds == 1..MaxBuilds

VARIABLES
  lock,            \* the file lock of each library: the application holding it
  server,          \* the application whose programs each library's database runs on
  file,            \* the library each application's config file names
  config,          \* ...and the config in its memory
  life,            \* off, up, leaving (it answers no more), last (its last stop),
                   \* ended or dead
  stopping,        \* how far Launcher.stop has come
  awaited,         \* the activation that stop waits for
  activations,     \* the activations that have not ended; the first may hold the lock
  at,              \* what holds the launcher's lock, and where it is
  catalog,         \* the library the catalog API is open over
  cluster,         \* the library of the managed database the launcher runs
  held,            \* the library it holds
  previous,        \* the library held before, still locked
  problem,         \* the activation the problem shown is of, or 0
  untold,          \* history: the activation an error nothing records ended, or 0
  chosen,          \* how many activations were scheduled
  thread,          \* the request each thread of an application works on
  build,           \* the builds each application started
  job,             \* the build it follows, or 0
  overlapped,      \* history: a request came while another's was underway
  starts, deaths,
  refusals         \* how often a database would not stop (pg_ctl giving up)

shared == <<lock, server>>
memory == <<catalog, cluster, held, previous>>
requests == <<thread, build, job, overlapped>>
bounds == <<starts, deaths, refusals>>
vars == <<shared, file, config, life, stopping, awaited, activations, at,
          memory, problem, untold, chosen, requests, bounds>>

Idle == [at |-> "idle", quiet |-> FALSE, seen |-> None]
OverBuild == [at |-> "ended", root |-> None, quiet |-> FALSE, of |-> 0]
NoBuild == [at |-> "none", root |-> None, quiet |-> FALSE, of |-> 0]

Init ==
  /\ lock = [r \in Roots |-> None]
  /\ server = [r \in Roots |-> None]
  /\ file \in [Apps -> {None} \cup Roots]
  /\ \A a \in Apps \ Busy : file[a] # None
  /\ config = [a \in Apps |-> None]
  /\ life = [a \in Apps |-> "off"]
  /\ stopping = [a \in Apps |-> "no"]
  /\ awaited = [a \in Apps |-> 0]
  /\ activations = [a \in Apps |-> <<>>]
  /\ at = [a \in Apps |-> "free"]
  /\ catalog = [a \in Apps |-> None]
  /\ cluster = [a \in Apps |-> None]
  /\ held = [a \in Apps |-> None]
  /\ previous = [a \in Apps |-> None]
  /\ problem = [a \in Apps |-> 0]
  /\ untold = [a \in Apps |-> 0]
  /\ chosen = [a \in Apps |-> 0]
  /\ thread = [a \in Apps |-> [t \in Threads |-> Idle]]
  /\ build = [a \in Apps |-> [i \in Builds |-> NoBuild]]
  /\ job = [a \in Apps |-> 0]
  /\ overlapped = [a \in Apps |-> FALSE]
  /\ starts = [a \in Apps |-> 0]
  /\ deaths = 0
  /\ refusals = 0

-----------------------------------------------------------------------------
Alive(a) == life[a] \in {"up", "leaving", "last"}
Runs(a, i) == build[a][i].at \in {"launched", "running"}
BuildRuns(a) == job[a] # 0 /\ Runs(a, job[a])
Handling(a) == \E t \in Threads : thread[a][t].at # "idle"
Pending(a) == activations[a] # <<>>

(* Nothing opens, closes or is asked for.                                  *)
Settled(a) == life[a] = "up" /\ stopping[a] = "no" /\ at[a] = "free" /\ ~Pending(a)

Becomes(f, a, value) == f' = [f EXCEPT ![a] = value]

Scheduled(a, root) ==
  /\ Becomes(chosen, a, chosen[a] + 1)
  /\ Becomes(problem, a, 0)
  /\ Becomes(untold, a, 0)
  /\ Becomes(activations, a, Append(activations[a], [root |-> root, number |-> chosen[a] + 1]))

(* A new process: the config it finds is opened in the background.         *)
Start(a) ==
  /\ ~Alive(a)
  /\ starts[a] < MaxStarts
  /\ Becomes(starts, a, starts[a] + 1)
  /\ Becomes(life, a, "up")
  /\ Becomes(config, a, file[a])
  /\ IF file[a] = None
       THEN UNCHANGED <<activations, problem, untold, chosen>>
       ELSE Scheduled(a, file[a])
  /\ Becomes(overlapped, a, FALSE)
  /\ UNCHANGED <<shared, file, stopping, awaited, at, memory, thread, build, job,
                 deaths, refusals>>

(* choose_sources: refused while a build runs, written and scheduled.      *)
ChosenAtAnyTime(a) == TRUE
MayChoose(a) == ~BuildRuns(a)

Choose(a, r) ==
  /\ a \in Busy
  /\ life[a] = "up"
  /\ chosen[a] < MaxChoices
  /\ MayChoose(a)
  /\ Becomes(file, a, r)
  /\ Becomes(config, a, r)
  /\ Scheduled(a, r)
  /\ Becomes(overlapped, a, overlapped[a] \/ Handling(a))
  /\ UNCHANGED <<shared, life, stopping, awaited, at, memory, thread, build,
                 job, bounds>>

-----------------------------------------------------------------------------
(* _activate: the launcher's lock, and the library that is open closes: it *)
(* stays open while its renderer stops...                                  *)
Current(a) == Head(activations[a])
Goto(a, place) == Becomes(at, a, place)

BeginsUnlessStopping(a) == Alive(a) /\ stopping[a] = "no"
MayBegin(a) == Alive(a)

BeginActivation(a) ==
  /\ MayBegin(a)
  /\ at[a] = "free"
  /\ Pending(a)
  /\ Goto(a, IF catalog[a] = None THEN "holding" ELSE "closing")
  /\ UNCHANGED <<shared, file, config, life, stopping, awaited, activations,
                 memory, problem, untold, chosen, requests, bounds>>

(* ...and is gone once it has.                                             *)
CloseCatalog(a) ==
  /\ at[a] = "closing"
  /\ Becomes(catalog, a, None)
  /\ Goto(a, "holding")
  /\ UNCHANGED <<shared, file, config, life, stopping, awaited, activations,
                 cluster, held, previous, problem, untold, chosen, requests, bounds>>

Ended(a) ==
  /\ Goto(a, "free")
  /\ Becomes(activations, a, Tail(activations[a]))

(* One of ACTIVATION_FAILURES is recorded as the problem. Any other error, *)
(* one of the system's above all, ends the activation's task: nothing      *)
(* catches it, and nothing is told.                                        *)
Recorded(a) ==
  /\ Ended(a)
  /\ Becomes(problem, a, Current(a).number)
  /\ UNCHANGED untold

Broken(a) ==
  /\ Ended(a)
  /\ Becomes(untold, a, Current(a).number)
  /\ UNCHANGED problem

Fails(a) == Recorded(a) \/ Broken(a)

(* _hold_library: the lock of the new library beside that of the old one.  *)
(* A library its config opens to anyone is refused before that.            *)
LockedInstead(a, r) == [k \in Roots |-> IF k = r THEN a ELSE IF k = held[a] THEN None ELSE lock[k]]
Locked(a, r) == [lock EXCEPT ![r] = a]

InUseUnseen(a) == Ended(a) /\ UNCHANGED <<problem, untold>>
InUse(a) == Recorded(a)

Hold(a) ==
  LET r == Current(a).root IN
  /\ at[a] = "holding"
  /\ \/ /\ held[a] = r
        /\ Goto(a, "switching")
        /\ UNCHANGED <<lock, held, previous, problem, untold, activations>>
     \/ /\ held[a] # r
        /\ lock[r] = None
        /\ lock' = Locked(a, r)
        /\ Becomes(held, a, r)
        /\ Becomes(previous, a, held[a])
        /\ Goto(a, "switching")
        /\ UNCHANGED <<problem, untold, activations>>
     \/ /\ held[a] # r
        /\ lock[r] # None
        /\ InUse(a)
        /\ UNCHANGED <<lock, held, previous>>
     \/ /\ Fails(a)
        /\ UNCHANGED <<lock, held, previous>>
  /\ UNCHANGED <<server, file, config, life, stopping, awaited, catalog,
                 cluster, chosen, requests, bounds>>

(* _prepare_database: the database of the library held before is stopped   *)
(* while that library is still locked...                                   *)
Foreign(a) == cluster[a] \notin {None, Current(a).root}
Refuses(a) ==
  /\ cluster[a] # None /\ server[cluster[a]] # None
  /\ deaths + refusals < MaxFaults
  /\ refusals' = refusals + 1
Unlocked(a, r) == [k \in Roots |-> IF k = r /\ lock[k] = a THEN None ELSE lock[k]]

Releases(a) ==
  /\ lock' = Unlocked(a, previous[a])
  /\ Becomes(previous, a, None)

SwitchAway(a) ==
  /\ at[a] = "switching"
  /\ \/ /\ Foreign(a) => Becomes(server, cluster[a], None) /\ Becomes(cluster, a, None)
        /\ ~Foreign(a) => UNCHANGED <<server, cluster>>
        /\ Releases(a)
        /\ Goto(a, "starting")
        /\ UNCHANGED <<problem, untold, activations, refusals>>
     \/ /\ Foreign(a) /\ Refuses(a)
        /\ Fails(a)
        /\ UNCHANGED <<shared, cluster, previous>>
  /\ UNCHANGED <<file, config, life, stopping, awaited, catalog, held, chosen,
                 requests, starts, deaths>>

(* A lock that nothing refers to any more, its activation having failed    *)
(* before, is let go of by the garbage collector.                          *)
CollectLock(a) ==
  /\ at[a] = "free"
  /\ previous[a] # None
  /\ Releases(a)
  /\ UNCHANGED <<server, file, config, life, stopping, awaited, activations, at,
                 catalog, cluster, held, problem, untold, chosen, requests, bounds>>

(* ensure_running: a server on another installation's programs is stopped  *)
(* and started on this one's. Wherever that fails, it runs or does not.    *)
StartServer(a) ==
  LET r == Current(a).root IN
  /\ at[a] = "starting"
  /\ Becomes(cluster, a, r)
  /\ \/ /\ Becomes(server, r, a)
        /\ Goto(a, "opening")
        /\ UNCHANGED <<problem, untold, activations>>
     \/ /\ \E left \in {None, a, server[r]} : Becomes(server, r, left)
        /\ Fails(a)
  /\ UNCHANGED <<lock, file, config, life, stopping, awaited, catalog, held,
                 previous, chosen, requests, bounds>>

(* The curator's role is checked, and the catalog opens; it stays open     *)
(* where its renderer cannot be started, and that is told to nobody.       *)
Open(a) ==
  /\ at[a] = "opening"
  /\ \/ /\ Becomes(catalog, a, Current(a).root)
        /\ Ended(a)
        /\ UNCHANGED <<problem, untold>>
     \/ /\ Fails(a)
        /\ UNCHANGED catalog
  /\ UNCHANGED <<shared, file, config, life, stopping, awaited, cluster, held,
                 previous, chosen, requests, bounds>>

Activate(a) ==
  \/ BeginActivation(a) \/ CloseCatalog(a) \/ Hold(a) \/ SwitchAway(a)
  \/ CollectLock(a) \/ StartServer(a) \/ Open(a)

-----------------------------------------------------------------------------
(* A request for a build, on a thread: the library is looked at...         *)
Request(a, t, value) == thread' = [thread EXCEPT ![a][t] = value]
Beside(a) == Becomes(overlapped, a, overlapped[a] \/ Handling(a))

BuildAsked(a) == {t \in Threads : thread[a][t].at \in {"asked", "cleared"}}

AskBuild(a, t) ==
  /\ a \in Busy
  /\ life[a] = "up"
  /\ thread[a][t].at = "idle"
  /\ config[a] # None /\ catalog[a] # None
  /\ Cardinality(BuildAsked(a)) < Cardinality({i \in Builds : build[a][i].at = "none"})
  /\ Request(a, t, [Idle EXCEPT !.at = "asked", !.quiet = Settled(a)])
  /\ Beside(a)
  /\ UNCHANGED <<shared, file, config, life, stopping, awaited, activations,
                 at, memory, problem, untold, chosen, build, job, bounds>>

(* ...JobRunner.start refuses beside a build that runs...                  *)
CheckBuild(a, t) ==
  /\ thread[a][t].at = "asked"
  /\ Request(a, t, IF BuildRuns(a) THEN Idle ELSE [thread[a][t] EXCEPT !.at = "cleared"])
  /\ UNCHANGED <<shared, file, config, life, stopping, awaited, activations,
                 at, memory, problem, untold, chosen, build, job, overlapped, bounds>>

(* ...and the run is started and followed.                                 *)
Launch(a, t) ==
  /\ thread[a][t].at = "cleared"
  /\ Request(a, t, Idle)
  /\ \E i \in Builds :
       /\ build[a][i].at = "none"
       /\ \A k \in Builds : k < i => build[a][k].at # "none"
       /\ build' = [build EXCEPT ![a][i] =
            [at |-> "launched", root |-> None, of |-> starts[a],
             quiet |-> thread[a][t].quiet /\ Settled(a)]]
       /\ Becomes(job, a, i)
  /\ UNCHANGED <<shared, file, config, life, stopping, awaited, activations,
                 at, memory, problem, untold, chosen, overlapped, bounds>>

(* The run reads the config file, and needs the library's database.        *)
StartBuild(a, i) ==
  /\ build[a][i].at = "launched"
  /\ file[a] # None
  /\ build' = [build EXCEPT ![a][i] =
       IF server[file[a]] = None THEN OverBuild ELSE [@ EXCEPT !.at = "running", !.root = file[a]]]
  /\ UNCHANGED <<shared, file, config, life, stopping, awaited, activations,
                 at, memory, problem, untold, chosen, thread, job, overlapped, bounds>>

EndBuild(a, i) ==
  /\ Runs(a, i)
  /\ build' = [build EXCEPT ![a][i] = OverBuild]
  /\ UNCHANGED <<shared, file, config, life, stopping, awaited, activations,
                 at, memory, problem, untold, chosen, thread, job, overlapped, bounds>>

(* choose_options, on a thread: the file is read...                        *)
AskOptions(a, t) ==
  /\ a \in Busy
  /\ life[a] = "up"
  /\ thread[a][t].at = "idle"
  /\ config[a] # None
  /\ Request(a, t, [Idle EXCEPT !.at = "writing", !.seen = file[a]])
  /\ Beside(a)
  /\ UNCHANGED <<shared, file, config, life, stopping, awaited, activations,
                 at, memory, problem, untold, chosen, build, job, bounds>>

(* ...replaced whole...                                                    *)
Rewritten(a, t) == thread[a][t].seen

WriteOptions(a, t) ==
  /\ thread[a][t].at = "writing"
  /\ Becomes(file, a, Rewritten(a, t))
  /\ Request(a, t, [thread[a][t] EXCEPT !.at = "assigning"])
  /\ UNCHANGED <<shared, config, life, stopping, awaited, activations, at,
                 memory, problem, untold, chosen, build, job, overlapped, bounds>>

(* ...and what was written becomes the config in memory.                   *)
TakeOptions(a, t) ==
  /\ thread[a][t].at = "assigning"
  /\ Becomes(config, a, Rewritten(a, t))
  /\ Request(a, t, Idle)
  /\ UNCHANGED <<shared, file, life, stopping, awaited, activations, at,
                 memory, problem, untold, chosen, build, job, overlapped, bounds>>

Handle(a, t) == CheckBuild(a, t) \/ Launch(a, t) \/ WriteOptions(a, t) \/ TakeOptions(a, t)

-----------------------------------------------------------------------------
(* Quit, which a page or another installation asks for, is Launcher.stop.  *)
Quit(a) ==
  /\ a \in Busy
  /\ life[a] = "up"
  /\ stopping[a] = "no"
  /\ Becomes(stopping, a, "builds")
  /\ UNCHANGED <<shared, file, config, life, awaited, activations, at, memory,
                 problem, untold, chosen, requests, bounds>>

(* On Ctrl+C, as after a quit, the server answers no more requests, and... *)
Leave(a) ==
  /\ life[a] = "up"
  /\ Becomes(life, a, "leaving")
  /\ UNCHANGED <<shared, file, config, stopping, awaited, activations, at,
                 memory, problem, untold, chosen, requests, bounds>>

(* ...once those underway are answered, the lifespan stops the launcher.   *)
StopForGood(a) ==
  /\ life[a] = "leaving"
  /\ stopping[a] = "no"
  /\ ~Handling(a)
  /\ Becomes(life, a, "last")
  /\ Becomes(stopping, a, "builds")
  /\ UNCHANGED <<shared, file, config, awaited, activations, at, memory,
                 problem, untold, chosen, requests, bounds>>

(* stop: the build it follows is interrupted and waited for...             *)
BuildUnwaited(a) == TRUE
BuildOver(a) == ~BuildRuns(a)

StopBuild(a) ==
  /\ stopping[a] = "builds"
  /\ BuildOver(a)
  /\ Becomes(stopping, a, "activation")
  /\ Becomes(awaited, a, chosen[a])
  /\ UNCHANGED <<shared, file, config, life, activations, at, memory, problem, untold,
                 chosen, requests, bounds>>

(* ...then the latest activation, and the launcher's lock...               *)
ActivationOver(a) == \A i \in DOMAIN activations[a] : activations[a][i].number > awaited[a]

StopLibrary(a) ==
  /\ stopping[a] = "activation"
  /\ ActivationOver(a)
  /\ at[a] = "free"
  /\ Goto(a, "parting")
  /\ UNCHANGED <<shared, file, config, life, stopping, awaited, activations,
                 memory, problem, untold, chosen, requests, bounds>>

Part(a) ==
  /\ at[a] = "parting"
  /\ Becomes(catalog, a, None)
  /\ Goto(a, "halting")
  /\ UNCHANGED <<shared, file, config, life, stopping, awaited, activations,
                 cluster, held, previous, problem, untold, chosen, requests, bounds>>

(* ...the database is stopped and the library let go of.                   *)
StopsServer(a) ==
  server' = IF cluster[a] = None THEN server ELSE [server EXCEPT ![cluster[a]] = None]

StopsRest(a) ==
  /\ StopsServer(a)
  /\ lock' = Unlocked(a, held[a])
  /\ Becomes(cluster, a, None)
  /\ Becomes(held, a, None)

Halt(a) ==
  /\ at[a] = "halting"
  /\ life[a] # "last"
  /\ \/ StopsRest(a) /\ Becomes(life, a, "leaving") /\ UNCHANGED refusals
     \/ Refuses(a) /\ UNCHANGED <<shared, cluster, held, life>>
  /\ Goto(a, "free")
  /\ Becomes(stopping, a, "no")
  /\ Becomes(awaited, a, 0)
  /\ UNCHANGED <<file, config, activations, catalog, previous, problem, untold, chosen,
                 requests, starts, deaths>>

(* A process ends: its memory is gone, and the system frees its locks.     *)
Gone(a, how) ==
  /\ Becomes(life, a, how)
  /\ lock' = [r \in Roots |-> IF lock[r] = a THEN None ELSE lock[r]]
  /\ Becomes(config, a, None)
  /\ Becomes(stopping, a, "no")
  /\ Becomes(awaited, a, 0)
  /\ Becomes(activations, a, <<>>)
  /\ Goto(a, "free")
  /\ Becomes(catalog, a, None)
  /\ Becomes(cluster, a, None)
  /\ Becomes(held, a, None)
  /\ Becomes(previous, a, None)
  /\ Becomes(problem, a, 0)
  /\ Becomes(untold, a, 0)
  /\ Becomes(chosen, a, 0)
  /\ Becomes(thread, a, [t \in Threads |-> Idle])
  /\ Becomes(job, a, 0)
  /\ UNCHANGED <<file, build, overlapped, starts>>

(* The last stop ends with the process, its database stopped or not.       *)
End(a) ==
  /\ at[a] = "halting"
  /\ life[a] = "last"
  /\ \/ StopsServer(a) /\ UNCHANGED refusals
     \/ Refuses(a) /\ UNCHANGED server
  /\ Gone(a, "ended")
  /\ UNCHANGED deaths

Die(a) ==
  /\ Alive(a)
  /\ deaths + refusals < MaxFaults
  /\ deaths' = deaths + 1
  /\ Gone(a, "dead")
  /\ UNCHANGED <<server, refusals>>

Stop(a) == StopBuild(a) \/ StopLibrary(a) \/ Part(a) \/ Halt(a) \/ End(a)

(* What an application does by itself, apart from its builds.              *)
Progress(a) == Activate(a) \/ (\E t \in Threads : Handle(a, t)) \/ Stop(a) \/ StopForGood(a)

Next ==
  \E a \in Apps :
    \/ Start(a) \/ Quit(a) \/ Leave(a) \/ Die(a)
    \/ \E r \in Roots : Choose(a, r)
    \/ \E t \in Threads : AskBuild(a, t) \/ AskOptions(a, t)
    \/ \E i \in Builds : StartBuild(a, i) \/ EndBuild(a, i)
    \/ Progress(a)

Spec == Init /\ [][Next]_vars

-----------------------------------------------------------------------------
TypeOK ==
  /\ lock \in [Roots -> Apps \cup {None}]
  /\ server \in [Roots -> Apps \cup {None}]
  /\ file \in [Apps -> Roots \cup {None}]
  /\ config \in [Apps -> Roots \cup {None}]
  /\ life \in [Apps -> {"off", "up", "leaving", "last", "ended", "dead"}]
  /\ stopping \in [Apps -> {"no", "builds", "activation"}]
  /\ awaited \in [Apps -> Nat]
  /\ activations \in [Apps -> Seq(Activations)]
  /\ at \in [Apps -> {"free", "closing", "holding", "switching", "starting",
                     "opening", "parting", "halting"}]
  /\ catalog \in [Apps -> Roots \cup {None}]
  /\ cluster \in [Apps -> Roots \cup {None}]
  /\ held \in [Apps -> Roots \cup {None}]
  /\ previous \in [Apps -> Roots \cup {None}]
  /\ problem \in [Apps -> Nat]
  /\ untold \in [Apps -> Nat]
  /\ chosen \in [Apps -> Nat]
  /\ job \in [Apps -> {0} \cup Builds]
  /\ overlapped \in [Apps -> BOOLEAN]

(* A library that is open is this application's alone, and its database    *)
(* runs: no other application stops it, switching away from the library,   *)
(* quitting, or restarting it on programs of its own. Two applications     *)
(* therefore never have one library open.                                  *)
OpenLibraryIsServed ==
  \A a \in Apps : catalog[a] # None =>
    /\ held[a] = catalog[a]
    /\ lock[catalog[a]] = a
    /\ refusals = 0 => server[catalog[a]] # None

(* Once nothing opens any more, the setup page tells the truth of the last *)
(* choice: the library it named is open, or the problem shown is of it and *)
(* not of a choice before, however their activations overlapped. Where an  *)
(* error ended its activation that nothing records, no library is open and *)
(* the page tells nothing of that choice, against what _activate's         *)
(* docstring promises. Options written beside a choice may put back the    *)
(* folders of before.                                                      *)
SettledLauncherTellsTheTruth ==
  \A a \in Apps : Settled(a) /\ config[a] # None /\ ~overlapped[a] /\ ~Handling(a) /\ refusals = 0 =>
    \/ catalog[a] = config[a]
    \/ catalog[a] = None /\ chosen[a] \in {problem[a], untold[a]}

(* A build works on the library its application's config names, however    *)
(* long that one still opens or another closes; folders stay as they are.  *)
(* One asked for while nothing opened or closed finds its library open,    *)
(* and keeps it open until it has ended: a quit waits. Builds asked for at *)
(* once, each on a thread, may leave one that is not followed.             *)
BuildsKeepTheirLibrary ==
  \A a \in Apps : Alive(a) /\ ~overlapped[a] =>
    \A i \in Builds :
      build[a][i].at = "running" /\ build[a][i].of = starts[a] =>
        /\ build[a][i].root = config[a]
        /\ build[a][i].quiet /\ refusals = 0 => catalog[a] = build[a][i].root

(* An application that ended by itself leaves nothing behind: no lock, no  *)
(* build of its own, and no database unless some process was killed. What  *)
(* was asked for while it stopped, a build or another library, is stopped  *)
(* by the last stop.                                                       *)
QuitLeavesNothing ==
  \A a \in Apps : life[a] = "ended" =>
    /\ \A r \in Roots : lock[r] # a
    /\ deaths + refusals = 0 => \A r \in Roots : server[r] # a
    /\ ~overlapped[a] =>
         \A i \in Builds : Runs(a, i) => build[a][i].of < starts[a]

(* Nothing keeps a stop waiting but the build it follows: no activation,   *)
(* request, other application or lock leaves it with no step to take.      *)
StopsWaitOnlyForTheBuild ==
  \A a \in Apps :
    (life[a] \in {"leaving", "last"} \/ stopping[a] # "no") /\ ~BuildRuns(a)
      => ENABLED Progress(a)
=============================================================================
