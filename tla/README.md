# A verification of the sample library

SampleLibrary catalogs the samples of tracker-module collections in Postgres, keeps
their audio in a content store, builds descriptors, caches and a two-dimensional
cloud from them through a pipeline of steps, and serves the result to a browser,
where a person listens, labels and rates. Its numerical code is sequential and well
tested. What tests hardly reach is everything around it: processes killed halfway
through, orphans that work on, locks a database restart takes away, transactions
that overlap, files a power loss keeps in another order than they were written,
requests whose answers cross, and answers kept while what they say is rewritten. The modules in this directory model that part.

Paths below leave out the leading `src/`: `sampleripper/...`, `samplecore/...`,
`sampleextract/...`, `sampleserver/...` are packages of the repository's `src/`
directory, `frontend/...` is the browser application.

- [The system and its parts](#the-system-and-its-parts)
- [The modules](#the-modules)
- [The runs](#the-runs)
- [Where the code and its documentation part](#where-the-code-and-its-documentation-part)
- [The proofs](#the-proofs)
- [What is only model-checked, and what is not modelled](#what-is-only-model-checked-and-what-is-not-modelled)
- [The plan](#the-plan)

To check a run, `tlc -config <cfg> <module>`; to check a proof module, `tlapm <module>.tla`.

## The system and its parts

Every process is started by a person or by another process of the system. They share
four stores: the Postgres catalog, the content store of audio objects, the library
directory of artifacts, and the config file. They meet through Postgres session
locks, transactions, renames in the library directory, and HTTP.

| Part | State it keeps | Operations | Meets | What is hard |
| --- | --- | --- | --- | --- |
| Step graph (`sampleripper/pipeline/graph.py`) | the declared steps and what each requires | build, `order`, `unavailable_reason`, `descendants` | read by runs | loops that grow a set until nothing is new, over any shape |
| Pipeline run (`scheduler.py`, `execution.py`, `scratch.py`, `events.py`, `results.py`, `status.py`) | verdicts and attempts, an intent of emptying in the catalog, an events file | launch, empty, redo, take steps, interrupt, die | starts one process a step; library's and steps' locks | kills, orphans, a lock lost in mid-run, emptying halfway |
| Locks (`pipeline/locks.py`, `step_lock.py`, `samplecore/storage/database.py`) | Postgres session locks | claim, probe, read back | every process that writes the library | a probe is a claim; a lock lives as long as its connection |
| Decisions and artifacts (`decisions.py`, `artifacts.py`, `context.py`) | artifacts and their sidecars | decide, seal, reseal, forget | runs | a success without an output, an output without a seal |
| Steps, layout, settings (`steps/`, `layout.py`, `settings.py`, `devices.py`, `programs.py`) | none | declarations | runs | none |
| Command line (`cli.py`, `commands.py`, `setup.py`, `environment.py`, `reset.py`, `children.py`) | none | dispatch, hold the step's lock, reset | a step's process is one of these | start-up before the lock |
| Memory limits (`limits/`) | a limit of the process | set | a step's process | none |
| Staged builds (`samplecore/storage/staging.py`, `staged_rows.py`, `atomic.py`) | a partial, a count, an artifact, a retired one | open, write, checkpoint, complete, publish | cache builders and readers | kill and power loss between any two writes |
| Annotation rows and gestures (`annotation_writes.py`, `curation.py`, `anchoring.py`, `routers/curation.py`) | annotations, tag ranks, history | change, prepare the schema | the server's requests, imports | stale reads before a lock; commits out of order of their moments |
| Annotation files and relinking (`sampleextract/annotations/`) | none of its own | import, relink, restore | annotation rows, the catalog's slots | slots that change under a relink |
| Module extraction (`sampleextract/cli.py`, `run.py`, `ingest.py`, `corpus.py`) | modules, samples, occurrences, record of a complete pass | list, ingest, record | other passes, prunes | two passes at one module; deadlocks on sample rows |
| Pruning and the content store (`sampleextract/prune.py`, `samplecore/storage/prune.py`, `audio_store.py`) | audio objects | prune rows, walk the store | passes | objects unlinked under a pass that relies on them |
| Parallel shares (`sampleextract/parallel/`, `process_pool.py`) | shares of a listing | divide, supervise, collect | passes | a share that dies |
| Sample files (`sampleextract/files/`) | files cataloged in place | scan, ingest, prune | the catalog, which they hold samples of | two kinds of holders |
| Notes, links, thumbnails | rows per module or sample | fill | the catalog | a stop between rows |
| Equivalence and labels (`equivalence_classes.py`, `labeling/`, `pitch.py`) | groups of samples | detect, name | a gesture's reach | none |
| Cloud (`samplecloud/`) | experiments, pointers | stages, promote | the catalog | promotion while readers read |
| Descriptor and training (`sampledescriptor/`) | caches, checkpoints, releases | build caches, train, release | staged builds | caches read while another build publishes |
| Morphing service (`samplemorph/service/`) | bounded caches, two locks | render, fill, evict | the catalog server | requests for one point at once; eviction |
| Catalog server (`sampleserver/app.py`, `visitors.py`, `response_cache.py`, `spectral_cache.py`, `dependencies.py`, `routers/morph.py`, `routers/cloud.py`) | visitors' budgets, places, kept answers | admit, pay, keep, confirm | the morphing service, the catalog | payment after the answer; places at their limit; rows read after their revision; threads and connections waiting for each other |
| Serving policy (`policy.py`, `admission.py`, `local_person.py`) | none | decide one request | the server | none |
| Desktop application (`sampleripper/app/`, `storage/cluster/embedded/`) | the open library, its lock and database, one build | open, switch, build, stop, take over | config file, runs, other applications | a build asked for while a library closes; a database that will not stop; a stop beside everything |
| Database cluster (`storage/cluster/`) | roles and databases | provision | Postgres | asked again until done |
| Publication and site (`publish/`, `site/`) | a published copy | copy, upload | one snapshot | pure I/O |
| Configuration (`config.py`, `config_editing.py`) | the config file | read, change a part | the application | two changes at once |
| Developers' tools (`sampleripper/sandbox/`, tracking) | none that is served | build a toy library | none | none |
| Annotation queue of the browser (`frontend/src/samples/annotationWriteQueue.ts`, `annotationStore.ts`) | pending and confirmed annotations, tails, learned classes | gesture, send, answer, fail | the server's gestures | answers that cross, refusals, lost answers |
| The rest of the browser application | component state | load windows, preview audio | the server | late answers |

What makes each of the modelled parts correct:

- **Step graph**: it refuses exactly the graphs with a circle; `order` is exactly what
  the targets need; nothing unavailable is let through; every loop ends.
- **Runs and locks**: one run acts on a library, one process works on a step, no lock
  is left behind; an emptying that was begun is finished before anything is built; what
  a run settled stands while it goes on; its account names each step; it waits for
  nothing but its step, and a person can always end that wait.
- **Staged builds**: the count never runs ahead of the rows, the published artifact is
  always one whole build, a stopped build continues after its last count.
- **Annotations**: every write takes effect at one moment on what the one before it
  left; the history tells the table and brings back every quiet moment; every tag of a
  label in use has one rank of its own and keeps it.
- **Extraction**: cataloged samples have audio and are held by a module; passes never
  wait in a circle; the record of a complete pass is true; a prune leaves nothing over.
- **Applications**: a library that is open is this application's alone and its database
  runs; the settled page tells the truth of the last choice, but where an error nothing
  records ended its activation; a build works on the library of the config, and keeps it open
  where it found it so; a quit leaves nothing behind and waits for its build only.
- **Morphing**: a place is given back whichever way a request ends; no budget goes further
  into debt than there are places; a render that is there is not made again.
- **Answers of the catalog server**: none is older than the request it answers, whether
  built, kept or confirmed; every request ends.
- **Annotation queue**: gestures on one sample arrive in the order they were made, each
  is settled, the saving mark is true, and a tab with nothing on its way shows what the
  database holds.

## The modules

| Module | What it is | Code |
| --- | --- | --- |
| `StepGraph` | what a step graph promises, as operators over a function `requires` | `pipeline/graph.py` |
| `StepGraphLoops` | the loops of the code, against those definitions | `pipeline/graph.py` |
| `PipelineRuns` | runs, their steps' processes, and the locks between them | `pipeline/scheduler.py`, `execution.py`, `locks.py`, `scratch.py`, `step_lock.py` |
| `LibraryEmptying` | abstract: an emptying, once begun, ends over an empty library before anything is built | implemented by `PipelineRuns` |
| `StagedBuild` | builds row by row over a disk that keeps writes in any order | `storage/staged_rows.py`, `staging.py`, `atomic.py` |
| `AnnotationRows` | decisions, gestures and what a gesture leaves of a decision; shared below | `models/annotation.py` |
| `Annotations` | the transactions of every writer of annotations | `annotation_writes.py`, `curation.py`, `annotations/*`, `routers/curation.py` |
| `AnnotationLedger` | abstract: each sample says what the changes to it add up to, and once kept, nothing said is lost | implemented by `Annotations` |
| `AnnotationQueue` | one browser tab's gestures, on their way and back | `annotationWriteQueue.ts`, `annotationStore.ts` |
| `Extraction` | passes, prunes, the content store and the record of a complete pass | `sampleextract/*`, `storage/prune.py`, `audio_store.py` |
| `Applications` | applications that open, switch, build, quit and die over libraries they share | `sampleripper/app/launcher.py`, `jobs.py`, `config_editing.py`, `instance/lock.py`, `embedded/server.py` |
| `Morphing` | the gate of the catalog server in front of the renderer's threads and cache | `sampleserver/visitors.py`, `routers/morph.py`, `samplemorph/service/*` |
| `CatalogAnswers` | answers kept over the whole catalog while it is written | `response_cache.py`, `caching.py`, `routers/cloud.py`, `dependencies.py` |

`MC*` modules give the constants of a run; the other modules hold proofs. A few
operators that no action uses stand right before the one that is used (`AssumedFree` before
`LibraryFree`, `Unflushed` before `Flushed`): each is the mistake one could make there, and
putting it in the place of the other is how every property was seen to fail.

### StepGraphLoops

A behaviour is one graph, one set of wanted steps and one step asked about; all of them
are chosen in `Init`, so a run covers every graph of its size, circles and self-loops
included. `Settle`, `Grow` and `Descend` are one round of the `while` loops of
`_require_an_order`, `order` and `descendants`; `Screen` is `unavailable_reason`.
`order` answers by filtering the declared steps, so a run takes them in declaration
order. `graph.py` says that a run keeps the declared order "wherever the requirements
leave a choice"; the code keeps it always, and the two agree where every step is
declared after what it requires, as in the pipeline the repository declares. That is
the assumption `DeclaredInOrder` of `PipelineRuns`.

### PipelineRuns

A run's place `pc[r]` is a place in `run_pipeline`:

| Places | Code | Actions |
| --- | --- | --- |
| `new` | the claim of the library's lock | `Start` |
| `probing`, `probe` | asking for each step whether it runs: a claim of its lock, and its release | `Probe`, `Unprobe`, `Screen` |
| `recording`, `resetting`, `sweeping` | `start_from_scratch`: the intent, the reset's process, the artifacts, the intent again | `RecordIntent`, `StartReset`, `Sweep`, `ClearIntent` |
| `redoing` | `_apply_redo` | `Forget`, `BeginTaking` |
| `taking` | `_take_in_order`: the lock read back before each step | `Take` |
| `deciding`, `resealing`, `starting` | deciding a step and what follows | `Decide`, `Reseal`, `StartStep` |
| `waiting`, `binding` | the step's process, and what it produced bound to its inputs | `Reap`, `Bind` |
| `ended`, `dead` | the report is written, or the run was killed or interrupted outside a step | `LoseCatalog`, `Die` |

`child[r]` is the process of the step a run started last. It starts up, takes its
step's lock (`TakeStepLock`) or refuses, works (`EmptyCatalog`, `Produce`) and exits; it
outlives its run, so `child[r]` may work on while `pc[r]` is `dead`. `output[s]` is what
stands of a step: nothing, something unsealed, or a sealed output of the inputs that
stand. `Produce` may leave the steps behind it without an output of their inputs: this
stands for the digests of `decisions.py`, which are not computed here. Passes always
run; file steps leave an artifact and a sidecar; the rest leave rows of the catalog.
`Restart` ends every session and frees every lock at once.

A step's process exists before it holds its lock: it imports, reads the configuration and
connects first. The run `pipeline_runs_orphan` shows what that window costs. The history
variable `slipped` says whether a run died over a process that was still in it; what is
claimed of orphans, of outputs and of the abstract promise is claimed apart from that.

### StagedBuild

`entry` and `content` are the names and directories that processes see, `entryKept` and
`contentKept` what the disk would keep if power went now. Every `fsync` of the code is
an assignment to one of the kept variables, in its place between the others; every
write, `os.replace` and `shutil.rmtree` assigns to the seen ones only. `WriteBack` lets
the machine keep names on its own, `Left` lets it keep any subset of the rows written
since the last flush, and `PowerLoss` makes what was kept what is seen. What is assumed
of the file system: a rename replaces a name at once or not at all; a flush of a file
keeps its bytes, one of a directory its names; nothing else is kept in any order. A
file's torn bytes are kept as torn, never as another file's. `Kill` ends the build
between any two actions; `Open` may then ask for another identity, whose arrays may have
the same shape.

`Clear` takes the files of a stale partial one at a time in any order, since
`shutil.rmtree` lists a directory in the order the system gives.

### Annotations and AnnotationLedger

A writer is one transaction of one process: it asks (and, for a gesture, reads what it
reaches and where those samples are found on another connection), begins, which is when
Postgres takes its moment, claims the annotation write lock, reads, decides, writes and
commits, or rolls back at any point. Only `Commit` changes what others read.
`BeginPreparing`, `HoldTable` and `EndPreparing` are `create_curation_schema` in a
library from before the history: creating the trigger waits for writes in flight and
keeps new ones out, and the ranks come after, under the write lock. `Recatalog` is an
extraction that changes what slots hold, at any moment of all this. `stood` keeps what
the table was at each moment, for the properties; no action reads it.

Left out: the reading routes; that an upsert which leaves a row equal gives no entry is
taken as the trigger's effect; `favorite` stands for every decision besides the label.
Postgres's deadlock detection is `RollBack`.

### AnnotationQueue

A gesture is queued, sent, written, and then answered or lost; or refused before it is
written. `tail` is the promise chain kept per sample, `group` what answers have taught
the tab about classes, `pending` what is laid over `confirmed`. `Gesture` is
`queueAnnotationChange` up to its first await together with `beginChange`; `Answer` is
everything between the answer and the end of the handler, one turn of the event loop.
The server is one atomic step, which is what `KeepsTheLedger` of `Annotations` shows of
it. Nobody else writes: a second tab is stale until it reads again, by design.

### Applications

An application is one process under a config file; `lock`, `server` and `file` are what
several share. `at[a]` is where the holder of the launcher's lock is: an activation
(`_activate`) closes the catalog, holds the library's file lock beside the one before,
stops the database of the one before, lets go of its lock, starts the new database and
opens the catalog; or a stop parts with all of it. Activations queue up behind that lock
in the order they were scheduled. Each `await run_in_threadpool` is a boundary between
actions, and so is each step of a request on a thread: options read and replace the config
file in two steps, and a build is asked for, checked and launched in three. `Choose` runs on
the event loop and is one step.

A build is a run of the pipeline that reads the config file when it starts (`StartBuild`);
what it does then is `PipelineRuns`. `ensure_running` may find a server that a killed
application left, on this installation's programs or another's, which `server` tells
apart by whose programs it runs on. `CollectLock` is the release of a lock whose owner
dropped it: an activation that failed between taking the new lock and letting go of the
old one leaves the old in no variable. A killed application leaves its servers and its
builds.

An activation fails in one of two ways. An error of `ACTIVATION_FAILURES` is recorded as the
problem (`Recorded`); any other, one of the system's above all, ends the activation's task and
is recorded nowhere (`Broken`): the folder of the locks or of the database cannot be made, or
a program cannot be started. `untold` is history, and keeps which activation that was. Where
it is the renderer that cannot be started, the catalog is open already and stays open
(`launcher.py:289`), which is `Open`'s ordinary outcome, the renderer not being modelled.

Left out: the device probe, the renderer's process, the takeover by a second start of the
same config, and databases of a person's own, which no application starts or stops.

### Morphing

A request enters the gate, asks the renderer and leaves; entering is one step, since the
route has no `await` between taking its place and sending, and so is leaving and paying. The
place is taken before the budgets are asked, so a request they refuse takes one and gives it
back (`Refuse`), which changes nothing unless a place is lost on that way.
Tokens are counted in whole morphs: a budget is the floor of the code's fraction, which
loses nothing since `admit` compares with 0 and 1 and `charge` takes 1, and a refill
comes in whole tokens at any time. `heard` and `refilled` are kept for the properties. A
request given up (`GiveUp`) leaves its place while the renderer's thread works on, which is
why the model has `job` beside `request`.

### CatalogAnswers

Three parts stand for what an answer is built from: one told by a stamp (coordinates), one
by a digest (rates, files), and one by a count (modules, whose occurrences the points
read). A request takes a thread to wait for a connection, gives it back, takes another for
its route, reads each revision in its own statement, compares, waits for the lock and
builds from statements of their own. `version` counts writes and nobody reads it. The
vectors of `spectral_cache.py` are kept by the same steps, with one stamped part and no
validator; the categories and their tags are kept for the scoring shown, whose name is
their revision.

### Extraction

A pass lists the collection, drops the record, shares the extraction lock and lands each
module in a transaction of its own: module row, then for each sample its row and its
audio object. The object is outside the transaction: it is there before the commit and
stays after a rollback. Inserting a row another open transaction has inserted waits for
it (`WaitsFor`). A prune then reads what is gone, claims the lock alone, removes rows in
one transaction, reads the names the catalog still holds, and walks the store. A second
listing must match the first before the pass records it. `Restart` rolls back every
transaction and frees every lock; a pass finds out at its next statement (`cut`), which
the walk of the store never makes.

Rows of thumbnails are upserted in a pass as well (`ingest.py:168`), and wait for each other
like rows of samples, in the same order of hashes; they are left out.

A pass is one worker: workers of one pass share its lock and its listing, and behave as
passes over parts of one listing. Every file parses, and no two files hold one module.

## The runs

Each property of a passing run was seen to fail under one plausible mistake in the
code it is about; `PROJECT.json` names the mistake.

| Run | States | What it asks |
| --- | --- | --- |
| `step_graph` | 28,455 | every graph over three steps, with every target set and asked step: do the loops compute what the definitions say, and end |
| `pipeline_runs` | 459,704 | two runs over pass, file and experiment, in any order, with kills and interrupts: locks, orphans, emptying and its abstract promise, settled outputs, account |
| `pipeline_runs_ending` | 78,002 | one step, two runs, a database restart, three interrupts, under fairness: what runs wait for and what ends |
| `pipeline_runs_orphan` | violated | does a relaunch always see the orphan of the run before it |
| `staged_build` | 848,143 | two builds of one shape under one name, with kills and power losses |
| `annotations` | 895,802 | two writes of any kind, the history's beginning and a recatalog |
| `extraction` | 1,998,024 | three passes in two processes, two changes of the collection, a restart |
| `extraction_late` | violated | is a pass that ends at once always right to |
| `annotation_queue` | 174,867 | three gestures on a class of two, with refusals and lost answers |
| `applications` | 1,366,228 | two applications over two libraries, two choices, a build, options, quits, activations that fail and are told or not, and one kill or one database that will not stop |
| `morphing` | 555,254 | three requests of two visitors, two places, two threads, a cache that holds two of four renders and never the greatest, one end of the renderer |
| `catalog_answers` | 963,208 | two requests, two writes, one failing statement, one restart, with one thread and connection or two of each, under fairness |

### Properties that take some explaining

- `NoLockOutlivesItsHolder`: a lock left behind would refuse every later run; it holds
  for libraries' and steps' locks over any kills, since a lock is a session's.
- `EmptyingComesFirst` and `KeepsThePromise` are two sides of an emptying that several
  runs may share: the first speaks of runs, the second of what stands from the moment the
  intent is recorded until it goes.
- `LockedOrphansAreSeen`: no run gets past its check while a process another run started
  works on its step, unless that process had yet to take its lock when its run died.
  `NoRunActsBesideAnOrphan`, which leaves out the exception, is violated.
- `WhatARunSettledStands`: as long as a run goes on, the outputs of the steps it has
  taken are sealed. It needs requirements to be declared first and orphans to be seen.
- `LostRunsTakeNothingMore` says of a run whose lock a restart took that it takes no
  other step. It finishes the one it is in: that is the documented behaviour, and
  `OneRunActs` is asked only of runs in which the server stays up.
- `CountsAreTrue` speaks of what the disk would keep, `Left`, and not only of what is
  seen: it is a claim about every power loss at every moment. Its other half is that a
  build continues after the last count that stands.
- `QuietMomentsComeBack` is what is true of `annotations restore --at`: a moment at which
  no transaction was open comes back exactly.
- `KeepsTheLedger` maps the table and its history to the ledger. It is where a lost
  update, a half-done class gesture or a relink that drops a decision would show.
- `ObjectsStandUnlessCut` exempts behaviours where the database restarted during a
  prune's walk: the walk goes on without its lock (`storage/database.py:617`), and a pass
  beside it may rely on an object it unlinks.
- `RecordIsTrue` exempts passes over different listings that ran beside each other; what
  happens then is the run `extraction_late`.
- `QuietTabIsRight` exempts gestures that meet on a sample only through a class the tab
  has not learned of, and answers lost after the write; both leave the tab stale until
  it reads again.
- `RanksAreForGood` says of every step that a rank once given stays and that no two tags
  have one, and of every label that took effect that its tags are ranked.
- `SettledLauncherTellsTheTruth` and `BuildsKeepTheirLibrary` exempt requests that
  overlapped on threads (`overlapped`), and the first, and the second where it speaks of the
  library that is open, a database that would not stop; both are told below.
  `OpenLibraryIsServed` promises the database with the second exemption alone.
- `SettledLauncherTellsTheTruth` has three outcomes of a last choice: its library is open; no
  library is, and the problem shown is of that choice; or no library is, and an error that
  nothing records ended that choice's activation. What it excludes is a launcher that neither
  opened the library nor failed on it, or shows another library. What the page says in the
  third outcome is told below.
- `BuildsKeepTheirLibrary` says of every followed build that it works on the library its
  config names, and of one asked for while nothing opened or closed that this library is open
  and stays so. A build asked for while the library of before is closing works on the one
  chosen, which may not open in the end.
- `PlacesComeBack` is a count in step with a set; what could go wrong is one way out of the
  gate among seven (an answer, a 304, a refusal relayed, a timeout, a lost renderer, no
  renderer, a budget's refusal) on which the place is not given back.
- `StopsWaitOnlyForTheBuild` says that a stop always has a step to take once the build it
  follows is over: a deadlock of a launcher among processes that go on is one TLC
  would not report by itself.
- `BudgetsHold` is what the debt comes to: over any time, what a visitor hears is bounded
  by capacity, refills and places. It follows from the ledger the proofs speak of.
- `AnswersAreCurrent` compares an answer with the rows as the request came, part by part,
  apart from the parts whose revision did not tell a write (`slipped`). It is the order of
  the reads that makes it true: the revision first, the rows after.

### Bounds, and why they are enough

- **Three steps, two runs.** Three steps give every graph with an intermediate step and
  the three kinds a step can be. Two runs give a run and its relaunch, or two people;
  locks are claimed pairwise. `pipeline_runs_ending` trades steps for three interrupts
  and a restart. Four requests stand for plain, from scratch, redo, and a part of the
  targets.
- **Two rows, two identities, three directories.** A count can be behind, at and before
  the end; two identities of one shape are what only the recorded identity tells apart;
  three directories are those that three names show at once, and a fourth is never
  needed where one is reclaimed.
- **Three samples, two slots, two labels over two tags that overlap, two writes.** A
  lost update needs two writes; two relinked annotations can end at one sample or at one
  that speaks; a shared tag shows a rank given twice. One preparation and one recatalog,
  each at any point.
- **Two modules that share two samples in opposite slot order**, for circles, and one
  sample of its own, for prunes. Three passes let one commit between another's two
  reads and a third end at once. Two changes and one restart.
- **Two applications, one of them worked with, over two libraries.** Everything they share
  is shared pairwise; the second is started and left, which is when it opens and stops what
  the first may have. Two choices give one that fails or closes under another. One thread
  for requests: two builds at once are the divergence told below, and one is enough for a
  request to overlap choices and stops. The constraint `OverlapsAlone` of the run follows
  behaviours in which requests overlap only where one application has been started; two
  applications together are followed up to such an overlap.
- **Three morphs, two places, two threads.** One more request than places, one place more
  than the smallest budget; two light renders fit the cache together, or one heavy one, and a huge one is kept nowhere.
  The constraint `HugeApart` follows a huge render only while the other thread is idle, which
  keeps the run small; the theorems speak of renders of any weight side by side.
- **Two requests for one answer.** One that rebuilds and one that finds, confirms or waits;
  two writes leave a revision unmoved or put a digest of before back.
- **A class of two, one member with no anchor, two gestures, three made.** Two may
  cross; the third waits behind either.

The bounds are `StepCount`, `RestartLimit`, `InterruptLimit`, `RowCount`, `MaxJobs`,
`MaxPreparations`, `MaxRecatalogs`, `MaxPasses`, `MaxChanges`, `MaxRestarts`,
`MaxGestures`, `MaxChoices`, `MaxBuilds`, `MaxStarts`, `MaxFaults`, `MaxRefill`, `MaxEnds`
and `MaxWrites`; each is a guard of the action it bounds. Writers, passes, directories,
identities, libraries, visitors, requests and threads are symmetric, and symmetry is used in runs that check safety only.

### Deadlock

`PipelineRuns` and `StagedBuild` are checked for deadlock (`Quiet` is a pipeline where
every run has ended). The other models stop where their bounds run out, or their
question is answered, and are not. `Applications` says in `StopsWaitOnlyForTheBuild` what
a deadlock would be there.

### Fairness

- `StepGraphLoops`: weak fairness of `Next`, a loop that runs.
- `PipelineRuns`: weak fairness of each run's own step, which is a plain call that
  returns, and of `Killed`, the death of a process group sent a kill. None of a step's
  command, which may work for days, hang or ignore interrupts; none of people, of kills
  or of restarts.
- `AnnotationQueue`: weak fairness of each gesture's progress. The event loop sends what
  may go; a request ends with an answer or an error, since a browser gives up a
  connection in the end. The code sets no timeout of its own, so a server that answers
  never and keeps its connection would hold later gestures on the same samples for as
  long as the browser waits.

- `CatalogAnswers`: weak fairness of each step a request takes by itself: a free thread or
  connection is given to whoever waits, a statement ends (Postgres ends it after its
  timeout), and a wait for the pool runs out. None of writes, of requests or of restarts. A
  lock is not promised to any one of those that wait for it; two requests need no more.

## Where the code and its documentation part

Two runs state what a doc or a docstring says and find it violated. `PROJECT.json`
quotes the lines.

- **An orphan still starting up is not seen** (`pipeline_runs_orphan`). A run is killed
  right after it started a step. The step's process has yet to take its lock when the
  relaunch probes it, finds it free and goes on; the orphan then takes the lock and
  works beside its relaunch. `docs/architecture.md` says a relaunch is refused then. Two
  processes still never work on one step (`OneProcessWorksOnAStep`).
- **What is gone is read before the lock is claimed** (`extraction_late`). Another pass
  over an older listing may land a module, since removed from the collection, after the
  prune read what is gone and before it has the lock. The record of the complete pass
  then vouches for a catalog that holds it, and later passes end at once. The shortest
  behaviour has one file removed between two passes' listings; the next change of the
  collection makes it good.

Others came up while modelling. No run is spent on them: the models have these behaviours,
and the properties beside them say what holds apart from them.

- **A build stopped between the two renames leaves no previous one.** `publish_staged`
  moves the previous build aside before it moves the new one in (`staging.py:43`). Between
  the two nothing stands under the name, and the next build clears the finished partial and
  starts over. `staging.py:32` says a build stopped partway leaves the previous one as it was.
- **A moment while a write is open may come back as it never was.** Entries carry the
  moment their transaction began, which is before it had the write lock
  (`curation.py:131`). Quiet moments come back exactly; `docs/architecture.md:234` says
  `--at` brings back any.
- **A library may be let go of while its database runs.** Where the database of the library
  held before will not stop, the activation fails, and the exception drops the only
  reference to that library's lock (`launcher.py:311`). Another application may then open
  it, and the first, which still remembers the database, stops it under the other as it
  quits. `launcher.py:329` says a library keeps its lock until its database has stopped.
- **Options put back the folders of before.** Options are read, changed and replaced on a
  thread. Folders saved in between are lost from the file and from memory, while the
  library of those folders opens; `config_editing.py:79` says every other setting is kept.
- **Two builds asked for at once both start.** `JobRunner.start` looks and starts without a
  lock, on a thread per request. The library's lock refuses one of the runs; where it is
  the one started last, the build that goes on is neither shown nor stopped by a quit.
- **Some failures to open are told to nobody.** `_activate` catches `ACTIVATION_FAILURES` only
  (`launcher.py:263`). An `OSError` is none of them: one of the lock's folder
  (`instance/lock.py:47`), of the cluster's directory and log (`embedded/server.py:191`) or of
  `pg_ctl` itself ends the task, no problem is recorded, and the page welcomes the person to
  choose folders as if none were chosen, or goes on showing the problem of an earlier choice.
  `launcher.py:258` says that why the library failed to open is recorded where it did.
  Leave the third outcome out of `SettledLauncherTellsTheTruth`, and TLC finds this in four
  states.
- **A problem may stay beside an open library.** An earlier choice that fails after a later
  one cleared the problem writes its own, and the later one opens without clearing it.
- **A gesture may keep the anchor of before.** A gesture on a sample that the catalog holds
  nowhere any more keeps the anchor stored with its annotation (`annotation_writes.py:79`), and
  so does the model; `docs/architecture.md:204` says that the gesture removes the annotation.
  It takes a catalog that changes between the gesture's reads.
- **A point may be rendered twice in a row.** A thread that waits for the render lock looks
  for the render again once it has it (`renderer.py:148`), but the render made meanwhile may
  have been pushed out of the cache by another, or have been too large to keep.
  `renderer.py:136` says that identical requests arriving together render once. `RendersOnce`
  claims that no render is made that is there.
- **More requests reach the renderer than there are places.** A request given up after its
  timeout leaves its place while its thread works on; the next one queues behind it.
  `visitors.py:180` says at most `concurrent` requests reach the renderer at once.
- **A module replaced by another leaves the points of before.** The cloud's answer is told
  apart by the count of modules (`cloud.py:110`), and their occurrences' rates enter the
  points; `response_cache.py:17` says a run that moves the rows is picked up on the next
  request. The next write of any other part, or a restart, makes it good.
- **A kept answer may mix tables of different moments.** Its rows are read in statements
  that each see the latest commits. It is never older than its request, and the next
  request finds another revision and builds it again.
- **A request may wait for more than one rebuild.** Requests with different revisions
  rebuild one after another behind one lock; `database.py:538` says that a request waits
  no longer than the rebuild it meets.
- **Requests may wait for each other until the pool gives up.** A connection is held while
  its route waits for a thread, and a thread while it waits for a connection. Where every
  thread waits and every connection is held, only the pool's timeout ends it, by failing
  those who wait.

## The proofs

The proof modules are checked by Z3, Zenon and LS4. Everything is proved for any graph,
any number of runs, visitors, requests, places, rows, directories, applications and
libraries, and any bounds that the modules' named assumptions allow. Types are proved
(`TypeCorrect`, or inside a module's inductive invariant), and no run is spent on them.

| Theorem | Module | Says |
| --- | --- | --- |
| `TypeCorrect` | `PipelineRunsProofs` | `TypeOK` is an invariant of `Spec` |
| `LocksAreTrue` | `PipelineRunsProofs` | `LockInv` holds until the server restarts |
| `OneRunActsAtATime` | `PipelineRunsProofs` | `OneRunActs` does, likewise |
| `OneProcessWorksOnAStep` | `PipelineRunsProofs` | `OneProcessPerStep`, likewise |
| `EmptyingIsFinishedFirst` | `PipelineRunsProofs` | `EmptyingComesFirst`, likewise |
| `AccountsNameEveryStep` | `PipelineRunsProofs` | `AccountNamesEveryStep`, restarts included |
| `LockedOrphansAreAlwaysSeen` | `PipelineRunsProofs` | `LockedOrphansAreSeen`, until the server restarts |
| `SettledStepsStand` | `PipelineRunsProofs` | `WhatARunSettledStands`, likewise |
| `ThePromiseIsKept` | `PipelineRunsProofs` | `KeepsThePromise`: the runs implement `LibraryEmptying`, in behaviours without a restart |
| `LocksEndWithTheirHolders` | `PipelineRunsProofs` | `NoLockOutlivesItsHolder`, however often the server restarts |
| `LostRunsAlwaysMakeWay` | `PipelineRunsProofs` | `LostRunsTakeNothingMore`, likewise |
| `RunsAlwaysHaveAStep` | `PipelineRunsProofs` | a run that acts has a step of its own to take, or waits for a process of its own that is still there, restarts included |
| `RunsOnlyGoOn` | `PipelineRunsProofs` | `GoesOn`: each step of a run brings it on, and nothing else moves one but its death; an action property |
| `LoopsAlwaysAnswerRight` | `PipelineRunsProofs` | `AnswersAreRight` of `StepGraphLoops` |
| `LoopsTakeBoundedlyManyRounds` | `PipelineRunsProofs` | of each graph's loops: at most five rounds for each step and four, and every round leaves fewer |
| `Invariant` | `ExtractionProofs` | `Inv`, the inductive invariant of extraction |
| `SamplesAreAlwaysHeld` | `ExtractionProofs` | `SamplesAreHeld` |
| `ObjectsAlwaysStand` | `ExtractionProofs` | `ObjectsStandUnlessCut` |
| `RecordIsAlwaysTrue` | `ExtractionProofs` | `RecordIsTrue` |
| `NobodyWaitsInACircle` | `ExtractionProofs` | `NoCircle` |
| `NothingIsLeftOver` | `ExtractionProofs` | `PruneLeavesNothing`, an action property |
| `Invariant` | `AnnotationsProofs` | `Inv`, the inductive invariant of annotation writes |
| `HistoryAlwaysTellsTheTable` | `AnnotationsProofs` | `HistoryTellsTheTable` |
| `QuietMomentsAlwaysComeBack` | `AnnotationsProofs` | `QuietMomentsComeBack` |
| `RanksAreAlwaysForGood` | `AnnotationsProofs` | `RanksAreForGood`: `RanksAreGiven` and `RanksLast` |
| `TheLedgerIsKept` | `AnnotationsProofs` | `KeepsTheLedger`: the writers implement `AnnotationLedger` |
| `TypeCorrect` | `AnnotationsProofs` | `TypeOK` |
| `OnlyTheBeginningMeetsACircle` | `AnnotationsProofs` | a writer has a step to take or waits for one that has, but for one circle with the process that begins the history |
| `Invariant` | `AnnotationQueueProofs` | `Inv`, the inductive invariant of a tab's gestures |
| `GesturesGoInOrder` | `AnnotationQueueProofs` | `InTheOrderMade` |
| `SavingIsTold` | `AnnotationQueueProofs` | `SavingTellsTheTruth` |
| `QuietTabIsAlwaysRight` | `AnnotationQueueProofs` | `QuietTabIsRight` |
| `GesturesNeverWaitInACircle` | `AnnotationQueueProofs` | of the gestures not settled, the first can move, and each waits for earlier ones on its samples only |
| `Invariant` | `MorphingProofs` | `IInv`, the gate's inductive invariant |
| `PlacesAlwaysComeBack` | `MorphingProofs` | `PlacesComeBack` |
| `DebtIsBounded` | `MorphingProofs` | `DebtStaysWithinFlight` |
| `BudgetsAlwaysHold` | `MorphingProofs` | `BudgetsHold` |
| `RendererInvariant` | `MorphingProofs` | `RInv`, the renderer's inductive invariant |
| `NothingIsRenderedTwice` | `MorphingProofs` | `RendersOnce` |
| `TypeCorrect` | `MorphingProofs` | `TypeOK`, of the gate and the renderer |
| `RendererNeverStalls` | `MorphingProofs` | a thread of the renderer has a step to take, or waits for one that has |
| `Invariant` | `StagedBuildProofs` | `IInv`, the inductive invariant of a build |
| `CountsAreAlwaysTrue` | `StagedBuildProofs` | `CountsAreTrue` |
| `PublishedIsAlwaysWhole` | `StagedBuildProofs` | `PublishedIsWhole` |
| `Invariant` | `CatalogAnswersProofs` | `IInv`, the inductive invariant of kept answers |
| `AnswersAreAlwaysCurrent` | `CatalogAnswersProofs` | `AnswersAreCurrent` |
| `OneRequestBuilds` | `CatalogAnswersProofs` | one request at a time reads the rows of an answer |
| `RequestsNeverWaitInACircle` | `CatalogAnswersProofs` | a request underway has a step to take, or waits for one that has |
| `Invariant` | `ApplicationsProofs` | `IInv`, the inductive invariant of opened libraries |
| `OpenLibraryIsAlwaysServed` | `ApplicationsProofs` | `OpenLibraryIsServed` |
| `LibrariesAreOpenedOnce` | `ApplicationsProofs` | no two applications have one library open |
| `SessionsAreKept` | `ApplicationsProofs` | `Good`, the inductive invariant of sessions |
| `SettledLauncherAlwaysTellsTheTruth` | `ApplicationsProofs` | `SettledLauncherTellsTheTruth`, with activations that end untold among them |
| `BuildsAlwaysKeepTheirLibrary` | `ApplicationsProofs` | `BuildsKeepTheirLibrary` |
| `QuitAlwaysLeavesNothing` | `ApplicationsProofs` | `QuitLeavesNothing` |
| `StopsAlwaysHaveAStep` | `ApplicationsProofs` | an application that stops has a step of its own to take, but for the build it follows |
| `TypeCorrect` | `ApplicationsProofs` | `TypeOK` |

**Restarts of the server.** No theorem assumes a value of `RestartLimit`. `LocksAreTrue`,
`OneRunActsAtATime`, `OneProcessWorksOnAStep`, `EmptyingIsFinishedFirst`,
`LockedOrphansAreAlwaysSeen` and `SettledStepsStand` claim their formula of every state before
the first restart (`restarts = 0`), in any behaviour; `ThePromiseIsKept` claims its own of the
behaviours in which none happens, since a refinement speaks of a whole behaviour. What holds
after a restart does not let them say more: with `RestartLimit = 1` TLC finds each of the six
formulas, and the refinement, violated. A restart takes the library's lock from a run that
acts, and another may then claim it and act beside the first until that one reads its lock
back. `LostRunsTakeNothingMore` says what is left then, and is proved with any number of
restarts, as are `TypeCorrect`, `AccountsNameEveryStep`, `LocksEndWithTheirHolders`,
`RunsAlwaysHaveAStep` and `RunsOnlyGoOn`. Its formula is temporal within, so the proof names
the runs it speaks of, `MakesWay`: those between two steps without the lock, ended or dead.
No step takes a run out of that state, since only a run that has not yet begun claims the
lock.

With restarts, to act is no longer to hold the lock, but to hold a lock is still to be at
work. `HoldsOnlyItsOwn` says so of each run and its process, and says one thing more: a
run that probes a step holds that step's lock only while it holds the library's. Without
it a run that found its connection closed in the middle of a probe could leave the step's
lock behind; with it, the restart that closed the connection took both.

**The argument.** `OneRunActs` is not inductive: a state where one run acts while the
library's lock is free satisfies it, and another run may claim the lock next. `LockInv`
adds what the code keeps true all along: to act is to hold the library's lock
(`LibraryLockInv`), to work on a step is to hold its lock (`WorkerHoldsInv`), so is to
probe it (`ProbeHoldsInv`), whoever holds a step's lock does one of the two
(`HolderInv`), and only a run that waits, or died waiting, has a process (`ChildInv`).
The last one carries the orphans: without it a run about to start a step could still
have a process at work, and would lose track of the lock that process holds. `OneRunActs` and `OneProcessPerStep` follow since a lock
has one holder.

For `EmptyingComesFirst` the invariant is that no run past its emptying sees the intent
(`EmptyingInv`). It needs `OneRunActs`: the only step that sets the intent is one of a
run that acts, and if another run were past its emptying at that moment it would act
too. This is why an unlocked second run would break the emptying, and the lock proofs
come first.

**A run's account.** Of each run, what its account names, what it still has to take and the
step it is at are one list: its targets (`AccountOf`). What is left is always a tail of
the targets, so a step that is settled moves from the head of one list to the end of the
other. Nothing in it speaks of locks, which is why it holds whatever restarts.

**Orphans.** `LockedOrphansAreSeen` needs three facts together (`OrphanInv`): a process of
a dead run that had started holds its step's lock or is past it (`DeadHeldTheirLocks`), a
run that is still probing has yet to come to each orphan's step (`ProbesComeToIt`), and
none acts beside one. A run gets past its check only when it has probed every step, and a
probe of a held lock ends it.

**What stands.** A process takes away seals of its own step and of steps that descend from
it, and those come later in the declared order (`DescendantsComeLater`); what a run has
settled comes earlier (`StandsFor`). That takes `DeclaredInOrder`, the order in which a
graph's declarations arrive. Another run's process would need that run to act, which the
locks exclude, or to be an orphan, which the check has seen.

**The emptying's promise.** `LibraryEmptying` says that an emptying begun ends over an empty
library only, and that nothing is built between. The mapping is the identity on the
library and the intent. `Emptying` and `ResetIsDone` say where a run stands that empties,
and what its reset has done by then; `EmptyingTruth` joins them with the locks and the
orphans. Every action then maps to a begin, an end, a build or a stutter
(`StepsKeepThePromise`).

**The loops.** What steps need is defined as the least closed set around them, not by
recursion, so `AnswersAreRight` of `StepGraphLoops` takes no induction over the graph.
`LoopsInv` says of each loop what it has so far: no group of steps that meets the settled
ones waits on itself; what is needed so far the targets need, and at the end it is closed;
what is reached so far needs the step asked for, and at the end the rest is closed without
it (`DescendingIsRight`). `Loops` instantiates the module over variables of its own.

**Extraction.** Four parts are kept together. `Locks` says who holds the extraction lock:
those who cover and land modules share it, one who prunes holds it alone, unless the
database restarted under them. `Fits` says what is true of each pass: of its places
(`Shape`), of the module it lands (`Lands`), of the walk it prunes by (`Walks`), and of
its listing beside the catalog (`Mirrors`). `Alike` says that passes under way list the
same unless they are mixed, and `Whole` is the stores'. The delicate part is `Lands`: a
row a pass relies on is another's or its own, and stays since a prune waits for the lock,
or the pass is cut and cannot commit. `NoCircle` needs none of the stores: a transaction
holds rows below the one it waits for, because it takes its samples in hash order, so of
passes that wait for each other the one that waits for the greatest waits for none. The
greatest exists by the well-foundedness of the numbers, not by an induction over data.

**Annotations.** What a write decided on is read under the write lock, and the lock is held
until the commit. `Ready` says what this is worth: who acts has the lock, and its plan is
the plan it would make of the table now (`Planned`), a relink's rows being the table's
although its statements came one by one. So each commit acts on what the one before left,
and is one step of `AnnotationLedger`: `ChangePlans`, `RestorePlans` and `RelinkPlans` say
what the three plans write, and `CommitIsPromised` that the sample says no more and no less
than the ledger has it say. The history's times are those of beginnings and its order that
of commits, so `HistoryInv` needs `MomentsInv`: whatever is open began after every quiet
moment, and an entry it adds cannot be before one. The beginning of the history rests on
`HoldInv` (while the trigger is created the baseline is the table, and who has written
wrote no rows) and on `RanksInv`, where a library without ranks has no writer acting.
Ranks are after all given ones (`NextRankIs`), which needs a greatest of them; `RanksInv`
keeps a bound, and the tags are assumed to be finitely many so that an order of new ones
numbers them from zero. `NoneAssumption` says that no writer, no number and no history is
taken for the absent value.

**The queue.** `InTheOrderMade` is not inductive. `Tails` says that the tail of a sample is
the last unsettled gesture that reaches it, and `Waits` that a gesture that waits has, at
every sample where an earlier one is unsettled, one to wait for that is no earlier than it:
so when what it waits for has settled, nothing before it is left. What a tab shows is
`AnswersStand` (an answer on its way says what the database holds) and `Shown` (the tab
shows that, is about to be told, or lost the telling); both rest on the order, and on
`Foreseen`, that no two gestures met without the tab's knowing. Where they did
(`unforeseen`), nothing is claimed, as the property says.

**The gate.** `DebtStaysWithinFlight` is nearly inductive: a request that names a render
enters only where no budget is below zero, and adds one to those still to be paid for;
since at most as many wait as there are places, the bound holds, and this is where
`PlacesComeBack` is needed. An answer takes one token and one of those still to be paid
for at once. `BudgetsHold` is not inductive; `Ledger` is, which says of each budget that
what was heard, what is left and what was paid for and not yet heard never come to more
than capacity and refills. With `DebtStaysWithinFlight` it gives the bound. Both need the
cardinality of the requests that wait to move by one as a request enters or leaves, which
is where the requests are assumed to be finitely many.

**The renderer.** `RendersOnce` is a check made under the render lock, and holds until the
render is put: who renders holds that lock (`OneRenders`), so nobody puts another
meanwhile, and the threads that only look may move what is kept but not add to it
(`TouchedIs`: the renders are the same ones). That the cache fits is `Put`'s guard, and
touching keeps it since the weight is of the set of renders. What the cache drops is
left open to the least number that makes it fit, so nothing is computed over the sequence
but that nothing weighs nothing (`NothingWeighs`).

**Staged builds.** What a power loss leaves is any mixture of what the disk held and what
was in sight, so the invariant speaks of both. Of each directory: its rows, in sight and
on disk, are of the identity its arrays were made for (`OfOneBuild`), the disk holds no
row that is not in sight (`Agrees`), and a count in sight stands over rows the disk
already holds. Whichever count and rows are then kept, the count is true. Of the names:
no two show one directory (`Apart`), and what has the artifact's name is whole and the
same in sight and on disk (`PublishedIn`), since it was flushed before the rename.
`PhaseInv` ties each place of the build to what its partial holds there. `Flush` before
`Count` and `Sync` before the renames are where the proof uses the order of the code.

**Kept answers.** The revision is read before the rows. `past` tells at which version
each telling of a part was first seen; a body under a revision is no older than that
version (`IsOf`), and what a request was told is no older than the request. Both are kept
of answers under way, kept and held by browsers, so it does not matter whose answer is
given. A part whose writes tell the same twice is in `slipped`, and excluded.

**Opened libraries.** `OpenLibraryIsServed` is not inductive: nothing in it keeps another
application from stopping a database. `Owns` adds that what an application holds, and
what it held before until that is released, is locked for it; `Serves` that the database
it may stop is of one of those two. So a step that stops a database stops one of a
library locked for the application that takes it, and every other application's stands
(`OthersStandBy`, which each action's lemma ends in). Without the file lock's mutual
exclusion `Hold` would break it; a database that will not stop leaves `cluster` behind
the library held, which is why the second part is stated while `refusals = 0`.
`FilesTypeOK`, that config files name libraries, is proved beside it: a start opens
whatever its config file names, and options put back what they read.

**Sessions.** What an application was asked for since it started is its session, and
`Session` says of it: a process that is gone left nothing but builds (`Blank`); it
remembers the databases it started (`Remembers`) and follows the one build of its own that
runs (`Follows`); how far a stop has come (`Stops`); the config in memory is that of the
file, and the last activation that is pending is of it (`Intends`); with nothing pending,
the library of the config is open, or none is and the last choice's activation failed, told
as the problem or not (`Tells`); what is built is built in the config's library (`Intends`
again); a build asked for in quiet still finds it so (`Waiting`), and keeps it so while it runs
(`Keeps`). Each part needs others. `Keeps` stands because folders are refused while a
build is followed, because a stop waits for the build it follows, and because each build
of this start is followed, which is `Follows`. `Tells` needs `Intends`, since the
activation that ends is the last one exactly when nothing is pending after it. And the
last stop waits for the build, which is what leaves no build behind. No other application's
step touches a session (`ApplicationsMindThemselves`): it neither writes its variables nor
hands it a lock or a database. So each action's lemma speaks of one application only.

**Somebody can always take a step.** The runs check that runs, loops, gestures, requests and
stops end. That rests on fairness, which the prover does not treat, and on a fact of safety,
which it does: while one of them is not through, a step of its own or of one it waits for is
possible, and where steps are counted, they are boundedly many. Eight theorems prove that half
for every value of the constants. Each module of proofs writes the guards of the actions that
go on out as `HasAStep`, and on the instances of the runs TLC finds `HasAStep` and `ENABLED` of
those actions to be the same, but that an application's leaves out `CollectLock`, which is no
step anyone need wait for.

- `RunsAlwaysHaveAStep`: a run takes a step in hand only where one is left (`LeftInv`), and of
  what is left some step is the first in order (`LeastNumber`). One that waits has a process,
  which ended or is still there (`WaitsInv`), so that the kill of a third interrupt finds it.
  `RunsOnlyGoOn` adds that its steps are boundedly many: phases go in order (`PhaseAt`), within
  one the steps left become fewer, and with one step in hand the places go in order
  (`ErrandAt`). So a run ends unless it is left waiting for a process: with fairness,
  `RunsWaitOnlyForTheirStep` and `ThreeInterruptsEndTheWait`.
- `LoopsTakeBoundedlyManyRounds`: each round ends its loop or takes in a step not taken in
  before, so that `RoundsLeft`, what the loops to come and the present one can still take in,
  falls with each. With fairness that is `LoopsEnd`.
- `GesturesNeverWaitInACircle`: a gesture waits for earlier ones only (`Sound`), and only for
  those that reach a sample it reaches (`Meets`); so the first that is not settled waits for
  none, and refused or lost ones before it hold nothing up.
- `RequestsNeverWaitInACircle`: who holds the lock builds and has a statement to read
  (`LockInv`, `SomePartIsNext`, which takes it that both orders name every part:
  `OrdersAssumption`); who waits for a connection gets it or is given up by the pool; and where
  no thread is free somebody is on one, since a process has at least one (`SizesAssumption`).
  Without the pool's timeout the second would be false. Two requests never build at once
  (`OneRequestBuilds`).
- `StopsAlwaysHaveAStep`: a stop waits for the build, then for the activation, which waits for
  nothing that waits for the stop. A request that was cleared to start a build needs a build to
  become: `Room` says that there are at least as many unused as there are requests that will
  need one, a count that takes the threads to be finitely many (`ThreadsAssumption`).
- `OnlyTheBeginningMeetsACircle`: writers wait for the one that holds the write lock
  (`HolderInv`), and that one for nobody but a process that begins the history, between its
  hold of the table and its commit. Such a process takes the table and only then asks for the
  write lock (`create_curation_schema`), so it and a writer that holds the lock may wait for
  each other (`InACircle`): TLC reaches that state in seven, and `RollBack` of the writer, as
  Postgres's detection of deadlocks may choose, is the step out of it. Once the history has
  begun there is no circle.
- `RendererNeverStalls`: the render lock is held by the thread that renders and by none else
  (`HolderRenders`), and that one can always put down its render: the loop that lets renders go
  ends at the latest with an empty cache, which weighs nothing (`RoomIsMade`).

The pipeline's proofs go by lemmas about what steps have in common, not about each action alone:
`LockFrame` (a step that leaves locks, places and processes alone), `RunMoves` (a run
moves between places where it acts), `ProcessWorks`, `ProbeEnds`, `RunEnds`. Each
`...Next` lemma then has one step per action.

## What is only model-checked, and what is not modelled

Only model-checked:

- liveness (`LoopsEnd`, `EveryGestureSettles`, `EveryRequestEnds`, `RunsWaitOnlyForTheirStep`
  and `ThreeInterruptsEndTheWait`): liveness under fairness is beyond the proof system used.
  What each rests on besides fairness is proved, as told above;
- `StopsWaitOnlyForTheBuild` of `Applications`, whose `ENABLED` the prover does not treat.
  `StopsAlwaysHaveAStep` says the same with the guards written out.

Not modelled:

- signal processing, learning and layout of the cloud: sequential numerical work whose
  correctness is not one of states and steps;
- parsing of modules and audio, and the WAV format of the store;
- reading routes, serving policy and memory limits: functions of one request or one
  call, with no state that interleaves;
- drawing of progress, texts of reports, and logging;
- publication's upload, provisioning of the cluster, developers' tools: I/O or
  administration asked for again until it is done;
- of the application: the takeover by a second start of one config, a second stop beside the
  first (two quits asked for at once), the renderer's process, the listening port, and
  databases of a person's own;
- of a pipeline: a pass that need not run (`GuardedPassStep`, `steps/kinds.py:103`): every pass runs;
  and runs on Windows, where no interrupt is passed on to a step (`execution.py:138`);
- of the catalog server: the budget of plain requests, and the filters of the renderer,
  whose cache goes by the steps of the cache of renders;
- the digests by which `decisions.py` compares inputs: outputs are sealed or not;
- what the plan below names.

## The plan

The order so far: the pipeline's runs and locks first, since they guard everything the
library is built from; then staged builds, which every cache rests on; then what a
person's work rests on, annotations and the queue; then extraction; then what serves a
library, the application, the gate of morphs and the answers kept over the catalog. What is
left, most important first:

1. **The takeover by a second start** (`app/instance/`): two starts of one config, one of
   which asks the other to quit, waits for its port and may end it. Property: one of them
   serves, and a quit asked for by a takeover closes the library before the port is free.
2. **Readers of a published artifact** (`training/descriptor/cache.py:124`), composed with
   `StagedBuild`: a worker maps a cache that was published again since its trainer looked.
3. **Sample files as a second kind of holder** in `Extraction`, and the shares of one
   pass as workers that may die one by one.
4. **Artifacts and sidecars in `PipelineRuns`**: the order in which a redo and a rewrite
   of an artifact leave its sidecar, with digests as model values.
5. **Promotion of a cloud experiment** while readers read.
6. **Windowed samples and the audio preview** in the browser: late answers of an earlier
   window or sample.

The proofs still worth having come with those modules; of the modules there are, every
invariant and action property the runs check is proved but the ones named above.
