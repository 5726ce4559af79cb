----------------------------- MODULE Extraction -----------------------------
(***************************************************************************)
(* Extraction passes over a collection of module files, their prunes, and  *)
(* the record a pruned pass leaves (sampleextract/cli.py, run.py,          *)
(* ingest.py, prune.py, samplecore/storage/prune.py, audio_store.py).      *)
(*                                                                         *)
(* Several passes may share one catalog. Each holds the extraction lock in *)
(* shared mode while it adds, lands a module in one transaction, and puts  *)
(* the audio of its samples in the content store while that transaction is *)
(* still open. A prune holds the lock alone; it removes rows in one        *)
(* transaction, and after it the objects the catalog no longer names. The  *)
(* collection may change at any time, a pass may be killed at any time,    *)
(* and the database may restart, which ends every connection, rolls back   *)
(* every transaction and frees every lock.                                 *)
(*                                                                         *)
(* A pass is one worker. Every file parses, and no two hold one module.    *)
(* Audio files cataloged in place hold samples too; they are not here.     *)
(***************************************************************************)
EXTENDS Naturals, FiniteSets, SequencesExt

CONSTANTS
  Modules,       \* module hashes
  LastSample,    \* sample hashes are 1..LastSample, in hash order
  Slots,         \* the samples each module's slots hold, in slot order
  Processes,     \* what passes run in
  None,
  MaxPasses,     \* how many passes begin,
  MaxChanges,    \* how often the collection changes,
  MaxRestarts    \* and how often the database restarts

Samples == 1..LastSample

ASSUME SlotsAssumption ==
  /\ LastSample \in Nat
  /\ DOMAIN Slots = Modules
  /\ \A m \in Modules : ToSet(Slots[m]) \subseteq Samples
ASSUME NoneAssumption == None \notin Processes \cup Modules

VARIABLES
  files,         \* the modules the collection holds
  modules,       \* the modules cataloged
  samples,       \* the samples cataloged
  objects,       \* the samples whose audio is in the content store
  record,        \* the collection the last complete pass mirrored, or None
  sharing,       \* who holds the extraction lock in shared mode
  alone,         \* who holds it alone, or None
  pass,          \* what each pass knows
  mixed,         \* whether two passes over different listings ever overlapped
  walkCut,       \* whether the database ever restarted under a prune's walk
  passes, changes, restarts

stores == <<modules, samples, objects>>
locks == <<sharing, alone>>
history == <<mixed, walkCut>>
bounds == <<passes, changes, restarts>>
vars == <<files, stores, record, locks, pass, history, bounds>>

Idle == [pc |-> "idle", prune |-> FALSE, listed |-> {}, todo |-> {}, failed |-> FALSE,
         now |-> None, left |-> {}, pending |-> {}, gone |-> {}, names |-> {}, unseen |-> {},
         cut |-> FALSE]

Places == {"idle", "listed", "forgetting", "waiting", "covering", "inserting", "storing",
           "placing", "covered", "claiming", "removing", "naming", "unlinking", "relisting", "recording"}

(* What a pass knows: the collection it listed and what is left of it, the *)
(* module it lands, the samples of that module still to store and those    *)
(* its transaction inserted, what a prune removes, the names it read, and  *)
(* the objects its walk has yet to meet.                                   *)
Pass == [pc : Places, prune : BOOLEAN, listed : SUBSET Modules, todo : SUBSET Modules,
         failed : BOOLEAN, now : Modules \cup {None}, left : SUBSET Samples,
         pending : SUBSET Samples, gone : SUBSET Modules, names : SUBSET Samples,
         unseen : SUBSET Samples, cut : BOOLEAN]

TypeOK ==
  /\ files \subseteq Modules
  /\ modules \subseteq Modules
  /\ samples \subseteq Samples
  /\ objects \subseteq Samples
  /\ record # None => record \subseteq Modules
  /\ sharing \subseteq Processes
  /\ alone \in Processes \cup {None}
  /\ pass \in [Processes -> Pass]
  /\ mixed \in BOOLEAN
  /\ walkCut \in BOOLEAN
  /\ passes \in Nat
  /\ changes \in Nat
  /\ restarts \in Nat

Init ==
  /\ files \in SUBSET Modules
  /\ modules = {}
  /\ samples = {}
  /\ objects = {}
  /\ record = None
  /\ sharing = {}
  /\ alone = None
  /\ pass = [p \in Processes |-> Idle]
  /\ mixed = FALSE
  /\ walkCut = FALSE
  /\ passes = 0
  /\ changes = 0
  /\ restarts = 0

-----------------------------------------------------------------------------
At(p, place) == pass[p].pc = place
UnderWay(p) == ~ At(p, "idle")

(* A pass whose connection the database ended fails at its next statement. *)
Asking(p, place) == At(p, place) /\ ~ pass[p].cut

Becomes(p, what) == pass' = [pass EXCEPT ![p] = what]
Goto(p, place) == Becomes(p, [pass[p] EXCEPT !.pc = place])
Leave(p) == Becomes(p, Idle)

(* main: the collection is listed, and its digest taken of the listing.    *)
List(p) ==
  /\ At(p, "idle")
  /\ passes < MaxPasses
  /\ passes' = passes + 1
  /\ mixed' = (mixed \/ \E q \in Processes : UnderWay(q) /\ pass[q].listed # files)
  /\ \E prune \in BOOLEAN :
       Becomes(p, [Idle EXCEPT !.pc = "listed", !.prune = prune, !.listed = files,
                               !.todo = files])
  /\ UNCHANGED <<files, stores, record, locks, walkCut, changes, restarts>>

(* _goes_ahead: a collection as the last complete pass left it ends the    *)
(* pass here, unless it is told to go ahead...                             *)
Look(p) ==
  /\ At(p, "listed")
  /\ \/ record = pass[p].listed /\ Leave(p)
     \/ Goto(p, "forgetting")
  /\ UNCHANGED <<files, stores, record, locks, history, bounds>>

(* ...and any that goes ahead drops the record first.                      *)
Remembered == record
Forgotten == None

Forget(p) ==
  /\ Asking(p, "forgetting")
  /\ record' = Forgotten
  /\ Goto(p, "waiting")
  /\ UNCHANGED <<files, stores, locks, history, bounds>>

(* share_extraction_lock: beside other passes, never beside a prune.       *)
NoPrune == alone = None

Share(p) ==
  /\ Asking(p, "waiting")
  /\ NoPrune
  /\ sharing' = sharing \cup {p}
  /\ Goto(p, "covering")
  /\ UNCHANGED <<files, stores, record, alone, history, bounds>>

-----------------------------------------------------------------------------
(* run_extraction: each file listed is read once. One that is gone by then *)
(* fails, one the catalog knows is skipped, any other begins to land.      *)
ReadFile(p, m) ==
  /\ Asking(p, "covering")
  /\ m \in pass[p].todo
  /\ LET rest == [pass[p] EXCEPT !.todo = @ \ {m}]
     IN Becomes(p, CASE m \notin files                  -> [rest EXCEPT !.failed = TRUE]
                     [] m \in files /\ m \in modules    -> rest
                     [] m \in files /\ m \notin modules -> [rest EXCEPT !.pc = "inserting",
                                                                        !.now = m])
  /\ UNCHANGED <<files, stores, record, locks, history, bounds>>

(* _store_content: each distinct sample once, in hash order.               *)
SamplesOf(m) == ToSet(Slots[m])
FirstInSlotOrder(p) ==
  LET taken == [i \in DOMAIN Slots[pass[p].now] |-> Slots[pass[p].now][i] \notin pass[p].left]
  IN Slots[pass[p].now][CHOOSE i \in DOMAIN taken : ~ taken[i] /\ \A j \in 1..(i - 1) : taken[j]]
First(p) == Min(pass[p].left)

(* What a pass waits for: a row another transaction inserted and has not   *)
(* committed, under the same key.                                          *)
InTransaction(q) == ~ pass[q].cut /\ pass[q].pc \in {"storing", "placing"}
InsertsModule(q, m) == InTransaction(q) /\ pass[q].now = m
InsertsSample(q, s) == InTransaction(q) /\ s \in pass[q].pending

WaitsFor(p, q) ==
  /\ p # q
  /\ \/ Asking(p, "waiting") /\ alone = q
     \/ Asking(p, "inserting") /\ InsertsModule(q, pass[p].now)
     \/ Asking(p, "storing") /\ pass[p].left # {} /\ InsertsSample(q, First(p))

Waits(p) == \E q \in Processes : WaitsFor(p, q)

(* ingest_module's transaction: the module's row first. A module another   *)
(* pass landed meanwhile is ingested elsewhere, and this transaction rolls *)
(* back.                                                                   *)
InsertModule(p) ==
  /\ Asking(p, "inserting")
  /\ ~ Waits(p)
  /\ IF pass[p].now \in modules
     THEN Becomes(p, [pass[p] EXCEPT !.pc = "covering", !.now = None])
     ELSE Becomes(p, [pass[p] EXCEPT !.pc = "storing", !.left = SamplesOf(pass[p].now)])
  /\ UNCHANGED <<files, stores, record, locks, history, bounds>>

(* Then each sample: its row, unless it has one...                         *)
UpsertSample(p) ==
  /\ Asking(p, "storing")
  /\ pass[p].left # {}
  /\ ~ Waits(p)
  /\ Becomes(p, [pass[p] EXCEPT !.pc = "placing", !.pending = @ \cup ({First(p)} \ samples)])
  /\ UNCHANGED <<files, stores, record, locks, history, bounds>>

(* ...and its object, unless the store holds one.                          *)
WriteObject(p) ==
  /\ At(p, "placing")
  /\ objects' = objects \cup {First(p)}
  /\ Becomes(p, [pass[p] EXCEPT !.pc = "storing", !.left = @ \ {First(p)}])
  /\ UNCHANGED <<files, modules, samples, record, locks, history, bounds>>

Commit(p) ==
  /\ Asking(p, "storing")
  /\ pass[p].left = {}
  /\ modules' = modules \cup {pass[p].now}
  /\ samples' = samples \cup pass[p].pending
  /\ Becomes(p, [pass[p] EXCEPT !.pc = "covering", !.now = None, !.pending = {}])
  /\ UNCHANGED <<files, objects, record, locks, history, bounds>>

(* The listing covered, the connection closes and its lock with it; a      *)
(* prune opens another.                                                    *)
Covered(p) ==
  /\ At(p, "covering")
  /\ pass[p].todo = {}
  /\ sharing' = sharing \ {p}
  /\ IF pass[p].prune
     THEN Becomes(p, [pass[p] EXCEPT !.pc = "covered", !.cut = FALSE])
     ELSE Leave(p)
  /\ UNCHANGED <<files, stores, record, alone, history, bounds>>

-----------------------------------------------------------------------------
(* gone_modules: refused after a file that could not be read, and when the *)
(* collection is empty while the catalog is not.                           *)
Refused(p) == pass[p].failed \/ (pass[p].listed = {} /\ modules # {})

FindGone(p) ==
  /\ At(p, "covered")
  /\ IF Refused(p)
     THEN Leave(p)
     ELSE Becomes(p, [pass[p] EXCEPT !.pc = "claiming", !.gone = modules \ pass[p].listed])
  /\ UNCHANGED <<files, stores, record, locks, history, bounds>>

(* claim_extraction_lock: alone or not at all.                             *)
NoPruneBeside == alone = None
NothingRuns == alone = None /\ sharing = {}

ClaimWhenAnyIsGone(p) ==
  /\ Asking(p, "claiming")
  /\ IF NothingRuns /\ pass[p].gone # {}
     THEN alone' = p /\ Goto(p, "removing")
     ELSE /\ UNCHANGED alone
          /\ IF pass[p].gone = {} THEN Goto(p, "relisting") ELSE Leave(p)
  /\ UNCHANGED <<files, stores, record, sharing, history, bounds>>

Claim(p) ==
  /\ Asking(p, "claiming")
  /\ IF NothingRuns
     THEN alone' = p /\ Goto(p, "removing")
     ELSE Leave(p) /\ UNCHANGED alone
  /\ UNCHANGED <<files, stores, record, sharing, history, bounds>>

(* prune_modules: the gone modules' rows, and the samples no module holds  *)
(* any more, in one transaction.                                           *)
HeldBy(ms) == UNION {SamplesOf(m) : m \in ms}
SamplesOfGone(gone) == HeldBy(gone)
Orphans(gone) == samples \ HeldBy(modules \ gone)

RemoveGone(p) ==
  /\ Asking(p, "removing")
  /\ modules' = modules \ pass[p].gone
  /\ samples' = samples \ Orphans(pass[p].gone)
  /\ Goto(p, "naming")
  /\ UNCHANGED <<files, objects, record, locks, history, bounds>>

(* The names the catalog still holds are read once...                      *)
ReadNames(p) ==
  /\ Asking(p, "naming")
  /\ Becomes(p, [pass[p] EXCEPT !.pc = "unlinking", !.names = samples, !.unseen = Samples])
  /\ UNCHANGED <<files, stores, record, locks, history, bounds>>

(* ...and the walk of the store unlinks each object they do not hold.      *)
Visit(p, s) ==
  /\ At(p, "unlinking")
  /\ s \in pass[p].unseen
  /\ objects' = objects \ ({s} \ pass[p].names)
  /\ Becomes(p, [pass[p] EXCEPT !.unseen = @ \ {s}])
  /\ UNCHANGED <<files, modules, samples, record, locks, history, bounds>>

(* The walk makes no statement, so a lost connection does not stop it. The *)
(* walk over, the connection closes.                                       *)
Pruned(p) ==
  /\ At(p, "unlinking")
  /\ pass[p].unseen = {}
  /\ alone' = IF alone = p THEN None ELSE alone
  /\ Becomes(p, [pass[p] EXCEPT !.pc = "relisting", !.cut = FALSE])
  /\ UNCHANGED <<files, stores, record, sharing, history, bounds>>

(* _record_the_complete_pass: a second listing must find the collection as *)
(* the first did.                                                          *)
Relist(p) ==
  /\ At(p, "relisting")
  /\ IF files = pass[p].listed THEN Goto(p, "recording") ELSE Leave(p)
  /\ UNCHANGED <<files, stores, record, locks, history, bounds>>

Record(p) ==
  /\ At(p, "recording")
  /\ record' = pass[p].listed
  /\ Leave(p)
  /\ UNCHANGED <<files, stores, locks, history, bounds>>

-----------------------------------------------------------------------------
(* A pass killed: its transaction rolls back and its locks are released.   *)
Kill(p) ==
  /\ UnderWay(p)
  /\ sharing' = sharing \ {p}
  /\ alone' = IF alone = p THEN None ELSE alone
  /\ Leave(p)
  /\ UNCHANGED <<files, stores, record, history, bounds>>

(* The database restarts: locks and transactions end with connections...   *)
Connected == {"forgetting", "waiting", "covering", "inserting", "storing", "placing",
              "claiming", "removing", "naming", "unlinking"}

Restart ==
  /\ restarts < MaxRestarts
  /\ restarts' = restarts + 1
  /\ sharing' = {}
  /\ alone' = None
  /\ pass' = [p \in Processes |-> IF pass[p].pc \in Connected
                                  THEN [pass[p] EXCEPT !.cut = TRUE] ELSE pass[p]]
  /\ walkCut' = (walkCut \/ \E p \in Processes : At(p, "unlinking"))
  /\ UNCHANGED <<files, stores, record, mixed, passes, changes>>

(* ...and a pass that still had a statement to make ends there.            *)
Fail(p) ==
  /\ pass[p].cut
  /\ pass[p].pc \notin {"placing", "unlinking"}
  /\ At(p, "covering") => pass[p].todo # {}
  /\ Leave(p)
  /\ UNCHANGED <<files, stores, record, locks, history, bounds>>

(* A file arrives in the collection or leaves it.                          *)
Change(m) ==
  /\ changes < MaxChanges
  /\ changes' = changes + 1
  /\ files' = IF m \in files THEN files \ {m} ELSE files \cup {m}
  /\ UNCHANGED <<stores, record, locks, pass, history, passes, restarts>>

Next ==
  \/ \E p \in Processes :
       \/ List(p) \/ Look(p) \/ Forget(p) \/ Share(p)
       \/ \E m \in Modules : ReadFile(p, m)
       \/ InsertModule(p) \/ UpsertSample(p) \/ WriteObject(p) \/ Commit(p) \/ Covered(p)
       \/ FindGone(p) \/ Claim(p) \/ RemoveGone(p) \/ ReadNames(p)
       \/ \E s \in Samples : Visit(p, s)
       \/ Pruned(p) \/ Relist(p) \/ Record(p)
       \/ Kill(p) \/ Fail(p)
  \/ \E m \in Modules : Change(m)
  \/ Restart

Spec == Init /\ [][Next]_vars

-----------------------------------------------------------------------------
(* Every cataloged sample has its audio in the content store: a prune      *)
(* never unlinks what a pass beside it relied on or put there, however     *)
(* their steps interleave, whoever is killed, and whenever the database    *)
(* restarts outside a prune's walk.                                        *)
ObjectsStand == samples \subseteq objects
ObjectsStandUnlessCut == ~ walkCut => ObjectsStand

(* The catalog holds exactly the samples its modules hold: a module lands  *)
(* whole or not at all, a prune takes no sample another module holds, and  *)
(* leaves none that no module does.                                        *)
SamplesAreHeld == samples = HeldBy(modules)

(* Passes never wait in a circle: among any passes, some one waits for     *)
(* none of them, so the transactions proceed without a retry.              *)
NoCircle ==
  \A ring \in (SUBSET Processes) \ {{}} : \E p \in ring : \A q \in ring : ~ WaitsFor(p, q)

(* A prune that ran to its end leaves no object the catalog does not name: *)
(* what a prune killed between its transaction and its walk left, and what *)
(* an ingest killed before its commit left, the next prune makes good.     *)
(* (After a restart a pass whose transaction is gone may still be putting  *)
(* one object in place.)                                                   *)
PruneLeavesNothing ==
  [][restarts = 0 =>
       \A p \in Processes :
         At(p, "relisting")' /\ ~ At(p, "relisting") => objects' \subseteq samples']_vars

(* While a record stands, the catalog holds exactly the modules of the     *)
(* recorded collection, unless passes over different listings ran beside   *)
(* each other.                                                             *)
RecordIsTrue == ~ mixed /\ record # None => modules = record

(* A pass that finds the collection as the record has it ends at once, for *)
(* the catalog already mirrors it.                                         *)
EndingAtOnceIsRight ==
  record = files /\ (\A p \in Processes : ~ UnderWay(p)) => modules = files
=============================================================================
