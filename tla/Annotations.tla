---------------------------- MODULE Annotations ----------------------------
(***************************************************************************)
(* The annotation table, its history and the tag ranks, as every process   *)
(* that writes them does: the server's gestures, a file's import, a relink *)
(* and a restore (samplecore/storage/annotation_writes.py, curation.py,    *)
(* sampleextract/annotations/, sampleserver/routers/curation.py).          *)
(*                                                                         *)
(* A writer begins its transaction, whose moment Postgres takes then,      *)
(* claims the annotation write lock, reads, writes and commits; each       *)
(* statement sees what others had committed by then. What a gesture        *)
(* reaches and where its samples are found is read on another connection   *)
(* before all of this, while extraction goes on changing the catalog. A    *)
(* library from before the history gets it from the first process that     *)
(* prepares the schema, while processes from before it still write.        *)
(***************************************************************************)
EXTENDS AnnotationRows, FiniteSets, Sequences, Functions, FiniteSetsExt

CONSTANTS
  Writers,
  Libraries,      \* the annotations that may stand at first
  Catalogs,       \* what the slots may hold
  MaxJobs,        \* how many writes begin
  MaxPreparations, \* how many preparations begin
  MaxRecatalogs   \* how often extraction changes what the slots hold

VARIABLES
  table,          \* curation.sample_annotation
  ranks,          \* curation.tag_rank
  history,        \* curation.annotation_history, one element a transaction
  began,          \* annotation_history_start, None before the history
  occupant,       \* the sample each slot holds, None for an empty slot
  clock,
  stood,          \* what stood at each moment of the clock, and whether it
                  \* was quiet: kept for the properties, no code reads it
  lock,           \* who holds the annotation write lock
  preparing,      \* the process beginning the history
  pc, job,        \* where each writer is, and what it came to do
  begun,          \* the moment of its transaction
  plan,           \* the rows it decided on
  jobs, preparations, recatalogs

vars == <<table, ranks, history, began, occupant, clock, stood, lock,
          preparing, pc, job, begun, plan, jobs, preparations, recatalogs>>

Rows == [Samples -> Annotations \cup {None}]
Tags == UNION {TagsOf[l] : l \in Labels}
NoRows == [s \in Samples |-> None]
NoAnchors == [s \in Samples |-> None]
NoPlan == <<>>
NoJob == [kind |-> "none"]
NotPreparing == [at |-> 0, holding |-> FALSE, baseline |-> NoRows]

Says(row) == IF row = None THEN NoDecisions ELSE row.decisions

ASSUME LibrariesAssumption == Libraries \subseteq Rows
ASSUME CatalogsAssumption == Catalogs \subseteq [Slots -> Samples \cup {None}]
ASSUME TagsAssumption == IsFiniteSet(Tags)
ASSUME NoneAssumption ==
  None \notin Writers /\ None \notin Nat /\ None \notin [Samples -> SUBSET Decisions]

LabelsIn(rows) == {rows[s].decisions.label : s \in {t \in DOMAIN rows : rows[t] # None}} \ {None}

Cataloged == {occupant[slot] : slot \in Slots} \ {None}

-----------------------------------------------------------------------------
(* register_tag_ranks: each tag used for the first time is given the rank  *)
(* after the last one given.                                               *)
Ranked == {t \in Tags : ranks[t] # None}
NextRank == IF Ranked = {} THEN 0 ELSE Max({ranks[t] : t \in Ranked}) + 1

RegisterAnew(labels) ==
  LET used == UNION {TagsOf[l] : l \in labels}
  IN \E order \in Bijection(used, 0..(Cardinality(used) - 1)) :
       ranks' = [t \in Tags |-> IF t \in used THEN NextRank + order[t] ELSE ranks[t]]
Register(labels) ==
  LET new == (UNION {TagsOf[l] : l \in labels}) \ Ranked
  IN \E order \in Bijection(new, 0..(Cardinality(new) - 1)) :
       ranks' = [t \in Tags |-> IF t \in new THEN NextRank + order[t] ELSE ranks[t]]

RanksCover == \A l \in LabelsIn(table) : TagsOf[l] \subseteq Ranked

(* The history's newest entry of each sample up to a moment.               *)
EntriesOf(s, moment) ==
  {i \in 1..Len(history) : history[i].at <= moment /\ s \in DOMAIN history[i].rows}
AsOfTheLatest(moment) ==
  LET latest(s) == Max({history[i].at : i \in EntriesOf(s, moment)})
  IN [s \in Samples |->
        IF EntriesOf(s, moment) = {} THEN None
        ELSE history[Max({i \in EntriesOf(s, moment) : history[i].at = latest(s)})].rows[s]]
AsOf(moment) ==
  [s \in Samples |-> IF EntriesOf(s, moment) = {} THEN None
                     ELSE history[Max(EntriesOf(s, moment))].rows[s]]

-----------------------------------------------------------------------------
(* plan_annotation_write: a sample the change leaves as it was is not      *)
(* written, one left saying nothing is removed, and one that nothing       *)
(* anchors is skipped.                                                     *)
AnchorFor(rows, j, s) ==
  IF j.anchors[s] # None THEN j.anchors[s]
  ELSE IF rows[s] # None THEN rows[s].anchor ELSE None

PlanOfChange(rows, j) ==
  LET merged == [s \in j.reach |-> Changed(Says(rows[s]), j.gesture)]
      differing == {s \in j.reach : merged[s] # Says(rows[s])}
      removals == {s \in differing : merged[s] = NoDecisions}
      upserts == {s \in differing \ removals : AnchorFor(rows, j, s) # None}
  IN [s \in removals \cup upserts |->
        IF s \in removals THEN None
        ELSE [decisions |-> merged[s], anchor |-> AnchorFor(rows, j, s)]]

PlanOfRestore(rows, moment) ==
  LET target == AsOf(moment)
  IN [s \in {t \in Samples : rows[t] # target[t]} |-> target[s]]

PlanOfFirstFound(rows, found) ==
  LET recovered == {s \in DOMAIN found : found[s] # None /\ rows[found[s]] = None}
  IN [x \in recovered \cup {found[s] : s \in recovered} |->
        IF x \in recovered THEN None
        ELSE rows[CHOOSE s \in recovered : found[s] = x]]

(* relink_annotations: a lost annotation follows its slot to the sample    *)
(* there now, unless that one speaks for itself or two are after it.       *)
PlanOfRelink(rows, found) ==
  LET recovered == {s \in DOMAIN found :
                      /\ found[s] # None
                      /\ rows[found[s]] = None
                      /\ \A t \in DOMAIN found : found[t] = found[s] => t = s}
  IN [x \in recovered \cup {found[s] : s \in recovered} |->
        IF x \in recovered THEN None
        ELSE rows[CHOOSE s \in recovered : found[s] = x]]

-----------------------------------------------------------------------------
Open(place) == place \notin {"idle", "reached", "asked"}
UnderWay(places) == \E w \in Writers : Open(places[w])

(* Beginnings and commits happen one after another, at moments of their    *)
(* own; a moment is quiet when no transaction is open after it.            *)
Tick ==
  /\ clock' = clock + 1
  /\ stood' = Append(stood, [rows |-> table',
                             quiet |-> ~ UnderWay(pc') /\ preparing' = NotPreparing])

Goto(w, place) == pc' = [pc EXCEPT ![w] = place]

Ended(w) ==
  /\ Goto(w, "idle")
  /\ job' = [job EXCEPT ![w] = NoJob]
  /\ plan' = [plan EXCEPT ![w] = NoPlan]
  /\ begun' = [begun EXCEPT ![w] = 0]
  /\ lock' = IF lock = w THEN None ELSE lock

Stored == <<table, ranks, history, began>>
Time == <<clock, stood>>
Catalog == <<occupant, recatalogs>>
Others == <<occupant, recatalogs, preparations>>

-----------------------------------------------------------------------------
(* A process of this version prepares the schema before it writes; one     *)
(* from before the history, whose library has its ranks, may be writing.   *)
MayWrite == began # None \/ RanksCover

Take(w, j, place) ==
  /\ pc[w] = "idle"
  /\ MayWrite
  /\ jobs < MaxJobs
  /\ jobs' = jobs + 1
  /\ job' = [job EXCEPT ![w] = j]
  /\ Goto(w, place)
  /\ UNCHANGED <<Stored, Time, Others, lock, preparing, begun, plan>>

(* _reached_hashes: the sample, or the group the detector last found for   *)
(* it, which may be any group of cataloged samples; a sample the catalog   *)
(* lost is reached alone, while it is annotated.                           *)
AskChange(w) ==
  \E s \in Samples, g \in Gestures, S \in SUBSET Samples :
    /\ s \in S
    /\ IF s \in Cataloged THEN S \subseteq Cataloged
       ELSE S = {s} /\ table[s] # None
    /\ Take(w, [kind |-> "change", gesture |-> g, reach |-> S, anchors |-> NoAnchors],
            "reached")

(* anchors_by_hash: the lowest slot each reached sample is found in now.   *)
FindAnchors(w) ==
  /\ pc[w] = "reached"
  /\ job' = [job EXCEPT ![w].anchors =
               [s \in Samples |->
                  IF s \in job[w].reach \cap Cataloged
                  THEN Min({slot \in Slots : occupant[slot] = s}) ELSE None]]
  /\ Goto(w, "asked")
  /\ UNCHANGED <<Stored, Time, Others, lock, preparing, begun, plan, jobs>>

AskImport(w) ==
  \E file \in Files : Take(w, [kind |-> "import", file |-> file], "asked")

AskRelink(w) == Take(w, [kind |-> "relink"], "asked")

AskRestore(w) ==
  \E moment \in 1..clock : Take(w, [kind |-> "restore", moment |-> moment], "asked")

Begin(w) ==
  /\ pc[w] = "asked"
  /\ Goto(w, "begun")
  /\ begun' = [begun EXCEPT ![w] = clock + 1]
  /\ UNCHANGED <<Stored, Others, lock, preparing, job, plan, jobs>>
  /\ Tick

(* claim_annotation_writes: held until the transaction ends.               *)
LockFree == lock = None

Claim(w) ==
  /\ pc[w] = "begun"
  /\ LockFree
  /\ lock' = w
  /\ Goto(w, "claimed")
  /\ UNCHANGED <<Stored, Time, Others, preparing, job, begun, plan, jobs>>

Decide(w, p) ==
  /\ plan' = [plan EXCEPT ![w] = p]
  /\ Goto(w, "decided")
  /\ UNCHANGED <<Stored, Time, Others, lock, preparing, job, begun, jobs>>

Restorable(moment) == IF began = None THEN FALSE ELSE began <= moment

(* What the samples hold is read after the lock is taken.                  *)
Read(w) ==
  /\ pc[w] = "claimed"
  /\ \/ job[w].kind = "change" /\ Decide(w, PlanOfChange(table, job[w]))
     \/ job[w].kind = "import" /\ Decide(w, job[w].file)
     \/ /\ job[w].kind = "restore"
        /\ Restorable(job[w].moment)
        /\ Decide(w, PlanOfRestore(table, job[w].moment))
     \/ /\ job[w].kind = "restore"      \* RestoreRefused
        /\ ~ Restorable(job[w].moment)
        /\ Ended(w)
        /\ UNCHANGED <<Stored, Time, Others, preparing, jobs>>

(* A relink reads every annotation, which of their samples the catalog     *)
(* lost, and then what each lost one's slot holds, a statement each.       *)
ReadAll(w) ==
  /\ pc[w] = "claimed"
  /\ job[w].kind = "relink"
  /\ job' = [job EXCEPT ![w] = [kind |-> "relink", rows |-> table]]
  /\ Goto(w, "listed")
  /\ UNCHANGED <<Stored, Time, Others, lock, preparing, begun, plan, jobs>>

ReadLost(w) ==
  /\ pc[w] = "listed"
  /\ LET lost == {s \in Samples : job[w].rows[s] # None} \ Cataloged
     IN job' = [job EXCEPT ![w] = [kind |-> "relink", rows |-> job[w].rows,
                                   lost |-> lost, found |-> NoPlan]]
  /\ Goto(w, "following")
  /\ UNCHANGED <<Stored, Time, Others, lock, preparing, begun, plan, jobs>>

Follow(w) ==
  /\ pc[w] = "following"
  /\ \E s \in job[w].lost \ DOMAIN job[w].found :
       job' = [job EXCEPT ![w].found =
                 [t \in DOMAIN @ \cup {s} |-> IF t = s THEN occupant[job[w].rows[s].anchor]
                                              ELSE @[t]]]
  /\ UNCHANGED <<Stored, Time, Others, lock, preparing, pc, begun, plan, jobs>>

Relink(w) ==
  /\ pc[w] = "following"
  /\ DOMAIN job[w].found = job[w].lost
  /\ Decide(w, PlanOfRelink(job[w].rows, job[w].found))

(* The rows are written, visible to nobody else yet. A trigger being       *)
(* created keeps the table from writers until its transaction ends.        *)
Write(w) ==
  /\ pc[w] = "decided"
  /\ preparing.holding => plan[w] = NoPlan
  /\ Goto(w, "written")
  /\ UNCHANGED <<Stored, Time, Others, lock, preparing, job, begun, plan, jobs>>

(* record_annotation_change: an entry for every row that changed, the one  *)
(* removed included.                                                       *)
Recorded(rows) == [s \in {t \in DOMAIN rows : rows[t] # table[t]} |-> rows[s]]

Record(w) ==
  history' = IF began = None \/ DOMAIN Recorded(plan[w]) = {} THEN history
             ELSE Append(history, [at |-> begun[w], rows |-> Recorded(plan[w])])

Registers(w) == IF job[w].kind = "relink" THEN {} ELSE LabelsIn(plan[w])

Commit(w) ==
  /\ pc[w] = "written"
  /\ table' = [s \in Samples |-> IF s \in DOMAIN plan[w] THEN plan[w][s] ELSE table[s]]
  /\ Record(w)
  /\ Register(Registers(w))
  /\ Ended(w)
  /\ UNCHANGED <<began, Others, preparing, jobs>>
  /\ Tick

(* The process dies, its connection is lost, or Postgres ends it to break  *)
(* a circle of waiting: nothing of its transaction stays.                  *)
RollBack(w) ==
  /\ Open(pc[w])
  /\ Ended(w)
  /\ UNCHANGED <<Stored, Time, Others, preparing, jobs>>

-----------------------------------------------------------------------------
(* create_curation_schema, where the history is missing: its transaction   *)
(* begins...                                                               *)
BeginPreparing ==
  /\ began = None
  /\ preparing = NotPreparing
  /\ preparations < MaxPreparations
  /\ preparations' = preparations + 1
  /\ preparing' = [NotPreparing EXCEPT !.at = clock + 1]
  /\ UNCHANGED <<Stored, Catalog, lock, pc, job, begun, plan, jobs>>
  /\ Tick

(* ...creating the trigger waits for the writes in flight, and the         *)
(* baseline takes what stands after them...                                *)
WithoutWaiting == TRUE
NoneInFlight == \A w \in Writers : pc[w] = "written" => plan[w] = NoPlan

HoldTable ==
  /\ preparing.at > 0
  /\ ~ preparing.holding
  /\ NoneInFlight
  /\ preparing' = [preparing EXCEPT !.holding = TRUE, !.baseline = table]
  /\ UNCHANGED <<Stored, Time, Others, lock, pc, job, begun, plan, jobs>>

(* ...and the ranks, under the annotation write lock, publish it all.      *)
EndPreparing ==
  /\ preparing.holding
  /\ LockFree
  /\ began' = preparing.at
  /\ history' = LET standing == {s \in Samples : preparing.baseline[s] # None}
                IN <<[at |-> preparing.at, rows |-> [s \in standing |-> preparing.baseline[s]]]>>
  /\ IF Ranked = {} THEN Register(LabelsIn(table)) ELSE UNCHANGED ranks
  /\ preparing' = NotPreparing
  /\ UNCHANGED <<table, Others, lock, pc, job, begun, plan, jobs>>
  /\ Tick

StopPreparing ==
  /\ preparing # NotPreparing
  /\ preparing' = NotPreparing
  /\ UNCHANGED <<Stored, Time, Others, lock, pc, job, begun, plan, jobs>>

(* An extraction or a prune changes what the slots hold.                   *)
Recatalog ==
  /\ recatalogs < MaxRecatalogs
  /\ recatalogs' = recatalogs + 1
  /\ occupant' \in Catalogs
  /\ UNCHANGED <<Stored, Time, lock, preparing, pc, job, begun, plan, jobs,
                 preparations>>

-----------------------------------------------------------------------------
Init ==
  /\ table \in Libraries
  /\ LET used == UNION {TagsOf[l] : l \in LabelsIn(table)}
     IN \/ ranks = [t \in Tags |-> None]
        \/ \E order \in Bijection(used, 0..(Cardinality(used) - 1)) :
             ranks = [t \in Tags |-> IF t \in used THEN order[t] ELSE None]
  /\ history = <<>>
  /\ began = None
  /\ occupant \in Catalogs
  /\ clock = 1
  /\ stood = <<[rows |-> table, quiet |-> TRUE]>>
  /\ lock = None
  /\ preparing = NotPreparing
  /\ pc = [w \in Writers |-> "idle"]
  /\ job = [w \in Writers |-> NoJob]
  /\ begun = [w \in Writers |-> 0]
  /\ plan = [w \in Writers |-> NoPlan]
  /\ jobs = 0
  /\ preparations = 0
  /\ recatalogs = 0

WriterStep(w) ==
  \/ AskChange(w) \/ FindAnchors(w) \/ AskImport(w) \/ AskRelink(w) \/ AskRestore(w)
  \/ Begin(w) \/ Claim(w) \/ Read(w) \/ ReadAll(w) \/ ReadLost(w) \/ Follow(w)
  \/ Relink(w) \/ Write(w) \/ Commit(w) \/ RollBack(w)

Next ==
  \/ \E w \in Writers : WriterStep(w)
  \/ BeginPreparing \/ HoldTable \/ EndPreparing \/ StopPreparing
  \/ Recatalog

Spec == Init /\ [][Next]_vars

-----------------------------------------------------------------------------
TypeOK ==
  /\ table \in Rows
  /\ ranks \in [Tags -> Nat \cup {None}]
  /\ began \in 1..clock \cup {None}
  /\ \A i \in DOMAIN history :
       /\ history[i].at \in 1..clock
       /\ DOMAIN history[i].rows \subseteq Samples
       /\ \A s \in DOMAIN history[i].rows : history[i].rows[s] \in Annotations \cup {None}
  /\ occupant \in [Slots -> Samples \cup {None}]
  /\ Len(stood) = clock
  /\ lock \in Writers \cup {None}
  /\ \A w \in Writers :
       /\ begun[w] \in 0..clock
       /\ DOMAIN plan[w] \subseteq Samples
       /\ \A s \in DOMAIN plan[w] : plan[w][s] \in Annotations \cup {None}

(* Once it has begun, the history tells the table: its newest entry of     *)
(* every sample is the row the sample has, and no sample is missing        *)
(* between the baseline and the trigger's first entries.                   *)
HistoryTellsTheTable == began # None => AsOf(clock) = table

(* A moment at which no transaction was open comes back as it stood, of    *)
(* all the moments since the history began.                                *)
QuietMomentsComeBack ==
  began # None =>
    \A moment \in began..clock : stood[moment].quiet => AsOf(moment) = stood[moment].rows

(* Every tag of a label in use has a rank, whichever way the label came    *)
(* in, and no two tags share one.                                          *)
RanksAreGiven ==
  began # None => /\ RanksCover
                  /\ \A t, u \in Ranked : ranks[t] = ranks[u] => t = u

(* A rank stays with its tag, through its falling out of use and through a *)
(* restore to a moment before it.                                          *)
RanksLast == [][\A t \in Ranked : ranks'[t] = ranks[t]]_vars

(* A tag's rank is one a viewer may color it by at any time: given as soon *)
(* as the tag is in use, no other tag's, and never another.                *)
RanksAreForGood == []RanksAreGiven /\ RanksLast

(* Every write takes effect at one moment, on what the one before it left: *)
(* no gesture undoes another's, none loses what it leaves alone, a relink  *)
(* moves decisions and drops none.                                         *)
Past ==
  IF began = None THEN None
  ELSE [s \in Samples |->
          {Says(IF s \in DOMAIN history[1].rows THEN history[1].rows[s] ELSE None)}
          \cup {Says(history[i].rows[s]) :
                  i \in {j \in DOMAIN history : s \in DOMAIN history[j].rows}}]

Ledger == INSTANCE AnnotationLedger
            WITH says <- [s \in Samples |-> Says(table[s])], past <- Past

KeepsTheLedger == Ledger!Spec
=============================================================================
