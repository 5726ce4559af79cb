---------------------------- MODULE StagedBuild ----------------------------
(***************************************************************************)
(* Artifacts built row by row in a partial beside the name they end up     *)
(* under (samplecore/storage/staged_rows.py, staging.py, atomic.py), as    *)
(* build_grid_cache builds a grid cache: rows are written in order, a      *)
(* checkpoint flushes them and then records how many stand, a stopped      *)
(* build of the same identity continues after that count, and a finished   *)
(* one is flushed and moved under its name.                                *)
(*                                                                         *)
(* The build may be killed between any two steps, and the machine may lose *)
(* power: what processes see (entry, content) is then what the disk kept   *)
(* (entryKept, contentKept). Nothing is kept in any order the program did  *)
(* not ask for: a name, a file's entry and a row's bytes reach the disk    *)
(* on their own, whenever the machine writes them.                         *)
(***************************************************************************)
EXTENDS Integers

CONSTANTS
  Identities,     \* what a build is of: its inputs and its recipe
  Shape,          \* the shape of each identity's arrays
  RowCount,       \* how many rows a build has
  Directories,    \* the directories that stand at once, on disk or in sight
  None

ASSUME RowCountAssumption == RowCount \in Nat \ {0}
ASSUME NoneAssumption == None \notin Identities \cup Directories

Names == {"partial", "artifact", "retired"}
Rows == 1..RowCount

NoCount == [identity |-> None, finished |-> 0]
Counts == [identity : Identities, finished : 0..RowCount] \cup {NoCount}

(* What a directory holds: whose arrays and their rows, the checkpoint,    *)
(* and the list of what the rows are of, torn where only its name is kept. *)
Empty == [arrays |-> None, row |-> [i \in Rows |-> None], count |-> NoCount,
          list |-> None]
Contents == [arrays : Identities \cup {None}, row : [Rows -> Identities \cup {None}],
             count : Counts, list : Identities \cup {None, "torn"}]

VARIABLES
  entry,          \* the directory each name shows
  entryKept,      \* the directory each name has on disk
  content,        \* what each directory shows
  contentKept,    \* what the disk holds of each directory
  pc,             \* where the build is
  identity,       \* what is being built
  position,       \* how many rows the build has written
  leaving,        \* why the build's loop ends, or "no"
  owed            \* the last count a checkpoint of the current partial wrote

diskVars == <<entryKept, contentKept>>
vars == <<entry, entryKept, content, contentKept, pc, identity, position,
          leaving, owed>>

TypeOK ==
  /\ entry \in [Names -> Directories \cup {None}]
  /\ entryKept \in [Names -> Directories \cup {None}]
  /\ content \in [Directories -> Contents]
  /\ contentKept \in [Directories -> Contents]
  /\ pc \in {"idle", "clearing", "filling", "flushing", "counting", "counted",
             "completing", "dropping", "listing", "syncing", "emptying",
             "retiring", "moving", "keeping", "tidying"}
  /\ identity \in Identities \cup {None}
  /\ position \in 0..RowCount
  /\ leaving \in {"no", "failed", "done"}
  /\ owed \in Counts

Init ==
  /\ entry = [n \in Names |-> None]
  /\ entryKept = entry
  /\ content = [d \in Directories |-> Empty]
  /\ contentKept = content
  /\ pc = "idle"
  /\ identity = None
  /\ position = 0
  /\ leaving = "no"
  /\ owed = NoCount

-----------------------------------------------------------------------------
Partial == entry["partial"]

Named(names) == {names[n] : n \in Names} \ {None}

(* A directory that no name shows and none has on disk is gone.            *)
Reclaimed(names, kept, what) ==
  [d \in Directories |-> IF d \in Named(names) \cup Named(kept) THEN what[d] ELSE Empty]

Goto(place) == pc' = place

Working == UNCHANGED <<identity, position, leaving>>

(* The build's process ends, and what it held in memory with it.           *)
Leave ==
  /\ Goto("idle")
  /\ identity' = None
  /\ position' = 0
  /\ leaving' = "no"

Shows(d, what) == content' = [content EXCEPT ![d] = what]

(* _stands: the arrays are there in the shape a build asks for.            *)
Stands(d, id) ==
  content[d].arrays # None /\ Shape[content[d].arrays] = Shape[id]

(* _finished_rows: a count of this very build, over arrays that stand.     *)
CountStands(id) ==
  /\ Partial # None
  /\ content[Partial].count.identity = id
  /\ Stands(Partial, id)

(* StagedRows.open: continue a stopped build of this identity, or begin.   *)
Open(id) ==
  /\ pc = "idle"
  /\ identity' = id
  /\ leaving' = "no"
  /\ IF CountStands(id)
       THEN Goto("filling") /\ position' = content[Partial].count.finished
       ELSE Goto("clearing") /\ position' = 0
  /\ owed' = IF id = owed.identity THEN owed ELSE NoCount
  /\ UNCHANGED <<entry, content, diskVars>>

(* fresh_staging: shutil.rmtree takes the files one by one, in no order    *)
(* the program chose, then the directory...                                *)
Clear ==
  /\ pc = "clearing"
  /\ Partial # None
  /\ LET held == content[Partial]
     IN \/ /\ held.arrays # None
           /\ Shows(Partial, [held EXCEPT !.arrays = None, !.row = Empty.row])
           /\ UNCHANGED entry
        \/ /\ held.count # NoCount
           /\ Shows(Partial, [held EXCEPT !.count = NoCount])
           /\ UNCHANGED entry
        \/ /\ held.list # None
           /\ Shows(Partial, [held EXCEPT !.list = None])
           /\ UNCHANGED entry
        \/ /\ held = Empty
           /\ entry' = [entry EXCEPT !["partial"] = None]
           /\ UNCHANGED content
  /\ contentKept' = Reclaimed(entry', entryKept, contentKept)
  /\ UNCHANGED <<entryKept, pc, identity, position, leaving, owed>>

(* ...and mkdir and open_memmap put an empty one in its place.             *)
Make ==
  /\ pc = "clearing"
  /\ Partial = None
  /\ \E d \in Directories \ (Named(entry) \cup Named(entryKept)) :
       /\ entry' = [entry EXCEPT !["partial"] = d]
       /\ Shows(d, [Empty EXCEPT !.arrays = identity])
       /\ contentKept' = [contentKept EXCEPT ![d] = Empty]
  /\ Goto("filling")
  /\ UNCHANGED <<entryKept, identity, position, leaving, owed>>

WriteRow ==
  /\ pc = "filling"
  /\ position < RowCount
  /\ Shows(Partial, [content[Partial] EXCEPT !.row[position + 1] = identity])
  /\ position' = position + 1
  /\ UNCHANGED <<entry, diskVars, pc, identity, leaving, owed>>

(* A checkpoint comes when it is due, once every row is written, and on    *)
(* the way out of a build that fails or is interrupted.                    *)
Due ==
  /\ pc = "filling"
  /\ \/ position < RowCount /\ leaving' \in {"no", "failed"}
     \/ position = RowCount /\ leaving' \in {"done", "failed"}
  /\ Goto("flushing")
  /\ UNCHANGED <<entry, content, diskVars, identity, position, owed>>

(* checkpoint: the arrays are flushed to disk...                           *)
Unflushed == contentKept
Flushed == [contentKept EXCEPT ![Partial].row = content[Partial].row]

Flush ==
  /\ pc = "flushing"
  /\ contentKept' = Flushed
  /\ Goto("counting")
  /\ UNCHANGED <<entry, entryKept, content, identity, position, leaving, owed>>

(* ...then the count moves into place, written and flushed beside it...    *)
Count ==
  /\ pc = "counting"
  /\ Shows(Partial, [content[Partial] EXCEPT
                       !.count = [identity |-> identity, finished |-> position]])
  /\ Goto("counted")
  /\ UNCHANGED <<entry, diskVars, identity, position, leaving, owed>>

(* ...and the directory's entries are flushed after it.                    *)
WithEntries(d) ==
  [contentKept[d] EXCEPT !.arrays = content[d].arrays, !.count = content[d].count,
     !.list = IF content[d].list = None \/ @ = content[d].list THEN content[d].list
              ELSE "torn"]

KeepCount ==
  /\ pc = "counted"
  /\ contentKept' = [contentKept EXCEPT ![Partial] = WithEntries(Partial)]
  /\ owed' = content[Partial].count
  /\ \/ leaving = "failed" /\ Leave
     \/ leaving = "no" /\ Goto("filling") /\ Working
     \/ leaving = "done" /\ Goto("completing") /\ Working
  /\ UNCHANGED <<entry, entryKept, content>>

(* complete: the arrays once more, then the count goes.                    *)
Complete ==
  /\ pc = "completing"
  /\ contentKept' = Flushed
  /\ Goto("dropping")
  /\ UNCHANGED <<entry, entryKept, content, identity, position, leaving, owed>>

DropCount ==
  /\ pc = "dropping"
  /\ Shows(Partial, [content[Partial] EXCEPT !.count = NoCount])
  /\ owed' = NoCount
  /\ Goto("listing")
  /\ UNCHANGED <<entry, diskVars, identity, position, leaving>>

(* The list and the description, which no reader opens before the move.    *)
List ==
  /\ pc = "listing"
  /\ Shows(Partial, [content[Partial] EXCEPT !.list = identity])
  /\ Goto("syncing")
  /\ UNCHANGED <<entry, diskVars, identity, position, leaving, owed>>

(* publish_staged: every file is flushed, then the directory's entries...  *)
EntriesOnly == [contentKept EXCEPT ![Partial] = WithEntries(Partial)]
Synced == [contentKept EXCEPT ![Partial] = content[Partial]]

Sync ==
  /\ pc = "syncing"
  /\ contentKept' = Synced
  /\ Goto("emptying")
  /\ UNCHANGED <<entry, entryKept, content, identity, position, leaving, owed>>

(* ...whatever an earlier publication retired goes...                      *)
RemoveRetired ==
  /\ entry' = [entry EXCEPT !["retired"] = None]
  /\ content' = [d \in Directories |-> IF d = entry["retired"] THEN Empty ELSE content[d]]
  /\ contentKept' = Reclaimed(entry', entryKept, contentKept)
  /\ \/ pc = "emptying" /\ Goto("retiring") /\ Working
     \/ pc = "tidying" /\ Leave
  /\ UNCHANGED <<entryKept, owed>>

(* ...the build under the name steps aside...                              *)
Retire ==
  /\ pc = "retiring"
  /\ entry' = IF entry["artifact"] = None THEN entry
              ELSE [entry EXCEPT !["retired"] = entry["artifact"], !["artifact"] = None]
  /\ Goto("moving")
  /\ UNCHANGED <<content, diskVars, identity, position, leaving, owed>>

(* ...and the finished one takes it.                                       *)
Move ==
  /\ pc = "moving"
  /\ entry' = [entry EXCEPT !["artifact"] = Partial, !["partial"] = None]
  /\ Goto("keeping")
  /\ UNCHANGED <<content, diskVars, identity, position, leaving, owed>>

KeepNames ==
  /\ pc = "keeping"
  /\ entryKept' = entry
  /\ contentKept' = Reclaimed(entry, entryKept', contentKept)
  /\ Goto("tidying")
  /\ UNCHANGED <<entry, content, identity, position, leaving, owed>>

Build ==
  \/ \E id \in Identities : Open(id)
  \/ Clear \/ Make \/ WriteRow \/ Due \/ Flush \/ Count \/ KeepCount
  \/ Complete \/ DropCount \/ List \/ Sync
  \/ RemoveRetired \/ Retire \/ Move \/ KeepNames

-----------------------------------------------------------------------------
Kill ==
  /\ pc # "idle"
  /\ Leave
  /\ UNCHANGED <<entry, content, diskVars, owed>>

(* The machine writes names back on its own: those beside the artifact, or *)
(* those in one directory.                                                 *)
WriteBack ==
  /\ \/ /\ entryKept' = entry
        /\ contentKept' = Reclaimed(entry, entry, contentKept)
     \/ /\ \E d \in Named(entry) :
             contentKept' = [contentKept EXCEPT ![d] = WithEntries(d)]
        /\ UNCHANGED entryKept
  /\ UNCHANGED <<entry, content, pc, identity, position, leaving, owed>>

(* What is left of a directory: every byte that was flushed, and of the    *)
(* rows and the list written since whichever the machine wrote back.       *)
RowsLeft(d) ==
  LET kept == contentKept[d].row
      written == {i \in Rows : content[d].arrays # None /\ content[d].row[i] # kept[i]}
  IN IF contentKept[d].arrays = None THEN {Empty.row}
     ELSE {[i \in Rows |-> IF i \in W THEN content[d].row[i] ELSE kept[i]] :
             W \in SUBSET written}

ListsLeft(d) ==
  IF contentKept[d].list = "torn" /\ content[d].list # None
    THEN {"torn", content[d].list} ELSE {contentKept[d].list}

With(what, f, l) == [what EXCEPT !.row = f, !.list = l]

Left(d) == {With(contentKept[d], f, l) : f \in RowsLeft(d), l \in ListsLeft(d)}

LeftUnder(n) == IF entryKept[n] = None THEN {Empty} ELSE Left(entryKept[n])

(* The machine loses power: what processes see is what the disk kept.      *)
PowerLoss ==
  /\ entry' = entryKept
  /\ \E partial \in LeftUnder("partial"), artifact \in LeftUnder("artifact"),
        retired \in LeftUnder("retired") :
       content' = [d \in Directories |-> CASE d = entryKept["partial"] -> partial
                                           [] d = entryKept["artifact"] -> artifact
                                           [] d = entryKept["retired"] -> retired
                                           [] OTHER -> Empty]
  /\ contentKept' = content'
  /\ Leave
  /\ owed' = NoCount
  /\ UNCHANGED entryKept

Next == Build \/ Kill \/ WriteBack \/ PowerLoss

Spec == Init /\ [][Next]_vars

-----------------------------------------------------------------------------
(* The first n rows of what a directory holds are those of one build.      *)
FilledTo(what, id, n) ==
  /\ what.arrays # None
  /\ Shape[what.arrays] = Shape[id]
  /\ \A i \in 1..n : what.row[i] = id

Whole(what) ==
  /\ what.list \in Identities
  /\ what.count = NoCount
  /\ FilledTo(what, what.list, RowCount)

(* "The count never runs ahead of the rows on disk, whether the build is   *)
(* interrupted, killed or the machine loses power": a count beside arrays, *)
(* in sight or on disk, stands over as many rows of its own build, so a    *)
(* build that continues after it leaves none out and mixes none in. A      *)
(* clearing stopped partway may leave a count alone.                       *)
CountIsTrue(what) ==
  what.count # NoCount /\ what.arrays # None =>
    FilledTo(what, what.count.identity, what.count.finished)

CountNeverAhead ==
  /\ \A d \in Named(entry) : CountIsTrue(content[d])
  /\ \A d \in Named(entryKept) : \A left \in Left(d) : CountIsTrue(left)

(* Whatever stands under the artifact's name is a whole build of one       *)
(* identity, however often builds of several were stopped before it: for   *)
(* a reader now, and for one that comes after the machine lost power.      *)
PublishedIsWhole ==
  /\ entry["artifact"] # None => Whole(content[entry["artifact"]])
  /\ entryKept["artifact"] # None =>
       \A left \in Left(entryKept["artifact"]) : Whole(left)

(* A build killed at any moment continues after the last count it wrote:   *)
(* no repetition of the same build starts over or falls behind it.         *)
ContinuesAfterItsLastCount ==
  /\ pc = "clearing" => owed = NoCount
  /\ pc = "filling" /\ owed # NoCount => position >= owed.finished

(* So a count can be trusted: by a build that continues after it, which    *)
(* leaves no row out, and by one that was killed, which loses none.        *)
CountsAreTrue == CountNeverAhead /\ ContinuesAfterItsLastCount
=============================================================================
