------------------------- MODULE StagedBuildProofs -------------------------
(***************************************************************************)
(* Theorems about the builds of StagedBuild, for any identities and        *)
(* shapes, any number of rows and of directories, and any order of kills,  *)
(* power losses and writes of the machine.                                 *)
(*                                                                         *)
(* A directory is of the identity its arrays were made for until it is     *)
(* cleared, in sight and on disk, and the disk holds no row that is not in *)
(* sight. A count in sight stands over rows the disk holds; so whatever    *)
(* the machine keeps of both, and in whichever order, is true together.    *)
(* What has been published is the same in sight and on disk.               *)
(***************************************************************************)
EXTENDS StagedBuild, TLAPS

(* Two names never show one directory.                                     *)
Apart(names) ==
  \A m, n \in Names : names[m] # None /\ names[m] = names[n] => m = n

(* Rows are of the directory's identity, and so is a count, over rows.     *)
OfOneBuild(what, rows) ==
  what.arrays # None =>
    /\ \A i \in Rows : what.row[i] \in {None, what.arrays}
    /\ what.count # NoCount =>
         /\ what.count.identity = what.arrays
         /\ \A i \in Rows : i <= what.count.finished => rows[i] = what.arrays

(* What the disk holds of a directory agrees with what it shows.           *)
Agrees(shown, kept) ==
  shown.arrays # None =>
    /\ kept.arrays \in {None, shown.arrays}
    /\ \A i \in Rows : kept.row[i] \in {None, shown.row[i]}

Sound(shown, kept) ==
  /\ OfOneBuild(shown, kept.row)
  /\ OfOneBuild(kept, kept.row)
  /\ Agrees(shown, kept)

PublishedIn(names, kept, shown, was) ==
  /\ names["artifact"] # None =>
       /\ Whole(shown[names["artifact"]])
       /\ was[names["artifact"]] = shown[names["artifact"]]
  /\ names["retired"] # None => was[names["retired"]] = shown[names["retired"]]
  /\ kept["artifact"] # None =>
       /\ kept["artifact"] # names["partial"]
       /\ Whole(was[kept["artifact"]])
       /\ shown[kept["artifact"]] \in {was[kept["artifact"]], Empty}

(* Of names and what directories hold, in sight and on disk.               *)
DiskIn(names, kept, shown, was) ==
  /\ Apart(names) /\ Apart(kept)
  /\ \A d \in Directories : Sound(shown[d], was[d])
  /\ \A d \in Directories \ Named(names) : shown[d] = Empty
  /\ PublishedIn(names, kept, shown, was)

DiskInv == DiskIn(entry, entryKept, content, contentKept)

Filling == {"filling", "flushing", "counting", "counted", "completing", "dropping",
            "listing", "syncing"}
Publishing == {"emptying", "retiring", "moving"}

(* Where a build is tells what its partial holds.                          *)
PhaseInv ==
  /\ pc # "idle" => identity \in Identities \/ pc = "tidying"
  /\ pc = "clearing" => position = 0
  /\ pc \in Filling =>
       /\ Partial # None
       /\ content[Partial].arrays = identity
       /\ \A i \in 1..position : content[Partial].row[i] = identity
  /\ pc \in {"counting", "counted"} =>
       \A i \in 1..position : contentKept[Partial].row[i] = identity
  /\ pc = "counted" =>
       content[Partial].count = [identity |-> identity, finished |-> position]
  /\ pc \in {"flushing", "counting", "counted"} /\ leaving = "done" => position = RowCount
  /\ pc \in {"completing", "dropping", "listing", "syncing"} => position = RowCount
  /\ pc \in {"listing", "syncing"} => content[Partial].count = NoCount
  /\ pc = "syncing" => content[Partial].list = identity
  /\ pc \in Publishing =>
       /\ Partial # None
       /\ Whole(content[Partial]) /\ contentKept[Partial] = content[Partial]
  /\ pc = "retiring" => entry["retired"] = None
  /\ pc = "moving" => entry["artifact"] = None

(* What a checkpoint promised stands in the partial.                       *)
OwedInv ==
  owed # NoCount =>
    /\ Partial # None
    /\ content[Partial].arrays = owed.identity
    /\ content[Partial].count # NoCount
    /\ content[Partial].count.finished >= owed.finished
    /\ pc \in {"idle", "filling", "flushing", "counting", "counted", "completing", "dropping"}
    /\ pc # "idle" => identity = owed.identity /\ position >= owed.finished

IInv == TypeOK /\ DiskInv /\ PhaseInv /\ OwedInv

-----------------------------------------------------------------------------
(* An empty directory is sound.                                            *)
LEMMA EmptyIsEmpty ==
  Empty \in Contents /\ Empty.arrays = None /\ Empty.list = None /\ Sound(Empty, Empty)
<1>1. NoCount \in Counts /\ Empty.row \in [Rows -> Identities \cup {None}]
  BY DEF Counts, Empty
<1> QED
  BY <1>1 DEF Empty, Contents, Sound, OfOneBuild, Agrees

(* The directories some name shows.                                        *)
LEMMA NamedOnes ==
  ASSUME NEW names, NEW d PROVE d \in Named(names) <=> d # None /\ \E n \in Names : names[n] = d
BY DEF Named

(* A directory that goes for good is one that shows nothing any more.      *)
LEMMA ReclaimedDisk ==
  ASSUME NEW names \in [Names -> Directories \cup {None}],
         NEW kept \in [Names -> Directories \cup {None}],
         NEW shown, NEW was \in [Directories -> Contents],
         DiskIn(names, kept, shown, was)
  PROVE  /\ Reclaimed(names, kept, was) \in [Directories -> Contents]
         /\ DiskIn(names, kept, shown, Reclaimed(names, kept, was))
         /\ \A n \in Names : names[n] # None =>
              Reclaimed(names, kept, was)[names[n]] = was[names[n]]
<1> DEFINE left == Reclaimed(names, kept, was)
<1>1. /\ left \in [Directories -> Contents]
      /\ \A d \in Directories :
           left[d] = IF d \in Named(names) \cup Named(kept) THEN was[d] ELSE Empty
  BY EmptyIsEmpty DEF Reclaimed
<1> HIDE DEF left
<1>2. \A d \in Directories : Sound(shown[d], left[d])
  BY <1>1, EmptyIsEmpty DEF DiskIn
<1>3. /\ \A n \in Names : names[n] # None => left[names[n]] = was[names[n]]
      /\ \A n \in Names : kept[n] # None => left[kept[n]] = was[kept[n]]
  BY <1>1, NamedOnes
<1>4. PublishedIn(names, kept, shown, left)
  BY <1>3 DEF DiskIn, PublishedIn, Names
<1> QED
  BY <1>1, <1>2, <1>3, <1>4 DEF DiskIn, left

(* A change to the partial alone, in sight or on disk, changes nothing     *)
(* that was published.                                                     *)
LEMMA PartialDisk ==
  ASSUME NEW names \in [Names -> Directories \cup {None}],
         NEW kept \in [Names -> Directories \cup {None}],
         NEW shown, NEW was, DiskIn(names, kept, shown, was),
         names["partial"] # None, NEW shows, NEW keeps,
         \A d \in Directories \ {names["partial"]} : shows[d] = shown[d] /\ keeps[d] = was[d],
         Sound(shows[names["partial"]], keeps[names["partial"]])
  PROVE  DiskIn(names, kept, shows, keeps)
<1>1. "partial" \in Names /\ names["partial"] \in Named(names)
  BY NamedOnes DEF Names
<1>2. \A d \in Directories : Sound(shows[d], keeps[d])
  BY DEF DiskIn
<1>3. \A d \in Directories \ Named(names) : shows[d] = Empty
  BY <1>1 DEF DiskIn
<1>4. /\ names["artifact"] # None => names["artifact"] \in Directories \ {names["partial"]}
      /\ names["retired"] # None => names["retired"] \in Directories \ {names["partial"]}
      /\ kept["artifact"] # None => kept["artifact"] \in Directories \ {names["partial"]}
  BY DEF DiskIn, PublishedIn, Apart, Names
<1>5. PublishedIn(names, kept, shows, keeps)
  BY <1>4 DEF DiskIn, PublishedIn
<1> QED
  BY <1>2, <1>3, <1>5 DEF DiskIn

(* What a build writes, it writes in its own partial directory.            *)
LEMMA PartialChanges ==
  ASSUME TypeOK, DiskInv, Partial # None, UNCHANGED <<entry, entryKept>>,
         \A d \in Directories \ {Partial} :
           content'[d] = content[d] /\ contentKept'[d] = contentKept[d],
         Sound(content'[Partial], contentKept'[Partial])
  PROVE  DiskInv'
BY PartialDisk DEF DiskInv, TypeOK, Partial

(* The partial directory is one of the directories.                        *)
LEMMA PartialStands ==
  ASSUME TypeOK, Partial # None
  PROVE  /\ Partial \in Directories
         /\ content[Partial] \in Contents /\ contentKept[Partial] \in Contents
BY DEF TypeOK, Names, Partial

(* What the partial shows, or what the disk holds of it, is replaced.      *)
LEMMA ShowsPartial ==
  ASSUME TypeOK, Partial # None, NEW what \in Contents, Shows(Partial, what)
  PROVE  /\ content' \in [Directories -> Contents]
         /\ content'[Partial] = what
         /\ \A d \in Directories \ {Partial} : content'[d] = content[d]
BY PartialStands DEF Shows, TypeOK

(* What is kept of it changes nothing else that is kept.                   *)
LEMMA KeepsPartial ==
  ASSUME TypeOK, Partial # None, NEW what \in Contents,
         contentKept' = [contentKept EXCEPT ![Partial] = what]
  PROVE  /\ contentKept' \in [Directories -> Contents]
         /\ contentKept'[Partial] = what
         /\ \A d \in Directories \ {Partial} : contentKept'[d] = contentKept[d]
BY PartialStands DEF TypeOK

-----------------------------------------------------------------------------
(* Beginning: a build that continues after a count finds the rows it       *)
(* counts, of its own identity; any other has its partial cleared.         *)
LEMMA OpenKeeps ==
  ASSUME IInv, NEW id \in Identities, Open(id) PROVE IInv'
<1> USE DEF IInv
<1>1. UNCHANGED <<entry, content, entryKept, contentKept>> /\ identity' = id /\ leaving' = "no"
  BY DEF Open, diskVars
<1>2. DiskInv'
  BY <1>1 DEF DiskInv
<1>3. id # None /\ NoCount.identity = None
  BY NoneAssumption DEF NoCount
<1>4. CASE CountStands(id)
  <2>1. /\ pc' = "filling" /\ position' = content[Partial].count.finished
        /\ Partial # None
    BY <1>4 DEF Open, Goto, CountStands
  <2>2. /\ content[Partial].arrays = id
        /\ content[Partial].count # NoCount
        /\ \A i \in Rows : i <= position' =>
             contentKept[Partial].row[i] = id /\ content[Partial].row[i] = id
    <3>1. /\ content[Partial].arrays # None
          /\ content[Partial].count.identity = id
          /\ content[Partial].count # NoCount
      BY <1>3, <1>4 DEF CountStands, Stands
    <3>2. Sound(content[Partial], contentKept[Partial])
      BY <2>1, PartialStands DEF DiskInv, DiskIn
    <3> QED
      BY <3>1, <3>2, <2>1, <1>3 DEF Sound, OfOneBuild, Agrees
  <2>3. position' \in 0..RowCount
    BY <2>1, <2>2, PartialStands DEF Contents, Counts
  <2>4. TypeOK'
    BY <1>1, <2>1, <2>3 DEF Open, TypeOK, Counts
  <2>5. PhaseInv'
    <3>1. \A i \in 1..position' : content[Partial].row[i] = id
      BY <2>2, <2>3, RowCountAssumption DEF Rows
    <3> QED
      BY <1>1, <2>1, <2>2, <3>1 DEF PhaseInv, Filling, Publishing, Partial
  <2>6. OwedInv'
    BY <1>1, <1>3, <2>1, <2>2 DEF Open, OwedInv, Partial
  <2> QED
    BY <1>2, <2>4, <2>5, <2>6
<1>5. CASE ~CountStands(id)
  <2>1. pc' = "clearing" /\ position' = 0
    BY <1>5 DEF Open, Goto
  <2>2. owed' = NoCount
    <3>1. id = owed.identity => owed = NoCount
      <4> SUFFICES ASSUME id = owed.identity, owed # NoCount PROVE FALSE
        OBVIOUS
      <4>1. /\ Partial # None /\ content[Partial].arrays = id
            /\ content[Partial].count # NoCount
        BY DEF OwedInv
      <4>2. content[Partial].count.identity = id
        BY <4>1, <1>3, PartialStands DEF DiskInv, DiskIn, Sound, OfOneBuild
      <4> QED
        BY <4>1, <4>2, <1>3, <1>5 DEF CountStands, Stands
    <3> QED
      BY <3>1 DEF Open
  <2>3. TypeOK'
    BY <1>1, <2>1, <2>2, RowCountAssumption DEF TypeOK, Counts
  <2>4. PhaseInv'
    BY <1>1, <2>1 DEF PhaseInv, Filling, Publishing
  <2>5. OwedInv'
    BY <2>2 DEF OwedInv
  <2> QED
    BY <1>2, <2>3, <2>4, <2>5
<1> QED
  BY <1>4, <1>5

(* A process that ends leaves what there is.                               *)
LEMMA KillKeeps ==
  ASSUME IInv, Kill PROVE IInv'
<1> USE DEF IInv
<1>1. /\ UNCHANGED <<entry, content, entryKept, contentKept, owed>>
      /\ pc' = "idle" /\ identity' = None /\ position' = 0 /\ leaving' = "no"
  BY DEF Kill, Leave, Goto, diskVars
<1>2. TypeOK'
  BY <1>1, RowCountAssumption DEF TypeOK
<1>3. DiskInv'
  BY <1>1 DEF DiskInv
<1>4. PhaseInv' /\ OwedInv'
  BY <1>1 DEF PhaseInv, Filling, Publishing, OwedInv, Partial
<1> QED
  BY <1>2, <1>3, <1>4

(* A checkpoint that is due.                                               *)
LEMMA DueKeeps ==
  ASSUME IInv, Due PROVE IInv'
<1> USE DEF IInv
<1>1. /\ UNCHANGED <<entry, content, entryKept, contentKept, identity, position, owed>>
      /\ pc = "filling" /\ pc' = "flushing" /\ leaving' \in {"no", "failed", "done"}
      /\ leaving' = "done" => position = RowCount
  BY RowCountAssumption DEF Due, Goto, diskVars, TypeOK
<1>2. TypeOK'
  BY <1>1 DEF TypeOK
<1>3. DiskInv'
  BY <1>1 DEF DiskInv
<1>4. PhaseInv' /\ OwedInv'
  BY <1>1 DEF PhaseInv, Filling, Publishing, OwedInv, Partial
<1> QED
  BY <1>2, <1>3, <1>4

-----------------------------------------------------------------------------
(* Filling: what a build that fills its partial knows of it.               *)
LEMMA FillingKnows ==
  ASSUME IInv, pc \in Filling
  PROVE  /\ Partial # None /\ identity \in Identities /\ identity # None
         /\ content[Partial].arrays = identity
         /\ Sound(content[Partial], contentKept[Partial])
         /\ \A i \in Rows : contentKept[Partial].row[i] \in {None, identity}
         /\ \A i \in 1..position : content[Partial].row[i] = identity
         /\ owed # NoCount => owed.identity = identity
<1>1. Partial # None /\ content[Partial].arrays = identity
  BY DEF IInv, PhaseInv
<1>2. identity \in Identities /\ identity # None
  BY NoneAssumption DEF IInv, PhaseInv, Filling
<1>3. Sound(content[Partial], contentKept[Partial])
  BY <1>1, PartialStands DEF IInv, DiskInv, DiskIn
<1>4. \A i \in Rows : contentKept[Partial].row[i] \in {None, identity}
  BY <1>1, <1>2, <1>3 DEF Sound, OfOneBuild, Agrees
<1> QED
  BY <1>1, <1>2, <1>3, <1>4 DEF IInv, PhaseInv, OwedInv, Filling

(* A row that is written.                                                  *)
LEMMA WriteRowKeeps ==
  ASSUME IInv, WriteRow PROVE IInv'
<1> USE DEF IInv
<1> DEFINE what == [content[Partial] EXCEPT !.row[position + 1] = identity]
<1>1. /\ UNCHANGED <<entry, entryKept, contentKept, pc, identity, leaving, owed>>
      /\ pc = "filling" /\ position < RowCount /\ position' = position + 1
  BY DEF WriteRow, diskVars
<1>2. /\ position \in Nat /\ position + 1 \in Rows
  BY <1>1, RowCountAssumption DEF TypeOK, Rows
<1>3. /\ what \in Contents
      /\ what.arrays = identity
      /\ what.count = content[Partial].count
      /\ what.row[position + 1] = identity
      /\ \A i \in Rows \ {position + 1} : what.row[i] = content[Partial].row[i]
  BY <1>1, <1>2, FillingKnows, PartialStands DEF Contents, Filling
<1>4. Shows(Partial, what)
  BY DEF WriteRow
<1> HIDE DEF what
<1>5. content' \in [Directories -> Contents] /\ content'[Partial] = what
      /\ \A d \in Directories \ {Partial} : content'[d] = content[d]
  BY <1>1, <1>3, <1>4, FillingKnows, ShowsPartial DEF Filling
<1>6. TypeOK'
  BY <1>1, <1>2, <1>5, RowCountAssumption DEF TypeOK, Rows
<1>7. Sound(what, contentKept[Partial])
  BY <1>1, <1>3, FillingKnows DEF Sound, OfOneBuild, Agrees, Filling
<1>8. DiskInv'
  BY <1>1, <1>5, <1>7, FillingKnows, PartialChanges DEF Filling
<1>9. \A i \in 1..position' : what.row[i] = identity
  <2> SUFFICES ASSUME NEW i \in 1..position' PROVE what.row[i] = identity
    OBVIOUS
  <2>1. CASE i = position + 1
    BY <2>1, <1>3
  <2>2. CASE i # position + 1
    <3>1. i \in 1..position /\ i \in Rows
      BY <2>2, <1>1, <1>2, RowCountAssumption DEF Rows
    <3> QED
      BY <2>2, <3>1, <1>1, <1>3, FillingKnows DEF Filling
  <2> QED
    BY <2>1, <2>2
<1>10. PhaseInv'
  BY <1>1, <1>3, <1>5, <1>9, FillingKnows DEF PhaseInv, Filling, Publishing, Partial
<1>11. OwedInv'
  <2>1. owed # NoCount => position' >= owed.finished
    BY <1>1, <1>2, RowCountAssumption DEF OwedInv, TypeOK, Counts
  <2> QED
    BY <1>1, <1>3, <1>5, <2>1, FillingKnows DEF OwedInv, Partial, Filling
<1> QED
  BY <1>6, <1>8, <1>10, <1>11

(* A flush brings every row in sight to the disk.                          *)
LEMMA FlushedIs ==
  ASSUME IInv, pc \in Filling, contentKept' = Flushed,
         UNCHANGED <<entry, entryKept, content>>
  PROVE  /\ contentKept' \in [Directories -> Contents]
         /\ DiskInv'
         /\ \A i \in 1..position : contentKept'[Partial].row[i] = identity
<1> USE DEF IInv
<1> DEFINE what == [contentKept[Partial] EXCEPT !.row = content[Partial].row]
<1>1. contentKept' = [contentKept EXCEPT ![Partial] = what]
  BY FillingKnows, PartialStands DEF Flushed, TypeOK
<1>2. /\ what \in Contents
      /\ what.arrays = contentKept[Partial].arrays
      /\ what.count = contentKept[Partial].count
      /\ what.row = content[Partial].row
  BY FillingKnows, PartialStands DEF Contents
<1> HIDE DEF what
<1>3. /\ contentKept' \in [Directories -> Contents] /\ contentKept'[Partial] = what
      /\ \A d \in Directories \ {Partial} : contentKept'[d] = contentKept[d]
  BY <1>1, <1>2, FillingKnows, KeepsPartial
<1>4. Sound(content[Partial], what)
  BY <1>2, FillingKnows, NoneAssumption DEF Sound, OfOneBuild, Agrees
<1>5. DiskInv'
  BY <1>3, <1>4, FillingKnows, PartialChanges
<1> QED
  BY <1>2, <1>3, <1>5, FillingKnows

(* Arrays that are flushed.                                                *)
LEMMA FlushKeeps ==
  ASSUME IInv, Flush \/ Complete PROVE IInv'
<1> USE DEF IInv
<1>1. /\ UNCHANGED <<entry, entryKept, content, identity, position, leaving, owed>>
      /\ contentKept' = Flushed
      /\ \/ pc = "flushing" /\ pc' = "counting"
         \/ pc = "completing" /\ pc' = "dropping"
  BY DEF Flush, Complete, Goto
<1>2. TypeOK'
  BY <1>1, FlushedIs DEF TypeOK, Filling
<1>3. DiskInv' /\ \A i \in 1..position : contentKept'[Partial].row[i] = identity
  BY <1>1, FlushedIs DEF Filling
<1>4. PhaseInv' /\ OwedInv'
  BY <1>1, <1>3 DEF PhaseInv, Filling, Publishing, OwedInv, Partial
<1> QED
  BY <1>2, <1>3, <1>4

(* The count is written over rows the disk holds.                          *)
LEMMA CountKeeps ==
  ASSUME IInv, Count PROVE IInv'
<1> USE DEF IInv
<1> DEFINE what == [content[Partial] EXCEPT
                      !.count = [identity |-> identity, finished |-> position]]
<1>1. /\ UNCHANGED <<entry, entryKept, contentKept, identity, position, leaving, owed>>
      /\ pc = "counting" /\ pc' = "counted" /\ Shows(Partial, what)
  BY DEF Count, Goto, diskVars
<1>2. /\ what \in Contents
      /\ what.arrays = identity /\ what.row = content[Partial].row
      /\ what.count = [identity |-> identity, finished |-> position]
  BY <1>1, FillingKnows, PartialStands DEF Contents, Counts, TypeOK, Filling
<1>3. what.count # NoCount /\ what.count.identity = identity /\ what.count.finished = position
  BY <1>1, <1>2, FillingKnows DEF NoCount, Filling
<1> HIDE DEF what
<1>4. /\ content' \in [Directories -> Contents] /\ content'[Partial] = what
      /\ \A d \in Directories \ {Partial} : content'[d] = content[d]
  BY <1>1, <1>2, FillingKnows, ShowsPartial DEF Filling
<1>5. TypeOK'
  BY <1>1, <1>4 DEF TypeOK
<1>6. \A i \in Rows : i <= position => contentKept[Partial].row[i] = identity
  BY <1>1, RowCountAssumption DEF PhaseInv, Rows, TypeOK
<1>7. Sound(what, contentKept[Partial])
  BY <1>1, <1>2, <1>3, <1>6, FillingKnows DEF Sound, OfOneBuild, Agrees, Filling
<1>8. DiskInv'
  BY <1>1, <1>4, <1>7, FillingKnows, PartialChanges DEF Filling
<1>9. PhaseInv'
  BY <1>1, <1>2, <1>4, FillingKnows DEF PhaseInv, Filling, Publishing, Partial
<1>10. OwedInv'
  BY <1>1, <1>2, <1>3, <1>4 DEF OwedInv, Partial
<1> QED
  BY <1>5, <1>8, <1>9, <1>10

(* The entries of a directory are kept with what it shows.                 *)
LEMMA EntriesKept ==
  ASSUME TypeOK, NEW d \in Directories, Sound(content[d], contentKept[d])
  PROVE  /\ WithEntries(d) \in Contents
         /\ Sound(content[d], WithEntries(d))
         /\ WithEntries(d).row = contentKept[d].row
         /\ contentKept[d] = content[d] => WithEntries(d) = contentKept[d]
<1>1. content[d] \in Contents /\ contentKept[d] \in Contents
  BY DEF TypeOK
<1>2. /\ WithEntries(d) \in Contents
      /\ WithEntries(d).arrays = content[d].arrays
      /\ WithEntries(d).count = content[d].count
      /\ WithEntries(d).row = contentKept[d].row
  BY <1>1 DEF WithEntries, Contents
<1>3. Sound(content[d], WithEntries(d))
  BY <1>2 DEF Sound, OfOneBuild, Agrees
<1>4. contentKept[d] = content[d] => WithEntries(d) = contentKept[d]
  BY <1>1 DEF WithEntries, Contents
<1> QED
  BY <1>2, <1>3, <1>4

(* A count the disk keeps.                                                 *)
LEMMA KeepCountKeeps ==
  ASSUME IInv, KeepCount PROVE IInv'
<1> USE DEF IInv
<1>1. /\ UNCHANGED <<entry, entryKept, content>> /\ pc = "counted"
      /\ contentKept' = [contentKept EXCEPT ![Partial] = WithEntries(Partial)]
      /\ owed' = content[Partial].count
  BY DEF KeepCount
<1>2. \/ pc' = "idle" /\ identity' = None /\ position' = 0 /\ leaving' = "no"
      \/ /\ pc' \in {"filling", "completing"} /\ UNCHANGED <<identity, position, leaving>>
         /\ pc' = "completing" => leaving = "done"
  BY DEF KeepCount, Leave, Goto, Working
<1>3. Partial \in Directories /\ content[Partial] \in Contents
  BY <1>1, FillingKnows, PartialStands DEF Filling
<1>4. /\ contentKept' \in [Directories -> Contents]
      /\ contentKept'[Partial] = WithEntries(Partial)
      /\ \A d \in Directories \ {Partial} : contentKept'[d] = contentKept[d]
  BY <1>1, <1>3, FillingKnows, EntriesKept, KeepsPartial DEF Filling
<1>5. TypeOK'
  BY <1>1, <1>2, <1>3, <1>4, RowCountAssumption DEF TypeOK, Contents
<1>6. DiskInv'
  BY <1>1, <1>3, <1>4, FillingKnows, EntriesKept, PartialChanges DEF Filling
<1>7. PhaseInv'
  BY <1>1, <1>2, FillingKnows DEF PhaseInv, Filling, Publishing, Partial
<1>8. OwedInv'
  <2>1. /\ content[Partial].count = [identity |-> identity, finished |-> position]
        /\ position \in 0..RowCount
    BY <1>1 DEF PhaseInv, TypeOK
  <2> QED
    BY <1>1, <1>2, <2>1, FillingKnows, RowCountAssumption DEF OwedInv, Partial, Filling
<1> QED
  BY <1>5, <1>6, <1>7, <1>8

(* The count goes, and the list comes, over rows that are all written.     *)
LEMMA DropAndListKeep ==
  ASSUME IInv, DropCount \/ List PROVE IInv'
<1> USE DEF IInv
<1> DEFINE dropped == [content[Partial] EXCEPT !.count = NoCount]
           listed == [content[Partial] EXCEPT !.list = identity]
<1>1. /\ UNCHANGED <<entry, entryKept, contentKept, identity, position, leaving>>
      /\ \/ pc = "dropping" /\ pc' = "listing" /\ owed' = NoCount /\ Shows(Partial, dropped)
         \/ pc = "listing" /\ pc' = "syncing" /\ owed' = owed /\ Shows(Partial, listed)
  BY DEF DropCount, List, Goto, diskVars
<1>2. pc \in Filling
  BY <1>1 DEF Filling
<1>3. \A what \in {dropped, listed} :
        /\ what \in Contents
        /\ what.arrays = identity /\ what.row = content[Partial].row
        /\ what.count \in {NoCount, content[Partial].count}
  BY <1>2, FillingKnows, PartialStands DEF Contents, Counts
<1>4. /\ dropped.count = NoCount
      /\ listed.count = content[Partial].count /\ listed.list = identity
  BY <1>2, FillingKnows, PartialStands DEF Contents
<1> HIDE DEF dropped, listed
<1>5. PICK what \in {dropped, listed} : Shows(Partial, what)
  BY <1>1
<1>6. /\ content' \in [Directories -> Contents] /\ content'[Partial] = what
      /\ \A d \in Directories \ {Partial} : content'[d] = content[d]
  BY <1>2, <1>3, <1>5, FillingKnows, ShowsPartial
<1>7. TypeOK'
  BY <1>1, <1>6 DEF TypeOK, Counts
<1>8. Sound(what, contentKept[Partial])
  BY <1>2, <1>3, FillingKnows DEF Sound, OfOneBuild, Agrees
<1>9. DiskInv'
  BY <1>1, <1>2, <1>6, <1>8, FillingKnows, PartialChanges
<1>10. PhaseInv' /\ owed' = NoCount
  <2>1. CASE pc = "dropping"
    <3>1. content'[Partial] = dropped
      BY <1>1, <2>1, <1>2, <1>3, FillingKnows, ShowsPartial
    <3> QED
      BY <1>1, <1>2, <1>3, <1>4, <2>1, <3>1, FillingKnows DEF PhaseInv, Filling, Publishing, Partial
  <2>2. CASE pc = "listing"
    <3>1. content'[Partial] = listed
      BY <1>1, <2>2, <1>2, <1>3, FillingKnows, ShowsPartial
    <3>2. owed' = NoCount
      BY <1>1, <2>2 DEF OwedInv
    <3> QED
      BY <1>1, <1>2, <1>3, <1>4, <2>2, <3>1, <3>2, FillingKnows
      DEF PhaseInv, Filling, Publishing, Partial
  <2> QED
    BY <1>1, <2>1, <2>2
<1> QED
  BY <1>7, <1>9, <1>10 DEF OwedInv

(* What is flushed whole is whole.                                         *)
LEMMA SyncKeeps ==
  ASSUME IInv, Sync PROVE IInv'
<1> USE DEF IInv
<1>1. /\ UNCHANGED <<entry, entryKept, content, identity, position, leaving, owed>>
      /\ pc = "syncing" /\ pc' = "emptying"
      /\ contentKept' = [contentKept EXCEPT ![Partial] = content[Partial]]
  BY DEF Sync, Synced, Goto
<1>2. /\ content[Partial].count = NoCount /\ content[Partial].list = identity
      /\ position = RowCount
  BY <1>1 DEF PhaseInv
<1>3. Whole(content[Partial])
  BY <1>1, <1>2, FillingKnows DEF Whole, FilledTo, Filling
<1>4. /\ contentKept' \in [Directories -> Contents]
      /\ contentKept'[Partial] = content[Partial]
      /\ \A d \in Directories \ {Partial} : contentKept'[d] = contentKept[d]
  BY <1>1, FillingKnows, PartialStands, KeepsPartial DEF Filling
<1>5. TypeOK'
  BY <1>1, <1>4 DEF TypeOK
<1>6. Sound(content[Partial], content[Partial])
  BY <1>1, <1>2, FillingKnows DEF Sound, OfOneBuild, Agrees, Filling
<1>7. DiskInv'
  BY <1>1, <1>4, <1>6, FillingKnows, PartialChanges DEF Filling
<1>8. PhaseInv'
  BY <1>1, <1>3, <1>4, FillingKnows DEF PhaseInv, Filling, Publishing, Partial, Whole, FilledTo
<1>9. OwedInv'
  BY <1>1 DEF OwedInv
<1> QED
  BY <1>5, <1>7, <1>8, <1>9

-----------------------------------------------------------------------------
(* Clearing takes what is under the partial, and at last its name.         *)
LEMMA ClearKeeps ==
  ASSUME IInv, Clear PROVE IInv'
<1> USE DEF IInv
<1> DEFINE held == content[Partial]
<1>1. /\ pc = "clearing" /\ Partial # None /\ owed = NoCount
      /\ UNCHANGED <<entryKept, pc, identity, position, leaving, owed>>
      /\ contentKept' = Reclaimed(entry', entryKept, contentKept)
  BY DEF Clear, OwedInv
<1>2. \/ /\ entry' = entry
         /\ \E what \in Contents : /\ Shows(Partial, what)
                                   /\ what.arrays \in {None, held.arrays}
                                   /\ what.arrays # None =>
                                        /\ what.row = held.row
                                        /\ what.count \in {NoCount, held.count}
      \/ /\ held = Empty
         /\ entry' = [entry EXCEPT !["partial"] = None]
         /\ content' = content
  <2>1. held \in Contents /\ Empty.row \in [Rows -> Identities \cup {None}] /\ NoCount \in Counts
    BY <1>1, PartialStands, EmptyIsEmpty DEF Contents, Counts
  <2>2. \A what \in {[held EXCEPT !.arrays = None, !.row = Empty.row],
                     [held EXCEPT !.count = NoCount], [held EXCEPT !.list = None]} :
          /\ what \in Contents
          /\ what.arrays \in {None, held.arrays}
          /\ what.arrays # None => what.row = held.row /\ what.count \in {NoCount, held.count}
    BY <2>1 DEF Contents
  <2> QED
    BY <2>2 DEF Clear
<1>3. /\ entry' \in [Names -> Directories \cup {None}]
      /\ content' \in [Directories -> Contents]
      /\ DiskIn(entry', entryKept, content', contentKept)
  <2>1. CASE entry' = entry
    <3>1. PICK what \in Contents :
                 /\ Shows(Partial, what)
                 /\ what.arrays \in {None, held.arrays}
                 /\ what.arrays # None => what.row = held.row /\ what.count \in {NoCount, held.count}
      <4>1. entry # [entry EXCEPT !["partial"] = None]
        BY <1>1 DEF TypeOK, Names, Partial
      <4> QED
        BY <1>2, <2>1, <4>1
    <3>2. /\ content' \in [Directories -> Contents] /\ content'[Partial] = what
          /\ \A d \in Directories \ {Partial} : content'[d] = content[d]
      BY <1>1, <3>1, ShowsPartial
    <3>3. Sound(held, contentKept[Partial])
      BY <1>1, PartialStands DEF DiskInv, DiskIn
    <3>4. Sound(what, contentKept[Partial])
      BY <3>1, <3>3 DEF Sound, OfOneBuild, Agrees
    <3> QED
      BY <1>1, <2>1, <3>2, <3>4, PartialDisk DEF DiskInv, TypeOK, Partial
  <2>2. CASE entry' # entry
    <3>1. entry' = [entry EXCEPT !["partial"] = None] /\ content' = content /\ held = Empty
      BY <1>2, <2>2
    <3>2. /\ entry' \in [Names -> Directories \cup {None}]
          /\ entry'["partial"] = None
          /\ entry'["artifact"] = entry["artifact"] /\ entry'["retired"] = entry["retired"]
      BY <3>1 DEF TypeOK, Names
    <3>3. Apart(entry')
      BY <3>2 DEF DiskInv, DiskIn, Apart, Names
    <3>4. \A d \in Directories \ Named(entry') : content[d] = Empty
      <4> SUFFICES ASSUME NEW d \in Directories, d \notin Named(entry'), d # Partial
                   PROVE  d \notin Named(entry)
        BY <3>1 DEF DiskInv, DiskIn
      <4>1. d # None /\ \A n \in Names : entry'[n] # d
        BY NamedOnes, NoneAssumption
      <4> QED
        BY <3>2, <4>1, NamedOnes DEF Names, Partial
    <3>5. PublishedIn(entry', entryKept, content, contentKept)
      BY <3>2, NoneAssumption DEF DiskInv, DiskIn, PublishedIn
    <3> QED
      BY <3>1, <3>2, <3>3, <3>4, <3>5 DEF DiskInv, DiskIn, TypeOK
  <2> QED
    BY <2>1, <2>2
<1>4. contentKept' \in [Directories -> Contents] /\ DiskInv'
  BY <1>1, <1>3, ReclaimedDisk DEF DiskInv, TypeOK
<1> QED
  BY <1>1, <1>3, <1>4 DEF TypeOK, PhaseInv, Filling, Publishing, OwedInv

(* A new partial is a directory that no name has.                          *)
LEMMA MakeKeeps ==
  ASSUME IInv, Make PROVE IInv'
<1> USE DEF IInv
<1> DEFINE made == [Empty EXCEPT !.arrays = identity]
<1>1. /\ pc = "clearing" /\ pc' = "filling" /\ Partial = None
      /\ owed = NoCount /\ identity \in Identities /\ identity # None
      /\ UNCHANGED <<entryKept, identity, position, leaving, owed>>
  BY NoneAssumption DEF Make, Goto, OwedInv, PhaseInv
<1>2. PICK d \in Directories \ (Named(entry) \cup Named(entryKept)) :
        /\ entry' = [entry EXCEPT !["partial"] = d]
        /\ Shows(d, made)
        /\ contentKept' = [contentKept EXCEPT ![d] = Empty]
  BY DEF Make
<1>3. /\ made \in Contents /\ made.arrays = identity /\ made.count = NoCount
      /\ made.row = Empty.row
  BY <1>1, EmptyIsEmpty DEF Contents, Empty
<1> HIDE DEF made
<1>4. /\ content' \in [Directories -> Contents] /\ content'[d] = made
      /\ contentKept' \in [Directories -> Contents] /\ contentKept'[d] = Empty
      /\ \A e \in Directories \ {d} :
           content'[e] = content[e] /\ contentKept'[e] = contentKept[e]
  BY <1>2, <1>3, EmptyIsEmpty DEF Shows, TypeOK
<1>5. /\ entry' \in [Names -> Directories \cup {None}]
      /\ entry'["partial"] = d
      /\ entry'["artifact"] = entry["artifact"] /\ entry'["retired"] = entry["retired"]
  BY <1>2 DEF TypeOK, Names
<1>6. /\ d # None /\ \A n \in Names : entry[n] # d /\ entryKept[n] # d
  BY <1>2, NamedOnes, NoneAssumption
<1>7. Sound(made, Empty)
  BY <1>1, <1>3, EmptyIsEmpty DEF Sound, OfOneBuild, Agrees, Empty
<1>8. DiskInv'
  <2>1. Apart(entry')
    BY <1>5, <1>6 DEF DiskInv, DiskIn, Apart, Names
  <2>2. \A e \in Directories : Sound(content'[e], contentKept'[e])
    BY <1>4, <1>7 DEF DiskInv, DiskIn
  <2>3. \A e \in Directories \ Named(entry') : content'[e] = Empty
    <3> SUFFICES ASSUME NEW e \in Directories, e \notin Named(entry') PROVE content'[e] = Empty
      OBVIOUS
    <3>1. e # None /\ \A n \in Names : entry'[n] # e
      BY NamedOnes, NoneAssumption
    <3>2. e # d /\ e \notin Named(entry)
      BY <1>1, <1>5, <3>1, NamedOnes DEF Names, Partial
    <3> QED
      BY <1>4, <3>2 DEF DiskInv, DiskIn
  <2>4. PublishedIn(entry', entryKept, content', contentKept')
    <3>1. \A n \in Names : /\ entry[n] # None => entry[n] \in Directories \ {d}
                           /\ entryKept[n] # None => entryKept[n] \in Directories \ {d}
      BY <1>6 DEF TypeOK
    <3> QED
      BY <1>4, <1>5, <1>6, <3>1 DEF DiskInv, DiskIn, PublishedIn, Names
  <2> QED
    BY <1>1, <2>1, <2>2, <2>3, <2>4 DEF DiskInv, DiskIn
<1>9. TypeOK'
  BY <1>1, <1>4, <1>5 DEF TypeOK
<1>10. PhaseInv' /\ OwedInv'
  <2>1. position = 0
    BY <1>1 DEF PhaseInv
  <2> QED
    BY <1>1, <1>3, <1>4, <1>5, <1>6, <2>1 DEF PhaseInv, Filling, Publishing, OwedInv, Partial
<1> QED
  BY <1>8, <1>9, <1>10

(* What was retired is taken away, unless the disk has it published still. *)
LEMMA RemoveRetiredKeeps ==
  ASSUME IInv, RemoveRetired PROVE IInv'
<1> USE DEF IInv
<1> DEFINE gone == entry["retired"]
<1>1. /\ pc \in {"emptying", "tidying"} /\ owed = NoCount
      /\ UNCHANGED <<entryKept, owed>>
      /\ entry' = [entry EXCEPT !["retired"] = None]
      /\ content' = [d \in Directories |-> IF d = gone THEN Empty ELSE content[d]]
      /\ contentKept' = Reclaimed(entry', entryKept, contentKept)
  BY DEF RemoveRetired, OwedInv
<1>2. \/ pc = "emptying" /\ pc' = "retiring" /\ UNCHANGED <<identity, position, leaving>>
      \/ /\ pc = "tidying" /\ pc' = "idle"
         /\ identity' = None /\ position' = 0 /\ leaving' = "no"
  BY DEF RemoveRetired, Goto, Working, Leave
<1>3. /\ entry' \in [Names -> Directories \cup {None}]
      /\ entry'["retired"] = None
      /\ entry'["artifact"] = entry["artifact"] /\ entry'["partial"] = entry["partial"]
  BY <1>1 DEF TypeOK, Names
<1>4. /\ content' \in [Directories -> Contents]
      /\ \A d \in Directories : content'[d] = IF d = gone THEN Empty ELSE content[d]
  BY <1>1, EmptyIsEmpty DEF TypeOK
<1>5. DiskIn(entry', entryKept, content', contentKept)
  <2>1. Apart(entry')
    BY <1>3 DEF DiskInv, DiskIn, Apart, Names
  <2>2. \A d \in Directories : Sound(content'[d], contentKept[d])
    BY <1>4, EmptyIsEmpty DEF DiskInv, DiskIn, Sound, OfOneBuild, Agrees
  <2>3. \A d \in Directories \ Named(entry') : content'[d] = Empty
    <3> SUFFICES ASSUME NEW d \in Directories, d \notin Named(entry'), d # gone
                 PROVE  d \notin Named(entry)
      BY <1>4 DEF DiskInv, DiskIn
    <3>1. d # None /\ \A n \in Names : entry'[n] # d
      BY NamedOnes, NoneAssumption
    <3> QED
      BY <1>3, <3>1, NamedOnes DEF Names
  <2>4. PublishedIn(entry', entryKept, content', contentKept)
    <3>1. entry["artifact"] # None => entry["artifact"] \in Directories /\ entry["artifact"] # gone
      BY DEF DiskInv, DiskIn, Apart, Names, TypeOK
    <3>2. entryKept["artifact"] # None => entryKept["artifact"] \in Directories
      BY DEF Names, TypeOK
    <3> QED
      BY <1>3, <1>4, <3>1, <3>2 DEF DiskInv, DiskIn, PublishedIn
  <2> QED
    BY <2>1, <2>2, <2>3, <2>4 DEF DiskInv, DiskIn
<1>6. /\ contentKept' \in [Directories -> Contents] /\ DiskInv'
      /\ \A n \in Names : entry'[n] # None => contentKept'[entry'[n]] = contentKept[entry'[n]]
  <2>1. entryKept' = entryKept /\ contentKept' = Reclaimed(entry', entryKept, contentKept)
    BY <1>1
  <2>2. entryKept \in [Names -> Directories \cup {None}] /\ contentKept \in [Directories -> Contents]
    BY DEF TypeOK
  <2> QED
    BY <2>1, <2>2, <1>3, <1>5, ReclaimedDisk DEF DiskInv
<1>7. TypeOK'
  <2>1. entryKept' = entryKept /\ owed' = owed
    BY <1>1
  <2>2. position' \in 0..RowCount /\ pc' \in {"retiring", "idle"}
    BY <1>2, RowCountAssumption DEF TypeOK
  <2>3. identity' \in Identities \cup {None} /\ leaving' \in {"no", "failed", "done"}
    BY <1>2 DEF TypeOK
  <2> QED
    BY <2>1, <2>2, <2>3, <1>3, <1>4, <1>6 DEF TypeOK
<1>8. PhaseInv'
  <2>1. Partial # None => /\ content'[Partial] = content[Partial]
                          /\ contentKept'[Partial] = contentKept[Partial]
    <3>1. Partial # None => Partial \in Directories /\ Partial # gone
      BY PartialStands DEF DiskInv, DiskIn, Apart, Names, Partial
    <3> QED
      BY <1>3, <1>4, <1>6, <3>1 DEF Names, Partial
  <2> QED
    BY <1>1, <1>2, <1>3, <2>1 DEF PhaseInv, Filling, Publishing, Partial
<1> QED
  BY <1>1, <1>6, <1>7, <1>8 DEF OwedInv

(* The names move, over directories that stay as they are.                 *)
LEMMA NamesMove ==
  ASSUME IInv, UNCHANGED <<entryKept, content, contentKept, identity, position, leaving, owed>>,
         pc' \in {"moving", "keeping"},
         entry' \in [Names -> Directories \cup {None}],
         Apart(entry'), {entry'[n] : n \in Names} \ {None} = {entry[n] : n \in Names} \ {None},
         PublishedIn(entry', entryKept, content, contentKept),
         owed = NoCount
  PROVE  TypeOK' /\ DiskInv' /\ OwedInv'
<1>1. Named(entry') = Named(entry)
  BY DEF Named
<1>2. DiskInv'
  BY <1>1 DEF IInv, DiskInv, DiskIn
<1> QED
  BY <1>2 DEF IInv, TypeOK, OwedInv

(* The build under the name steps aside.                                   *)
LEMMA RetireKeeps ==
  ASSUME IInv, Retire PROVE IInv'
<1> USE DEF IInv
<1>1. /\ UNCHANGED <<entryKept, content, contentKept, identity, position, leaving, owed>>
      /\ pc = "retiring" /\ pc' = "moving" /\ owed = NoCount /\ entry["retired"] = None
  BY DEF Retire, Goto, diskVars, OwedInv, PhaseInv
<1>2. /\ entry' \in [Names -> Directories \cup {None}]
      /\ entry'["partial"] = entry["partial"]
      /\ entry'["artifact"] = None /\ entry'["retired"] = entry["artifact"]
  <2>1. CASE entry["artifact"] = None
    BY <1>1, <2>1 DEF Retire, TypeOK
  <2>2. CASE entry["artifact"] # None
    BY <2>2 DEF Retire, TypeOK, Names
  <2> QED
    BY <2>1, <2>2
<1>3. Apart(entry') /\ {entry'[n] : n \in Names} \ {None} = {entry[n] : n \in Names} \ {None}
  BY <1>1, <1>2 DEF DiskInv, DiskIn, Apart, Names
<1>4. PublishedIn(entry', entryKept, content, contentKept)
  BY <1>2 DEF DiskInv, DiskIn, PublishedIn
<1>5. PhaseInv'
  BY <1>1, <1>2 DEF PhaseInv, Filling, Publishing, Partial
<1> QED
  BY <1>1, <1>2, <1>3, <1>4, <1>5, NamesMove

(* The finished build takes the name.                                      *)
LEMMA MoveKeeps ==
  ASSUME IInv, Move PROVE IInv'
<1> USE DEF IInv
<1>1. /\ UNCHANGED <<entryKept, content, contentKept, identity, position, leaving, owed>>
      /\ pc = "moving" /\ pc' = "keeping" /\ owed = NoCount /\ entry["artifact"] = None
      /\ Whole(content[Partial]) /\ contentKept[Partial] = content[Partial]
      /\ entry' = [entry EXCEPT !["artifact"] = Partial, !["partial"] = None]
  BY DEF Move, Goto, diskVars, OwedInv, PhaseInv, Publishing
<1>2. /\ entry' \in [Names -> Directories \cup {None}]
      /\ entry'["partial"] = None
      /\ entry'["artifact"] = entry["partial"] /\ entry'["retired"] = entry["retired"]
  BY <1>1 DEF TypeOK, Names, Partial
<1>3. Apart(entry') /\ {entry'[n] : n \in Names} \ {None} = {entry[n] : n \in Names} \ {None}
  BY <1>1, <1>2 DEF DiskInv, DiskIn, Apart, Names
<1>4. PublishedIn(entry', entryKept, content, contentKept)
  BY <1>1, <1>2 DEF DiskInv, DiskIn, PublishedIn, Partial
<1>5. PhaseInv'
  BY <1>1, <1>2 DEF PhaseInv, Filling, Publishing, Partial
<1> QED
  BY <1>1, <1>2, <1>3, <1>4, <1>5, NamesMove

(* The disk takes the names in sight, and only then forgets directories.   *)
LEMMA NamesKept ==
  ASSUME IInv, entryKept' = entry, contentKept' = Reclaimed(entry, entry, contentKept),
         UNCHANGED <<entry, content>>
  PROVE  /\ DiskInv'
         /\ entryKept' \in [Names -> Directories \cup {None}]
         /\ contentKept' \in [Directories -> Contents]
         /\ Partial # None => contentKept'[Partial] = contentKept[Partial]
<1> USE DEF IInv
<1>1. entry["artifact"] # None => entry["artifact"] # entry["partial"]
  BY DEF DiskInv, DiskIn, Apart, Names
<1>2. DiskIn(entry, entry, content, contentKept)
  BY <1>1 DEF DiskInv, DiskIn, PublishedIn
<1>3. /\ entry \in [Names -> Directories \cup {None}] /\ contentKept \in [Directories -> Contents]
      /\ "partial" \in Names
  BY DEF TypeOK, Names
<1> QED
  BY <1>2, <1>3, ReclaimedDisk DEF DiskInv, Partial

(* Names the disk keeps.                                                   *)
LEMMA KeepNamesKeeps ==
  ASSUME IInv, KeepNames PROVE IInv'
<1> USE DEF IInv
<1>1. /\ UNCHANGED <<entry, content, identity, position, leaving, owed>>
      /\ pc = "keeping" /\ pc' = "tidying" /\ owed = NoCount
      /\ entryKept' = entry /\ contentKept' = Reclaimed(entry, entry, contentKept)
  BY DEF KeepNames, Goto, OwedInv
<1>2. TypeOK' /\ DiskInv'
  BY <1>1, NamesKept DEF TypeOK
<1>3. PhaseInv' /\ OwedInv'
  BY <1>1 DEF PhaseInv, Filling, Publishing, OwedInv
<1> QED
  BY <1>2, <1>3

(* The machine writes back what it likes.                                  *)
LEMMA WriteBackKeeps ==
  ASSUME IInv, WriteBack PROVE IInv'
<1> USE DEF IInv
<1>1. UNCHANGED <<entry, content, pc, identity, position, leaving, owed>>
  BY DEF WriteBack
<1>2. CASE entryKept' = entry /\ contentKept' = Reclaimed(entry, entry, contentKept)
  <2>1. TypeOK' /\ DiskInv'
    BY <1>1, <1>2, NamesKept DEF TypeOK
  <2>2. PhaseInv'
    BY <1>1, <1>2, NamesKept DEF PhaseInv, Filling, Publishing, Partial
  <2> QED
    BY <1>1, <2>1, <2>2 DEF OwedInv, Partial
<1>3. ASSUME entryKept' = entryKept, NEW d \in Named(entry),
             contentKept' = [contentKept EXCEPT ![d] = WithEntries(d)]
      PROVE  IInv'
  <2>1. d \in Directories /\ d # None /\ \E n \in Names : entry[n] = d
    BY NamedOnes DEF TypeOK
  <2>2. Sound(content[d], contentKept[d])
    BY <2>1 DEF DiskInv, DiskIn
  <2>3. /\ contentKept' \in [Directories -> Contents]
        /\ contentKept'[d] = WithEntries(d)
        /\ \A e \in Directories \ {d} : contentKept'[e] = contentKept[e]
    BY <1>3, <2>1, <2>2, EntriesKept DEF TypeOK
  <2>4. TypeOK'
    BY <1>1, <1>3, <2>3 DEF TypeOK
  <2>5. \A e \in Directories : Sound(content[e], contentKept'[e])
    BY <2>2, <2>3, EntriesKept DEF DiskInv, DiskIn
  <2>6. contentKept[d] = content[d] => contentKept'[d] = contentKept[d]
    BY <2>1, <2>2, <2>3, EntriesKept
  <2>7. PublishedIn(entry, entryKept, content, contentKept')
    <3>1. \A n \in Names : /\ entry[n] # None => entry[n] \in Directories
                           /\ entryKept[n] # None => entryKept[n] \in Directories
      BY DEF TypeOK
    <3>2. d = entryKept["artifact"] => contentKept[d] = content[d]
      <4> SUFFICES ASSUME d = entryKept["artifact"] PROVE contentKept[d] = content[d]
        OBVIOUS
      <4>1. d # entry["partial"]
        BY <2>1 DEF DiskInv, DiskIn, PublishedIn, Partial
      <4> QED
        BY <2>1, <4>1 DEF DiskInv, DiskIn, PublishedIn, Names
    <3> QED
      BY <2>3, <2>6, <3>1, <3>2 DEF DiskInv, DiskIn, PublishedIn, Names
  <2>8. DiskInv'
    BY <1>1, <1>3, <2>5, <2>7 DEF DiskInv, DiskIn
  <2>9. PhaseInv'
    <3>1. Partial # None => /\ contentKept'[Partial].row = contentKept[Partial].row
                            /\ contentKept[Partial] = content[Partial] =>
                                 contentKept'[Partial] = contentKept[Partial]
      BY <2>1, <2>2, <2>3, <2>6, PartialStands, EntriesKept
    <3> QED
      BY <1>1, <3>1 DEF PhaseInv, Filling, Publishing, Partial
  <2> QED
    BY <1>1, <2>4, <2>8, <2>9 DEF OwedInv, Partial
<1> QED
  BY <1>2, <1>3 DEF WriteBack

-----------------------------------------------------------------------------
(* What is left of a directory was kept, or was in sight over arrays.      *)
LEMMA RowsLeftAre ==
  ASSUME TypeOK, NEW d \in Directories, NEW f \in RowsLeft(d)
  PROVE  /\ f \in [Rows -> Identities \cup {None}]
         /\ contentKept[d].arrays # None =>
              \A i \in Rows : \/ f[i] = contentKept[d].row[i]
                              \/ content[d].arrays # None /\ f[i] = content[d].row[i]
<1>1. /\ contentKept[d].row \in [Rows -> Identities \cup {None}]
      /\ content[d].row \in [Rows -> Identities \cup {None}]
  BY DEF TypeOK, Contents
<1>2. CASE contentKept[d].arrays = None
  BY <1>2 DEF RowsLeft, Empty
<1>3. CASE contentKept[d].arrays # None
  <2>1. PICK W \in SUBSET {i \in Rows : /\ content[d].arrays # None
                                        /\ content[d].row[i] # contentKept[d].row[i]} :
          f = [i \in Rows |-> IF i \in W THEN content[d].row[i] ELSE contentKept[d].row[i]]
    BY <1>3 DEF RowsLeft
  <2> QED
    BY <1>1, <2>1
<1> QED
  BY <1>2, <1>3

(* What a directory can come back as.                                      *)
LEMMA LeftIs ==
  ASSUME TypeOK, NEW d \in Directories, NEW left \in Left(d)
  PROVE  /\ left \in Contents
         /\ left.arrays = contentKept[d].arrays /\ left.count = contentKept[d].count
         /\ left.row \in RowsLeft(d) /\ left.list \in ListsLeft(d)
<1>1. contentKept[d] \in Contents /\ content[d] \in Contents
  BY DEF TypeOK
<1>2. PICK f \in RowsLeft(d), l \in ListsLeft(d) :
        left = With(contentKept[d], f, l)
  BY DEF Left
<1>3. /\ left.arrays = contentKept[d].arrays /\ left.count = contentKept[d].count
      /\ left.row = f /\ left.list = l
  BY <1>1, <1>2 DEF Contents, With
<1>4. f \in [Rows -> Identities \cup {None}]
  BY RowsLeftAre
<1>5. l \in Identities \cup {None, "torn"}
  BY <1>1 DEF ListsLeft, Contents
<1>6. left \in Contents
  BY <1>1, <1>2, <1>4, <1>5 DEF Contents, With
<1> QED
  BY <1>3, <1>6

(* It is sound, and is what was published where that was.                  *)
LEMMA LeftSound ==
  ASSUME TypeOK, NEW d \in Directories, Sound(content[d], contentKept[d]), NEW left \in Left(d)
  PROVE  /\ Sound(left, left)
         /\ Whole(contentKept[d]) /\ content[d] \in {contentKept[d], Empty} =>
              left = contentKept[d]
<1>1. contentKept[d].arrays # None =>
        \A i \in Rows : \/ left.row[i] = contentKept[d].row[i]
                        \/ content[d].arrays # None /\ left.row[i] = content[d].row[i]
  BY LeftIs, RowsLeftAre
<1>2. /\ contentKept[d] \in Contents /\ content[d] \in Contents /\ left \in Contents
      /\ left.arrays = contentKept[d].arrays /\ left.count = contentKept[d].count
  BY LeftIs DEF TypeOK
<1>3. ASSUME left.arrays # None, NEW i \in Rows
      PROVE  /\ left.row[i] \in {None, left.arrays}
             /\ contentKept[d].row[i] = left.arrays => left.row[i] = left.arrays
  <2>1. contentKept[d].row[i] \in {None, left.arrays}
    BY <1>2, <1>3 DEF Sound, OfOneBuild
  <2>2. CASE left.row[i] = contentKept[d].row[i]
    BY <2>1, <2>2
  <2>3. CASE content[d].arrays # None /\ left.row[i] = content[d].row[i]
    <3>1. /\ content[d].arrays = left.arrays
          /\ content[d].row[i] \in {None, content[d].arrays}
          /\ contentKept[d].row[i] \in {None, content[d].row[i]}
      BY <1>2, <1>3, <2>3 DEF Sound, OfOneBuild, Agrees
    <3> QED
      BY <1>3, <2>3, <3>1
  <2> QED
    BY <1>1, <1>2, <1>3, <2>2, <2>3
<1>4. Sound(left, left)
  <2>1. OfOneBuild(contentKept[d], contentKept[d].row)
    BY DEF Sound
  <2>2. OfOneBuild(left, left.row)
    BY <1>2, <1>3, <2>1 DEF OfOneBuild
  <2> QED
    BY <2>2 DEF Sound, Agrees
<1>5. ASSUME Whole(contentKept[d]), content[d] \in {contentKept[d], Empty}
      PROVE  left = contentKept[d]
  <2>1. contentKept[d].arrays # None
    BY <1>5 DEF Whole, FilledTo
  <2>2. \A i \in Rows : left.row[i] = contentKept[d].row[i]
    BY <1>1, <1>5, <2>1, EmptyIsEmpty
  <2>3. left.row = contentKept[d].row
    BY <1>2, <2>2 DEF Contents
  <2>4. left.list = contentKept[d].list
    BY <1>5, LeftIs, EmptyIsEmpty DEF ListsLeft
  <2> QED
    BY <1>2, <2>3, <2>4 DEF Contents
<1> QED
  BY <1>4, <1>5

(* After a power loss what is in sight is what the disk kept.              *)
LEMMA PowerLossKeeps ==
  ASSUME IInv, PowerLoss PROVE IInv'
<1> USE DEF IInv
<1>1. /\ entry' = entryKept /\ entryKept' = entryKept /\ contentKept' = content'
      /\ pc' = "idle" /\ identity' = None /\ position' = 0 /\ leaving' = "no"
      /\ owed' = NoCount
  BY DEF PowerLoss, Leave, Goto
<1>2. PICK partial \in LeftUnder("partial"), artifact \in LeftUnder("artifact"),
           retired \in LeftUnder("retired") :
        content' = [d \in Directories |-> CASE d = entryKept["partial"] -> partial
                                            [] d = entryKept["artifact"] -> artifact
                                            [] d = entryKept["retired"] -> retired
                                            [] OTHER -> Empty]
  BY DEF PowerLoss
<1>3. /\ \A n \in Names : entryKept[n] \in Directories \cup {None}
      /\ \A d \in Directories : Sound(content[d], contentKept[d])
      /\ Apart(entryKept)
  BY DEF TypeOK, DiskInv, DiskIn
<1>4. \A n \in Names : entryKept[n] # None => LeftUnder(n) = Left(entryKept[n])
  BY DEF LeftUnder
<1>5. \A d \in Directories :
        \/ \E n \in Names : d = entryKept[n] /\ content'[d] \in Left(d)
        \/ d \notin Named(entryKept) /\ content'[d] = Empty
  <2> SUFFICES ASSUME NEW d \in Directories
               PROVE  \/ \E n \in Names : d = entryKept[n] /\ content'[d] \in Left(d)
                      \/ d \notin Named(entryKept) /\ content'[d] = Empty
    OBVIOUS
  <2>0. content'[d] = CASE d = entryKept["partial"] -> partial
                        [] d = entryKept["artifact"] -> artifact
                        [] d = entryKept["retired"] -> retired
                        [] OTHER -> Empty
    BY <1>2
  <2>1. CASE d = entryKept["partial"]
    BY <2>0, <2>1, <1>3, <1>4, NoneAssumption DEF Names
  <2>2. CASE d = entryKept["artifact"]
    BY <2>0, <2>2, <1>3, <1>4, NoneAssumption DEF Names, Apart
  <2>3. CASE d = entryKept["retired"]
    BY <2>0, <2>3, <1>3, <1>4, NoneAssumption DEF Names, Apart
  <2>4. CASE \A n \in Names : d # entryKept[n]
    BY <2>0, <2>4, NamedOnes DEF Names
  <2> QED
    BY <2>1, <2>2, <2>3, <2>4 DEF Names
<1>6. content' \in [Directories -> Contents] /\ \A d \in Directories : Sound(content'[d], content'[d])
  <2>1. \A d \in Directories : content'[d] \in Contents /\ Sound(content'[d], content'[d])
    BY <1>3, <1>5, LeftIs, LeftSound, EmptyIsEmpty
  <2>2. DOMAIN content' = Directories /\ content' = [d \in Directories |-> content'[d]]
    BY <1>2
  <2> QED
    BY <2>1, <2>2
<1>7. PublishedIn(entryKept, entryKept, content', content')
  <2>1. ASSUME entryKept["artifact"] # None
        PROVE  /\ entryKept["artifact"] # entryKept["partial"]
               /\ Whole(content'[entryKept["artifact"]])
    <3> DEFINE d == entryKept["artifact"]
    <3>1. d \in Directories /\ d \in Named(entryKept)
      BY <1>3, <2>1, NamedOnes DEF Names
    <3>2. Whole(contentKept[d]) /\ content[d] \in {contentKept[d], Empty}
      BY <2>1 DEF DiskInv, DiskIn, PublishedIn
    <3>3. content'[d] = contentKept[d]
      BY <1>3, <1>5, <3>1, <3>2, LeftSound
    <3> QED
      BY <1>3, <2>1, <3>2, <3>3 DEF Apart, Names
  <2> QED
    BY <2>1 DEF PublishedIn
<1>8. DiskInv'
  <2>1. \A d \in Directories \ Named(entryKept) : content'[d] = Empty
    BY <1>5, NamedOnes, NoneAssumption
  <2> QED
    BY <1>1, <1>3, <1>6, <1>7, <2>1 DEF DiskInv, DiskIn
<1>9. TypeOK'
  BY <1>1, <1>6, RowCountAssumption DEF TypeOK, Counts
<1>10. PhaseInv' /\ OwedInv'
  BY <1>1 DEF PhaseInv, Filling, Publishing, OwedInv
<1> QED
  BY <1>8, <1>9, <1>10

-----------------------------------------------------------------------------
(* Nothing is there at first.                                              *)
LEMMA InitIsSound == Init => IInv
<1> SUFFICES ASSUME Init PROVE IInv
  OBVIOUS
<1>1. /\ \A n \in Names : entry[n] = None /\ entryKept[n] = None
      /\ \A d \in Directories : content[d] = Empty /\ contentKept[d] = Empty
  BY DEF Init
<1>2. TypeOK
  BY EmptyIsEmpty, RowCountAssumption DEF Init, TypeOK, Counts
<1>3. DiskInv
  BY <1>1, EmptyIsEmpty DEF DiskInv, DiskIn, Apart, PublishedIn, Names
<1>4. PhaseInv /\ OwedInv
  BY DEF Init, PhaseInv, Filling, Publishing, OwedInv
<1> QED
  BY <1>2, <1>3, <1>4 DEF IInv

(* One lemma for each kind of step.                                        *)
LEMMA StepKeeps == IInv /\ [Next]_vars => IInv'
<1> SUFFICES ASSUME IInv, [Next]_vars PROVE IInv'
  OBVIOUS
<1>1. CASE Build
  BY <1>1, OpenKeeps, ClearKeeps, MakeKeeps, WriteRowKeeps, DueKeeps, FlushKeeps, CountKeeps,
     KeepCountKeeps, DropAndListKeep, SyncKeeps, RemoveRetiredKeeps, RetireKeeps, MoveKeeps,
     KeepNamesKeeps
  DEF Build
<1>2. CASE Kill \/ WriteBack \/ PowerLoss
  BY <1>2, KillKeeps, WriteBackKeeps, PowerLossKeeps
<1>3. CASE UNCHANGED vars
  BY <1>3 DEF vars, diskVars, IInv, TypeOK, DiskInv, PhaseInv, Partial, OwedInv
<1> QED
  BY <1>1, <1>2, <1>3 DEF Next

(* The inductive invariant: what is counted, published and owed, in sight  *)
(* and on disk (staged_rows.py, staging.py, atomic.py).                    *)
THEOREM Invariant == Spec => []IInv
<1> QED
  BY InitIsSound, StepKeeps, PTL DEF Spec

(* A count that stands over arrays is true.                                *)
LEMMA SoundCounts ==
  ASSUME NEW what \in Contents, NEW rows, OfOneBuild(what, rows),
         \A i \in Rows : rows[i] \in {None, what.row[i]},
         what.count # NoCount, what.arrays # None
  PROVE  CountIsTrue(what)
<1>1. /\ what.count.identity = what.arrays /\ what.arrays \in Identities
      /\ what.count.finished \in 0..RowCount
      /\ \A i \in Rows : i <= what.count.finished => rows[i] = what.arrays
  BY DEF OfOneBuild, Contents, Counts
<1>2. \A i \in 1..what.count.finished : i \in Rows /\ i <= what.count.finished
  BY <1>1, RowCountAssumption DEF Rows
<1>3. \A i \in 1..what.count.finished : what.row[i] = what.arrays
  BY <1>1, <1>2, NoneAssumption
<1> QED
  BY <1>1, <1>3 DEF CountIsTrue, FilledTo

(* Counts in sight and on disk stand over as many rows of their build, and *)
(* a build that was killed continues after its last one                    *)
(* (staged_rows.py, StagedRows.open and checkpoint).                       *)
THEOREM CountsAreAlwaysTrue == Spec => []CountsAreTrue
<1>1. IInv => CountsAreTrue
  <2> SUFFICES ASSUME IInv PROVE CountsAreTrue
    OBVIOUS
  <2>1. ASSUME NEW d \in Named(entry) PROVE CountIsTrue(content[d])
    <3>1. d \in Directories /\ content[d] \in Contents
      BY NamedOnes DEF IInv, TypeOK
    <3>2. Sound(content[d], contentKept[d])
      BY <3>1 DEF IInv, DiskInv, DiskIn
    <3> QED
      BY <3>1, <3>2, SoundCounts DEF Sound, Agrees, CountIsTrue
  <2>2. ASSUME NEW d \in Named(entryKept), NEW left \in Left(d) PROVE CountIsTrue(left)
    <3>1. TypeOK /\ d \in Directories
      BY NamedOnes DEF IInv, TypeOK
    <3>2. Sound(content[d], contentKept[d])
      BY <3>1 DEF IInv, DiskInv, DiskIn
    <3>3. Sound(left, left) /\ left \in Contents
      BY <3>1, <3>2, LeftSound, LeftIs
    <3> QED
      BY <3>3, SoundCounts DEF Sound, Agrees, CountIsTrue
  <2>3. ContinuesAfterItsLastCount
    BY DEF IInv, OwedInv, ContinuesAfterItsLastCount
  <2> QED
    BY <2>1, <2>2, <2>3 DEF CountsAreTrue, CountNeverAhead
<1> QED
  BY <1>1, Invariant, PTL

(* Whatever has the artifact's name, in sight or on disk, is a whole build *)
(* of one identity (staging.py, publish_staged).                           *)
THEOREM PublishedIsAlwaysWhole == Spec => []PublishedIsWhole
<1>1. IInv => PublishedIsWhole
  <2> SUFFICES ASSUME IInv PROVE PublishedIsWhole
    OBVIOUS
  <2>1. entry["artifact"] # None => Whole(content[entry["artifact"]])
    BY DEF IInv, DiskInv, DiskIn, PublishedIn
  <2>2. ASSUME entryKept["artifact"] # None, NEW left \in Left(entryKept["artifact"])
        PROVE  Whole(left)
    <3> DEFINE d == entryKept["artifact"]
    <3>1. TypeOK /\ d \in Directories
      BY <2>2 DEF IInv, TypeOK, Names
    <3>2. /\ Sound(content[d], contentKept[d])
          /\ Whole(contentKept[d]) /\ content[d] \in {contentKept[d], Empty}
      BY <2>2, <3>1 DEF IInv, DiskInv, DiskIn, PublishedIn
    <3>3. left = contentKept[d]
      BY <2>2, <3>1, <3>2, LeftSound
    <3> QED
      BY <3>2, <3>3
  <2> QED
    BY <2>1, <2>2 DEF PublishedIsWhole
<1> QED
  BY <1>1, Invariant, PTL
=============================================================================
