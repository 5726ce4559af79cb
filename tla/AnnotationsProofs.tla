------------------------- MODULE AnnotationsProofs -------------------------
(***************************************************************************)
(* Theorems about Annotations, for any samples, labels, gestures, files,   *)
(* catalogs and writers, and any bounds.                                   *)
(*                                                                         *)
(* Who acts holds the annotation write lock, so that what a write decided  *)
(* on is still right when it commits. Whoever commits began after every    *)
(* quiet moment there was, so that no entry of the history comes before    *)
(* one. And while the history begins, what a trigger would miss waits.     *)
(***************************************************************************)
EXTENDS Annotations, FiniteSetTheorems, WellFoundedInduction, TLAPS

Acting == {"claimed", "listed", "following", "decided", "written"}
Places == {"idle", "reached", "asked", "begun"} \cup Acting

PartialRows == UNION {[S -> Annotations \cup {None}] : S \in SUBSET Samples}
Entries == [at : Nat, rows : PartialRows]

TypesOK ==
  /\ table \in Rows
  /\ ranks \in [Tags -> Nat \cup {None}]
  /\ clock \in Nat \ {0}
  /\ began \in 1..clock \cup {None}
  /\ history \in Seq(Entries)
  /\ \A i \in 1..Len(history) : history[i].at \in 1..clock
  /\ occupant \in [Slots -> Samples \cup {None}]
  /\ stood \in Seq([rows : Rows, quiet : BOOLEAN])
  /\ Len(stood) = clock
  /\ lock \in Writers \cup {None}
  /\ preparing \in [at : 0..clock, holding : BOOLEAN, baseline : Rows]
  /\ pc \in [Writers -> Places]
  /\ job = [w \in Writers |-> job[w]]
  /\ begun \in [Writers -> 0..clock]
  /\ plan = [w \in Writers |-> plan[w]]

(* What a writer came to do.                                               *)
IsChange(j) ==
  \E g \in Gestures, S \in SUBSET Samples, anchors \in [Samples -> Slots \cup {None}] :
    j = [kind |-> "change", gesture |-> g, reach |-> S, anchors |-> anchors]
IsImport(j) == \E file \in Files : j = [kind |-> "import", file |-> file]
IsRestore(j) == \E moment \in 1..clock : j = [kind |-> "restore", moment |-> moment]
IsRelink(j) == j = [kind |-> "relink"]
IsFollowing(j) ==
  \E lost \in SUBSET {s \in Samples : table[s] # None} :
    \E S \in SUBSET lost :
      \E found \in [S -> Samples \cup {None}] :
        j = [kind |-> "relink", rows |-> table, lost |-> lost, found |-> found]

(* What it decided on is what it would decide on now.                      *)
Planned(w) ==
  \/ IsChange(job[w]) /\ plan[w] = PlanOfChange(table, job[w])
  \/ IsImport(job[w]) /\ plan[w] = job[w].file
  \/ /\ IsRestore(job[w])
     /\ Restorable(job[w].moment)
     /\ plan[w] = PlanOfRestore(table, job[w].moment)
  \/ IsFollowing(job[w]) /\ plan[w] = PlanOfRelink(table, job[w].found)

Ready(w) ==
  /\ pc[w] \in Acting => lock = w
  /\ pc[w] = "reached" => IsChange(job[w])
  /\ pc[w] \in {"asked", "begun", "claimed"} =>
       IsChange(job[w]) \/ IsImport(job[w]) \/ IsRelink(job[w]) \/ IsRestore(job[w])
  /\ pc[w] = "listed" => job[w] = [kind |-> "relink", rows |-> table]
  /\ pc[w] = "following" => IsFollowing(job[w])
  /\ pc[w] \in {"decided", "written"} => Planned(w)
  /\ pc[w] \notin {"decided", "written"} => plan[w] = NoPlan

(* What a history says of a sample at a moment.                            *)
In(h, s, m) == {i \in 1..Len(h) : h[i].at <= m /\ s \in DOMAIN h[i].rows}
Told(h, s, m) == IF In(h, s, m) = {} THEN None ELSE h[Max(In(h, s, m))].rows[s]

HistoryInv ==
  /\ began = None => history = <<>>
  /\ began # None =>
       /\ Len(history) > 0 /\ history[1].at = began
       /\ preparing = NotPreparing
       /\ \A s \in Samples : Told(history, s, clock) = table[s]
       /\ \A m \in began..clock :
            stood[m].quiet => \A s \in Samples : Told(history, s, m) = stood[m].rows[s]

(* Every quiet moment is before what is open now.                          *)
AfterQuiet(moment) == moment > 0 /\ \A m \in 1..clock : stood[m].quiet => m < moment

MomentsInv ==
  /\ \A w \in Writers : Open(pc[w]) => AfterQuiet(begun[w])
  /\ preparing # NotPreparing => AfterQuiet(preparing.at)

(* While the trigger is created, no row changes.                           *)
HoldInv ==
  preparing.holding =>
    /\ preparing.baseline = table
    /\ \A w \in Writers : pc[w] = "written" => plan[w] = NoPlan

(* Ranks, where labels came in by a process of this version.               *)
Apart == \A t, u \in Ranked : ranks[t] = ranks[u] => t = u
RanksInv ==
  /\ Apart
  /\ \E n \in Nat : \A t \in Ranked : ranks[t] <= n
  /\ RanksCover \/ (Ranked = {} /\ began = None /\ \A w \in Writers : pc[w] = "idle")

Inv ==
  /\ TypesOK
  /\ \A w \in Writers : Ready(w)
  /\ HistoryInv
  /\ MomentsInv
  /\ HoldInv
  /\ RanksInv

-----------------------------------------------------------------------------
(* A set of numbers has a least one...                                     *)
LEMMA LeastNumber ==
  ASSUME NEW T, T \subseteq Nat, T # {}
  PROVE  \E x \in T : \A y \in T : x <= y
<1>1. \A x, y \in Nat : x < y => <<x, y>> \in OpToRel(<, Nat)
  BY DEF OpToRel
<1>2. PICK R : IsWellFoundedOn(R, Nat) /\ \A x, y \in Nat : x < y => <<x, y>> \in R
  BY <1>1, NatLessThanWellFounded
<1>3. IsWellFoundedOn(R, Nat)
  BY <1>2
<1>4. \A x, y \in Nat : x < y => <<x, y>> \in R
  BY <1>2
<1>5. PICK x \in T : \A y \in T : ~ (<<y, x>> \in R)
  BY <1>3, WFMin
<1>6. ASSUME NEW y \in T
      PROVE  x <= y
  <2>1. x \in Nat /\ y \in Nat
    OBVIOUS
  <2>2. y < x => <<y, x>> \in R
    BY <1>4, <2>1
  <2>3. ~ (y < x)
    BY <2>2, <1>5
  <2> QED
    BY <2>1, <2>3
<1> QED
  BY <1>6

(* ...and, where it is bounded, a greatest one.                            *)
LEMMA GreatestNumber ==
  ASSUME NEW n \in Nat, NEW T, T \subseteq 0..n, T # {}
  PROVE  Max(T) \in T /\ \A y \in T : y <= Max(T)
<1> DEFINE D == {n - t : t \in T}
<1>1. \A t \in T : t \in Nat /\ n - t \in Nat
  OBVIOUS
<1>2. D \subseteq Nat /\ D # {}
  BY <1>1
<1>3. PICK d \in D : \A e \in D : d <= e
  BY <1>2, LeastNumber
<1>4. PICK x \in T : d = n - x
  BY <1>3
<1>5. ASSUME NEW y \in T
      PROVE  x >= y
  <2>1. d <= n - y
    BY <1>3
  <2> QED
    BY <1>1, <1>4, <2>1
<1>6. Max(T) \in T /\ \A y \in T : Max(T) >= y
  BY <1>5 DEF Max
<1> QED
  BY <1>1, <1>6

-----------------------------------------------------------------------------
(* Rows of some samples.                                                   *)
LEMMA PartialRowsAre ==
  ASSUME NEW p
  PROVE  p \in PartialRows <=>
           /\ p = [s \in DOMAIN p |-> p[s]]
           /\ DOMAIN p \subseteq Samples
           /\ \A s \in DOMAIN p : p[s] \in Annotations \cup {None}
<1>1. ASSUME p \in PartialRows
      PROVE  /\ p = [s \in DOMAIN p |-> p[s]]
             /\ DOMAIN p \subseteq Samples
             /\ \A s \in DOMAIN p : p[s] \in Annotations \cup {None}
  <2>1. PICK S \in SUBSET Samples : p \in [S -> Annotations \cup {None}]
    BY <1>1 DEF PartialRows
  <2> QED
    BY <2>1
<1>2. ASSUME p = [s \in DOMAIN p |-> p[s]], DOMAIN p \subseteq Samples,
             \A s \in DOMAIN p : p[s] \in Annotations \cup {None}
      PROVE  p \in PartialRows
  <2>1. p \in [DOMAIN p -> Annotations \cup {None}]
    BY <1>2
  <2> QED
    BY <1>2, <2>1 DEF PartialRows
<1> QED
  BY <1>1, <1>2

(* What a history says is its newest entry's.                              *)
LEMMA NewestSays ==
  ASSUME NEW h \in Seq(Entries), NEW s \in Samples, NEW m \in Nat, NEW e \in In(h, s, m),
         \A i \in In(h, s, m) : i <= e
  PROVE  Told(h, s, m) = h[e].rows[s]
<1>1. In(h, s, m) \subseteq 0..Len(h) /\ Len(h) \in Nat
  BY DEF In
<1>2. Max(In(h, s, m)) \in In(h, s, m) /\ e <= Max(In(h, s, m))
  BY <1>1, GreatestNumber
<1>3. Max(In(h, s, m)) <= e
  BY <1>2
<1>4. Max(In(h, s, m)) = e
  BY <1>1, <1>2, <1>3
<1> QED
  BY <1>4 DEF Told

(* It is what some entry says, or nothing where no entry speaks.           *)
LEMMA SomeEntrySays ==
  ASSUME NEW h \in Seq(Entries), NEW s \in Samples, NEW m \in Nat
  PROVE  \/ Told(h, s, m) = None /\ In(h, s, m) = {}
         \/ \E e \in In(h, s, m) :
              /\ \A i \in In(h, s, m) : i <= e
              /\ Told(h, s, m) = h[e].rows[s]
              /\ Told(h, s, m) \in Annotations \cup {None}
<1>1. In(h, s, m) \subseteq 0..Len(h) /\ Len(h) \in Nat
  BY DEF In
<1>2. CASE In(h, s, m) = {}
  BY <1>2 DEF Told
<1>3. CASE In(h, s, m) # {}
  <2> DEFINE e == Max(In(h, s, m))
  <2>1. e \in In(h, s, m) /\ \A i \in In(h, s, m) : i <= e
    BY <1>1, <1>3, GreatestNumber
  <2>2. Told(h, s, m) = h[e].rows[s]
    BY <1>3 DEF Told
  <2> HIDE DEF e
  <2>3. h[e].rows \in PartialRows /\ s \in DOMAIN h[e].rows
    <3>1. e \in 1..Len(h) /\ s \in DOMAIN h[e].rows
      BY <2>1 DEF In
    <3>2. h[e] \in Entries
      BY <3>1
    <3> QED
      BY <3>1, <3>2 DEF Entries
  <2>4. h[e].rows[s] \in Annotations \cup {None}
    BY <2>3, PartialRowsAre
  <2> QED
    BY <2>1, <2>2, <2>4
<1> QED
  BY <1>2, <1>3

(* An entry that is of a later moment, or speaks of other samples, changes *)
(* nothing; another says what it says.                                     *)
LEMMA AppendedSays ==
  ASSUME NEW h \in Seq(Entries), NEW e \in Entries, NEW s \in Samples, NEW m \in Nat
  PROVE  /\ e.at > m \/ s \notin DOMAIN e.rows => Told(Append(h, e), s, m) = Told(h, s, m)
         /\ e.at <= m /\ s \in DOMAIN e.rows => Told(Append(h, e), s, m) = e.rows[s]
<1> DEFINE g == Append(h, e)
<1>1. /\ g \in Seq(Entries) /\ Len(g) = Len(h) + 1 /\ Len(h) \in Nat
      /\ \A i \in 1..Len(h) : g[i] = h[i]
      /\ g[Len(h) + 1] = e
  OBVIOUS
<1> HIDE DEF g
<1>2. ASSUME e.at > m \/ s \notin DOMAIN e.rows
      PROVE  Told(g, s, m) = Told(h, s, m)
  <2>1. e.at \in Nat
    BY DEF Entries
  <2>2. ~ (e.at <= m /\ s \in DOMAIN e.rows)
    BY <1>2, <2>1
  <2>3. In(g, s, m) = In(h, s, m)
    BY <1>1, <2>2 DEF In
  <2>4. CASE In(h, s, m) = {}
    BY <2>3, <2>4 DEF Told
  <2>5. CASE In(h, s, m) # {}
    <3>1. PICK i \in In(h, s, m) : /\ \A k \in In(h, s, m) : k <= i
                                   /\ Told(h, s, m) = h[i].rows[s]
      BY <2>5, SomeEntrySays
    <3>2. Told(g, s, m) = g[i].rows[s]
      BY <1>1, <2>3, <3>1, NewestSays
    <3>3. g[i] = h[i]
      BY <1>1, <3>1 DEF In
    <3> QED
      BY <3>1, <3>2, <3>3
  <2> QED
    BY <2>4, <2>5
<1>3. ASSUME e.at <= m, s \in DOMAIN e.rows
      PROVE  Told(g, s, m) = e.rows[s]
  <2>1. Len(h) + 1 \in In(g, s, m) /\ \A i \in In(g, s, m) : i <= Len(h) + 1
    BY <1>1, <1>3 DEF In
  <2>2. Told(g, s, m) = g[Len(h) + 1].rows[s]
    BY <1>1, <2>1, NewestSays
  <2> QED
    BY <1>1, <2>2
<1> QED
  BY <1>2, <1>3 DEF g

(* Once every entry is past, nothing more is said.                         *)
LEMMA LaterSays ==
  ASSUME NEW h \in Seq(Entries), NEW s \in Samples, NEW m \in Nat, NEW n \in Nat,
         \A i \in 1..Len(h) : h[i].at <= m /\ h[i].at <= n
  PROVE  Told(h, s, m) = Told(h, s, n)
<1>1. In(h, s, m) = In(h, s, n)
  BY DEF In
<1> QED
  BY <1>1 DEF Told

(* The first entry of all.                                                 *)
LEMMA FirstSays ==
  ASSUME NEW e \in Entries, NEW s \in Samples, NEW m \in Nat, e.at <= m
  PROVE  Told(<<e>>, s, m) = IF s \in DOMAIN e.rows THEN e.rows[s] ELSE None
<1>1. <<e>> \in Seq(Entries) /\ Len(<<e>>) = 1 /\ <<e>>[1] = e
  OBVIOUS
<1>2. CASE s \in DOMAIN e.rows
  <2>1. 1 \in In(<<e>>, s, m) /\ \A i \in In(<<e>>, s, m) : i <= 1
    BY <1>1, <1>2 DEF In
  <2> QED
    BY <1>1, <1>2, <2>1, NewestSays
<1>3. CASE s \notin DOMAIN e.rows
  <2>1. In(<<e>>, s, m) = {}
    BY <1>1, <1>3 DEF In
  <2> QED
    BY <1>3, <2>1 DEF Told
<1> QED
  BY <1>2, <1>3

-----------------------------------------------------------------------------
(* What a row says.                                                        *)
LEMMA SaysIs ==
  ASSUME NEW row \in Annotations \cup {None}
  PROVE  /\ Says(row) \in Decisions
         /\ row = None <=> Says(row) = NoDecisions
         /\ row # None => row \in Annotations /\ Says(row) = row.decisions
<1>1. NoDecisions \in Decisions
  BY DEF NoDecisions, Decisions
<1>2. CASE row = None
  BY <1>1, <1>2 DEF Says
<1>3. CASE row # None
  <2>1. row \in Annotations /\ Says(row) = row.decisions
    BY <1>3 DEF Says
  <2>2. row.decisions \in Decisions \ {NoDecisions}
    BY <2>1 DEF Annotations
  <2> QED
    BY <1>3, <2>1, <2>2
<1> QED
  BY <1>2, <1>3

(* What a change makes of decisions.                                       *)
LEMMA ChangedIs ==
  ASSUME NEW d \in Decisions, NEW g \in Gestures
  PROVE  Changed(d, g) \in Decisions
<1>1. g \in AnnotationChanges
  BY GesturesAssumption
<1>2. d.label \in Labels \cup {None} /\ d.favorite \in BOOLEAN
  BY DEF Decisions
<1>3. g.label \in Labels \cup {None, Kept} /\ g.favorite \in BOOLEAN \cup {Kept}
  BY <1>1 DEF AnnotationChanges
<1> DEFINE label == IF g.label = Kept THEN d.label ELSE g.label
           favorite == IF g.favorite = Kept THEN d.favorite ELSE g.favorite
<1>4. label \in Labels \cup {None}
  BY <1>2, <1>3
<1>5. favorite \in BOOLEAN
  <2>1. CASE g.favorite = Kept
    BY <1>2, <2>1
  <2>2. CASE g.favorite # Kept
    BY <1>3, <2>2
  <2> QED
    BY <2>1, <2>2
<1>6. Changed(d, g) = [label |-> label, favorite |-> favorite]
  BY DEF Changed
<1> HIDE DEF label, favorite
<1> QED
  BY <1>4, <1>5, <1>6 DEF Decisions

(* Rows a plan may write.                                                  *)
PlanFits(p) ==
  /\ DOMAIN p \subseteq Samples
  /\ \A s \in DOMAIN p : p[s] \in Annotations \cup {None}

(* A gesture's plan changes what it says, wherever it writes.              *)
LEMMA ChangePlans ==
  ASSUME NEW t \in Rows, NEW j, IsChange(j)
  PROVE  /\ PlanFits(PlanOfChange(t, j))
         /\ \E g \in Gestures :
              \A s \in DOMAIN PlanOfChange(t, j) :
                Says(PlanOfChange(t, j)[s]) = Changed(Says(t[s]), g)
<1>1. PICK g \in Gestures, S \in SUBSET Samples, anchors \in [Samples -> Slots \cup {None}] :
        j = [kind |-> "change", gesture |-> g, reach |-> S, anchors |-> anchors]
  BY DEF IsChange
<1>2. j.gesture = g /\ j.reach = S /\ j.anchors = anchors
  BY <1>1
<1> DEFINE merged == [s \in S |-> Changed(Says(t[s]), g)]
           differing == {s \in S : merged[s] # Says(t[s])}
           removals == {s \in differing : merged[s] = NoDecisions}
           upserts == {s \in differing \ removals : AnchorFor(t, j, s) # None}
           p == [s \in removals \cup upserts |->
                   IF s \in removals THEN None
                   ELSE [decisions |-> merged[s], anchor |-> AnchorFor(t, j, s)]]
<1>3. PlanOfChange(t, j) = p
  BY <1>2 DEF PlanOfChange
<1>4. ASSUME NEW s \in S
      PROVE  /\ merged[s] = Changed(Says(t[s]), g)
             /\ merged[s] \in Decisions
             /\ AnchorFor(t, j, s) \in Slots \cup {None}
  <2>1. s \in Samples /\ t[s] \in Annotations \cup {None} /\ anchors[s] \in Slots \cup {None}
    BY DEF Rows
  <2>2. t[s] # None => t[s].anchor \in Slots
    BY <2>1 DEF Annotations
  <2>3. AnchorFor(t, j, s) \in Slots \cup {None}
    BY <1>2, <2>1, <2>2 DEF AnchorFor
  <2>4. Says(t[s]) \in Decisions
    BY <2>1, SaysIs
  <2> QED
    BY <2>3, <2>4, ChangedIs
<1>5. DOMAIN p = removals \cup upserts /\ DOMAIN p \subseteq S
  OBVIOUS
<1>6. ASSUME NEW s \in removals
      PROVE  p[s] = None /\ merged[s] = NoDecisions /\ s \in S
  OBVIOUS
<1>7. ASSUME NEW s \in upserts
      PROVE  p[s] \in Annotations /\ Says(p[s]) = merged[s] /\ s \in S
  <2>1. s \in S /\ s \notin removals /\ s \in differing /\ AnchorFor(t, j, s) # None
    OBVIOUS
  <2>2. merged[s] # NoDecisions
    BY <2>1
  <2>3. p[s] = [decisions |-> merged[s], anchor |-> AnchorFor(t, j, s)]
    BY <2>1
  <2>4. merged[s] \in Decisions \ {NoDecisions} /\ AnchorFor(t, j, s) \in Slots
    BY <1>4, <2>1, <2>2
  <2> HIDE DEF p, merged, removals, upserts, differing
  <2>5. p[s] \in Annotations
    BY <2>3, <2>4 DEF Annotations
  <2>6. p[s] # None
    BY <2>5, MarksAssumption
  <2> QED
    BY <2>1, <2>3, <2>5, <2>6 DEF Says
<1> HIDE DEF p, merged, removals, upserts, differing
<1>8. ASSUME NEW s \in DOMAIN p
      PROVE  /\ p[s] \in Annotations \cup {None}
             /\ Says(p[s]) = Changed(Says(t[s]), g)
             /\ s \in Samples
  <2>1. CASE s \in removals
    <3>1. Says(p[s]) = NoDecisions
      BY <1>6, <2>1 DEF Says
    <3> QED
      BY <1>4, <1>6, <2>1, <3>1
  <2>2. CASE s \in upserts
    BY <1>4, <1>7, <2>2
  <2> QED
    BY <1>5, <2>1, <2>2
<1>9. PlanFits(p)
  BY <1>8 DEF PlanFits
<1> QED
  BY <1>3, <1>8, <1>9

(* A file's plan is the file.                                              *)
LEMMA FilePlans ==
  ASSUME NEW file \in Files
  PROVE  PlanFits(file)
BY FilesAssumption DEF PlanFits

(* A restore's plan brings back what the history says of the moment.       *)
LEMMA RestorePlans ==
  ASSUME history \in Seq(Entries), NEW t \in Rows, NEW m \in Nat
  PROVE  /\ PlanFits(PlanOfRestore(t, m))
         /\ DOMAIN PlanOfRestore(t, m) = {s \in Samples : t[s] # Told(history, s, m)}
         /\ \A s \in DOMAIN PlanOfRestore(t, m) : PlanOfRestore(t, m)[s] = Told(history, s, m)
<1>1. AsOf(m) = [s \in Samples |-> Told(history, s, m)]
  BY DEF AsOf, EntriesOf, Told, In
<1>2. \A s \in Samples : Told(history, s, m) \in Annotations \cup {None}
  BY SomeEntrySays
<1> DEFINE p == PlanOfRestore(t, m)
<1>3. p = [s \in {u \in Samples : t[u] # Told(history, u, m)} |-> Told(history, s, m)]
  BY <1>1 DEF PlanOfRestore
<1> HIDE DEF p
<1>4. PlanFits(p)
  BY <1>2, <1>3 DEF PlanFits
<1> QED
  BY <1>3, <1>4 DEF p

(* A plan that moves rows to samples that have none, no two of them to     *)
(* one.                                                                    *)
Recovers(p, t, S, found) ==
  \E R \in SUBSET S :
    /\ DOMAIN p = R \cup {found[s] : s \in R}
    /\ \A s \in R : /\ found[s] \in Samples /\ t[found[s]] = None
                    /\ found[s] \notin R
                    /\ p[s] = None
                    /\ p[found[s]] = t[s]
    /\ \A s, u \in R : found[s] = found[u] => s = u

(* A relink's plan moves rows the table has, and removes none.             *)
LEMMA RelinkPlans ==
  ASSUME NEW t \in Rows, NEW S \in SUBSET {s \in Samples : t[s] # None},
         NEW found \in [S -> Samples \cup {None}]
  PROVE  /\ PlanFits(PlanOfRelink(t, found))
         /\ \A x \in DOMAIN PlanOfRelink(t, found) :
              \/ PlanOfRelink(t, found)[x] = None
              \/ \E s \in Samples : PlanOfRelink(t, found)[x] = t[s]
         /\ Recovers(PlanOfRelink(t, found), t, S, found)
<1> DEFINE R == {s \in DOMAIN found :
                   /\ found[s] # None
                   /\ t[found[s]] = None
                   /\ \A u \in DOMAIN found : found[u] = found[s] => u = s}
           p == [x \in R \cup {found[s] : s \in R} |->
                   IF x \in R THEN None ELSE t[CHOOSE s \in R : found[s] = x]]
<1>1. PlanOfRelink(t, found) = p
  BY DEF PlanOfRelink
<1>2. R \in SUBSET S
  OBVIOUS
<1>3. ASSUME NEW s \in R
      PROVE  /\ found[s] \in Samples /\ t[found[s]] = None /\ found[s] \notin R
             /\ \A u \in R : found[u] = found[s] => u = s
  <2>1. found[s] \in Samples /\ t[found[s]] = None
    OBVIOUS
  <2>2. found[s] \notin R
    BY <2>1
  <2> QED
    BY <2>1, <2>2
<1>4. ASSUME NEW s \in R
      PROVE  p[s] = None /\ p[found[s]] = t[s]
  <2>1. s \in R /\ found[s] \in {found[u] : u \in R} /\ found[s] \notin R
    BY <1>3
  <2>2. (CHOOSE u \in R : found[u] = found[s]) = s
    BY <1>3
  <2> HIDE DEF R
  <2>3. p[s] = None /\ p[found[s]] = t[CHOOSE u \in R : found[u] = found[s]]
    BY <2>1
  <2> QED
    BY <2>2, <2>3
<1>5. DOMAIN p = R \cup {found[s] : s \in R}
  OBVIOUS
<1> HIDE DEF R, p
<1>6. R \subseteq Samples /\ \A s \in Samples : t[s] \in Annotations \cup {None}
  BY <1>2 DEF Rows
<1>7. DOMAIN p \subseteq Samples
  BY <1>3, <1>5, <1>6
<1>8. \A x \in DOMAIN p : p[x] = None \/ \E s \in Samples : p[x] = t[s]
  BY <1>4, <1>5, <1>6
<1>9. PlanFits(p)
  BY <1>6, <1>7, <1>8 DEF PlanFits
<1>10. Recovers(p, t, S, found)
  BY <1>2, <1>3, <1>4, <1>5 DEF Recovers
<1> QED
  BY <1>1, <1>8, <1>9, <1>10

-----------------------------------------------------------------------------
(* The rank to give next is after every rank given.                        *)
LEMMA NextRankIs ==
  ASSUME ranks \in [Tags -> Nat \cup {None}],
         NEW n \in Nat, \A t \in Ranked : ranks[t] <= n
  PROVE  /\ NextRank \in Nat
         /\ \A t \in Ranked : ranks[t] \in Nat /\ ranks[t] < NextRank
<1>1. \A t \in Ranked : ranks[t] \in 0..n
  BY DEF Ranked
<1>2. CASE Ranked = {}
  BY <1>2 DEF NextRank
<1>3. CASE Ranked # {}
  <2> DEFINE given == {ranks[t] : t \in Ranked}
  <2>1. given \subseteq 0..n /\ given # {}
    BY <1>1, <1>3
  <2>2. Max(given) \in given /\ \A y \in given : y <= Max(given)
    BY <2>1, GreatestNumber
  <2>3. NextRank = Max(given) + 1
    BY <1>3 DEF NextRank
  <2>4. \A t \in Ranked : ranks[t] <= Max(given)
    BY <2>2
  <2>5. Max(given) \in Nat
    <3> HIDE DEF given
    <3>1. Max(given) \in 0..n
      BY <2>1, <2>2
    <3> QED
      BY <3>1
  <2> HIDE DEF given
  <2> QED
    BY <1>1, <2>3, <2>4, <2>5
<1> QED
  BY <1>2, <1>3

(* An order of tags numbers them one by one.                               *)
LEMMA OrderIs ==
  ASSUME NEW S \in SUBSET Tags, NEW order \in Bijection(S, 0..(Cardinality(S) - 1))
  PROVE  /\ Cardinality(S) \in Nat
         /\ \A t \in S : order[t] \in Nat /\ order[t] <= Cardinality(S)
         /\ \A t, u \in S : order[t] = order[u] => t = u
<1>1. IsFiniteSet(S)
  BY TagsAssumption, FS_Subset
<1>2. Cardinality(S) \in Nat
  BY <1>1, FS_CardinalityType
<1>3. order \in [S -> 0..(Cardinality(S) - 1)] /\ IsInjective(order)
  BY DEF Bijection, Injection
<1>4. \A t \in S : order[t] \in Nat /\ order[t] <= Cardinality(S)
  BY <1>2, <1>3
<1>5. \A t, u \in S : order[t] = order[u] => t = u
  BY <1>3 DEF IsInjective
<1> QED
  BY <1>2, <1>4, <1>5

(* Registering ranks what has none, after all there are, and takes none.   *)
LEMMA RegisterKeeps ==
  ASSUME ranks \in [Tags -> Nat \cup {None}], Apart,
         NEW n \in Nat, \A t \in Ranked : ranks[t] <= n,
         NEW labels \in SUBSET Labels, Register(labels)
  PROVE  /\ ranks' \in [Tags -> Nat \cup {None}]
         /\ Apart'
         /\ \E k \in Nat : \A t \in Ranked' : ranks'[t] <= k
         /\ \A t \in Ranked : t \in Ranked' /\ ranks'[t] = ranks[t]
         /\ \A l \in labels : TagsOf[l] \subseteq Ranked'
<1> DEFINE new == (UNION {TagsOf[l] : l \in labels}) \ Ranked
<1>1. new \in SUBSET Tags
  BY DEF Tags
<1>2. PICK order \in Bijection(new, 0..(Cardinality(new) - 1)) :
        ranks' = [t \in Tags |-> IF t \in new THEN NextRank + order[t] ELSE ranks[t]]
  BY DEF Register
<1>3. /\ Cardinality(new) \in Nat
      /\ \A t \in new : order[t] \in Nat /\ order[t] <= Cardinality(new)
      /\ \A t, u \in new : order[t] = order[u] => t = u
  BY <1>1, OrderIs
<1>4. /\ NextRank \in Nat
      /\ \A t \in Ranked : ranks[t] \in Nat /\ ranks[t] < NextRank
  BY NextRankIs
<1>5. new \cap Ranked = {} /\ Ranked \subseteq Tags
  <2>1. Ranked \subseteq Tags
    BY DEF Ranked
  <2> QED
    BY <2>1
<1>6. \A l \in labels : TagsOf[l] \subseteq new \cup Ranked
  OBVIOUS
<1> HIDE DEF new
<1>7. \A t \in new : ranks'[t] = NextRank + order[t]
  BY <1>1, <1>2
<1>8. \A t \in Tags \ new : ranks'[t] = ranks[t]
  BY <1>2
<1>9. ranks' \in [Tags -> Nat \cup {None}]
  BY <1>1, <1>2, <1>3, <1>4
<1>10. \A t \in new : ranks'[t] \in Nat /\ NextRank <= ranks'[t]
                      /\ ranks'[t] <= NextRank + Cardinality(new)
  BY <1>3, <1>4, <1>7
<1>11. Ranked' = Ranked \cup new
  <2>1. Ranked' = {t \in Tags : ranks'[t] # None} /\ Ranked = {t \in Tags : ranks[t] # None}
    BY DEF Ranked
  <2>2. \A t \in new : ranks'[t] # None
    BY <1>10, NoneAssumption
  <2> QED
    BY <1>1, <1>8, <2>1, <2>2
<1>12. \A t \in Ranked : t \in Ranked' /\ ranks'[t] = ranks[t]
  BY <1>5, <1>8, <1>11
<1>13. ASSUME NEW t \in Ranked', NEW u \in Ranked', ranks'[t] = ranks'[u]
       PROVE  t = u
  <2>1. CASE t \in Ranked /\ u \in Ranked
    BY <1>12, <1>13, <2>1 DEF Apart
  <2>2. CASE t \in new /\ u \in new
    BY <1>3, <1>4, <1>7, <1>13, <2>2
  <2>3. CASE t \in Ranked /\ u \in new
    <3>1. ranks'[t] < NextRank /\ NextRank <= ranks'[u] /\ ranks'[t] \in Nat
      BY <1>4, <1>10, <1>12, <2>3
    <3>2. ranks'[t] # ranks'[u]
      BY <1>4, <3>1
    <3> QED
      BY <1>13, <3>2
  <2>4. CASE t \in new /\ u \in Ranked
    <3>1. ranks'[u] < NextRank /\ NextRank <= ranks'[t] /\ ranks'[u] \in Nat
      BY <1>4, <1>10, <1>12, <2>4
    <3>2. ranks'[t] # ranks'[u]
      BY <1>4, <3>1
    <3> QED
      BY <1>13, <3>2
  <2> QED
    BY <1>11, <2>1, <2>2, <2>3, <2>4
<1>14. Apart'
  BY <1>13 DEF Apart
<1>15. \A t \in Ranked' : ranks'[t] <= NextRank + Cardinality(new)
  <2>1. \A t \in Ranked : ranks'[t] <= NextRank + Cardinality(new)
    BY <1>3, <1>4, <1>12
  <2> QED
    BY <1>10, <1>11, <2>1
<1>16. \A l \in labels : TagsOf[l] \subseteq Ranked'
  BY <1>6, <1>11
<1> QED
  BY <1>3, <1>4, <1>9, <1>12, <1>14, <1>15, <1>16

-----------------------------------------------------------------------------
(* A writer that a step leaves alone, and whose lock it does not take.     *)
Stays(v) ==
  /\ pc'[v] = pc[v] /\ job'[v] = job[v] /\ plan'[v] = plan[v] /\ begun'[v] = begun[v]
  /\ lock = v => lock' = v

WritersTypeOK ==
  /\ lock \in Writers \cup {None}
  /\ pc \in [Writers -> Places]
  /\ job = [w \in Writers |-> job[w]]
  /\ begun \in [Writers -> 0..clock]
  /\ plan = [w \in Writers |-> plan[w]]

(* It is still right, where nothing is written while it acts.              *)
LEMMA StaysReady ==
  ASSUME clock \in Nat, clock' \in Nat, clock <= clock',
         NEW v \in Writers, Ready(v), Stays(v),
         pc[v] \in Acting => UNCHANGED <<table, history, began>>
  PROVE  Ready(v)'
<1>1. pc'[v] = pc[v] /\ job'[v] = job[v] /\ plan'[v] = plan[v] /\ (lock = v => lock' = v)
  BY DEF Stays
<1>2. IsRestore(job[v]) => IsRestore(job[v])'
  BY <1>1 DEF IsRestore
<1>3. IsChange(job[v])' <=> IsChange(job[v])
  BY <1>1 DEF IsChange
<1>4. IsImport(job[v])' <=> IsImport(job[v])
  BY <1>1 DEF IsImport
<1>5. IsRelink(job[v])' <=> IsRelink(job[v])
  BY <1>1 DEF IsRelink
<1>6. pc[v] \in Acting /\ IsFollowing(job[v]) => IsFollowing(job[v])'
  BY <1>1 DEF IsFollowing
<1>7. ASSUME pc[v] \in {"decided", "written"}
      PROVE  Planned(v)'
  <2>1. Planned(v) /\ UNCHANGED <<table, history, began>>
    BY <1>7 DEF Ready, Acting
  <2>2. CASE IsChange(job[v]) /\ plan[v] = PlanOfChange(table, job[v])
    BY <1>1, <1>3, <2>1, <2>2 DEF Planned
  <2>3. CASE IsImport(job[v]) /\ plan[v] = job[v].file
    BY <1>1, <1>4, <2>1, <2>3 DEF Planned
  <2>4. CASE /\ IsRestore(job[v])
             /\ Restorable(job[v].moment)
             /\ plan[v] = PlanOfRestore(table, job[v].moment)
    <3>1. Restorable(job[v].moment)'
      BY <1>1, <2>1, <2>4 DEF Restorable
    <3>2. PlanOfRestore(table, job[v].moment)' = PlanOfRestore(table, job[v].moment)
      BY <1>1, <2>1 DEF PlanOfRestore, AsOf, EntriesOf
    <3> QED
      BY <1>1, <1>2, <2>4, <3>1, <3>2 DEF Planned
  <2>5. CASE IsFollowing(job[v]) /\ plan[v] = PlanOfRelink(table, job[v].found)
    BY <1>1, <1>6, <1>7, <2>1, <2>5 DEF Planned, Acting
  <2> QED
    BY <2>1, <2>2, <2>3, <2>4, <2>5 DEF Planned
<1>8. pc[v] = "listed" => job'[v] = [kind |-> "relink", rows |-> table']
  BY <1>1 DEF Ready, Acting
<1>9. pc[v] = "following" => IsFollowing(job[v])'
  BY <1>6 DEF Ready, Acting
<1> QED
  BY <1>1, <1>2, <1>3, <1>4, <1>5, <1>7, <1>8, <1>9 DEF Ready

-----------------------------------------------------------------------------
(* A step of one writer: it keeps the types of what writers have, and      *)
(* leaves the other writers alone.                                         *)
OneWriter(w) ==
  /\ WritersTypeOK'
  /\ \A v \in Writers \ {w} : Stays(v)

(* Where a writer that moved is, its labels are ranked.                    *)
LEMMA CoverHolds ==
  ASSUME Inv, NEW w \in Writers, pc[w] # "idle" \/ MayWrite
  PROVE  RanksCover
BY DEF Inv, RanksInv, MayWrite

(* A writer that moves without ending a transaction, or ends one that      *)
(* writes nothing, is right if it is ready for what comes next.            *)
LEMMA WriterMoves ==
  ASSUME Inv, NEW w \in Writers, OneWriter(w),
         UNCHANGED <<Stored, Time, preparing, occupant>>,
         Open(pc'[w]) => Open(pc[w]) /\ begun'[w] = begun[w],
         pc'[w] = "written" /\ preparing.holding => plan'[w] = NoPlan,
         RanksCover, Ready(w)'
  PROVE  Inv'
<1>1. TypesOK /\ HistoryInv /\ MomentsInv /\ HoldInv /\ RanksInv /\ \A v \in Writers : Ready(v)
  BY DEF Inv
<1>2. /\ UNCHANGED <<table, ranks, history, began, clock, stood, preparing, occupant>>
      /\ WritersTypeOK'
      /\ \A v \in Writers \ {w} : Stays(v)
  BY DEF Stored, Time, OneWriter
<1>3. TypesOK'
  BY <1>1, <1>2 DEF TypesOK, WritersTypeOK
<1>4. \A v \in Writers : Ready(v)'
  <2>1. clock \in Nat /\ clock' \in Nat /\ clock <= clock'
    BY <1>1, <1>2 DEF TypesOK
  <2>2. ASSUME NEW v \in Writers \ {w}
        PROVE  Ready(v)'
    BY <1>1, <1>2, <2>1, StaysReady
  <2> QED
    BY <2>2
<1>5. HistoryInv'
  BY <1>1, <1>2 DEF HistoryInv
<1>6. MomentsInv'
  <2>1. \A moment : AfterQuiet(moment)' <=> AfterQuiet(moment)
    BY <1>2 DEF AfterQuiet
  <2>2. ASSUME NEW v \in Writers, Open(pc'[v])
        PROVE  Open(pc[v]) /\ begun'[v] = begun[v]
    BY <1>2, <2>2 DEF Stays
  <2>3. \A v \in Writers : Open(pc'[v]) => AfterQuiet(begun[v])
    BY <1>1, <2>2 DEF MomentsInv
  <2>4. \A v \in Writers : Open(pc'[v]) => AfterQuiet(begun[v])' /\ begun'[v] = begun[v]
    BY <1>2, <2>2, <2>3 DEF AfterQuiet
  <2> QED
    BY <1>1, <1>2, <2>4 DEF MomentsInv, AfterQuiet
<1>7. HoldInv'
  BY <1>1, <1>2 DEF HoldInv, Stays
<1>8. RanksInv'
  BY <1>1, <1>2 DEF RanksInv, Apart, Ranked, RanksCover
<1> QED
  BY <1>3, <1>4, <1>5, <1>6, <1>7, <1>8 DEF Inv

(* A step that leaves writers alone.                                       *)
LEMMA NobodyMoves ==
  ASSUME Inv, UNCHANGED <<Stored, Time, lock, pc, job, begun, plan>>,
         preparing' \in [at : 0..clock, holding : BOOLEAN, baseline : Rows],
         occupant' \in [Slots -> Samples \cup {None}],
         preparing' # NotPreparing =>
           began = None /\ preparing # NotPreparing /\ preparing'.at = preparing.at,
         HoldInv'
  PROVE  Inv'
<1>1. TypesOK /\ HistoryInv /\ MomentsInv /\ HoldInv /\ RanksInv /\ \A v \in Writers : Ready(v)
  BY DEF Inv
<1>2. UNCHANGED <<table, ranks, history, began, clock, stood, lock, pc, job, begun, plan>>
  BY DEF Stored, Time
<1>3. TypesOK'
  BY <1>1, <1>2 DEF TypesOK
<1>4. \A v \in Writers : Ready(v)'
  <2>1. clock \in Nat /\ clock' \in Nat /\ clock <= clock'
    BY <1>1, <1>2 DEF TypesOK
  <2>2. ASSUME NEW v \in Writers
        PROVE  Ready(v)'
    <3>1. Stays(v)
      BY <1>2 DEF Stays
    <3> QED
      BY <1>1, <1>2, <2>1, <3>1, StaysReady
  <2> QED
    BY <2>2
<1>5. HistoryInv'
  BY <1>1, <1>2 DEF HistoryInv
<1>6. MomentsInv'
  BY <1>1, <1>2 DEF MomentsInv, AfterQuiet
<1>7. RanksInv'
  BY <1>1, <1>2 DEF RanksInv, Apart, Ranked, RanksCover
<1> QED
  BY <1>3, <1>4, <1>5, <1>6, <1>7 DEF Inv

-----------------------------------------------------------------------------
(* A writer is asked for something.                                        *)
LEMMA TakeKeeps ==
  ASSUME Inv, NEW w \in Writers, NEW j, NEW place \in {"reached", "asked"},
         Take(w, j, place),
         place = "reached" => IsChange(j),
         place = "asked" => IsChange(j) \/ IsImport(j) \/ IsRelink(j) \/ IsRestore(j)
  PROVE  Inv'
<1>1. /\ UNCHANGED <<table, ranks, history, began, clock, stood, preparing, occupant, lock, begun, plan>>
      /\ pc[w] = "idle" /\ MayWrite
      /\ job' = [job EXCEPT ![w] = j]
      /\ pc' = [pc EXCEPT ![w] = place]
  BY DEF Take, Goto, Stored, Time, Others
<1>2. TypesOK /\ WritersTypeOK /\ Ready(w)
  BY DEF Inv, TypesOK, WritersTypeOK
<1>3. OneWriter(w) /\ pc'[w] = place /\ job'[w] = j
  BY <1>1, <1>2 DEF OneWriter, WritersTypeOK, Stays, Places
<1>4. RanksCover
  BY <1>1, CoverHolds
<1>5. plan'[w] = NoPlan
  BY <1>1, <1>2 DEF Ready
<1>6. Ready(w)'
  BY <1>1, <1>3, <1>5 DEF Ready, Acting, IsChange, IsImport, IsRelink, IsRestore
<1> QED
  BY <1>1, <1>3, <1>4, <1>6, WriterMoves DEF Open, Stored, Time

(* A writer is asked for a gesture, a file, a relink or a restore.         *)
LEMMA AskKeeps ==
  ASSUME Inv, NEW w \in Writers, AskChange(w) \/ AskImport(w) \/ AskRelink(w) \/ AskRestore(w)
  PROVE  Inv'
<1>1. ASSUME AskChange(w) PROVE Inv'
  <2>1. PICK s \in Samples, g \in Gestures, S \in SUBSET Samples :
          Take(w, [kind |-> "change", gesture |-> g, reach |-> S, anchors |-> NoAnchors], "reached")
    BY <1>1 DEF AskChange
  <2>2. NoAnchors \in [Samples -> Slots \cup {None}]
    BY DEF NoAnchors
  <2>3. IsChange([kind |-> "change", gesture |-> g, reach |-> S, anchors |-> NoAnchors])
    BY <2>2 DEF IsChange
  <2> QED
    BY <2>1, <2>3, TakeKeeps
<1>2. ASSUME AskImport(w) PROVE Inv'
  <2>1. PICK file \in Files : Take(w, [kind |-> "import", file |-> file], "asked")
    BY <1>2 DEF AskImport
  <2>2. IsImport([kind |-> "import", file |-> file])
    BY DEF IsImport
  <2> QED
    BY <2>1, <2>2, TakeKeeps
<1>3. ASSUME AskRelink(w) PROVE Inv'
  <2>1. Take(w, [kind |-> "relink"], "asked") /\ IsRelink([kind |-> "relink"])
    BY <1>3 DEF AskRelink, IsRelink
  <2> QED
    BY <2>1, TakeKeeps
<1>4. ASSUME AskRestore(w) PROVE Inv'
  <2>1. PICK moment \in 1..clock : Take(w, [kind |-> "restore", moment |-> moment], "asked")
    BY <1>4 DEF AskRestore
  <2>2. IsRestore([kind |-> "restore", moment |-> moment])
    BY DEF IsRestore
  <2> QED
    BY <2>1, <2>2, TakeKeeps
<1> QED
  BY <1>1, <1>2, <1>3, <1>4

(* What a step of a writer that has begun, or is asked for, changes: where *)
(* it is, what it came to do and what it decided on.                       *)
Steps(w, place, j, p) ==
  /\ pc' = [pc EXCEPT ![w] = place]
  /\ job' = [job EXCEPT ![w] = j]
  /\ plan' = [plan EXCEPT ![w] = p]
  /\ UNCHANGED <<table, ranks, history, began, clock, stood, preparing, occupant, begun>>

(* Such a step keeps the invariant, where its writer is ready for the next.*)
LEMMA StepKeeps ==
  ASSUME Inv, NEW w \in Writers, NEW place \in Places, NEW j, NEW p, Steps(w, place, j, p),
         lock' = lock \/ (lock = None /\ lock' = w),
         pc[w] # "idle", Open(place) => Open(pc[w]),
         place = "written" /\ preparing.holding => p = NoPlan,
         Ready(w)'
  PROVE  Inv'
<1>1. UNCHANGED <<table, ranks, history, began, clock, stood, preparing, occupant, begun>>
  BY DEF Steps
<1>2. TypesOK /\ WritersTypeOK
  BY DEF Inv, TypesOK, WritersTypeOK
<1>3. pc'[w] = place /\ plan'[w] = p
  BY <1>2 DEF Steps, WritersTypeOK
<1>4. \A v \in Writers \ {w} : Stays(v)
  BY <1>2, NoneAssumption DEF Steps, WritersTypeOK, Stays
<1>5. WritersTypeOK'
  BY <1>2 DEF Steps, WritersTypeOK
<1>6. RanksCover
  BY CoverHolds
<1> QED
  BY <1>1, <1>3, <1>4, <1>5, <1>6, WriterMoves DEF OneWriter, Stored, Time

(* The slots a change's samples are found in.                              *)
LEMMA FindAnchorsKeeps ==
  ASSUME Inv, NEW w \in Writers, FindAnchors(w)
  PROVE  Inv'
<1> DEFINE at(s) == {slot \in Slots : occupant[slot] = s}
           found == [s \in Samples |-> IF s \in job[w].reach \cap Cataloged THEN Min(at(s)) ELSE None]
<1>1. TypesOK /\ Ready(w) /\ pc[w] = "reached"
  BY DEF Inv, FindAnchors
<1>2. found \in [Samples -> Slots \cup {None}]
  <2>1. ASSUME NEW s \in Cataloged
        PROVE  Min(at(s)) \in Slots
    <3>1. at(s) # {} /\ at(s) \subseteq Slots
      BY DEF Cataloged
    <3>2. at(s) \subseteq Nat
      BY <3>1, LastSlotAssumption DEF Slots
    <3> HIDE DEF at
    <3>3. \E x \in at(s) : \A y \in at(s) : x <= y
      BY <3>1, <3>2, LeastNumber
    <3>4. Min(at(s)) \in at(s)
      BY <3>3 DEF Min
    <3> QED
      BY <3>1, <3>4
  <2> HIDE DEF at
  <2> QED
    BY <2>1
<1>3. PICK g \in Gestures, S \in SUBSET Samples, anchors \in [Samples -> Slots \cup {None}] :
        job[w] = [kind |-> "change", gesture |-> g, reach |-> S, anchors |-> anchors]
  BY <1>1 DEF Ready, IsChange
<1> DEFINE j == [kind |-> "change", gesture |-> g, reach |-> S, anchors |-> found]
<1>4. IsChange(j)
  BY <1>2 DEF IsChange
<1> HIDE DEF found
<1>5. [job[w] EXCEPT !.anchors = found] = j
  BY <1>3
<1>6. job' = [job EXCEPT ![w] = [job[w] EXCEPT !.anchors = found]]
  BY DEF FindAnchors, found
<1>7. plan[w] = NoPlan
  BY <1>1 DEF Ready
<1>8. Steps(w, "asked", j, NoPlan) /\ lock' = lock
  BY <1>1, <1>5, <1>6, <1>7 DEF FindAnchors, Goto, Steps, TypesOK, Stored, Time, Others
<1>9. pc'[w] = "asked" /\ job'[w] = j /\ plan'[w] = NoPlan
  BY <1>1, <1>8 DEF Steps, TypesOK
<1> HIDE DEF j
<1>10. Ready(w)'
  BY <1>4, <1>9 DEF Ready, Acting, IsChange
<1> QED
  BY <1>1, <1>8, <1>10, StepKeeps DEF Places, Open

(* The lock is claimed where nobody has it.                                *)
LEMMA ClaimKeeps ==
  ASSUME Inv, NEW w \in Writers, Claim(w)
  PROVE  Inv'
<1>1. TypesOK /\ Ready(w) /\ pc[w] = "begun" /\ lock = None /\ lock' = w
  BY DEF Inv, Claim, LockFree
<1>2. Steps(w, "claimed", job[w], plan[w])
  BY <1>1 DEF Claim, Goto, Steps, TypesOK, Stored, Time, Others
<1>3. pc'[w] = "claimed" /\ job'[w] = job[w] /\ plan'[w] = plan[w] /\ clock' = clock
  BY <1>1, <1>2 DEF Steps, TypesOK
<1>4. IsRestore(job[w])' <=> IsRestore(job[w])
  BY <1>3 DEF IsRestore
<1>5. Ready(w)'
  BY <1>1, <1>3, <1>4 DEF Ready, IsChange, IsImport, IsRelink
<1> QED
  BY <1>1, <1>2, <1>5, StepKeeps DEF Places, Acting, Open

(* What is decided under the lock is what stands says.                     *)
LEMMA DecideKeeps ==
  ASSUME Inv, NEW w \in Writers, NEW p, Decide(w, p), pc[w] \in {"claimed", "following"},
         \/ IsChange(job[w]) /\ p = PlanOfChange(table, job[w])
         \/ IsImport(job[w]) /\ p = job[w].file
         \/ /\ IsRestore(job[w])
            /\ Restorable(job[w].moment)
            /\ p = PlanOfRestore(table, job[w].moment)
         \/ IsFollowing(job[w]) /\ p = PlanOfRelink(table, job[w].found)
  PROVE  Inv'
<1>1. TypesOK /\ Ready(w) /\ lock' = lock /\ lock = w
  BY DEF Inv, Decide, Ready, Acting
<1>2. Steps(w, "decided", job[w], p)
  BY <1>1 DEF Decide, Goto, Steps, TypesOK, Stored, Time, Others
<1>3. /\ pc'[w] = "decided" /\ job'[w] = job[w] /\ plan'[w] = p
      /\ UNCHANGED <<clock, table, history, began>>
  BY <1>1, <1>2 DEF Steps, TypesOK
<1>4. IsRestore(job[w])' <=> IsRestore(job[w])
  BY <1>3 DEF IsRestore
<1>5. IsFollowing(job[w])' <=> IsFollowing(job[w])
  BY <1>3 DEF IsFollowing
<1>6. Restorable(job[w].moment)' <=> Restorable(job[w].moment)
  BY <1>3 DEF Restorable
<1>7. PlanOfRestore(table, job[w].moment)' = PlanOfRestore(table, job[w].moment)
  BY <1>3 DEF PlanOfRestore, AsOf, EntriesOf
<1>8. Planned(w)'
  BY <1>3, <1>4, <1>5, <1>6, <1>7 DEF Planned, IsChange, IsImport
<1>9. Ready(w)'
  BY <1>1, <1>3, <1>8 DEF Ready
<1> QED
  BY <1>1, <1>2, <1>9, StepKeeps DEF Places, Acting, Open

(* A transaction that ends leaves its writer free, and the others alone.   *)
LEMMA EndedIs ==
  ASSUME TypesOK, NEW w \in Writers, Ended(w), clock' \in Nat, clock <= clock'
  PROVE  OneWriter(w) /\ Ready(w)' /\ pc'[w] = "idle"
<1>1. WritersTypeOK
  BY DEF TypesOK, WritersTypeOK
<1>2. /\ pc' = [pc EXCEPT ![w] = "idle"] /\ job' = [job EXCEPT ![w] = NoJob]
      /\ plan' = [plan EXCEPT ![w] = NoPlan] /\ begun' = [begun EXCEPT ![w] = 0]
      /\ lock' = IF lock = w THEN None ELSE lock
  BY DEF Ended, Goto
<1>3. pc'[w] = "idle" /\ plan'[w] = NoPlan
  BY <1>1, <1>2 DEF WritersTypeOK
<1>4. \A v \in Writers \ {w} : Stays(v)
  BY <1>1, <1>2 DEF WritersTypeOK, Stays
<1>5. WritersTypeOK'
  <2>1. clock \in Nat /\ \A k \in 0..clock : k \in 0..clock'
    BY DEF TypesOK
  <2>2. begun' \in [Writers -> 0..clock']
    BY <1>1, <1>2, <2>1 DEF WritersTypeOK
  <2>3. pc' \in [Writers -> Places]
    BY <1>1, <1>2 DEF WritersTypeOK, Places
  <2> QED
    BY <1>1, <1>2, <2>2, <2>3 DEF WritersTypeOK
<1>6. Ready(w)'
  BY <1>3 DEF Ready, Acting
<1> QED
  BY <1>3, <1>4, <1>5, <1>6 DEF OneWriter

(* A transaction ends, and wrote nothing.                                  *)
LEMMA EndedKeeps ==
  ASSUME Inv, NEW w \in Writers, Ended(w), pc[w] # "idle",
         UNCHANGED <<Stored, Time, preparing, occupant>>
  PROVE  Inv'
<1>1. TypesOK /\ clock' \in Nat /\ clock <= clock'
  BY DEF Inv, TypesOK, Time
<1>2. OneWriter(w) /\ Ready(w)' /\ pc'[w] = "idle"
  BY <1>1, EndedIs
<1>3. RanksCover
  BY CoverHolds
<1> QED
  BY <1>2, <1>3, WriterMoves DEF Open

(* What the samples hold is read, or a restore refused.                    *)
LEMMA ReadKeeps ==
  ASSUME Inv, NEW w \in Writers, Read(w)
  PROVE  Inv'
<1>1. Ready(w) /\ pc[w] = "claimed"
  BY DEF Inv, Read
<1>2. IsChange(job[w]) \/ IsImport(job[w]) \/ IsRelink(job[w]) \/ IsRestore(job[w])
  BY <1>1 DEF Ready
<1>3. /\ IsChange(job[w]) => job[w].kind = "change"
      /\ IsImport(job[w]) => job[w].kind = "import"
      /\ IsRelink(job[w]) => job[w].kind = "relink"
      /\ IsRestore(job[w]) => job[w].kind = "restore"
  <2>1. IsChange(job[w]) => job[w].kind = "change"
    BY DEF IsChange
  <2>2. IsImport(job[w]) => job[w].kind = "import"
    BY DEF IsImport
  <2>3. IsRelink(job[w]) => job[w].kind = "relink"
    BY DEF IsRelink
  <2>4. IsRestore(job[w]) => job[w].kind = "restore"
    BY DEF IsRestore
  <2> QED
    BY <2>1, <2>2, <2>3, <2>4
<1>4. CASE job[w].kind = "change" /\ Decide(w, PlanOfChange(table, job[w]))
  BY <1>1, <1>2, <1>3, <1>4, DecideKeeps
<1>5. CASE job[w].kind = "import" /\ Decide(w, job[w].file)
  BY <1>1, <1>2, <1>3, <1>5, DecideKeeps
<1>6. CASE /\ job[w].kind = "restore" /\ Restorable(job[w].moment)
           /\ Decide(w, PlanOfRestore(table, job[w].moment))
  BY <1>1, <1>2, <1>3, <1>6, DecideKeeps
<1>7. CASE Ended(w) /\ UNCHANGED <<Stored, Time, Others, preparing, jobs>>
  BY <1>1, <1>7, EndedKeeps DEF Others
<1> QED
  BY <1>4, <1>5, <1>6, <1>7 DEF Read

(* A relink reads every annotation...                                      *)
LEMMA ReadAllKeeps ==
  ASSUME Inv, NEW w \in Writers, ReadAll(w)
  PROVE  Inv'
<1> DEFINE j == [kind |-> "relink", rows |-> table]
<1>1. TypesOK /\ Ready(w) /\ pc[w] = "claimed" /\ lock' = lock /\ lock = w
  BY DEF Inv, ReadAll, Ready, Acting
<1>2. plan[w] = NoPlan
  BY <1>1 DEF Ready
<1>3. Steps(w, "listed", j, NoPlan)
  BY <1>1, <1>2 DEF ReadAll, Goto, Steps, TypesOK, Stored, Time, Others
<1>4. pc'[w] = "listed" /\ job'[w] = j /\ plan'[w] = NoPlan /\ table' = table
  BY <1>1, <1>3 DEF Steps, TypesOK
<1>5. Ready(w)'
  BY <1>1, <1>4 DEF Ready
<1> QED
  BY <1>1, <1>3, <1>5, StepKeeps DEF Places, Acting, Open

(* ...which of their samples are lost...                                   *)
LEMMA ReadLostKeeps ==
  ASSUME Inv, NEW w \in Writers, ReadLost(w)
  PROVE  Inv'
<1> DEFINE lost == {s \in Samples : job[w].rows[s] # None} \ Cataloged
           j == [kind |-> "relink", rows |-> job[w].rows, lost |-> lost, found |-> NoPlan]
<1>1. TypesOK /\ Ready(w) /\ pc[w] = "listed" /\ lock' = lock /\ lock = w
  BY DEF Inv, ReadLost, Ready, Acting
<1>2. plan[w] = NoPlan /\ job[w] = [kind |-> "relink", rows |-> table]
  BY <1>1 DEF Ready
<1>3. Steps(w, "following", j, NoPlan)
  BY <1>1, <1>2 DEF ReadLost, Goto, Steps, TypesOK, Stored, Time, Others
<1>4. pc'[w] = "following" /\ job'[w] = j /\ plan'[w] = NoPlan /\ table' = table
  BY <1>1, <1>3 DEF Steps, TypesOK
<1>5. IsFollowing(j)
  <2>1. j.rows = table /\ job[w].rows = table /\ lost \in SUBSET {s \in Samples : table[s] # None}
    BY <1>2
  <2>2. NoPlan \in [{} -> Samples \cup {None}]
    BY DEF NoPlan
  <2> HIDE DEF lost
  <2>3. {} \in SUBSET lost
    OBVIOUS
  <2> QED
    BY <2>1, <2>2, <2>3 DEF IsFollowing
<1> HIDE DEF j
<1>6. IsFollowing(job[w])'
  BY <1>4, <1>5 DEF IsFollowing
<1>7. Ready(w)'
  BY <1>1, <1>4, <1>6 DEF Ready
<1> QED
  BY <1>1, <1>3, <1>7, StepKeeps DEF Places, Acting, Open

(* ...and what each lost one's slot holds.                                 *)
LEMMA FollowKeeps ==
  ASSUME Inv, NEW w \in Writers, Follow(w)
  PROVE  Inv'
<1>17. TypesOK /\ Ready(w) /\ pc[w] = "following" /\ lock' = lock /\ lock = w
  BY DEF Inv, Follow, Ready, Acting
<1>18. plan[w] = NoPlan /\ IsFollowing(job[w])
  BY <1>17 DEF Ready
<1>19. PICK lost \in SUBSET {s \in Samples : table[s] # None} :
        \E S \in SUBSET lost :
          \E found \in [S -> Samples \cup {None}] :
            job[w] = [kind |-> "relink", rows |-> table, lost |-> lost, found |-> found]
  BY <1>18 DEF IsFollowing
<1>4. PICK S \in SUBSET lost :
         \E found \in [S -> Samples \cup {None}] :
           job[w] = [kind |-> "relink", rows |-> table, lost |-> lost, found |-> found]
  BY <1>19
<1>5. PICK found \in [S -> Samples \cup {None}] :
        job[w] = [kind |-> "relink", rows |-> table, lost |-> lost, found |-> found]
  BY <1>4
<1>6. job[w].lost = lost /\ job[w].found = found /\ job[w].rows = table /\ DOMAIN found = S
  BY <1>5
<1>7. PICK s \in job[w].lost \ DOMAIN job[w].found :
         job' = [job EXCEPT ![w] = [job[w] EXCEPT !.found =
                  [t \in DOMAIN job[w].found \cup {s} |->
                     IF t = s THEN occupant[job[w].rows[s].anchor] ELSE job[w].found[t]]]]
  BY DEF Follow
<1>8. /\ s \in lost \ S
      /\ job' = [job EXCEPT ![w] = [job[w] EXCEPT !.found =
                   [t \in S \cup {s} |-> IF t = s THEN occupant[table[s].anchor] ELSE found[t]]]]
  BY <1>6, <1>7
<1> DEFINE more == [t \in S \cup {s} |-> IF t = s THEN occupant[table[s].anchor] ELSE found[t]]
           j == [kind |-> "relink", rows |-> table, lost |-> lost, found |-> more]
<1>9. more \in [S \cup {s} -> Samples \cup {None}]
  <2>1. table[s] \in Annotations
    BY <1>17, <1>8 DEF TypesOK, Rows
  <2>2. table[s].anchor \in Slots
    BY <2>1 DEF Annotations
  <2>3. occupant[table[s].anchor] \in Samples \cup {None}
    BY <1>17, <2>2 DEF TypesOK
  <2> QED
    BY <2>3
<1> HIDE DEF more
<1>10. [job[w] EXCEPT !.found = more] = j
  BY <1>5
<1>11. job' = [job EXCEPT ![w] = j]
  BY <1>8, <1>10 DEF more
<1>12. IsFollowing(j)
  <2>1. S \cup {s} \in SUBSET lost
    BY <1>8
  <2> QED
    BY <1>9, <2>1 DEF IsFollowing
<1> HIDE DEF j
<1>13. Steps(w, "following", j, NoPlan)
  <2>1. UNCHANGED <<table, ranks, history, began, clock, stood, preparing, occupant, begun, pc, plan>>
    BY DEF Follow, Stored, Time, Others
  <2> QED
    BY <1>17, <1>18, <1>11, <2>1 DEF Steps, TypesOK
<1>14. pc'[w] = "following" /\ job'[w] = j /\ plan'[w] = NoPlan /\ table' = table
  BY <1>17, <1>13 DEF Steps, TypesOK
<1>15. IsFollowing(job[w])'
  BY <1>12, <1>14 DEF IsFollowing
<1>16. Ready(w)'
  BY <1>17, <1>14, <1>15 DEF Ready
<1> QED
  BY <1>17, <1>13, <1>16, StepKeeps DEF Places, Acting, Open

(* ...and from that it decides what moves.                                 *)
LEMMA RelinkKeeps ==
  ASSUME Inv, NEW w \in Writers, Relink(w)
  PROVE  Inv'
<1>17. Ready(w) /\ pc[w] = "following" /\ Decide(w, PlanOfRelink(job[w].rows, job[w].found))
  BY DEF Inv, Relink
<1>18. IsFollowing(job[w])
  BY <1>17 DEF Ready
<1>19. job[w].rows = table
  BY <1>18 DEF IsFollowing
<1> QED
  BY <1>17, <1>18, <1>19, DecideKeeps

(* Rows are written where no trigger is being created, or none are.        *)
LEMMA WriteKeeps ==
  ASSUME Inv, NEW w \in Writers, Write(w)
  PROVE  Inv'
<1>1. TypesOK /\ Ready(w) /\ pc[w] = "decided" /\ lock' = lock /\ lock = w
  BY DEF Inv, Write, Ready, Acting
<1>2. Steps(w, "written", job[w], plan[w])
  BY <1>1 DEF Write, Goto, Steps, TypesOK, Stored, Time, Others
<1>3. /\ pc'[w] = "written" /\ job'[w] = job[w] /\ plan'[w] = plan[w]
      /\ UNCHANGED <<clock, table, history, began>>
  BY <1>1, <1>2 DEF Steps, TypesOK
<1>4. IsRestore(job[w])' <=> IsRestore(job[w])
  BY <1>3 DEF IsRestore
<1>5. IsFollowing(job[w])' <=> IsFollowing(job[w])
  BY <1>3 DEF IsFollowing
<1>6. Restorable(job[w].moment)' <=> Restorable(job[w].moment)
  BY <1>3 DEF Restorable
<1>7. PlanOfRestore(table, job[w].moment)' = PlanOfRestore(table, job[w].moment)
  BY <1>3 DEF PlanOfRestore, AsOf, EntriesOf
<1>8. Planned(w)
  BY <1>1 DEF Ready
<1>9. Planned(w)'
  BY <1>3, <1>4, <1>5, <1>6, <1>7, <1>8 DEF Planned, IsChange, IsImport
<1>10. Ready(w)'
  BY <1>1, <1>3, <1>9 DEF Ready
<1>11. preparing.holding => plan[w] = NoPlan
  BY DEF Write
<1> QED
  BY <1>1, <1>2, <1>10, <1>11, StepKeeps DEF Places, Acting, Open

(* A transaction that is lost leaves what stood.                           *)
LEMMA RollBackKeeps ==
  ASSUME Inv, NEW w \in Writers, RollBack(w)
  PROVE  Inv'
<1>1. pc[w] # "idle" /\ Ended(w) /\ UNCHANGED <<Stored, Time, preparing, occupant>>
  BY DEF RollBack, Open, Others
<1> QED
  BY <1>1, EndedKeeps

-----------------------------------------------------------------------------
(* A moment more.                                                          *)
LEMMA TickIs ==
  ASSUME TypesOK, Tick, table' \in Rows
  PROVE  /\ clock \in Nat \ {0} /\ clock' = clock + 1 /\ clock' \in Nat \ {0} /\ clock <= clock'
         /\ stood' \in Seq([rows : Rows, quiet : BOOLEAN]) /\ Len(stood') = clock'
         /\ \A m \in 1..clock : stood'[m] = stood[m]
         /\ stood'[clock + 1].rows = table'
         /\ stood'[clock + 1].quiet => /\ \A w \in Writers : ~ Open(pc'[w])
                                       /\ preparing' = NotPreparing
<1> DEFINE q == ~ UnderWay(pc') /\ preparing' = NotPreparing
           r == [rows |-> table', quiet |-> q]
<1>1. clock' = clock + 1 /\ stood' = Append(stood, r)
  BY DEF Tick
<1>2. r \in [rows : Rows, quiet : BOOLEAN] /\ r.rows = table' /\ r.quiet = q
  OBVIOUS
<1>3. q => (\A w \in Writers : ~ Open(pc'[w])) /\ preparing' = NotPreparing
  BY DEF UnderWay
<1>4. /\ clock \in Nat \ {0}
      /\ stood \in Seq([rows : Rows, quiet : BOOLEAN]) /\ Len(stood) = clock
  BY DEF TypesOK
<1> HIDE DEF q, r
<1>5. /\ stood' \in Seq([rows : Rows, quiet : BOOLEAN]) /\ Len(stood') = clock + 1
      /\ \A m \in 1..clock : stood'[m] = stood[m]
      /\ stood'[clock + 1] = r
  BY <1>1, <1>2, <1>4
<1>6. clock' \in Nat \ {0} /\ clock <= clock'
  BY <1>1, <1>4
<1> QED
  BY <1>1, <1>2, <1>3, <1>4, <1>5, <1>6

(* What is open at a moment that is not quiet stays after every quiet one. *)
LEMMA StillAfterQuiet ==
  ASSUME clock \in Nat \ {0}, clock' = clock + 1, \A m \in 1..clock : stood'[m] = stood[m],
         ~ stood'[clock + 1].quiet
  PROVE  /\ \A moment \in Nat : AfterQuiet(moment) => AfterQuiet(moment)'
         /\ \A moment \in Nat : moment = clock + 1 => AfterQuiet(moment)'
<1>1. \A m \in 1..clock' : m \in 1..clock \/ m = clock + 1
  OBVIOUS
<1>2. \A m \in 1..clock' : stood'[m].quiet => m \in 1..clock /\ stood[m].quiet
  BY <1>1
<1> QED
  BY <1>2 DEF AfterQuiet

(* A history that is left as it is tells what it told.                     *)
LEMMA HistoryStands ==
  ASSUME TypesOK, HistoryInv, UNCHANGED <<table, history, began>>,
         clock' = clock + 1, \A m \in 1..clock : stood'[m] = stood[m],
         ~ stood'[clock + 1].quiet, began # None => preparing' = preparing
  PROVE  HistoryInv'
<1>1. /\ clock \in Nat \ {0} /\ history \in Seq(Entries)
      /\ \A i \in 1..Len(history) : history[i].at \in 1..clock
  BY DEF TypesOK
<1>2. CASE began = None
  BY <1>2 DEF HistoryInv
<1>3. CASE began # None
  <2>1. /\ Len(history) > 0 /\ history[1].at = began
        /\ preparing = NotPreparing
        /\ \A s \in Samples : Told(history, s, clock) = table[s]
        /\ \A m \in began..clock :
             stood[m].quiet => \A s \in Samples : Told(history, s, m) = stood[m].rows[s]
    BY <1>3 DEF HistoryInv
  <2>2. ASSUME NEW s \in Samples
        PROVE  Told(history, s, clock + 1) = table[s]
    <3>1. \A i \in 1..Len(history) : history[i].at <= clock + 1 /\ history[i].at <= clock
      BY <1>1
    <3>2. Told(history, s, clock + 1) = Told(history, s, clock)
      BY <1>1, <3>1, LaterSays
    <3> QED
      BY <2>1, <3>2
  <2>3. began \in 1..clock
    BY <1>3 DEF TypesOK
  <2>4. ASSUME NEW m \in began..(clock + 1), stood'[m].quiet
        PROVE  \A s \in Samples : Told(history, s, m) = stood'[m].rows[s]
    <3>1. m \in began..clock /\ m \in 1..clock
      <4>1. m # clock + 1
        BY <2>4
      <4> QED
        BY <1>1, <2>3, <4>1
    <3> QED
      BY <2>1, <2>4, <3>1
  <2> QED
    BY <1>3, <2>1, <2>2, <2>4 DEF HistoryInv
<1> QED
  BY <1>2, <1>3

(* A transaction begins.                                                   *)
LEMMA BeginKeeps ==
  ASSUME Inv, NEW w \in Writers, Begin(w)
  PROVE  Inv'
<1>1. TypesOK /\ HistoryInv /\ MomentsInv /\ HoldInv /\ RanksInv /\ \A v \in Writers : Ready(v)
  BY DEF Inv
<1>2. /\ UNCHANGED <<table, ranks, history, began, occupant, lock, preparing, job, plan>>
      /\ pc[w] = "asked" /\ Tick
      /\ pc' = [pc EXCEPT ![w] = "begun"]
      /\ begun' = [begun EXCEPT ![w] = clock + 1]
  BY DEF Begin, Goto, Stored, Others
<1>3. table' \in Rows
  BY <1>1, <1>2 DEF TypesOK
<1>4. /\ clock \in Nat \ {0} /\ clock' = clock + 1 /\ clock' \in Nat \ {0} /\ clock <= clock'
      /\ stood' \in Seq([rows : Rows, quiet : BOOLEAN]) /\ Len(stood') = clock'
      /\ \A m \in 1..clock : stood'[m] = stood[m]
      /\ stood'[clock + 1].quiet => \A v \in Writers : ~ Open(pc'[v])
  BY <1>1, <1>2, <1>3, TickIs
<1>5. /\ pc'[w] = "begun" /\ begun'[w] = clock + 1 /\ job'[w] = job[w] /\ plan'[w] = plan[w]
      /\ \A v \in Writers \ {w} : Stays(v)
  BY <1>1, <1>2 DEF TypesOK, Stays
<1>6. ~ stood'[clock + 1].quiet
  BY <1>4, <1>5 DEF Open
<1>7. WritersTypeOK'
  <2>1. clock + 1 \in 0..clock' /\ \A k \in 0..clock : k \in 0..clock'
    BY <1>4
  <2>2. begun' \in [Writers -> 0..clock']
    BY <1>1, <1>2, <2>1 DEF TypesOK
  <2>3. pc' \in [Writers -> Places]
    BY <1>1, <1>2 DEF TypesOK, Places
  <2> QED
    BY <1>1, <1>2, <2>2, <2>3 DEF TypesOK, WritersTypeOK
<1>8. TypesOK'
  BY <1>1, <1>2, <1>4, <1>7 DEF TypesOK, WritersTypeOK
<1>9. ASSUME NEW v \in Writers
      PROVE  Ready(v)'
  <2>1. CASE v = w
    <3>1. Ready(w)
      BY <1>1
    <3>2. IsRestore(job[w]) => IsRestore(job[w])'
      BY <1>4, <1>5 DEF IsRestore
    <3>3. plan'[w] = NoPlan
      BY <1>2, <1>5, <3>1 DEF Ready
    <3>4. /\ IsChange(job[w])' <=> IsChange(job[w])
          /\ IsImport(job[w])' <=> IsImport(job[w])
          /\ IsRelink(job[w])' <=> IsRelink(job[w])
      BY <1>5 DEF IsChange, IsImport, IsRelink
    <3>5. (IsChange(job[w]) \/ IsImport(job[w]) \/ IsRelink(job[w]) \/ IsRestore(job[w]))'
      BY <1>2, <3>1, <3>2, <3>4 DEF Ready
    <3> QED
      BY <1>5, <2>1, <3>3, <3>5 DEF Ready, Acting
  <2>2. CASE v # w
    BY <1>1, <1>2, <1>4, <1>5, <2>2, StaysReady
  <2> QED
    BY <2>1, <2>2
<1>10. HistoryInv'
  BY <1>1, <1>2, <1>4, <1>6, HistoryStands
<1>11. MomentsInv'
  <2>1. /\ \A moment \in Nat : AfterQuiet(moment) => AfterQuiet(moment)'
        /\ \A moment \in Nat : moment = clock + 1 => AfterQuiet(moment)'
    BY <1>4, <1>6, StillAfterQuiet
  <2>2. ASSUME NEW v \in Writers, Open(pc'[v])
        PROVE  AfterQuiet(begun[v])'
    <3>1. CASE v = w
      <4>1. begun'[v] = clock + 1
        BY <1>5, <3>1
      <4> QED
        BY <1>4, <2>1, <4>1 DEF AfterQuiet
    <3>2. CASE v # w
      <4>1. Open(pc[v]) /\ begun'[v] = begun[v] /\ begun[v] \in Nat
        BY <1>1, <1>5, <2>2, <3>2 DEF Stays, TypesOK
      <4>2. AfterQuiet(begun[v])
        BY <1>1, <4>1 DEF MomentsInv
      <4> QED
        BY <2>1, <4>1, <4>2 DEF AfterQuiet
    <3> QED
      BY <3>1, <3>2
  <2>3. preparing' # NotPreparing => AfterQuiet(preparing.at)'
    <3>1. preparing.at \in Nat /\ preparing' = preparing
      BY <1>1, <1>2 DEF TypesOK
    <3> QED
      BY <1>1, <2>1, <3>1 DEF MomentsInv, AfterQuiet
  <2> QED
    BY <2>2, <2>3 DEF MomentsInv
<1>12. HoldInv'
  BY <1>1, <1>2, <1>5 DEF HoldInv, Stays
<1>13. RanksInv'
  <2>1. RanksCover
    BY <1>2, CoverHolds
  <2> QED
    BY <1>1, <1>2, <2>1 DEF RanksInv, Apart, Ranked, RanksCover
<1> QED
  BY <1>8, <1>9, <1>10, <1>11, <1>12, <1>13 DEF Inv

(* A preparation begins.                                                   *)
LEMMA BeginPreparingKeeps ==
  ASSUME Inv, BeginPreparing
  PROVE  Inv'
<1>1. TypesOK /\ HistoryInv /\ MomentsInv /\ RanksInv /\ \A v \in Writers : Ready(v)
  BY DEF Inv
<1>2. /\ UNCHANGED <<table, ranks, history, began, occupant, lock, pc, job, begun, plan>>
      /\ Tick /\ began = None
      /\ preparing' = [NotPreparing EXCEPT !.at = clock + 1]
  BY DEF BeginPreparing, Stored, Catalog
<1>3. table' \in Rows
  BY <1>1, <1>2 DEF TypesOK
<1>4. /\ clock \in Nat \ {0} /\ clock' = clock + 1 /\ clock' \in Nat \ {0} /\ clock <= clock'
      /\ stood' \in Seq([rows : Rows, quiet : BOOLEAN]) /\ Len(stood') = clock'
      /\ \A m \in 1..clock : stood'[m] = stood[m]
      /\ stood'[clock + 1].quiet => preparing' = NotPreparing
  BY <1>1, <1>2, <1>3, TickIs
<1>5. preparing' = [at |-> clock + 1, holding |-> FALSE, baseline |-> NoRows]
  BY <1>2 DEF NotPreparing
<1>6. preparing' # NotPreparing
  BY <1>4, <1>5 DEF NotPreparing
<1>7. ~ stood'[clock + 1].quiet
  BY <1>4, <1>6
<1>8. preparing' \in [at : 0..clock', holding : BOOLEAN, baseline : Rows]
  <2>1. NoRows \in Rows
    BY DEF NoRows, Rows
  <2>2. clock + 1 \in 0..clock'
    BY <1>4
  <2> QED
    BY <1>5, <2>1, <2>2
<1>9. TypesOK'
  <2>1. \A k \in 0..clock : k \in 0..clock'
    BY <1>4
  <2>2. begun' \in [Writers -> 0..clock']
    BY <1>1, <1>2, <2>1 DEF TypesOK
  <2> QED
    BY <1>1, <1>2, <1>4, <1>8, <2>2 DEF TypesOK
<1>10. \A v \in Writers : Stays(v)
  BY <1>2 DEF Stays
<1>11. \A v \in Writers : Ready(v)'
  BY <1>1, <1>2, <1>4, <1>10, StaysReady
<1>12. HistoryInv'
  BY <1>1, <1>2, <1>4, <1>7, HistoryStands
<1>13. MomentsInv'
  <2>1. /\ \A moment \in Nat : AfterQuiet(moment) => AfterQuiet(moment)'
        /\ \A moment \in Nat : moment = clock + 1 => AfterQuiet(moment)'
    BY <1>4, <1>7, StillAfterQuiet
  <2>2. \A v \in Writers : begun[v] \in Nat
    BY <1>1 DEF TypesOK
  <2>3. \A v \in Writers : Open(pc'[v]) => AfterQuiet(begun[v])'
    BY <1>1, <1>2, <2>1, <2>2 DEF MomentsInv, AfterQuiet
  <2>4. AfterQuiet(preparing.at)'
    BY <1>4, <1>5, <2>1 DEF AfterQuiet
  <2> QED
    BY <2>3, <2>4 DEF MomentsInv
<1>14. HoldInv'
  BY <1>5 DEF HoldInv
<1>15. RanksInv'
  BY <1>1, <1>2 DEF RanksInv, Apart, Ranked, RanksCover
<1> QED
  BY <1>9, <1>11, <1>12, <1>13, <1>14, <1>15 DEF Inv

(* The baseline is taken where no write is in flight.                      *)
LEMMA HoldTableKeeps ==
  ASSUME Inv, HoldTable
  PROVE  Inv'
<1>1. TypesOK /\ HistoryInv
  BY DEF Inv
<1>2. /\ preparing.at > 0 /\ NoneInFlight
      /\ preparing' = [preparing EXCEPT !.holding = TRUE, !.baseline = table]
      /\ UNCHANGED <<Stored, Time, Others, lock, pc, job, begun, plan>>
  BY DEF HoldTable
<1>3. preparing # NotPreparing
  BY <1>2 DEF NotPreparing
<1>4. began = None
  BY <1>1, <1>3 DEF HistoryInv
<1>5. /\ preparing' \in [at : 0..clock, holding : BOOLEAN, baseline : Rows]
      /\ preparing'.at = preparing.at /\ preparing'.baseline = table
  BY <1>1, <1>2 DEF TypesOK
<1>6. HoldInv'
  BY <1>2, <1>5 DEF HoldInv, NoneInFlight, Stored
<1>7. occupant' \in [Slots -> Samples \cup {None}]
  BY <1>1, <1>2 DEF TypesOK, Others
<1> QED
  BY <1>2, <1>3, <1>4, <1>5, <1>6, <1>7, NobodyMoves

(* A preparation that dies leaves nothing of itself.                       *)
LEMMA StopPreparingKeeps ==
  ASSUME Inv, StopPreparing
  PROVE  Inv'
<1>1. TypesOK /\ preparing' = NotPreparing
      /\ UNCHANGED <<Stored, Time, Others, lock, pc, job, begun, plan>>
  BY DEF Inv, StopPreparing
<1>2. preparing' \in [at : 0..clock, holding : BOOLEAN, baseline : Rows]
  BY <1>1 DEF TypesOK, NotPreparing, NoRows, Rows
<1>3. HoldInv'
  BY <1>1 DEF HoldInv, NotPreparing
<1>4. occupant' \in [Slots -> Samples \cup {None}]
  BY <1>1 DEF TypesOK, Others
<1> QED
  BY <1>1, <1>2, <1>3, <1>4, NobodyMoves

(* The catalog changes under everybody; no row follows before a relink.    *)
LEMMA RecatalogKeeps ==
  ASSUME Inv, Recatalog
  PROVE  Inv'
<1>1. /\ TypesOK /\ HistoryInv /\ HoldInv /\ preparing' = preparing /\ occupant' \in Catalogs
      /\ UNCHANGED <<Stored, Time, lock, pc, job, begun, plan>>
  BY DEF Inv, Recatalog
<1>2. preparing' \in [at : 0..clock, holding : BOOLEAN, baseline : Rows]
  BY <1>1 DEF TypesOK
<1>3. HoldInv'
  BY <1>1 DEF HoldInv, Stored
<1>4. occupant' \in [Slots -> Samples \cup {None}]
  BY <1>1, CatalogsAssumption
<1>5. preparing' # NotPreparing => began = None /\ preparing # NotPreparing
  BY <1>1 DEF HistoryInv
<1> QED
  BY <1>1, <1>2, <1>3, <1>4, <1>5, NobodyMoves

(* The labels that rows carry.                                             *)
LEMMA LabelsAre ==
  ASSUME NEW p, PlanFits(p)
  PROVE  /\ LabelsIn(p) \in SUBSET Labels
         /\ \A l : l \in LabelsIn(p) <=>
              l # None /\ \E s \in DOMAIN p : p[s] # None /\ p[s].decisions.label = l
<1>1. \A l : l \in LabelsIn(p) <=>
              l # None /\ \E s \in DOMAIN p : p[s] # None /\ p[s].decisions.label = l
  BY DEF LabelsIn
<1>2. ASSUME NEW l \in LabelsIn(p)
      PROVE  l \in Labels
  <2>1. l # None
    BY <1>1
  <2>2. PICK s \in DOMAIN p : p[s] # None /\ p[s].decisions.label = l
    BY <1>1
  <2>3. p[s] \in Annotations
    BY <2>2 DEF PlanFits
  <2>4. p[s].decisions \in Decisions
    BY <2>3 DEF Annotations
  <2>5. p[s].decisions.label \in Labels \cup {None}
    BY <2>4 DEF Decisions
  <2> QED
    BY <2>1, <2>2, <2>5
<1> QED
  BY <1>1, <1>2

(* The table is rows of every sample.                                      *)
LEMMA TableFits ==
  ASSUME NEW t \in Rows
  PROVE  PlanFits(t) /\ DOMAIN t = Samples
BY DEF Rows, PlanFits

(* The history begins, over what stands.                                   *)
LEMMA EndPreparingKeeps ==
  ASSUME Inv, EndPreparing
  PROVE  Inv'
<1>1. TypesOK /\ HistoryInv /\ MomentsInv /\ HoldInv /\ RanksInv /\ \A v \in Writers : Ready(v)
  BY DEF Inv
<1> DEFINE standing == {s \in Samples : table[s] # None}
           e == [at |-> preparing.at, rows |-> [s \in standing |-> table[s]]]
<1>2. preparing.holding /\ preparing.baseline = table
  BY <1>1 DEF EndPreparing, HoldInv
<1>3. /\ UNCHANGED <<table, occupant, lock, pc, job, begun, plan>>
      /\ Tick /\ lock = None /\ began' = preparing.at /\ preparing' = NotPreparing
      /\ history' = <<e>>
  BY <1>2 DEF EndPreparing, LockFree, Others
<1>4. IF Ranked = {} THEN Register(LabelsIn(table)) ELSE ranks' = ranks
  BY DEF EndPreparing
<1>5. preparing # NotPreparing
  BY <1>2 DEF NotPreparing
<1>6. began = None /\ AfterQuiet(preparing.at)
  BY <1>1, <1>5 DEF HistoryInv, MomentsInv
<1>7. table' \in Rows /\ table \in Rows
  BY <1>1, <1>3 DEF TypesOK
<1>8. /\ clock \in Nat \ {0} /\ clock' = clock + 1 /\ clock' \in Nat \ {0} /\ clock <= clock'
      /\ stood' \in Seq([rows : Rows, quiet : BOOLEAN]) /\ Len(stood') = clock'
      /\ \A m \in 1..clock : stood'[m] = stood[m]
      /\ stood'[clock + 1].rows = table'
      /\ stood'[clock + 1].quiet => \A v \in Writers : ~ Open(pc'[v])
  BY <1>1, <1>3, <1>7, TickIs
<1>9. preparing.at \in 1..clock
  BY <1>1, <1>6 DEF TypesOK, AfterQuiet
<1>10. e \in Entries /\ e.at = preparing.at /\ DOMAIN e.rows = standing
       /\ \A s \in standing : e.rows[s] = table[s]
  <2>1. [s \in standing |-> table[s]] \in PartialRows
    <3>1. standing \in SUBSET Samples
      OBVIOUS
    <3>2. [s \in standing |-> table[s]] \in [standing -> Annotations \cup {None}]
      BY <1>7 DEF Rows
    <3> HIDE DEF standing
    <3> QED
      BY <3>1, <3>2 DEF PartialRows
  <2>2. preparing.at \in Nat
    BY <1>8, <1>9
  <2> QED
    BY <2>1, <2>2 DEF Entries
<1>11. \A s \in Samples : s \notin standing => table[s] = None
  OBVIOUS
<1> HIDE DEF standing, e
<1>12. ASSUME NEW s \in Samples, NEW m \in Nat, preparing.at <= m
       PROVE  Told(<<e>>, s, m) = table[s]
  <2>1. Told(<<e>>, s, m) = IF s \in DOMAIN e.rows THEN e.rows[s] ELSE None
    BY <1>10, <1>12, FirstSays
  <2> QED
    BY <1>10, <1>11, <2>1
<1>13. RanksInv' /\ RanksCover' /\ ranks' \in [Tags -> Nat \cup {None}]
  <2>1. LabelsIn(table) \in SUBSET Labels
    BY <1>7, TableFits, LabelsAre
  <2>2. /\ ranks \in [Tags -> Nat \cup {None}] /\ Apart
        /\ \E n \in Nat : \A t \in Ranked : ranks[t] <= n
    BY <1>1 DEF TypesOK, RanksInv
  <2>3. CASE Ranked = {}
    <3>1. Register(LabelsIn(table))
      BY <1>4, <2>3
    <3>2. PICK n \in Nat : \A t \in Ranked : ranks[t] <= n
      BY <2>2
    <3>3. /\ ranks' \in [Tags -> Nat \cup {None}]
          /\ Apart'
          /\ \E k \in Nat : \A t \in Ranked' : ranks'[t] <= k
          /\ \A l \in LabelsIn(table) : TagsOf[l] \subseteq Ranked'
      BY <2>1, <2>2, <3>1, <3>2, RegisterKeeps
    <3> QED
      BY <1>3, <3>3 DEF RanksInv, RanksCover
  <2>4. CASE Ranked # {}
    <3>1. ranks' = ranks /\ RanksCover
      BY <1>1, <1>4, <2>4 DEF RanksInv
    <3> QED
      BY <1>3, <2>2, <3>1 DEF RanksInv, RanksCover, Apart, Ranked
  <2> QED
    BY <2>3, <2>4
<1>14. TypesOK'
  <2>1. \A k \in 0..clock : k \in 0..clock'
    BY <1>8
  <2>2. begun' \in [Writers -> 0..clock']
    BY <1>1, <1>3, <2>1 DEF TypesOK
  <2>3. preparing' \in [at : 0..clock', holding : BOOLEAN, baseline : Rows]
    <3>1. 0 \in 0..clock'
      BY <1>8
    <3> QED
      BY <1>3, <3>1 DEF NotPreparing, NoRows, Rows
  <2>4. began' \in 1..clock' \cup {None}
    BY <1>3, <1>8, <1>9
  <2>5. history' \in Seq(Entries) /\ \A i \in 1..Len(history') : history'[i].at \in 1..clock'
    <3>1. <<e>> \in Seq(Entries) /\ Len(<<e>>) = 1 /\ <<e>>[1] = e
      BY <1>10
    <3>2. preparing.at \in 1..clock'
      BY <1>8, <1>9
    <3>3. \A i \in 1..Len(history') : history'[i] = e
      BY <1>3, <3>1
    <3> QED
      BY <1>3, <1>10, <3>1, <3>2, <3>3
  <2> QED
    BY <1>1, <1>3, <1>7, <1>8, <1>13, <2>2, <2>3, <2>4, <2>5 DEF TypesOK
<1>15. \A v \in Writers : Ready(v)'
  <2>1. \A v \in Writers : Stays(v)
    BY <1>3 DEF Stays
  <2>2. \A v \in Writers : pc[v] \notin Acting
    BY <1>1, <1>3, NoneAssumption DEF Ready
  <2> QED
    BY <1>1, <1>8, <2>1, <2>2, StaysReady
<1>16. HistoryInv'
  <2>1. Len(history') > 0 /\ history'[1].at = began'
    BY <1>3, <1>10
  <2>2. ASSUME NEW s \in Samples
        PROVE  Told(history', s, clock') = table'[s]
    BY <1>3, <1>8, <1>9, <1>12
  <2>3. ASSUME NEW m \in began'..clock', stood'[m].quiet
        PROVE  \A s \in Samples : Told(history', s, m) = stood'[m].rows[s]
    <3>1. m = clock + 1
      <4>1. CASE m \in 1..clock
        <5>1. stood[m].quiet /\ m >= preparing.at
          BY <1>3, <1>8, <1>9, <2>3, <4>1
        <5>2. m < preparing.at
          BY <1>6, <4>1, <5>1 DEF AfterQuiet
        <5> QED
          BY <1>9, <4>1, <5>1, <5>2
      <4>2. CASE m \notin 1..clock
        BY <1>3, <1>8, <1>9, <4>2
      <4> QED
        BY <4>1, <4>2
    <3> QED
      BY <1>3, <1>8, <1>9, <1>12, <3>1
  <2>4. began' # None
    BY <1>3, <1>9, NoneAssumption
  <2> QED
    BY <1>3, <2>1, <2>2, <2>3, <2>4 DEF HistoryInv
<1>17. MomentsInv'
  <2>1. ASSUME NEW v \in Writers, Open(pc'[v])
        PROVE  AfterQuiet(begun[v])'
    <3>1. ~ stood'[clock + 1].quiet
      BY <1>8, <2>1
    <3>2. \A moment \in Nat : AfterQuiet(moment) => AfterQuiet(moment)'
      BY <1>8, <3>1, StillAfterQuiet
    <3>3. begun'[v] = begun[v] /\ begun[v] \in Nat /\ AfterQuiet(begun[v])
      BY <1>1, <1>3, <2>1 DEF MomentsInv, TypesOK
    <3> QED
      BY <3>2, <3>3 DEF AfterQuiet
  <2> QED
    BY <1>3, <2>1 DEF MomentsInv
<1>18. HoldInv'
  BY <1>3 DEF HoldInv, NotPreparing
<1> QED
  BY <1>13, <1>14, <1>15, <1>16, <1>17, <1>18 DEF Inv

-----------------------------------------------------------------------------
(* What a writer decided on is rows, whose labels it registers or which    *)
(* are in use already.                                                     *)
LEMMA PlannedFits ==
  ASSUME TypesOK, NEW w \in Writers, Planned(w)
  PROVE  /\ PlanFits(plan[w])
         /\ Registers(w) \in SUBSET Labels
         /\ \A l \in LabelsIn(plan[w]) : l \in Registers(w) \/ l \in LabelsIn(table)
<1>1. table \in Rows /\ history \in Seq(Entries)
  BY DEF TypesOK
<1>2. ASSUME PlanFits(plan[w]), job[w].kind # "relink"
      PROVE  /\ Registers(w) \in SUBSET Labels
             /\ \A l \in LabelsIn(plan[w]) : l \in Registers(w)
  BY <1>2, LabelsAre DEF Registers
<1>3. CASE IsChange(job[w]) /\ plan[w] = PlanOfChange(table, job[w])
  <2>1. job[w].kind = "change"
    BY <1>3 DEF IsChange
  <2>2. PlanFits(plan[w])
    BY <1>1, <1>3, ChangePlans
  <2> QED
    BY <1>2, <2>1, <2>2
<1>4. CASE IsImport(job[w]) /\ plan[w] = job[w].file
  <2>1. job[w].kind = "import" /\ job[w].file \in Files
    BY <1>4 DEF IsImport
  <2>2. PlanFits(plan[w])
    BY <1>4, <2>1, FilePlans
  <2> QED
    BY <1>2, <2>1, <2>2
<1>5. CASE IsRestore(job[w]) /\ plan[w] = PlanOfRestore(table, job[w].moment)
  <2>1. job[w].kind = "restore" /\ job[w].moment \in Nat
    BY <1>5 DEF IsRestore
  <2>2. PlanFits(plan[w])
    BY <1>1, <1>5, <2>1, RestorePlans
  <2> QED
    BY <1>2, <2>1, <2>2
<1>6. CASE IsFollowing(job[w]) /\ plan[w] = PlanOfRelink(table, job[w].found)
  <2>1. PICK lost \in SUBSET {s \in Samples : table[s] # None} :
          \E S \in SUBSET lost :
            \E found \in [S -> Samples \cup {None}] :
              job[w] = [kind |-> "relink", rows |-> table, lost |-> lost, found |-> found]
    BY <1>6 DEF IsFollowing
  <2>2. PICK S \in SUBSET lost :
          \E found \in [S -> Samples \cup {None}] :
            job[w] = [kind |-> "relink", rows |-> table, lost |-> lost, found |-> found]
    BY <2>1
  <2>3. PICK found \in [S -> Samples \cup {None}] :
          job[w] = [kind |-> "relink", rows |-> table, lost |-> lost, found |-> found]
    BY <2>2
  <2>4. /\ S \in SUBSET {s \in Samples : table[s] # None} /\ job[w].kind = "relink"
        /\ plan[w] = PlanOfRelink(table, found)
    BY <1>6, <2>1, <2>2, <2>3
  <2>5. /\ PlanFits(plan[w])
        /\ \A x \in DOMAIN plan[w] : plan[w][x] = None \/ \E s \in Samples : plan[w][x] = table[s]
    <3>1. /\ PlanFits(PlanOfRelink(table, found))
          /\ \A x \in DOMAIN PlanOfRelink(table, found) :
               \/ PlanOfRelink(table, found)[x] = None
               \/ \E s \in Samples : PlanOfRelink(table, found)[x] = table[s]
      BY <1>1, <2>4, RelinkPlans
    <3> QED
      BY <2>4, <3>1
  <2>6. Registers(w) = {}
    BY <2>4 DEF Registers
  <2>7. ASSUME NEW l \in LabelsIn(plan[w])
        PROVE  l \in LabelsIn(table)
    <3>1. l # None
      BY <2>5, <2>7, LabelsAre
    <3>2. PICK x \in DOMAIN plan[w] : plan[w][x] # None /\ plan[w][x].decisions.label = l
      BY <2>5, <2>7, LabelsAre
    <3>3. PICK s \in Samples : plan[w][x] = table[s]
      BY <2>5, <3>2
    <3>4. PlanFits(table) /\ s \in DOMAIN table /\ table[s] # None /\ table[s].decisions.label = l
      BY <1>1, <3>2, <3>3, TableFits
    <3> QED
      BY <3>1, <3>4, LabelsAre
  <2> QED
    BY <2>5, <2>6, <2>7
<1> QED
  BY <1>3, <1>4, <1>5, <1>6 DEF Planned

(* What a commit leaves, and what the trigger recorded of it.              *)
After(w) == [s \in Samples |-> IF s \in DOMAIN plan[w] THEN plan[w][s] ELSE table[s]]

(* The trigger adds one entry, of the commit's moment, for what changed.   *)
LEMMA RecordIs ==
  ASSUME TypesOK, NEW w \in Writers, PlanFits(plan[w]), table' = After(w), Record(w)
  PROVE  /\ table' \in Rows
         /\ began = None => history' = history
         /\ began # None =>
              \/ history' = history /\ table' = table
              \/ \E e \in Entries :
                   /\ history' = Append(history, e)
                   /\ e.at = begun[w]
                   /\ DOMAIN e.rows = {s \in Samples : table'[s] # table[s]}
                   /\ \A s \in DOMAIN e.rows : e.rows[s] = table'[s]
<1> DEFINE changed == {s \in Samples : table'[s] # table[s]}
           e == [at |-> begun[w], rows |-> Recorded(plan[w])]
<1>1. /\ table \in [Samples -> Annotations \cup {None}] /\ begun[w] \in Nat
      /\ DOMAIN plan[w] \subseteq Samples
      /\ \A s \in DOMAIN plan[w] : plan[w][s] \in Annotations \cup {None}
  BY DEF TypesOK, Rows, PlanFits
<1>2. \A s \in Samples : table'[s] = IF s \in DOMAIN plan[w] THEN plan[w][s] ELSE table[s]
  BY DEF After
<1>3. table' \in Rows
  BY <1>1 DEF After, Rows
<1>4. changed = {t \in DOMAIN plan[w] : plan[w][t] # table[t]}
  BY <1>1, <1>2
<1>5. Recorded(plan[w]) = [s \in changed |-> table'[s]]
  <2>1. \A s \in changed : plan[w][s] = table'[s]
    BY <1>2, <1>4
  <2> HIDE DEF changed
  <2> QED
    BY <1>4, <2>1 DEF Recorded
<1>6. Recorded(plan[w]) \in PartialRows
  <2>1. changed \in SUBSET Samples
    OBVIOUS
  <2>2. \A s \in changed : table'[s] \in Annotations \cup {None}
    BY <1>3 DEF Rows
  <2> HIDE DEF changed
  <2>3. Recorded(plan[w]) \in [changed -> Annotations \cup {None}]
    BY <1>5, <2>2
  <2> QED
    BY <2>1, <2>3 DEF PartialRows
<1>7. /\ e \in Entries /\ e.at = begun[w]
      /\ DOMAIN e.rows = changed
      /\ \A s \in DOMAIN e.rows : e.rows[s] = table'[s]
  <2> HIDE DEF changed
  <2> QED
    BY <1>1, <1>5, <1>6 DEF Entries
<1>8. DOMAIN Recorded(plan[w]) = changed
  <2> HIDE DEF changed
  <2> QED
    BY <1>5
<1>9. CASE began = None
  BY <1>3, <1>9 DEF Record
<1>10. CASE began # None /\ changed = {}
  <2>1. history' = history
    BY <1>8, <1>10 DEF Record
  <2>2. table' = table
    <3>1. \A s \in Samples : table'[s] = table[s]
      BY <1>10
    <3> QED
      BY <1>1, <1>3, <3>1 DEF Rows
  <2> QED
    BY <1>3, <1>10, <2>1, <2>2
<1>11. CASE began # None /\ changed # {}
  <2> HIDE DEF changed
  <2>1. history' = Append(history, e)
    BY <1>8, <1>11 DEF Record
  <2> HIDE DEF e
  <2> QED
    BY <1>3, <1>7, <1>11, <2>1 DEF changed
<1> QED
  BY <1>9, <1>10, <1>11

(* A history that a commit added to tells what stands after it.            *)
LEMMA HistoryGrows ==
  ASSUME TypesOK, HistoryInv, NEW w \in Writers, PlanFits(plan[w]),
         table' = After(w), Record(w), AfterQuiet(begun[w]), UNCHANGED <<began, preparing>>,
         clock' = clock + 1, \A m \in 1..clock : stood'[m] = stood[m],
         stood'[clock + 1].rows = table'
  PROVE  HistoryInv'
<1>1. /\ clock \in Nat \ {0} /\ history \in Seq(Entries) /\ table \in Rows
      /\ \A i \in 1..Len(history) : history[i].at \in 1..clock
      /\ begun[w] \in 0..clock
  BY DEF TypesOK
<1>2. CASE began = None
  BY <1>2, RecordIs DEF HistoryInv
<1>3. CASE began # None
  <2>1. /\ Len(history) > 0 /\ history[1].at = began
        /\ preparing = NotPreparing
        /\ \A s \in Samples : Told(history, s, clock) = table[s]
        /\ \A m \in began..clock :
             stood[m].quiet => \A s \in Samples : Told(history, s, m) = stood[m].rows[s]
    BY <1>3 DEF HistoryInv
  <2>2. began \in 1..clock
    BY <1>3 DEF TypesOK
  <2>3. ASSUME NEW s \in Samples
        PROVE  Told(history, s, clock + 1) = table[s]
    <3>1. \A i \in 1..Len(history) : history[i].at <= clock + 1 /\ history[i].at <= clock
      BY <1>1
    <3>2. Told(history, s, clock + 1) = Told(history, s, clock)
      BY <1>1, <3>1, LaterSays
    <3> QED
      BY <2>1, <3>2
  <2>4. \A m \in began..(clock + 1) :
          \/ m = clock + 1 /\ stood'[m].rows = table'
          \/ m \in began..clock /\ m \in 1..clock /\ stood'[m] = stood[m]
    BY <1>1, <2>2
  <2>5. CASE history' = history /\ table' = table
    <3>1. ASSUME NEW m \in began..(clock + 1), stood'[m].quiet
          PROVE  \A s \in Samples : Told(history, s, m) = stood'[m].rows[s]
      BY <2>1, <2>3, <2>4, <2>5, <3>1
    <3> QED
      BY <1>3, <2>1, <2>3, <2>5, <3>1 DEF HistoryInv
  <2>6. CASE \E e \in Entries :
               /\ history' = Append(history, e)
               /\ e.at = begun[w]
               /\ DOMAIN e.rows = {s \in Samples : table'[s] # table[s]}
               /\ \A s \in DOMAIN e.rows : e.rows[s] = table'[s]
    <3>1. PICK e \in Entries :
               /\ history' = Append(history, e)
               /\ e.at = begun[w]
               /\ DOMAIN e.rows = {s \in Samples : table'[s] # table[s]}
               /\ \A s \in DOMAIN e.rows : e.rows[s] = table'[s]
      BY <2>6
    <3>2. ASSUME NEW s \in Samples
          PROVE  Told(history', s, clock + 1) = table'[s]
      <4>1. e.at <= clock + 1 /\ clock + 1 \in Nat
        BY <1>1, <3>1
      <4>2. CASE s \in DOMAIN e.rows
        BY <1>1, <3>1, <4>1, <4>2, AppendedSays
      <4>3. CASE s \notin DOMAIN e.rows
        <5>1. table'[s] = table[s]
          BY <3>1, <4>3
        <5>2. Told(history', s, clock + 1) = Told(history, s, clock + 1)
          BY <1>1, <3>1, <4>1, <4>3, AppendedSays
        <5> QED
          BY <2>3, <5>1, <5>2
      <4> QED
        BY <4>2, <4>3
    <3>3. ASSUME NEW m \in began..(clock + 1), stood'[m].quiet
          PROVE  \A s \in Samples : Told(history', s, m) = stood'[m].rows[s]
      <4>1. CASE m = clock + 1
        BY <2>4, <3>2, <4>1
      <4>2. CASE m \in began..clock /\ m \in 1..clock /\ stood'[m] = stood[m]
        <5>1. m < begun[w] /\ m \in Nat
          BY <3>3, <4>2 DEF AfterQuiet
        <5>2. \A s \in Samples : Told(history', s, m) = Told(history, s, m)
          BY <1>1, <3>1, <5>1, AppendedSays
        <5> QED
          BY <2>1, <3>3, <4>2, <5>2
      <4> QED
        BY <2>4, <4>1, <4>2
    <3>4. Len(history') > 0 /\ history'[1].at = began
      BY <1>1, <2>1, <3>1
    <3> QED
      BY <1>3, <2>1, <3>2, <3>3, <3>4 DEF HistoryInv
  <2> QED
    BY <1>3, <2>5, <2>6, RecordIs
<1> QED
  BY <1>2, <1>3

(* What a commit registers covers what it leaves.                          *)
LEMMA CommitRanks ==
  ASSUME TypesOK, RanksInv, RanksCover, NEW w \in Writers, Planned(w),
         table' = After(w), table' \in Rows, Register(Registers(w))
  PROVE  RanksInv' /\ ranks' \in [Tags -> Nat \cup {None}]
<1>1. PICK n \in Nat : \A t \in Ranked : ranks[t] <= n
  BY DEF RanksInv
<1>2. /\ PlanFits(plan[w])
      /\ Registers(w) \in SUBSET Labels
      /\ \A l \in LabelsIn(plan[w]) : l \in Registers(w) \/ l \in LabelsIn(table)
  BY PlannedFits
<1>3. ranks \in [Tags -> Nat \cup {None}] /\ Apart /\ table \in Rows
  BY DEF TypesOK, RanksInv
<1>4. /\ ranks' \in [Tags -> Nat \cup {None}]
      /\ Apart'
      /\ \E k \in Nat : \A t \in Ranked' : ranks'[t] <= k
      /\ \A t \in Ranked : t \in Ranked'
      /\ \A l \in Registers(w) : TagsOf[l] \subseteq Ranked'
  BY <1>1, <1>2, <1>3, RegisterKeeps
<1>5. ASSUME NEW l \in LabelsIn(table')
      PROVE  TagsOf[l] \subseteq Ranked'
  <2>1. PlanFits(table') /\ DOMAIN table' = Samples /\ PlanFits(table) /\ DOMAIN table = Samples
    BY <1>3, TableFits
  <2>2. l # None
    BY <1>5, <2>1, LabelsAre
  <2>3. PICK s \in Samples : table'[s] # None /\ table'[s].decisions.label = l
    BY <1>5, <2>1, LabelsAre
  <2>4. CASE s \in DOMAIN plan[w]
    <3>1. plan[w][s] = table'[s]
      BY <2>4 DEF After
    <3>2. l \in LabelsIn(plan[w])
      BY <1>2, <2>2, <2>3, <2>4, <3>1, LabelsAre
    <3> QED
      BY <1>2, <1>4, <3>2 DEF RanksCover
  <2>5. CASE s \notin DOMAIN plan[w]
    <3>1. table[s] = table'[s]
      BY <2>5 DEF After
    <3>2. l \in LabelsIn(table)
      BY <2>1, <2>2, <2>3, <3>1, LabelsAre
    <3> QED
      BY <1>4, <3>2 DEF RanksCover
  <2> QED
    BY <2>4, <2>5
<1> QED
  BY <1>4, <1>5 DEF RanksInv, RanksCover

(* A commit.                                                               *)
LEMMA CommitKeeps ==
  ASSUME Inv, NEW w \in Writers, Commit(w)
  PROVE  Inv'
<1>1. TypesOK /\ HistoryInv /\ MomentsInv /\ HoldInv /\ RanksInv /\ \A v \in Writers : Ready(v)
  BY DEF Inv
<1>2. /\ pc[w] = "written" /\ table' = After(w) /\ Record(w) /\ Register(Registers(w))
      /\ Ended(w) /\ Tick /\ UNCHANGED <<began, occupant, preparing>>
  BY DEF Commit, After, Others
<1>3. Planned(w) /\ lock = w
  BY <1>1, <1>2 DEF Ready, Acting
<1>4. PlanFits(plan[w])
  BY <1>1, <1>3, PlannedFits
<1>5. table' \in Rows
  BY <1>1, <1>2, <1>4, RecordIs
<1>6. /\ clock \in Nat \ {0} /\ clock' = clock + 1 /\ clock' \in Nat \ {0} /\ clock <= clock'
      /\ stood' \in Seq([rows : Rows, quiet : BOOLEAN]) /\ Len(stood') = clock'
      /\ \A m \in 1..clock : stood'[m] = stood[m]
      /\ stood'[clock + 1].rows = table'
      /\ stood'[clock + 1].quiet => /\ \A v \in Writers : ~ Open(pc'[v])
                                    /\ preparing' = NotPreparing
  BY <1>1, <1>2, <1>5, TickIs
<1>7. OneWriter(w) /\ Ready(w)' /\ pc'[w] = "idle"
  BY <1>1, <1>2, <1>6, EndedIs
<1>8. RanksCover
  BY <1>2, CoverHolds
<1>9. RanksInv' /\ ranks' \in [Tags -> Nat \cup {None}]
  BY <1>1, <1>2, <1>3, <1>5, <1>8, CommitRanks
<1>10. AfterQuiet(begun[w])
  BY <1>1, <1>2 DEF MomentsInv, Open
<1>11. HistoryInv'
  BY <1>1, <1>2, <1>4, <1>6, <1>10, HistoryGrows
<1>12. history' \in Seq(Entries) /\ \A i \in 1..Len(history') : history'[i].at \in 1..clock'
  <2>1. /\ history \in Seq(Entries) /\ \A i \in 1..Len(history) : history[i].at \in 1..clock'
        /\ began \in 1..clock \cup {None} /\ begun[w] \in 1..clock'
    BY <1>1, <1>6, <1>10 DEF TypesOK, AfterQuiet
  <2>2. CASE history' = history
    BY <2>1, <2>2
  <2>3. CASE \E e \in Entries : history' = Append(history, e) /\ e.at = begun[w]
    <3>1. PICK e \in Entries : history' = Append(history, e) /\ e.at = begun[w]
      BY <2>3
    <3>2. /\ history' \in Seq(Entries) /\ Len(history') = Len(history) + 1
          /\ \A i \in 1..Len(history) : history'[i] = history[i]
          /\ history'[Len(history) + 1] = e
      BY <2>1, <3>1
    <3>3. \A i \in 1..Len(history') : i \in 1..Len(history) \/ i = Len(history) + 1
      BY <2>1, <3>2
    <3> QED
      BY <2>1, <3>1, <3>2, <3>3
  <2>4. history' = history \/ \E e \in Entries : history' = Append(history, e) /\ e.at = begun[w]
    BY <1>1, <1>2, <1>4, RecordIs
  <2> QED
    BY <2>2, <2>3, <2>4
<1>13. TypesOK'
  <2>1. \A k \in 0..clock : k \in 0..clock'
    BY <1>6
  <2>2. preparing' \in [at : 0..clock', holding : BOOLEAN, baseline : Rows]
    BY <1>1, <1>2, <2>1 DEF TypesOK
  <2>3. began' \in 1..clock' \cup {None}
    BY <1>1, <1>2, <1>6 DEF TypesOK
  <2>4. occupant' \in [Slots -> Samples \cup {None}]
    BY <1>1, <1>2 DEF TypesOK
  <2>5. WritersTypeOK'
    BY <1>7 DEF OneWriter
  <2> QED
    BY <1>5, <1>6, <1>9, <1>12, <2>2, <2>3, <2>4, <2>5 DEF TypesOK, WritersTypeOK
<1>14. ASSUME NEW v \in Writers
       PROVE  Ready(v)'
  <2>1. CASE v = w
    BY <1>7, <2>1
  <2>2. CASE v # w
    <3>1. Stays(v) /\ pc[v] \notin Acting
      BY <1>1, <1>3, <1>7, <2>2 DEF OneWriter, Ready
    <3> QED
      BY <1>1, <1>6, <3>1, StaysReady
  <2> QED
    BY <2>1, <2>2
<1>15. MomentsInv'
  <2>1. ASSUME NEW v \in Writers, Open(pc'[v])
        PROVE  AfterQuiet(begun[v])'
    <3>1. ~ stood'[clock + 1].quiet
      BY <1>6, <2>1
    <3>2. \A moment \in Nat : AfterQuiet(moment) => AfterQuiet(moment)'
      BY <1>6, <3>1, StillAfterQuiet
    <3>3. v # w
      BY <1>7, <2>1 DEF Open
    <3>4. pc'[v] = pc[v] /\ begun'[v] = begun[v] /\ begun[v] \in Nat
      BY <1>1, <1>7, <3>3 DEF OneWriter, Stays, TypesOK
    <3>5. AfterQuiet(begun[v])
      BY <1>1, <2>1, <3>4 DEF MomentsInv
    <3> QED
      BY <3>2, <3>4, <3>5 DEF AfterQuiet
  <2>2. ASSUME preparing' # NotPreparing
        PROVE  AfterQuiet(preparing.at)'
    <3>1. ~ stood'[clock + 1].quiet
      BY <1>6, <2>2
    <3>2. \A moment \in Nat : AfterQuiet(moment) => AfterQuiet(moment)'
      BY <1>6, <3>1, StillAfterQuiet
    <3>3. preparing' = preparing /\ preparing.at \in Nat /\ AfterQuiet(preparing.at)
      BY <1>1, <1>2, <2>2 DEF MomentsInv, TypesOK
    <3> QED
      BY <3>2, <3>3 DEF AfterQuiet
  <2> QED
    BY <2>1, <2>2 DEF MomentsInv
<1>16. HoldInv'
  <2>1. ASSUME preparing.holding
        PROVE  table' = table
    <3>1. plan[w] = <<>>
      BY <1>1, <1>2, <2>1 DEF HoldInv, NoPlan
    <3>2. \A s \in Samples : table'[s] = table[s]
      BY <1>2, <3>1 DEF After
    <3> QED
      BY <1>1, <1>5, <3>2 DEF TypesOK, Rows
  <2>2. \A v \in Writers \ {w} : pc'[v] = pc[v] /\ plan'[v] = plan[v]
    BY <1>7 DEF OneWriter, Stays
  <2> QED
    BY <1>1, <1>2, <1>7, <2>1, <2>2 DEF HoldInv
<1> QED
  BY <1>9, <1>11, <1>13, <1>14, <1>15, <1>16 DEF Inv

-----------------------------------------------------------------------------
(* A library, whose ranks, if it has them, are of its labels' tags.        *)
LEMMA InvInit == Init => Inv
<1> SUFFICES ASSUME Init PROVE Inv
  OBVIOUS
<1> DEFINE used == UNION {TagsOf[l] : l \in LabelsIn(table)}
<1>1. /\ table \in Rows /\ history = <<>> /\ began = None /\ clock = 1
      /\ stood = <<[rows |-> table, quiet |-> TRUE]>>
      /\ lock = None /\ preparing = NotPreparing
      /\ pc = [w \in Writers |-> "idle"] /\ job = [w \in Writers |-> NoJob]
      /\ begun = [w \in Writers |-> 0] /\ plan = [w \in Writers |-> NoPlan]
      /\ occupant \in [Slots -> Samples \cup {None}]
  BY LibrariesAssumption, CatalogsAssumption DEF Init
<1>2. \/ ranks = [t \in Tags |-> None]
      \/ \E order \in Bijection(used, 0..(Cardinality(used) - 1)) :
           ranks = [t \in Tags |-> IF t \in used THEN order[t] ELSE None]
  BY DEF Init
<1>3. LabelsIn(table) \in SUBSET Labels
  BY <1>1, TableFits, LabelsAre
<1>4. used \in SUBSET Tags /\ \A l \in LabelsIn(table) : TagsOf[l] \subseteq used
  <2>1. used \in SUBSET Tags
    BY <1>3 DEF Tags
  <2> QED
    BY <2>1
<1> HIDE DEF used
<1>5. RanksInv /\ ranks \in [Tags -> Nat \cup {None}]
  <2>1. CASE ranks = [t \in Tags |-> None]
    <3>1. Ranked = {}
      BY <2>1 DEF Ranked
    <3> QED
      BY <1>1, <2>1, <3>1 DEF RanksInv, Apart
  <2>2. CASE \E order \in Bijection(used, 0..(Cardinality(used) - 1)) :
               ranks = [t \in Tags |-> IF t \in used THEN order[t] ELSE None]
    <3>1. PICK order \in Bijection(used, 0..(Cardinality(used) - 1)) :
            ranks = [t \in Tags |-> IF t \in used THEN order[t] ELSE None]
      BY <2>2
    <3>2. /\ Cardinality(used) \in Nat
          /\ \A t \in used : order[t] \in Nat /\ order[t] <= Cardinality(used)
          /\ \A t, u \in used : order[t] = order[u] => t = u
      BY <1>4, OrderIs
    <3>3. Ranked = used /\ \A t \in used : ranks[t] = order[t]
      <4>1. \A t \in used : ranks[t] = order[t] /\ ranks[t] # None
        BY <1>4, <3>1, <3>2, NoneAssumption
      <4>2. \A t \in Tags \ used : ranks[t] = None
        BY <3>1
      <4> QED
        BY <1>4, <4>1, <4>2 DEF Ranked
    <3>4. ranks \in [Tags -> Nat \cup {None}]
      BY <3>1, <3>2
    <3> QED
      BY <1>4, <3>2, <3>3, <3>4 DEF RanksInv, Apart, RanksCover
  <2> QED
    BY <1>2, <2>1, <2>2
<1>6. TypesOK
  <2>1. [rows |-> table, quiet |-> TRUE] \in [rows : Rows, quiet : BOOLEAN]
    BY <1>1
  <2>2. stood \in Seq([rows : Rows, quiet : BOOLEAN]) /\ Len(stood) = 1
    BY <1>1, <2>1
  <2>3. preparing \in [at : 0..clock, holding : BOOLEAN, baseline : Rows]
    BY <1>1 DEF NotPreparing, NoRows, Rows
  <2>4. history \in Seq(Entries) /\ Len(history) = 0
    BY <1>1
  <2>5. pc \in [Writers -> Places]
    BY <1>1 DEF Places
  <2>6. begun \in [Writers -> 0..clock]
    BY <1>1
  <2>7. began \in 1..clock \cup {None}
    BY <1>1
  <2> QED
    BY <1>1, <1>5, <2>2, <2>3, <2>4, <2>5, <2>6, <2>7 DEF TypesOK
<1>7. \A w \in Writers : Ready(w)
  BY <1>1 DEF Ready, Acting
<1>8. HistoryInv
  BY <1>1 DEF HistoryInv
<1>9. MomentsInv
  BY <1>1 DEF MomentsInv, Open
<1>10. HoldInv
  BY <1>1 DEF HoldInv, NotPreparing
<1> QED
  BY <1>5, <1>6, <1>7, <1>8, <1>9, <1>10 DEF Inv

(* Every step keeps the invariant.                                         *)
LEMMA InvNext == Inv /\ [Next]_vars => Inv'
<1> SUFFICES ASSUME Inv, [Next]_vars PROVE Inv'
  OBVIOUS
<1>1. ASSUME NEW w \in Writers, WriterStep(w) PROVE Inv'
  BY <1>1, AskKeeps, FindAnchorsKeeps, BeginKeeps, ClaimKeeps, ReadKeeps, ReadAllKeeps,
     ReadLostKeeps, FollowKeeps, RelinkKeeps, WriteKeeps, CommitKeeps, RollBackKeeps DEF WriterStep
<1>2. CASE BeginPreparing \/ HoldTable \/ EndPreparing \/ StopPreparing \/ Recatalog
  BY <1>2, BeginPreparingKeeps, HoldTableKeeps, EndPreparingKeeps, StopPreparingKeeps,
     RecatalogKeeps
<1>3. CASE UNCHANGED vars
  <2>1. /\ TypesOK /\ HoldInv /\ HistoryInv
        /\ UNCHANGED <<Stored, Time, lock, pc, job, begun, plan, preparing, occupant>>
    BY <1>3 DEF Inv, vars, Stored, Time
  <2>2. /\ preparing' \in [at : 0..clock, holding : BOOLEAN, baseline : Rows]
        /\ occupant' \in [Slots -> Samples \cup {None}]
    BY <2>1 DEF TypesOK
  <2>3. HoldInv'
    BY <2>1 DEF HoldInv, Stored
  <2>4. preparing' # NotPreparing => began = None /\ preparing # NotPreparing
    BY <2>1 DEF HistoryInv
  <2> QED
    BY <2>1, <2>2, <2>3, <2>4, NobodyMoves
<1> QED
  BY <1>1, <1>2, <1>3 DEF Next

(* What was decided under the write lock is still right when it commits,   *)
(* who commits began after every quiet moment, nothing is written while    *)
(* the baseline is taken, and the ranks are numbered one after another     *)
(* (storage/annotation_writes.py, storage/curation.py).                    *)
THEOREM Invariant == Spec => []Inv
<1> QED
  BY InvInit, InvNext, PTL DEF Spec

(* Once it has begun, the history's newest entry of every sample is the    *)
(* row the sample has, whatever commits in whatever order: none is missing *)
(* between the baseline and the trigger's first entries                    *)
(* (storage/curation.py, create_curation_schema, record_annotation_change).*)
THEOREM HistoryAlwaysTellsTheTable == Spec => []HistoryTellsTheTable
<1>1. ASSUME Inv PROVE HistoryTellsTheTable
  <2>1. TypesOK /\ HistoryInv
    BY <1>1 DEF Inv
  <2>2. ASSUME began # None
        PROVE  AsOf(clock) = table
    <3>1. \A s \in Samples : Told(history, s, clock) = table[s]
      BY <2>1, <2>2 DEF HistoryInv
    <3>2. AsOf(clock) = [s \in Samples |-> Told(history, s, clock)]
      BY DEF AsOf, EntriesOf, Told, In
    <3>3. table \in [Samples -> Annotations \cup {None}]
      BY <2>1 DEF TypesOK, Rows
    <3> QED
      BY <3>1, <3>2, <3>3
  <2> QED
    BY <2>2 DEF HistoryTellsTheTable
<1> QED
  BY <1>1, Invariant, PTL

(* A moment no transaction was open at comes back as it stood: a restore   *)
(* to it undoes neither more nor less than what was written after it       *)
(* (repositories/annotation_history.py, annotations_as_of).                *)
THEOREM QuietMomentsAlwaysComeBack == Spec => []QuietMomentsComeBack
<1>1. ASSUME Inv PROVE QuietMomentsComeBack
  <2>1. TypesOK /\ HistoryInv
    BY <1>1 DEF Inv
  <2>2. ASSUME began # None, NEW m \in began..clock, stood[m].quiet
        PROVE  AsOf(m) = stood[m].rows
    <3>1. \A s \in Samples : Told(history, s, m) = stood[m].rows[s]
      BY <2>1, <2>2 DEF HistoryInv
    <3>2. AsOf(m) = [s \in Samples |-> Told(history, s, m)]
      BY DEF AsOf, EntriesOf, Told, In
    <3> DEFINE Moments == [rows : Rows, quiet : BOOLEAN]
    <3>3. began \in 1..clock /\ clock \in Nat /\ Len(stood) = clock /\ stood \in Seq(Moments)
      BY <2>1, <2>2 DEF TypesOK
    <3>4. m \in 1..Len(stood)
      BY <2>2, <3>3
    <3>5. \A x \in Moments : x.rows \in Rows
      OBVIOUS
    <3>6. stood[m] \in Moments
      <4> HIDE DEF Moments
      <4> QED
        BY <3>3, <3>4
    <3>7. stood[m].rows \in [Samples -> Annotations \cup {None}]
      BY <3>5, <3>6 DEF Rows
    <3> QED
      BY <3>1, <3>2, <3>7
  <2> QED
    BY <2>2 DEF QuietMomentsComeBack
<1> QED
  BY <1>1, Invariant, PTL

(* What no commit and no beginning of the history touches.                 *)
LEMMA OthersAreStill ==
  ASSUME [Next]_vars, ~ EndPreparing, \A w \in Writers : ~ Commit(w)
  PROVE  UNCHANGED <<table, ranks, history, began>>
<1>1. ASSUME NEW w \in Writers, WriterStep(w)
      PROVE  UNCHANGED <<table, ranks, history, began>>
  <2>1. CASE AskChange(w) \/ AskImport(w) \/ AskRelink(w) \/ AskRestore(w)
    BY <2>1 DEF AskChange, AskImport, AskRelink, AskRestore, Take, Stored
  <2>2. CASE FindAnchors(w) \/ Begin(w) \/ Claim(w) \/ Read(w)
    BY <2>2 DEF FindAnchors, Begin, Claim, Read, Decide, Stored
  <2>3. CASE ReadAll(w) \/ ReadLost(w) \/ Follow(w)
    BY <2>3 DEF ReadAll, ReadLost, Follow, Stored
  <2>4. CASE Relink(w) \/ Write(w) \/ RollBack(w)
    BY <2>4 DEF Relink, Write, RollBack, Decide, Stored
  <2> QED
    BY <1>1, <2>1, <2>2, <2>3, <2>4 DEF WriterStep
<1>2. CASE BeginPreparing \/ HoldTable \/ StopPreparing \/ Recatalog \/ UNCHANGED vars
  BY <1>2 DEF BeginPreparing, HoldTable, StopPreparing, Recatalog, Stored, vars
<1> QED
  BY <1>1, <1>2 DEF Next

(* A tag that has a rank keeps it.                                         *)
LEMMA RanksStay ==
  ASSUME Inv, [Next]_vars
  PROVE  \A t \in Ranked : ranks'[t] = ranks[t]
<1>1. TypesOK /\ RanksInv /\ \A w \in Writers : Ready(w)
  BY DEF Inv
<1>2. ASSUME NEW labels \in SUBSET Labels, Register(labels)
      PROVE  \A t \in Ranked : ranks'[t] = ranks[t]
  <2>1. PICK n \in Nat : \A t \in Ranked : ranks[t] <= n
    BY <1>1 DEF RanksInv
  <2>2. ranks \in [Tags -> Nat \cup {None}] /\ Apart
    BY <1>1 DEF TypesOK, RanksInv
  <2> QED
    BY <1>2, <2>1, <2>2, RegisterKeeps
<1>3. ASSUME NEW w \in Writers, Commit(w)
      PROVE  \A t \in Ranked : ranks'[t] = ranks[t]
  <2>1. Planned(w) /\ Register(Registers(w))
    BY <1>1, <1>3 DEF Commit, Ready
  <2> QED
    BY <1>1, <1>2, <2>1, PlannedFits
<1>4. ASSUME EndPreparing
      PROVE  \A t \in Ranked : ranks'[t] = ranks[t]
  <2>1. LabelsIn(table) \in SUBSET Labels
    BY <1>1, TableFits, LabelsAre DEF TypesOK
  <2> QED
    BY <1>2, <1>4, <2>1 DEF EndPreparing
<1> QED
  BY <1>3, <1>4, OthersAreStill

(* A tag has its rank as soon as it is in use, shares it with no other and *)
(* keeps it for good, also when it falls out of use or a restore goes back *)
(* before it (storage/curation.py, register_tag_ranks).                    *)
THEOREM RanksAreAlwaysForGood == Spec => RanksAreForGood
<1>1. Inv => RanksAreGiven
  BY NoneAssumption DEF Inv, RanksInv, RanksAreGiven, Apart
<1>2. Inv /\ [Next]_vars => [\A t \in Ranked : ranks'[t] = ranks[t]]_vars
  BY RanksStay
<1>3. Spec => []RanksAreGiven
  BY <1>1, Invariant, PTL
<1>4. Spec => RanksLast
  BY <1>2, Invariant, PTL DEF Spec, RanksLast
<1> QED
  BY <1>3, <1>4 DEF RanksAreForGood

(* Every variable keeps its type, what a writer decided on included.       *)
THEOREM TypeCorrect == Spec => []TypeOK
<1>1. ASSUME Inv PROVE TypeOK
  <2>1. TypesOK /\ \A w \in Writers : Ready(w)
    BY <1>1 DEF Inv
  <2>2. ASSUME NEW i \in DOMAIN history
        PROVE  /\ history[i].at \in 1..clock
               /\ DOMAIN history[i].rows \subseteq Samples
               /\ \A s \in DOMAIN history[i].rows : history[i].rows[s] \in Annotations \cup {None}
    <3>1. history \in Seq(Entries) /\ i \in 1..Len(history) /\ history[i].at \in 1..clock
      BY <2>1 DEF TypesOK
    <3>2. history[i] \in Entries
      BY <3>1
    <3>3. history[i].rows \in PartialRows
      BY <3>2 DEF Entries
    <3> QED
      BY <3>1, <3>3, PartialRowsAre
  <2>3. ASSUME NEW w \in Writers
        PROVE  /\ begun[w] \in 0..clock
               /\ DOMAIN plan[w] \subseteq Samples
               /\ \A s \in DOMAIN plan[w] : plan[w][s] \in Annotations \cup {None}
    <3>1. begun[w] \in 0..clock
      BY <2>1 DEF TypesOK
    <3>2. PlanFits(plan[w])
      <4>1. CASE pc[w] \in {"decided", "written"}
        BY <2>1, <4>1, PlannedFits DEF Ready
      <4>2. CASE pc[w] \notin {"decided", "written"}
        <5>1. plan[w] = <<>>
          BY <2>1, <4>2 DEF Ready, NoPlan
        <5> QED
          BY <5>1 DEF PlanFits
      <4> QED
        BY <4>1, <4>2
    <3> QED
      BY <3>1, <3>2 DEF PlanFits
  <2>4. /\ table \in Rows /\ ranks \in [Tags -> Nat \cup {None}]
        /\ began \in 1..clock \cup {None} /\ occupant \in [Slots -> Samples \cup {None}]
        /\ Len(stood) = clock /\ lock \in Writers \cup {None}
    BY <2>1 DEF TypesOK
  <2> QED
    BY <2>2, <2>3, <2>4 DEF TypeOK
<1> QED
  BY <1>1, Invariant, PTL

-----------------------------------------------------------------------------
(* What the history says of a sample, at any moment it knows, the sample   *)
(* has said.                                                               *)
LEMMA ToldIsPast ==
  ASSUME TypesOK, HistoryInv, began # None, NEW s \in Samples, NEW m \in Nat, began <= m
  PROVE  Says(Told(history, s, m)) \in Past[s]
<1> DEFINE first == Says(IF s \in DOMAIN history[1].rows THEN history[1].rows[s] ELSE None)
           entries == {j \in DOMAIN history : s \in DOMAIN history[j].rows}
<1>1. Past[s] = {first} \cup {Says(history[i].rows[s]) : i \in entries}
  BY DEF Past
<1>2. /\ history \in Seq(Entries) /\ Len(history) > 0 /\ history[1].at = began
      /\ DOMAIN history = 1..Len(history)
  BY DEF TypesOK, HistoryInv
<1>3. CASE Told(history, s, m) = None /\ In(history, s, m) = {}
  <2>1. 1 \in 1..Len(history) /\ history[1].at <= m
    BY <1>2
  <2>2. s \notin DOMAIN history[1].rows
    BY <1>3, <2>1 DEF In
  <2> QED
    BY <1>1, <1>3, <2>2
<1>4. CASE \E e \in In(history, s, m) : Told(history, s, m) = history[e].rows[s]
  <2>1. PICK e \in In(history, s, m) : Told(history, s, m) = history[e].rows[s]
    BY <1>4
  <2>2. e \in entries
    BY <1>2 DEF In
  <2> QED
    BY <1>1, <2>1, <2>2
<1> QED
  BY <1>2, <1>3, <1>4, SomeEntrySays

(* What a sample has said is kept apart from having no history.            *)
LEMMA PastIs ==
  ASSUME TypesOK, HistoryInv, began # None
  PROVE  Past # None /\ Past = [s \in Samples |-> Past[s]]
<1>1. history \in Seq(Entries) /\ Len(history) > 0 /\ DOMAIN history = 1..Len(history)
  BY DEF TypesOK, HistoryInv
<1>2. ASSUME NEW s \in Samples
      PROVE  Past[s] \subseteq Decisions
  <2>1. Past[s] = {Says(IF s \in DOMAIN history[1].rows THEN history[1].rows[s] ELSE None)}
                  \cup {Says(history[i].rows[s]) :
                          i \in {j \in DOMAIN history : s \in DOMAIN history[j].rows}}
    BY DEF Past
  <2>2. ASSUME NEW i \in DOMAIN history, s \in DOMAIN history[i].rows
        PROVE  Says(history[i].rows[s]) \in Decisions
    <3>1. history[i] \in Entries
      BY <1>1
    <3>2. history[i].rows \in PartialRows
      BY <3>1 DEF Entries
    <3>3. history[i].rows[s] \in Annotations \cup {None}
      BY <2>2, <3>2, PartialRowsAre
    <3> QED
      BY <3>3, SaysIs
  <2>3. Says(None) \in Decisions
    BY SaysIs
  <2>4. 1 \in DOMAIN history
    BY <1>1
  <2> QED
    BY <2>1, <2>2, <2>3, <2>4
<1>3. Past = [s \in Samples |-> Past[s]]
  BY DEF Past
<1>4. Past \in [Samples -> SUBSET Decisions]
  BY <1>2, <1>3
<1> QED
  BY <1>3, <1>4, NoneAssumption

(* Whatever a commit leaves a sample saying is kept.                       *)
LEMMA CommitIsKept ==
  ASSUME TypesOK, HistoryInv, NEW w \in Writers, PlanFits(plan[w]),
         table' = After(w), Record(w), began' = began
  PROVE  Ledger!Keeping
<1>1. CASE began = None
  BY <1>1 DEF Ledger!Keeping, Past
<1>2. CASE began # None
  <2>1. /\ history \in Seq(Entries) /\ Len(history) > 0 /\ Len(history) \in Nat
        /\ DOMAIN history = 1..Len(history)
        /\ clock \in Nat /\ began \in 1..clock
        /\ \A s \in Samples : Told(history, s, clock) = table[s]
    BY <1>2 DEF TypesOK, HistoryInv
  <2>2. \A s \in Samples : Says(table[s]) \in Past[s]
    <3>1. began <= clock
      BY <2>1
    <3> QED
      BY <1>2, <2>1, <3>1, ToldIsPast
  <2>3. Past = [s \in Samples |-> Past[s]] /\ Past' = [s \in Samples |-> Past'[s]]
    BY <1>2 DEF Past
  <2>4. ASSUME NEW s \in Samples
        PROVE  Past'[s] = Past[s] \cup {Says(table'[s])}
    <3> DEFINE first(h) == Says(IF s \in DOMAIN h[1].rows THEN h[1].rows[s] ELSE None)
               said(h) == {Says(h[i].rows[s]) : i \in {j \in DOMAIN h : s \in DOMAIN h[j].rows}}
    <3>1. Past[s] = {first(history)} \cup said(history)
      BY <1>2 DEF Past
    <3>2. Past'[s] = {first(history')} \cup said(history')
      BY <1>2 DEF Past
    <3>3. CASE history' = history /\ table' = table
      <4>1. Past'[s] = Past[s]
        BY <3>1, <3>2, <3>3
      <4> QED
        BY <2>2, <3>3, <4>1
    <3>4. CASE \E e \in Entries :
                 /\ history' = Append(history, e)
                 /\ DOMAIN e.rows = {u \in Samples : table'[u] # table[u]}
                 /\ \A u \in DOMAIN e.rows : e.rows[u] = table'[u]
      <4>1. PICK e \in Entries :
                 /\ history' = Append(history, e)
                 /\ DOMAIN e.rows = {u \in Samples : table'[u] # table[u]}
                 /\ \A u \in DOMAIN e.rows : e.rows[u] = table'[u]
        BY <3>4
      <4>2. /\ DOMAIN history' = 1..(Len(history) + 1)
            /\ \A i \in 1..Len(history) : history'[i] = history[i]
            /\ history'[Len(history) + 1] = e
        BY <2>1, <4>1
      <4>3. first(history') = first(history)
        BY <2>1, <4>2
      <4>4. said(history') = said(history) \cup (IF s \in DOMAIN e.rows THEN {Says(e.rows[s])} ELSE {})
        <5> DEFINE before == {j \in DOMAIN history : s \in DOMAIN history[j].rows}
                   after == {j \in DOMAIN history' : s \in DOMAIN history'[j].rows}
        <5>1. \A i \in before : i \in after /\ history'[i].rows[s] = history[i].rows[s]
          BY <2>1, <4>2
        <5>2. \A i \in after : i \in before \/ (i = Len(history) + 1 /\ s \in DOMAIN e.rows)
          BY <2>1, <4>2
        <5>3. s \in DOMAIN e.rows => Len(history) + 1 \in after
          BY <2>1, <4>2
        <5>4. /\ said(history) = {Says(history[i].rows[s]) : i \in before}
              /\ said(history') = {Says(history'[i].rows[s]) : i \in after}
          OBVIOUS
        <5> HIDE DEF before, after, said
        <5> QED
          BY <4>2, <5>1, <5>2, <5>3, <5>4
      <4> HIDE DEF first, said
      <4>5. CASE s \in DOMAIN e.rows
        BY <3>1, <3>2, <4>1, <4>3, <4>4, <4>5
      <4>6. CASE s \notin DOMAIN e.rows
        <5>1. table'[s] = table[s]
          BY <4>1, <4>6
        <5> QED
          BY <2>2, <3>1, <3>2, <4>3, <4>4, <4>6, <5>1
      <4> QED
        BY <4>5, <4>6
    <3> QED
      BY <1>2, <3>3, <3>4, RecordIs
  <2>5. Past # None
    BY <1>2, PastIs
  <2>6. \A s \in Samples : [u \in Samples |-> Says(table'[u])][s] = Says(table'[s])
    OBVIOUS
  <2>7. Past' = [s \in Samples |-> Past[s] \cup {[u \in Samples |-> Says(table'[u])][s]}]
    BY <2>3, <2>4, <2>6
  <2> QED
    BY <2>5, <2>7 DEF Ledger!Keeping
<1> QED
  BY <1>1, <1>2

(* What the samples say, and what a commit leaves them saying.             *)
Saying == [s \in Samples |-> Says(table[s])]

(* After a commit the samples it wrote say what it decided on.             *)
LEMMA CommitSays ==
  ASSUME TypesOK, NEW w \in Writers, PlanFits(plan[w]), table' = After(w)
  PROVE  /\ Saying' = [s \in Samples |-> IF s \in DOMAIN plan[w] THEN Says(plan[w][s])
                                         ELSE Saying[s]]
         /\ Saying \in [Samples -> Decisions] /\ Saying' \in [Samples -> Decisions]
         /\ DOMAIN plan[w] \subseteq Samples
<1>1. \A s \in Samples : table[s] \in Annotations \cup {None}
  BY DEF TypesOK, Rows
<1>2. \A s \in Samples : table'[s] = IF s \in DOMAIN plan[w] THEN plan[w][s] ELSE table[s]
  BY DEF After
<1>3. \A s \in Samples : table'[s] \in Annotations \cup {None}
  BY <1>1, <1>2 DEF PlanFits
<1>4. Saying \in [Samples -> Decisions] /\ Saying' \in [Samples -> Decisions]
  BY <1>1, <1>3, SaysIs DEF Saying
<1> QED
  BY <1>2, <1>4 DEF Saying, PlanFits

(* A gesture's commit is a change, on what stood at that moment.           *)
LEMMA GestureIsAChange ==
  ASSUME TypesOK, NEW w \in Writers, PlanFits(plan[w]), table' = After(w), Ledger!Keeping,
         IsChange(job[w]), plan[w] = PlanOfChange(table, job[w])
  PROVE  Ledger!Change
<1>1. table \in Rows
  BY DEF TypesOK
<1>2. PICK g \in Gestures : \A s \in DOMAIN plan[w] : Says(plan[w][s]) = Changed(Says(table[s]), g)
  BY <1>1, ChangePlans
<1>3. DOMAIN plan[w] \in SUBSET Samples
  BY CommitSays
<1>4. \A s \in Samples : Saying[s] = Says(table[s])
  BY DEF Saying
<1>5. Saying' = [s \in Samples |-> IF s \in DOMAIN plan[w] THEN Changed(Saying[s], g)
                                   ELSE Saying[s]]
  BY <1>2, <1>4, CommitSays
<1>6. \A d : Ledger!Changed(d, g) = Changed(d, g)
  BY DEF Changed, Ledger!Changed
<1> QED
  BY <1>3, <1>5, <1>6 DEF Ledger!Change, Saying

(* A file's commit takes the file in.                                      *)
LEMMA FileIsTakenIn ==
  ASSUME TypesOK, NEW w \in Writers, PlanFits(plan[w]), table' = After(w), Ledger!Keeping,
         IsImport(job[w]), plan[w] = job[w].file
  PROVE  Ledger!TakeIn
<1>1. job[w].file \in Files
  BY DEF IsImport
<1>2. PICK file \in Files : file = plan[w]
  BY <1>1
<1>3. \A s \in DOMAIN file : Says(plan[w][s]) = file[s].decisions
  BY <1>2, FilesAssumption, MarksAssumption DEF Says
<1>4. Saying' = [s \in Samples |-> IF s \in DOMAIN file THEN file[s].decisions ELSE Saying[s]]
  BY <1>2, <1>3, CommitSays
<1> QED
  BY <1>4 DEF Ledger!TakeIn, Saying

(* A restore's commit has every sample say what it once said.              *)
LEMMA RestoreIsARestore ==
  ASSUME TypesOK, HistoryInv, NEW w \in Writers, PlanFits(plan[w]), table' = After(w),
         Ledger!Keeping, IsRestore(job[w]), Restorable(job[w].moment),
         plan[w] = PlanOfRestore(table, job[w].moment)
  PROVE  Ledger!Restore
<1> DEFINE m == job[w].moment
<1>1. began # None /\ began <= m /\ m \in Nat
  BY DEF Restorable, IsRestore, TypesOK
<1>2. history \in Seq(Entries) /\ table \in Rows /\ plan[w] = PlanOfRestore(table, m)
  BY DEF TypesOK
<1> HIDE DEF m
<1>3. /\ DOMAIN plan[w] = {s \in Samples : table[s] # Told(history, s, m)}
      /\ \A s \in DOMAIN plan[w] : plan[w][s] = Told(history, s, m)
  BY <1>1, <1>2, RestorePlans
<1>4. ASSUME NEW s \in Samples
      PROVE  Saying'[s] \in Past[s]
  <2>1. Saying'[s] = IF s \in DOMAIN plan[w] THEN Says(plan[w][s]) ELSE Says(table[s])
    BY CommitSays DEF Saying
  <2>2. Saying'[s] = Says(Told(history, s, m))
    BY <1>3, <2>1
  <2> QED
    BY <1>1, <2>2, ToldIsPast
<1>5. Past # None
  BY <1>1, PastIs
<1>6. Saying' \in [Samples -> Ledger!Decisions]
  BY CommitSays DEF Decisions, Ledger!Decisions
<1> QED
  BY <1>4, <1>5, <1>6 DEF Ledger!Restore, Saying

(* A relink's commit moves what it recovers.                               *)
LEMMA RelinkIsAMove ==
  ASSUME TypesOK, NEW w \in Writers, PlanFits(plan[w]), table' = After(w), Ledger!Keeping,
         IsFollowing(job[w]), plan[w] = PlanOfRelink(table, job[w].found)
  PROVE  Ledger!Move
<1>1. PICK lost \in SUBSET {s \in Samples : table[s] # None} :
        \E S \in SUBSET lost :
          \E found \in [S -> Samples \cup {None}] :
            job[w] = [kind |-> "relink", rows |-> table, lost |-> lost, found |-> found]
  BY DEF IsFollowing
<1>2. PICK S \in SUBSET lost :
        \E found \in [S -> Samples \cup {None}] :
          job[w] = [kind |-> "relink", rows |-> table, lost |-> lost, found |-> found]
  BY <1>1
<1>3. PICK found \in [S -> Samples \cup {None}] :
        job[w] = [kind |-> "relink", rows |-> table, lost |-> lost, found |-> found]
  BY <1>2
<1>4. plan[w] = PlanOfRelink(table, found) /\ S \in SUBSET {s \in Samples : table[s] # None}
      /\ table \in Rows
  BY <1>1, <1>2, <1>3 DEF TypesOK
<1>5. Recovers(plan[w], table, S, found)
  BY <1>4, RelinkPlans
<1>6. PICK R \in SUBSET S :
        /\ DOMAIN plan[w] = R \cup {found[s] : s \in R}
        /\ \A s \in R : /\ found[s] \in Samples /\ table[found[s]] = None
                        /\ found[s] \notin R
                        /\ plan[w][s] = None
                        /\ plan[w][found[s]] = table[s]
        /\ \A s, u \in R : found[s] = found[u] => s = u
  BY <1>5 DEF Recovers
<1> DEFINE to == [s \in R |-> found[s]]
<1>7. \A s \in Samples : Saying[s] = Says(table[s]) /\ table[s] \in Annotations \cup {None}
  BY <1>4 DEF Saying, Rows
<1>8. R \in SUBSET {s \in Samples : Saying[s] # NoDecisions}
  BY <1>4, <1>6, <1>7, SaysIs
<1>9. to \in [R -> {s \in Samples : Saying[s] = NoDecisions}]
  <2>1. \A s \in R : found[s] \in Samples /\ Saying[found[s]] = NoDecisions
    BY <1>6, <1>7 DEF Says
  <2> QED
    BY <2>1
<1>10. \A s \in R : to[s] = found[s]
  OBVIOUS
<1> HIDE DEF to
<1>11. \A s, t \in R : to[s] = to[t] => s = t
  BY <1>6, <1>10
<1>12. ASSUME NEW s \in Samples
       PROVE  Saying'[s] = IF s \in R THEN NoDecisions
                           ELSE IF \E t \in R : to[t] = s
                                THEN Saying[CHOOSE t \in R : to[t] = s]
                           ELSE Saying[s]
  <2>1. Saying'[s] = IF s \in DOMAIN plan[w] THEN Says(plan[w][s]) ELSE Saying[s]
    BY CommitSays
  <2>2. CASE s \in R
    <3>1. s \in DOMAIN plan[w] /\ plan[w][s] = None
      BY <1>6, <2>2
    <3> QED
      BY <2>1, <2>2, <3>1 DEF Says
  <2>3. CASE s \notin R /\ \E t \in R : to[t] = s
    <3>1. PICK t \in R : t = CHOOSE u \in R : to[u] = s
      BY <2>3
    <3>2. to[t] = s
      BY <2>3, <3>1
    <3>3. s \in DOMAIN plan[w] /\ plan[w][s] = table[t] /\ t \in Samples
      BY <1>4, <1>6, <1>10, <3>2
    <3>4. Saying'[s] = Saying[t]
      BY <1>7, <2>1, <3>3
    <3> QED
      BY <2>3, <3>1, <3>4
  <2>4. CASE s \notin R /\ ~ \E t \in R : to[t] = s
    <3>1. s \notin DOMAIN plan[w]
      BY <1>6, <1>10, <2>4
    <3> QED
      BY <2>1, <2>4, <3>1
  <2> QED
    BY <2>2, <2>3, <2>4
<1>13. Saying' = [s \in Samples |-> Saying'[s]]
  BY DEF Saying
<1>14. Saying' = [s \in Samples |-> IF s \in R THEN NoDecisions
                                    ELSE IF \E t \in R : to[t] = s
                                         THEN Saying[CHOOSE t \in R : to[t] = s]
                                    ELSE Saying[s]]
  BY <1>12, <1>13
<1>15. \E U \in SUBSET {s \in Samples : Saying[s] # NoDecisions} :
         \E onto \in [U -> {s \in Samples : Saying[s] = NoDecisions}] :
           /\ \A s, t \in U : onto[s] = onto[t] => s = t
           /\ Saying' = [s \in Samples |-> IF s \in U THEN NoDecisions
                                          ELSE IF \E t \in U : onto[t] = s
                                               THEN Saying[CHOOSE t \in U : onto[t] = s]
                                          ELSE Saying[s]]
           /\ Ledger!Keeping
  BY <1>8, <1>9, <1>11, <1>14
<1> QED
  BY <1>15 DEF Ledger!Move, Saying, NoDecisions, Ledger!NoDecisions

-----------------------------------------------------------------------------
(* A commit is one step of what the annotations promise.                   *)
LEMMA CommitIsPromised ==
  ASSUME Inv, NEW w \in Writers, Commit(w)
  PROVE  Ledger!Next
<1>1. TypesOK /\ HistoryInv /\ Ready(w)
  BY DEF Inv
<1>2. /\ pc[w] = "written" /\ table' = After(w) /\ Record(w) /\ began' = began
  BY DEF Commit, After
<1>3. Planned(w)
  BY <1>1, <1>2 DEF Ready
<1>4. PlanFits(plan[w])
  BY <1>1, <1>3, PlannedFits
<1>5. Ledger!Keeping
  BY <1>1, <1>2, <1>4, CommitIsKept
<1>6. CASE IsChange(job[w]) /\ plan[w] = PlanOfChange(table, job[w])
  BY <1>1, <1>2, <1>4, <1>5, <1>6, GestureIsAChange DEF Ledger!Next
<1>7. CASE IsImport(job[w]) /\ plan[w] = job[w].file
  BY <1>1, <1>2, <1>4, <1>5, <1>7, FileIsTakenIn DEF Ledger!Next
<1>8. CASE /\ IsRestore(job[w])
           /\ Restorable(job[w].moment)
           /\ plan[w] = PlanOfRestore(table, job[w].moment)
  BY <1>1, <1>2, <1>4, <1>5, <1>8, RestoreIsARestore DEF Ledger!Next
<1>9. CASE IsFollowing(job[w]) /\ plan[w] = PlanOfRelink(table, job[w].found)
  BY <1>1, <1>2, <1>4, <1>5, <1>9, RelinkIsAMove DEF Ledger!Next
<1> QED
  BY <1>3, <1>6, <1>7, <1>8, <1>9 DEF Planned

(* So is the step that begins the history, with nothing missing from it.   *)
LEMMA BeginningIsPromised ==
  ASSUME Inv, EndPreparing
  PROVE  Ledger!Next
<1> DEFINE standing == {s \in Samples : table[s] # None}
           rows == [s \in standing |-> table[s]]
           e == [at |-> preparing.at, rows |-> rows]
<1>1. TypesOK /\ HistoryInv /\ HoldInv /\ MomentsInv
  BY DEF Inv
<1>2. preparing.holding /\ preparing # NotPreparing
  BY DEF EndPreparing, NotPreparing
<1>3. preparing.baseline = table /\ began = None /\ preparing.at > 0 /\ preparing.at \in Nat
  BY <1>1, <1>2 DEF HoldInv, HistoryInv, MomentsInv, AfterQuiet, TypesOK
<1>4. history' = <<e>> /\ began' = preparing.at /\ table' = table
  BY <1>3 DEF EndPreparing
<1>5. began' # None
  BY <1>3, <1>4, NoneAssumption
<1>6. DOMAIN history' = {1} /\ history'[1].rows = rows
  BY <1>4
<1>7. ASSUME NEW s \in Samples
      PROVE  Past'[s] = {Says(table[s])}
  <2>1. DOMAIN rows = standing /\ (s \in standing => rows[s] = table[s])
        /\ (s \notin standing => table[s] = None)
    OBVIOUS
  <2> DEFINE entries == {j \in DOMAIN history' : s \in DOMAIN history'[j].rows}
  <2>2. Past'[s] = {Says(IF s \in DOMAIN history'[1].rows THEN history'[1].rows[s] ELSE None)}
                   \cup {Says(history'[i].rows[s]) : i \in entries}
    BY <1>5 DEF Past
  <2>3. entries = IF s \in DOMAIN rows THEN {1} ELSE {}
    BY <1>6
  <2> HIDE DEF entries, rows, standing
  <2>4. CASE s \in DOMAIN rows
    <3>1. {Says(history'[i].rows[s]) : i \in entries} = {Says(rows[s])}
      BY <1>6, <2>3, <2>4
    <3> QED
      BY <1>6, <2>1, <2>2, <2>4, <3>1
  <2>5. CASE s \notin DOMAIN rows
    <3>1. {Says(history'[i].rows[s]) : i \in entries} = {}
      BY <2>3, <2>5
    <3> QED
      BY <1>6, <2>1, <2>2, <2>5, <3>1
  <2> QED
    BY <2>4, <2>5
<1>8. Past = None /\ Past' = [s \in Samples |-> Past'[s]]
  BY <1>3, <1>5 DEF Past
<1>9. Past' = [s \in Samples |-> {Saying[s]}] /\ Saying' = Saying
  <2>1. \A s \in Samples : Saying[s] = Says(table[s])
    BY DEF Saying
  <2> QED
    BY <1>4, <1>7, <1>8, <2>1 DEF Saying
<1>10. Ledger!BeginKeeping
  BY <1>8, <1>9 DEF Ledger!BeginKeeping, Saying
<1> QED
  BY <1>10 DEF Ledger!Next

(* Every write takes effect at one moment, on what the one before it left: *)
(* a gesture changes what it names and nothing else, a file replaces what  *)
(* it speaks for, a relink moves decisions and drops none, a restore       *)
(* brings back what was said, and from the moment the history begins       *)
(* nothing a sample said is missing from it                                *)
(* (storage/annotation_writes.py, sampleextract/annotations/).             *)
THEOREM TheLedgerIsKept == Spec => KeepsTheLedger
<1>1. Init => Ledger!Init
  <2> SUFFICES ASSUME Init PROVE Ledger!Init
    OBVIOUS
  <2>1. \A s \in Samples : table[s] \in Annotations \cup {None}
    BY LibrariesAssumption DEF Init, Rows
  <2>2. [s \in Samples |-> Says(table[s])] \in [Samples -> Ledger!Decisions]
    BY <2>1, SaysIs DEF Decisions, Ledger!Decisions
  <2>3. Past = None
    BY DEF Init, Past
  <2> QED
    BY <2>2, <2>3 DEF Ledger!Init
<1>2. ASSUME Inv, [Next]_vars
      PROVE  [Ledger!Next]_<<[s \in Samples |-> Says(table[s])], Past>>
  <2>1. CASE EndPreparing
    BY <1>2, <2>1, BeginningIsPromised
  <2>2. CASE \E w \in Writers : Commit(w)
    BY <1>2, <2>2, CommitIsPromised
  <2>3. CASE ~ EndPreparing /\ \A w \in Writers : ~ Commit(w)
    <3>1. UNCHANGED <<table, history, began>>
      BY <1>2, <2>3, OthersAreStill
    <3> QED
      BY <3>1 DEF Past
  <2> QED
    BY <2>1, <2>2, <2>3
<1> QED
  BY <1>1, <1>2, Invariant, PTL DEF Spec, KeepsTheLedger, Ledger!Spec

-----------------------------------------------------------------------------
(* Who holds the annotation write lock is in its transaction.              *)
HolderInv == lock # None => pc[lock] \in Acting

(* The guards of a writer's steps, place by place, but what ends it.       *)
HasAStep(w) ==
  \/ pc[w] \in {"reached", "asked", "listed", "written"}
  \/ pc[w] = "begun" /\ LockFree
  \/ pc[w] = "claimed" /\ job[w].kind \in {"change", "import", "restore", "relink"}
  \/ pc[w] = "following" /\ \/ \E s \in job[w].lost : s \notin DOMAIN job[w].found
                            \/ DOMAIN job[w].found = job[w].lost
  \/ pc[w] = "decided" /\ (preparing.holding => plan[w] = NoPlan)

(* Those of the process that begins the history.                           *)
PreparationHasAStep ==
  \/ preparing.at > 0 /\ ~ preparing.holding /\ NoneInFlight
  \/ preparing.holding /\ LockFree

(* That process has the table and wants the lock, a writer the lock and    *)
(* wants the table.                                                        *)
InACircle ==
  /\ preparing.holding
  /\ lock # None
  /\ pc[lock] = "decided"
  /\ plan[lock] # NoPlan

(* A writer holds the lock from its claim to its transaction's end.        *)
LEMMA HolderNext ==
  ASSUME Inv, HolderInv, [Next]_vars PROVE HolderInv'
<1> USE NoneAssumption DEF Acting
<1>0. pc \in [Writers -> Places] /\ lock \in Writers \cup {None}
  BY DEF Inv, TypesOK
<1>1. ASSUME NEW w \in Writers, WriterStep(w) PROVE HolderInv'
  <2>1. CASE AskChange(w) \/ AskImport(w) \/ AskRelink(w) \/ AskRestore(w)
    <3>1. pc[w] = "idle" /\ lock' = lock /\ \A x \in Writers \ {w} : pc'[x] = pc[x]
      BY <1>0, <2>1 DEF AskChange, AskImport, AskRelink, AskRestore, Take, Goto
    <3> QED
      BY <1>0, <3>1 DEF HolderInv
  <2>2. CASE FindAnchors(w) \/ Begin(w)
    <3>1. pc[w] \in {"reached", "asked"} /\ lock' = lock /\ \A x \in Writers \ {w} : pc'[x] = pc[x]
      BY <1>0, <2>2 DEF FindAnchors, Begin, Goto
    <3> QED
      BY <1>0, <3>1 DEF HolderInv
  <2>3. CASE Claim(w)
    BY <1>0, <2>3 DEF Claim, Goto, HolderInv
  <2>4. CASE ReadAll(w) \/ ReadLost(w) \/ Follow(w) \/ Relink(w) \/ Write(w) \/ (\E p : Decide(w, p))
    <3>1. lock' = lock /\ (pc'[w] \in Acting \/ pc' = pc) /\ \A x \in Writers \ {w} : pc'[x] = pc[x]
      BY <1>0, <2>4 DEF ReadAll, ReadLost, Follow, Relink, Decide, Write, Goto
    <3> QED
      BY <1>0, <3>1 DEF HolderInv
  <2>5. CASE Ended(w)
    <3>1. lock' = (IF lock = w THEN None ELSE lock) /\ \A x \in Writers \ {w} : pc'[x] = pc[x]
      BY <1>0, <2>5 DEF Ended, Goto
    <3> QED
      BY <1>0, <3>1 DEF HolderInv
  <2>6. Read(w) => Ended(w) \/ \E p : Decide(w, p)
    BY DEF Read
  <2>7. Commit(w) \/ RollBack(w) => Ended(w)
    BY DEF Commit, RollBack
  <2> QED
    BY <1>1, <2>1, <2>2, <2>3, <2>4, <2>5, <2>6, <2>7 DEF WriterStep
<1>2. CASE \/ BeginPreparing \/ HoldTable \/ EndPreparing \/ StopPreparing \/ Recatalog
           \/ UNCHANGED vars
  <2>1. lock' = lock /\ pc' = pc
    BY <1>2 DEF BeginPreparing, HoldTable, EndPreparing, StopPreparing, Recatalog, vars
  <2> QED
    BY <2>1 DEF HolderInv
<1> QED
  BY <1>1, <1>2 DEF Next

(* Who acts has a step to take, unless it is held up by the table.         *)
LEMMA ActingHasAStep ==
  ASSUME Inv, NEW w \in Writers, pc[w] # "idle", pc[w] # "begun"
  PROVE  HasAStep(w) \/ (preparing.holding /\ pc[w] = "decided" /\ plan[w] # NoPlan)
<1>1. pc[w] \in Places /\ preparing.holding \in BOOLEAN /\ Ready(w)
  BY DEF Inv, TypesOK
<1>2. CASE pc[w] = "claimed"
  <2>1. IsChange(job[w]) \/ IsImport(job[w]) \/ IsRelink(job[w]) \/ IsRestore(job[w])
    BY <1>1, <1>2 DEF Ready
  <2>2. job[w].kind \in {"change", "import", "restore", "relink"}
    <3>1. IsChange(job[w]) => job[w].kind = "change"
      BY DEF IsChange
    <3>2. IsImport(job[w]) => job[w].kind = "import"
      BY DEF IsImport
    <3>3. IsRelink(job[w]) => job[w].kind = "relink"
      BY DEF IsRelink
    <3>4. IsRestore(job[w]) => job[w].kind = "restore"
      BY DEF IsRestore
    <3> QED
      BY <2>1, <3>1, <3>2, <3>3, <3>4
  <2> QED
    BY <1>2, <2>2 DEF HasAStep
<1>3. CASE pc[w] = "following"
  <2>1. IsFollowing(job[w])
    BY <1>1, <1>3 DEF Ready
  <2>2. DOMAIN job[w].found \subseteq job[w].lost
    BY <2>1 DEF IsFollowing
  <2> QED
    BY <1>3, <2>2 DEF HasAStep
<1>4. CASE pc[w] \notin {"claimed", "following"}
  BY <1>1, <1>4 DEF Places, Acting, HasAStep
<1> QED
  BY <1>2, <1>3, <1>4

(* Writers wait for the one that holds the write lock, and it for nobody   *)
(* but the process that begins the history, which holds the table while it *)
(* waits for the lock. That is the one circle there is, which Postgres     *)
(* breaks by ending one of the two; once the history has begun there is    *)
(* none, and some step of a transaction under way can always be taken      *)
(* (storage/curation.py, create_curation_schema and                        *)
(* claim_annotation_writes).                                               *)
THEOREM OnlyTheBeginningMeetsACircle ==
  Spec => [](/\ \A w \in Writers : pc[w] # "idle" =>
                  \/ HasAStep(w)
                  \/ lock # None /\ HasAStep(lock)
                  \/ InACircle
             /\ preparing # NotPreparing =>
                  \/ PreparationHasAStep
                  \/ \E w \in Writers : HasAStep(w)
                  \/ InACircle
             /\ began # None => ~ InACircle)
<1>1. Init => HolderInv
  BY DEF Init, HolderInv
<1>2. Inv /\ HolderInv /\ [Next]_vars => HolderInv'
  BY HolderNext
<1>3. ASSUME Inv, HolderInv
      PROVE  /\ \A w \in Writers : pc[w] # "idle" =>
                  \/ HasAStep(w)
                  \/ lock # None /\ HasAStep(lock)
                  \/ InACircle
             /\ preparing # NotPreparing =>
                  \/ PreparationHasAStep
                  \/ \E w \in Writers : HasAStep(w)
                  \/ InACircle
             /\ began # None => ~ InACircle
  <2>1. lock # None => lock \in Writers /\ pc[lock] \in Acting
    BY <1>3 DEF Inv, TypesOK, HolderInv
  <2>2. lock # None => HasAStep(lock) \/ InACircle
    BY <1>3, <2>1, ActingHasAStep DEF Acting, InACircle
  <2>3. ASSUME NEW w \in Writers, pc[w] # "idle"
        PROVE  HasAStep(w) \/ (lock # None /\ HasAStep(lock)) \/ InACircle
    <3>1. CASE pc[w] = "begun"
      BY <2>2, <3>1 DEF HasAStep, LockFree
    <3>2. CASE pc[w] # "begun"
      <4>1. pc[w] = "decided" => lock = w
        BY <1>3 DEF Inv, Ready, Acting
      <4>2. HasAStep(w) \/ (preparing.holding /\ pc[w] = "decided" /\ plan[w] # NoPlan)
        BY <1>3, <2>3, <3>2, ActingHasAStep
      <4> QED
        BY <4>1, <4>2, NoneAssumption DEF InACircle
    <3> QED
      BY <3>1, <3>2
  <2>4. ASSUME preparing # NotPreparing
        PROVE  PreparationHasAStep \/ (\E w \in Writers : HasAStep(w)) \/ InACircle
    <3>1. preparing.at > 0 /\ preparing.holding \in BOOLEAN
      BY <1>3, <2>4 DEF Inv, TypesOK, MomentsInv, AfterQuiet
    <3>2. CASE preparing.holding
      BY <2>1, <2>2, <3>2 DEF PreparationHasAStep, LockFree
    <3>3. CASE ~ preparing.holding
      BY <3>1, <3>3 DEF PreparationHasAStep, NoneInFlight, HasAStep
    <3> QED
      BY <3>1, <3>2, <3>3
  <2>5. began # None => ~ InACircle
    BY <1>3 DEF Inv, HistoryInv, NotPreparing, InACircle
  <2> QED
    BY <2>3, <2>4, <2>5
<1>4. Inv /\ HolderInv =>
        /\ \A w \in Writers : pc[w] # "idle" =>
             \/ HasAStep(w)
             \/ lock # None /\ HasAStep(lock)
             \/ InACircle
        /\ preparing # NotPreparing =>
             \/ PreparationHasAStep
             \/ \E w \in Writers : HasAStep(w)
             \/ InACircle
        /\ began # None => ~ InACircle
  BY <1>3
<1> QED
  BY <1>1, <1>2, <1>4, Invariant, PTL DEF Spec
=============================================================================
