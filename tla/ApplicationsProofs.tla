------------------------- MODULE ApplicationsProofs -------------------------
(***************************************************************************)
(* Theorems about the libraries of Applications, for any applications,     *)
(* libraries, threads and bounds.                                          *)
(*                                                                         *)
(* An application never lets go of a library whose catalog it has open, or *)
(* whose database it may stop: the database it remembers is of the library *)
(* it holds, or of the one held before while that is locked too. Only a    *)
(* database that will not stop breaks the second part.                     *)
(*                                                                         *)
(* What an application's people asked of it since it started is kept in    *)
(* its session, which no other application touches: a step is proved to    *)
(* keep the session of the one that takes it (the lemmas named after the   *)
(* actions), and to leave the others' alone (ApplicationsMindThemselves).  *)
(***************************************************************************)
EXTENDS Applications, FiniteSetTheorems, WellFoundedInduction, TLAPS

Opening == {"closing", "holding", "switching", "starting", "opening"}

(* The state libraries are held by.                                        *)
OwnershipTypeOK ==
  /\ lock \in [Roots -> Apps \cup {None}]
  /\ server \in [Roots -> Apps \cup {None}]
  /\ activations \in [Apps -> Seq(Activations)]
  /\ at \in [Apps -> Opening \cup {"free", "parting", "halting"}]
  /\ catalog \in [Apps -> Roots \cup {None}]
  /\ cluster \in [Apps -> Roots \cup {None}]
  /\ held \in [Apps -> Roots \cup {None}]
  /\ previous \in [Apps -> Roots \cup {None}]
  /\ chosen \in [Apps -> Nat]
  /\ refusals \in Nat

(* What an application holds is locked for it, and what it has open held.  *)
Owns(a) ==
  /\ held[a] # None => lock[held[a]] = a
  /\ previous[a] # None => lock[previous[a]] = a /\ previous[a] # held[a]
  /\ catalog[a] # None => held[a] = catalog[a]
  /\ at[a] \in Opening => Pending(a)
  /\ at[a] \in {"switching", "starting", "opening"} => held[a] = Current(a).root
  /\ at[a] \in {"holding", "switching", "starting", "opening", "halting"} => catalog[a] = None

(* The database it may stop is of what it holds, and what it opens runs.   *)
Serves(a) ==
  refusals = 0 =>
    /\ cluster[a] # None => cluster[a] \in {held[a], previous[a]}
    /\ previous[a] # None => at[a] = "switching"
    /\ catalog[a] # None => server[catalog[a]] # None
    /\ at[a] = "opening" => server[held[a]] # None

IInv == OwnershipTypeOK /\ \A a \in Apps : Owns(a) /\ Serves(a)

(* Config files name libraries, and options are written over such a file.  *)
Asks == [at : {"idle", "asked", "cleared", "writing", "assigning"},
         quiet : BOOLEAN, seen : Roots \cup {None}]

FilesTypeOK ==
  /\ file \in [Apps -> Roots \cup {None}]
  /\ thread \in [Apps -> [Threads -> Asks]]

-----------------------------------------------------------------------------
(* A step of one application leaves alone what others hold locked: their   *)
(* locks, and the databases of their libraries.                            *)
LEMMA OthersStandBy ==
  ASSUME IInv, NEW a \in Apps, OwnershipTypeOK', refusals' = 0 => refusals = 0,
         \A b \in Apps \ {a} :
           /\ activations'[b] = activations[b] /\ at'[b] = at[b]
           /\ catalog'[b] = catalog[b] /\ cluster'[b] = cluster[b]
           /\ held'[b] = held[b] /\ previous'[b] = previous[b],
         \A r \in Roots : lock[r] \notin {a, None} => lock'[r] = lock[r],
         \A r \in Roots :
           refusals' = 0 /\ server[r] # None /\ server'[r] = None => lock[r] = a,
         Owns(a)', Serves(a)'
  PROVE  IInv'
<1> SUFFICES ASSUME NEW b \in Apps \ {a} PROVE Owns(b)' /\ Serves(b)'
  BY DEF IInv
<1>1. Owns(b) /\ Serves(b) /\ b # None
  BY NoneAssumption DEF IInv
<1>2. /\ held[b] \in Roots \cup {None} /\ previous[b] \in Roots \cup {None}
      /\ catalog[b] \in Roots \cup {None}
  BY DEF IInv, OwnershipTypeOK
<1>3. Owns(b)'
  BY <1>1, <1>2 DEF Owns, Pending, Current
<1>4. Serves(b)'
  <2>1. /\ catalog[b] # None => lock[catalog[b]] = b
        /\ at[b] = "opening" => held[b] \in Roots /\ lock[held[b]] = b
    <3>1. at[b] = "opening" => held[b] \in Roots
      <4> SUFFICES ASSUME at[b] = "opening" PROVE held[b] \in Roots
        OBVIOUS
      <4>1. activations[b] \in Seq(Activations) /\ activations[b] # <<>>
        BY <1>1 DEF IInv, OwnershipTypeOK, Owns, Opening, Pending
      <4>2. Head(activations[b]) \in Activations
        BY <4>1
      <4> QED
        BY <1>1, <4>2 DEF Owns, Current, Activations
    <3> QED
      BY <1>1, <3>1, NoneAssumption DEF Owns
  <2> QED
    BY <1>1, <1>2, <2>1 DEF Serves
<1> QED
  BY <1>3, <1>4

(* The root of an activation that is underway.                             *)
LEMMA CurrentIs ==
  ASSUME OwnershipTypeOK, NEW a \in Apps, Pending(a)
  PROVE  /\ Current(a) \in Activations
         /\ Current(a).root \in Roots /\ Current(a).root # None
         /\ Tail(activations[a]) \in Seq(Activations)
<1>1. activations[a] \in Seq(Activations) /\ activations[a] # <<>>
  BY DEF OwnershipTypeOK, Pending
<1>2. Head(activations[a]) \in Activations /\ Tail(activations[a]) \in Seq(Activations)
  BY <1>1
<1> QED
  BY <1>2, NoneAssumption DEF Current, Activations

(* Steps that leave the libraries alone.                                   *)
LEMMA LibrariesRest ==
  ASSUME IInv, UNCHANGED <<lock, server, activations, at, catalog, cluster, held, previous>>,
         chosen' \in [Apps -> Nat], refusals' = refusals
  PROVE  IInv'
BY DEF IInv, OwnershipTypeOK, Owns, Serves, Pending, Current

(* An activation is scheduled behind those underway.                       *)
LEMMA AppendingKeeps ==
  ASSUME IInv, NEW a \in Apps, NEW n \in Activations,
         activations' = [activations EXCEPT ![a] = Append(activations[a], n)],
         chosen' \in [Apps -> Nat],
         UNCHANGED <<lock, server, at, catalog, cluster, held, previous, refusals>>
  PROVE  IInv'
<1> DEFINE longer == Append(activations[a], n)
<1>1. activations[a] \in Seq(Activations)
  BY DEF IInv, OwnershipTypeOK
<1>2. /\ longer \in Seq(Activations)
      /\ longer # <<>>
      /\ activations[a] # <<>> => Head(longer) = Head(activations[a])
  BY <1>1
<1>3. activations' = [activations EXCEPT ![a] = longer]
  OBVIOUS
<1> HIDE DEF longer
<1>4. activations' \in [Apps -> Seq(Activations)]
  BY <1>2, <1>3 DEF IInv, OwnershipTypeOK
<1>5. /\ activations'[a] = longer
      /\ \A b \in Apps \ {a} : activations'[b] = activations[b]
  BY <1>3 DEF IInv, OwnershipTypeOK
<1>6. OwnershipTypeOK'
  BY <1>4 DEF IInv, OwnershipTypeOK
<1>7. Owns(a)' /\ Serves(a)'
  <2>1. Owns(a) /\ Serves(a)
    BY DEF IInv
  <2>2. Pending(a)' /\ (Pending(a) => Current(a)' = Current(a))
    BY <1>2, <1>5 DEF Pending, Current
  <2>3. Owns(a)'
    BY <2>1, <2>2 DEF Owns, Opening
  <2> QED
    BY <2>1, <2>3 DEF Serves
<1> QED
  BY <1>5, <1>6, <1>7, OthersStandBy

(* To schedule an activation holds no library and leaves none.             *)
LEMMA SchedulingKeeps ==
  ASSUME IInv, NEW a \in Apps, NEW r \in Roots, Scheduled(a, r),
         UNCHANGED <<lock, server, at, catalog, cluster, held, previous, refusals>>
  PROVE  IInv'
<1>1. [root |-> r, number |-> chosen[a] + 1] \in Activations
  BY DEF IInv, OwnershipTypeOK, Activations
<1>2. activations' = [activations EXCEPT
        ![a] = Append(activations[a], [root |-> r, number |-> chosen[a] + 1])]
  BY DEF Scheduled, Becomes
<1>3. chosen' \in [Apps -> Nat]
  BY DEF Scheduled, Becomes, IInv, OwnershipTypeOK
<1> QED
  BY <1>1, <1>2, <1>3, AppendingKeeps

-----------------------------------------------------------------------------
(* An activation begins, and what was open closes.                         *)
LEMMA BeginActivationKeeps ==
  ASSUME IInv, NEW a \in Apps, BeginActivation(a)
  PROVE  IInv'
<1>1. OwnershipTypeOK'
  BY DEF BeginActivation, Goto, Becomes, IInv, OwnershipTypeOK, Opening, memory, requests, bounds, shared
<1>2. /\ UNCHANGED <<lock, server, activations, catalog, cluster, held, previous, refusals>>
      /\ at[a] = "free" /\ Pending(a)
      /\ at'[a] = IF catalog[a] = None THEN "holding" ELSE "closing"
      /\ \A b \in Apps \ {a} : at'[b] = at[b]
  BY DEF BeginActivation, Goto, Becomes, IInv, OwnershipTypeOK, memory, bounds, shared
<1>3. Owns(a)' /\ Serves(a)'
  BY <1>2 DEF IInv, Owns, Serves, Pending, Current, Opening
<1> QED
  BY <1>1, <1>2, <1>3, OthersStandBy

(* A catalog that is closed is held still.                                 *)
LEMMA CloseCatalogKeeps ==
  ASSUME IInv, NEW a \in Apps, CloseCatalog(a)
  PROVE  IInv'
<1>1. OwnershipTypeOK'
  BY DEF CloseCatalog, Goto, Becomes, IInv, OwnershipTypeOK, Opening, requests, bounds, shared
<1>2. /\ UNCHANGED <<lock, server, activations, cluster, held, previous, refusals>>
      /\ at[a] = "closing" /\ at'[a] = "holding" /\ catalog'[a] = None
      /\ \A b \in Apps \ {a} : at'[b] = at[b] /\ catalog'[b] = catalog[b]
  BY DEF CloseCatalog, Goto, Becomes, IInv, OwnershipTypeOK, requests, bounds, shared
<1>3. Owns(a)' /\ Serves(a)'
  BY <1>2 DEF IInv, Owns, Serves, Pending, Current, Opening
<1> QED
  BY <1>1, <1>2, <1>3, OthersStandBy

(* What an activation leaves of those scheduled.                           *)
LEMMA EndedIs ==
  ASSUME IInv, NEW a \in Apps, Ended(a), Pending(a)
  PROVE  /\ activations' \in [Apps -> Seq(Activations)]
         /\ at' \in [Apps -> Opening \cup {"free", "parting", "halting"}]
         /\ at'[a] = "free"
         /\ \A b \in Apps \ {a} : at'[b] = at[b] /\ activations'[b] = activations[b]
<1>1. Tail(activations[a]) \in Seq(Activations)
  BY CurrentIs DEF IInv
<1> QED
  BY <1>1 DEF Ended, Goto, Becomes, IInv, OwnershipTypeOK

(* What fails ends its activation; it is recorded as the problem, or as    *)
(* what nothing tells.                                                     *)
LEMMA FailureEnds ==
  ASSUME NEW a \in Apps, Fails(a)
  PROVE  /\ Ended(a)
         /\ \/ problem' = [problem EXCEPT ![a] = Current(a).number] /\ untold' = untold
            \/ untold' = [untold EXCEPT ![a] = Current(a).number] /\ problem' = problem
BY DEF Fails, Recorded, Broken, Becomes

(* The new library is locked only where nobody holds it.                   *)
LEMMA HoldKeeps ==
  ASSUME IInv, NEW a \in Apps, Hold(a)
  PROVE  IInv'
<1> DEFINE r == Current(a).root
<1>1. /\ at[a] = "holding" /\ Pending(a) /\ catalog[a] = None
      /\ UNCHANGED <<server, catalog, cluster, chosen, refusals>>
      /\ r \in Roots /\ r # None /\ a # None
  BY CurrentIs, NoneAssumption DEF Hold, IInv, Owns, Opening, requests, bounds
<1> HIDE DEF r
<1>2. CASE Fails(a) /\ UNCHANGED <<lock, held, previous>>
  <2>1. OwnershipTypeOK'
    BY <1>1, <1>2, EndedIs, FailureEnds DEF IInv, OwnershipTypeOK
  <2>2. Owns(a)' /\ Serves(a)'
    BY <1>1, <1>2, EndedIs, FailureEnds DEF IInv, Owns, Serves, Opening
  <2> QED
    BY <1>1, <1>2, <2>1, <2>2, EndedIs, OthersStandBy, FailureEnds
<1>3. CASE /\ held[a] = r /\ Goto(a, "switching")
           /\ UNCHANGED <<lock, held, previous, activations>>
  <2>1. OwnershipTypeOK'
    BY <1>1, <1>3 DEF Goto, Becomes, IInv, OwnershipTypeOK, Opening
  <2>2. at'[a] = "switching" /\ \A b \in Apps \ {a} : at'[b] = at[b]
    BY <1>3 DEF Goto, Becomes, IInv, OwnershipTypeOK
  <2>3. Owns(a)' /\ Serves(a)'
    BY <1>1, <1>3, <2>2 DEF IInv, Owns, Serves, Pending, Current, Opening, r
  <2> QED
    BY <1>1, <1>3, <2>1, <2>2, <2>3, OthersStandBy
<1>4. CASE /\ held[a] # r /\ lock[r] = None /\ lock' = Locked(a, r)
           /\ Becomes(held, a, r) /\ Becomes(previous, a, held[a])
           /\ Goto(a, "switching") /\ UNCHANGED activations
  <2>1. OwnershipTypeOK'
    BY <1>1, <1>4 DEF Goto, Becomes, Locked, IInv, OwnershipTypeOK, Opening
  <2>2. /\ at'[a] = "switching" /\ held'[a] = r /\ previous'[a] = held[a]
        /\ \A b \in Apps \ {a} : at'[b] = at[b] /\ held'[b] = held[b] /\ previous'[b] = previous[b]
    BY <1>4 DEF Goto, Becomes, IInv, OwnershipTypeOK
  <2>3. lock'[r] = a /\ \A k \in Roots \ {r} : lock'[k] = lock[k]
    BY <1>1, <1>4 DEF Locked, IInv, OwnershipTypeOK
  <2>4. held[a] \in Roots \cup {None}
    BY DEF IInv, OwnershipTypeOK
  <2>5. Owns(a) /\ Serves(a)
    BY DEF IInv
  <2>6. Owns(a)'
    BY <1>1, <1>4, <2>2, <2>3, <2>4, <2>5 DEF Owns, Pending, Current, Opening, r
  <2>7. Serves(a)'
    BY <1>1, <1>4, <2>2, <2>5 DEF Serves
  <2>8. \A k \in Roots : lock[k] \notin {a, None} => lock'[k] = lock[k]
    BY <1>4, <2>3
  <2> QED
    BY <1>1, <1>4, <2>1, <2>2, <2>6, <2>7, <2>8, OthersStandBy
<1> QED
  BY <1>2, <1>3, <1>4 DEF Hold, InUse, Fails, r

-----------------------------------------------------------------------------
(* The lock freed is that of the library held before, and no other.        *)
LEMMA ReleasesIs ==
  ASSUME IInv, NEW a \in Apps, Releases(a)
  PROVE  /\ lock' \in [Roots -> Apps \cup {None}]
         /\ previous' \in [Apps -> Roots \cup {None}]
         /\ previous'[a] = None
         /\ \A b \in Apps \ {a} : previous'[b] = previous[b]
         /\ held[a] # None => lock'[held[a]] = a
         /\ \A k \in Roots : lock[k] \notin {a, None} => lock'[k] = lock[k]
<1>1. /\ lock' = [k \in Roots |-> IF k = previous[a] /\ lock[k] = a THEN None ELSE lock[k]]
      /\ previous' = [previous EXCEPT ![a] = None]
  BY DEF Releases, Unlocked, Becomes
<1>2. held[a] # None => held[a] \in Roots /\ lock[held[a]] = a /\ previous[a] # held[a]
  BY NoneAssumption DEF IInv, OwnershipTypeOK, Owns
<1> QED
  BY <1>1, <1>2 DEF IInv, OwnershipTypeOK

(* The database stopped is of the library held before, locked until then.  *)
LEMMA SwitchAwayKeeps ==
  ASSUME IInv, NEW a \in Apps, SwitchAway(a)
  PROVE  IInv'
<1> DEFINE r == Current(a).root
<1>1. /\ at[a] = "switching" /\ Pending(a) /\ catalog[a] = None /\ held[a] = r
      /\ UNCHANGED <<catalog, held, chosen>>
      /\ r \in Roots /\ r # None /\ a # None
      /\ Owns(a) /\ Serves(a)
      /\ refusals \in Nat
      /\ cluster[a] \in Roots \cup {None}
  BY CurrentIs, NoneAssumption DEF SwitchAway, IInv, OwnershipTypeOK, Owns, Opening, requests
<1> HIDE DEF r
<1>2. CASE Foreign(a) /\ Refuses(a) /\ Fails(a) /\ UNCHANGED <<lock, server, cluster, previous>>
  <2>1. refusals' \in Nat /\ refusals' # 0
    BY <1>1, <1>2 DEF Refuses
  <2>2. OwnershipTypeOK'
    BY <1>1, <1>2, <2>1, EndedIs, FailureEnds DEF IInv, OwnershipTypeOK
  <2>3. Owns(a)' /\ Serves(a)'
    BY <1>1, <1>2, <2>1, EndedIs, FailureEnds DEF Owns, Serves, Opening
  <2> QED
    BY <1>1, <1>2, <2>1, <2>2, <2>3, EndedIs, OthersStandBy, FailureEnds
<1>3. CASE /\ Foreign(a) => Becomes(server, cluster[a], None) /\ Becomes(cluster, a, None)
           /\ ~Foreign(a) => UNCHANGED <<server, cluster>>
           /\ Releases(a)
           /\ Goto(a, "starting")
           /\ UNCHANGED <<activations, refusals>>
  <2>1. /\ server' \in [Roots -> Apps \cup {None}]
        /\ cluster' \in [Apps -> Roots \cup {None}]
        /\ cluster'[a] \in {None, r}
        /\ \A b \in Apps \ {a} : cluster'[b] = cluster[b]
        /\ \A k \in Roots : k # cluster[a] => server'[k] = server[k]
        /\ server' # server => Foreign(a)
    BY <1>1, <1>3 DEF Becomes, Foreign, IInv, OwnershipTypeOK, r
  <2>2. /\ at' \in [Apps -> Opening \cup {"free", "parting", "halting"}]
        /\ at'[a] = "starting" /\ \A b \in Apps \ {a} : at'[b] = at[b]
    BY <1>3 DEF Goto, Becomes, IInv, OwnershipTypeOK, Opening
  <2>3. OwnershipTypeOK'
    BY <1>1, <1>3, <2>1, <2>2, ReleasesIs DEF IInv, OwnershipTypeOK
  <2>4. Owns(a)'
    BY <1>1, <1>3, <2>2, ReleasesIs DEF Owns, Pending, Current, Opening, r
  <2>5. Serves(a)'
    BY <1>1, <1>3, <2>1, <2>2, ReleasesIs DEF Serves
  <2>6. \A k \in Roots : refusals' = 0 /\ server[k] # None /\ server'[k] = None => lock[k] = a
    <3> SUFFICES ASSUME NEW k \in Roots, refusals = 0, server[k] # None, server'[k] = None
                 PROVE  lock[k] = a
      BY <1>3
    <3>1. k = cluster[a] /\ Foreign(a)
      BY <2>1
    <3>2. k \in {held[a], previous[a]} /\ k # None
      BY <1>1, <3>1, NoneAssumption DEF Serves
    <3> QED
      BY <1>1, <3>2 DEF Owns
  <2> QED
    BY <1>1, <1>3, <2>1, <2>2, <2>3, <2>4, <2>5, <2>6, ReleasesIs, OthersStandBy
<1> QED
  BY <1>2, <1>3 DEF SwitchAway, shared

(* A lock that is collected is of no library that is held.                 *)
LEMMA CollectLockKeeps ==
  ASSUME IInv, NEW a \in Apps, CollectLock(a)
  PROVE  IInv'
<1>1. /\ at[a] = "free" /\ Releases(a)
      /\ UNCHANGED <<server, activations, at, catalog, cluster, held, chosen, refusals>>
      /\ Owns(a) /\ Serves(a) /\ previous[a] # None
  BY DEF CollectLock, IInv, requests, bounds
<1>2. OwnershipTypeOK'
  BY <1>1, ReleasesIs DEF IInv, OwnershipTypeOK
<1>3. Owns(a)'
  BY <1>1, ReleasesIs DEF Owns, Pending, Current, Opening
<1>4. Serves(a)'
  BY <1>1 DEF Serves
<1> QED
  BY <1>1, <1>2, <1>3, <1>4, ReleasesIs, OthersStandBy

(* The database started is of the library held.                            *)
LEMMA StartServerKeeps ==
  ASSUME IInv, NEW a \in Apps, StartServer(a)
  PROVE  IInv'
<1> DEFINE r == Current(a).root
<1>1. /\ at[a] = "starting" /\ Pending(a) /\ catalog[a] = None /\ held[a] = r
      /\ UNCHANGED <<lock, catalog, held, previous, chosen, refusals>>
      /\ r \in Roots /\ r # None /\ a # None
      /\ Owns(a) /\ Serves(a) /\ lock[r] = a
      /\ cluster' = [cluster EXCEPT ![a] = r]
  BY CurrentIs, NoneAssumption DEF StartServer, IInv, Owns, Opening, requests, bounds, Becomes
<1> HIDE DEF r
<1>2. /\ cluster' \in [Apps -> Roots \cup {None}] /\ cluster'[a] = r
      /\ \A b \in Apps \ {a} : cluster'[b] = cluster[b]
  BY <1>1 DEF IInv, OwnershipTypeOK
<1>3. CASE \E left \in {None, a, server[r]} : server' = [server EXCEPT ![r] = left] /\ Fails(a)
  <2>1. /\ server' \in [Roots -> Apps \cup {None}]
        /\ \A k \in Roots \ {r} : server'[k] = server[k]
    BY <1>1, <1>3 DEF IInv, OwnershipTypeOK
  <2>2. OwnershipTypeOK'
    BY <1>1, <1>2, <1>3, <2>1, EndedIs, FailureEnds DEF IInv, OwnershipTypeOK
  <2>3. Owns(a)' /\ Serves(a)'
    BY <1>1, <1>2, <1>3, EndedIs, FailureEnds DEF Owns, Serves, Opening
  <2> QED
    BY <1>1, <1>2, <1>3, <2>1, <2>2, <2>3, EndedIs, OthersStandBy, FailureEnds
<1>4. CASE server' = [server EXCEPT ![r] = a] /\ Goto(a, "opening") /\ UNCHANGED activations
  <2>1. /\ server' \in [Roots -> Apps \cup {None}] /\ server'[r] = a
        /\ \A k \in Roots \ {r} : server'[k] = server[k]
    BY <1>1, <1>4 DEF IInv, OwnershipTypeOK
  <2>2. /\ at' \in [Apps -> Opening \cup {"free", "parting", "halting"}]
        /\ at'[a] = "opening" /\ \A b \in Apps \ {a} : at'[b] = at[b]
    BY <1>4 DEF Goto, Becomes, IInv, OwnershipTypeOK, Opening
  <2>3. OwnershipTypeOK'
    BY <1>1, <1>2, <1>4, <2>1, <2>2 DEF IInv, OwnershipTypeOK
  <2>4. Owns(a)'
    BY <1>1, <1>4, <2>2 DEF Owns, Pending, Current, Opening, r
  <2>5. Serves(a)'
    BY <1>1, <1>2, <2>1, <2>2 DEF Serves
  <2> QED
    BY <1>1, <1>2, <1>4, <2>1, <2>2, <2>3, <2>4, <2>5, OthersStandBy
<1> QED
  BY <1>3, <1>4 DEF StartServer, Becomes, r

(* What opens is held, and served.                                         *)
LEMMA OpenKeeps ==
  ASSUME IInv, NEW a \in Apps, Open(a)
  PROVE  IInv'
<1> DEFINE r == Current(a).root
<1>1. /\ at[a] = "opening" /\ Pending(a) /\ catalog[a] = None /\ held[a] = r
      /\ UNCHANGED <<lock, server, cluster, held, previous, chosen, refusals>>
      /\ r \in Roots /\ r # None
      /\ Owns(a) /\ Serves(a) /\ Ended(a)
  BY CurrentIs, FailureEnds DEF Open, IInv, Owns, Opening, requests, bounds, shared
<1> HIDE DEF r
<1>2. catalog' = catalog \/ catalog' = [catalog EXCEPT ![a] = r]
  BY DEF Open, Becomes, r
<1>3. /\ catalog' \in [Apps -> Roots \cup {None}] /\ catalog'[a] \in {None, r}
      /\ \A b \in Apps \ {a} : catalog'[b] = catalog[b]
  BY <1>1, <1>2 DEF IInv, OwnershipTypeOK
<1>4. OwnershipTypeOK'
  BY <1>1, <1>3, EndedIs DEF IInv, OwnershipTypeOK
<1>5. Owns(a)' /\ Serves(a)'
  BY <1>1, <1>3, EndedIs DEF Owns, Serves, Opening
<1> QED
  BY <1>1, <1>3, <1>4, <1>5, EndedIs, OthersStandBy

(* The steps of an activation.                                             *)
LEMMA ActivateKeeps ==
  ASSUME IInv, NEW a \in Apps, Activate(a)
  PROVE  IInv'
BY BeginActivationKeeps, CloseCatalogKeeps, HoldKeeps, SwitchAwayKeeps, CollectLockKeeps,
   StartServerKeeps, OpenKeeps DEF Activate

-----------------------------------------------------------------------------
(* What an application opened is closed before its database is stopped.    *)
LEMMA StopLibraryKeeps ==
  ASSUME IInv, NEW a \in Apps, StopLibrary(a)
  PROVE  IInv'
<1>1. OwnershipTypeOK'
  BY DEF StopLibrary, Goto, Becomes, IInv, OwnershipTypeOK, Opening, memory, requests, bounds, shared
<1>2. /\ UNCHANGED <<lock, server, activations, catalog, cluster, held, previous, refusals>>
      /\ at[a] = "free" /\ at'[a] = "parting"
      /\ \A b \in Apps \ {a} : at'[b] = at[b]
  BY DEF StopLibrary, Goto, Becomes, IInv, OwnershipTypeOK, memory, bounds, shared
<1>3. Owns(a)' /\ Serves(a)'
  BY <1>2 DEF IInv, Owns, Serves, Pending, Current, Opening
<1> QED
  BY <1>1, <1>2, <1>3, OthersStandBy

(* A stop closes the catalog first...                                      *)
LEMMA PartKeeps ==
  ASSUME IInv, NEW a \in Apps, Part(a)
  PROVE  IInv'
<1>1. OwnershipTypeOK'
  BY DEF Part, Goto, Becomes, IInv, OwnershipTypeOK, Opening, requests, bounds, shared
<1>2. /\ UNCHANGED <<lock, server, activations, cluster, held, previous, refusals>>
      /\ at[a] = "parting" /\ at'[a] = "halting" /\ catalog'[a] = None
      /\ \A b \in Apps \ {a} : at'[b] = at[b] /\ catalog'[b] = catalog[b]
  BY DEF Part, Goto, Becomes, IInv, OwnershipTypeOK, requests, bounds, shared
<1>3. Owns(a)' /\ Serves(a)'
  BY <1>2 DEF IInv, Owns, Serves, Pending, Current, Opening
<1> QED
  BY <1>1, <1>2, <1>3, OthersStandBy

(* Only a database of a library it holds locked is stopped by a stop.      *)
LEMMA StopsServerIs ==
  ASSUME IInv, NEW a \in Apps, at[a] # "switching", StopsServer(a)
  PROVE  /\ server' \in [Roots -> Apps \cup {None}]
         /\ \A k \in Roots : refusals = 0 /\ server[k] # None /\ server'[k] = None => lock[k] = a
<1>1. cluster[a] \in Roots \cup {None} /\ Owns(a) /\ Serves(a)
  BY DEF IInv, OwnershipTypeOK
<1>2. server' \in [Roots -> Apps \cup {None}]
  BY <1>1 DEF StopsServer, IInv, OwnershipTypeOK
<1>3. ASSUME NEW k \in Roots, refusals = 0, server[k] # None, server'[k] = None
      PROVE  lock[k] = a
  <2>1. k = cluster[a] /\ k # None
    BY <1>1, <1>3, NoneAssumption DEF StopsServer, IInv, OwnershipTypeOK
  <2> QED
    BY <1>1, <1>3, <2>1 DEF Owns, Serves
<1> QED
  BY <1>2, <1>3

(* ...then stops the database, and lets the library go.                    *)
LEMMA HaltKeeps ==
  ASSUME IInv, NEW a \in Apps, Halt(a)
  PROVE  IInv'
<1>1. /\ at[a] = "halting" /\ catalog[a] = None
      /\ UNCHANGED <<activations, catalog, previous, chosen>>
      /\ Owns(a) /\ Serves(a) /\ refusals \in Nat
      /\ at' \in [Apps -> Opening \cup {"free", "parting", "halting"}]
      /\ at'[a] = "free" /\ \A b \in Apps \ {a} : at'[b] = at[b]
  BY DEF Halt, IInv, OwnershipTypeOK, Owns, requests, Goto, Becomes, Opening
<1>2. CASE StopsRest(a) /\ UNCHANGED refusals
  <2>1. /\ lock' = [k \in Roots |-> IF k = held[a] /\ lock[k] = a THEN None ELSE lock[k]]
        /\ cluster' = [cluster EXCEPT ![a] = None] /\ held' = [held EXCEPT ![a] = None]
        /\ StopsServer(a)
    BY <1>2 DEF StopsRest, Unlocked, Becomes
  <2>2. /\ cluster'[a] = None /\ held'[a] = None
        /\ \A b \in Apps \ {a} : cluster'[b] = cluster[b] /\ held'[b] = held[b]
        /\ \A k \in Roots : lock[k] \notin {a, None} => lock'[k] = lock[k]
        /\ \A k \in Roots \ {held[a]} : lock'[k] = lock[k]
    BY <2>1 DEF IInv, OwnershipTypeOK
  <2>3. OwnershipTypeOK'
    BY <1>1, <1>2, <2>1, StopsServerIs DEF IInv, OwnershipTypeOK
  <2>4. previous[a] \in Roots \cup {None}
    BY DEF IInv, OwnershipTypeOK
  <2>5. Owns(a)'
    BY <1>1, <2>2, <2>4 DEF Owns, Opening
  <2>6. Serves(a)'
    BY <1>1, <1>2, <2>2 DEF Serves
  <2> QED
    BY <1>1, <1>2, <2>1, <2>2, <2>3, <2>5, <2>6, StopsServerIs, OthersStandBy
<1>3. CASE Refuses(a) /\ UNCHANGED <<lock, server, cluster, held>>
  <2>1. refusals' \in Nat /\ refusals' # 0
    BY <1>1, <1>3 DEF Refuses
  <2>2. OwnershipTypeOK'
    BY <1>1, <1>3, <2>1 DEF IInv, OwnershipTypeOK
  <2>3. Owns(a)' /\ Serves(a)'
    BY <1>1, <1>3, <2>1 DEF Owns, Serves, Opening
  <2> QED
    BY <1>1, <1>3, <2>1, <2>2, <2>3, OthersStandBy
<1> QED
  BY <1>2, <1>3 DEF Halt, shared

(* A process that ends holds nothing, and takes no lock of others along.   *)
LEMMA GoneKeeps ==
  ASSUME IInv, NEW a \in Apps, NEW how, Gone(a, how), refusals' \in Nat,
         refusals' = 0 => refusals = 0,
         server' \in [Roots -> Apps \cup {None}],
         \A k \in Roots :
           refusals' = 0 /\ server[k] # None /\ server'[k] = None => lock[k] = a
  PROVE  IInv'
<1>1. /\ lock' = [k \in Roots |-> IF lock[k] = a THEN None ELSE lock[k]]
      /\ activations' = [activations EXCEPT ![a] = <<>>]
      /\ at' = [at EXCEPT ![a] = "free"]
      /\ catalog' = [catalog EXCEPT ![a] = None]
      /\ cluster' = [cluster EXCEPT ![a] = None]
      /\ held' = [held EXCEPT ![a] = None]
      /\ previous' = [previous EXCEPT ![a] = None]
      /\ chosen' = [chosen EXCEPT ![a] = 0]
  BY DEF Gone, Goto, Becomes
<1>2. OwnershipTypeOK'
  BY <1>1 DEF IInv, OwnershipTypeOK, Opening
<1>3. /\ at'[a] = "free" /\ catalog'[a] = None /\ cluster'[a] = None
      /\ held'[a] = None /\ previous'[a] = None
      /\ \A b \in Apps \ {a} :
           /\ activations'[b] = activations[b] /\ at'[b] = at[b]
           /\ catalog'[b] = catalog[b] /\ cluster'[b] = cluster[b]
           /\ held'[b] = held[b] /\ previous'[b] = previous[b]
      /\ \A k \in Roots : lock[k] \notin {a, None} => lock'[k] = lock[k]
  BY <1>1 DEF IInv, OwnershipTypeOK
<1>4. Owns(a)' /\ Serves(a)'
  BY <1>3 DEF Owns, Serves, Opening
<1> QED
  BY <1>2, <1>3, <1>4, OthersStandBy

(* A process ends holding nothing.                                         *)
LEMMA EndKeeps ==
  ASSUME IInv, NEW a \in Apps, End(a)
  PROVE  IInv'
<1>1. at[a] = "halting" /\ Gone(a, "ended") /\ refusals \in Nat
  BY DEF End, IInv, OwnershipTypeOK
<1>2. CASE StopsServer(a) /\ UNCHANGED refusals
  BY <1>1, <1>2, StopsServerIs, GoneKeeps
<1>3. CASE Refuses(a) /\ UNCHANGED server
  <2>1. refusals' \in Nat /\ refusals' # 0
    BY <1>1, <1>3 DEF Refuses
  <2>2. server' \in [Roots -> Apps \cup {None}]
    BY <1>3 DEF IInv, OwnershipTypeOK
  <2> QED
    BY <1>1, <2>1, <2>2, GoneKeeps
<1> QED
  BY <1>2, <1>3 DEF End

(* A process that dies takes its locks and what it had open with it.       *)
LEMMA DieKeeps ==
  ASSUME IInv, NEW a \in Apps, Die(a)
  PROVE  IInv'
<1>1. Gone(a, "dead") /\ UNCHANGED <<server, refusals>>
  BY DEF Die
<1> QED
  BY <1>1, GoneKeeps DEF IInv, OwnershipTypeOK

(* The steps of a stop.                                                    *)
LEMMA StopKeeps ==
  ASSUME IInv, NEW a \in Apps, Stop(a)
  PROVE  IInv'
<1>1. CASE StopBuild(a)
  BY <1>1, LibrariesRest DEF StopBuild, shared, memory, requests, bounds, IInv, OwnershipTypeOK
<1> QED
  BY <1>1, StopLibraryKeeps, PartKeeps, HaltKeeps, EndKeeps DEF Stop

-----------------------------------------------------------------------------
(* An application that starts holds nothing yet.                           *)
LEMMA StartKeeps ==
  ASSUME IInv, FilesTypeOK, NEW a \in Apps, Start(a)
  PROVE  IInv'
<1>1. UNCHANGED <<lock, server, at, catalog, cluster, held, previous, refusals>>
  BY DEF Start, shared, memory
<1>2. CASE file[a] # None
  <2>1. PICK r \in Roots : r = file[a]
    BY <1>2 DEF FilesTypeOK
  <2>2. Scheduled(a, r)
    BY <1>2, <2>1 DEF Start, Scheduled
  <2> QED
    BY <1>1, <2>2, SchedulingKeeps
<1>3. CASE file[a] = None
  <2>1. UNCHANGED <<activations, chosen>>
    BY <1>3 DEF Start
  <2> QED
    BY <1>1, <2>1, LibrariesRest DEF IInv, OwnershipTypeOK
<1> QED
  BY <1>2, <1>3

(* To choose a library only schedules it.                                  *)
LEMMA ChooseKeeps ==
  ASSUME IInv, NEW a \in Apps, NEW r \in Roots, Choose(a, r)
  PROVE  IInv'
BY SchedulingKeeps DEF Choose, shared, memory, bounds

(* Requests and builds move no library.                                    *)
LEMMA RequestsRest ==
  ASSUME IInv, NEW a \in Apps, NEW t \in Threads,
         AskBuild(a, t) \/ AskOptions(a, t) \/ Handle(a, t)
  PROVE  IInv'
<1>1. /\ UNCHANGED <<lock, server, activations, at, catalog, cluster, held, previous>>
      /\ UNCHANGED <<chosen, refusals>>
  BY DEF AskBuild, AskOptions, Handle, CheckBuild, Launch, WriteOptions, TakeOptions,
         shared, memory, bounds
<1> QED
  BY <1>1, LibrariesRest DEF IInv, OwnershipTypeOK

(* Builds take and leave no library.                                       *)
LEMMA BuildsRest ==
  ASSUME IInv, NEW a \in Apps, NEW i \in Builds, StartBuild(a, i) \/ EndBuild(a, i)
  PROVE  IInv'
<1>1. /\ UNCHANGED <<lock, server, activations, at, catalog, cluster, held, previous>>
      /\ UNCHANGED <<chosen, refusals>>
  BY DEF StartBuild, EndBuild, shared, memory, bounds
<1> QED
  BY <1>1, LibrariesRest DEF IInv, OwnershipTypeOK

(* To leave is only asked for: the stop does the rest.                     *)
LEMMA LeavingRests ==
  ASSUME IInv, NEW a \in Apps, Quit(a) \/ Leave(a) \/ StopForGood(a)
  PROVE  IInv'
<1>1. /\ UNCHANGED <<lock, server, activations, at, catalog, cluster, held, previous>>
      /\ UNCHANGED <<chosen, refusals>>
  BY DEF Quit, Leave, StopForGood, shared, memory, bounds
<1> QED
  BY <1>1, LibrariesRest DEF IInv, OwnershipTypeOK

-----------------------------------------------------------------------------
(* A request moves along.                                                  *)
LEMMA RequestIs ==
  ASSUME FilesTypeOK, NEW a \in Apps, NEW t \in Threads, NEW v \in Asks, Request(a, t, v)
  PROVE  thread' \in [Apps -> [Threads -> Asks]]
BY DEF FilesTypeOK, Request

(* The requests there are, and what a request becomes.                     *)
LEMMA AsksAre ==
  ASSUME FilesTypeOK, NEW a \in Apps, NEW t \in Threads
  PROVE  /\ thread[a][t] \in Asks
         /\ thread[a][t].seen \in Roots \cup {None}
         /\ Idle \in Asks
         /\ \A place \in {"cleared", "assigning"} : [thread[a][t] EXCEPT !.at = place] \in Asks
         /\ [Idle EXCEPT !.at = "asked", !.quiet = Settled(a)] \in Asks
         /\ [Idle EXCEPT !.at = "writing", !.seen = file[a]] \in Asks
<1>1. thread[a][t] \in Asks /\ file[a] \in Roots \cup {None}
  BY DEF FilesTypeOK
<1>2. thread[a][t].seen \in Roots \cup {None}
  BY <1>1 DEF Asks
<1>3. \A place \in {"cleared", "assigning"} : [thread[a][t] EXCEPT !.at = place] \in Asks
  BY <1>1 DEF Asks
<1>4. Idle \in Asks
  BY DEF Idle, Asks
<1>5. [Idle EXCEPT !.at = "asked", !.quiet = Settled(a)] \in Asks
  <2>1. Settled(a) \in BOOLEAN
    BY DEF Settled, Pending
  <2> QED
    BY <2>1 DEF Idle, Asks
<1>6. [Idle EXCEPT !.at = "writing", !.seen = file[a]] \in Asks
  BY <1>1 DEF Idle, Asks
<1> QED
  BY <1>1, <1>2, <1>3, <1>4, <1>5, <1>6

(* Config files name libraries throughout.                                 *)
LEMMA FilesStep ==
  ASSUME FilesTypeOK, Next
  PROVE  FilesTypeOK'
<1> SUFFICES ASSUME NEW a \in Apps,
      \/ Start(a) \/ Quit(a) \/ Leave(a) \/ Die(a)
      \/ \E r \in Roots : Choose(a, r)
      \/ \E t \in Threads : AskBuild(a, t) \/ AskOptions(a, t)
      \/ \E i \in Builds : StartBuild(a, i) \/ EndBuild(a, i)
      \/ Progress(a)
    PROVE FilesTypeOK'
  BY DEF Next
<1>1. CASE UNCHANGED <<file, thread>>
  BY <1>1 DEF FilesTypeOK
<1>2. ASSUME NEW t \in Threads, AskBuild(a, t)
      PROVE  FilesTypeOK'
  BY <1>2, RequestIs, AsksAre DEF AskBuild, FilesTypeOK
<1>3. ASSUME NEW t \in Threads, AskOptions(a, t)
      PROVE  FilesTypeOK'
  BY <1>3, RequestIs, AsksAre DEF AskOptions, FilesTypeOK
<1>4. ASSUME NEW t \in Threads, CheckBuild(a, t)
      PROVE  FilesTypeOK'
  BY <1>4, RequestIs, AsksAre DEF CheckBuild, FilesTypeOK
<1>5. ASSUME NEW t \in Threads, Launch(a, t)
      PROVE  FilesTypeOK'
  BY <1>5, RequestIs, AsksAre DEF Launch, FilesTypeOK
<1>6. ASSUME NEW t \in Threads, WriteOptions(a, t)
      PROVE  FilesTypeOK'
  <2>1. thread' \in [Apps -> [Threads -> Asks]]
    BY <1>6, RequestIs, AsksAre DEF WriteOptions
  <2>2. file' \in [Apps -> Roots \cup {None}]
    BY <1>6, AsksAre DEF WriteOptions, Rewritten, Becomes, FilesTypeOK
  <2> QED
    BY <2>1, <2>2 DEF FilesTypeOK
<1>7. ASSUME NEW t \in Threads, TakeOptions(a, t)
      PROVE  FilesTypeOK'
  BY <1>7, RequestIs, AsksAre DEF TakeOptions, FilesTypeOK
<1>8. ASSUME NEW r \in Roots, Choose(a, r)
      PROVE  FilesTypeOK'
  BY <1>8 DEF Choose, Becomes, FilesTypeOK
<1>9. ASSUME NEW how, Gone(a, how)
      PROVE  FilesTypeOK'
  <2>1. [t \in Threads |-> Idle] \in [Threads -> Asks]
    BY DEF Idle, Asks
  <2>2. thread' = [thread EXCEPT ![a] = [t \in Threads |-> Idle]] /\ file' = file
    BY <1>9 DEF Gone, Becomes
  <2> QED
    BY <2>1, <2>2 DEF FilesTypeOK
<1>10. CASE Start(a) \/ Quit(a) \/ Leave(a)
  BY <1>10, <1>1 DEF Start, Quit, Leave, requests
<1>11. CASE Die(a)
  BY <1>11, <1>9 DEF Die
<1>12. CASE \E i \in Builds : StartBuild(a, i) \/ EndBuild(a, i)
  BY <1>12, <1>1 DEF StartBuild, EndBuild
<1>13. CASE Activate(a)
  BY <1>13, <1>1 DEF Activate, BeginActivation, CloseCatalog, Hold, SwitchAway, CollectLock,
     StartServer, Open, requests
<1>14. CASE Stop(a) \/ StopForGood(a)
  <2>1. CASE End(a)
    BY <2>1, <1>9 DEF End
  <2>2. CASE StopBuild(a) \/ StopLibrary(a) \/ Part(a) \/ Halt(a) \/ StopForGood(a)
    BY <2>2, <1>1 DEF StopBuild, StopLibrary, Part, Halt, StopForGood, requests
  <2> QED
    BY <1>14, <2>1, <2>2 DEF Stop
<1> QED
  BY <1>2, <1>3, <1>4, <1>5, <1>6, <1>7, <1>8, <1>10, <1>11, <1>12, <1>13, <1>14
  DEF Progress, Handle

(* Every step keeps the invariant of opened libraries.                     *)
LEMMA IInvStep ==
  ASSUME IInv, FilesTypeOK, Next
  PROVE  IInv'
<1> SUFFICES ASSUME NEW a \in Apps,
      \/ Start(a) \/ Quit(a) \/ Leave(a) \/ Die(a)
      \/ \E r \in Roots : Choose(a, r)
      \/ \E t \in Threads : AskBuild(a, t) \/ AskOptions(a, t)
      \/ \E i \in Builds : StartBuild(a, i) \/ EndBuild(a, i)
      \/ Progress(a)
    PROVE IInv'
  BY DEF Next
<1>1. CASE Progress(a)
  BY <1>1, ActivateKeeps, RequestsRest, StopKeeps, LeavingRests DEF Progress
<1> QED
  BY <1>1, StartKeeps, LeavingRests, DieKeeps, ChooseKeeps, RequestsRest, BuildsRest

(* A step that changes nothing keeps it.                                   *)
LEMMA Stuttering ==
  ASSUME IInv, FilesTypeOK, UNCHANGED vars
  PROVE  IInv' /\ FilesTypeOK'
<1>1. /\ UNCHANGED <<lock, server, activations, at, catalog, cluster, held, previous>>
      /\ UNCHANGED <<chosen, refusals, file, thread>>
  BY DEF vars, shared, memory, requests, bounds
<1> QED
  BY <1>1, LibrariesRest DEF FilesTypeOK, IInv, OwnershipTypeOK

(* Whoever opens, switches, quits or is killed, in whatever order: what an *)
(* application holds is locked for it, and the database it may stop is its *)
(* own to stop (launcher.py, jobs.py, embedded/server.py).                 *)
THEOREM Invariant == Spec => [](IInv /\ FilesTypeOK)
<1>1. Init => IInv /\ FilesTypeOK
  <2> SUFFICES ASSUME Init PROVE IInv /\ FilesTypeOK
    OBVIOUS
  <2>1. OwnershipTypeOK
    BY DEF Init, OwnershipTypeOK, Opening
  <2>2. ASSUME NEW a \in Apps
        PROVE  Owns(a) /\ Serves(a)
    BY DEF Init, Owns, Serves, Opening
  <2>3. FilesTypeOK
    BY DEF Init, FilesTypeOK, Asks, Idle
  <2> QED
    BY <2>1, <2>2, <2>3 DEF IInv
<1>2. IInv /\ FilesTypeOK /\ [Next]_vars => (IInv /\ FilesTypeOK)'
  BY IInvStep, FilesStep, Stuttering
<1> QED
  BY <1>1, <1>2, PTL DEF Spec

(* A library that is open is locked for the application that has it open,  *)
(* and its database runs unless one would not stop before. No application  *)
(* stops another's, by switching away, quitting or restarting it           *)
(* (launcher.py, _prepare_database and stop).                              *)
THEOREM OpenLibraryIsAlwaysServed == Spec => []OpenLibraryIsServed
<1>1. IInv => OpenLibraryIsServed
  BY DEF IInv, Owns, Serves, OpenLibraryIsServed
<1> QED
  BY <1>1, Invariant, PTL

(* Two applications never have one library open (launcher.py,              *)
(* _hold_library, over the file lock of the library).                      *)
THEOREM LibrariesAreOpenedOnce ==
  Spec => [](\A a, b \in Apps : catalog[a] # None /\ catalog[a] = catalog[b] => a = b)
<1>1. IInv => \A a, b \in Apps : catalog[a] # None /\ catalog[a] = catalog[b] => a = b
  BY DEF IInv, Owns
<1> QED
  BY <1>1, Invariant, PTL
-----------------------------------------------------------------------------
(* The session of an application: what its people asked of it since it     *)
(* started, what of that is under way, and the builds it left before.      *)

BuildRecords ==
  [at : {"none", "launched", "running", "ended"}, root : Roots \cup {None},
   quiet : BOOLEAN, of : Nat]

SessionTypeOK ==
  /\ config \in [Apps -> Roots \cup {None}]
  /\ life \in [Apps -> {"off", "up", "leaving", "last", "ended", "dead"}]
  /\ stopping \in [Apps -> {"no", "builds", "activation"}]
  /\ awaited \in [Apps -> Nat]
  /\ problem \in [Apps -> Nat]
  /\ untold \in [Apps -> Nat]
  /\ build \in [Apps -> [Builds -> BuildRecords]]
  /\ job \in [Apps -> {0} \cup Builds]
  /\ overlapped \in [Apps -> BOOLEAN]
  /\ starts \in [Apps -> Nat]
  /\ deaths \in Nat

(* A process that is gone left nothing of its own but builds.              *)
Blank(a) ==
  ~Alive(a) =>
    /\ at[a] = "free" /\ stopping[a] = "no" /\ ~Pending(a) /\ ~Handling(a)
    /\ catalog[a] = None /\ cluster[a] = None /\ job[a] = 0
    /\ \A r \in Roots : lock[r] # a

(* Where every database stopped, it remembers those it started.            *)
Remembers(a) ==
  deaths + refusals = 0 => \A r \in Roots : server[r] = a => cluster[a] = r

(* It follows the build of this start that runs, if one does: a request is *)
(* let through only where none does.                                       *)
Ours(a, i) == Runs(a, i) /\ build[a][i].of = starts[a]

Follows(a) ==
  /\ \A i \in Builds : build[a][i].of <= starts[a]
  /\ Alive(a) /\ ~overlapped[a] =>
       /\ \A t, u \in Threads : thread[a][t].at # "idle" /\ thread[a][u].at # "idle" => t = u
       /\ \A t \in Threads : thread[a][t].at = "cleared" => ~BuildRuns(a)
       /\ \A i \in Builds : Ours(a, i) => job[a] = i

(* The stages of a stop.                                                   *)
Stops(a) ==
  /\ at[a] \in {"parting", "halting"} => stopping[a] = "activation"
  /\ life[a] = "last" =>
       stopping[a] # "no" /\ ~Handling(a) /\ (stopping[a] = "activation" => ~BuildRuns(a))
  /\ life[a] = "ended" /\ ~overlapped[a] => \A i \in Builds : ~Ours(a, i)

(* The config in memory is that of the file; the last activation opens its *)
(* library, and what is built is built there.                              *)
Latest(a) == activations[a][Len(activations[a])]

Intends(a) ==
  Alive(a) /\ ~overlapped[a] =>
    /\ file[a] = config[a]
    /\ \A t \in Threads : thread[a][t].at \in {"writing", "assigning"} => thread[a][t].seen = file[a]
    /\ Pending(a) => Latest(a).root = config[a] /\ Latest(a).number = chosen[a]
    /\ \A i \in Builds : build[a][i].at = "running" /\ build[a][i].of = starts[a]
                          => build[a][i].root = config[a]

(* What it came to once nothing is pending.                                *)
Tells(a) ==
  /\ life[a] = "up" /\ at[a] \notin {"parting", "halting"} /\ ~Pending(a)
  /\ ~overlapped[a] /\ refusals = 0
  => \/ catalog[a] = config[a]
     \/ catalog[a] = None /\ chosen[a] \in {problem[a], untold[a]}

(* A build asked for in quiet finds it as it was, or being stopped...      *)
Waiting(a) ==
  \A t \in Threads :
    /\ ~overlapped[a] /\ refusals = 0
    /\ thread[a][t].at \in {"asked", "cleared"} /\ thread[a][t].quiet
    => ~Pending(a) /\ (life[a] = "up" /\ at[a] = "free" => catalog[a] # None)

(* ...and keeps it there while it runs.                                    *)
Keeps(a) ==
  \A i \in Builds :
    /\ Alive(a) /\ ~overlapped[a] /\ refusals = 0
    /\ Ours(a, i) /\ build[a][i].quiet
    => /\ at[a] = "free" /\ ~Pending(a) /\ stopping[a] # "activation"
       /\ catalog[a] = config[a] /\ config[a] # None
       /\ build[a][i].at = "running" => build[a][i].root = catalog[a]

Session(a) ==
  /\ Blank(a)
  /\ Remembers(a)
  /\ Follows(a)
  /\ Stops(a)
  /\ Intends(a)
  /\ Tells(a)
  /\ Waiting(a)
  /\ Keeps(a)

Good ==
  /\ IInv
  /\ FilesTypeOK
  /\ SessionTypeOK
  /\ \A a \in Apps : Session(a)

(* Everything one application does, with its builds.                       *)
Moves(a) ==
  \/ Start(a) \/ Quit(a) \/ Leave(a) \/ Die(a)
  \/ \E r \in Roots : Choose(a, r)
  \/ \E t \in Threads : AskBuild(a, t) \/ AskOptions(a, t)
  \/ \E i \in Builds : StartBuild(a, i) \/ EndBuild(a, i)
  \/ Progress(a)

Still(a) ==
  /\ file'[a] = file[a]
  /\ config'[a] = config[a]
  /\ life'[a] = life[a]
  /\ stopping'[a] = stopping[a]
  /\ activations'[a] = activations[a]
  /\ at'[a] = at[a]
  /\ catalog'[a] = catalog[a]
  /\ cluster'[a] = cluster[a]
  /\ problem'[a] = problem[a]
  /\ untold'[a] = untold[a]
  /\ chosen'[a] = chosen[a]
  /\ thread'[a] = thread[a]
  /\ build'[a] = build[a]
  /\ job'[a] = job[a]
  /\ overlapped'[a] = overlapped[a]
  /\ starts'[a] = starts[a]

(* No step hands another application a lock or a database.                 *)
Hands(a) ==
  /\ \A r \in Roots : lock'[r] = a => lock[r] = a
  /\ \A r \in Roots : server'[r] = a => server[r] = a

Faults ==
  /\ refusals' = 0 => refusals = 0
  /\ deaths' + refusals' = 0 => deaths + refusals = 0

(* The session of an application that is left alone stays as it is.        *)
LEMMA SessionStill ==
  ASSUME NEW a \in Apps, Session(a), Still(a), Hands(a), Faults
  PROVE  Session(a)'
<1>1. Blank(a)'
  BY DEF Session, Still, Hands, Blank, Alive, Pending, Handling
<1>2. Remembers(a)'
  BY DEF Session, Still, Hands, Faults, Remembers
<1>3. Follows(a)'
  BY DEF Session, Still, Follows, Alive, Ours, Runs, BuildRuns
<1>4. Stops(a)'
  BY DEF Session, Still, Stops, Ours, Runs, BuildRuns, Handling
<1>5. Intends(a)'
  BY DEF Session, Still, Intends, Alive, Pending, Latest
<1>6. Tells(a)'
  BY DEF Session, Still, Faults, Tells, Pending
<1>7. Waiting(a)'
  BY DEF Session, Still, Faults, Waiting, Pending
<1>8. Keeps(a)'
  BY DEF Session, Still, Faults, Keeps, Alive, Pending, Ours, Runs
<1> QED
  BY <1>1, <1>2, <1>3, <1>4, <1>5, <1>6, <1>7, <1>8 DEF Session

-----------------------------------------------------------------------------
(* A step of one application leaves the others alone.                      *)
LEMMA ApplicationsMindThemselves ==
  ASSUME Good, NEW a \in Apps, Moves(a), NEW b \in Apps \ {a}
  PROVE  Still(b) /\ Hands(b)
<1>0. OwnershipTypeOK /\ FilesTypeOK /\ SessionTypeOK /\ b # None
  BY NoneAssumption DEF Good, IInv
<1> USE <1>0 DEF shared, memory, requests, bounds, Becomes, Goto
<1>1. CASE Start(a)
  BY <1>1 DEF Start, Scheduled, Still, Hands, OwnershipTypeOK, SessionTypeOK
<1>2. CASE Quit(a) \/ Leave(a) \/ StopForGood(a) \/ StopBuild(a) \/ StopLibrary(a) \/ Part(a)
  BY <1>2 DEF Quit, Leave, StopForGood, StopBuild, StopLibrary, Part, Still, Hands,
              OwnershipTypeOK, SessionTypeOK
<1>3. ASSUME NEW r \in Roots, Choose(a, r)
      PROVE  Still(b) /\ Hands(b)
  BY <1>3 DEF Choose, Scheduled, Still, Hands, OwnershipTypeOK, FilesTypeOK, SessionTypeOK
<1>4. ASSUME NEW t \in Threads, AskBuild(a, t) \/ AskOptions(a, t) \/ Handle(a, t)
      PROVE  Still(b) /\ Hands(b)
  BY <1>4 DEF AskBuild, AskOptions, Handle, CheckBuild, Launch, WriteOptions, TakeOptions,
              Request, Beside, Still, Hands, FilesTypeOK, SessionTypeOK
<1>5. ASSUME NEW i \in Builds, StartBuild(a, i) \/ EndBuild(a, i)
      PROVE  Still(b) /\ Hands(b)
  BY <1>5 DEF StartBuild, EndBuild, Still, Hands, SessionTypeOK
<1>6. CASE BeginActivation(a) \/ CloseCatalog(a) \/ Open(a) \/ CollectLock(a)
  BY <1>6 DEF BeginActivation, CloseCatalog, Open, CollectLock, Releases, Unlocked, Fails,
              Recorded, Broken, Ended, Still, Hands, OwnershipTypeOK, SessionTypeOK
<1>7. CASE Hold(a) \/ StartServer(a)
  BY <1>7 DEF Hold, StartServer, Locked, InUse, Fails, Recorded, Broken, Ended, Still, Hands,
              OwnershipTypeOK, SessionTypeOK
<1>8. CASE SwitchAway(a)
  BY <1>8 DEF SwitchAway, Releases, Unlocked, Fails, Recorded, Broken, Ended, Foreign, Still, Hands,
              OwnershipTypeOK, SessionTypeOK
<1>9. ASSUME NEW how, Gone(a, how), server' = server \/ StopsServer(a)
      PROVE  Still(b) /\ Hands(b)
  BY <1>9 DEF Gone, StopsServer, Still, Hands, OwnershipTypeOK, FilesTypeOK, SessionTypeOK
<1>10. CASE End(a) \/ Die(a)
  BY <1>9, <1>10 DEF End, Die
<1>11. CASE Halt(a)
  BY <1>11 DEF Halt, StopsRest, StopsServer, Unlocked, Still, Hands, OwnershipTypeOK, SessionTypeOK
<1> QED
  BY <1>1, <1>2, <1>3, <1>4, <1>5, <1>6, <1>7, <1>8, <1>10, <1>11 DEF Moves, Progress, Activate, Stop

(* Faults are counted and never forgotten.                                 *)
LEMMA FaultsAreCounted ==
  ASSUME Good, NEW a \in Apps, Moves(a)
  PROVE  Faults /\ refusals' \in Nat /\ deaths' \in Nat
<1>1. refusals \in Nat /\ deaths \in Nat
  BY DEF Good, IInv, OwnershipTypeOK, SessionTypeOK
<1>2. \/ refusals' = refusals /\ deaths' = deaths
      \/ refusals' = refusals + 1 /\ deaths' = deaths
      \/ refusals' = refusals /\ deaths' = deaths + 1
  BY DEF Moves, Start, Quit, Leave, Die, Choose, AskBuild, AskOptions, StartBuild, EndBuild,
         Progress, Activate, BeginActivation, CloseCatalog, Hold, SwitchAway, CollectLock,
         StartServer, Open, Handle, CheckBuild, Launch, WriteOptions, TakeOptions, Stop,
         StopBuild, StopLibrary, Part, Halt, End, StopForGood, Refuses, Gone, requests, bounds
<1> QED
  BY <1>1, <1>2 DEF Faults

(* A build started, or over.                                               *)
LEMMA BuildsAre ==
  ASSUME Good, NEW a \in Apps, NEW i \in Builds
  PROVE  /\ build[a][i] \in BuildRecords
         /\ OverBuild \in BuildRecords
         /\ file[a] # None =>
              [build[a][i] EXCEPT !.at = "running", !.root = file[a]] \in BuildRecords
         /\ \A t \in Threads :
              [at |-> "launched", root |-> None, of |-> starts[a],
               quiet |-> thread[a][t].quiet /\ Settled(a)] \in BuildRecords
<1>1. build[a][i] \in BuildRecords /\ file[a] \in Roots \cup {None} /\ starts[a] \in Nat
  BY DEF Good, SessionTypeOK, FilesTypeOK
<1>2. \A t \in Threads : (thread[a][t].quiet /\ Settled(a)) \in BOOLEAN
  BY DEF Settled
<1> QED
  BY <1>1, <1>2 DEF BuildRecords, OverBuild

(* The values of a session stay what they may be.                          *)
LEMMA SessionTypes ==
  ASSUME Good, NEW a \in Apps, Moves(a)
  PROVE  SessionTypeOK'
<1>0. OwnershipTypeOK /\ FilesTypeOK /\ SessionTypeOK /\ deaths' \in Nat
  BY FaultsAreCounted DEF Good, IInv
<1> USE <1>0 DEF shared, memory, requests, bounds, Becomes, Goto
<1>1. CASE Start(a)
  <2>1. CASE file[a] = None
    BY <1>1, <2>1 DEF Start, FilesTypeOK, SessionTypeOK
  <2>2. CASE file[a] # None
    <3>1. /\ problem' = [problem EXCEPT ![a] = 0]
          /\ untold' = [untold EXCEPT ![a] = 0]
      BY <1>1, <2>2 DEF Start, Scheduled
    <3> QED
      BY <1>1, <2>2, <3>1 DEF Start, FilesTypeOK, SessionTypeOK
  <2> QED
    BY <2>1, <2>2
<1>2. CASE Quit(a) \/ Leave(a) \/ StopForGood(a) \/ StopBuild(a) \/ StopLibrary(a) \/ Part(a)
  <2>1. CASE Quit(a) \/ Leave(a)
    BY <2>1 DEF Quit, Leave, SessionTypeOK
  <2>2. CASE StopForGood(a)
    BY <2>2 DEF StopForGood, SessionTypeOK
  <2>3. CASE StopBuild(a)
    BY <2>3 DEF StopBuild, OwnershipTypeOK, SessionTypeOK
  <2>4. CASE StopLibrary(a) \/ Part(a)
    BY <2>4 DEF StopLibrary, Part, SessionTypeOK
  <2> QED
    BY <1>2, <2>1, <2>2, <2>3, <2>4
<1>3. ASSUME NEW r \in Roots, Choose(a, r)
      PROVE  SessionTypeOK'
  BY <1>3 DEF Choose, Scheduled, OwnershipTypeOK, SessionTypeOK, Handling
<1>4. ASSUME NEW t \in Threads, AskBuild(a, t) \/ AskOptions(a, t) \/ CheckBuild(a, t)
                                \/ WriteOptions(a, t)
      PROVE  SessionTypeOK'
  BY <1>4 DEF AskBuild, AskOptions, CheckBuild, WriteOptions, Beside, SessionTypeOK, Handling
<1>5. ASSUME NEW t \in Threads, TakeOptions(a, t)
      PROVE  SessionTypeOK'
  BY <1>5, AsksAre DEF TakeOptions, Rewritten, SessionTypeOK
<1>6. ASSUME NEW t \in Threads, Launch(a, t)
      PROVE  SessionTypeOK'
  <2>1. PICK i \in Builds :
          /\ build' = [build EXCEPT ![a][i] = [at |-> "launched", root |-> None, of |-> starts[a],
                         quiet |-> thread[a][t].quiet /\ Settled(a)]]
          /\ job' = [job EXCEPT ![a] = i]
    BY <1>6 DEF Launch
  <2>2. build' \in [Apps -> [Builds -> BuildRecords]]
    BY <2>1, BuildsAre DEF SessionTypeOK
  <2> QED
    BY <1>6, <2>1, <2>2 DEF Launch, SessionTypeOK
<1>7. ASSUME NEW i \in Builds, StartBuild(a, i) \/ EndBuild(a, i)
      PROVE  SessionTypeOK'
  <2>1. PICK made \in BuildRecords : build' = [build EXCEPT ![a][i] = made]
    BY <1>7, BuildsAre DEF StartBuild, EndBuild, SessionTypeOK
  <2>2. build' \in [Apps -> [Builds -> BuildRecords]]
    BY <2>1 DEF SessionTypeOK
  <2> QED
    BY <1>7, <2>2 DEF StartBuild, EndBuild, SessionTypeOK
<1>8. CASE BeginActivation(a) \/ CloseCatalog(a) \/ CollectLock(a)
  BY <1>8 DEF BeginActivation, CloseCatalog, CollectLock, SessionTypeOK
<1>9. CASE Hold(a) \/ SwitchAway(a) \/ StartServer(a) \/ Open(a)
  <2>1. Pending(a)
    BY <1>9 DEF Hold, SwitchAway, StartServer, Open, Good, IInv, Owns, Opening
  <2>2. Current(a).number \in Nat
    BY <2>1, CurrentIs DEF Activations
  <2>3. (Fails(a) \/ UNCHANGED <<problem, untold>>)
    BY <1>9 DEF Hold, SwitchAway, StartServer, Open, InUse, Fails
  <2>4. problem' \in [Apps -> Nat] /\ untold' \in [Apps -> Nat]
    BY <2>2, <2>3, FailureEnds DEF SessionTypeOK
  <2> QED
    BY <1>9, <2>4 DEF Hold, SwitchAway, StartServer, Open, SessionTypeOK
<1>10. ASSUME NEW how \in {"ended", "dead"}, Gone(a, how)
       PROVE  SessionTypeOK'
  <2>1. /\ life' = [life EXCEPT ![a] = how]
        /\ config' = [config EXCEPT ![a] = None]
        /\ stopping' = [stopping EXCEPT ![a] = "no"]
        /\ awaited' = [awaited EXCEPT ![a] = 0]
        /\ problem' = [problem EXCEPT ![a] = 0]
        /\ untold' = [untold EXCEPT ![a] = 0]
        /\ job' = [job EXCEPT ![a] = 0]
        /\ UNCHANGED <<build, overlapped, starts>>
    BY <1>10 DEF Gone
  <2> QED
    BY <2>1 DEF SessionTypeOK
<1>11. CASE End(a) \/ Die(a)
  BY <1>10, <1>11 DEF End, Die
<1>12. CASE Halt(a)
  BY <1>12 DEF Halt, SessionTypeOK
<1> QED
  BY <1>1, <1>2, <1>3, <1>4, <1>5, <1>6, <1>7, <1>8, <1>9, <1>11, <1>12
  DEF Moves, Progress, Activate, Stop, Handle

-----------------------------------------------------------------------------
(* What a session says of who is alive.                                    *)
LEMMA WhoIsAlive ==
  ASSUME Good, NEW a \in Apps
  PROVE  /\ Session(a) /\ Owns(a) /\ Serves(a)
         /\ Pending(a) \/ Handling(a) \/ stopping[a] # "no" \/ at[a] # "free" => Alive(a)
         /\ Handling(a) => life[a] \in {"up", "leaving"}
         /\ \A t \in Threads : thread[a][t].at # "idle" => Handling(a)
         /\ \A i \in Builds : Alive(a) /\ ~overlapped[a] /\ Ours(a, i) => BuildRuns(a)
<1>1. Session(a) /\ Owns(a) /\ Serves(a)
  BY DEF Good, IInv
<1>2. Pending(a) \/ Handling(a) \/ stopping[a] # "no" \/ at[a] # "free" => Alive(a)
  BY <1>1 DEF Session, Blank
<1>3. Handling(a) => life[a] \in {"up", "leaving"}
  BY <1>1, <1>2 DEF Session, Stops, Alive
<1>4. \A t \in Threads : thread[a][t].at # "idle" => Handling(a)
  BY DEF Handling
<1>5. ASSUME NEW i \in Builds, Alive(a), ~overlapped[a], Ours(a, i)
      PROVE  BuildRuns(a)
  <2>1. job[a] = i /\ Runs(a, i)
    BY <1>1, <1>5 DEF Session, Follows, Ours
  <2>2. i # 0
    BY BoundsAssumption DEF Builds
  <2> QED
    BY <2>1, <2>2 DEF BuildRuns
<1> QED
  BY <1>1, <1>2, <1>3, <1>4, <1>5

(* The last of several activations stays the last when the first ends.     *)
LEMMA LatestStays ==
  ASSUME Good, NEW a \in Apps, Pending(a), Ended(a)
  PROVE  /\ activations'[a] = Tail(activations[a])
         /\ Pending(a)' => Latest(a)' = Latest(a)
         /\ ~Pending(a)' => Current(a) = Latest(a)
<1>1. activations[a] \in Seq(Activations) /\ activations[a] # <<>>
  BY DEF Good, IInv, OwnershipTypeOK, Pending
<1>2. activations'[a] = Tail(activations[a])
  BY DEF Ended, Becomes, Good, IInv, OwnershipTypeOK
<1> DEFINE s == activations[a]
<1>3. ASSUME Tail(s) # <<>>
      PROVE  Tail(s)[Len(Tail(s))] = s[Len(s)]
  BY <1>1, <1>3
<1>4. ASSUME Tail(s) = <<>>
      PROVE  Head(s) = s[Len(s)]
  <2>1. Len(s) \in Nat /\ Len(s) # 0 /\ Len(Tail(s)) = Len(s) - 1
    BY <1>1
  <2>2. Len(Tail(s)) = 0
    <3>1. Len(<<>>) = 0
      OBVIOUS
    <3> QED
      BY <1>4, <3>1, Zenon
  <2>3. Len(s) = 1
    BY <2>1, <2>2
  <2> QED
    BY <1>1, <2>3
<1>5. Latest(a)' = activations'[a][Len(activations'[a])]
  BY DEF Latest
<1>6. (Pending(a)' <=> Tail(s) # <<>>) /\ Latest(a) = s[Len(s)] /\ Current(a) = Head(s)
  BY <1>2 DEF Pending, Latest, Current
<1> HIDE DEF s
<1> QED
  BY <1>2, <1>3, <1>4, <1>5, <1>6 DEF s

(* What the launcher's lock is held for leaves the session's requests      *)
(* alone.                                                                  *)
SessionRests(a) ==
  /\ file'[a] = file[a] /\ config'[a] = config[a] /\ life'[a] = life[a]
  /\ stopping'[a] = stopping[a] /\ chosen'[a] = chosen[a] /\ thread'[a] = thread[a]
  /\ build'[a] = build[a] /\ job'[a] = job[a] /\ overlapped'[a] = overlapped[a]
  /\ starts'[a] = starts[a]

(* An activation on its way changes only where it stands.                  *)
LEMMA OpeningMoves ==
  ASSUME Good, NEW a \in Apps, Pending(a), SessionRests(a), Faults,
         at[a] \in Opening \cup {"free"}, at'[a] \in Opening \cup {"free"},
         Pending(a)' => Latest(a)' = Latest(a),
         Remembers(a)', Tells(a)'
  PROVE  Session(a)'
<1>1. Session(a) /\ Alive(a) /\ Alive(a)'
  BY WhoIsAlive DEF Alive, SessionRests
<1>2. Blank(a)'
  BY <1>1 DEF Blank
<1>3. Follows(a)'
  BY <1>1 DEF Session, SessionRests, Follows, Alive, Ours, Runs, BuildRuns
<1>4. Stops(a)'
  BY <1>1 DEF Session, SessionRests, Stops, Ours, Runs, BuildRuns, Handling, Opening
<1>5. Intends(a)'
  BY <1>1 DEF Session, SessionRests, Intends, Alive
<1>6. Waiting(a)'
  BY <1>1 DEF Session, SessionRests, Faults, Waiting
<1>7. Keeps(a)'
  BY <1>1 DEF Session, SessionRests, Faults, Keeps, Ours, Runs, Alive
<1> QED
  BY <1>2, <1>3, <1>4, <1>5, <1>6, <1>7 DEF Session

(* An activation that fails is the problem shown, or was ended by an error *)
(* that nothing records, unless another follows.                           *)
LEMMA FailureIsTold ==
  ASSUME Good, NEW a \in Apps, Pending(a), SessionRests(a), Faults, Fails(a),
         catalog[a] = None, catalog'[a] = catalog[a]
  PROVE  Tells(a)'
<1> SUFFICES ASSUME life'[a] = "up", ~Pending(a)', ~overlapped'[a]
             PROVE  chosen'[a] \in {problem'[a], untold'[a]}
  BY DEF Tells
<1>1. Current(a).number \in {problem'[a], untold'[a]}
  BY FailureEnds DEF Good, SessionTypeOK
<1>2. Current(a) = Latest(a)
  BY LatestStays, FailureEnds
<1>3. Latest(a).number = chosen[a]
  BY WhoIsAlive DEF Session, Intends, SessionRests
<1> QED
  BY <1>1, <1>2, <1>3 DEF SessionRests

(* Nothing is told while something is pending.                             *)
LEMMA PendingTellsNothing ==
  ASSUME Good, NEW a \in Apps, Pending(a), UNCHANGED activations
  PROVE  Pending(a)' /\ Latest(a)' = Latest(a) /\ Tells(a)'
BY DEF Pending, Latest, Tells

(* The next activation begins.                                             *)
LEMMA BeginActivationSession ==
  ASSUME Good, NEW a \in Apps, BeginActivation(a), Faults
  PROVE  Session(a)'
<1>1. /\ Pending(a) /\ UNCHANGED activations /\ SessionRests(a) /\ UNCHANGED <<server, cluster>>
      /\ at[a] = "free" /\ at'[a] \in Opening
  BY DEF BeginActivation, SessionRests, shared, memory, requests, bounds, Goto, Becomes, Opening,
         Good, IInv, OwnershipTypeOK
<1>2. Remembers(a)'
  BY <1>1 DEF Good, Session, Remembers, Faults
<1> QED
  BY <1>1, <1>2, PendingTellsNothing, OpeningMoves

(* The catalog that was open is gone.                                      *)
LEMMA CloseCatalogSession ==
  ASSUME Good, NEW a \in Apps, CloseCatalog(a), Faults
  PROVE  Session(a)'
<1>1. /\ UNCHANGED activations /\ SessionRests(a) /\ UNCHANGED <<server, cluster>>
      /\ at[a] \in Opening /\ at'[a] \in Opening
  BY DEF CloseCatalog, SessionRests, shared, requests, bounds, Goto, Becomes, Opening,
         Good, IInv, OwnershipTypeOK
<1>2. Pending(a)
  BY <1>1, WhoIsAlive DEF Owns
<1>3. Remembers(a)'
  BY <1>1 DEF Good, Session, Remembers, Faults
<1> QED
  BY <1>1, <1>2, <1>3, PendingTellsNothing, OpeningMoves

(* The library is locked, or its refusal is told.                          *)
LEMMA HoldSession ==
  ASSUME Good, NEW a \in Apps, Hold(a), Faults
  PROVE  Session(a)'
<1>1. /\ SessionRests(a) /\ UNCHANGED <<server, cluster, catalog>> /\ at[a] = "holding"
  BY DEF Hold, SessionRests, requests, bounds
<1>2. Pending(a) /\ catalog[a] = None
  BY <1>1, WhoIsAlive DEF Owns, Opening
<1>3. Remembers(a)'
  BY <1>1 DEF Good, Session, Remembers, Faults
<1>4. CASE Fails(a)
  <2>1. at'[a] = "free"
    BY <1>4, FailureEnds DEF Ended, Goto, Becomes, Good, IInv, OwnershipTypeOK
  <2> QED
    BY <1>1, <1>2, <1>3, <1>4, <2>1, LatestStays, FailureEnds, FailureIsTold, OpeningMoves DEF Opening
<1>5. CASE Goto(a, "switching") /\ UNCHANGED activations
  <2>1. at'[a] = "switching"
    BY <1>5 DEF Goto, Becomes, Good, IInv, OwnershipTypeOK
  <2> QED
    BY <1>1, <1>2, <1>3, <1>5, <2>1, PendingTellsNothing, OpeningMoves DEF Opening
<1> QED
  BY <1>4, <1>5 DEF Hold, InUse, Fails

(* A database stopped is no longer its own, nor remembered.                *)
LEMMA StoppedIsForgotten ==
  ASSUME Good, NEW a \in Apps, Faults, cluster'[a] = None,
         cluster[a] # None => server'[cluster[a]] = None,
         \A r \in Roots : server'[r] = a => server[r] = a
  PROVE  Remembers(a)'
<1>1. a # None /\ Remembers(a)
  BY NoneAssumption DEF Good, Session
<1>2. ASSUME NEW r \in Roots, server'[r] = a, deaths' + refusals' = 0
      PROVE  FALSE
  <2>1. cluster[a] = r /\ r # None
    BY <1>1, <1>2, NoneAssumption DEF Remembers, Faults
  <2> QED
    BY <1>1, <1>2, <2>1
<1> QED
  BY <1>2 DEF Remembers

(* The database held before stops, or will not.                            *)
LEMMA SwitchAwaySession ==
  ASSUME Good, NEW a \in Apps, SwitchAway(a), Faults
  PROVE  Session(a)'
<1>0. OwnershipTypeOK /\ refusals \in Nat /\ deaths \in Nat
  BY DEF Good, IInv, OwnershipTypeOK, SessionTypeOK
<1>1. /\ SessionRests(a) /\ UNCHANGED <<catalog, deaths>> /\ at[a] = "switching"
  BY DEF SwitchAway, SessionRests, requests
<1>2. Pending(a) /\ catalog[a] = None
  BY <1>1, WhoIsAlive DEF Owns, Opening
<1>3. CASE Foreign(a) /\ Refuses(a) /\ Fails(a) /\ UNCHANGED <<shared, cluster>>
  <2>1. at'[a] = "free"
    BY <1>0, <1>3, FailureEnds DEF Ended, Goto, Becomes, OwnershipTypeOK
  <2>2. deaths' + refusals' # 0
    BY <1>0, <1>1, <1>3 DEF Refuses
  <2>3. Remembers(a)'
    BY <2>2 DEF Remembers
  <2> QED
    BY <1>1, <1>2, <1>3, <2>1, <2>3, LatestStays, FailureEnds, FailureIsTold, OpeningMoves DEF Opening
<1>4. CASE /\ Foreign(a) => Becomes(server, cluster[a], None) /\ Becomes(cluster, a, None)
           /\ ~Foreign(a) => UNCHANGED <<server, cluster>>
           /\ Goto(a, "starting")
           /\ UNCHANGED activations
  <2>1. at'[a] = "starting"
    BY <1>0, <1>4 DEF Goto, Becomes, OwnershipTypeOK
  <2>2. CASE Foreign(a)
    <3>1. /\ cluster'[a] = None
          /\ cluster[a] # None => server'[cluster[a]] = None
          /\ \A r \in Roots : server'[r] = a => server[r] = a
      BY <1>0, <1>4, <2>2, NoneAssumption DEF Becomes, OwnershipTypeOK
    <3> QED
      BY <1>1, <1>2, <1>4, <2>1, <3>1, StoppedIsForgotten, PendingTellsNothing, OpeningMoves
      DEF Opening
  <2>3. CASE ~Foreign(a)
    <3>1. Remembers(a)'
      BY <1>4, <2>3 DEF Good, Session, Remembers, Faults
    <3> QED
      BY <1>1, <1>2, <1>4, <2>1, <3>1, PendingTellsNothing, OpeningMoves DEF Opening
  <2> QED
    BY <2>2, <2>3
<1> QED
  BY <1>3, <1>4 DEF SwitchAway

(* The database of the library that is held starts.                        *)
LEMMA StartServerSession ==
  ASSUME Good, NEW a \in Apps, StartServer(a), Faults
  PROVE  Session(a)'
<1> DEFINE r == Current(a).root
<1>0. OwnershipTypeOK
  BY DEF Good, IInv
<1>1. /\ SessionRests(a) /\ UNCHANGED <<catalog, deaths, refusals>> /\ at[a] = "starting"
  BY DEF StartServer, SessionRests, requests, bounds
<1>2. Pending(a) /\ catalog[a] = None /\ held[a] = r
  BY <1>1, WhoIsAlive DEF Owns, Opening
<1>3. r \in Roots
  BY <1>0, <1>2, CurrentIs
<1> HIDE DEF r
<1>4. cluster'[a] = r /\ \A k \in Roots \ {r} : server'[k] = server[k]
  BY <1>0, <1>3 DEF StartServer, Becomes, OwnershipTypeOK, r
<1>5. Remembers(a)'
  <2> SUFFICES ASSUME NEW k \in Roots \ {r}, server[k] = a, deaths + refusals = 0
               PROVE  FALSE
    BY <1>1, <1>4 DEF Remembers
  <2>1. refusals = 0
    BY DEF Good, IInv, OwnershipTypeOK, SessionTypeOK
  <2>2. cluster[a] = k /\ k # None
    BY WhoIsAlive, NoneAssumption DEF Session, Remembers
  <2> QED
    BY <1>1, <1>2, <2>1, <2>2, WhoIsAlive DEF Serves
<1>6. CASE Fails(a)
  <2>1. at'[a] = "free"
    BY <1>0, <1>6, FailureEnds DEF Ended, Goto, Becomes, OwnershipTypeOK
  <2> QED
    BY <1>1, <1>2, <1>5, <1>6, <2>1, LatestStays, FailureEnds, FailureIsTold, OpeningMoves DEF Opening
<1>7. CASE Goto(a, "opening") /\ UNCHANGED activations
  <2>1. at'[a] = "opening"
    BY <1>0, <1>7 DEF Goto, Becomes, OwnershipTypeOK
  <2> QED
    BY <1>1, <1>2, <1>5, <1>7, <2>1, PendingTellsNothing, OpeningMoves DEF Opening
<1> QED
  BY <1>6, <1>7 DEF StartServer

(* The library opened last is the one the config names.                    *)
LEMMA OpenSession ==
  ASSUME Good, NEW a \in Apps, Open(a), Faults
  PROVE  Session(a)'
<1>0. OwnershipTypeOK
  BY DEF Good, IInv
<1>1. SessionRests(a) /\ UNCHANGED <<server, cluster>> /\ at[a] = "opening" /\ Ended(a)
  BY FailureEnds DEF Open, SessionRests, shared, requests, bounds
<1>2. Pending(a) /\ catalog[a] = None /\ at'[a] = "free"
  BY <1>0, <1>1, WhoIsAlive DEF Owns, Opening, Ended, Goto, Becomes, OwnershipTypeOK
<1>3. Remembers(a)'
  BY <1>1 DEF Good, Session, Remembers, Faults
<1>4. CASE Becomes(catalog, a, Current(a).root)
  <2>1. catalog'[a] = Current(a).root
    BY <1>0, <1>4 DEF Becomes, OwnershipTypeOK
  <2>2. ASSUME ~Pending(a)', ~overlapped'[a]
        PROVE  Current(a).root = config'[a]
    BY <1>1, <1>2, <2>2, LatestStays, WhoIsAlive DEF Session, Intends, SessionRests
  <2>3. Tells(a)'
    BY <2>1, <2>2 DEF Tells
  <2> QED
    BY <1>1, <1>2, <1>3, <2>3, LatestStays, OpeningMoves DEF Opening
<1>5. CASE Fails(a) /\ UNCHANGED catalog
  BY <1>1, <1>2, <1>3, <1>5, LatestStays, FailureIsTold, OpeningMoves DEF Opening
<1> QED
  BY <1>4, <1>5 DEF Open

(* Letting go of a lock that nothing refers to is nothing to the session.  *)
LEMMA CollectLockSession ==
  ASSUME Good, NEW a \in Apps, CollectLock(a), Faults
  PROVE  Session(a)'
<1>1. Still(a) /\ Hands(a)
  <2>1. /\ lock' = [k \in Roots |-> IF k = previous[a] /\ lock[k] = a THEN None ELSE lock[k]]
        /\ server' = server /\ a # None
    BY NoneAssumption DEF CollectLock, Releases, Unlocked
  <2> QED
    BY <2>1 DEF CollectLock, Still, Hands, requests, bounds
<1> QED
  BY <1>1, WhoIsAlive, SessionStill

-----------------------------------------------------------------------------
(* A request that is not beside another moves; no library does.            *)
LibraryRests(a) ==
  /\ life'[a] = life[a] /\ stopping'[a] = stopping[a] /\ activations'[a] = activations[a]
  /\ at'[a] = at[a] /\ catalog'[a] = catalog[a] /\ cluster'[a] = cluster[a]
  /\ problem'[a] = problem[a] /\ untold'[a] = untold[a]
  /\ chosen'[a] = chosen[a] /\ starts'[a] = starts[a]
  /\ server' = server

(* Where the library rests, what is pending and what is open do.           *)
LEMMA RestingKeeps ==
  ASSUME Good, NEW a \in Apps, LibraryRests(a), Alive(a), Faults
  PROVE  Alive(a)' /\ Blank(a)' /\ Remembers(a)' /\ (Pending(a)' <=> Pending(a))
         /\ (Pending(a) => Latest(a)' = Latest(a))
<1>1. Alive(a)' /\ Blank(a)' /\ (Pending(a)' <=> Pending(a)) /\ Latest(a)' = Latest(a)
  BY DEF LibraryRests, Alive, Blank, Pending, Latest
<1>2. Remembers(a)'
  BY DEF Good, Session, LibraryRests, Remembers, Faults
<1> QED
  BY <1>1, <1>2

(* One thread of an application is at something else.                      *)
OneThread(a, t, v) ==
  /\ thread'[a][t] = v
  /\ \A u \in Threads \ {t} : thread'[a][u] = thread[a][u]

(* A request moves one thread.                                             *)
LEMMA RequestMoves ==
  ASSUME FilesTypeOK, NEW a \in Apps, NEW t \in Threads, NEW v, Request(a, t, v)
  PROVE  OneThread(a, t, v)
BY DEF Request, FilesTypeOK, OneThread

(* A build is asked for, on a thread.                                      *)
LEMMA AskBuildSession ==
  ASSUME Good, NEW a \in Apps, NEW t \in Threads, AskBuild(a, t), Faults
  PROVE  Session(a)'
<1> DEFINE asked == [Idle EXCEPT !.at = "asked", !.quiet = Settled(a)]
<1>1. /\ LibraryRests(a) /\ life[a] = "up" /\ Alive(a) /\ catalog[a] # None
      /\ UNCHANGED <<file, config, build, job>>
      /\ overlapped' = [overlapped EXCEPT ![a] = overlapped[a] \/ Handling(a)]
      /\ Request(a, t, asked)
  BY DEF AskBuild, LibraryRests, Beside, Becomes, Alive, shared, memory, bounds
<1>2. overlapped'[a] = (overlapped[a] \/ Handling(a)) /\ OneThread(a, t, asked)
  BY <1>1, RequestMoves DEF Good, SessionTypeOK
<1>3. asked.at = "asked" /\ asked.quiet = Settled(a)
  BY DEF Idle
<1> HIDE DEF asked
<1>4. ~overlapped'[a] => ~overlapped[a] /\ \A u \in Threads \ {t} : thread'[a][u].at = "idle"
  BY <1>2, WhoIsAlive DEF OneThread
<1>5. Session(a) /\ Alive(a)' /\ Blank(a)' /\ Remembers(a)' /\ (Pending(a)' <=> Pending(a))
      /\ (Pending(a) => Latest(a)' = Latest(a))
  BY <1>1, WhoIsAlive, RestingKeeps
<1>6. Follows(a)'
  BY <1>1, <1>2, <1>3, <1>4, <1>5 DEF Session, Follows, Ours, Runs, LibraryRests, OneThread
<1>7. Stops(a)'
  BY <1>1, <1>5 DEF Session, Stops, LibraryRests
<1>8. Intends(a)'
  BY <1>1, <1>2, <1>3, <1>4, <1>5 DEF Session, Intends, LibraryRests, OneThread
<1>9. Tells(a)'
  BY <1>1, <1>4, <1>5 DEF Session, Tells, LibraryRests, Faults
<1>10. Waiting(a)'
  BY <1>1, <1>2, <1>3, <1>4, <1>5 DEF Waiting, LibraryRests, OneThread, Settled
<1>11. Keeps(a)'
  BY <1>1, <1>4, <1>5 DEF Session, Keeps, Ours, Runs, LibraryRests, Faults
<1> QED
  BY <1>5, <1>6, <1>7, <1>8, <1>9, <1>10, <1>11 DEF Session

(* Options are asked for: the file is read, on a thread.                   *)
LEMMA AskOptionsSession ==
  ASSUME Good, NEW a \in Apps, NEW t \in Threads, AskOptions(a, t), Faults
  PROVE  Session(a)'
<1> DEFINE asked == [Idle EXCEPT !.at = "writing", !.seen = file[a]]
<1>1. /\ LibraryRests(a) /\ life[a] = "up" /\ Alive(a)
      /\ UNCHANGED <<file, config, build, job>>
      /\ overlapped' = [overlapped EXCEPT ![a] = overlapped[a] \/ Handling(a)]
      /\ Request(a, t, asked)
  BY DEF AskOptions, LibraryRests, Beside, Becomes, Alive, shared, memory, bounds
<1>2. overlapped'[a] = (overlapped[a] \/ Handling(a)) /\ OneThread(a, t, asked)
  BY <1>1, RequestMoves DEF Good, SessionTypeOK
<1>3. asked.at = "writing" /\ asked.seen = file[a]
  BY DEF Idle
<1> HIDE DEF asked
<1>4. ~overlapped'[a] => ~overlapped[a] /\ \A u \in Threads \ {t} : thread'[a][u].at = "idle"
  BY <1>2, WhoIsAlive DEF OneThread
<1>5. Session(a) /\ Alive(a)' /\ Blank(a)' /\ Remembers(a)' /\ (Pending(a)' <=> Pending(a))
      /\ (Pending(a) => Latest(a)' = Latest(a))
  BY <1>1, WhoIsAlive, RestingKeeps
<1>6. Follows(a)'
  BY <1>1, <1>2, <1>3, <1>4, <1>5 DEF Session, Follows, Ours, Runs, LibraryRests, OneThread
<1>7. Stops(a)'
  BY <1>1, <1>5 DEF Session, Stops, LibraryRests
<1>8. Intends(a)'
  BY <1>1, <1>2, <1>3, <1>4, <1>5 DEF Session, Intends, LibraryRests, OneThread
<1>9. Tells(a)'
  BY <1>1, <1>4, <1>5 DEF Session, Tells, LibraryRests, Faults
<1>10. Waiting(a)'
  BY <1>1, <1>2, <1>3, <1>4, <1>5 DEF Waiting, LibraryRests, OneThread
<1>11. Keeps(a)'
  BY <1>1, <1>4, <1>5 DEF Session, Keeps, Ours, Runs, LibraryRests, Faults
<1> QED
  BY <1>5, <1>6, <1>7, <1>8, <1>9, <1>10, <1>11 DEF Session

(* A request that moves on, or ends.                                       *)
LEMMA HandledSession ==
  ASSUME Good, NEW a \in Apps, NEW t \in Threads, CheckBuild(a, t) \/ WriteOptions(a, t) \/ TakeOptions(a, t),
         Faults
  PROVE  Session(a)'
<1>1. /\ LibraryRests(a) /\ UNCHANGED <<build, job, overlapped>> /\ thread[a][t].at # "idle"
  BY DEF CheckBuild, WriteOptions, TakeOptions, LibraryRests, shared, memory, bounds
<1>2. Session(a) /\ Alive(a) /\ life[a] \in {"up", "leaving"}
  BY <1>1, WhoIsAlive
<1>3. Alive(a)' /\ Blank(a)' /\ Remembers(a)' /\ (Pending(a)' <=> Pending(a))
      /\ (Pending(a) => Latest(a)' = Latest(a))
  BY <1>1, <1>2, RestingKeeps
<1>4. thread[a][t] \in Asks
  BY DEF Good, FilesTypeOK
<1>5. PICK v : /\ Request(a, t, v)
               /\ v.at = "cleared" => ~BuildRuns(a)
               /\ v.at \in {"asked", "cleared"} => thread[a][t].at = "asked" /\ v.quiet = thread[a][t].quiet
               /\ v.at \in {"writing", "assigning"} =>
                    thread[a][t].at \in {"writing", "assigning"} /\ v.seen = thread[a][t].seen
  <2>1. CASE (CheckBuild(a, t) /\ BuildRuns(a)) \/ TakeOptions(a, t)
    <3>1. Request(a, t, Idle) /\ Idle.at = "idle"
      BY <2>1 DEF CheckBuild, TakeOptions, Idle
    <3> QED
      BY <3>1
  <2>2. CASE CheckBuild(a, t) /\ ~BuildRuns(a)
    <3> DEFINE v == [thread[a][t] EXCEPT !.at = "cleared"]
    <3>1. v.at = "cleared" /\ v.quiet = thread[a][t].quiet
      BY <1>4 DEF Asks
    <3>2. Request(a, t, v) /\ thread[a][t].at = "asked"
      BY <2>2 DEF CheckBuild
    <3> HIDE DEF v
    <3> QED
      BY <2>2, <3>1, <3>2
  <2>3. CASE WriteOptions(a, t)
    <3> DEFINE v == [thread[a][t] EXCEPT !.at = "assigning"]
    <3>1. v.at = "assigning" /\ v.seen = thread[a][t].seen
      BY <1>4 DEF Asks
    <3>2. Request(a, t, v) /\ thread[a][t].at = "writing"
      BY <2>3 DEF WriteOptions
    <3> HIDE DEF v
    <3> QED
      BY <3>1, <3>2
  <2> QED
    BY <2>1, <2>2, <2>3
<1>6. OneThread(a, t, v)
  BY <1>5, RequestMoves DEF Good
<1>7. ~overlapped[a] => /\ file'[a] = file[a] /\ config'[a] = config[a]
                        /\ \A u \in Threads \ {t} : thread[a][u].at = "idle"
  <2> SUFFICES ASSUME ~overlapped[a]
               PROVE  /\ file'[a] = file[a] /\ config'[a] = config[a]
                      /\ \A u \in Threads \ {t} : thread[a][u].at = "idle"
    OBVIOUS
  <2>1. \A u \in Threads \ {t} : thread[a][u].at = "idle"
    BY <1>1, <1>2 DEF Session, Follows
  <2>2. thread[a][t].at \in {"writing", "assigning"} => thread[a][t].seen = file[a] /\ file[a] = config[a]
    BY <1>2 DEF Session, Intends
  <2>3. file'[a] = file[a] /\ config'[a] = config[a]
    BY <2>2 DEF CheckBuild, WriteOptions, TakeOptions, Rewritten, Becomes, Good, FilesTypeOK, SessionTypeOK
  <2> QED
    BY <2>1, <2>3
<1>8. Follows(a)'
  BY <1>1, <1>2, <1>3, <1>5, <1>6, <1>7
  DEF Session, Follows, Ours, Runs, BuildRuns, LibraryRests, OneThread
<1>9. Stops(a)'
  BY <1>1, <1>2 DEF Session, Stops, LibraryRests
<1>10. Intends(a)'
  BY <1>1, <1>2, <1>3, <1>5, <1>6, <1>7 DEF Session, Intends, LibraryRests, OneThread
<1>11. Tells(a)'
  BY <1>1, <1>2, <1>3, <1>7 DEF Session, Tells, LibraryRests, Faults
<1>12. Waiting(a)'
  BY <1>1, <1>2, <1>3, <1>5, <1>6, <1>7 DEF Session, Waiting, LibraryRests, OneThread, Faults
<1>13. Keeps(a)'
  BY <1>1, <1>2, <1>3, <1>7 DEF Session, Keeps, Ours, Runs, LibraryRests, Faults
<1> QED
  BY <1>3, <1>8, <1>9, <1>10, <1>11, <1>12, <1>13 DEF Session

(* A build started in quiet finds the library open that the config names:  *)
(* nothing was chosen since it was asked for.                              *)
LEMMA LaunchSession ==
  ASSUME Good, NEW a \in Apps, NEW t \in Threads, Launch(a, t), Faults
  PROVE  Session(a)'
<1>1. /\ LibraryRests(a) /\ UNCHANGED <<file, config, overlapped>> /\ thread[a][t].at = "cleared"
      /\ Request(a, t, Idle)
  BY DEF Launch, LibraryRests, shared, memory, bounds
<1>2. Session(a) /\ Alive(a) /\ life[a] \in {"up", "leaving"}
  BY <1>1, WhoIsAlive
<1>3. Alive(a)' /\ Blank(a)' /\ Remembers(a)' /\ (Pending(a)' <=> Pending(a))
      /\ (Pending(a) => Latest(a)' = Latest(a))
  BY <1>1, <1>2, RestingKeeps
<1>4. OneThread(a, t, Idle) /\ Idle.at = "idle"
  BY <1>1, RequestMoves DEF Good, Idle
<1> DEFINE begun == [at |-> "launched", root |-> None, of |-> starts[a],
                     quiet |-> thread[a][t].quiet /\ Settled(a)]
<1>5. PICK i \in Builds : build' = [build EXCEPT ![a][i] = begun] /\ job' = [job EXCEPT ![a] = i]
  BY DEF Launch, Becomes
<1>6. begun.at = "launched" /\ begun.of = starts[a] /\ (begun.quiet => thread[a][t].quiet /\ Settled(a))
  OBVIOUS
<1> HIDE DEF begun
<1>7. /\ build'[a][i] = begun /\ job'[a] = i
      /\ \A k \in Builds \ {i} : build'[a][k] = build[a][k]
  BY <1>5 DEF Good, SessionTypeOK
<1>8. ~overlapped[a] =>
        /\ \A u \in Threads \ {t} : thread[a][u].at = "idle"
        /\ \A k \in Builds : ~Ours(a, k)
  BY <1>1, <1>2, WhoIsAlive DEF Session, Follows
<1>9. Follows(a)'
  <2>1. starts[a] \in Nat
    BY DEF Good, SessionTypeOK
  <2>2. \A k \in Builds : build'[a][k].of <= starts'[a]
    BY <1>1, <1>2, <1>6, <1>7, <2>1 DEF Session, Follows, LibraryRests
  <2> QED
    BY <1>1, <1>4, <1>7, <1>8, <2>2 DEF Follows, Ours, Runs, LibraryRests, OneThread
<1>10. Stops(a)'
  BY <1>1, <1>2 DEF Session, Stops, LibraryRests
<1>11. Intends(a)'
  <2>1. ASSUME ~overlapped[a], NEW k \in Builds, build'[a][k].at = "running", build'[a][k].of = starts'[a]
        PROVE  FALSE
    <3>1. k # i
      BY <1>6, <1>7, <2>1
    <3> QED
      BY <1>1, <1>7, <1>8, <2>1, <3>1 DEF Ours, Runs, LibraryRests
  <2>2. ~overlapped[a] =>
          /\ file[a] = config[a]
          /\ \A u \in Threads :
               thread'[a][u].at \in {"writing", "assigning"} => thread'[a][u].seen = file[a]
          /\ Pending(a) => Latest(a).root = config[a] /\ Latest(a).number = chosen[a]
    BY <1>2, <1>4, <1>8 DEF Session, Intends, OneThread
  <2> QED
    BY <1>1, <1>3, <2>1, <2>2 DEF Intends, LibraryRests
<1>12. Tells(a)'
  BY <1>1, <1>2, <1>3 DEF Session, Tells, LibraryRests, Faults
<1>13. Waiting(a)'
  BY <1>1, <1>2, <1>3, <1>4 DEF Session, Waiting, LibraryRests, OneThread, Faults
<1>14. Keeps(a)'
  <2> SUFFICES ASSUME NEW k \in Builds, ~overlapped[a], refusals = 0, Ours(a, k)', build'[a][k].quiet
               PROVE  /\ at'[a] = "free" /\ ~Pending(a)' /\ stopping'[a] # "activation"
                      /\ catalog'[a] = config'[a] /\ config'[a] # None
                      /\ build'[a][k].at = "running" => build'[a][k].root = catalog'[a]
    BY <1>1 DEF Keeps, Faults
  <2>1. k = i
    BY <1>1, <1>7, <1>8 DEF Ours, Runs, LibraryRests
  <2>2. thread[a][t].quiet /\ Settled(a)
    BY <1>6, <1>7, <2>1
  <2>3. catalog[a] # None
    BY <1>1, <1>2, <2>2 DEF Session, Waiting, Settled
  <2>4. catalog[a] = config[a]
    BY <1>2, <2>2, <2>3 DEF Session, Tells, Settled
  <2> QED
    BY <1>1, <1>3, <1>6, <1>7, <2>1, <2>2, <2>3, <2>4 DEF LibraryRests, Settled
<1> QED
  BY <1>3, <1>9, <1>10, <1>11, <1>12, <1>13, <1>14 DEF Session

(* A build that starts takes the library its application has open; one     *)
(* that ends is no longer followed.                                        *)
LEMMA BuildSession ==
  ASSUME Good, NEW a \in Apps, NEW i \in Builds, StartBuild(a, i) \/ EndBuild(a, i), Faults
  PROVE  Session(a)'
<1>1. /\ LibraryRests(a) /\ Runs(a, i)
      /\ UNCHANGED <<lock, file, config, thread, job, overlapped>>
  BY DEF StartBuild, EndBuild, LibraryRests, Runs, shared, memory, bounds
<1>2. Session(a)
  BY WhoIsAlive
<1>3. \/ build' = [build EXCEPT ![a][i] = OverBuild]
      \/ /\ build' = [build EXCEPT ![a][i] = [build[a][i] EXCEPT !.at = "running", !.root = file[a]]]
         /\ build[a][i].at = "launched" /\ file[a] # None
  BY DEF StartBuild, EndBuild, Good, SessionTypeOK
<1>4. /\ \A k \in Builds \ {i} : build'[a][k] = build[a][k]
      /\ \/ build'[a][i] = OverBuild
         \/ /\ build'[a][i].at = "running" /\ build'[a][i].root = file[a]
            /\ build'[a][i].of = build[a][i].of /\ build'[a][i].quiet = build[a][i].quiet
            /\ build[a][i].at = "launched"
  <2>1. build[a][i] \in BuildRecords
    BY DEF Good, SessionTypeOK
  <2> DEFINE begun == [build[a][i] EXCEPT !.at = "running", !.root = file[a]]
  <2>2. /\ begun.at = "running" /\ begun.root = file[a]
        /\ begun.of = build[a][i].of /\ begun.quiet = build[a][i].quiet
    BY <2>1 DEF BuildRecords
  <2>3. \/ build' = [build EXCEPT ![a][i] = OverBuild]
        \/ build' = [build EXCEPT ![a][i] = begun] /\ build[a][i].at = "launched"
    BY <1>3
  <2> HIDE DEF begun
  <2> QED
    BY <2>2, <2>3 DEF Good, SessionTypeOK
<1>5. /\ \A k \in Builds : Runs(a, k)' => Runs(a, k)
      /\ \A k \in Builds : Ours(a, k)' => Ours(a, k)
      /\ BuildRuns(a)' => BuildRuns(a)
  <2>1. \A k \in Builds : Runs(a, k)' => Runs(a, k)
    BY <1>1, <1>4 DEF Runs, OverBuild
  <2>2. \A k \in Builds : Ours(a, k)' => Ours(a, k)
    BY <1>1, <1>4, <2>1 DEF Runs, Ours, OverBuild, LibraryRests
  <2>3. job[a] \in {0} \cup Builds
    BY DEF Good, SessionTypeOK
  <2> QED
    BY <1>1, <2>1, <2>2, <2>3 DEF BuildRuns
<1>6. Blank(a)'
  BY <1>1, <1>2 DEF Session, Blank, LibraryRests, Alive, Pending, Handling
<1>7. Remembers(a)'
  BY <1>1, <1>2 DEF Session, Remembers, LibraryRests, Faults
<1>8. Follows(a)'
  <2>1. starts[a] \in Nat
    BY DEF Good, SessionTypeOK
  <2>2. \A k \in Builds : build'[a][k].of <= starts'[a]
    BY <1>1, <1>2, <1>4, <2>1 DEF Session, Follows, LibraryRests, OverBuild
  <2> QED
    BY <1>1, <1>2, <1>5, <2>2 DEF Session, Follows, LibraryRests, Alive
<1>9. Stops(a)'
  BY <1>1, <1>2, <1>5 DEF Session, Stops, LibraryRests, Handling
<1>10. Intends(a)'
  <2>1. ASSUME NEW k \in Builds, Alive(a), ~overlapped[a],
               build'[a][k].at = "running", build'[a][k].of = starts[a]
        PROVE  build'[a][k].root = config[a]
    <3>1. CASE k = i
      BY <1>2, <1>4, <2>1, <3>1 DEF Session, Intends, OverBuild
    <3>2. CASE k # i
      BY <1>2, <1>4, <2>1, <3>2 DEF Session, Intends
    <3> QED
      BY <3>1, <3>2
  <2> QED
    BY <1>1, <1>2, <2>1 DEF Session, Intends, LibraryRests, Alive, Pending, Latest
<1>11. Tells(a)'
  BY <1>1, <1>2 DEF Session, Tells, LibraryRests, Faults, Pending
<1>12. Waiting(a)'
  BY <1>1, <1>2 DEF Session, Waiting, LibraryRests, Faults, Pending
<1>13. Keeps(a)'
  <2> SUFFICES ASSUME NEW k \in Builds, Alive(a)', ~overlapped[a], refusals = 0,
                      Ours(a, k)', build'[a][k].quiet
               PROVE  /\ at'[a] = "free" /\ ~Pending(a)' /\ stopping'[a] # "activation"
                      /\ catalog'[a] = config'[a] /\ config'[a] # None
                      /\ build'[a][k].at = "running" => build'[a][k].root = catalog'[a]
    BY <1>1 DEF Keeps, Faults
  <2>1. Ours(a, k) /\ Alive(a) /\ build[a][k].quiet
    BY <1>1, <1>4, <1>5 DEF LibraryRests, Alive, Ours, Runs, OverBuild
  <2>2. /\ at[a] = "free" /\ ~Pending(a) /\ stopping[a] # "activation"
        /\ catalog[a] = config[a] /\ config[a] # None /\ file[a] = config[a]
        /\ build[a][k].at = "running" => build[a][k].root = catalog[a]
    BY <1>2, <2>1 DEF Session, Keeps, Intends
  <2> QED
    BY <1>1, <1>4, <2>2 DEF LibraryRests, Pending, OverBuild
<1> QED
  BY <1>6, <1>7, <1>8, <1>9, <1>10, <1>11, <1>12, <1>13 DEF Session

-----------------------------------------------------------------------------
(* A process starts with nothing under way but the activation it schedules.*)
LEMMA StartSession ==
  ASSUME Good, NEW a \in Apps, Start(a), Faults
  PROVE  Session(a)'
<1>0. OwnershipTypeOK /\ FilesTypeOK /\ SessionTypeOK
  BY DEF Good, IInv
<1>1. /\ UNCHANGED <<server, file, stopping, at, catalog, cluster, thread, build, job>>
      /\ ~Alive(a) /\ life'[a] = "up" /\ config'[a] = file[a] /\ ~overlapped'[a]
      /\ starts'[a] = starts[a] + 1 /\ starts[a] \in Nat
  BY <1>0 DEF Start, Becomes, shared, memory, OwnershipTypeOK, FilesTypeOK, SessionTypeOK
<1>2. Session(a)
  BY WhoIsAlive
<1>3. /\ at[a] = "free" /\ stopping[a] = "no" /\ activations[a] = <<>>
      /\ \A t \in Threads : thread[a][t].at = "idle"
      /\ catalog[a] = None
  BY <1>1, <1>2 DEF Session, Blank, Pending, Handling
<1>4. /\ file[a] = None => activations'[a] = <<>>
      /\ file[a] # None => /\ activations'[a] = Append(<<>>, [root |-> file[a], number |-> chosen[a] + 1])
                           /\ chosen'[a] = chosen[a] + 1
  BY <1>0, <1>3 DEF Start, Scheduled, Becomes, OwnershipTypeOK
<1>5. /\ Blank(a)' /\ Alive(a)'
      /\ Remembers(a)'
  BY <1>1, <1>2 DEF Blank, Alive, Session, Remembers, Faults
<1>6. \A i \in Builds : build'[a][i].of < starts'[a]
  <2>1. \A i \in Builds : build[a][i].of \in Nat /\ build[a][i].of <= starts[a]
    BY <1>0, <1>2 DEF SessionTypeOK, BuildRecords, Session, Follows
  <2> QED
    BY <1>1, <2>1
<1>7. \A i \in Builds : build'[a][i].of <= starts'[a] /\ ~Ours(a, i)'
  <2>1. \A i \in Builds : build[a][i].of \in Nat
    BY <1>0 DEF SessionTypeOK, BuildRecords
  <2>2. \A i \in Builds : build'[a][i].of \in Nat /\ starts'[a] \in Nat
    BY <1>1, <2>1
  <2> QED
    BY <1>6, <2>2 DEF Ours
<1>8. Follows(a)'
  BY <1>1, <1>3, <1>7 DEF Follows
<1>9. Stops(a)'
  BY <1>1, <1>3 DEF Stops
<1>10. Intends(a)'
  <2>1. ASSUME Pending(a)'
        PROVE  Latest(a)' = [root |-> file[a], number |-> chosen[a] + 1] /\ file[a] # None
    <3>1. activations'[a] # <<>>
      BY <2>1 DEF Pending
    <3>2. activations'[a] = Append(<<>>, [root |-> file[a], number |-> chosen[a] + 1])
      BY <1>4, <3>1
    <3> QED
      BY <1>4, <3>1, <3>2 DEF Latest
  <2> QED
    BY <1>1, <1>3, <1>4, <1>7, <2>1 DEF Intends, Ours, Runs
<1>11. Tells(a)'
  <2> SUFFICES ASSUME ~Pending(a)' PROVE catalog'[a] = config'[a]
    BY DEF Tells
  <2>1. Append(<<>>, [root |-> file[a], number |-> chosen[a] + 1]) # <<>>
    OBVIOUS
  <2>2. file[a] = None
    BY <1>4, <2>1 DEF Pending
  <2> QED
    BY <1>1, <1>3, <2>2
<1>12. Waiting(a)' /\ Keeps(a)'
  BY <1>1, <1>3, <1>7 DEF Waiting, Keeps
<1> QED
  BY <1>5, <1>8, <1>9, <1>10, <1>11, <1>12 DEF Session

(* A choice is refused while a build runs, and no request is beside it     *)
(* unless they overlap.                                                    *)
LEMMA ChooseSession ==
  ASSUME Good, NEW a \in Apps, NEW r \in Roots, Choose(a, r), Faults
  PROVE  Session(a)'
<1>0. OwnershipTypeOK /\ FilesTypeOK /\ SessionTypeOK
  BY DEF Good, IInv
<1>1. /\ UNCHANGED <<server, life, stopping, at, catalog, cluster, thread, build, job, starts>>
      /\ life[a] = "up" /\ Alive(a) /\ ~BuildRuns(a)
      /\ file'[a] = r /\ config'[a] = r
      /\ overlapped'[a] = (overlapped[a] \/ Handling(a))
      /\ chosen'[a] = chosen[a] + 1
      /\ activations'[a] = Append(activations[a], [root |-> r, number |-> chosen[a] + 1])
  BY <1>0 DEF Choose, MayChoose, Scheduled, Becomes, Alive, shared, memory, bounds,
              OwnershipTypeOK, FilesTypeOK, SessionTypeOK
<1>2. Session(a)
  BY WhoIsAlive
<1>3. activations[a] \in Seq(Activations)
  BY <1>0 DEF OwnershipTypeOK
<1>4. Pending(a)' /\ Latest(a)' = [root |-> r, number |-> chosen[a] + 1]
  <2> DEFINE n == [root |-> r, number |-> chosen[a] + 1]
  <2>1. n \in Activations
    BY <1>0 DEF Activations, OwnershipTypeOK
  <2> HIDE DEF n
  <2>2. Append(activations[a], n) # <<>> /\ Append(activations[a], n)[Len(Append(activations[a], n))] = n
    BY <1>3, <2>1
  <2> QED
    BY <1>1, <2>2 DEF Pending, Latest, n
<1>5. ~overlapped'[a] => ~overlapped[a] /\ \A t \in Threads : thread[a][t].at = "idle"
  BY <1>1, WhoIsAlive
<1>6. Blank(a)' /\ Remembers(a)' /\ Tells(a)'
  BY <1>1, <1>2, <1>4 DEF Session, Blank, Alive, Remembers, Faults, Tells
<1>7. Follows(a)'
  BY <1>1, <1>2, <1>5 DEF Session, Follows, Ours, Runs, BuildRuns
<1>8. Stops(a)'
  BY <1>1, <1>2 DEF Session, Stops
<1>9. Intends(a)'
  <2>1. ASSUME NEW i \in Builds, ~overlapped'[a],
               build[a][i].at = "running", build[a][i].of = starts[a]
        PROVE  FALSE
    BY <1>1, <1>5, <2>1, WhoIsAlive DEF Ours, Runs
  <2> QED
    BY <1>1, <1>4, <1>5, <2>1 DEF Intends
<1>10. Waiting(a)'
  BY <1>1, <1>5 DEF Waiting
<1>11. Keeps(a)'
  <2>1. ASSUME NEW i \in Builds, ~overlapped'[a], Ours(a, i)'
        PROVE  FALSE
    BY <1>1, <1>5, <2>1, WhoIsAlive DEF Ours, Runs
  <2> QED
    BY <2>1 DEF Keeps
<1> QED
  BY <1>6, <1>7, <1>8, <1>9, <1>10, <1>11 DEF Session

-----------------------------------------------------------------------------
(* What people asked for and what was built is left as it is by a stop.    *)
AskedRests(a) ==
  /\ file'[a] = file[a] /\ config'[a] = config[a] /\ activations'[a] = activations[a]
  /\ problem'[a] = problem[a] /\ untold'[a] = untold[a]
  /\ chosen'[a] = chosen[a] /\ thread'[a] = thread[a]
  /\ build'[a] = build[a] /\ job'[a] = job[a] /\ overlapped'[a] = overlapped[a]
  /\ starts'[a] = starts[a]

(* The steps of a stop leave what was asked for alone.                     *)
LEMMA StoppingKeeps ==
  ASSUME Good, NEW a \in Apps, AskedRests(a), Alive(a), Alive(a)', Faults
  PROVE  /\ Session(a) /\ Blank(a)' /\ Follows(a)' /\ Intends(a)'
         /\ (Pending(a)' <=> Pending(a)) /\ (Handling(a)' <=> Handling(a))
         /\ (BuildRuns(a)' <=> BuildRuns(a))
         /\ \A i \in Builds : Ours(a, i)' <=> Ours(a, i)
<1>1. Session(a)
  BY WhoIsAlive
<1>2. Follows(a)'
  BY <1>1 DEF Session, AskedRests, Follows, Ours, Runs, BuildRuns
<1>3. Intends(a)'
  BY <1>1 DEF Session, AskedRests, Intends, Pending, Latest
<1>4. /\ Blank(a)' /\ (Pending(a)' <=> Pending(a)) /\ (Handling(a)' <=> Handling(a))
      /\ (BuildRuns(a)' <=> BuildRuns(a))
      /\ \A i \in Builds : Ours(a, i)' <=> Ours(a, i)
  BY DEF Blank, AskedRests, Pending, Handling, BuildRuns, Runs, Ours
<1> QED
  BY <1>1, <1>2, <1>3, <1>4

(* No step towards a stop tells anything new, or ends a quiet but its own. *)
LEMMA LeavingSession ==
  ASSUME Good, NEW a \in Apps, Quit(a) \/ Leave(a) \/ StopForGood(a), Faults
  PROVE  Session(a)'
<1>1. /\ AskedRests(a) /\ UNCHANGED <<server, at, catalog, cluster>>
      /\ life[a] \in {"up", "leaving"} /\ Alive(a)
      /\ life'[a] \in {"up", "leaving", "last"}
      /\ stopping'[a] \in {stopping[a], "builds"}
      /\ stopping'[a] # stopping[a] => stopping[a] = "no"
      /\ life'[a] = "up" => life[a] = "up"
      /\ life'[a] = "last" => stopping'[a] = "builds" /\ ~Handling(a)
  BY DEF Quit, Leave, StopForGood, AskedRests, Alive, shared, memory, requests, bounds, Becomes,
         Good, SessionTypeOK
<1>2. Alive(a)'
  BY <1>1 DEF Alive
<1>3. /\ Session(a) /\ Blank(a)' /\ Follows(a)' /\ Intends(a)'
      /\ (Pending(a)' <=> Pending(a)) /\ (Handling(a)' <=> Handling(a))
      /\ \A i \in Builds : Ours(a, i)' <=> Ours(a, i)
  BY <1>1, <1>2, StoppingKeeps
<1>4. Remembers(a)'
  BY <1>1, <1>3 DEF Session, Remembers, Faults
<1>5. Stops(a)'
  BY <1>1, <1>3 DEF Session, Stops
<1>6. Tells(a)'
  BY <1>1, <1>3 DEF Session, Tells, AskedRests, Faults
<1>7. Waiting(a)'
  BY <1>1, <1>3 DEF Session, Waiting, AskedRests, Faults
<1>8. Keeps(a)'
  BY <1>1, <1>3 DEF Session, Keeps, AskedRests, Faults
<1> QED
  BY <1>3, <1>4, <1>5, <1>6, <1>7, <1>8 DEF Session

(* A stop waits for the build it follows, so none asked for in quiet runs  *)
(* past that.                                                              *)
LEMMA StopBuildSession ==
  ASSUME Good, NEW a \in Apps, StopBuild(a), Faults
  PROVE  Session(a)'
<1>1. /\ AskedRests(a) /\ UNCHANGED <<server, life, at, catalog, cluster>>
      /\ stopping[a] = "builds" /\ stopping'[a] = "activation" /\ ~BuildRuns(a)
  BY DEF StopBuild, BuildOver, AskedRests, shared, memory, requests, bounds, Becomes,
         Good, SessionTypeOK
<1>2. Alive(a) /\ Alive(a)'
  BY <1>1, WhoIsAlive DEF Alive
<1>3. /\ Session(a) /\ Blank(a)' /\ Follows(a)' /\ Intends(a)'
      /\ (Pending(a)' <=> Pending(a)) /\ (Handling(a)' <=> Handling(a))
      /\ (BuildRuns(a)' <=> BuildRuns(a))
      /\ \A i \in Builds : Ours(a, i)' <=> Ours(a, i)
  BY <1>1, <1>2, StoppingKeeps
<1>4. Remembers(a)'
  BY <1>1, <1>3 DEF Session, Remembers, Faults
<1>5. Stops(a)'
  BY <1>1, <1>2, <1>3 DEF Session, Stops, Alive
<1>6. Tells(a)'
  BY <1>1, <1>3 DEF Session, Tells, AskedRests, Faults
<1>7. Waiting(a)'
  BY <1>1, <1>3 DEF Session, Waiting, AskedRests, Faults
<1>8. Keeps(a)'
  BY <1>1, <1>2, <1>3, WhoIsAlive DEF Keeps, AskedRests
<1> QED
  BY <1>3, <1>4, <1>5, <1>6, <1>7, <1>8 DEF Session

(* The library closes where no build asked for in quiet runs.              *)
LEMMA PartingSession ==
  ASSUME Good, NEW a \in Apps, StopLibrary(a) \/ Part(a), Faults
  PROVE  Session(a)'
<1>1. /\ AskedRests(a) /\ UNCHANGED <<server, life, stopping, cluster>>
      /\ at'[a] \in {"parting", "halting"}
      /\ stopping[a] = "activation"
  BY WhoIsAlive DEF StopLibrary, Part, AskedRests, shared, memory, requests, bounds, Goto, Becomes,
         Good, IInv, OwnershipTypeOK, Session, Stops
<1>2. Alive(a) /\ Alive(a)'
  BY <1>1, WhoIsAlive DEF Alive
<1>3. /\ Session(a) /\ Blank(a)' /\ Follows(a)' /\ Intends(a)'
      /\ (Pending(a)' <=> Pending(a)) /\ (Handling(a)' <=> Handling(a))
      /\ (BuildRuns(a)' <=> BuildRuns(a))
      /\ \A i \in Builds : Ours(a, i)' <=> Ours(a, i)
  BY <1>1, <1>2, StoppingKeeps
<1>4. Remembers(a)'
  BY <1>1, <1>3 DEF Session, Remembers, Faults
<1>5. Stops(a)'
  BY <1>1, <1>2, <1>3 DEF Session, Stops, Alive
<1>6. Tells(a)'
  BY <1>1 DEF Tells
<1>7. Waiting(a)'
  BY <1>1, <1>3 DEF Session, Waiting, AskedRests, Faults
<1>8. Keeps(a)'
  BY <1>1, <1>2, <1>3 DEF Session, Keeps, AskedRests, Faults
<1> QED
  BY <1>3, <1>4, <1>5, <1>6, <1>7, <1>8 DEF Session

(* What a stop stops is the database it remembers.                         *)
LEMMA StopsWhatItRemembers ==
  ASSUME Good, NEW a \in Apps, StopsServer(a)
  PROVE  /\ cluster[a] # None => server'[cluster[a]] = None
         /\ \A r \in Roots : server'[r] = a => server[r] = a
BY NoneAssumption DEF StopsServer, Good, IInv, OwnershipTypeOK

(* A stop ends, its database stopped or not.                               *)
LEMMA HaltSession ==
  ASSUME Good, NEW a \in Apps, Halt(a), Faults
  PROVE  Session(a)'
<1>0. OwnershipTypeOK /\ SessionTypeOK /\ refusals \in Nat /\ deaths \in Nat
  BY DEF Good, IInv, OwnershipTypeOK, SessionTypeOK
<1>1. /\ AskedRests(a) /\ UNCHANGED <<catalog, deaths>>
      /\ at[a] = "halting" /\ at'[a] = "free" /\ life[a] # "last"
      /\ stopping'[a] = "no"
  BY <1>0 DEF Halt, AskedRests, requests, Goto, Becomes, OwnershipTypeOK, SessionTypeOK
<1>2. \/ /\ life'[a] = "leaving" /\ StopsServer(a) /\ cluster'[a] = None
      \/ life' = life /\ refusals' = refusals + 1
  BY <1>0 DEF Halt, StopsRest, Refuses, Becomes, OwnershipTypeOK, SessionTypeOK
<1>3. Alive(a) /\ Alive(a)' /\ life'[a] # "last" /\ life'[a] # "ended"
  BY <1>1, <1>2, WhoIsAlive DEF Alive
<1>4. /\ Session(a) /\ Blank(a)' /\ Follows(a)' /\ Intends(a)'
      /\ (Pending(a)' <=> Pending(a)) /\ (Handling(a)' <=> Handling(a))
      /\ \A i \in Builds : Ours(a, i)' <=> Ours(a, i)
  BY <1>1, <1>3, StoppingKeeps
<1>5. Remembers(a)'
  <2>1. CASE StopsServer(a) /\ cluster'[a] = None
    BY <2>1, StopsWhatItRemembers, StoppedIsForgotten
  <2>2. CASE refusals' = refusals + 1
    <3>1. deaths' + refusals' # 0
      BY <1>0, <1>1, <2>2
    <3> QED
      BY <3>1 DEF Remembers
  <2> QED
    BY <1>2, <2>1, <2>2
<1>6. refusals' = 0 => life'[a] = "leaving"
  BY <1>0, <1>2
<1>7. Stops(a)'
  BY <1>1, <1>3 DEF Stops
<1>8. Tells(a)'
  BY <1>6 DEF Tells
<1>9. Waiting(a)'
  BY <1>1, <1>4, <1>6 DEF Session, Waiting, AskedRests, Faults
<1>10. Keeps(a)'
  <2>1. stopping[a] = "activation"
    BY <1>1, <1>4 DEF Session, Stops
  <2> QED
    BY <1>1, <1>3, <1>4, <2>1 DEF Session, Keeps, AskedRests, Faults
<1> QED
  BY <1>4, <1>5, <1>7, <1>8, <1>9, <1>10 DEF Session

(* A process that is gone: blank, and after a last stop without a build.   *)
LEMMA GoneSession ==
  ASSUME Good, NEW a \in Apps, NEW how \in {"ended", "dead"}, Gone(a, how), Faults, Remembers(a)',
         how = "ended" /\ ~overlapped[a] => \A i \in Builds : ~Ours(a, i)
  PROVE  Session(a)'
<1>0. OwnershipTypeOK /\ FilesTypeOK /\ SessionTypeOK
  BY DEF Good, IInv
<1>1. /\ UNCHANGED <<file, build, overlapped, starts>>
      /\ life'[a] = how /\ stopping'[a] = "no" /\ activations'[a] = <<>> /\ at'[a] = "free"
      /\ catalog'[a] = None /\ cluster'[a] = None /\ job'[a] = 0
      /\ \A t \in Threads : thread'[a][t] = Idle
      /\ lock' = [r \in Roots |-> IF lock[r] = a THEN None ELSE lock[r]]
  BY <1>0 DEF Gone, Goto, Becomes, OwnershipTypeOK, FilesTypeOK, SessionTypeOK
<1>2. Session(a)
  BY WhoIsAlive
<1>3. ~Alive(a)' /\ life'[a] # "up" /\ life'[a] # "last"
  BY <1>1 DEF Alive
<1>4. \A t \in Threads : thread'[a][t].at = "idle"
  BY <1>1 DEF Idle
<1>5. Blank(a)'
  <2>1. \A r \in Roots : lock'[r] # a
    BY <1>1, NoneAssumption
  <2> QED
    BY <1>1, <1>4, <2>1 DEF Blank, Pending, Handling
<1>6. Follows(a)'
  BY <1>1, <1>2, <1>3 DEF Session, Follows
<1>7. Stops(a)'
  BY <1>1, <1>3 DEF Stops, Ours, Runs
<1>8. Intends(a)' /\ Tells(a)' /\ Waiting(a)' /\ Keeps(a)'
  BY <1>3, <1>4 DEF Intends, Tells, Waiting, Keeps
<1> QED
  BY <1>5, <1>6, <1>7, <1>8 DEF Session

(* The process ends.                                                       *)
LEMMA EndSession ==
  ASSUME Good, NEW a \in Apps, End(a), Faults
  PROVE  Session(a)'
<1>0. OwnershipTypeOK /\ refusals \in Nat /\ deaths \in Nat
  BY DEF Good, IInv, OwnershipTypeOK, SessionTypeOK
<1>1. at[a] = "halting" /\ life[a] = "last" /\ Gone(a, "ended") /\ UNCHANGED deaths
  BY DEF End
<1>2. Remembers(a)'
  <2>1. CASE StopsServer(a)
    <3>1. cluster'[a] = None
      BY <1>0, <1>1 DEF Gone, Becomes, OwnershipTypeOK
    <3> QED
      BY <2>1, <3>1, StopsWhatItRemembers, StoppedIsForgotten
  <2>2. CASE Refuses(a)
    <3>1. deaths' + refusals' # 0
      BY <1>0, <1>1, <2>2 DEF Refuses
    <3> QED
      BY <3>1 DEF Remembers
  <2> QED
    BY <2>1, <2>2 DEF End
<1>3. ~BuildRuns(a) /\ Alive(a)
  BY <1>1, WhoIsAlive DEF Session, Stops
<1>4. ~overlapped[a] => \A i \in Builds : ~Ours(a, i)
  BY <1>3, WhoIsAlive
<1> QED
  BY <1>1, <1>2, <1>4, GoneSession

(* The process dies.                                                       *)
LEMMA DieSession ==
  ASSUME Good, NEW a \in Apps, Die(a), Faults
  PROVE  Session(a)'
<1>1. Gone(a, "dead") /\ deaths' = deaths + 1 /\ refusals' = refusals
  BY DEF Die
<1>2. deaths' + refusals' # 0
  BY <1>1 DEF Good, IInv, OwnershipTypeOK, SessionTypeOK
<1>3. Remembers(a)'
  BY <1>2 DEF Remembers
<1> QED
  BY <1>1, <1>3, GoneSession

-----------------------------------------------------------------------------
(* Before anything starts, every session is blank.                         *)
LEMMA GoodInit == Init => Good
<1> SUFFICES ASSUME Init PROVE Good
  OBVIOUS
<1>1. OwnershipTypeOK
  BY DEF Init, OwnershipTypeOK, Opening
<1>2. ASSUME NEW a \in Apps
      PROVE  Owns(a) /\ Serves(a)
  BY DEF Init, Owns, Serves, Opening
<1>3. FilesTypeOK
  BY DEF Init, FilesTypeOK, Asks, Idle
<1>4. NoBuild \in BuildRecords
  BY DEF NoBuild, BuildRecords
<1>5. SessionTypeOK
  BY <1>4 DEF Init, SessionTypeOK
<1>6. ASSUME NEW a \in Apps
      PROVE  Session(a)
  <2>1. life[a] = "off" /\ at[a] = "free" /\ starts[a] = 0
    BY DEF Init
  <2>2. /\ \A t \in Threads : thread[a][t].at = "idle"
        /\ \A i \in Builds : build[a][i].at = "none" /\ build[a][i].of = 0
    BY DEF Init, Idle, NoBuild
  <2>3. Blank(a) /\ Remembers(a)
    BY <2>2, NoneAssumption DEF Init, Blank, Remembers, Pending, Handling
  <2>4. Follows(a) /\ Stops(a) /\ Intends(a) /\ Tells(a) /\ Waiting(a) /\ Keeps(a)
    BY <2>1, <2>2 DEF Follows, Stops, Intends, Tells, Waiting, Keeps, Alive
  <2> QED
    BY <2>3, <2>4 DEF Session
<1> QED
  BY <1>1, <1>2, <1>3, <1>5, <1>6 DEF Good, IInv

(* Every step keeps the session of who takes it, and the others'.          *)
LEMMA GoodStep ==
  ASSUME Good, Next
  PROVE  Good'
<1>1. IInv' /\ FilesTypeOK'
  BY IInvStep, FilesStep DEF Good
<1>2. PICK a \in Apps : Moves(a)
  BY DEF Next, Moves
<1>3. Faults /\ SessionTypeOK'
  BY <1>2, FaultsAreCounted, SessionTypes
<1>4. Session(a)'
  BY <1>2, <1>3, StartSession, LeavingSession, DieSession, ChooseSession, AskBuildSession,
     AskOptionsSession, BuildSession, BeginActivationSession, CloseCatalogSession, HoldSession,
     SwitchAwaySession, CollectLockSession, StartServerSession, OpenSession, HandledSession,
     LaunchSession, StopBuildSession, PartingSession, HaltSession, EndSession
  DEF Moves, Progress, Activate, Handle, Stop
<1>5. ASSUME NEW b \in Apps \ {a}
      PROVE  Session(b)'
  BY <1>2, <1>3, ApplicationsMindThemselves, SessionStill DEF Good
<1> QED
  BY <1>1, <1>3, <1>4, <1>5 DEF Good

(* A step that changes nothing keeps them all.                             *)
LEMMA GoodStutters ==
  ASSUME Good, UNCHANGED vars
  PROVE  Good'
<1>1. IInv' /\ FilesTypeOK'
  BY Stuttering DEF Good
<1>2. SessionTypeOK'
  BY DEF Good, SessionTypeOK, vars, requests, bounds
<1>3. ASSUME NEW a \in Apps
      PROVE  Session(a)'
  <2>1. Still(a) /\ Hands(a) /\ Faults
    BY DEF vars, shared, memory, requests, bounds, Still, Hands, Faults
  <2> QED
    BY <2>1, SessionStill DEF Good
<1> QED
  BY <1>1, <1>2, <1>3 DEF Good

(* What every application's session keeps, whoever else starts, asks,      *)
(* stops or is killed beside it (launcher.py, jobs.py).                    *)
THEOREM SessionsAreKept == Spec => []Good
<1>1. Good /\ [Next]_vars => Good'
  BY GoodStep, GoodStutters
<1> QED
  BY <1>1, GoodInit, PTL DEF Spec

(* The types of all that applications share and keep.                      *)
THEOREM TypeCorrect == Spec => []TypeOK
<1>1. Good => TypeOK
  BY DEF Good, IInv, OwnershipTypeOK, FilesTypeOK, SessionTypeOK, TypeOK, Opening
<1> QED
  BY <1>1, SessionsAreKept, PTL

(* Once nothing opens any more, the setup page tells the truth of the last *)
(* choice, however its activations and those before it overlapped; unless  *)
(* an error nothing records ended that choice's activation, which leaves   *)
(* no library open (launcher.py, _activate and choose_sources).            *)
THEOREM SettledLauncherAlwaysTellsTheTruth == Spec => []SettledLauncherTellsTheTruth
<1>1. Good => SettledLauncherTellsTheTruth
  BY DEF Good, Session, Tells, SettledLauncherTellsTheTruth, Settled
<1> QED
  BY <1>1, SessionsAreKept, PTL

(* A build works on the library its config names; asked for in quiet, it   *)
(* finds that one open, which stays open until it has ended (launcher.py,  *)
(* stop; jobs.py, start).                                                  *)
THEOREM BuildsAlwaysKeepTheirLibrary == Spec => []BuildsKeepTheirLibrary
<1>1. Good => BuildsKeepTheirLibrary
  <2> SUFFICES ASSUME Good, NEW a \in Apps, Alive(a), ~overlapped[a], NEW i \in Builds,
                      build[a][i].at = "running", build[a][i].of = starts[a]
               PROVE  /\ build[a][i].root = config[a]
                      /\ build[a][i].quiet /\ refusals = 0 => catalog[a] = build[a][i].root
    BY DEF BuildsKeepTheirLibrary
  <2>1. Ours(a, i)
    BY DEF Ours, Runs
  <2>2. build[a][i].root = config[a]
    BY DEF Good, Session, Intends
  <2>3. build[a][i].quiet /\ refusals = 0 => catalog[a] = build[a][i].root
    BY <2>1 DEF Good, Session, Keeps
  <2> QED
    BY <2>2, <2>3
<1> QED
  BY <1>1, SessionsAreKept, PTL

(* An application that ended by itself leaves no lock, no build of its own *)
(* and, where nothing failed, no database (launcher.py, stop).             *)
THEOREM QuitAlwaysLeavesNothing == Spec => []QuitLeavesNothing
<1>1. Good => QuitLeavesNothing
  <2> SUFFICES ASSUME Good, NEW a \in Apps, life[a] = "ended"
               PROVE  /\ \A r \in Roots : lock[r] # a
                      /\ deaths + refusals = 0 => \A r \in Roots : server[r] # a
                      /\ ~overlapped[a] =>
                           \A i \in Builds : Runs(a, i) => build[a][i].of < starts[a]
    BY DEF QuitLeavesNothing
  <2>1. Session(a) /\ ~Alive(a)
    BY DEF Good, Alive
  <2>2. (\A r \in Roots : lock[r] # a) /\ cluster[a] = None
    BY <2>1 DEF Session, Blank
  <2>3. deaths + refusals = 0 => \A r \in Roots : server[r] # a
    BY <2>1, <2>2, NoneAssumption DEF Session, Remembers
  <2>4. ASSUME ~overlapped[a], NEW i \in Builds, Runs(a, i)
        PROVE  build[a][i].of < starts[a]
    <3>1. build[a][i].of # starts[a]
      BY <2>1, <2>4 DEF Session, Stops, Ours
    <3>2. build[a][i].of <= starts[a]
      BY <2>1 DEF Session, Follows
    <3>3. build[a][i].of \in Nat /\ starts[a] \in Nat
      BY DEF Good, SessionTypeOK, BuildRecords
    <3> QED
      BY <3>1, <3>2, <3>3
  <2> QED
    BY <2>2, <2>3, <2>4
<1> QED
  BY <1>1, SessionsAreKept, PTL

-----------------------------------------------------------------------------
(* What a stop waits for. A request that was let through finds a build to  *)
(* start: no more of them are asked for than there are builds unused.      *)
Unused(a) == {i \in Builds : build[a][i].at = "none"}

Room(a) == Cardinality(BuildAsked(a)) <= Cardinality(Unused(a))

(* The requests and the builds of an application are finitely many.        *)
LEMMA FewAreAsked ==
  ASSUME NEW a \in Apps
  PROVE  /\ IsFiniteSet(BuildAsked(a)) /\ Cardinality(BuildAsked(a)) \in Nat
         /\ IsFiniteSet(Unused(a)) /\ Cardinality(Unused(a)) \in Nat
<1>1. BuildAsked(a) \subseteq Threads /\ Unused(a) \subseteq Builds
  BY DEF BuildAsked, Unused
<1>2. IsFiniteSet(Builds)
  BY FS_Interval, BoundsAssumption DEF Builds
<1> QED
  BY <1>1, <1>2, ThreadsAssumption, FS_Subset, FS_CardinalityType

(* Requests answered, and builds that stay unused, leave room.             *)
LEMMA RoomStays ==
  ASSUME NEW a \in Apps, Room(a),
         BuildAsked(a)' \subseteq BuildAsked(a), Unused(a) \subseteq Unused(a)'
  PROVE  Room(a)'
<1>1. /\ IsFiniteSet(BuildAsked(a)) /\ Cardinality(BuildAsked(a)) \in Nat
      /\ Cardinality(Unused(a)) \in Nat
  BY FewAreAsked
<1>2. IsFiniteSet(Unused(a)') /\ Cardinality(Unused(a)') \in Nat
  <2>1. Unused(a)' \subseteq Builds
    BY DEF Unused
  <2>2. IsFiniteSet(Builds)
    BY FS_Interval, BoundsAssumption DEF Builds
  <2> QED
    BY <2>1, <2>2, FS_Subset, FS_CardinalityType
<1>3. Cardinality(BuildAsked(a)') <= Cardinality(BuildAsked(a))
  BY <1>1, FS_Subset
<1>4. Cardinality(Unused(a)) <= Cardinality(Unused(a)')
  BY <1>2, FS_Subset
<1>5. Cardinality(BuildAsked(a)') \in Nat
  BY <1>1, FS_Subset, FS_CardinalityType
<1>6. Cardinality(BuildAsked(a)') <= Cardinality(Unused(a)')
  BY <1>1, <1>2, <1>3, <1>4, <1>5 DEF Room
<1> QED
  BY <1>6 DEF Room

(* A build is asked for where one is left to start...                      *)
LEMMA AskBuildRoom ==
  ASSUME Good, NEW a \in Apps, NEW t \in Threads, Room(a), AskBuild(a, t) PROVE Room(a)'
<1>1. /\ t \notin BuildAsked(a)
      /\ Cardinality(BuildAsked(a)) < Cardinality(Unused(a))
  BY DEF AskBuild, BuildAsked, Unused
<1>2. BuildAsked(a)' = BuildAsked(a) \cup {t}
  <2>1. thread' = [thread EXCEPT ![a][t] = [Idle EXCEPT !.at = "asked", !.quiet = Settled(a)]]
    BY DEF AskBuild, Request
  <2>2. \A u \in Threads : thread'[a][u].at = IF u = t THEN "asked" ELSE thread[a][u].at
    BY <2>1 DEF Good, FilesTypeOK, Idle
  <2> QED
    BY <2>2 DEF BuildAsked
<1>3. Unused(a)' = Unused(a)
  BY DEF AskBuild, Unused
<1>4. Cardinality(BuildAsked(a)') = Cardinality(BuildAsked(a)) + 1
  BY <1>1, <1>2, FewAreAsked, FS_AddElement
<1>5. Cardinality(BuildAsked(a)') <= Cardinality(Unused(a)')
  BY <1>1, <1>3, <1>4, FewAreAsked
<1> QED
  BY <1>5 DEF Room

(* ...and takes it when it starts.                                         *)
LEMMA LaunchRoom ==
  ASSUME Good, NEW a \in Apps, NEW t \in Threads, Room(a), Launch(a, t) PROVE Room(a)'
<1>1. t \in BuildAsked(a)
  BY DEF Launch, BuildAsked
<1>2. BuildAsked(a)' = BuildAsked(a) \ {t}
  <2>1. \A u \in Threads : thread'[a][u].at = IF u = t THEN "idle" ELSE thread[a][u].at
    BY DEF Launch, Request, Good, FilesTypeOK, Idle
  <2> QED
    BY <2>1 DEF BuildAsked
<1>3. PICK i \in Unused(a) : Unused(a)' = Unused(a) \ {i}
  <2>1. PICK i \in Builds :
          /\ build[a][i].at = "none"
          /\ build' = [build EXCEPT ![a][i] = [at |-> "launched", root |-> None, of |-> starts[a],
                         quiet |-> thread[a][t].quiet /\ Settled(a)]]
    BY DEF Launch
  <2>2. \A k \in Builds : build'[a][k].at = IF k = i THEN "launched" ELSE build[a][k].at
    BY <2>1 DEF Good, SessionTypeOK
  <2> QED
    BY <2>1, <2>2 DEF Unused
<1>4. /\ Cardinality(BuildAsked(a)') = Cardinality(BuildAsked(a)) - 1
      /\ Cardinality(Unused(a)') = Cardinality(Unused(a)) - 1
  BY <1>1, <1>2, <1>3, FewAreAsked, FS_RemoveElement
<1>5. Cardinality(BuildAsked(a)') <= Cardinality(Unused(a)')
  BY <1>4, FewAreAsked DEF Room
<1> QED
  BY <1>5 DEF Room

(* Every step keeps room for those let through, whoever takes it.          *)
LEMMA RoomStep ==
  ASSUME Good, NEW a \in Apps, Moves(a), NEW b \in Apps, Room(b) PROVE Room(b)'
<1>1. CASE b # a
  <2>1. thread'[b] = thread[b] /\ build'[b] = build[b]
    BY <1>1, ApplicationsMindThemselves DEF Still
  <2> QED
    BY <2>1, RoomStays DEF BuildAsked, Unused
<1>2. CASE b = a
  <2> USE <1>2
  <2>1. CASE UNCHANGED <<thread, build>>
    BY <2>1, RoomStays DEF BuildAsked, Unused
  <2>2. ASSUME NEW t \in Threads,
               CheckBuild(a, t) \/ WriteOptions(a, t) \/ TakeOptions(a, t) \/ AskOptions(a, t)
        PROVE  Room(a)'
    <3>0. thread[a][t] \in Asks
      BY AsksAre DEF Good
    <3>1. PICK value :
            /\ thread' = [thread EXCEPT ![a][t] = value]
            /\ value.at \in {"asked", "cleared"} => t \in BuildAsked(a)
      <4>1. CASE CheckBuild(a, t)
        BY <4>1 DEF CheckBuild, Request, BuildAsked
      <4>2. CASE WriteOptions(a, t)
        <5>1. [thread[a][t] EXCEPT !.at = "assigning"].at = "assigning"
          BY <3>0 DEF Asks
        <5> QED
          BY <4>2, <5>1 DEF WriteOptions, Request
      <4>3. CASE TakeOptions(a, t) \/ AskOptions(a, t)
        <5>1. Idle.at = "idle" /\ [Idle EXCEPT !.at = "writing", !.seen = file[a]].at = "writing"
          BY DEF Idle
        <5> QED
          BY <4>3, <5>1 DEF TakeOptions, AskOptions, Request
      <4> QED
        BY <2>2, <4>1, <4>2, <4>3
    <3>2. BuildAsked(a)' \subseteq BuildAsked(a)
      BY <3>1 DEF BuildAsked, Good, FilesTypeOK
    <3>3. Unused(a)' = Unused(a)
      BY <2>2 DEF CheckBuild, WriteOptions, TakeOptions, AskOptions, Unused
    <3> QED
      BY <3>2, <3>3, RoomStays
  <2>3. ASSUME NEW i \in Builds, StartBuild(a, i) \/ EndBuild(a, i)
        PROVE  Room(a)'
    <3>1. /\ build[a][i].at # "none" /\ UNCHANGED thread
          /\ \E made : build' = [build EXCEPT ![a][i] = made]
      BY <2>3 DEF StartBuild, EndBuild, Runs
    <3>2. \A k \in Builds : build[a][k].at = "none" => build'[a][k].at = "none"
      BY <3>1 DEF Good, SessionTypeOK
    <3> QED
      BY <3>1, <3>2, RoomStays DEF BuildAsked, Unused
  <2>4. ASSUME NEW how, Gone(a, how)
        PROVE  Room(a)'
    <3>1. thread'[a] = [t \in Threads |-> Idle] /\ build' = build
      BY <2>4 DEF Gone, Becomes, Good, FilesTypeOK
    <3> QED
      BY <3>1, RoomStays DEF BuildAsked, Unused, Idle
  <2>5. CASE Start(a) \/ Quit(a) \/ Leave(a) \/ StopForGood(a) \/ (\E r \in Roots : Choose(a, r))
    BY <2>1, <2>5 DEF Start, Quit, Leave, StopForGood, Choose, requests
  <2>6. CASE Activate(a)
    BY <2>1, <2>6 DEF Activate, BeginActivation, CloseCatalog, Hold, SwitchAway, CollectLock,
                      StartServer, Open, requests
  <2>7. CASE StopBuild(a) \/ StopLibrary(a) \/ Part(a) \/ Halt(a)
    BY <2>1, <2>7 DEF StopBuild, StopLibrary, Part, Halt, requests
  <2>8. CASE End(a) \/ Die(a)
    BY <2>4, <2>8 DEF End, Die
  <2> QED
    BY <2>2, <2>3, <2>5, <2>6, <2>7, <2>8, AskBuildRoom, LaunchRoom
    DEF Moves, Progress, Stop, Handle
<1> QED
  BY <1>1, <1>2

(* A set of builds has a first one.                                        *)
LEMMA FirstUnused ==
  ASSUME NEW a \in Apps, Unused(a) # {}
  PROVE  \E i \in Builds : /\ build[a][i].at = "none"
                           /\ \A k \in Builds : k < i => build[a][k].at # "none"
<1>1. \A x, y \in Nat : x < y => <<x, y>> \in OpToRel(<, Nat)
  BY DEF OpToRel
<1>2. PICK R : IsWellFoundedOn(R, Nat) /\ \A x, y \in Nat : x < y => <<x, y>> \in R
  BY <1>1, NatLessThanWellFounded
<1>3. Unused(a) \subseteq Nat
  BY DEF Unused, Builds
<1>4. PICK i \in Unused(a) : \A k \in Unused(a) : ~ (<<k, i>> \in R)
  BY <1>2, <1>3, WFMin
<1>5. \A k \in Builds : k < i => k \notin Unused(a)
  BY <1>2, <1>3, <1>4 DEF Builds
<1> QED
  BY <1>4, <1>5 DEF Unused

(* The guards of Progress, action by action.                               *)
HasAStep(a) ==
  \/ at[a] \in {"closing", "holding", "switching", "starting", "opening", "parting", "halting"}
  \/ at[a] = "free" /\ MayBegin(a) /\ Pending(a)
  \/ stopping[a] = "builds" /\ BuildOver(a)
  \/ stopping[a] = "activation" /\ ActivationOver(a) /\ at[a] = "free"
  \/ stopping[a] = "no" /\ life[a] = "leaving" /\ ~Handling(a)
  \/ \E t \in Threads : thread[a][t].at \in {"asked", "writing", "assigning"}
  \/ \E t \in Threads :
       /\ thread[a][t].at = "cleared"
       /\ \E i \in Builds : /\ build[a][i].at = "none"
                            /\ \A k \in Builds : k < i => build[a][k].at # "none"

(* Whatever opens, is asked for or is held elsewhere, an application that  *)
(* stops is never left without a step of its own to take, but for the      *)
(* build it follows: no stop waits for an activation that waits for it, a  *)
(* request that cannot be answered or a library another one holds          *)
(* (launcher.py, stop and _activate).                                      *)
THEOREM StopsAlwaysHaveAStep ==
  Spec => [](\A a \in Apps :
               (life[a] \in {"leaving", "last"} \/ stopping[a] # "no") /\ ~BuildRuns(a)
                 => HasAStep(a))
<1> DEFINE AllRoom == \A a \in Apps : Room(a)
<1>1. Init => AllRoom
  <2> SUFFICES ASSUME Init, NEW a \in Apps PROVE Room(a)
    OBVIOUS
  <2>1. BuildAsked(a) = {}
    BY DEF Init, BuildAsked, Idle
  <2>2. Cardinality(BuildAsked(a)) = 0 /\ Cardinality(Unused(a)) \in Nat
    BY <2>1, FewAreAsked, FS_EmptySet
  <2> QED
    BY <2>2 DEF Room
<1>2. Good /\ AllRoom /\ [Next]_vars => AllRoom'
  <2>1. ASSUME Good, AllRoom, Next PROVE AllRoom'
    <3>1. PICK a \in Apps : Moves(a)
      BY <2>1 DEF Next, Moves
    <3> QED
      BY <2>1, <3>1, RoomStep
  <2>2. ASSUME AllRoom, UNCHANGED vars PROVE AllRoom'
    BY <2>2 DEF vars, requests, Room, BuildAsked, Unused
  <2> QED
    BY <2>1, <2>2
<1>3. ASSUME Good, AllRoom, NEW a \in Apps, ~BuildRuns(a),
             life[a] \in {"leaving", "last"} \/ stopping[a] # "no"
      PROVE  HasAStep(a)
  <2>1. /\ Alive(a)
        /\ life[a] = "last" => stopping[a] # "no"
        /\ stopping[a] \in {"no", "builds", "activation"}
        /\ at[a] \in Opening \cup {"free", "parting", "halting"}
    BY <1>3, WhoIsAlive DEF Session, Stops, Alive, Good, SessionTypeOK, IInv, OwnershipTypeOK
  <2>2. CASE at[a] # "free" \/ Pending(a)
    BY <2>1, <2>2 DEF HasAStep, MayBegin, Opening
  <2>3. CASE at[a] = "free" /\ ~Pending(a) /\ stopping[a] # "no"
    <3>1. stopping[a] = "activation" => ActivationOver(a)
      BY <2>3 DEF ActivationOver, Pending
    <3> QED
      BY <1>3, <2>1, <2>3, <3>1 DEF HasAStep, BuildOver
  <2>4. CASE stopping[a] = "no" /\ ~Handling(a)
    BY <1>3, <2>1, <2>4 DEF HasAStep
  <2>5. ASSUME NEW t \in Threads, thread[a][t].at # "idle"
        PROVE  HasAStep(a)
    <3>1. thread[a][t].at \in {"asked", "cleared", "writing", "assigning"}
      BY <1>3, <2>5 DEF Good, FilesTypeOK, Asks
    <3>2. CASE thread[a][t].at = "cleared"
      <4>1. BuildAsked(a) # {}
        BY <3>2 DEF BuildAsked
      <4>2. Unused(a) # {}
        BY <1>3, <4>1, FewAreAsked, FS_EmptySet DEF Room
      <4> QED
        BY <3>2, <4>2, FirstUnused DEF HasAStep
    <3> QED
      BY <3>1, <3>2 DEF HasAStep
  <2> QED
    BY <2>2, <2>3, <2>4, <2>5 DEF Handling
<1>4. Good /\ AllRoom => \A a \in Apps :
        (life[a] \in {"leaving", "last"} \/ stopping[a] # "no") /\ ~BuildRuns(a) => HasAStep(a)
  BY <1>3
<1> HIDE DEF AllRoom
<1> QED
  BY <1>1, <1>2, <1>4, SessionsAreKept, PTL DEF Spec
=============================================================================
