------------------------ MODULE CatalogAnswersProofs ------------------------
(***************************************************************************)
(* Theorems about the answers of CatalogAnswers, for any parts, requests   *)
(* and sizes, any order of the statements, and any number of writes.       *)
(*                                                                         *)
(* That an answer is current rests on the order of two reads: the revision *)
(* before the rows. What a request was told of a part was first told at    *)
(* some version of it (`past`), no older than the request; what is built   *)
(* under that revision, now or before, by it or another, is no older than  *)
(* that version. The induction keeps both, of answers underway, kept and   *)
(* held by browsers.                                                       *)
(***************************************************************************)
EXTENDS CatalogAnswers, FiniteSetTheorems, WellFoundedInduction, TLAPS

InFlight == {"outside", "connecting", "connected", "asking", "waiting", "building"}

(* What tells a part stands for the version it was first seen with.        *)
PastTells ==
  \A p \in Parts :
    /\ rows[p].version >= 1
    /\ rows[p].told # Unread
    /\ \A t \in DOMAIN past[p] : past[p][t] <= rows[p].version
    /\ p \notin slipped =>
         rows[p].told \in DOMAIN past[p] /\ past[p][rows[p].told] = rows[p].version

(* A body is no older than the versions its revision tells of.             *)
IsOf(body, revision) ==
  \A p \in Parts \ slipped :
    revision[p] \in DOMAIN past[p] /\ body[p] >= past[p][revision[p]]

(* What a request was told, it was told after it came.                     *)
ToldSince(seen, since) ==
  \A p \in Parts :
    /\ since[p] <= rows[p].version
    /\ p \notin slipped /\ seen[p] # Unread =>
         seen[p] \in DOMAIN past[p] /\ past[p][seen[p]] >= since[p]

BuiltSince(built, seen) ==
  \A p \in Parts \ slipped : built[p] # Unread => built[p] >= past[p][seen[p]]

Current(body, since) == \A p \in Parts \ slipped : body[p] >= since[p]

RequestInv(q) ==
  LET it == request[q] IN
  /\ it.process <= process
  /\ it.at \in InFlight => ToldSince(it.seen, it.since)
  /\ it.at \in {"waiting", "building"} => IsWhole(it.seen)
  /\ it.at \in InFlight \ {"building"} => it.built = Nothing
  /\ it.at = "building" => BuiltSince(it.built, it.seen)
  /\ it.at = "answered" /\ it.process = process =>
       IsOf(it.built, it.seen) /\ Current(it.built, it.since)
  /\ it.at = "away" => it = Away
  /\ it.holds # None => request[it.holds].at = "answered"

IInv ==
  /\ TypeOK
  /\ PastTells
  /\ stored # NoAnswer => IsOf(stored.body, stored.revision)
  /\ \A q \in Requests : RequestInv(q)

-----------------------------------------------------------------------------
(* A part's history grows by what a write tells of it, and forgets nothing.*)
LEMMA WritePast ==
  ASSUME TypeOK, NEW p \in Parts, NEW t, Write(p, t)
  PROVE  /\ DOMAIN past' = Parts
         /\ \A x \in Parts : DOMAIN past[x] \subseteq DOMAIN past'[x]
         /\ \A x \in Parts : \A u \in DOMAIN past[x] : past'[x][u] = past[x][u]
         /\ \A x \in Parts : \A u \in DOMAIN past'[x] :
              u \in DOMAIN past[x] \/ (x = p /\ u = t /\ past'[x][u] = rows[p].version + 1)
         /\ p \notin slipped' => t \in DOMAIN past'[p] /\ past'[p][t] = rows[p].version + 1
         /\ slipped' \in SUBSET Parts /\ slipped \subseteq slipped'
<1> DEFINE version == rows[p].version + 1
<1>1. CASE t \in DOMAIN past[p]
  BY <1>1 DEF Write, TypeOK
<1>2. CASE t \notin DOMAIN past[p]
  <2>1. past' = [past EXCEPT ![p] = [u \in DOMAIN past[p] \cup {t} |->
                                       IF u = t THEN version ELSE past[p][u]]]
    BY <1>2 DEF Write
  <2>2. DOMAIN past' = Parts /\ \A x \in Parts \ {p} : past'[x] = past[x]
    BY <2>1 DEF TypeOK
  <2>3. past'[p] = [u \in DOMAIN past[p] \cup {t} |-> IF u = t THEN version ELSE past[p][u]]
    BY <2>1 DEF TypeOK
  <2>4. slipped' = slipped /\ slipped \in SUBSET Parts
    BY <1>2 DEF Write, TypeOK
  <2> QED
    BY <1>2, <2>2, <2>3, <2>4
<1> QED
  BY <1>1, <1>2

(* A write keeps the types and what tells a part.                          *)
LEMMA WriteRows ==
  ASSUME TypeOK, PastTells, NEW p \in Parts, NEW t \in Told \cup {rows[p].version + 1}, Write(p, t)
  PROVE  /\ TypeOK' /\ PastTells'
         /\ \A x \in Parts : rows[x].version <= rows'[x].version
<1>1. /\ rows' = [rows EXCEPT ![p] = [version |-> rows[p].version + 1, told |-> t]]
      /\ UNCHANGED <<process, stored, lock, request>>
  BY DEF Write
<1>2. t \in Int /\ t # Unread
  BY ToldAssumption DEF TypeOK, PastTells, Unread
<1>3. rows' \in [Parts -> [version : Nat, told : Int]]
  BY <1>1, <1>2 DEF TypeOK
<1>4. \A x \in Parts : rows[x].version \in Nat /\ rows'[x].version \in Nat
  BY <1>3 DEF TypeOK
<1>5. /\ rows'[p].version = rows[p].version + 1 /\ rows'[p].told = t
      /\ \A x \in Parts \ {p} : rows'[x] = rows[x]
  BY <1>1 DEF TypeOK
<1>6. TypeOK'
  <2>1. \A x \in Parts : \A u \in DOMAIN past'[x] : past'[x][u] \in Nat
    BY <1>4, WritePast DEF TypeOK
  <2> QED
    BY <1>1, <1>3, <2>1, WritePast DEF TypeOK
<1>7. PastTells'
  <2> SUFFICES ASSUME NEW x \in Parts
               PROVE  /\ rows'[x].version >= 1
                      /\ rows'[x].told # Unread
                      /\ \A u \in DOMAIN past'[x] : past'[x][u] <= rows'[x].version
                      /\ x \notin slipped' =>
                           /\ rows'[x].told \in DOMAIN past'[x]
                           /\ past'[x][rows'[x].told] = rows'[x].version
    BY DEF PastTells
  <2>1. CASE x = p
    <3>1. \A u \in DOMAIN past[p] : past[p][u] \in Nat /\ past[p][u] <= rows[p].version
      BY DEF TypeOK, PastTells
    <3>2. \A u \in DOMAIN past'[p] : past'[p][u] <= rows'[p].version
      BY <3>1, <1>4, <1>5, WritePast
    <3> QED
      BY <2>1, <3>2, <1>2, <1>4, <1>5, WritePast DEF PastTells
  <2>2. CASE x # p
    <3>1. rows'[x] = rows[x]
      BY <2>2, <1>5
    <3>2. DOMAIN past'[x] = DOMAIN past[x]
      BY <2>2, WritePast
    <3> QED
      BY <3>1, <3>2, WritePast DEF PastTells
  <2> QED
    BY <2>1, <2>2
<1> QED
  BY <1>4, <1>5, <1>6, <1>7

(* What is true of answers stays true as a part is written.                *)
LEMMA WriteKeeps ==
  ASSUME IInv, NEW p \in Parts, NEW t \in Told \cup {rows[p].version + 1}, Write(p, t)
  PROVE  IInv'
<1> USE DEF IInv
<1>1. UNCHANGED <<process, stored, request>>
  BY DEF Write
<1>2. \A x \in Parts \ slipped' : x \in Parts \ slipped
  BY WritePast
<1>3. ASSUME NEW body, NEW revision, IsOf(body, revision) PROVE IsOf(body, revision)'
  BY <1>2, <1>3, WritePast DEF IsOf
<1>4. ASSUME NEW q \in Requests PROVE RequestInv(q)'
  <2> DEFINE it == request[q]
  <2>1. ASSUME it.at \in InFlight PROVE ToldSince(it.seen, it.since)'
    <3>1. ToldSince(it.seen, it.since)
      BY <2>1 DEF RequestInv
    <3>2. \A x \in Parts : it.since[x] <= rows'[x].version
      <4>1. \A x \in Parts : /\ it.since[x] \in Nat
                             /\ rows[x].version \in Nat /\ rows'[x].version \in Nat
        BY WriteRows DEF TypeOK, Asked
      <4> QED
        BY <3>1, <4>1, WriteRows DEF ToldSince
    <3> QED
      BY <3>1, <3>2, <1>1, <1>2, WritePast DEF ToldSince
  <2>2. ASSUME it.at = "building" PROVE BuiltSince(it.built, it.seen)'
    <3>1. \A x \in Parts \ slipped' : it.seen[x] \in DOMAIN past[x]
      BY <1>2, <2>2 DEF RequestInv, ToldSince, IsWhole, InFlight
    <3> QED
      BY <3>1, <1>1, <1>2, <2>2, WritePast DEF RequestInv, BuiltSince
  <2>3. ASSUME it.at = "answered", it.process = process
        PROVE  IsOf(it.built, it.seen)' /\ Current(it.built, it.since)'
    <3>1. IsOf(it.built, it.seen) /\ Current(it.built, it.since)
      BY <2>3 DEF RequestInv
    <3> QED
      BY <3>1, <1>1, <1>2, <1>3 DEF Current
  <2> QED
    BY <1>1, <2>1, <2>2, <2>3 DEF RequestInv, IsWhole, Away
<1> QED
  BY <1>1, <1>3, <1>4, WriteRows

-----------------------------------------------------------------------------
Standing == UNCHANGED <<catalog, process>>

(* A step of one request, which has no answer yet, is judged by what       *)
(* becomes of it and of the answer kept.                                   *)
LEMMA OneRequestMoves ==
  ASSUME IInv, NEW q \in Requests, Standing, TypeOK',
         request[q].at # "answered",
         \A x \in Requests \ {q} : request'[x] = request[x],
         RequestInv(q)',
         stored' = stored \/ IsOf(stored'.body, stored'.revision)
  PROVE  IInv'
<1> USE DEF IInv, Standing, catalog
<1>1. PastTells'
  BY DEF PastTells
<1>2. stored' # NoAnswer => IsOf(stored.body, stored.revision)' 
  BY DEF IsOf
<1>3. ASSUME NEW x \in Requests \ {q} PROVE RequestInv(x)'
  <2>1. request[x].holds # None => request[x].holds \in Requests \ {q}
    BY DEF RequestInv, TypeOK, Asked
  <2> QED
    BY <2>1 DEF RequestInv, ToldSince, BuiltSince, IsOf, Current, IsWhole
<1> QED
  BY <1>1, <1>2, <1>3

(* A request that goes on keeps what it was told and built.                *)
LEMMA GoingOn ==
  ASSUME TypeOK, NEW q \in Requests, NEW place \in Places, Goes(q, place)
  PROVE  /\ request' \in [Requests -> Asked]
         /\ request'[q].at = place
         /\ request'[q].since = request[q].since /\ request'[q].seen = request[q].seen
         /\ request'[q].built = request[q].built /\ request'[q].holds = request[q].holds
         /\ request'[q].process = request[q].process
         /\ \A x \in Requests \ {q} : request'[x] = request[x]
<1> DEFINE gone == [request[q] EXCEPT !.at = place]
<1>1. request' = [request EXCEPT ![q] = gone]
  BY DEF Goes, TypeOK, Asked
<1>2. gone \in Asked
  <2>1. request[q] \in Asked
    BY DEF TypeOK
  <2> QED
    BY <2>1 DEF Asked
<1>3. request'[q] = gone /\ \A x \in Requests \ {q} : request'[x] = request[x]
  BY <1>1 DEF TypeOK
<1>4. /\ gone.at = place
      /\ gone.since = request[q].since /\ gone.seen = request[q].seen
      /\ gone.built = request[q].built /\ gone.holds = request[q].holds
      /\ gone.process = request[q].process
  BY DEF TypeOK, Asked
<1> HIDE DEF gone
<1> QED
  BY <1>1, <1>2, <1>3, <1>4 DEF TypeOK

(* A request of this process that is answered with what is as its revision *)
(* tells, and so no older than the request, keeps the invariant.           *)
LEMMA Answering ==
  ASSUME IInv, NEW q \in Requests, NEW body \in [Parts -> Nat], Answered(q, body),
         Standing, lock' \in Requests \cup {None},
         stored' \in [revision : [Parts -> Int], body : [Parts -> Nat]],
         stored' = stored \/ IsOf(stored'.body, stored'.revision),
         request[q].at \in InFlight, IsWhole(request[q].seen), IsOf(body, request[q].seen)
  PROVE  IInv'
<1> USE DEF IInv, Standing, catalog
<1>1. request' = [request EXCEPT ![q] = [request[q] EXCEPT !.at = "answered", !.built = body,
                                                            !.process = process]]
  BY DEF Answered, TypeOK, Asked
<1>2. /\ request'[q].at = "answered" /\ request'[q].built = body
      /\ request'[q].process = process
      /\ request'[q].since = request[q].since /\ request'[q].seen = request[q].seen
      /\ request'[q].holds = request[q].holds
      /\ \A x \in Requests \ {q} : request'[x] = request[x]
  BY <1>1 DEF TypeOK, Asked
<1>3. TypeOK'
  <2>1. request[q] \in Asked /\ process \in Nat
    BY DEF TypeOK
  <2>2. [request[q] EXCEPT !.at = "answered", !.built = body, !.process = process] \in Asked
    BY <2>1 DEF Asked, Places
  <2>3. request' \in [Requests -> Asked]
    BY <1>1, <2>2 DEF TypeOK
  <2> QED
    BY <2>3 DEF TypeOK
<1>4. Current(body, request[q].since)
  <2> SUFFICES ASSUME NEW p \in Parts \ slipped PROVE body[p] >= request[q].since[p]
    BY DEF Current
  <2>1. /\ request[q].seen[p] \in DOMAIN past[p]
        /\ body[p] >= past[p][request[q].seen[p]]
    BY DEF IsOf
  <2>2. past[p][request[q].seen[p]] >= request[q].since[p]
    BY <2>1 DEF RequestInv, ToldSince, IsWhole
  <2>3. /\ body[p] \in Nat /\ past[p][request[q].seen[p]] \in Nat
        /\ request[q].since[p] \in Nat
    BY <2>1 DEF TypeOK, Asked
  <2> QED
    BY <2>1, <2>2, <2>3
<1>5. request[q].holds # None => /\ request[q].holds \in Requests \ {q}
                                 /\ request[request[q].holds].at = "answered"
  BY DEF RequestInv, TypeOK, InFlight, Asked
<1>6. RequestInv(q)'
  BY <1>2, <1>4, <1>5 DEF RequestInv, InFlight, IsOf, Current, TypeOK
<1> QED
  BY <1>2, <1>3, <1>6, OneRequestMoves DEF InFlight

-----------------------------------------------------------------------------
(* A request that comes has been told nothing yet.                         *)
LEMMA ComeKeeps ==
  ASSUME IInv, NEW q \in Requests, NEW holds \in Requests \cup {None}, Come(q, holds)
  PROVE  IInv'
<1> USE DEF IInv
<1> DEFINE come == [Away EXCEPT !.at = "outside", !.holds = holds,
                                !.since = [p \in Parts |-> rows[p].version]]
<1>1. request[q] = Away
  BY DEF Come, RequestInv
<1>2. request' = [request EXCEPT ![q] = come]
  BY <1>1 DEF Come, TypeOK, Asked, Away
<1>3. come \in Asked
  <2>1. /\ [p \in Parts |-> rows[p].version] \in [Parts -> Nat]
        /\ Nothing \in [Parts -> Nat] /\ Nothing \in [Parts -> Int]
    BY DEF TypeOK, Nothing, Unread
  <2> QED
    BY <2>1 DEF Asked, Away, Places
<1>4. /\ come.at = "outside" /\ come.holds = holds /\ come.seen = Nothing
      /\ come.built = Nothing /\ come.process = 0
      /\ come.since = [p \in Parts |-> rows[p].version]
  BY DEF Away
<1> HIDE DEF come
<1>5. request'[q] = come /\ \A x \in Requests \ {q} : request'[x] = request[x]
  BY <1>2 DEF TypeOK
<1>6. TypeOK' /\ Standing
  <2>1. request' \in [Requests -> Asked]
    BY <1>2, <1>3 DEF TypeOK
  <2> QED
    BY <2>1 DEF Come, TypeOK, Standing, catalog
<1>7. holds # None => holds \in Requests \ {q} /\ request[holds].at = "answered"
  BY DEF Come
<1>8. ToldSince(come.seen, come.since)
  <2>1. \A p \in Parts : rows[p].version \in Nat /\ come.since[p] = rows[p].version
    BY <1>4 DEF TypeOK
  <2>2. \A p \in Parts : come.seen[p] = Unread
    BY <1>4 DEF Nothing
  <2> QED
    BY <2>1, <2>2 DEF ToldSince
<1>9. RequestInv(q)'
  <2>1. come.process <= process
    BY <1>4 DEF TypeOK
  <2> QED
    BY <1>4, <1>5, <1>6, <1>7, <1>8, <2>1
    DEF RequestInv, InFlight, ToldSince, Standing, catalog
<1> QED
  BY <1>5, <1>6, <1>9, OneRequestMoves DEF Come

(* A request that goes on where nothing is told or built keeps its part.   *)
LEMMA GoingOnKeeps ==
  ASSUME IInv, NEW q \in Requests, NEW place \in Places, Goes(q, place), Standing,
         stored' = stored, lock' \in Requests \cup {None},
         request[q].at \in InFlight,
         place \in InFlight \cup {"failed"},
         place \in {"waiting", "building"} => IsWhole(request[q].seen),
         place \in InFlight => request[q].at # "building"
  PROVE  IInv'
<1> USE DEF IInv, Standing, catalog
<1>1. TypeOK'
  BY GoingOn DEF TypeOK
<1>2. request[q].holds # None => /\ request[q].holds \in Requests \ {q}
                                 /\ request[request[q].holds].at = "answered"
  BY DEF RequestInv, TypeOK, Asked, InFlight
<1>3. place = "building" => BuiltSince(request[q].built, request[q].seen)
  BY DEF RequestInv, BuiltSince, InFlight, Nothing, Unread
<1>4. RequestInv(q)'
  BY <1>2, <1>3, GoingOn
  DEF RequestInv, InFlight, ToldSince, BuiltSince, IsWhole, IsOf, Current
<1> QED
  BY <1>1, <1>4, GoingOn, OneRequestMoves DEF InFlight

(* A part of the revision is read: what is told of it now was first told   *)
(* at the version it has now.                                              *)
LEMMA AskKeeps ==
  ASSUME IInv, NEW q \in Requests, NEW p \in Parts, Ask(q, p) PROVE IInv'
<1> USE DEF IInv
<1> DEFINE seen == [request[q].seen EXCEPT ![p] = rows[p].told]
           told == [request[q] EXCEPT !.seen = seen]
<1>1. request' = [request EXCEPT ![q] = told] /\ Standing /\ stored' = stored /\ lock' = lock
  BY DEF Ask, TypeOK, Asked, Standing, catalog
<1>2. request[q] \in Asked /\ seen \in [Parts -> Int]
  BY DEF TypeOK, Asked
<1>3. seen[p] = rows[p].told /\ \A x \in Parts \ {p} : seen[x] = request[q].seen[x]
  BY DEF TypeOK, Asked
<1> HIDE DEF seen
<1>4. /\ told \in Asked
      /\ told.at = "asking" /\ told.seen = seen
      /\ told.since = request[q].since /\ told.built = request[q].built
      /\ told.holds = request[q].holds /\ told.process = request[q].process
  BY <1>2 DEF Ask, Asked
<1> HIDE DEF told
<1>5. request'[q] = told /\ \A x \in Requests \ {q} : request'[x] = request[x]
  BY <1>1 DEF TypeOK
<1>6. TypeOK'
  BY <1>1, <1>4 DEF TypeOK, Standing, catalog
<1>7. ToldSince(seen, told.since)
  <2> SUFFICES ASSUME NEW x \in Parts
               PROVE  /\ told.since[x] <= rows[x].version
                      /\ x \notin slipped /\ seen[x] # Unread =>
                           seen[x] \in DOMAIN past[x] /\ past[x][seen[x]] >= told.since[x]
    BY DEF ToldSince
  <2>1. ToldSince(request[q].seen, told.since)
    BY <1>4 DEF Ask, RequestInv, InFlight
  <2>2. told.since[x] \in Nat /\ rows[x].version \in Nat /\ told.since[x] <= rows[x].version
    BY <2>1, <1>2, <1>4 DEF ToldSince, TypeOK, Asked
  <2>3. CASE x = p
    BY <2>2, <2>3, <1>3 DEF PastTells
  <2>4. CASE x # p
    BY <2>1, <2>4, <1>3 DEF ToldSince
  <2> QED
    BY <2>2, <2>3, <2>4
<1>8. told.holds # None => /\ told.holds \in Requests \ {q}
                           /\ request[told.holds].at = "answered"
  BY <1>4 DEF Ask, RequestInv, TypeOK, Asked
<1>9. RequestInv(q)'
  <2>1. told.built = Nothing /\ told.process <= process
    BY <1>4 DEF Ask, RequestInv, InFlight
  <2> QED
    BY <1>1, <1>4, <1>5, <1>7, <1>8, <2>1
    DEF RequestInv, InFlight, ToldSince, Standing, catalog
<1> QED
  BY <1>1, <1>5, <1>6, <1>9, OneRequestMoves DEF Ask
(* A request that waits was told of every part: its revision is known.     *)
LEMMA WaitingWasTold ==
  ASSUME IInv, NEW q \in Requests, request[q].at \in {"waiting", "building"}
  PROVE  /\ IsWhole(request[q].seen)
         /\ \A p \in Parts \ slipped : request[q].seen[p] \in DOMAIN past[p]
BY DEF IInv, RequestInv, ToldSince, IsWhole, InFlight

(* A part of the rows is read: no version of it was told of later.         *)
LEMMA BuildKeeps ==
  ASSUME IInv, NEW q \in Requests, NEW p \in Parts, Build(q, p) PROVE IInv'
<1> USE DEF IInv
<1> DEFINE built == [request[q].built EXCEPT ![p] = rows[p].version]
           grown == [request[q] EXCEPT !.built = built]
<1>1. request' = [request EXCEPT ![q] = grown] /\ Standing /\ stored' = stored /\ lock' = lock
  BY DEF Build, TypeOK, Asked, Standing, catalog
<1>2. request[q] \in Asked /\ built \in [Parts -> Nat]
  BY DEF TypeOK, Asked
<1>3. built[p] = rows[p].version /\ \A x \in Parts \ {p} : built[x] = request[q].built[x]
  BY DEF TypeOK, Asked
<1> HIDE DEF built
<1>4. /\ grown \in Asked
      /\ grown.at = "building" /\ grown.built = built
      /\ grown.since = request[q].since /\ grown.seen = request[q].seen
      /\ grown.holds = request[q].holds /\ grown.process = request[q].process
  BY <1>2 DEF Build, Asked
<1> HIDE DEF grown
<1>5. request'[q] = grown /\ \A x \in Requests \ {q} : request'[x] = request[x]
  BY <1>1 DEF TypeOK
<1>6. TypeOK'
  BY <1>1, <1>4 DEF TypeOK, Standing, catalog
<1>7. BuiltSince(built, grown.seen)
  <2>1. \A x \in Parts \ slipped : grown.seen[x] \in DOMAIN past[x]
    BY <1>4, WaitingWasTold DEF Build
  <2>2. BuiltSince(request[q].built, grown.seen)
    BY <1>4 DEF Build, RequestInv
  <2>3. p \notin slipped => /\ past[p][grown.seen[p]] <= rows[p].version
                            /\ past[p][grown.seen[p]] \in Nat /\ rows[p].version \in Nat
    BY <2>1 DEF PastTells, TypeOK
  <2> QED
    BY <2>2, <2>3, <1>3 DEF BuiltSince
<1>8. grown.holds # None => /\ grown.holds \in Requests \ {q}
                            /\ request[grown.holds].at = "answered"
  BY <1>4 DEF Build, RequestInv, TypeOK, Asked
<1>9. RequestInv(q)'
  <2>1. /\ ToldSince(grown.seen, grown.since) /\ IsWhole(grown.seen)
        /\ grown.process <= process
    BY <1>4 DEF Build, RequestInv, InFlight
  <2> QED
    BY <1>1, <1>4, <1>5, <1>7, <1>8, <2>1
    DEF RequestInv, InFlight, ToldSince, BuiltSince, IsWhole, Standing, catalog
<1> QED
  BY <1>1, <1>5, <1>6, <1>9, OneRequestMoves DEF Build

(* What is built whole is kept, and answers the request.                   *)
LEMMA KeepKeeps ==
  ASSUME IInv, NEW q \in Requests, Keep(q) PROVE IInv'
<1> USE DEF IInv
<1>1. IsOf(request[q].built, request[q].seen)
  BY WaitingWasTold DEF Keep, RequestInv, BuiltSince, IsWhole, IsOf
<1>2. Stored(q) \in [revision : [Parts -> Int], body : [Parts -> Nat]]
  BY DEF Stored, TypeOK, Asked
<1>3. IsOf(stored'.body, stored'.revision)
  BY <1>1 DEF Keep, Stored
<1>4. request[q].built \in [Parts -> Nat]
  BY DEF TypeOK, Asked
<1> QED
  BY <1>1, <1>2, <1>3, <1>4, WaitingWasTold, Answering DEF Keep, Standing, catalog, InFlight

(* The answer kept is given where it is of the revision told, and is built *)
(* again where it is not.                                                  *)
LEMMA EnterKeeps ==
  ASSUME IInv, NEW q \in Requests, Enter(q) PROVE IInv'
<1> USE DEF IInv
<1>1. Standing /\ stored' = stored /\ lock' \in Requests \cup {None}
  BY DEF Enter, Standing, catalog, TypeOK
<1>2. CASE Stands(q)
  <2>1. IsOf(stored.body, request[q].seen)
    BY <1>2 DEF Stands
  <2>2. stored.body \in [Parts -> Nat]
    BY DEF TypeOK
  <2>3. stored' \in [revision : [Parts -> Int], body : [Parts -> Nat]]
    BY <1>1 DEF TypeOK
  <2> QED
    BY <1>1, <1>2, <2>1, <2>2, <2>3, WaitingWasTold, Answering DEF Enter, InFlight
<1>3. CASE ~Stands(q)
  BY <1>1, <1>3, WaitingWasTold, GoingOnKeeps DEF Enter, InFlight, Places
<1> QED
  BY <1>2, <1>3

(* A browser's answer is confirmed where this process gave it, of the      *)
(* revision told.                                                          *)
LEMMA CompareKeeps ==
  ASSUME IInv, NEW q \in Requests, Compare(q) PROVE IInv'
<1> USE DEF IInv
<1>1. Standing /\ stored' = stored /\ lock' \in Requests \cup {None}
  BY DEF Compare, Standing, catalog, TypeOK
<1>2. CASE request[q].holds # None /\ Names(q)
  <2> DEFINE holder == request[request[q].holds]
  <2>1. request[q].holds \in Requests
    BY <1>2 DEF TypeOK, Asked
  <2>2. holder.at = "answered" /\ holder.process = process /\ holder.seen = request[q].seen
    BY <1>2 DEF RequestInv, Names
  <2>3. IsOf(holder.built, request[q].seen) /\ holder.built \in [Parts -> Nat]
    BY <2>1, <2>2 DEF RequestInv, TypeOK, Asked
  <2>4. stored' \in [revision : [Parts -> Int], body : [Parts -> Nat]]
    BY <1>1 DEF TypeOK
  <2> QED
    BY <1>1, <1>2, <2>3, <2>4, Answering DEF Compare, InFlight
<1>3. CASE ~(request[q].holds # None /\ Names(q))
  BY <1>1, <1>3, GoingOnKeeps DEF Compare, InFlight, Places
<1> QED
  BY <1>2, <1>3
(* A restart leaves only answers of other processes.                       *)
LEMMA RestartKeeps ==
  ASSUME IInv, Restart PROVE IInv'
<1> USE DEF IInv
<1>1. /\ process' = process + 1 /\ process \in Nat
      /\ slipped' = {} /\ stored' = NoAnswer /\ lock' = None /\ rows' = rows
      /\ past' = [p \in Parts |-> [t \in {rows[p].told} |-> rows[p].version]]
  BY DEF Restart, TypeOK
<1>2. ASSUME NEW q \in Requests
      PROVE  \/ request'[q] = request[q] /\ request[q].at \in {"away", "answered"}
             \/ request'[q] = [request[q] EXCEPT !.at = "failed"]
  BY DEF Restart
<1>3. ASSUME NEW q \in Requests
      PROVE  /\ request'[q] \in Asked
             /\ request'[q].holds = request[q].holds
             /\ request'[q].process = request[q].process
             /\ request[q].at = "answered" => request'[q].at = "answered"
             /\ \/ request'[q].at = "failed"
                \/ request'[q] = request[q] /\ request[q].at \in {"away", "answered"}
  <2>1. request[q] \in Asked
    BY DEF TypeOK
  <2>2. CASE request'[q] = request[q] /\ request[q].at \in {"away", "answered"}
    BY <2>1, <2>2
  <2>3. CASE request[q].at \notin {"away", "answered"}
    <3>1. request'[q] = [request[q] EXCEPT !.at = "failed"]
      BY <2>3, <1>2
    <3> QED
      BY <2>1, <2>3, <3>1 DEF Asked, Places
  <2> QED
    BY <2>2, <2>3 DEF Restart
<1>4. TypeOK'
  <2>1. request' \in [Requests -> Asked]
    BY <1>3 DEF Restart
  <2>2. \A p \in Parts : rows[p].version \in Nat
    BY DEF TypeOK
  <2>3. NoAnswer \in [revision : [Parts -> Int], body : [Parts -> Nat]]
    BY DEF NoAnswer, Nothing, Unread
  <2> QED
    BY <1>1, <2>1, <2>2, <2>3 DEF TypeOK
<1>5. PastTells'
  <2>1. \A p \in Parts : rows[p].version \in Nat
    BY DEF TypeOK
  <2> QED
    BY <1>1, <2>1 DEF PastTells
<1>6. ASSUME NEW q \in Requests PROVE RequestInv(q)'
  <2>1. request[q].process <= process /\ request[q].process \in Nat
    BY DEF RequestInv, TypeOK, Asked
  <2>2. request'[q].process <= process' /\ request'[q].process # process'
    BY <2>1, <1>1, <1>3
  <2>3. request'[q].holds # None => request'[request'[q].holds].at = "answered"
    <3>1. request[q].holds \in Requests \cup {None}
      BY DEF TypeOK, Asked
    <3> QED
      BY <3>1, <1>3 DEF RequestInv
  <2>4. request'[q].at = "away" => request'[q] = Away
    BY <1>3 DEF RequestInv
  <2> QED
    BY <2>2, <2>3, <2>4, <1>3 DEF RequestInv, InFlight
<1> QED
  BY <1>1, <1>4, <1>5, <1>6

(* Nothing is told, built or kept at first.                                *)
LEMMA InitIsSound == Init => IInv
<1> SUFFICES ASSUME Init PROVE IInv
  OBVIOUS
<1>1. Away \in Asked /\ NoAnswer \in [revision : [Parts -> Int], body : [Parts -> Nat]]
  <2>1. Nothing \in [Parts -> Nat] /\ Nothing \in [Parts -> Int]
    BY DEF Nothing, Unread
  <2> QED
    BY <2>1 DEF Away, Asked, Places, NoAnswer
<1>2. \A p \in Parts : /\ rows[p].version = 1
                       /\ rows[p].told \in Int /\ rows[p].told # 0
  BY ToldAssumption DEF Init
<1>3. /\ rows \in [Parts -> [version : Nat, told : Int]]
      /\ DOMAIN past = Parts
      /\ \A p \in Parts : DOMAIN past[p] = {rows[p].told} /\ past[p][rows[p].told] = 1
  BY <1>2, ToldAssumption DEF Init
<1>4. TypeOK
  BY <1>1, <1>3 DEF Init, TypeOK
<1>5. PastTells
  BY <1>2, <1>3 DEF PastTells, Unread
<1>6. ASSUME NEW q \in Requests PROVE RequestInv(q)
  <2>1. request[q] = Away /\ process = 1
    BY DEF Init
  <2> QED
    BY <2>1 DEF RequestInv, Away, InFlight
<1> QED
  BY <1>4, <1>5, <1>6 DEF Init, IInv

(* One lemma for each kind of step.                                        *)
LEMMA StepKeeps == IInv /\ [Next]_vars => IInv'
<1> SUFFICES ASSUME IInv, [Next]_vars PROVE IInv'
  OBVIOUS
<1>1. ASSUME NEW p \in Parts, NEW t \in Told \cup {rows[p].version + 1}, Write(p, t)
      PROVE  IInv'
  BY <1>1, WriteKeeps
<1>2. ASSUME NEW p \in Parts, NEW q \in Requests, Ask(q, p) \/ Build(q, p) PROVE IInv'
  BY <1>2, AskKeeps, BuildKeeps
<1>3. ASSUME NEW q \in Requests, NEW holds \in Requests \cup {None}, Come(q, holds)
      PROVE  IInv'
  BY <1>3, ComeKeeps
<1>4. ASSUME NEW q \in Requests,
             TakeThread(q) \/ Connect(q) \/ GoWithout(q) \/ Fail(q)
      PROVE  IInv'
  <2>1. Standing /\ stored' = stored /\ lock' \in Requests \cup {None}
    BY <1>4 DEF TakeThread, Connect, GoWithout, Fail, LetsGo, Standing, catalog, IInv, TypeOK
  <2>2. PICK place \in InFlight \cup {"failed"} :
          /\ Goes(q, place)
          /\ place \notin {"waiting", "building"}
          /\ place \in InFlight => request[q].at # "building"
    BY <1>4 DEF TakeThread, Connect, GoWithout, Fail, InFlight
  <2>3. request[q].at \in InFlight
    BY <1>4 DEF TakeThread, Connect, GoWithout, PoolTimesOut, Fail, InFlight
  <2>4. place \in Places
    BY <2>2 DEF InFlight, Places
  <2> QED
    BY <2>1, <2>2, <2>3, <2>4, GoingOnKeeps
<1>5. ASSUME NEW q \in Requests, Compare(q) \/ Enter(q) \/ Keep(q) PROVE IInv'
  BY <1>5, CompareKeeps, EnterKeeps, KeepKeeps
<1>6. CASE Restart
  BY <1>6, RestartKeeps
<1>7. CASE UNCHANGED vars
  BY <1>7 DEF vars, catalog, IInv, TypeOK, PastTells, RequestInv, ToldSince, BuiltSince,
              IsOf, Current, IsWhole
<1> QED
  BY <1>1, <1>2, <1>3, <1>4, <1>5, <1>6, <1>7 DEF Next

(* The inductive invariant: what is told, built and kept of each part is   *)
(* of the order it was read in (response_cache.py, dependencies.py).       *)
THEOREM Invariant == Spec => []IInv
<1> QED
  BY InitIsSound, StepKeeps, PTL DEF Spec

(* Whatever is written between the statements of a request, and whichever  *)
(* answers are kept or held, no answer is older than its request for any   *)
(* part whose revision tells its writes apart (routers/cloud.py).          *)
THEOREM AnswersAreAlwaysCurrent == Spec => []AnswersAreCurrent
<1>1. IInv => AnswersAreCurrent
  BY DEF IInv, RequestInv, Current, AnswersAreCurrent, At
<1> QED
  BY <1>1, Invariant, PTL

-----------------------------------------------------------------------------
(* What a request waits for: a thread, the lock, or statements of its own. *)

(* Whoever reads the rows holds the lock, and whoever holds it reads them. *)
LockInv ==
  /\ lock # None => request[lock].at = "building"
  /\ \A q \in At({"building"}) : lock = q

SizeInv == size.threads \in Nat \ {0}

(* The guards of a request's steps, action by action.                      *)
HasAStep(q) ==
  \/ request[q].at \in {"outside", "connected"} /\ ThreadFree
  \/ request[q].at = "connecting" /\ (ConnectionFree \/ PoolTimesOut(q))
  \/ request[q].at = "asking" /\ \/ \E p \in Parts : IsNext(RevisionOrder, request[q].seen, p)
                                 \/ IsWhole(request[q].seen)
  \/ request[q].at = "waiting" /\ lock = None
  \/ request[q].at = "building" /\ \/ \E p \in Parts : IsNext(BodyOrder, request[q].built, p)
                                   \/ IsWhole(request[q].built)

OnAThread == At({"connecting", "asking", "waiting", "building"})

(* A step of one request moves that request alone.                         *)
LEMMA LockMoves ==
  ASSUME TypeOK, LockInv, NEW q \in Requests,
         \A x \in Requests \ {q} : request'[x] = request[x],
         \/ /\ lock' = lock
            /\ request'[q].at = "building" <=> request[q].at = "building"
         \/ lock = None /\ lock' = q /\ request'[q].at = "building"
         \/ /\ request'[q].at # "building"
            /\ lock' = IF lock = q THEN None ELSE lock
  PROVE  LockInv'
<1>1. q # None /\ lock \in Requests \cup {None}
  BY NoneAssumption DEF TypeOK
<1>2. \A x \in Requests : request[x].at = "building" => lock = x
  BY DEF LockInv, At
<1>3. /\ lock' # None => request'[lock'].at = "building"
      /\ \A x \in Requests : request'[x].at = "building" => lock' = x
  <2>1. CASE lock' = lock /\ (request'[q].at = "building" <=> request[q].at = "building")
    <3>1. \A x \in Requests : request'[x].at = "building" <=> request[x].at = "building"
      BY <2>1
    <3> QED
      BY <1>1, <1>2, <2>1, <3>1 DEF LockInv
  <2>2. CASE lock = None /\ lock' = q /\ request'[q].at = "building"
    BY <1>1, <1>2, <2>2, NoneAssumption
  <2>3. CASE request'[q].at # "building" /\ lock' = IF lock = q THEN None ELSE lock
    <3>1. CASE lock = q
      BY <1>2, <2>3, <3>1
    <3>2. CASE lock # q
      <4>1. lock' = lock /\ (lock # None => request'[lock].at = "building")
        BY <1>1, <2>3, <3>2 DEF LockInv
      <4> QED
        BY <1>2, <2>3, <4>1
    <3> QED
      BY <3>1, <3>2
  <2> QED
    BY <2>1, <2>2, <2>3
<1> QED
  BY <1>3 DEF LockInv, At

(* Every step keeps the lock and its holder together.                      *)
LEMMA LockNext ==
  ASSUME TypeOK, LockInv, [Next]_vars PROVE LockInv'
<1>0. request \in [Requests -> Asked] /\ lock \in Requests \cup {None}
  BY DEF TypeOK
<1>1. ASSUME NEW p \in Parts, NEW t, Write(p, t) PROVE LockInv'
  BY <1>1 DEF Write, LockInv, At
<1>2. ASSUME NEW q \in Requests, NEW p \in Parts, Ask(q, p) \/ Build(q, p) PROVE LockInv'
  <2>1. lock' = lock /\ \A x \in Requests : request'[x].at = request[x].at
    <3>1. CASE Ask(q, p)
      BY <1>0, <3>1 DEF Ask, Asked
    <3>2. CASE Build(q, p)
      BY <1>0, <3>2 DEF Build, Asked
    <3> QED
      BY <1>2, <3>1, <3>2
  <2> QED
    BY <1>0, <2>1, NoneAssumption DEF LockInv, At
<1>3. ASSUME NEW q \in Requests, NEW place, Goes(q, place)
      PROVE  /\ request'[q].at = place
             /\ \A x \in Requests \ {q} : request'[x] = request[x]
  BY <1>0, <1>3 DEF Goes, Asked
<1>4. ASSUME NEW q \in Requests, NEW body, Answered(q, body)
      PROVE  /\ request'[q].at = "answered"
             /\ \A x \in Requests \ {q} : request'[x] = request[x]
  BY <1>0, <1>4 DEF Answered, Asked
<1>5. ASSUME NEW q \in Requests, NEW holds \in Requests \cup {None}, Come(q, holds)
      PROVE  LockInv'
  <2>1. /\ lock' = lock /\ request[q].at = "away" /\ request'[q].at = "outside"
        /\ \A x \in Requests \ {q} : request'[x] = request[x]
    BY <1>0, <1>5 DEF Come, Asked
  <2> QED
    BY <2>1, LockMoves
<1>6. ASSUME NEW q \in Requests, TakeThread(q) \/ Connect(q) \/ GoWithout(q)
      PROVE  LockInv'
  <2>1. /\ lock' = lock /\ request[q].at # "building"
        /\ \E place \in {"connecting", "asking", "connected", "failed"} : Goes(q, place)
    BY <1>6 DEF TakeThread, Connect, GoWithout, PoolTimesOut
  <2> QED
    BY <1>3, <2>1, LockMoves
<1>7. ASSUME NEW q \in Requests, Compare(q)
      PROVE  LockInv'
  <2>1. /\ lock' = lock /\ request[q].at = "asking"
        /\ Goes(q, "waiting") \/ \E body : Answered(q, body)
    BY <1>7 DEF Compare
  <2> QED
    BY <1>3, <1>4, <2>1, LockMoves
<1>8. ASSUME NEW q \in Requests, Enter(q)
      PROVE  LockInv'
  <2>1. /\ request[q].at = "waiting" /\ lock = None
        /\ \/ lock' = lock /\ \E body : Answered(q, body)
           \/ lock' = q /\ Goes(q, "building")
    BY <1>8 DEF Enter
  <2> QED
    BY <1>3, <1>4, <2>1, LockMoves
<1>9. ASSUME NEW q \in Requests, Keep(q)
      PROVE  LockInv'
  <2>1. request[q].at = "building" /\ lock' = None /\ \E body : Answered(q, body)
    BY <1>9 DEF Keep
  <2>2. lock = q
    BY <2>1 DEF LockInv, At
  <2> QED
    BY <1>4, <2>1, <2>2, LockMoves
<1>10. ASSUME NEW q \in Requests, Fail(q)
       PROVE  LockInv'
  <2>1. Goes(q, "failed") /\ lock' = IF lock = q THEN None ELSE lock
    BY <1>10 DEF Fail, LetsGo
  <2> QED
    BY <1>3, <2>1, LockMoves
<1>11. CASE Restart
  <2>1. lock' = None /\ \A x \in Requests : request'[x].at # "building"
    BY <1>0, <1>11 DEF Restart, Asked
  <2> QED
    BY <2>1 DEF LockInv, At
<1>12. CASE UNCHANGED vars
  BY <1>12 DEF vars, LockInv, At
<1> QED
  BY <1>1, <1>2, <1>5, <1>6, <1>7, <1>8, <1>9, <1>10, <1>11, <1>12 DEF Next

(* A set of numbers has a least one.                                       *)
LEMMA LeastNumber ==
  ASSUME NEW T, T \subseteq Nat, T # {}
  PROVE  \E x \in T : \A y \in T : x <= y
<1>1. \A x, y \in Nat : x < y => <<x, y>> \in OpToRel(<, Nat)
  BY DEF OpToRel
<1>2. PICK R : IsWellFoundedOn(R, Nat) /\ \A x, y \in Nat : x < y => <<x, y>> \in R
  BY <1>1, NatLessThanWellFounded
<1>3. IsWellFoundedOn(R, Nat)
  BY <1>2
<1>4. \A x, y \in Nat : x < y => <<x, y>> \in R
  BY <1>2
<1>5. PICK x \in T : \A y \in T : ~ (<<y, x>> \in R)
  BY <1>3, WFMin
<1>6. ASSUME NEW y \in T
      PROVE  x <= y
  <2>1. x \in Nat /\ y \in Nat
    OBVIOUS
  <2>2. y < x => <<y, x>> \in R
    BY <1>4, <2>1
  <2>3. ~ (y < x)
    BY <2>2, <1>5
  <2> QED
    BY <2>1, <2>3
<1> QED
  BY <1>6

(* Where not every part is read, the first of the order that is not is     *)
(* next.                                                                   *)
LEMMA SomePartIsNext ==
  ASSUME NEW order \in Seq(Parts), \A p \in Parts : \E n \in 1..Len(order) : order[n] = p,
         NEW done, ~IsWhole(done)
  PROVE  \E p \in Parts : IsNext(order, done, p)
<1> DEFINE unread == {n \in 1..Len(order) : done[order[n]] = Unread}
<1>1. unread \subseteq Nat /\ unread # {}
  BY DEF IsWhole
<1>2. PICK n \in unread : \A m \in unread : n <= m
  BY <1>1, LeastNumber
<1>3. \A i \in 1..(n - 1) : done[order[i]] # Unread
  <2> SUFFICES ASSUME NEW i \in 1..(n - 1), done[order[i]] = Unread PROVE FALSE
    OBVIOUS
  <2>1. i \in 1..Len(order) /\ i < n /\ i \in Nat /\ n \in Nat
    BY <1>2
  <2>2. i \in unread
    BY <2>1
  <2> QED
    BY <1>2, <2>1, <2>2
<1>4. n \in 1..Len(order) /\ done[order[n]] = Unread
  BY <1>2
<1>5. order[n] \in Parts
  BY <1>4
<1> QED
  BY <1>3, <1>4, <1>5 DEF IsNext

(* One request at a time reads the rows of an answer: the others that want *)
(* it wait, and take what it kept (response_cache.py, body).               *)
THEOREM OneRequestBuilds == Spec => [](\A q, x \in At({"building"}) : q = x)
<1>1. Init => LockInv
  BY DEF Init, LockInv, At, Away
<1>2. TypeOK /\ LockInv /\ [Next]_vars => LockInv'
  BY LockNext
<1>3. LockInv => \A q, x \in At({"building"}) : q = x
  BY DEF LockInv
<1>4. IInv => TypeOK
  BY DEF IInv
<1> QED
  BY <1>1, <1>2, <1>3, <1>4, Invariant, PTL DEF Spec

(* Requests never wait for one another in a circle, though a connection is *)
(* held while a thread is waited for and a thread while a connection or    *)
(* the lock is: whoever is underway has a step to take, or waits for the   *)
(* lock and its holder has one, or waits for a thread and somebody on one  *)
(* has (routers/cloud.py, response_cache.py).                              *)
THEOREM RequestsNeverWaitInACircle ==
  Spec => [](\A q \in At(InFlight) :
               \/ HasAStep(q)
               \/ request[q].at = "waiting" /\ lock # None /\ HasAStep(lock)
               \/ /\ request[q].at \in {"outside", "connected"}
                  /\ \E x \in OnAThread : HasAStep(x))
<1>1. Init => LockInv /\ SizeInv
  BY SizesAssumption DEF Init, LockInv, At, Away, SizeInv
<1>2. TypeOK /\ LockInv /\ [Next]_vars => LockInv'
  BY LockNext
<1>3. SizeInv /\ [Next]_vars => SizeInv'
  <2>1. [Next]_vars => size' = size
    BY DEF Next, Write, Ask, Build, Come, TakeThread, Connect, GoWithout, Compare, Enter, Keep,
           Fail, Restart, vars
  <2> QED
    BY <2>1 DEF SizeInv
<1>4. ASSUME TypeOK, LockInv, SizeInv, NEW q \in At(InFlight)
      PROVE  \/ HasAStep(q)
             \/ request[q].at = "waiting" /\ lock # None /\ HasAStep(lock)
             \/ /\ request[q].at \in {"outside", "connected"}
                /\ \E x \in OnAThread : HasAStep(x)
  <2>1. ASSUME NEW x \in Requests, request[x].at = "connecting" PROVE HasAStep(x)
    BY <2>1 DEF HasAStep, PoolTimesOut
  <2>2. ASSUME NEW x \in Requests, request[x].at = "asking" PROVE HasAStep(x)
    BY <2>2, OrdersAssumption, SomePartIsNext DEF HasAStep
  <2>3. ASSUME NEW x \in Requests, request[x].at = "building" PROVE HasAStep(x)
    BY <2>3, OrdersAssumption, SomePartIsNext DEF HasAStep
  <2>4. lock # None => lock \in Requests /\ request[lock].at = "building" /\ HasAStep(lock)
    BY <1>4, <2>3 DEF LockInv, TypeOK
  <2>5. ASSUME NEW x \in Requests, request[x].at = "waiting", lock = None PROVE HasAStep(x)
    BY <2>5 DEF HasAStep
  <2>6. ASSUME request[q].at \in {"outside", "connected"}, ~ThreadFree
        PROVE  \E x \in OnAThread : HasAStep(x)
    <3>1. OnAThread # {}
      <4>1. OnAThread = {} => Cardinality(OnAThread) < size.threads
        BY <1>4, FS_EmptySet DEF SizeInv
      <4> QED
        BY <2>6, <4>1 DEF ThreadFree, OnAThread
    <3>2. PICK x \in OnAThread : x \in Requests
      BY <3>1 DEF OnAThread, At
    <3>3. request[x].at \in {"connecting", "asking", "waiting", "building"}
      BY <3>2 DEF OnAThread, At
    <3>4. CASE request[x].at = "waiting" /\ lock # None
      BY <2>4, <3>4 DEF OnAThread, At
    <3> QED
      BY <2>1, <2>2, <2>3, <2>5, <3>2, <3>3, <3>4
  <2>7. q \in Requests /\ request[q].at \in InFlight
    BY DEF At
  <2> QED
    BY <2>1, <2>2, <2>3, <2>4, <2>5, <2>6, <2>7 DEF InFlight, HasAStep
<1>5. TypeOK /\ LockInv /\ SizeInv =>
        \A q \in At(InFlight) :
          \/ HasAStep(q)
          \/ request[q].at = "waiting" /\ lock # None /\ HasAStep(lock)
          \/ /\ request[q].at \in {"outside", "connected"}
             /\ \E x \in OnAThread : HasAStep(x)
  BY <1>4
<1>6. IInv => TypeOK
  BY DEF IInv
<1> QED
  BY <1>1, <1>2, <1>3, <1>5, <1>6, Invariant, PTL DEF Spec
=============================================================================
