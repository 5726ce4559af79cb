--------------------------- MODULE CatalogAnswers ---------------------------
(***************************************************************************)
(* Answers over the whole catalog, kept in memory (sampleserver/           *)
(* response_cache.py, caching.py, dependencies.py, routers/cloud.py), and  *)
(* the threads, connections and lock a request for one goes through.       *)
(*                                                                         *)
(* A request takes a connection of the pool, reads a revision of each part *)
(* of the rows behind the answer, and is confirmed where its browser holds *)
(* the answer of that revision. Else it waits for the lock, and takes the  *)
(* answer kept for that revision or reads the rows and keeps what it built *)
(* under the revision it read before. Each read is a statement of its own  *)
(* in a transaction that sees what was committed meanwhile; a pipeline     *)
(* writes the parts whenever it likes. Each process marks its validators.  *)
(*                                                                         *)
(* A revision of a part is a stamp no other write has, a digest of what it *)
(* holds, or a count. A write is told from the ones before it by a version *)
(* nobody reads. `slipped` names the parts whose revision did not tell a   *)
(* write apart: a count unmoved, or a digest or a count of before.         *)
(*                                                                         *)
(* The spectral vectors (spectral_cache.py) are one stamped part, kept the *)
(* same way with no validator; the categories and their tags are built for *)
(* the scoring their revision names, which never changes.                  *)
(***************************************************************************)
EXTENDS Integers, Sequences, FiniteSets

CONSTANTS
  Parts,
  Stamped,         \* the parts told by a stamp: the coordinates
  Digested,        \* by a digest: the playback rates, the sample files
  RevisionOrder,   \* the statements reading the revision
  BodyOrder,       \* the statements reading the rows
  Told,            \* what a digest or a count may tell, below any stamp
  FirstTold,
  Requests,
  Sizes,           \* the threads and connections, the overflow of the pool in,
                   \* one process may have
  None,
  MaxWrites,       \* bound: how often a part is written
  MaxFaults,       \* bound: how many statements fail
  MaxRestarts      \* bound: how often the server restarts

ASSUME PartsAssumption == Stamped \subseteq Parts /\ Digested \subseteq Parts
ASSUME ToldAssumption == Told \subseteq Int /\ FirstTold \in Told /\ \A t \in Told : t < 0
ASSUME NoneAssumption == None \notin Requests
ASSUME OrdersAssumption ==
  /\ RevisionOrder \in Seq(Parts)
  /\ BodyOrder \in Seq(Parts)
  /\ \A p \in Parts : /\ \E n \in 1..Len(RevisionOrder) : RevisionOrder[n] = p
                     /\ \E n \in 1..Len(BodyOrder) : BodyOrder[n] = p
ASSUME SizesAssumption == Sizes \subseteq [threads : Nat \ {0}, connections : Nat]
ASSUME BoundsAssumption ==
  /\ MaxWrites \in Nat /\ MaxFaults \in Nat /\ MaxRestarts \in Nat

VARIABLES
  rows,            \* of each part, the version on file and what tells it
  writes,
  past,            \* history: the version each told of this process was first seen with
  slipped,         \* history: the parts written and not told apart
  process,         \* PROCESS_MARK
  stored,          \* RevisionedJsonCache: _revision and _body
  lock,            \* RevisionedJsonCache._lock
  request,
  size,
  faults

catalog == <<rows, writes, past, slipped>>
vars == <<catalog, process, stored, lock, request, size, faults>>

Unread == 0
Nothing == [p \in Parts |-> Unread]
NoAnswer == [revision |-> Nothing, body |-> Nothing]
Away == [at |-> "away", since |-> Nothing, seen |-> Nothing, built |-> Nothing,
         holds |-> None, process |-> 0]

Init ==
  /\ rows = [p \in Parts |-> [version |-> 1, told |-> IF p \in Stamped THEN 1 ELSE FirstTold]]
  /\ writes = 0
  /\ past = [p \in Parts |-> [t \in {rows[p].told} |-> 1]]
  /\ slipped = {}
  /\ process = 1
  /\ stored = NoAnswer
  /\ lock = None
  /\ request = [q \in Requests |-> Away]
  /\ size \in Sizes
  /\ faults = 0

-----------------------------------------------------------------------------
(* The pipeline commits what it wrote of a part. A digest moves with what  *)
(* it is taken over; a count need not.                                     *)
Write(p, t) ==
  LET version == rows[p].version + 1 IN
  /\ writes < MaxWrites
  /\ writes' = writes + 1
  /\ IF p \in Stamped THEN t = version ELSE t \in Told
  /\ p \in Digested => t # rows[p].told
  /\ rows' = [rows EXCEPT ![p] = [version |-> version, told |-> t]]
  /\ IF t \in DOMAIN past[p]
     THEN slipped' = slipped \cup {p} /\ UNCHANGED past
     ELSE /\ past' = [past EXCEPT ![p] =
                          [u \in DOMAIN @ \cup {t} |-> IF u = t THEN version ELSE @[u]]]
          /\ UNCHANGED slipped
  /\ UNCHANGED <<process, stored, lock, request, faults, size>>

-----------------------------------------------------------------------------
At(places) == {q \in Requests : request[q].at \in places}

ThreadFree == Cardinality(At({"connecting", "asking", "waiting", "building"})) < size.threads
ConnectionFree ==
  Cardinality(At({"connected", "asking", "waiting", "building"})) < size.connections

Goes(q, place) == request' = [request EXCEPT ![q].at = place]

(* A browser asks, with an answer it holds or none.                        *)
Come(q, holds) ==
  /\ request[q].at = "away"
  /\ holds # None => request[holds].at = "answered"
  /\ request' = [request EXCEPT ![q].at = "outside", ![q].holds = holds,
                                ![q].since = [p \in Parts |-> rows[p].version]]
  /\ UNCHANGED <<catalog, process, stored, lock, faults, size>>

(* The connection is checked out on a thread, waiting for it...            *)
TakeThread(q) ==
  /\ ThreadFree
  /\ \/ request[q].at = "outside" /\ Goes(q, "connecting")
     \/ request[q].at = "connected" /\ Goes(q, "asking")
  /\ UNCHANGED <<catalog, process, stored, lock, faults, size>>

(* ...which is free again until another is taken for the route.            *)
Connect(q) ==
  /\ request[q].at = "connecting"
  /\ ConnectionFree
  /\ Goes(q, "connected")
  /\ UNCHANGED <<catalog, process, stored, lock, faults, size>>

NoTimeout(q) == FALSE
PoolTimesOut(q) == request[q].at = "connecting" /\ ~ConnectionFree

(* The pool is waited for so long, and no longer.                          *)
GoWithout(q) ==
  /\ PoolTimesOut(q)
  /\ Goes(q, "failed")
  /\ UNCHANGED <<catalog, process, stored, lock, faults, size>>

(* The statement of an order that is next, where those before it were read.*)
IsNext(order, done, p) ==
  \E n \in 1..Len(order) :
    /\ order[n] = p /\ done[p] = Unread
    /\ \A i \in 1..(n - 1) : done[order[i]] # Unread

IsWhole(done) == \A p \in Parts : done[p] # Unread

Ask(q, p) ==
  /\ request[q].at = "asking"
  /\ IsNext(RevisionOrder, request[q].seen, p)
  /\ request' = [request EXCEPT ![q].seen[p] = rows[p].told]
  /\ UNCHANGED <<catalog, process, stored, lock, faults, size>>

(* entity_tag, as the browser sends it back.                               *)
NamesUnmarked(q) == request[request[q].holds].seen = request[q].seen
Names(q) == /\ request[request[q].holds].seen = request[q].seen
            /\ request[request[q].holds].process = process

Answered(q, body) ==
  request' = [request EXCEPT ![q].at = "answered", ![q].built = body, ![q].process = process]

(* _cached_json: a 304, or on to the answer kept.                          *)
Compare(q) ==
  /\ request[q].at = "asking" /\ IsWhole(request[q].seen)
  /\ IF request[q].holds # None /\ Names(q)
     THEN Answered(q, request[request[q].holds].built)
     ELSE Goes(q, "waiting")
  /\ UNCHANGED <<catalog, process, stored, lock, faults, size>>

StandsOnce(q) == stored # NoAnswer
Stands(q) == stored # NoAnswer /\ stored.revision = request[q].seen

(* RevisionedJsonCache.body.                                               *)
Enter(q) ==
  /\ request[q].at = "waiting"
  /\ lock = None
  /\ IF Stands(q)
     THEN Answered(q, stored.body) /\ UNCHANGED lock
     ELSE Goes(q, "building") /\ lock' = q
  /\ UNCHANGED <<catalog, process, stored, faults, size>>

Build(q, p) ==
  /\ request[q].at = "building"
  /\ IsNext(BodyOrder, request[q].built, p)
  /\ request' = [request EXCEPT ![q].built[p] = rows[p].version]
  /\ UNCHANGED <<catalog, process, stored, lock, faults, size>>

StoredAsOfNow(q) == [revision |-> [p \in Parts |-> rows[p].told], body |-> request[q].built]
Stored(q) == [revision |-> request[q].seen, body |-> request[q].built]

Keep(q) ==
  /\ request[q].at = "building" /\ IsWhole(request[q].built)
  /\ stored' = Stored(q)
  /\ lock' = None
  /\ Answered(q, request[q].built)
  /\ UNCHANGED <<catalog, process, faults, size>>

(* A statement fails, or Postgres ends it or its idle transaction.         *)
KeepsTheLock(q) == UNCHANGED lock
LetsGo(q) == lock' = IF lock = q THEN None ELSE lock

Fail(q) ==
  /\ request[q].at \in {"asking", "building"}
  /\ faults < MaxFaults
  /\ faults' = faults + 1
  /\ Goes(q, "failed")
  /\ LetsGo(q)
  /\ UNCHANGED <<catalog, process, stored, size>>

(* Another process begins with nothing kept, and nothing said of what was  *)
(* written before, as one does for a publication.                          *)
Restart ==
  /\ process <= MaxRestarts
  /\ process' = process + 1
  /\ past' = [p \in Parts |-> [t \in {rows[p].told} |-> rows[p].version]]
  /\ slipped' = {}
  /\ stored' = NoAnswer
  /\ lock' = None
  /\ request' = [q \in Requests |->
                   IF request[q].at \in {"away", "answered"} THEN request[q]
                   ELSE [request[q] EXCEPT !.at = "failed"]]
  /\ UNCHANGED <<rows, writes, size, faults>>

Next ==
  \/ \E p \in Parts :
       \/ \E t \in Told \cup {rows[p].version + 1} : Write(p, t)
       \/ \E q \in Requests : Ask(q, p) \/ Build(q, p)
  \/ \E q \in Requests :
       \/ \E holds \in Requests \cup {None} : Come(q, holds)
       \/ TakeThread(q) \/ Connect(q) \/ GoWithout(q)
       \/ Compare(q) \/ Enter(q) \/ Keep(q) \/ Fail(q)
  \/ Restart

Spec == Init /\ [][Next]_vars

(* Whoever can go on does; a wait for the pool runs out.                   *)
Fairness ==
  \A q \in Requests :
    /\ WF_vars(TakeThread(q)) /\ WF_vars(Connect(q)) /\ WF_vars(GoWithout(q))
    /\ WF_vars(\E p \in Parts : Ask(q, p) \/ Build(q, p))
    /\ WF_vars(Compare(q)) /\ WF_vars(Enter(q)) /\ WF_vars(Keep(q))

FairSpec == Spec /\ Fairness

-----------------------------------------------------------------------------
Places == {"away", "outside", "connecting", "connected", "asking", "waiting",
           "building", "answered", "failed"}

Asked == [at : Places, since : [Parts -> Nat], seen : [Parts -> Int],
          built : [Parts -> Nat], holds : Requests \cup {None}, process : Nat]

TypeOK ==
  /\ rows \in [Parts -> [version : Nat, told : Int]]
  /\ DOMAIN past = Parts /\ \A p \in Parts : \A t \in DOMAIN past[p] : past[p][t] \in Nat
  /\ slipped \in SUBSET Parts
  /\ process \in Nat
  /\ stored \in [revision : [Parts -> Int], body : [Parts -> Nat]]
  /\ lock \in Requests \cup {None}
  /\ request \in [Requests -> Asked]

(* An answer is never older than the rows as its request came, be it built *)
(* for it, kept from another's or held by its browser: however many writes *)
(* came between the statements of either, for every part whose revision    *)
(* told them apart.                                                        *)
AnswersAreCurrent ==
  \A q \in At({"answered"}) : \A p \in Parts \ slipped :
    request[q].process = process => request[q].built[p] >= request[q].since[p]

(* Every request ends, with an answer or a failure, though connections are *)
(* held while a thread is waited for and threads while a connection is,    *)
(* and one lock waits for the rows to be read.                             *)
EveryRequestEnds ==
  \A q \in Requests : request[q].at = "outside" ~> request[q].at \in {"answered", "failed"}
=============================================================================
