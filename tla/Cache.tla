------------------------------- MODULE Cache --------------------------------
(***************************************************************************)
(* loadingCache over multiLevel of pkg/cache (loading.go, multilevel.go),  *)
(* for one key, as Builder.Build wires them: an in-memory layer, a shared  *)
(* layer behind the circuit breaker, a loader, soft and negative TTLs.     *)
(*                                                                         *)
(* A value is the version of the row it was read from.  Each call of the   *)
(* second layer is answered or not.  One that is not answered may have     *)
(* been carried out; one that the breaker skips was not.                   *)
(***************************************************************************)
EXTENDS Naturals, FiniteSets

CONSTANTS
  Readers,       \* callers of Get
  Writers,       \* callers of Set, SetTTL and Delete
  Refreshers,    \* bound: background refreshes at the same time
  MaxVersion     \* bound: writes of the row

Versions == 1..MaxVersion
Procs == Readers \cup Writers

ASSUME CacheAssumption == MaxVersion \in Nat \ {0}

VARIABLES
  absent,       \* never changes: the versions in which there is no row
  db,           \* the row's version
  l1, l2,       \* the layers: a version, or 0 for no entry
  neg,          \* negative: the version whose absence is cached, or 0
  soft,         \* softExpiry: "none", "fresh" or "stale"
  refreshing,   \* the key is in refreshing
  flight,       \* the shared load of singleflight: its step and its version
  pc, val,      \* callers: the step and the version in hand
  ref,          \* refreshers: the step and the version in hand
  calm,         \* the Set or Delete in progress overlaps no other call
  floor,        \* the version of the last Set or Delete that overlapped none
  cut           \* a Delete has cleared the flag of a refresh that runs

data == <<absent, db, l1, l2, neg, soft>>
vars == <<data, refreshing, flight, pc, val, ref, calm, floor, cut>>

Idle == [at |-> "off", v |-> 0]

TypeOK ==
  /\ absent \subseteq Versions /\ db \in Versions
  /\ {l1, l2} \subseteq (Versions \ absent) \cup {0}
  /\ neg \in absent \cup {0}
  /\ soft \in {"none", "fresh", "stale"}
  /\ refreshing \in BOOLEAN
  /\ flight \in [at : {"off", "load", "neg", "l1", "l2"}, v : Versions \cup {0}]
  /\ pc \in [Procs -> {"idle", "getL1", "getL2", "fill", "load", "wait",
                       "setL1", "setL2", "delL1", "delL2"}]
  /\ val \in [Procs -> Versions \cup {0}]
  /\ ref \in [Refreshers -> [at : {"off", "load", "l1", "l2"}, v : Versions \cup {0}]]
  /\ calm \in BOOLEAN /\ floor \in Versions \cup {0} /\ cut \in BOOLEAN

Init ==
  /\ \E v \in Versions : absent = {v}
  /\ db = 1
  /\ l1 = 0 /\ l2 = 0 /\ neg = 0
  /\ soft = "none" /\ refreshing = FALSE
  /\ flight = Idle
  /\ pc = [p \in Procs |-> "idle"] /\ val = [p \in Procs |-> 0]
  /\ ref = [r \in Refreshers |-> Idle]
  /\ calm = FALSE /\ floor = 0 /\ cut = FALSE

\* Nobody but p is in the cache.
Alone(p) ==
  /\ \A q \in Procs \ {p} : pc[q] = "idle"
  /\ flight.at = "off"
  /\ \A r \in Refreshers : ref[r].at = "off"

Goto(p, at, v) == pc' = [pc EXCEPT ![p] = at] /\ val' = [val EXCEPT ![p] = v]

-----------------------------------------------------------------------------
(***************************************************************************)
(* The layers                                                              *)
(***************************************************************************)
\* Ristretto replaces the entry of a key at once, and may refuse to admit a new
\* one, which Set does not tell.
RistrettoSet(v) == l1' \in IF l1 = 0 THEN {0, v} ELSE {v}

RistrettoDelete == l1' = 0

\* What Redis returns: an entry, or none, which stands for an error too.
RedisGet == {0, l2}

RedisSet(v, ok) == l2' \in IF ok THEN {v} ELSE {l2, v}

RedisDelete(ok) == l2' \in IF ok THEN {0} ELSE {0, l2}

(***************************************************************************)
(* Get                                                                     *)
(***************************************************************************)
\* The negative entry answers, or the layers are asked.
Get(p) ==
  /\ pc[p] = "idle"
  /\ IF neg # 0 THEN UNCHANGED <<pc, val, calm>> ELSE Goto(p, "getL1", 0) /\ calm' = FALSE
  /\ UNCHANGED <<data, refreshing, flight, ref, floor, cut>>

\* A triggerBackgroundRefresh that does not look whether one is running.
Hit_Always ==
  IF soft = "stale"
  THEN \E r \in Refreshers :
         /\ ref[r].at = "off"
         /\ ref' = [ref EXCEPT ![r].at = "load"]
         /\ refreshing' = TRUE
         /\ calm' = FALSE
  ELSE UNCHANGED <<ref, refreshing, calm>>

\* What Get does on a hit: a stale one starts a refresh, unless one is running.
Hit ==
  IF soft = "stale" /\ ~refreshing
  THEN \E r \in Refreshers :
         /\ ref[r].at = "off"
         /\ ref' = [ref EXCEPT ![r].at = "load"]
         /\ refreshing' = TRUE
         /\ calm' = FALSE
  ELSE UNCHANGED <<ref, refreshing, calm>>

\* A Get that writes a hit of the first layer to the second.
GetL1_WritesBack(p) ==
  /\ pc[p] = "getL1"
  /\ IF l1 # 0
     THEN Goto(p, "idle", 0) /\ Hit /\ l2' = l1
     ELSE Goto(p, "getL2", 0) /\ UNCHANGED <<l2, ref, refreshing, calm>>
  /\ UNCHANGED <<absent, db, l1, neg, soft, flight, floor, cut>>

GetL1(p) ==
  /\ pc[p] = "getL1"
  /\ IF l1 # 0
     THEN Goto(p, "idle", 0) /\ Hit
     ELSE Goto(p, "getL2", 0) /\ UNCHANGED <<ref, refreshing, calm>>
  /\ UNCHANGED <<data, flight, floor, cut>>

GetL2(p) ==
  /\ pc[p] = "getL2"
  /\ \E v \in RedisGet : IF v # 0 THEN Goto(p, "fill", v) ELSE Goto(p, "load", 0)
  /\ UNCHANGED <<data, refreshing, flight, ref, calm, floor, cut>>

\* The hit of the second layer is kept in the first.
GetFill(p) ==
  /\ pc[p] = "fill"
  /\ RistrettoSet(val[p])
  /\ Goto(p, "idle", 0)
  /\ Hit
  /\ UNCHANGED <<absent, db, l2, neg, soft, flight, floor, cut>>

\* doLoad: start the shared load or join it.
DoLoad(p) ==
  /\ pc[p] = "load"
  /\ Goto(p, "wait", 0)
  /\ flight' = IF flight.at = "off" THEN [at |-> "load", v |-> 0] ELSE flight
  /\ UNCHANGED <<data, refreshing, ref, calm, floor, cut>>

\* The caller's context ends; the load goes on.
Cancel(p) ==
  /\ pc[p] = "wait"
  /\ Goto(p, "idle", 0)
  /\ UNCHANGED <<data, refreshing, flight, ref, calm, floor, cut>>

(***************************************************************************)
(* The shared load                                                         *)
(***************************************************************************)
\* The load ends and all who wait for it return.
Land ==
  /\ flight' = Idle
  /\ pc' = [p \in Procs |-> IF pc[p] = "wait" THEN "idle" ELSE pc[p]]
  /\ UNCHANGED val

FlightLoad ==
  /\ flight.at = "load"
  /\ flight' = [at |-> IF db \in absent THEN "neg" ELSE "l1", v |-> db]
  /\ UNCHANGED <<data, refreshing, pc, val, ref, calm, floor, cut>>

FlightLoadFails ==
  /\ flight.at = "load"
  /\ Land
  /\ UNCHANGED <<data, refreshing, ref, calm, floor, cut>>

FlightNegative ==
  /\ flight.at = "neg"
  /\ neg' = flight.v
  /\ Land
  /\ UNCHANGED <<absent, db, l1, l2, soft, refreshing, ref, calm, floor, cut>>

FlightL1 ==
  /\ flight.at = "l1"
  /\ RistrettoSet(flight.v)
  /\ flight' = [flight EXCEPT !.at = "l2"]
  /\ UNCHANGED <<absent, db, l2, neg, soft, refreshing, pc, val, ref, calm, floor, cut>>

FlightL2 ==
  /\ flight.at = "l2"
  /\ \E ok \in BOOLEAN : RedisSet(flight.v, ok)
  /\ soft' = "fresh"
  /\ Land
  /\ UNCHANGED <<absent, db, l1, neg, refreshing, ref, calm, floor, cut>>

FlightStep == FlightLoad \/ FlightLoadFails \/ FlightNegative \/ FlightL1 \/ FlightL2

(***************************************************************************)
(* The background refresh                                                  *)
(***************************************************************************)
\* The deferred refreshing.Delete.
EndRefresh(r) ==
  /\ ref' = [ref EXCEPT ![r] = Idle]
  /\ refreshing' = FALSE
  /\ cut' = (cut /\ \E x \in Refreshers \ {r} : ref[x].at # "off")

\* The loader returns an error, ErrNotFound included.
RefreshFails(r) ==
  /\ ref[r].at = "load"
  /\ EndRefresh(r)
  /\ UNCHANGED <<data, flight, pc, val, calm, floor>>

RefreshLoad(r) ==
  /\ ref[r].at = "load"
  /\ db \notin absent
  /\ ref' = [ref EXCEPT ![r] = [at |-> "l1", v |-> db]]
  /\ UNCHANGED <<data, refreshing, flight, pc, val, calm, floor, cut>>

RefreshL1(r) ==
  /\ ref[r].at = "l1"
  /\ RistrettoSet(ref[r].v)
  /\ ref' = [ref EXCEPT ![r].at = "l2"]
  /\ UNCHANGED <<absent, db, l2, neg, soft, refreshing, flight, pc, val, calm, floor, cut>>

RefreshL2(r) ==
  /\ ref[r].at = "l2"
  /\ \E ok \in BOOLEAN : RedisSet(ref[r].v, ok)
  /\ soft' = "fresh"
  /\ EndRefresh(r)
  /\ UNCHANGED <<absent, db, l1, neg, flight, pc, val, calm, floor>>

RefreshStep(r) == RefreshFails(r) \/ RefreshLoad(r) \/ RefreshL1(r) \/ RefreshL2(r)

(***************************************************************************)
(* Set, SetTTL and Delete                                                  *)
(***************************************************************************)
\* The caller has written the row and caches what it wrote.
Set(p) ==
  /\ pc[p] = "idle"
  /\ db \notin absent
  /\ soft' = "fresh"
  /\ neg' = 0
  /\ Goto(p, "setL1", db)
  /\ calm' = Alone(p)
  /\ UNCHANGED <<absent, db, l1, l2, refreshing, flight, ref, floor, cut>>

\* SetTTL leaves the soft expiry and the negative entry alone.
SetTTL(p) ==
  /\ pc[p] = "idle"
  /\ db \notin absent
  /\ Goto(p, "setL1", db)
  /\ calm' = FALSE
  /\ UNCHANGED <<data, refreshing, flight, ref, floor, cut>>

SetL1(p) ==
  /\ pc[p] = "setL1"
  /\ RistrettoSet(val[p])
  /\ Goto(p, "setL2", val[p])
  /\ UNCHANGED <<absent, db, l2, neg, soft, refreshing, flight, ref, calm, floor, cut>>

\* The call returns; where it overlapped no other and the second layer has taken
\* it, what it wrote is the floor.
Finish(p, ok) ==
  /\ Goto(p, "idle", 0)
  /\ calm' = FALSE
  /\ floor' = IF calm /\ ok THEN val[p] ELSE floor

SetL2(p) ==
  /\ pc[p] = "setL2"
  /\ \E ok \in BOOLEAN : RedisSet(val[p], ok) /\ Finish(p, ok)
  /\ UNCHANGED <<absent, db, l1, neg, soft, refreshing, flight, ref, cut>>

\* Delete forgets the soft expiry, the refreshing flag and the negative entry.
Delete(p) ==
  /\ pc[p] = "idle"
  /\ soft' = "none" /\ refreshing' = FALSE /\ neg' = 0
  /\ cut' = (cut \/ \E r \in Refreshers : ref[r].at # "off")
  /\ Goto(p, "delL1", db)
  /\ calm' = Alone(p)
  /\ UNCHANGED <<absent, db, l1, l2, flight, ref, floor>>

DelL1(p) ==
  /\ pc[p] = "delL1"
  /\ RistrettoDelete
  /\ Goto(p, "delL2", val[p])
  /\ UNCHANGED <<absent, db, l2, neg, soft, refreshing, flight, ref, calm, floor, cut>>

\* A Delete of the first layer only.
DelL2_Skips(p) ==
  /\ pc[p] = "delL2"
  /\ Finish(p, TRUE)
  /\ UNCHANGED <<data, refreshing, flight, ref, cut>>

DelL2(p) ==
  /\ pc[p] = "delL2"
  /\ \E ok \in BOOLEAN : RedisDelete(ok) /\ Finish(p, ok)
  /\ UNCHANGED <<absent, db, l1, neg, soft, refreshing, flight, ref, cut>>

Step(p) ==
  \/ GetL1(p) \/ GetL2(p) \/ GetFill(p) \/ DoLoad(p)
  \/ SetL1(p) \/ SetL2(p) \/ DelL1(p) \/ DelL2(p)

(***************************************************************************)
(* External: the row is written; entries expire or are evicted.            *)
(***************************************************************************)
Write ==
  /\ db < MaxVersion
  /\ db' = db + 1
  /\ UNCHANGED <<absent, l1, l2, neg, soft>>

ExpireL1 == l1 # 0 /\ l1' = 0 /\ UNCHANGED <<absent, db, l2, neg, soft>>
ExpireL2 == l2 # 0 /\ l2' = 0 /\ UNCHANGED <<absent, db, l1, neg, soft>>
ExpireNegative == neg # 0 /\ neg' = 0 /\ UNCHANGED <<absent, db, l1, l2, soft>>
ExpireSoft == soft = "fresh" /\ soft' = "stale" /\ UNCHANGED <<absent, db, l1, l2, neg>>

Outside(A) == A /\ UNCHANGED <<refreshing, flight, pc, val, ref, calm, floor, cut>>

Next ==
  \/ \E p \in Readers : Get(p) \/ Cancel(p)
  \/ \E p \in Writers : Set(p) \/ SetTTL(p) \/ Delete(p)
  \/ \E p \in Procs : Step(p)
  \/ FlightStep
  \/ \E r \in Refreshers : RefreshStep(r)
  \/ Outside(Write \/ ExpireL1 \/ ExpireL2 \/ ExpireNegative \/ ExpireSoft)

\* Calls, loads and refreshes make progress, and entries reach their TTL.
Spec ==
  /\ Init /\ [][Next]_vars
  /\ \A p \in Procs : WF_vars(Step(p))
  /\ WF_vars(FlightStep)
  /\ \A r \in Refreshers : WF_vars(RefreshStep(r))
  /\ WF_vars(Outside(ExpireL1)) /\ WF_vars(Outside(ExpireL2)) /\ WF_vars(Outside(ExpireNegative))

-----------------------------------------------------------------------------
\* After a Set or a Delete that overlapped no other call and reached both layers,
\* nothing in the cache, and nothing on its way into it, is older than what was
\* set or deleted.
NothingOlder ==
  \A v \in {l1, l2, neg, flight.v} \cup {val[p] : p \in Procs} \cup {ref[r].v : r \in Refreshers} :
    v # 0 => v >= floor

\* Refreshes of the key run one at a time, as long as no Delete has cleared the
\* flag of one that was running.
OneRefresh ==
  Cardinality({r \in Refreshers : ref[r].at # "off"}) > 1 => cut

\* Once the row is not written any more, the cache holds it or nothing: no stale
\* entry, negative ones included, survives its TTL.
EventuallyFresh == <>[]({l1, l2, neg} \subseteq {0, db})
=============================================================================
