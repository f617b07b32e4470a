-------------------------- MODULE FreshnessProofs --------------------------
(***************************************************************************)
(* Proofs that what is read is not out of date.                            *)
(*                                                                         *)
(* The loading cache, for any callers, refreshes and versions of the row:  *)
(* what an undisturbed Set or Delete leaves is the oldest that is ever in  *)
(* the cache again, and refreshes run one at a time.  The watches of       *)
(* Consul, for any changes: none of them is missed.                        *)
(***************************************************************************)
EXTENDS Cache, ConsulWatch, FiniteSetTheorems, TLAPS

\* What a call, a load and a refresh have in hand at each of their steps.
CallHolds(pos, v) ==
  /\ pos \in {"idle", "getL1", "getL2", "load", "wait"} => v = 0
  /\ pos \in {"fill", "setL1", "setL2"} => v \in Versions \ absent
  /\ pos \in {"delL1", "delL2"} => v \in Versions

FlightHolds(pos, v) ==
  /\ pos \in {"off", "load"} => v = 0
  /\ pos = "neg" => v \in absent
  /\ pos \in {"l1", "l2"} => v \in Versions \ absent

\* TypeOK with that, part by part.
LayersOK ==
  /\ absent \subseteq Versions /\ db \in Versions
  /\ l1 \in (Versions \ absent) \cup {0}
  /\ l2 \in (Versions \ absent) \cup {0}
  /\ neg \in absent \cup {0}
  /\ soft \in {"none", "fresh", "stale"}

Steps == {"idle", "getL1", "getL2", "fill", "load", "wait", "setL1", "setL2", "delL1", "delL2"}

CallsOK ==
  /\ pc \in [Procs -> Steps]
  /\ val \in [Procs -> Versions \cup {0}]
  /\ \A p \in Procs : CallHolds(pc[p], val[p])

FlightOK ==
  /\ flight \in [at : {"off", "load", "neg", "l1", "l2"}, v : Versions \cup {0}]
  /\ FlightHolds(flight.at, flight.v)

RefreshesOK ==
  /\ ref \in [Refreshers -> [at : {"off", "load", "l1", "l2"}, v : Versions \cup {0}]]
  /\ \A r \in Refreshers : FlightHolds(ref[r].at, ref[r].v)

FlagsOK ==
  /\ refreshing \in BOOLEAN /\ calm \in BOOLEAN /\ cut \in BOOLEAN
  /\ floor \in Versions \cup {0}

TypesOK == LayersOK /\ CallsOK /\ FlightOK /\ RefreshesOK /\ FlagsOK

\* A call that overlapped no other so far is still alone in the cache, and has left
\* nothing but its own version in the layers it is done with.
CalmIsAlone ==
  calm => \E p \in Procs :
            /\ Alone(p)
            /\ pc[p] \in {"setL1", "setL2", "delL1", "delL2"}
            /\ neg = 0
            /\ pc[p] = "setL2" => l1 \in {0, val[p]}
            /\ pc[p] = "delL2" => l1 = 0

\* NothingOlder, place by place; and nothing is newer than the row.
Placed(v) == v = 0 \/ (floor <= v /\ v <= db)

PlacesOK ==
  /\ floor <= db
  /\ Placed(l1) /\ Placed(l2) /\ Placed(neg) /\ Placed(flight.v)
  /\ \A p \in Procs : Placed(val[p])
  /\ \A r \in Refreshers : Placed(ref[r].v)

\* Unless a Delete has interfered, the flag is up while a refresh runs, and no two
\* refreshes do.
FlagGuards ==
  ~cut => \A r \in Refreshers : ref[r].at # "off" =>
            refreshing /\ \A x \in Refreshers : ref[x].at # "off" => x = r

CacheInv == TypesOK /\ CalmIsAlone /\ PlacesOK /\ FlagGuards

-----------------------------------------------------------------------------
LEMMA CacheInit == Init => CacheInv
<1> SUFFICES ASSUME Init PROVE CacheInv
  OBVIOUS
<1>1. LayersOK
  BY CacheAssumption DEF Init, LayersOK, Versions
<1>0. FlagsOK
  BY Zenon DEF Init, FlagsOK
<1>2. CallsOK
  BY DEF Init, CallsOK, CallHolds, Steps
<1>3. FlightOK
  BY DEF Init, FlightOK, FlightHolds, Idle
<1>4. RefreshesOK
  BY DEF Init, RefreshesOK, FlightHolds, Idle
<1>5. PlacesOK /\ CalmIsAlone
  BY DEF Init, PlacesOK, Placed, CalmIsAlone, Idle
<1>6. FlagGuards
  BY DEF Init, FlagGuards, Idle
<1> QED BY <1>0, <1>1, <1>2, <1>3, <1>4, <1>5, <1>6 DEF CacheInv, TypesOK

-----------------------------------------------------------------------------
(***************************************************************************)
(* Types.  No action changes absent.                                       *)
(***************************************************************************)
LEMMA CallMoves ==
  ASSUME CallsOK, UNCHANGED absent, NEW p \in Procs, NEW pos \in Steps,
         NEW v \in Versions \cup {0}, Goto(p, pos, v), CallHolds(pos, v)
  PROVE  CallsOK'
  BY DEF CallsOK, CallHolds, Goto

LEMMA LayersMove ==
  ASSUME TypesOK, UNCHANGED absent, Next
  PROVE  LayersOK'
<1> USE DEF TypesOK, LayersOK
<1>1. ASSUME NEW p \in Procs, Get(p) \/ Cancel(p) \/ GetL1(p) \/ GetL2(p) \/ DoLoad(p) \/ SetTTL(p)
      PROVE LayersOK'
  BY <1>1 DEF Get, Cancel, GetL1, GetL2, DoLoad, SetTTL, data
<1>2. ASSUME NEW p \in Procs, Set(p) \/ Delete(p) PROVE LayersOK'
  BY <1>2 DEF Set, Delete
<1>3. ASSUME NEW p \in Procs, GetFill(p) \/ SetL1(p) \/ DelL1(p) PROVE LayersOK'
  BY <1>3 DEF GetFill, SetL1, DelL1, RistrettoSet, RistrettoDelete, CallsOK, CallHolds
<1>4. ASSUME NEW p \in Procs, SetL2(p) \/ DelL2(p) PROVE LayersOK'
  BY <1>4 DEF SetL2, DelL2, RedisSet, RedisDelete, CallsOK, CallHolds
<1>5. ASSUME FlightStep PROVE LayersOK'
  BY <1>5 DEF FlightStep, FlightLoad, FlightLoadFails, FlightNegative, FlightL1, FlightL2,
     RistrettoSet, RedisSet, FlightOK, FlightHolds, data
<1>6. ASSUME NEW r \in Refreshers, RefreshStep(r) PROVE LayersOK'
  BY <1>6 DEF RefreshStep, RefreshFails, RefreshLoad, RefreshL1, RefreshL2,
     RistrettoSet, RedisSet, RefreshesOK, FlightHolds, data
<1>7. ASSUME Outside(Write \/ ExpireL1 \/ ExpireL2 \/ ExpireNegative \/ ExpireSoft)
      PROVE  LayersOK'
  BY <1>7, CacheAssumption
     DEF Outside, Write, ExpireL1, ExpireL2, ExpireNegative, ExpireSoft, Versions
<1> QED BY <1>1, <1>2, <1>3, <1>4, <1>5, <1>6, <1>7 DEF Next, Step, Procs

LEMMA AbsentStays == Next => UNCHANGED absent
  BY Zenon DEF Next, Get, Cancel, Set, SetTTL, Delete, Step, GetL1, GetL2, GetFill, DoLoad, SetL1, SetL2,
     DelL1, DelL2, FlightStep, FlightLoad, FlightLoadFails, FlightNegative, FlightL1, FlightL2,
     RefreshStep, RefreshFails, RefreshLoad, RefreshL1, RefreshL2, Outside, Write, ExpireL1,
     ExpireL2, ExpireNegative, ExpireSoft, data

LEMMA CallsMove ==
  ASSUME TypesOK, UNCHANGED absent, Next
  PROVE  CallsOK'
<1> USE DEF TypesOK
<1>1. ASSUME UNCHANGED <<pc, val>> PROVE CallsOK'
  BY <1>1 DEF CallsOK, CallHolds
<1>2. ASSUME NEW p \in Procs, Get(p) PROVE CallsOK'
  BY <1>1, <1>2, CallMoves DEF Get, Steps, CallHolds
<1>3. ASSUME NEW p \in Procs, Cancel(p) \/ DoLoad(p) PROVE CallsOK'
  BY <1>3, CallMoves DEF Cancel, DoLoad, Steps, CallHolds
<1>4. ASSUME NEW p \in Procs, Set(p) \/ SetTTL(p) \/ Delete(p) PROVE CallsOK'
  BY <1>4, CallMoves DEF Set, SetTTL, Delete, Steps, CallHolds, LayersOK
<1>5. ASSUME NEW p \in Procs, GetL1(p) PROVE CallsOK'
  BY <1>5, CallMoves DEF GetL1, Steps, CallHolds
<1>6. ASSUME NEW p \in Procs, GetL2(p) PROVE CallsOK'
  BY <1>6, CallMoves DEF GetL2, RedisGet, Steps, CallHolds, LayersOK
<1>7. ASSUME NEW p \in Procs, GetFill(p) PROVE CallsOK'
  BY <1>7, CallMoves DEF GetFill, Steps, CallHolds
<1>8. ASSUME NEW p \in Procs, SetL1(p) \/ DelL1(p) PROVE CallsOK'
  BY <1>8, CallMoves DEF SetL1, DelL1, Steps, CallHolds, CallsOK
<1>9. ASSUME NEW p \in Procs, SetL2(p) \/ DelL2(p) PROVE CallsOK'
  BY <1>9, CallMoves DEF SetL2, DelL2, Finish, Steps, CallHolds
<1>10. ASSUME FlightStep PROVE CallsOK'
  <2>1. ASSUME Land PROVE CallsOK'
    BY <2>1 DEF Land, CallsOK, CallHolds, Steps
  <2> QED
    BY <1>1, <1>10, <2>1 DEF FlightStep, FlightLoad, FlightLoadFails, FlightNegative, FlightL1, FlightL2
<1>11. ASSUME NEW r \in Refreshers, RefreshStep(r) PROVE CallsOK'
  BY <1>1, <1>11 DEF RefreshStep, RefreshFails, RefreshLoad, RefreshL1, RefreshL2
<1>12. ASSUME Outside(Write \/ ExpireL1 \/ ExpireL2 \/ ExpireNegative \/ ExpireSoft)
       PROVE  CallsOK'
  BY <1>1, <1>12 DEF Outside
<1> QED
  BY <1>2, <1>3, <1>4, <1>5, <1>6, <1>7, <1>8, <1>9, <1>10, <1>11, <1>12 DEF Next, Step, Procs

LEMMA FlightMoves ==
  ASSUME TypesOK, UNCHANGED absent, Next
  PROVE  FlightOK'
<1> USE DEF TypesOK
<1>1. ASSUME UNCHANGED flight PROVE FlightOK'
  BY <1>1 DEF FlightOK, FlightHolds
<1>2. ASSUME NEW p \in Procs, DoLoad(p) PROVE FlightOK'
  BY <1>2 DEF DoLoad, FlightOK, FlightHolds
<1>3. ASSUME FlightLoad \/ FlightL1 PROVE FlightOK'
  BY <1>3 DEF FlightLoad, FlightL1, FlightOK, FlightHolds, LayersOK
<1>4. ASSUME FlightLoadFails \/ FlightNegative \/ FlightL2 PROVE FlightOK'
  BY <1>4 DEF FlightLoadFails, FlightNegative, FlightL2, Land, Idle, FlightOK, FlightHolds
<1> QED
  BY <1>1, <1>2, <1>3, <1>4, Zenon DEF Next, Get, Cancel, Set, SetTTL, Delete, Step, GetL1, GetL2, GetFill,
     SetL1, SetL2, DelL1, DelL2, FlightStep, RefreshStep, RefreshFails, RefreshLoad, RefreshL1,
     RefreshL2, Outside

LEMMA RefreshesMove ==
  ASSUME TypesOK, UNCHANGED absent, Next
  PROVE  RefreshesOK'
<1> USE DEF TypesOK
<1>1. ASSUME UNCHANGED ref PROVE RefreshesOK'
  BY <1>1, Zenon DEF RefreshesOK, FlightHolds
<1>2. ASSUME Hit PROVE RefreshesOK'
  BY <1>1, <1>2 DEF Hit, RefreshesOK, FlightHolds
<1>3. ASSUME NEW r \in Refreshers, EndRefresh(r) PROVE RefreshesOK'
  BY <1>3 DEF EndRefresh, RefreshesOK, FlightHolds, Idle
<1>4. ASSUME NEW r \in Refreshers, RefreshLoad(r) \/ RefreshL1(r) PROVE RefreshesOK'
  BY <1>4 DEF RefreshLoad, RefreshL1, RefreshesOK, FlightHolds, LayersOK
<1> QED
  BY <1>1, <1>2, <1>3, <1>4, Zenon DEF Next, Get, Cancel, Set, SetTTL, Delete, Step, GetL1, GetL2, GetFill,
     DoLoad, SetL1, SetL2, DelL1, DelL2, FlightStep, FlightLoad, FlightLoadFails, FlightNegative,
     FlightL1, FlightL2, RefreshStep, RefreshFails, RefreshL2, Outside

LEMMA FlagsMove ==
  ASSUME TypesOK, Next
  PROVE  FlagsOK'
<1>1. ASSUME UNCHANGED <<refreshing, calm, cut, floor>> PROVE FlagsOK'
  BY <1>1, Zenon DEF TypesOK, FlagsOK
<1>2. ASSUME Hit, UNCHANGED <<cut, floor>> PROVE FlagsOK'
  BY <1>2, Zenon DEF Hit, TypesOK, FlagsOK
<1>3. ASSUME NEW p \in Procs, Get(p) \/ SetTTL(p) PROVE FlagsOK'
  BY <1>3, Zenon DEF Get, SetTTL, TypesOK, FlagsOK
<1>4. ASSUME NEW p \in Procs, Set(p) PROVE FlagsOK'
  BY <1>4 DEF Set, Alone, TypesOK, FlagsOK
<1>5. ASSUME NEW p \in Procs, Delete(p) PROVE FlagsOK'
  BY <1>5, Zenon DEF Delete, Alone, TypesOK, FlagsOK
<1>6. ASSUME NEW p \in Procs, GetL1(p) PROVE FlagsOK'
  BY <1>1, <1>2, <1>6 DEF GetL1
<1>7. ASSUME NEW p \in Procs, NEW ok \in BOOLEAN, Finish(p, ok), UNCHANGED <<refreshing, cut>>
      PROVE  FlagsOK'
  BY <1>7, Zenon DEF Finish, TypesOK, FlagsOK, CallsOK
<1>8. ASSUME NEW r \in Refreshers, EndRefresh(r), UNCHANGED <<calm, floor>> PROVE FlagsOK'
  BY <1>8, Zenon DEF EndRefresh, TypesOK, FlagsOK
<1> QED
  BY <1>1, <1>2, <1>3, <1>4, <1>5, <1>6, <1>7, <1>8, Zenon DEF Next, Procs, Cancel, Step, GetL2, GetFill,
     DoLoad, SetL1, SetL2, DelL1, DelL2, FlightStep, FlightLoad, FlightLoadFails, FlightNegative,
     FlightL1, FlightL2, RefreshStep, RefreshFails, RefreshLoad, RefreshL1, RefreshL2, Outside

LEMMA TypesMove ==
  ASSUME TypesOK, Next
  PROVE  TypesOK'
  BY AbsentStays, LayersMove, CallsMove, FlightMoves, RefreshesMove, FlagsMove DEF TypesOK

-----------------------------------------------------------------------------
(***************************************************************************)
(* Refreshes.                                                              *)
(***************************************************************************)
LEMMA FlagGuardsMove ==
  ASSUME TypesOK, FlagGuards, Next
  PROVE  FlagGuards'
<1> USE DEF TypesOK, RefreshesOK, FlagsOK
<1>1. ASSUME UNCHANGED <<ref, refreshing, cut>> PROVE FlagGuards'
  BY <1>1, Zenon DEF FlagGuards
<1>2. ASSUME Hit, UNCHANGED cut PROVE FlagGuards'
  <2>1. CASE soft = "stale" /\ ~refreshing
    <3>1. PICK r \in Refreshers : ref[r].at = "off" /\ ref' = [ref EXCEPT ![r].at = "load"]
      BY <1>2, <2>1 DEF Hit
    <3>2. refreshing'
      BY <1>2, <2>1 DEF Hit
    <3>3. \A x \in Refreshers : x # r => ref'[x].at = ref[x].at
      BY <3>1
    <3>4. ~cut => \A x \in Refreshers : ref[x].at = "off"
      BY <2>1 DEF FlagGuards
    <3>5. ~cut => \A x \in Refreshers : ref'[x].at # "off" => x = r
      BY <3>3, <3>4
    <3> QED BY <1>2, <3>2, <3>5 DEF FlagGuards
  <2>2. CASE ~(soft = "stale" /\ ~refreshing)
    BY <1>1, <1>2, <2>2 DEF Hit
  <2> QED BY <2>1, <2>2
<1>3. ASSUME NEW r \in Refreshers, ref[r].at # "off", EndRefresh(r) PROVE FlagGuards'
  <2>1. ref'[r].at = "off" /\ \A x \in Refreshers : x # r => ref'[x] = ref[x]
    BY <1>3 DEF EndRefresh, Idle
  <2>2. ASSUME ~cut', NEW x \in Refreshers PROVE ref'[x].at = "off"
    <3>1. CASE cut
      BY <1>3, <2>1, <2>2, <3>1, Zenon DEF EndRefresh
    <3>2. CASE ~cut
      BY <1>3, <2>1, <3>2 DEF FlagGuards
    <3> QED BY <3>1, <3>2
  <2> QED BY <2>2 DEF FlagGuards
<1>4. ASSUME NEW r \in Refreshers, RefreshLoad(r) \/ RefreshL1(r) PROVE FlagGuards'
  <2>1. ref'[r].at # "off" /\ ref[r].at # "off" /\ \A x \in Refreshers : x # r => ref'[x] = ref[x]
    BY <1>4 DEF RefreshLoad, RefreshL1
  <2> QED BY <1>4, <2>1 DEF RefreshLoad, RefreshL1, FlagGuards
<1>5. ASSUME NEW p \in Procs, Delete(p) PROVE FlagGuards'
  BY <1>5 DEF Delete, FlagGuards
<1>6. ASSUME NEW p \in Procs, GetL1(p) PROVE FlagGuards'
  BY <1>1, <1>2, <1>6 DEF GetL1
<1>7. ASSUME NEW r \in Refreshers, RefreshFails(r) \/ RefreshL2(r) PROVE FlagGuards'
  BY <1>3, <1>7 DEF RefreshFails, RefreshL2
<1> QED
  BY <1>1, <1>2, <1>4, <1>5, <1>6, <1>7, Zenon DEF Next, Procs, Get, Set, SetTTL, Cancel, Step, GetL2,
     GetFill, DoLoad, SetL1, SetL2, DelL1, DelL2, FlightStep, FlightLoad, FlightLoadFails,
     FlightNegative, FlightL1, FlightL2, RefreshStep, Outside

-----------------------------------------------------------------------------
(***************************************************************************)
(* Versions.                                                               *)
(***************************************************************************)
LEMMA HitHoldsNothing ==
  ASSUME TypesOK, Hit
  PROVE  \A r \in Refreshers : ref'[r].v = ref[r].v
  BY DEF Hit, TypesOK, RefreshesOK

\* A call that ends calm is the only one, and what it found elsewhere is nothing.
LEMMA CalmFindsNothing ==
  ASSUME TypesOK, CalmIsAlone, calm, NEW p \in Procs, pc[p] # "idle"
  PROVE  /\ Alone(p)
         /\ neg = 0 /\ flight.v = 0
         /\ \A q \in Procs \ {p} : val[q] = 0
         /\ \A r \in Refreshers : ref[r].v = 0
         /\ pc[p] \in {"setL1", "setL2", "delL1", "delL2"}
         /\ pc[p] = "setL2" => l1 \in {0, val[p]}
         /\ pc[p] = "delL2" => l1 = 0
<1>1. PICK q \in Procs : /\ Alone(q)
                         /\ pc[q] \in {"setL1", "setL2", "delL1", "delL2"}
                         /\ neg = 0
                         /\ pc[q] = "setL2" => l1 \in {0, val[q]}
                         /\ pc[q] = "delL2" => l1 = 0
  BY DEF CalmIsAlone
<1>2. q = p
  BY <1>1 DEF Alone
<1>3. flight.v = 0 /\ \A r \in Refreshers : ref[r].v = 0
  BY <1>1 DEF Alone, TypesOK, FlightOK, RefreshesOK, FlightHolds
<1>4. \A x \in Procs \ {p} : val[x] = 0
  BY <1>1, <1>2 DEF Alone, TypesOK, CallsOK, CallHolds
<1> QED BY <1>1, <1>2, <1>3, <1>4

LEMMA PlacesMove ==
  ASSUME TypesOK, CalmIsAlone, PlacesOK, Next
  PROVE  PlacesOK'
<1> DEFINE Old == {0, db, l1, l2, neg, flight.v} \cup {val[p] : p \in Procs} \cup {ref[r].v : r \in Refreshers}
<1>0. db \in Nat /\ floor \in Nat /\ \A v \in Old : v \in Nat
  BY CacheAssumption DEF TypesOK, LayersOK, CallsOK, FlightOK, RefreshesOK, FlagsOK, Versions
<1>1. \A v \in Old : Placed(v)
  BY <1>0 DEF PlacesOK, Placed
<1>2. ASSUME UNCHANGED floor, db' \in Nat, db <= db',
             l1' \in Old, l2' \in Old, neg' \in Old, flight'.v \in Old,
             \A p \in Procs : val'[p] \in Old, \A r \in Refreshers : ref'[r].v \in Old
      PROVE  PlacesOK'
  <2>1. \A v \in Old : v = 0 \/ (floor' <= v /\ v <= db')
    BY <1>0, <1>1, <1>2 DEF Placed
  <2>2. floor' <= db'
    BY <1>0, <1>2 DEF PlacesOK
  <2> HIDE DEF Old
  <2> QED BY <1>2, <2>1, <2>2 DEF PlacesOK, Placed
<1>a. /\ 0 \in Old /\ db \in Old /\ l1 \in Old /\ l2 \in Old /\ neg \in Old /\ flight.v \in Old
      /\ \A p \in Procs : val[p] \in Old
      /\ \A r \in Refreshers : ref[r].v \in Old
  BY Zenon
<1>b. ASSUME NEW p \in Procs, NEW v \in Old, val' = [val EXCEPT ![p] = v], UNCHANGED <<floor, db>>,
             l1' \in Old, l2' \in Old, neg' \in Old, flight'.v \in Old,
             \A r \in Refreshers : ref'[r].v \in Old
      PROVE  PlacesOK'
  <2> HIDE DEF Old
  <2>1. \A q \in Procs : val'[q] = v \/ val'[q] = val[q]
    BY <1>b DEF TypesOK, CallsOK
  <2>2. \A q \in Procs : val'[q] \in Old
    BY <1>a, <2>1, Zenon
  <2>3. db' \in Nat /\ db <= db'
    BY <1>0, <1>b
  <2> QED
    BY <1>2, <1>b, <2>2, <2>3, Zenon
<1>3. ASSUME NEW p \in Procs, Get(p) \/ Cancel(p) \/ DoLoad(p) \/ GetL2(p) PROVE PlacesOK'
  <2> HIDE DEF Old
  <2>1. UNCHANGED <<floor, db, l1, l2, neg, ref>>
    BY <1>3, Zenon DEF Get, Cancel, DoLoad, GetL2, data
  <2>2. flight'.v \in Old
    <3>1. flight' = flight \/ flight' = [at |-> "load", v |-> 0]
      BY <1>3, Zenon DEF Get, Cancel, DoLoad, GetL2
    <3> QED
      BY <1>a, <3>1
  <2>3. val' = val \/ \E v \in Old : val' = [val EXCEPT ![p] = v]
    <3>1. CASE Get(p) \/ Cancel(p) \/ DoLoad(p)
      BY <1>a, <3>1, Zenon DEF Get, Cancel, DoLoad, Goto
    <3>2. CASE GetL2(p)
      BY <1>a, <3>2, Zenon DEF GetL2, RedisGet, Goto
    <3> QED
      BY <1>3, <3>1, <3>2, Zenon
  <2>4. db' \in Nat /\ db <= db'
    BY <1>0, <2>1
  <2>5. CASE val' = val
    BY <1>a, <1>2, <2>1, <2>2, <2>4, <2>5, Zenon
  <2>6. CASE \E v \in Old : val' = [val EXCEPT ![p] = v]
    BY <1>a, <1>b, <2>1, <2>2, <2>6, Zenon
  <2> QED
    BY <2>3, <2>5, <2>6, Zenon
<1>4. ASSUME NEW p \in Procs, Set(p) \/ SetTTL(p) \/ Delete(p) PROVE PlacesOK'
  <2> HIDE DEF Old
  <2>1. UNCHANGED <<floor, db, l1, l2, flight, ref>> /\ (neg' = 0 \/ neg' = neg)
    BY <1>4, Zenon DEF Set, SetTTL, Delete, data
  <2>2. val' = [val EXCEPT ![p] = db]
    BY <1>4, Zenon DEF Set, SetTTL, Delete, Goto
  <2> QED
    BY <1>a, <1>b, <2>1, <2>2, Zenon
<1>5. ASSUME NEW p \in Procs, GetL1(p) \/ GetFill(p) PROVE PlacesOK'
  <2> HIDE DEF Old
  <2>1. UNCHANGED <<floor, db, l2, neg, flight>> /\ l1' \in {0, l1, val[p]}
    BY <1>5 DEF GetL1, GetFill, RistrettoSet, data
  <2>2. val' = [val EXCEPT ![p] = 0]
    BY <1>5, Zenon DEF GetL1, GetFill, Goto
  <2>3. l1' \in Old
    BY <1>a, <2>1, Zenon
  <2>4. Hit \/ UNCHANGED ref
    BY <1>5, Zenon DEF GetL1, GetFill
  <2>5. \A r \in Refreshers : ref'[r].v = ref[r].v
    BY <2>4, HitHoldsNothing, Zenon
  <2>6. \A r \in Refreshers : ref'[r].v \in Old
    BY <1>a, <2>5, Zenon
  <2> QED
    BY <1>a, <1>b, <2>1, <2>2, <2>3, <2>6, Zenon
<1>7. ASSUME NEW p \in Procs, SetL1(p) \/ DelL1(p) PROVE PlacesOK'
  <2> HIDE DEF Old
  <2>1. UNCHANGED <<floor, db, l2, neg, flight, ref, val>> /\ l1' \in {0, l1, val[p]}
    BY <1>7 DEF SetL1, DelL1, RistrettoSet, RistrettoDelete, Goto, TypesOK, CallsOK
  <2>2. l1' \in Old /\ db' \in Nat /\ db <= db'
    BY <1>0, <1>a, <2>1
  <2> QED
    BY <1>a, <1>2, <2>1, <2>2, Zenon
<1>8. ASSUME NEW p \in Procs, SetL2(p) \/ DelL2(p) PROVE PlacesOK'
  <2>1. PICK ok \in BOOLEAN : /\ Finish(p, ok)
                              /\ l2' \in IF ok THEN {0, val[p]} ELSE {0, l2, val[p]}
    BY <1>8 DEF SetL2, DelL2, RedisSet, RedisDelete
  <2>2. /\ UNCHANGED <<db, l1, neg, flight, ref>>
        /\ val'[p] = 0 /\ \A q \in Procs \ {p} : val'[q] = val[q]
    BY <1>8, <2>1 DEF SetL2, DelL2, Finish, Goto, TypesOK, CallsOK
  <2>3. CASE calm /\ ok
    <3>1. floor' = val[p]
      BY <2>1, <2>3 DEF Finish
    <3>2. /\ neg = 0 /\ flight.v = 0 /\ l1 \in {0, val[p]}
          /\ \A q \in Procs \ {p} : val[q] = 0
          /\ \A r \in Refreshers : ref[r].v = 0
      BY <1>8, <2>3, CalmFindsNothing, Zenon DEF SetL2, DelL2
    <3>3. val[p] \in Nat /\ val[p] <= db
      <4>1. val[p] \in Old
        OBVIOUS
      <4> HIDE DEF Old
      <4> QED BY <1>0, <1>1, <4>1 DEF Placed
    <3> HIDE DEF Old
    <3> QED BY <1>0, <2>1, <2>2, <2>3, <3>1, <3>2, <3>3 DEF PlacesOK, Placed
  <2>4. CASE ~(calm /\ ok)
    <3>1. UNCHANGED floor
      BY <2>1, <2>4 DEF Finish
    <3> QED BY <1>0, <1>2, <2>1, <2>2, <3>1
  <2> QED BY <2>3, <2>4
<1>9. ASSUME FlightStep PROVE PlacesOK'
  BY <1>0, <1>2, <1>9 DEF FlightStep, FlightLoad, FlightLoadFails, FlightNegative, FlightL1, FlightL2,
     Land, Idle, RistrettoSet, RedisSet, data, TypesOK, FlightOK
<1>10. ASSUME NEW r \in Refreshers, RefreshStep(r) PROVE PlacesOK'
  <2>1. \A x \in Refreshers : ref'[x].v \in Old
    BY <1>10 DEF RefreshStep, RefreshFails, RefreshLoad, RefreshL1, RefreshL2, EndRefresh, Idle,
       TypesOK, RefreshesOK
  <2>2. l1' \in Old /\ l2' \in Old
    BY <1>10 DEF RefreshStep, RefreshFails, RefreshLoad, RefreshL1, RefreshL2, RistrettoSet, RedisSet, data
  <2>3. UNCHANGED <<floor, db, neg, flight, val>>
    BY <1>10, Zenon DEF RefreshStep, RefreshFails, RefreshLoad, RefreshL1, RefreshL2, data
  <2>4. db' \in Nat /\ db <= db'
    BY <1>0, <2>3
  <2> HIDE DEF Old
  <2> QED BY <1>a, <1>2, <2>1, <2>2, <2>3, <2>4, Zenon
<1>11. ASSUME Outside(Write \/ ExpireL1 \/ ExpireL2 \/ ExpireNegative \/ ExpireSoft) PROVE PlacesOK'
  BY <1>0, <1>2, <1>11 DEF Outside, Write, ExpireL1, ExpireL2, ExpireNegative, ExpireSoft
<1> HIDE DEF Old
<1> QED
  BY <1>3, <1>4, <1>5, <1>7, <1>8, <1>9, <1>10, <1>11 DEF Next, Procs, Step

\* A call that was alone stays alone until it ends or another one begins.
LEMMA CalmMoves ==
  ASSUME TypesOK, CalmIsAlone, Next
  PROVE  CalmIsAlone'
<1> SUFFICES ASSUME calm' PROVE CalmIsAlone'
  BY Zenon DEF CalmIsAlone
<1> USE DEF TypesOK
<1>1. ASSUME NEW p \in Procs, Set(p) \/ Delete(p) PROVE CalmIsAlone'
  BY <1>1 DEF Set, Delete, Alone, Goto, CalmIsAlone, CallsOK
<1>2. ASSUME NEW p \in Procs, SetL1(p) \/ DelL1(p) PROVE CalmIsAlone'
  <2>1. calm /\ pc[p] # "idle"
    BY <1>2, Zenon DEF SetL1, DelL1
  <2>2. Alone(p) /\ neg = 0
    BY <2>1, CalmFindsNothing
  <2>3. /\ pc'[p] \in {"setL2", "delL2"} /\ val'[p] = val[p]
        /\ pc'[p] = "setL2" => l1' \in {0, val[p]}
        /\ pc'[p] = "delL2" => l1' = 0
        /\ \A q \in Procs \ {p} : pc'[q] = pc[q]
        /\ UNCHANGED <<neg, flight, ref>>
    BY <1>2, Zenon DEF SetL1, DelL1, RistrettoSet, RistrettoDelete, Goto, CallsOK
  <2> QED BY <2>2, <2>3, ZenonT(30) DEF Alone, CalmIsAlone
<1>3. ASSUME calm, UNCHANGED <<flight, pc, val, ref>>, l1' \in {0, l1}, neg' \in {0, neg}
      PROVE  CalmIsAlone'
  BY <1>3 DEF CalmIsAlone, Alone
<1>4. ASSUME NEW p \in Procs, calm, pc[p] \in {"getL1", "getL2", "fill", "load", "wait"} PROVE FALSE
  BY <1>4, CalmFindsNothing, Zenon
<1>5. ASSUME calm, flight.at # "off" PROVE FALSE
  BY <1>5 DEF CalmIsAlone, Alone
<1>6. ASSUME NEW r \in Refreshers, calm, ref[r].at # "off" PROVE FALSE
  BY <1>6 DEF CalmIsAlone, Alone
<1>7. ASSUME NEW p \in Procs, Get(p) \/ Cancel(p) \/ SetTTL(p) PROVE CalmIsAlone'
  BY <1>3, <1>4, <1>7, Zenon DEF Get, Cancel, SetTTL, data
<1>8. ASSUME NEW p \in Procs, GetL1(p) \/ GetL2(p) \/ GetFill(p) \/ DoLoad(p) PROVE CalmIsAlone'
  BY <1>4, <1>8, Zenon DEF GetL1, GetL2, GetFill, DoLoad, Hit
<1>9. ASSUME NEW p \in Procs, SetL2(p) \/ DelL2(p) PROVE FALSE
  BY <1>9, Zenon DEF SetL2, DelL2, Finish
<1>10. ASSUME FlightStep PROVE FALSE
  BY <1>5, <1>10, Zenon DEF FlightStep, FlightLoad, FlightLoadFails, FlightNegative, FlightL1, FlightL2
<1>11. ASSUME NEW r \in Refreshers, RefreshStep(r) PROVE FALSE
  BY <1>6, <1>11, Zenon DEF RefreshStep, RefreshFails, RefreshLoad, RefreshL1, RefreshL2
<1>12. ASSUME Outside(Write \/ ExpireL1 \/ ExpireL2 \/ ExpireNegative \/ ExpireSoft)
       PROVE  CalmIsAlone'
  BY <1>3, <1>12 DEF Outside, Write, ExpireL1, ExpireL2, ExpireNegative, ExpireSoft
<1> QED
  BY <1>1, <1>2, <1>7, <1>8, <1>9, <1>10, <1>11, <1>12 DEF Next, Procs, Step

-----------------------------------------------------------------------------
LEMMA CacheStep == CacheInv /\ [Next]_vars => CacheInv'
<1> SUFFICES ASSUME CacheInv, [Next]_vars PROVE CacheInv'
  OBVIOUS
<1>1. CASE Next
  BY <1>1, TypesMove, CalmMoves, PlacesMove, FlagGuardsMove DEF CacheInv
<1>2. CASE UNCHANGED vars
  <2> USE <1>2 DEF vars, data, CacheInv
  <2>1. TypesOK'
    BY DEF TypesOK, LayersOK, CallsOK, CallHolds, FlightOK, FlightHolds, RefreshesOK, FlagsOK
  <2>2. CalmIsAlone' /\ PlacesOK' /\ FlagGuards'
    BY Zenon DEF CalmIsAlone, Alone, PlacesOK, Placed, FlagGuards
  <2> QED BY <2>1, <2>2
<1> QED BY <1>1, <1>2

LEMMA CacheInvariant == Spec => []CacheInv
  BY CacheInit, CacheStep, PTL DEF Spec

\* The layers hold versions in which there is a row, and the negative entry one in
\* which there is none, whatever the interleaving (loading.go, multilevel.go).
THEOREM CacheTyped == Spec => []TypeOK
<1>1. CacheInv => TypeOK
  BY DEF CacheInv, TypesOK, TypeOK, LayersOK, CallsOK, FlightOK, RefreshesOK, FlagsOK, Steps
<1> QED BY <1>1, CacheInvariant, PTL

\* After a Set or a Delete that overlapped no other call and reached both layers,
\* nothing in the cache or on its way into it is older than what was set or deleted.
THEOREM CacheNothingOlder == Spec => []NothingOlder
<1>1. CacheInv => NothingOlder
  BY CacheAssumption DEF CacheInv, PlacesOK, Placed, NothingOlder, TypesOK, FlagsOK, LayersOK,
     CallsOK, FlightOK, RefreshesOK, Versions
<1> QED BY <1>1, CacheInvariant, PTL

\* triggerBackgroundRefresh: refreshes of the key run one at a time, as long as no
\* Delete has cleared the flag of one that was running.
THEOREM CacheOneRefresh == Spec => []OneRefresh
<1>1. CacheInv => OneRefresh
  <2> SUFFICES ASSUME CacheInv, ~cut
               PROVE  ~(Cardinality({r \in Refreshers : ref[r].at # "off"}) > 1)
    BY DEF OneRefresh
  <2>1. CASE \A r \in Refreshers : ref[r].at = "off"
    <3>1. {r \in Refreshers : ref[r].at # "off"} = {}
      BY <2>1, Zenon
    <3> QED BY <3>1, FS_EmptySet
  <2>2. CASE \E r \in Refreshers : ref[r].at # "off"
    <3>1. PICK r \in Refreshers : ref[r].at # "off"
      BY <2>2
    <3>2. {x \in Refreshers : ref[x].at # "off"} = {r}
      BY <3>1 DEF CacheInv, FlagGuards
    <3>3. Cardinality({r}) = 1
      BY FS_Singleton
    <3> QED BY <3>2, <3>3
  <2> QED BY <2>1, <2>2
<1> QED BY <1>1, CacheInvariant, PTL

-----------------------------------------------------------------------------
(***************************************************************************)
(* The watch of a service in one datacenter, and that of a key.  Both keep *)
(* the index that came with what they delivered last and wait for a larger *)
(* one; KnowsIndex says that an index they have in hand is Consul's only   *)
(* together with what Consul holds.                                        *)
(***************************************************************************)

\* Indexes of a list have a last one among them.
LEMMA LastIndex ==
  ASSUME NEW n \in Nat, NEW S \in SUBSET (1..n), S # {}
  PROVE  \E x \in S : \A y \in S : y <= x
  <1> DEFINE R == OpToRel(<, Nat)
             T == {n - x : x \in S}
  <1>1. T \subseteq Nat /\ T # {}
    <2>1. \A x \in S : n - x \in Nat
      OBVIOUS
    <2> QED
      BY <2>1, Zenon
  <1>2. PICK d \in T : \A e \in T : ~(<<e, d>> \in R)
    <2> HIDE DEF T, R
    <2>1. IsWellFoundedOn(R, Nat)
      BY NatLessThanWellFounded, Zenon DEF R
    <2> QED
      BY <1>1, <2>1, WFMin, Zenon
  <1>3. \A e \in T : ~(e < d)
    <2>1. R = {ss \in Nat \X Nat : ss[1] < ss[2]}
      BY Zenon DEF OpToRel
    <2> HIDE DEF T, R
    <2> QED
      BY <1>1, <1>2, <2>1, Zenon
  <1>4. PICK x \in S : d = n - x
    BY <1>2, Zenon
  <1>5. ASSUME NEW y \in S PROVE y <= x
    <2>1. ~(n - y < n - x)
      BY <1>3, <1>4, Zenon
    <2> QED
      BY <2>1
  <1> QED
    BY <1>5, Zenon

\* The endpoints of a list that no later one with the same scheme replaces.
Lasts(list) ==
  {k \in 1..Len(list) : \A j \in (k + 1)..Len(list) : list[j].scheme # list[k].scheme}

\* buildRegistration keeps one of them for every scheme,
LEMMA LastOf ==
  ASSUME NEW list \in Seq(Endpoints), NEW s \in Schemes(list)
  PROVE  LET at1 == CHOOSE k \in 1..Len(list) :
                     list[k].scheme = s /\ \A j \in (k + 1)..Len(list) : list[j].scheme # s
         IN  at1 \in Lasts(list) /\ list[at1].scheme = s
  <1> DEFINE S == {k \in 1..Len(list) : list[k].scheme = s}
  <1>1. Len(list) \in Nat /\ S \in SUBSET (1..Len(list)) /\ S # {}
    BY DEF Schemes
  <1>2. PICK x \in S : \A y \in S : y <= x
    <2> HIDE DEF S
    <2> QED
      BY <1>1, LastIndex, Zenon
  <1>3. x \in 1..Len(list) /\ list[x].scheme = s
    OBVIOUS
  <1>4. \A j \in (x + 1)..Len(list) : list[j].scheme # s
    <2> SUFFICES ASSUME NEW j \in (x + 1)..Len(list), list[j].scheme = s PROVE FALSE
      BY Zenon
    <2>1. j \in 1..Len(list) /\ ~(j <= x)
      BY <1>1, <1>3
    <2> QED
      BY <1>2, <2>1, Zenon
  <1> QED
    BY <1>3, <1>4, Zenon DEF Lasts

\* and there is only one.
LEMMA OneLast ==
  ASSUME NEW list \in Seq(Endpoints), NEW k \in Lasts(list), NEW l \in Lasts(list),
         list[k].scheme = list[l].scheme
  PROVE  k = l
  <1>1. k \in 1..Len(list) /\ l \in 1..Len(list) /\ Len(list) \in Nat
    BY DEF Lasts
  <1>2. ASSUME NEW x \in Lasts(list), NEW y \in Lasts(list), list[x].scheme = list[y].scheme,
               x \in 1..Len(list), y \in 1..Len(list), x < y
        PROVE  FALSE
    <2>1. y \in (x + 1)..Len(list)
      BY <1>1, <1>2
    <2> QED
      BY <1>2, <2>1, Zenon DEF Lasts
  <1>3. ~(k < l) /\ ~(l < k)
    BY <1>1, <1>2, Zenon
  <1> QED
    BY <1>1, <1>3

\* buildRegistration and grpcEndpointsBuilder: whatever endpoints an instance is
\* registered with, a watcher reads back what they say, and invents none.
THEOREM EndpointsReadBack ==
  ASSUME NEW list \in Seq(Endpoints)
  PROVE  GrpcEndpoints(BuildRegistration(list)) = Expected(list)
  <1> DEFINE asr == BuildRegistration(list)
             final == {list[k] : k \in Lasts(list)}
             own1 == {asr.tagged[s] : s \in DOMAIN asr.tagged \ ReservedSchemes}
             own2 == {e \in final : e.scheme \notin ReservedSchemes}
             kept(s) == CHOOSE k \in 1..Len(list) :
                     list[k].scheme = s /\ \A j \in (k + 1)..Len(list) : list[j].scheme # s
  <1>1. asr.tagged = [s \in Schemes(list) |-> list[kept(s)]]
    BY DEF BuildRegistration
  <1>2. \A s \in Schemes(list) : kept(s) \in Lasts(list) /\ list[kept(s)].scheme = s
    BY LastOf, Zenon
  <1>3. own1 = own2
    <2> HIDE DEF kept, asr
    <2>1. own1 = {list[kept(s)] : s \in Schemes(list) \ ReservedSchemes}
      BY <1>1
    <2>2. ASSUME NEW s \in Schemes(list) \ ReservedSchemes PROVE list[kept(s)] \in own2
      BY <1>2, Zenon
    <2>3. ASSUME NEW k \in Lasts(list), list[k].scheme \notin ReservedSchemes
          PROVE  list[k] \in {list[kept(s)] : s \in Schemes(list) \ ReservedSchemes}
      <3>1. list[k].scheme \in Schemes(list)
        BY Zenon DEF Schemes, Lasts
      <3>2. kept(list[k].scheme) = k
        BY <1>2, <3>1, OneLast, Zenon
      <3> QED
        BY <2>3, <3>1, <3>2, Zenon
    <2> QED
      BY <2>1, <2>2, <2>3, Zenon
  <1>4. list = <<>> => own2 = {} /\ asr.address = "" /\ asr.port = 0
    <2>1. list = <<>> => asr.address = "" /\ asr.port = 0
      BY Zenon DEF BuildRegistration
    <2>2. list = <<>> => Lasts(list) = {}
      BY DEF Lasts
    <2> QED
      BY <2>1, <2>2, Zenon
  <1>5. list # <<>> => asr.address = list[1].host /\ asr.port = list[1].port
    BY DEF BuildRegistration
  <1>6. GrpcEndpoints(asr) = IF own1 = {} /\ asr.address # "" /\ asr.port # 0
                             THEN {[scheme |-> "grpc", host |-> asr.address, port |-> asr.port]}
                             ELSE own1
    BY Zenon DEF GrpcEndpoints
  <1>7. Expected(list) = IF own2 # {} \/ list = <<>> THEN own2
                         ELSE IF list[1].host = "" \/ list[1].port = 0 THEN {}
                         ELSE {[scheme |-> "grpc", host |-> list[1].host, port |-> list[1].port]}
    BY Zenon DEF Expected, Lasts
  <1> HIDE DEF own1, own2, asr
  <1>8. GrpcEndpoints(asr) = Expected(list)
    <2>1. CASE list = <<>>
      BY <1>3, <1>4, <1>6, <1>7, <2>1, Zenon
    <2>2. CASE list # <<>> /\ own2 = {}
      BY <1>3, <1>5, <1>6, <1>7, <2>2, Zenon
    <2>3. CASE own2 # {}
      BY <1>3, <1>6, <1>7, <2>3, Zenon
    <2> QED
      BY <2>1, <2>2, <2>3, Zenon
  <1> QED
    BY <1>8, Zenon DEF asr

-----------------------------------------------------------------------------
\* What Consul can hold.
Storable == {BuildRegistration(list) : list \in Lists} \cup Values

\* The types of the variables of a watch.
WatchTypes ==
  /\ mode \in {"single", "multi", "kv"}
  /\ stage \in {"resolve", "read", "watch", "stopped"}
  /\ index \in [1..Len(Dcs) -> Nat]
  /\ held \in [1..Len(Dcs) -> SUBSET Storable]
  /\ told \in [1..Len(Dcs) -> SUBSET Lists]
  /\ restores \in Nat
  /\ lastIndex \in Int /\ wait \in Int /\ at \in Int

\* The agent holds of an instance what buildRegistration made of its list.
HeldAsTold ==
  mode # "kv" => \A dc \in 1..Len(Dcs) : held[dc] = {BuildRegistration(list) : list \in told[dc]}

\* Where a watch that is not over all datacenters can be in a query.
InQuery ==
  /\ mode = "kv" => at = 0
  /\ mode = "single" => at \in {0, 1, 2} /\ stage # "read" /\ (at # 0 => stage # "stopped")

\* What Consul has for the watch.
News == IF mode = "kv" THEN held[1] ELSE Resolver(1)

\* The indexes a watch remembers are not ahead of Consul's, and go with what it knows.
KnowsIndex ==
  mode # "multi" /\ restores = 0 =>
    /\ lastIndex <= index[1]
    /\ mode = "single" /\ at = 1 => found = {}
    /\ mode = "single" /\ at = 2 => wait <= index[1] /\ (wait = index[1] => found = Resolver(1))
    /\ stage = "watch" /\ lastIndex = index[1] => got = News \/ (mode = "single" /\ held[1] = {})

WatchInv == WatchTypes /\ HeldAsTold /\ InQuery /\ KnowsIndex

\* watchServiceChange of one datacenter and consulKVWatcher.Next: a watch that waits
\* for an index above the one Consul has already knows what Consul holds.  So no
\* change is lost between two queries, whenever it falls.  (An empty list is never
\* broadcast, and an index that went back is not noticed.)
NothingMissed ==
  mode # "multi" /\ stage = "watch" /\ restores = 0 /\ lastIndex = index[1] =>
    got = Current \/ (mode = "single" /\ Current = {})


\* A watch begins with nothing known.
LEMMA WatchStarts == WatchInit => WatchInv
  <1> SUFFICES ASSUME WatchInit PROVE WatchInv
    OBVIOUS
  <1>1. 1 \in 1..Len(Dcs)
    BY WatchAssumption
  <1>2. WatchTypes
    BY DEF WatchInit, WatchTypes
  <1>3. HeldAsTold
    BY DEF WatchInit, HeldAsTold
  <1>4. InQuery
    BY DEF WatchInit, InQuery
  <1>5. KnowsIndex
    BY <1>1 DEF WatchInit, KnowsIndex
  <1> QED
    BY <1>2, <1>3, <1>4, <1>5, Zenon DEF WatchInv

\* What Serve, PutToKV and DeleteFromKV have in common: the index moves on.
LEMMA Changed ==
  ASSUME WatchInv, NEW dc \in 1..Len(Dcs), NEW h \in SUBSET Storable,
         index' = [index EXCEPT ![dc] = @ + 1], held' = [held EXCEPT ![dc] = h],
         told' \in [1..Len(Dcs) -> SUBSET Lists], mode = "multi" \/ dc = 1, HeldAsTold',
         UNCHANGED <<mode, fails, restores, lastIndex, at, wait, found, stage, got>>
  PROVE  WatchInv'
  <1>0. 1 \in 1..Len(Dcs)
    BY WatchAssumption
  <1>1. WatchTypes'
    <2>1. index' \in [1..Len(Dcs) -> Nat]
      BY DEF WatchInv, WatchTypes
    <2>2. held' \in [1..Len(Dcs) -> SUBSET Storable]
      BY DEF WatchInv, WatchTypes
    <2> QED
      BY <2>1, <2>2, Zenon DEF WatchInv, WatchTypes
  <1>2. InQuery'
    BY Zenon DEF WatchInv, InQuery
  <1>3. ASSUME mode # "multi", restores = 0
        PROVE  lastIndex < index'[1] /\ (mode = "single" /\ at = 2 => wait < index'[1])
    <2>1. index'[1] = index[1] + 1 /\ index[1] \in Int /\ lastIndex \in Int /\ wait \in Int
      BY <1>0, <1>3 DEF WatchInv, WatchTypes
    <2>2. lastIndex <= index[1] /\ (mode = "single" /\ at = 2 => wait <= index[1])
      BY <1>3, Zenon DEF WatchInv, KnowsIndex
    <2> QED
      BY <2>1, <2>2
  <1>4. \A x, y \in Int : x < y => x <= y /\ x # y
    OBVIOUS
  <1>5. lastIndex \in Int /\ wait \in Int /\ index'[1] \in Int
    BY <1>0, <1>1 DEF WatchInv, WatchTypes
  <1>6. ASSUME mode # "multi", restores = 0
        PROVE  /\ lastIndex <= index'[1] /\ lastIndex # index'[1]
               /\ mode = "single" /\ at = 2 => wait <= index'[1] /\ wait # index'[1]
    BY <1>3, <1>4, <1>5, <1>6, Zenon
  <1>7. ASSUME mode # "multi", restores = 0 PROVE mode = "single" /\ at = 1 => found = {}
    BY <1>7, Zenon DEF WatchInv, KnowsIndex
  <1>8. KnowsIndex'
    BY <1>6, <1>7, Zenon DEF KnowsIndex
  <1> QED
    BY <1>1, <1>2, <1>8, Zenon DEF WatchInv

\* An instance comes or goes.
LEMMA ServeKeeps ==
  ASSUME WatchInv, NEW dc \in 1..Len(Dcs), Serve(dc)
  PROVE  WatchInv'
  <1>1. mode = "multi" \/ dc = 1
    BY Zenon DEF WatchInv, WatchTypes, Serve
  <1>2. CASE \E list \in Lists : /\ held' = [held EXCEPT ![dc] = {BuildRegistration(list)}]
                                 /\ told' = [told EXCEPT ![dc] = {list}]
    <2>1. PICK list \in Lists : /\ held' = [held EXCEPT ![dc] = {BuildRegistration(list)}]
                                /\ told' = [told EXCEPT ![dc] = {list}]
      BY <1>2, Zenon
    <2>2. {BuildRegistration(list)} \in SUBSET Storable
      BY Zenon DEF Storable
    <2>3. told' \in [1..Len(Dcs) -> SUBSET Lists]
      BY <2>1 DEF WatchInv, WatchTypes
    <2>4. HeldAsTold'
      BY <2>1 DEF Serve, WatchInv, WatchTypes, HeldAsTold
    <2> QED
      BY <1>1, <2>1, <2>2, <2>3, <2>4, Changed, Zenon DEF Serve
  <1>3. CASE held' = [held EXCEPT ![dc] = {}] /\ told' = [told EXCEPT ![dc] = {}]
    <2>1. {} \in SUBSET Storable
      OBVIOUS
    <2>2. told' \in [1..Len(Dcs) -> SUBSET Lists]
      BY <1>3 DEF WatchInv, WatchTypes
    <2>3. HeldAsTold'
      BY <1>3 DEF Serve, WatchInv, WatchTypes, HeldAsTold
    <2> QED
      BY <1>1, <1>3, <2>1, <2>2, <2>3, Changed, Zenon DEF Serve
  <1> QED
    BY <1>2, <1>3, Zenon DEF Serve

\* The key is written or deleted.
LEMMA KeyKeeps ==
  ASSUME WatchInv, PutToKV \/ DeleteFromKV
  PROVE  WatchInv'
  <1>1. 1 \in 1..Len(Dcs)
    BY WatchAssumption
  <1>2. PICK h \in SUBSET Storable : held' = [held EXCEPT ![1] = h]
    <2>1. \A v \in Values : {v} \in SUBSET Storable
      BY Zenon DEF Storable
    <2>2. {} \in SUBSET Storable
      OBVIOUS
    <2> QED
      BY <2>1, <2>2, Zenon DEF PutToKV, DeleteFromKV
  <1>3. told' \in [1..Len(Dcs) -> SUBSET Lists]
    BY Zenon DEF WatchInv, WatchTypes, PutToKV, DeleteFromKV
  <1>4. HeldAsTold'
    BY Zenon DEF PutToKV, DeleteFromKV, HeldAsTold
  <1> QED
    BY <1>1, <1>2, <1>3, <1>4, Changed, Zenon DEF PutToKV, DeleteFromKV

\* Consul stands still.
LEMMA Still ==
  ASSUME WatchInv, UNCHANGED <<mode, storeVars>>
  PROVE  HeldAsTold' /\ (News = News') /\ Resolver(1) = Resolver(1)'
  BY Zenon DEF WatchInv, HeldAsTold, storeVars, News, Resolver

\* The steps of a query.
LEMMA QueryBeginKeeps ==
  ASSUME WatchInv, QueryBegin
  PROVE  WatchInv'
  <1>1. WatchTypes'
    BY DEF WatchInv, WatchTypes, QueryBegin, storeVars
  <1>2. InQuery'
    BY DEF WatchInv, InQuery, QueryBegin
  <1>3. HeldAsTold' /\ News = News'
    BY Still, Zenon DEF QueryBegin
  <1>4. at' # 2
    BY DEF QueryBegin
  <1>5. KnowsIndex'
    BY <1>3, <1>4, Zenon DEF WatchInv, KnowsIndex, QueryBegin, storeVars
  <1> QED
    BY <1>1, <1>2, <1>3, <1>5, Zenon DEF WatchInv

\* The answer has the index and the instances of one moment.
LEMMA QueryDcKeeps ==
  ASSUME WatchInv, QueryDc
  PROVE  WatchInv'
  <1>0. 1 \in 1..Len(Dcs) /\ Asked \subseteq 1..Len(Dcs)
    BY WatchAssumption DEF Asked
  <1>1. WatchTypes'
    BY <1>0 DEF WatchInv, WatchTypes, QueryDc, storeVars
  <1>2. mode = "single" => at = 1
    BY Zenon DEF QueryDc, Asked
  <1>3. mode # "kv"
    BY DEF WatchInv, InQuery, QueryDc, Asked
  <1>4. InQuery'
    BY <1>2, <1>3 DEF WatchInv, InQuery, QueryDc
  <1>5. HeldAsTold' /\ News = News' /\ Resolver(1) = Resolver(1)'
    BY Still, Zenon DEF QueryDc
  <1>6. ASSUME mode = "single" PROVE wait' = index[1] /\ (found = {} => found' = Resolver(1))
    <2>1. at = 1
      BY <1>2, <1>6
    <2>2. wait' = index[at] /\ found' = found \cup Resolver(at)
      BY <1>6, Zenon DEF QueryDc
    <2> QED
      BY <2>1, <2>2, Zenon
  <1>7. index[1] <= index[1]
    BY <1>0 DEF WatchInv, WatchTypes
  <1>8. mode = "single" => at' = 2 /\ at' # 1
    BY <1>2 DEF QueryDc
  <1>9. KnowsIndex'
    BY <1>2, <1>3, <1>5, <1>6, <1>7, <1>8, Zenon DEF WatchInv, WatchTypes, KnowsIndex, QueryDc, storeVars
  <1> QED
    BY <1>1, <1>4, <1>5, <1>9, Zenon DEF WatchInv

\* A failed query leaves everything as it was.
LEMMA QueryFailsKeeps ==
  ASSUME WatchInv, QueryFails
  PROVE  WatchInv'
  <1>1. UNCHANGED <<mode, index, held, told, restores, lastIndex, wait, found, stage, got>> /\ at' = 0
    BY Zenon DEF QueryFails
  <1>2. WatchTypes'
    BY <1>1 DEF WatchInv, WatchTypes
  <1>3. InQuery' /\ HeldAsTold'
    BY <1>1, Zenon DEF WatchInv, InQuery, HeldAsTold
  <1>4. News = News' /\ at' # 1 /\ at' # 2
    BY <1>1 DEF News, Resolver
  <1>5. KnowsIndex'
    BY <1>1, <1>4, Zenon DEF WatchInv, KnowsIndex
  <1> QED
    BY <1>2, <1>3, <1>5, Zenon DEF WatchInv

\* The end of a query: news, unless the index is the last one.
LEMMA QueryEndKeeps ==
  ASSUME WatchInv, QueryEnd
  PROVE  WatchInv'
  <1>1. WatchTypes'
    BY DEF WatchInv, WatchTypes, QueryEnd, storeVars
  <1>2. InQuery'
    BY DEF WatchInv, InQuery, QueryEnd
  <1>3. HeldAsTold' /\ News = News' /\ Resolver(1) = Resolver(1)'
    BY Still, Zenon DEF QueryEnd
  <1>4. mode # "kv" /\ at' # 1 /\ at' # 2
    BY DEF WatchInv, InQuery, QueryEnd
  <1>5. mode # "multi" => mode = "single"
    BY <1>4, Zenon DEF WatchInv, WatchTypes
  <1>6. ASSUME mode = "single", restores = 0
        PROVE  wait <= index[1] /\ (wait = index[1] => got' = Resolver(1) \/ held[1] = {})
    <2>1. at = 2 /\ stage \in {"resolve", "watch"}
      BY <1>6 DEF WatchInv, InQuery, WatchTypes, QueryEnd, Asked
    <2>2. wait <= index[1] /\ (wait = index[1] => found = Resolver(1))
      BY <1>6, <2>1, Zenon DEF WatchInv, KnowsIndex
    <2>3. found = Resolver(1) /\ found = {} => held[1] = {}
      BY Zenon DEF Resolver
    <2>4. CASE found # {} /\ (stage = "resolve" \/ wait # lastIndex)
      BY <2>2, <2>4, Zenon DEF QueryEnd
    <2>5. CASE found = {}
      BY <2>2, <2>3, <2>5, Zenon
    <2>6. CASE stage = "watch" /\ wait = lastIndex /\ found # {}
      <3>1. got' = got
        BY <2>6 DEF QueryEnd
      <3>2. wait = index[1] => got = News \/ held[1] = {}
        BY <1>6, <2>6, Zenon DEF WatchInv, KnowsIndex
      <3>3. News = Resolver(1)
        BY <1>6 DEF News
      <3> QED
        BY <2>2, <3>1, <3>2, <3>3, Zenon
    <2> QED
      BY <2>1, <2>4, <2>5, <2>6, Zenon
  <1>7. mode = "single" => News = Resolver(1)
    BY DEF News
  <1>8. lastIndex' = wait /\ UNCHANGED <<mode, index, held, restores>>
    BY DEF QueryEnd, storeVars
  <1>9. KnowsIndex'
    BY <1>3, <1>4, <1>5, <1>6, <1>7, <1>8, Zenon DEF KnowsIndex
  <1> QED
    BY <1>1, <1>2, <1>3, <1>9, Zenon DEF WatchInv

\* The steps of a watch of a key.
LEMMA GetKVWatcherKeeps ==
  ASSUME WatchInv, GetKVWatcher
  PROVE  WatchInv'
  <1>0. 1 \in 1..Len(Dcs)
    BY WatchAssumption
  <1>1. WatchTypes'
    BY <1>0 DEF WatchInv, WatchTypes, GetKVWatcher, storeVars
  <1>2. InQuery'
    BY DEF WatchInv, InQuery, GetKVWatcher
  <1>3. HeldAsTold'
    BY Still, Zenon DEF GetKVWatcher
  <1>4. lastIndex' <= index[1] /\ stage' # "watch" /\ at = 0 /\ at' = at
    BY <1>0 DEF WatchInv, WatchTypes, InQuery, GetKVWatcher
  <1>5. KnowsIndex'
    BY <1>4 DEF KnowsIndex, GetKVWatcher, storeVars
  <1> QED
    BY <1>1, <1>2, <1>3, <1>5, Zenon DEF WatchInv

\* The value is read after the index, and so may be newer than it, never older.
LEMMA GetFromKVKeeps ==
  ASSUME WatchInv, GetFromKV
  PROVE  WatchInv'
  <1>1. WatchTypes'
    BY DEF WatchInv, WatchTypes, GetFromKV, storeVars
  <1>2. InQuery'
    BY DEF WatchInv, InQuery, GetFromKV
  <1>3. HeldAsTold' /\ News = News'
    BY Still, Zenon DEF GetFromKV
  <1>4. got' = News
    BY Zenon DEF GetFromKV, News
  <1>5. mode = "kv" /\ mode # "single"
    BY DEF GetFromKV
  <1>6. KnowsIndex'
    BY <1>3, <1>4, <1>5, Zenon DEF WatchInv, KnowsIndex, GetFromKV, storeVars
  <1> QED
    BY <1>1, <1>2, <1>3, <1>6, Zenon DEF WatchInv

\* Next returns the value with its index.
LEMMA KvNextKeeps ==
  ASSUME WatchInv, KvNext
  PROVE  WatchInv'
  <1>0. 1 \in 1..Len(Dcs)
    BY WatchAssumption
  <1>1. WatchTypes'
    BY <1>0 DEF WatchInv, WatchTypes, KvNext, storeVars
  <1>2. InQuery'
    BY Zenon DEF WatchInv, InQuery, KvNext
  <1>3. HeldAsTold' /\ News = News'
    BY Still, Zenon DEF KvNext
  <1>4. got' = News
    BY Zenon DEF KvNext, News
  <1>5. mode = "kv" /\ mode # "single" /\ lastIndex' <= index[1]
    BY <1>0 DEF KvNext, WatchInv, WatchTypes
  <1>6. KnowsIndex'
    BY <1>3, <1>4, <1>5, Zenon DEF KnowsIndex, KvNext, storeVars
  <1> QED
    BY <1>1, <1>2, <1>3, <1>6, Zenon DEF WatchInv

\* The end of a watch, and an index that goes back.
LEMMA StopOrRestoreKeeps ==
  ASSUME WatchInv, StopWatch \/ Restore
  PROVE  WatchInv'
  <1>1. CASE StopWatch
    <2>1. WatchTypes'
      BY <1>1 DEF WatchInv, WatchTypes, StopWatch, storeVars
    <2>2. InQuery'
      BY <1>1 DEF WatchInv, InQuery, StopWatch
    <2>3. HeldAsTold'
      BY <1>1, Still, Zenon DEF StopWatch
    <2>4. stage' # "watch" /\ at' # 1 /\ at' # 2
      BY <1>1 DEF StopWatch
    <2>5. KnowsIndex'
      BY <1>1, <2>4, Zenon DEF WatchInv, KnowsIndex, StopWatch, storeVars
    <2> QED
      BY <2>1, <2>2, <2>3, <2>5, Zenon DEF WatchInv
  <1>2. CASE Restore
    <2>1. restores' # 0 /\ restores' \in Nat
      BY <1>2 DEF WatchInv, WatchTypes, Restore
    <2>2. Asked \subseteq 1..Len(Dcs)
      BY WatchAssumption DEF Asked
    <2>3. index' \in [1..Len(Dcs) -> Nat]
      BY <1>2, <2>2 DEF WatchInv, WatchTypes, Restore
    <2>4. WatchTypes'
      BY <1>2, <2>1, <2>3, Zenon DEF WatchInv, WatchTypes, Restore
    <2>5. InQuery' /\ HeldAsTold'
      BY <1>2, Zenon DEF WatchInv, InQuery, HeldAsTold, Restore
    <2>6. KnowsIndex'
      BY <2>1, Zenon DEF KnowsIndex
    <2> QED
      BY <2>4, <2>5, <2>6, Zenon DEF WatchInv
  <1> QED
    BY <1>1, <1>2, Zenon

\* What a watcher should know is what the resolver makes of what Consul holds.
LEMMA CurrentIsNews ==
  ASSUME WatchInv, mode # "multi"
  PROVE  Current = News
  <1>1. CASE mode = "kv"
    BY <1>1, Zenon DEF Current, News
  <1>2. CASE mode # "kv"
    <2>1. 1 \in 1..Len(Dcs) /\ Lists \subseteq Seq(Endpoints)
      BY WatchAssumption
    <2>2. \A list \in told[1] : GrpcEndpoints(BuildRegistration(list)) = Expected(list)
      <3>1. told[1] \in SUBSET Lists
        BY <2>1 DEF WatchInv, WatchTypes
      <3> QED
        BY <2>1, <3>1, EndpointsReadBack, Zenon
    <2>3. held[1] = {BuildRegistration(list) : list \in told[1]}
      BY <1>2, <2>1, Zenon DEF WatchInv, HeldAsTold
    <2>4. Resolver(1) = {[dc |-> 1, endpoints |-> Expected(list)] : list \in told[1]}
      BY <2>2, <2>3, Zenon DEF Resolver
    <2>5. Current = {[dc |-> 1, endpoints |-> Expected(list)] : list \in told[1]}
      BY <1>2, Zenon DEF Current, Asked
    <2> QED
      BY <1>2, <2>4, <2>5, Zenon DEF News
  <1> QED
    BY <1>1, <1>2, Zenon

\* No change of a service or a key is lost on its watch, for any datacenters, lists of
\* endpoints, values, failures and changes.
THEOREM WatchMissesNothing == WatchSpec => []NothingMissed
<1>1. WatchInv /\ [WatchNext]_watchVars => WatchInv'
  <2> SUFFICES ASSUME WatchInv, [WatchNext]_watchVars PROVE WatchInv'
    OBVIOUS
  <2>1. CASE UNCHANGED watchVars
    <3>1. News = News' /\ HeldAsTold' /\ Resolver(1) = Resolver(1)'
      BY <2>1, Still, Zenon DEF watchVars
    <3>2. WatchTypes' /\ InQuery'
      BY <2>1, Zenon DEF WatchInv, WatchTypes, InQuery, watchVars, storeVars
    <3>3. KnowsIndex'
      BY <2>1, <3>1, Zenon DEF WatchInv, KnowsIndex, watchVars, storeVars
    <3> QED
      BY <3>1, <3>2, <3>3, Zenon DEF WatchInv
  <2>2. CASE \E dc \in 1..Len(Dcs) : Serve(dc)
    BY <2>2, ServeKeeps, Zenon
  <2>3. CASE QueryBegin \/ QueryDc \/ QueryEnd \/ QueryFails
    BY <2>3, QueryBeginKeeps, QueryDcKeeps, QueryEndKeeps, QueryFailsKeeps, Zenon
  <2>4. CASE PutToKV \/ DeleteFromKV \/ GetKVWatcher \/ GetFromKV \/ KvNext
    BY <2>4, KeyKeeps, GetKVWatcherKeeps, GetFromKVKeeps, KvNextKeeps, Zenon
  <2>5. CASE StopWatch \/ Restore
    BY <2>5, StopOrRestoreKeeps, Zenon
  <2> QED
    BY <2>1, <2>2, <2>3, <2>4, <2>5, Zenon DEF WatchNext, WatchStep
<1>2. WatchInv => NothingMissed
  <2> SUFFICES ASSUME WatchInv, mode # "multi" PROVE NothingMissed
    BY Zenon DEF NothingMissed
  <2>1. Current = News
    BY CurrentIsNews, Zenon
  <2>2. mode = "single" => News = Resolver(1)
    BY DEF News
  <2>3. held[1] = {} => Resolver(1) = {}
    BY Zenon DEF Resolver
  <2> QED
    BY <2>1, <2>2, <2>3, Zenon DEF WatchInv, KnowsIndex, NothingMissed
<1> QED
  BY WatchStarts, <1>1, <1>2, PTL DEF WatchSpec
=============================================================================
