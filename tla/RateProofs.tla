----------------------------- MODULE RateProofs -----------------------------
(***************************************************************************)
(* Proofs about RateZone, for every limit, window, burst and set of costs: *)
(* its type invariant, the three bounds on what a zone grants, with one    *)
(* inductive invariant for each bound on top of a common one, and the      *)
(* promise of RetryAfter.  At the end, RateRoute: which answer of several  *)
(* zones is the verdict.                                                   *)
(***************************************************************************)
EXTENDS RateZone, RateRoute, FiniteSetTheorems, SequenceTheorems, WellFoundedInduction, TLAPS

Records == [reset : Nat, taken : Nat, times : SUBSET Nat, tat : Nat]

Calls == [pc : {"idle", "add", "take"}, rec : Nat, date : Nat]

Counters ==
  /\ now \in Nat \ {0} /\ anchor \in Nat /\ spent \in Nat /\ odd \in BOOLEAN
  /\ anchor <= now

\* The records are typed and hold no date from the future.
RecordsOK ==
  /\ recs \in Seq(Records)
  /\ \A i \in 1..Len(recs) : recs[i].times \subseteq 1..now

\* A request at work holds a record; a Redis zone has one record and no
\* request of a local zone.
CallsOK ==
  /\ call \in [Requests -> Calls]
  /\ \A p \in Requests : call[p].pc # "idle" => call[p].rec \in 1..Len(recs)
  /\ \A p \in Requests : call[p].rec \in 0..Len(recs)
  /\ table \in 0..Len(recs)
  /\ algo # "local" => /\ Len(recs) = 1
                       /\ \A p \in Requests : call[p].pc = "idle"

\* A request at work was dated at some time up to now.
DatesOK ==
  \A p \in Requests : /\ call[p].date \in 0..now
                      /\ call[p].pc # "idle" => call[p].date \in 1..now

Shape == algo \in Algos /\ Counters /\ RecordsOK /\ CallsOK /\ DatesOK

-----------------------------------------------------------------------------
(* What the limiters return, seen from outside.                            *)

\* Window is a positive number of ticks.
LEMMA WindowPositive == Window \in Nat \ {0}
BY RateAssumption DEF Window

\* token_bucket.lua writes a later arrival time for what it grants, never
\* more than the burst ahead of the clock, and nothing when it refuses.
LEMMA BucketStep ==
  ASSUME NEW s \in Records, NEW when \in Nat, NEW cost \in Nat \ {0}
  PROVE  LET t == TokenBucket(s, when, cost)
         IN /\ t.st \in Records
            /\ t.st.times = s.times
            /\ t.res.allowed \in Nat
            /\ \/ t.res.allowed = 0 /\ t.st = s
               \/ /\ t.res.allowed = cost
                  /\ t.st.tat = MaxOf(s.tat, when) + Emission * cost
                  /\ t.st.tat <= when + Emission * Burst
<1> DEFINE tat == MaxOf(s.tat, when)
           new == tat + Emission * cost
           diff == when - (new - Emission * Burst)
<1>1. tat \in Nat
  BY DEF MaxOf, Records
<1>2. Emission * cost \in Nat /\ Emission * Burst \in Nat
  BY RateAssumption
<1>3. new \in Nat /\ diff \in Int
  BY <1>1, <1>2
<1>4. CASE diff < 0
  BY <1>4 DEF TokenBucket, TokenBucketScript, Applied, Reply, Status
<1>5. CASE ~(diff < 0)
  <2>1. new <= when + Emission * Burst
    BY <1>2, <1>3, <1>5
  <2>2. /\ [s EXCEPT !.tat = new] \in Records
        /\ [s EXCEPT !.tat = new].tat = new
        /\ [s EXCEPT !.tat = new].times = s.times
    BY <1>3 DEF Records
  <2>3. QED
    BY <1>5, <2>1, <2>2, Zenon DEF TokenBucket, TokenBucketScript, Applied, Reply, Status
<1>6. QED
  BY <1>4, <1>5

\* fixed_window.go: a request after the reset opens a new, empty window.
LEMMA OpenStep ==
  ASSUME NEW s \in Records, NEW when \in Nat \ {0}
  PROVE  LET w == OpenWindow(s, when)
         IN /\ w \in Records /\ w.times = s.times
            /\ w.reset = IF s.reset < when THEN when + Window ELSE s.reset
            /\ w.taken = IF s.reset < when THEN 0 ELSE s.taken
<1>1. when + Window \in Nat
  BY WindowPositive
<1>2. CASE s.reset < when
  <2> DEFINE v == [s EXCEPT !.reset = when + Window, !.taken = 0]
  <2>1. OpenWindow(s, when) = v
    BY <1>2 DEF OpenWindow
  <2>2. /\ v \in Records /\ v.times = s.times
        /\ v.reset = when + Window /\ v.taken = 0
    BY <1>1, Zenon DEF Records
  <2> HIDE DEF v
  <2>3. QED
    BY <1>2, <2>1, <2>2
<1>3. CASE ~(s.reset < when)
  BY <1>3 DEF OpenWindow
<1>4. QED
  BY <1>2, <1>3

\* fixed_window.go: a window runs until the clock passes its reset, and what
\* it grants is added to the count, which stays within the limit.
LEMMA LocalStep ==
  ASSUME NEW s \in Records, NEW when \in Nat \ {0}, NEW cost \in Nat \ {0}
  PROVE  LET t == LocalWindow(s, when, cost)
             new == s.reset < when
         IN /\ t.st \in Records
            /\ t.st.times = s.times
            /\ t.res.allowed \in Nat
            /\ t.st.reset = IF new THEN when + Window ELSE s.reset
            /\ t.st.taken = (IF new THEN 0 ELSE s.taken) + t.res.allowed
            /\ s.taken <= Limit => t.st.taken <= Limit
<1> DEFINE w == OpenWindow(s, when)
           tokens == Limit - w.taken
<1>0. Limit \in Nat \ {0}
  BY RateAssumption
<1>1. /\ w \in Records /\ w.times = s.times
      /\ w.reset = IF s.reset < when THEN when + Window ELSE s.reset
      /\ w.taken = IF s.reset < when THEN 0 ELSE s.taken
  BY OpenStep
<1>2. w.taken \in Nat /\ tokens \in Int
  <2>1. s.taken \in Nat
    BY DEF Records
  <2>2. w.taken \in Nat
    BY <1>1, <2>1
  <2>3. QED
    BY <1>0, <2>2
<1>3. CASE tokens < cost
  <2>1. LocalWindow(s, when, cost).st = w /\ LocalWindow(s, when, cost).res.allowed = 0
    BY <1>3 DEF LocalWindow, Status
  <2>2. QED
    BY <1>0, <1>1, <1>2, <2>1 DEF Records
<1>4. CASE ~(tokens < cost)
  <2> DEFINE v == [w EXCEPT !.taken = @ + cost]
  <2>1. LocalWindow(s, when, cost).st = v /\ LocalWindow(s, when, cost).res.allowed = cost
    BY <1>4 DEF LocalWindow, Status
  <2>2. /\ v \in Records /\ v.times = w.times
        /\ v.reset = w.reset /\ v.taken = w.taken + cost
    BY <1>1, <1>2 DEF Records
  <2>3. v.taken <= Limit
    BY <1>0, <1>2, <1>4, <2>2
  <2> HIDE DEF v, w
  <2>4. QED
    BY <1>1, <1>2, <2>1, <2>2, <2>3 DEF Records
<1>5. QED
  BY <1>3, <1>4

\* fixed_window.lua: the same, except that a window ends when its key expires
\* and that refused requests are counted too.
LEMMA FixedStep ==
  ASSUME NEW s \in Records, NEW when \in Nat \ {0}, NEW cost \in Nat \ {0}
  PROVE  LET t == FixedWindow(s, when, cost)
             before == IF when < s.reset THEN s.taken ELSE 0
         IN /\ t.st \in Records
            /\ t.st.times = s.times
            /\ t.res.allowed \in Nat
            /\ t.st.taken = before + cost
            /\ t.st.reset = IF before = 0 THEN when + Window ELSE s.reset
            /\ t.res.allowed = 0 \/ before + t.res.allowed <= Limit
            /\ t.res.allowed <= cost
<1> DEFINE before == IF when < s.reset THEN s.taken ELSE 0
           taken == before + cost
           until == IF taken = cost THEN when + Window ELSE s.reset
           remain == Limit - taken
           allow == IF remain < 0 THEN cost + remain ELSE cost
           t == FixedWindow(s, when, cost)
<1>0. Limit \in Nat \ {0}
  BY RateAssumption
<1>1. before \in Nat /\ s.reset \in Nat
  BY DEF Records
<1> HIDE DEF before
<1>2. /\ taken \in Nat /\ until \in Nat /\ remain \in Int /\ allow \in Int
      /\ allow <= cost
      /\ before + allow <= Limit
      /\ until = IF before = 0 THEN when + Window ELSE s.reset
  BY <1>0, <1>1, WindowPositive
<1>3. /\ t.st = [s EXCEPT !.taken = taken, !.reset = until]
      /\ t.res.allowed = IF allow < 0 THEN 0 ELSE allow
  BY Zenon DEF FixedWindow, FixedWindowScript, Applied, Reply, Status, before
<1> HIDE DEF taken, until, remain, allow, t
<1>4. /\ t.st \in Records /\ t.st.times = s.times
      /\ t.st.taken = taken /\ t.st.reset = until
  BY <1>2, <1>3, Zenon DEF Records
<1>5. /\ t.res.allowed \in Nat /\ t.res.allowed <= cost
      /\ t.res.allowed = 0 \/ before + t.res.allowed <= Limit
  BY <1>0, <1>1, <1>2, <1>3
<1>6. taken = before + cost
  BY DEF taken
<1>7. QED
  BY <1>2, <1>4, <1>5, <1>6 DEF t, before

\* sliding_window.lua: the dates that have left the window are dropped and
\* a granted request adds its own.
LEMMA SlidingStep ==
  ASSUME NEW s \in Records, NEW when \in Nat \ {0}, NEW cost \in Nat \ {0}
  PROVE  LET t == SlidingWindow(s, when, cost)
             live == {u \in s.times : u > when - Window}
         IN /\ t.st \in Records
            /\ \/ t.res.allowed = 0 /\ t.st.times = live
               \/ /\ t.res.allowed = 1 /\ t.st.times = live \cup {when}
                  /\ ~(Limit - Cardinality(live) - 1 < 0)
<1> DEFINE live == {u \in s.times : u > when - Window}
           t == SlidingWindow(s, when, cost)
           remaining == Limit - Cardinality(live) - 1
<1>1. live \in SUBSET Nat /\ live \cup {when} \in SUBSET Nat
  BY DEF Records
<1>2. CASE remaining < 0
  <2>1. t.st = [s EXCEPT !.times = live] /\ t.res.allowed = 0
    BY <1>2 DEF SlidingWindow, SlidingWindowScript, Applied, Reply, Status
  <2> HIDE DEF t, live
  <2>2. t.st \in Records /\ t.st.times = live
    BY <1>1, <2>1 DEF Records
  <2>3. QED
    BY <2>1, <2>2 DEF t, live
<1>3. CASE ~(remaining < 0)
  <2>1. t.st = [s EXCEPT !.times = live \cup {when}] /\ t.res.allowed = 1
    BY <1>3 DEF SlidingWindow, SlidingWindowScript, Applied, Reply, Status
  <2> HIDE DEF t, live
  <2>2. t.st \in Records /\ t.st.times = live \cup {when}
    BY <1>1, <2>1 DEF Records
  <2>3. QED
    BY <1>3, <2>1, <2>2 DEF t, live
<1>4. QED
  BY <1>2, <1>3

\* What all the limiters have in common.
LEMMA TakeStep ==
  ASSUME NEW a \in Algos, NEW s \in Records, NEW when \in Nat \ {0},
         NEW cost \in Nat \ {0}
  PROVE  LET t == Take(a, s, when, cost)
         IN /\ t.st \in Records
            /\ t.st.times \subseteq s.times \cup {when}
            /\ t.res.allowed \in Nat
<1>1. CASE a = "local"
  BY <1>1, LocalStep DEF Take
<1>2. CASE a = "fixed"
  BY <1>2, FixedStep DEF Take
<1>3. CASE a = "sliding"
  <2> DEFINE t == SlidingWindow(s, when, cost)
             live == {u \in s.times : u > when - Window}
  <2>1. /\ t.st \in Records
        /\ \/ t.res.allowed = 0 /\ t.st.times = live
           \/ t.res.allowed = 1 /\ t.st.times = live \cup {when}
    BY SlidingStep, ZenonT(30)
  <2> HIDE DEF t
  <2>2. t.st.times \subseteq s.times \cup {when} /\ t.res.allowed \in Nat
    BY <2>1
  <2>3. QED
    BY <1>3, <2>1, <2>2 DEF Take, t
<1>4. CASE a = "bucket"
  BY <1>4, BucketStep DEF Take
<1>5. QED
  BY <1>1, <1>2, <1>3, <1>4 DEF Algos

-----------------------------------------------------------------------------
(* The common invariant.                                                   *)

\* A zone starts in the shape that Shape describes.
LEMMA ShapeInit == ZoneInit => Shape
<1> SUFFICES ASSUME ZoneInit PROVE Shape
  OBVIOUS
<1>1. NewRecord \in Records /\ NewRecord.times = {}
  BY DEF NewRecord, Records
<1>2. Idle \in Calls /\ Idle.pc = "idle" /\ Idle.rec = 0 /\ Idle.date = 0
  BY DEF Idle, Calls
<1>d. DatesOK
  BY <1>2 DEF ZoneInit, DatesOK
<1>3. Counters
  <2>1. now = 1 /\ anchor = 1 /\ spent = 0
    BY DEF ZoneInit
  <2>2. odd \in BOOLEAN
    BY Zenon DEF ZoneInit
  <2>3. QED
    BY <2>1, <2>2 DEF Counters
<1>4. CASE algo = "local"
  <2>1. recs = <<>> /\ table = 0 /\ call = [p \in Requests |-> Idle]
    BY <1>4 DEF ZoneInit
  <2>2. recs \in Seq(Records) /\ Len(recs) = 0
    BY <2>1
  <2>3. RecordsOK
    BY <2>2 DEF RecordsOK
  <2>4. CallsOK
    BY <1>2, <1>4, <2>1, <2>2 DEF CallsOK
  <2>5. QED
    BY <1>3, <1>d, <2>3, <2>4 DEF ZoneInit, Shape
<1>5. CASE algo # "local"
  <2>1. recs = <<NewRecord>> /\ table = 1 /\ call = [p \in Requests |-> Idle]
    BY <1>5 DEF ZoneInit
  <2>2. recs \in Seq(Records) /\ Len(recs) = 1 /\ recs[1] = NewRecord
    BY <1>1, <2>1
  <2>3. RecordsOK
    BY <1>1, <2>2 DEF RecordsOK
  <2>4. CallsOK
    BY <1>2, <2>1, <2>2 DEF CallsOK
  <2>5. QED
    BY <1>3, <1>d, <2>3, <2>4 DEF ZoneInit, Shape
<1>6. QED
  BY <1>4, <1>5

\* A step that takes from the record i leaves the records well formed.
LEMMA TakeKeeps ==
  ASSUME Shape, NEW i \in 1..Len(recs), NEW when \in 1..now,
         NEW cost \in Costs,
         recs' = [recs EXCEPT ![i] = Take(algo, recs[i], when, cost).st],
         spent' \in {spent, spent + Take(algo, recs[i], when, cost).res.allowed},
         UNCHANGED <<now, anchor>>, odd' \in BOOLEAN
  PROVE  RecordsOK' /\ Counters' /\ Len(recs') = Len(recs)
<1> DEFINE t == Take(algo, recs[i], when, cost)
<1>1. recs[i] \in Records /\ recs[i].times \subseteq 1..now
  BY DEF Shape, RecordsOK
<1>2. now \in Nat \ {0} /\ when \in Nat \ {0} /\ cost \in Nat \ {0} /\ algo \in Algos
  BY RateZoneAssumption DEF Shape, Counters
<1>3. /\ t.st \in Records /\ t.st.times \subseteq recs[i].times \cup {when}
      /\ t.res.allowed \in Nat
  BY <1>1, <1>2, TakeStep
<1> HIDE DEF t
<1>4. recs' = [recs EXCEPT ![i] = t.st] /\ spent' \in {spent, spent + t.res.allowed}
  BY DEF t
<1>5. recs' \in Seq(Records) /\ Len(recs') = Len(recs)
  BY <1>3, <1>4 DEF Shape, RecordsOK
<1>6. \A j \in 1..Len(recs) : recs'[j] = IF j = i THEN t.st ELSE recs[j]
  BY <1>4 DEF Shape, RecordsOK
<1>7. RecordsOK'
  <2>1. t.st.times \subseteq 1..now
    BY <1>1, <1>2, <1>3
  <2>2. QED
    BY <1>5, <1>6, <2>1 DEF Shape, RecordsOK
<1>8. Counters'
  BY <1>3, <1>4 DEF Shape, Counters
<1>9. QED
  BY <1>5, <1>7, <1>8

\* No step of a zone dates a request in the future: a date is the present
\* when it is taken and time only advances.
LEMMA DatesNext == Shape /\ [ZoneNext]_zoneVars => DatesOK'
<1> SUFFICES ASSUME Shape, [ZoneNext]_zoneVars PROVE DatesOK'
  OBVIOUS
<1>1. now \in Nat \ {0} /\ DatesOK /\ call \in [Requests -> Calls]
  BY DEF Shape, Counters, CallsOK
<1>2. CASE UNCHANGED <<call, now>>
  BY <1>1, <1>2 DEF DatesOK
<1>3. CASE UNCHANGED call /\ now' = now + 1
  BY <1>1, <1>3 DEF DatesOK
<1>4. ASSUME NEW p \in Requests, TableGet(p) PROVE DatesOK'
  <2>1. now' = now /\ call'[p].date = now /\ \A q \in Requests \ {p} : call'[q] = call[q]
    BY <1>1, <1>4 DEF TableGet
  <2>2. QED
    BY <1>1, <2>1 DEF DatesOK
<1>5. ASSUME NEW p \in Requests, TableAdd(p) PROVE DatesOK'
  <2>1. /\ now' = now /\ call[p].pc = "add"
        /\ call' = [call EXCEPT ![p] = [call[p] EXCEPT !.pc = "take"]]
    BY <1>5 DEF TableAdd
  <2>2. call'[p].date = call[p].date /\ \A q \in Requests \ {p} : call'[q] = call[q]
    BY <1>1, <2>1 DEF Calls
  <2>3. QED
    BY <1>1, <2>1, <2>2 DEF DatesOK
<1>6. ASSUME NEW p \in Requests, NEW cost \in Costs, RequestAt(p, cost) PROVE DatesOK'
  <2>1. now' = now /\ call'[p] = Idle /\ \A q \in Requests \ {p} : call'[q] = call[q]
    BY <1>1, <1>6 DEF RequestAt
  <2>2. QED
    BY <1>1, <2>1 DEF DatesOK, Idle
<1>7. QED
  BY <1>2, <1>3, <1>4, <1>5, <1>6
  DEF ZoneNext, zoneVars, RunScript, Evict, Tick, Anchor

\* Every step of a zone keeps Shape.
LEMMA ShapeNext == Shape /\ [ZoneNext]_zoneVars => Shape'
<1> SUFFICES ASSUME Shape, [ZoneNext]_zoneVars PROVE Shape'
  OBVIOUS
<1>0. /\ algo \in Algos /\ Counters /\ RecordsOK /\ CallsOK /\ DatesOK
      /\ Len(recs) \in Nat
  BY DEF Shape, RecordsOK
<1>d. DatesOK'
  BY DatesNext
<1>1. CASE \E cost \in Costs : RunScript(cost)
  <2>1. PICK cost \in Costs : RunScript(cost)
    BY <1>1
  <2>2. 1 \in 1..Len(recs)
    <3>1. algo # "local"
      BY <2>1 DEF RunScript
    <3>2. Len(recs) = 1
      BY <1>0, <3>1, Zenon DEF CallsOK
    <3>3. QED
      BY <3>2
  <2>3. RecordsOK' /\ Counters' /\ Len(recs') = Len(recs)
    <3>1. odd' \in BOOLEAN /\ now \in 1..now
      BY <1>0, <2>1 DEF RunScript, Counters
    <3>2. spent' \in {spent, spent + Take(algo, recs[1], now, cost).res.allowed}
      BY <1>0, <2>1 DEF RunScript, Counters
    <3>3. QED
      BY <2>1, <2>2, <3>1, <3>2, TakeKeeps, Zenon DEF RunScript
  <2>4. CallsOK'
    BY <1>0, <2>1, <2>3 DEF RunScript, CallsOK
  <2>5. QED
    BY <1>0, <1>d, <2>1, <2>3, <2>4 DEF RunScript, Shape
<1>2. ASSUME NEW p \in Requests, TableGet(p) PROVE Shape'
  <2>0. /\ algo = "local"
        /\ UNCHANGED <<algo, now, table, anchor, spent, odd>>
    BY <1>2 DEF TableGet
  <2>1. CASE table # 0 /\ recs' = recs /\ call' = [call EXCEPT ![p] = [pc |-> "take", rec |-> table, date |-> now]]
    <3>1. [pc |-> "take", rec |-> table, date |-> now] \in Calls
      BY <1>0 DEF CallsOK, Calls, Counters
    <3>2. CallsOK'
      BY <1>0, <2>0, <2>1, <3>1 DEF CallsOK
    <3>3. QED
      BY <1>0, <1>d, <2>0, <2>1, <3>2 DEF Shape, Counters, RecordsOK
  <2>2. CASE /\ recs' = Append(recs, NewRecord)
             /\ call' = [call EXCEPT ![p] = [pc |-> "add", rec |-> Len(recs) + 1, date |-> now]]
    <3>1. [pc |-> "add", rec |-> Len(recs) + 1, date |-> now] \in Calls
      BY <1>0 DEF Calls, Counters
    <3>2. NewRecord \in Records /\ NewRecord.times = {}
      BY DEF NewRecord, Records
    <3>3. /\ recs' \in Seq(Records) /\ Len(recs') = Len(recs) + 1
          /\ \A i \in 1..Len(recs') : recs'[i] = IF i <= Len(recs) THEN recs[i] ELSE NewRecord
      BY <1>0, <2>2, <3>2 DEF RecordsOK
    <3>4. RecordsOK'
      BY <1>0, <2>0, <3>2, <3>3 DEF RecordsOK
    <3>5. CallsOK'
      BY <1>0, <2>0, <2>2, <3>1, <3>3 DEF CallsOK
    <3>6. QED
      BY <1>0, <1>d, <2>0, <3>4, <3>5 DEF Shape, Counters
  <2>3. QED
    BY <1>2, <2>1, <2>2 DEF TableGet
<1>3. ASSUME NEW p \in Requests, TableAdd(p) PROVE Shape'
  <2>1. /\ call[p].pc = "add" /\ table' = call[p].rec
        /\ odd' = (odd \/ table # 0)
        /\ call' = [call EXCEPT ![p].pc = "take"]
        /\ UNCHANGED <<algo, now, recs, anchor, spent>>
    BY <1>3 DEF TableAdd
  <2>2. call' = [call EXCEPT ![p] = [call[p] EXCEPT !.pc = "take"]]
    BY <2>1
  <2>3. /\ [call[p] EXCEPT !.pc = "take"] \in Calls
        /\ [call[p] EXCEPT !.pc = "take"].rec = call[p].rec
    BY <1>0 DEF CallsOK, Calls
  <2>4. call[p].rec \in 1..Len(recs) /\ algo = "local"
    BY <1>0, <2>1 DEF CallsOK
  <2>5. CallsOK'
    BY <1>0, <2>1, <2>2, <2>3, <2>4 DEF CallsOK
  <2>6. Counters' /\ RecordsOK'
    BY <1>0, <2>1 DEF Counters, RecordsOK
  <2>7. QED
    BY <1>0, <1>d, <2>1, <2>5, <2>6 DEF Shape
<1>4. ASSUME NEW p \in Requests, NEW cost \in Costs, RequestAt(p, cost) PROVE Shape'
  <2>1. /\ call[p].pc = "take" /\ call' = [call EXCEPT ![p] = Idle]
        /\ odd' = (odd \/ call[p].date # now)
        /\ UNCHANGED <<algo, now, table, anchor>>
    BY <1>4, Zenon DEF RequestAt
  <2>2. call[p].rec \in 1..Len(recs) /\ algo = "local"
    BY <1>0, <2>1 DEF CallsOK
  <2>3. RecordsOK' /\ Counters' /\ Len(recs') = Len(recs)
    <3>1. odd' \in BOOLEAN
      BY <2>1, Zenon
    <3>2. call[p].date \in 1..now
      BY <1>0, <2>1 DEF DatesOK
    <3>3. QED
      BY <1>4, <2>1, <2>2, <3>1, <3>2, TakeKeeps, Zenon DEF RequestAt
  <2>4. Idle \in Calls /\ Idle.pc = "idle" /\ Idle.rec = 0
    BY DEF Idle, Calls
  <2>5. CallsOK'
    BY <1>0, <2>1, <2>2, <2>3, <2>4 DEF CallsOK
  <2>6. QED
    BY <1>0, <1>d, <2>1, <2>3, <2>5 DEF Shape
<1>5. CASE Evict
  BY <1>0, <1>d, <1>5 DEF Evict, Shape, Counters, RecordsOK, CallsOK
<1>6. CASE Tick
  <2>1. now' = now + 1 /\ UNCHANGED <<algo, recs, table, call, anchor, spent, odd>>
    BY <1>6 DEF Tick
  <2>2. Counters'
    BY <1>0, <2>1 DEF Counters
  <2>3. RecordsOK'
    <3>1. 1..now \subseteq 1..now'
      BY <1>0, <2>1 DEF Counters
    <3>2. QED
      BY <1>0, <2>1, <3>1 DEF RecordsOK
  <2>4. QED
    BY <1>0, <1>d, <2>1, <2>2, <2>3 DEF Shape, CallsOK
<1>7. CASE Anchor
  BY <1>0, <1>d, <1>7 DEF Anchor, Shape, Counters, RecordsOK, CallsOK
<1>8. CASE UNCHANGED zoneVars
  BY <1>0, <1>d, <1>8 DEF zoneVars, Shape, Counters, RecordsOK, CallsOK
<1>9. QED
  BY <1>1, <1>2, <1>3, <1>4, <1>5, <1>6, <1>7, <1>8 DEF ZoneNext

\* Shape is an invariant of a zone: records, table and requests stay well
\* formed through every script, every local request and every eviction.
THEOREM ZoneShape == ZoneSpec => []Shape
<1>1. ZoneInit => Shape
  BY ShapeInit
<1>2. Shape /\ [ZoneNext]_zoneVars => Shape'
  BY ShapeNext
<1>3. QED
  BY <1>1, <1>2, PTL DEF ZoneSpec

\* The type invariant of a zone holds for all values of the constants.
THEOREM ZoneTypeCorrect == ZoneSpec => []ZoneTypeOK
<1>1. Shape => ZoneTypeOK
  <2> SUFFICES ASSUME Shape PROVE ZoneTypeOK
    OBVIOUS
  <2>1. algo \in Algos /\ Counters /\ RecordsOK /\ CallsOK /\ DatesOK
    BY DEF Shape
  <2>2. \A i \in 1..Len(recs) : recs[i] \in Records
    BY <2>1 DEF RecordsOK
  <2>3. \A p \in Requests : call[p] \in Calls
    BY <2>1 DEF CallsOK
  <2>4. \A i \in 1..Len(recs) :
          recs[i].reset \in Nat /\ recs[i].taken \in Nat /\ recs[i].tat \in Nat
    BY <2>2 DEF Records
  <2>5. \A p \in Requests : /\ call[p].pc \in {"idle", "add", "take"}
                            /\ call[p].rec \in 0..Len(recs)
                            /\ call[p].date \in 0..now
                            /\ call[p].pc # "idle" => call[p].rec > 0
    BY <2>1, <2>3 DEF Calls, CallsOK, DatesOK
  <2>6. now \in Nat /\ anchor \in Nat /\ spent \in Nat /\ odd \in BOOLEAN
    BY <2>1 DEF Counters
  <2>7. table \in 0..Len(recs) /\ \A i \in 1..Len(recs) : recs[i].times \subseteq 1..now
    BY <2>1 DEF CallsOK, RecordsOK
  <2>8. QED
    BY <2>1, <2>4, <2>5, <2>6, <2>7, Zenon DEF ZoneTypeOK
<1>2. QED
  BY <1>1, ZoneShape, PTL

\* A Redis zone has one record.
LEMMA RedisRecord ==
  ASSUME Shape, algo # "local"
  PROVE  recs \in Seq(Records) /\ Len(recs) = 1 /\ recs[1] \in Records
<1>1. recs \in Seq(Records) /\ Len(recs) = 1
  BY DEF Shape, CallsOK, RecordsOK
<1>2. 1 \in 1..Len(recs)
  BY <1>1
<1>3. QED
  BY <1>1, <1>2, ElementOfSeq

-----------------------------------------------------------------------------
(* The token bucket.  The arrival time stays within the burst of the clock *)
(* and runs ahead of the anchor by all that was granted since.             *)

BucketInv ==
  algo = "bucket" =>
    /\ recs[1].tat <= now + Emission * Burst
    /\ spent = 0 \/ anchor + Emission * spent <= recs[1].tat

\* The invariant behind BucketBound holds initially.
LEMMA BucketInit == ZoneInit => BucketInv
<1> SUFFICES ASSUME ZoneInit, algo = "bucket" PROVE BucketInv
  BY DEF BucketInv
<1>1. recs[1].tat = 0 /\ now = 1 /\ spent = 0
  BY DEF ZoneInit, NewRecord
<1>2. Emission * Burst \in Nat
  BY RateAssumption
<1>3. QED
  BY <1>1, <1>2 DEF BucketInv

\* Every step keeps the invariant behind BucketBound.
LEMMA BucketNext == Shape /\ BucketInv /\ [ZoneNext]_zoneVars => BucketInv'
<1> SUFFICES ASSUME Shape, BucketInv, [ZoneNext]_zoneVars, algo' = "bucket"
             PROVE  BucketInv'
  BY Zenon DEF BucketInv
<1>0. Emission \in Nat \ {0} /\ Emission * Burst \in Nat
  BY RateAssumption
<1>1. algo = "bucket"
  BY Zenon DEF ZoneNext, zoneVars, RunScript, TableGet, TableAdd, RequestAt, Evict, Tick, Anchor
<1>2. \A p \in Requests : call[p].pc = "idle"
  BY <1>1 DEF Shape, CallsOK
<1>3. recs \in Seq(Records) /\ Len(recs) = 1 /\ recs[1] \in Records
  BY <1>1, RedisRecord
<1>4. recs[1].tat \in Nat /\ now \in Nat /\ anchor \in Nat /\ spent \in Nat /\ anchor <= now
  BY <1>3 DEF Records, Shape, Counters
<1>5. /\ recs[1].tat <= now + Emission * Burst
      /\ spent = 0 \/ anchor + Emission * spent <= recs[1].tat
  BY <1>1 DEF BucketInv
<1>6. ASSUME NEW cost \in Costs, RunScript(cost) PROVE BucketInv'
  <2> DEFINE t == TokenBucket(recs[1], now, cost)
  <2>1. cost \in Nat \ {0}
    BY RateZoneAssumption
  <2>2. /\ t.res.allowed \in Nat
        /\ \/ t.res.allowed = 0 /\ t.st = recs[1]
           \/ /\ t.res.allowed = cost
              /\ t.st.tat = MaxOf(recs[1].tat, now) + Emission * cost
              /\ t.st.tat <= now + Emission * Burst
    BY <1>3, <1>4, <2>1, BucketStep, Zenon
  <2>3. /\ recs' = [recs EXCEPT ![1] = t.st]
        /\ spent' \in {spent, spent + t.res.allowed}
        /\ UNCHANGED <<now, anchor>>
    BY <1>1, <1>4, <1>6 DEF RunScript, Take
  <2> HIDE DEF t
  <2>4. recs'[1] = t.st
    BY <1>3, <2>3
  <2>5. CASE t.res.allowed = 0 /\ t.st = recs[1]
    <3>1. spent' = spent /\ recs'[1] = recs[1]
      BY <1>4, <2>3, <2>4, <2>5
    <3>2. QED
      BY <1>5, <2>3, <3>1 DEF BucketInv
  <2>6. CASE /\ t.res.allowed = cost
             /\ t.st.tat = MaxOf(recs[1].tat, now) + Emission * cost
             /\ t.st.tat <= now + Emission * Burst
    <3>1. Emission * (spent + cost) = Emission * spent + Emission * cost
      BY <1>0, <1>4, <2>1
    <3>2. Emission * spent \in Nat /\ Emission * cost \in Nat
      BY <1>0, <1>4, <2>1
    <3>3. MaxOf(recs[1].tat, now) \in Nat /\ MaxOf(recs[1].tat, now) >= recs[1].tat
          /\ MaxOf(recs[1].tat, now) >= now
      BY <1>4 DEF MaxOf
    <3>4. anchor + Emission * spent <= MaxOf(recs[1].tat, now)
      <4>1. CASE spent = 0
        BY <1>0, <1>4, <3>3, <4>1
      <4>2. CASE spent # 0
        BY <1>4, <1>5, <3>2, <3>3, <4>2
      <4>3. QED
        BY <4>1, <4>2
    <3>5. anchor + Emission * (spent + cost) <= t.st.tat
      BY <1>4, <2>6, <3>1, <3>2, <3>3, <3>4
    <3>6. anchor + Emission * spent <= t.st.tat
      BY <1>4, <2>6, <3>2, <3>3, <3>4
    <3>7. QED
      BY <2>3, <2>4, <2>6, <3>5, <3>6 DEF BucketInv
  <2>7. QED
    BY <2>2, <2>5, <2>6
<1>7. CASE Tick
  BY <1>0, <1>4, <1>5, <1>7 DEF Tick, BucketInv
<1>8. CASE Anchor
  BY <1>5, <1>8 DEF Anchor, BucketInv
<1>9. CASE UNCHANGED zoneVars
  BY <1>5, <1>9 DEF zoneVars, BucketInv
<1>10. QED
  BY <1>1, <1>2, <1>6, <1>7, <1>8, <1>9, Zenon
     DEF ZoneNext, TableGet, TableAdd, RequestAt, Evict

\* Over any period a token bucket in Redis grants at most its burst plus one
\* token for each emission interval that passed.
THEOREM BucketBounded == ZoneSpec => []BucketBound
<1>1. Shape /\ BucketInv => BucketBound
  <2> SUFFICES ASSUME Shape, BucketInv, algo = "bucket" PROVE BucketBound
    BY DEF BucketBound
  <2>1. Emission \in Nat \ {0} /\ Emission * Burst \in Nat
    BY RateAssumption
  <2>2. now \in Nat /\ anchor \in Nat /\ spent \in Nat /\ anchor <= now
    BY DEF Shape, Counters
  <2>3. recs[1].tat \in Nat
    BY RedisRecord DEF Records
  <2>4. Emission * spent \in Nat
    BY <2>1, <2>2
  <2>5. CASE spent = 0
    BY <2>1, <2>2, <2>5 DEF BucketBound
  <2>6. CASE spent # 0
    BY <2>1, <2>2, <2>3, <2>4, <2>6 DEF BucketInv, BucketBound
  <2>7. QED
    BY <2>5, <2>6
<1>2. QED
  BY <1>1, ZoneShape, BucketInit, BucketNext, PTL DEF ZoneSpec

-----------------------------------------------------------------------------
(* The fixed windows, in Redis and in memory.  A window that was open when *)
(* the count began has granted no more than the limit since; one that      *)
(* opened later can only follow one such window, unless a whole window     *)
(* lies in the period.  A window in memory lasts one tick longer (slack).  *)

Used(r) == IF r.taken <= Limit THEN r.taken ELSE Limit

RecInv(r, slack, time, from, count) ==
  /\ r.reset <= time + Window
  /\ count > 0 => from < r.reset + slack
  /\ IF r.reset - Window <= from THEN count <= Used(r)
     ELSE time - from < Window => count <= Limit + Used(r)

\* What a record has granted of its window is between 0 and the limit.
LEMMA UsedBound == \A r \in Records : Used(r) \in Nat /\ Used(r) <= Limit
BY RateAssumption DEF Used, Records

\* A grant either comes out of the open window or opens the next one.
LEMMA RecStep ==
  ASSUME NEW r \in Records, NEW v \in Records, NEW slack \in {0, 1},
         NEW time \in Nat, NEW from \in Nat, NEW count \in Nat, NEW g \in Nat,
         from <= time, RecInv(r, slack, time, from, count),
         \/ /\ v.reset = r.reset /\ Used(r) + g <= Used(v)
            /\ g = 0 \/ time < r.reset + slack
         \/ /\ r.reset + slack <= time /\ v.reset = time + Window
            /\ g <= Used(v)
  PROVE  RecInv(v, slack, time, from, count + g)
<1>1. Window \in Nat \ {0} /\ Limit \in Nat \ {0}
  BY WindowPositive, RateAssumption
<1>2. Used(r) \in Nat /\ Used(v) \in Nat /\ Used(r) <= Limit /\ Used(v) <= Limit
  BY UsedBound
<1>3. r.reset \in Nat /\ v.reset \in Nat
  BY DEF Records
<1>4. CASE /\ v.reset = r.reset /\ Used(r) + g <= Used(v)
           /\ g = 0 \/ time < r.reset + slack
  BY <1>1, <1>2, <1>3, <1>4 DEF RecInv
<1>5. CASE /\ r.reset + slack <= time /\ v.reset = time + Window
           /\ g <= Used(v)
  BY <1>1, <1>2, <1>3, <1>5 DEF RecInv
<1>6. QED
  BY <1>4, <1>5

\* Time passes, or the count begins anew.
LEMMA RecTime ==
  ASSUME NEW r \in Records, NEW slack \in {0, 1}, NEW time \in Nat,
         NEW from \in Nat, NEW count \in Nat, from <= time,
         RecInv(r, slack, time, from, count)
  PROVE  /\ RecInv(r, slack, time + 1, from, count)
         /\ RecInv(r, slack, time, time, 0)
<1>1. Window \in Nat \ {0} /\ Limit \in Nat \ {0}
  BY WindowPositive, RateAssumption
<1>2. Used(r) \in Nat
  BY UsedBound
<1>3. r.reset \in Nat
  BY DEF Records
<1>4. QED
  BY <1>1, <1>2, <1>3 DEF RecInv

FixedInv ==
  algo = "fixed" =>
    /\ RecInv(recs[1], 0, now, anchor, spent)
    /\ recs[1].taken = 0 => recs[1].reset = 0

\* The invariant behind WindowBound, for fixed_window.lua, holds initially.
LEMMA FixedInit == ZoneInit => FixedInv
<1> SUFFICES ASSUME ZoneInit, algo = "fixed" PROVE FixedInv
  BY DEF FixedInv
<1>1. /\ recs[1].reset = 0 /\ recs[1].taken = 0 /\ now = 1 /\ anchor = 1
      /\ spent = 0
  BY DEF ZoneInit, NewRecord
<1>2. QED
  BY <1>1, WindowPositive, RateAssumption DEF FixedInv, RecInv, Used

\* Every step keeps the invariant of fixed_window.lua.
LEMMA FixedNext == Shape /\ FixedInv /\ [ZoneNext]_zoneVars => FixedInv'
<1> SUFFICES ASSUME Shape, FixedInv, [ZoneNext]_zoneVars, algo' = "fixed"
             PROVE  FixedInv'
  BY Zenon DEF FixedInv
<1>1. algo = "fixed"
  BY Zenon DEF ZoneNext, zoneVars, RunScript, TableGet, TableAdd, RequestAt, Evict, Tick, Anchor
<1>2. \A p \in Requests : call[p].pc = "idle"
  BY <1>1 DEF Shape, CallsOK
<1>3. recs \in Seq(Records) /\ Len(recs) = 1 /\ recs[1] \in Records
  BY <1>1, RedisRecord
<1>4. now \in Nat \ {0} /\ anchor \in Nat /\ spent \in Nat /\ anchor <= now
  BY DEF Shape, Counters
<1>5. /\ RecInv(recs[1], 0, now, anchor, spent)
      /\ recs[1].taken = 0 => recs[1].reset = 0
  BY <1>1 DEF FixedInv
<1>6. ASSUME NEW cost \in Costs, RunScript(cost) PROVE FixedInv'
  <2> DEFINE t == FixedWindow(recs[1], now, cost)
             before == IF now < recs[1].reset THEN recs[1].taken ELSE 0
  <2>0. PICK g \in {0, t.res.allowed} : spent' = spent + g
    BY <1>1, <1>6 DEF RunScript, Take
  <2>1. cost \in Nat \ {0} /\ Limit \in Nat \ {0} /\ Window \in Nat \ {0}
    BY RateZoneAssumption, RateAssumption, WindowPositive
  <2>2. /\ t.st \in Records /\ g \in Nat
        /\ t.st.taken = before + cost
        /\ t.st.reset = IF before = 0 THEN now + Window ELSE recs[1].reset
        /\ g = 0 \/ before + g <= Limit
        /\ g <= cost
    <3> DEFINE a == t.res.allowed
    <3>1. /\ t.st \in Records /\ a \in Nat
          /\ t.st.taken = before + cost
          /\ t.st.reset = IF before = 0 THEN now + Window ELSE recs[1].reset
          /\ a = 0 \/ before + a <= Limit
          /\ a <= cost
      BY <1>3, <1>4, <2>1, FixedStep, ZenonT(30)
    <3>2. g = 0 \/ g = a
      BY <2>0
    <3> HIDE DEF a, t, before
    <3>3. QED
      BY <2>1, <3>1, <3>2
  <2>3. /\ recs' = [recs EXCEPT ![1] = t.st] /\ spent' = spent + g
        /\ UNCHANGED <<now, anchor>>
    BY <1>1, <1>6, <2>0 DEF RunScript, Take
  <2>4. recs[1].taken \in Nat /\ recs[1].reset \in Nat
    BY <1>3 DEF Records
  <2> HIDE DEF t
  <2>5. recs'[1] = t.st
    BY <1>3, <2>3
  <2>6. RecInv(t.st, 0, now, anchor, spent + g)
    <3>1. CASE before = 0
      <4>1. recs[1].reset + 0 <= now
        BY <1>4, <1>5, <2>4, <3>1
      <4>2. g <= Used(t.st) /\ t.st.reset = now + Window
        BY <2>1, <2>2, <3>1 DEF Used
      <4>3. QED
        BY <1>3, <1>4, <1>5, <2>2, <4>1, <4>2, RecStep, Zenon
    <3>2. CASE before # 0
      <4>1. before = recs[1].taken /\ now < recs[1].reset + 0
        BY <2>4, <3>2
      <4>2. t.st.reset = recs[1].reset /\ Used(recs[1]) + g <= Used(t.st)
        BY <2>1, <2>2, <2>4, <3>2, <4>1 DEF Used
      <4>3. QED
        BY <1>3, <1>4, <1>5, <2>2, <4>1, <4>2, RecStep, Zenon
    <3>3. QED
      BY <3>1, <3>2
  <2>7. t.st.taken # 0
    BY <2>1, <2>2, <2>4
  <2>8. QED
    BY <2>3, <2>5, <2>6, <2>7 DEF FixedInv
<1>7. CASE Tick
  BY <1>3, <1>4, <1>5, <1>7, RecTime, Zenon DEF Tick, FixedInv
<1>8. CASE Anchor
  BY <1>3, <1>4, <1>5, <1>8, RecTime, Zenon DEF Anchor, FixedInv
<1>9. CASE UNCHANGED zoneVars
  BY <1>5, <1>9, Zenon DEF zoneVars, FixedInv
<1>10. QED
  BY <1>1, <1>2, <1>6, <1>7, <1>8, <1>9, Zenon
     DEF ZoneNext, TableGet, TableAdd, RequestAt, Evict

\* While no record was lost, everybody takes from the record of the table and
\* the records about to be added are new and nobody else's.
LocalInv ==
  algo = "local" /\ ~odd =>
    /\ table = 0 => spent = 0
    /\ table # 0 => /\ RecInv(recs[table], 1, now, anchor, spent)
                    /\ recs[table].taken <= Limit
    /\ \A p \in Requests : call[p].pc = "take" => call[p].rec = table
    /\ \A p \in Requests : call[p].pc = "add" =>
         recs[call[p].rec] = NewRecord /\ call[p].rec # table
    /\ \A p, q \in Requests :
         p # q /\ call[p].pc = "add" /\ call[q].pc = "add" => call[p].rec # call[q].rec

\* The invariant behind WindowBound, for the local window, holds initially.
LEMMA LocalInit == ZoneInit => LocalInv
BY DEF ZoneInit, LocalInv, Idle

\* What follows the elements of a sequence that grows.
LEMMA Appended ==
  ASSUME NEW S, NEW s \in Seq(S), NEW e
  PROVE  /\ \A i \in 1..Len(s) : Append(s, e)[i] = s[i]
         /\ Append(s, e)[Len(s) + 1] = e
OBVIOUS

\* Every step keeps the invariant of the local window.
LEMMA LocalNext == Shape /\ LocalInv /\ [ZoneNext]_zoneVars => LocalInv'
<1> SUFFICES ASSUME Shape, LocalInv, [ZoneNext]_zoneVars, algo' = "local", ~odd'
             PROVE  LocalInv'
  BY Zenon DEF LocalInv
<1>1. algo = "local" /\ ~odd
  <2>1. odd \in BOOLEAN
    BY DEF Shape, Counters
  <2>2. algo' = algo
    BY Zenon DEF ZoneNext, zoneVars, RunScript, TableGet, TableAdd, RequestAt, Evict, Tick, Anchor
  <2>3. odd => odd'
    BY Zenon DEF ZoneNext, zoneVars, RunScript, TableGet, TableAdd, RequestAt, Evict, Tick, Anchor
  <2>4. QED
    BY <2>1, <2>2, <2>3, Zenon
<1>2. /\ table = 0 => spent = 0
      /\ table # 0 => /\ RecInv(recs[table], 1, now, anchor, spent)
                      /\ recs[table].taken <= Limit
      /\ \A p \in Requests : call[p].pc = "take" => call[p].rec = table
      /\ \A p \in Requests : call[p].pc = "add" =>
           recs[call[p].rec] = NewRecord /\ call[p].rec # table
      /\ \A p, q \in Requests :
           p # q /\ call[p].pc = "add" /\ call[q].pc = "add" => call[p].rec # call[q].rec
  BY <1>1, Zenon DEF LocalInv
<1>3. now \in Nat \ {0} /\ anchor \in Nat /\ spent \in Nat /\ anchor <= now
  BY DEF Shape, Counters
<1>4. /\ recs \in Seq(Records) /\ Len(recs) \in Nat /\ table \in 0..Len(recs)
      /\ call \in [Requests -> Calls]
      /\ \A p \in Requests : call[p].pc # "idle" => call[p].rec \in 1..Len(recs)
  <2>1. recs \in Seq(Records)
    BY DEF Shape, RecordsOK
  <2>2. Len(recs) \in Nat
    BY <2>1
  <2>3. QED
    BY <2>1, <2>2, Zenon DEF Shape, CallsOK
<1>5. table # 0 => recs[table] \in Records
  BY <1>4, ElementOfSeq
<1>6. ASSUME NEW p \in Requests, TableGet(p) PROVE LocalInv'
  <2>0. UNCHANGED <<algo, now, table, anchor, spent, odd>> /\ call[p].pc = "idle"
    BY <1>6, Zenon DEF TableGet
  <2>1. CASE table # 0 /\ recs' = recs /\ call' = [call EXCEPT ![p] = [pc |-> "take", rec |-> table, date |-> now]]
    BY <1>2, <1>4, <2>0, <2>1, Zenon DEF LocalInv
  <2>2. CASE /\ table = 0 /\ recs' = Append(recs, NewRecord)
             /\ call' = [call EXCEPT ![p] = [pc |-> "add", rec |-> Len(recs) + 1, date |-> now]]
    <3>1. /\ \A i \in 1..Len(recs) : recs'[i] = recs[i]
          /\ recs'[Len(recs) + 1] = NewRecord
      BY <1>4, <2>2, Appended, Zenon
    <3>2. \A q \in Requests \ {p} : call'[q] = call[q]
      BY <1>4, <2>2
    <3>3. call'[p].pc = "add" /\ call'[p].rec = Len(recs) + 1
      BY <1>4, <2>2
    <3>4. \A q \in Requests \ {p} : call[q].pc = "add" => call[q].rec \in 1..Len(recs)
      BY <1>4
    <3>5. \A q \in Requests : call'[q].pc = "take" => call'[q].rec = table'
      BY <1>2, <2>0, <3>2, <3>3, Zenon
    <3>6. \A q \in Requests : call'[q].pc = "add" =>
            recs'[call'[q].rec] = NewRecord /\ call'[q].rec # table'
      <4>1. Len(recs) + 1 # table
        BY <1>4, <2>2
      <4>2. recs'[call'[p].rec] = NewRecord /\ call'[p].rec # table'
        BY <2>0, <3>1, <3>3, <4>1, Zenon
      <4>3. ASSUME NEW q \in Requests, q # p, call'[q].pc = "add"
            PROVE  recs'[call'[q].rec] = NewRecord /\ call'[q].rec # table'
        <5>1. call'[q] = call[q] /\ call[q].rec \in 1..Len(recs)
          BY <3>2, <3>4, <4>3, Zenon
        <5>2. recs[call[q].rec] = NewRecord /\ call[q].rec # table
          BY <1>2, <4>3, <5>1, Zenon
        <5>3. recs'[call[q].rec] = recs[call[q].rec]
          BY <3>1, <5>1, Zenon
        <5>4. QED
          BY <2>0, <5>1, <5>2, <5>3, Zenon
      <4>4. QED
        BY <4>2, <4>3, Zenon
    <3>7. \A q, r \in Requests :
            q # r /\ call'[q].pc = "add" /\ call'[r].pc = "add" => call'[q].rec # call'[r].rec
      <4>1. Len(recs) + 1 \notin 1..Len(recs)
        BY <1>4
      <4>2. ASSUME NEW q \in Requests, q # p, call'[q].pc = "add"
            PROVE  call'[q] = call[q] /\ call[q].rec # Len(recs) + 1
        BY <3>2, <3>4, <4>1, <4>2, Zenon
      <4>3. ASSUME NEW q \in Requests, NEW r \in Requests, q # r, q # p, r # p,
                   call'[q].pc = "add", call'[r].pc = "add"
            PROVE  call'[q].rec # call'[r].rec
        BY <1>2, <4>2, <4>3, ZenonT(30)
      <4>4. QED
        BY <3>3, <4>2, <4>3, ZenonT(30)
    <3>8. QED
      BY <1>2, <2>0, <2>2, <3>5, <3>6, <3>7, Zenon DEF LocalInv
  <2>3. QED
    BY <1>6, <2>1, <2>2 DEF TableGet
<1>7. ASSUME NEW p \in Requests, TableAdd(p) PROVE LocalInv'
  <2>1. /\ call[p].pc = "add" /\ table' = call[p].rec /\ table = 0
        /\ call' = [call EXCEPT ![p] = [call[p] EXCEPT !.pc = "take"]]
        /\ UNCHANGED <<algo, now, recs, anchor, spent>>
    BY <1>7, Zenon DEF TableAdd
  <2>2. [call[p] EXCEPT !.pc = "take"].pc = "take" /\ [call[p] EXCEPT !.pc = "take"].rec = call[p].rec
    BY <1>4 DEF Calls
  <2>3. /\ call'[p].pc = "take" /\ call'[p].rec = call[p].rec
        /\ \A q \in Requests \ {p} : call'[q] = call[q]
    BY <1>4, <2>1, <2>2
  <2>4. spent' = 0 /\ recs'[table'] = NewRecord /\ table' # 0
    BY <1>2, <1>4, <2>1
  <2>5. RecInv(NewRecord, 1, now, anchor, 0) /\ NewRecord.taken <= Limit
    BY <1>3, RateAssumption, WindowPositive DEF RecInv, Used, NewRecord
  <2>6. \A q \in Requests \ {p} : call[q].pc # "take"
    BY <1>2, <1>4, <2>1
  <2>7. \A q \in Requests : call'[q].pc = "take" => call'[q].rec = table'
    BY <2>1, <2>3, <2>6
  <2>8. \A q \in Requests : call'[q].pc = "add" =>
          recs'[call'[q].rec] = NewRecord /\ call'[q].rec # table'
    BY <1>2, <2>1, <2>3
  <2>9. \A q, r \in Requests :
          q # r /\ call'[q].pc = "add" /\ call'[r].pc = "add" => call'[q].rec # call'[r].rec
    <3>1. ASSUME NEW q \in Requests, call'[q].pc = "add" PROVE call'[q] = call[q]
      BY <2>3, <3>1, Zenon
    <3>2. QED
      BY <1>2, <3>1, Zenon
  <2>10. QED
    BY <2>1, <2>4, <2>5, <2>7, <2>8, <2>9, Zenon DEF LocalInv
<1>8. ASSUME NEW p \in Requests, NEW cost \in Costs, RequestAt(p, cost) PROVE LocalInv'
  <2> DEFINE t == LocalWindow(recs[table], now, cost)
             g == t.res.allowed
             r == recs[table]
  <2>1. call[p].rec = table /\ table \in 1..Len(recs)
    BY <1>2, <1>4, <1>8, Zenon DEF RequestAt
  <2>2. cost \in Nat \ {0} /\ Limit \in Nat \ {0} /\ Window \in Nat \ {0}
    BY RateZoneAssumption, RateAssumption, WindowPositive
  <2>3. r \in Records /\ r.taken \in Nat /\ r.reset \in Nat
    BY <1>5, <2>1 DEF Records
  <2>4. /\ t.st \in Records /\ g \in Nat
        /\ t.st.reset = IF r.reset < now THEN now + Window ELSE r.reset
        /\ t.st.taken = (IF r.reset < now THEN 0 ELSE r.taken) + g
        /\ r.taken <= Limit => t.st.taken <= Limit
    BY <1>3, <2>2, <2>3, LocalStep, ZenonT(60)
  <2>5. /\ recs' = [recs EXCEPT ![table] = t.st] /\ spent' = spent + g
        /\ call' = [call EXCEPT ![p] = Idle]
        /\ UNCHANGED <<algo, now, table, anchor, odd>>
    <3>1. call[p].date = now /\ odd' = odd
      BY <1>1, <1>8, Zenon DEF RequestAt, Shape, Counters
    <3>2. QED
      BY <1>1, <1>8, <2>1, <3>1, Zenon DEF RequestAt, Take
  <2> HIDE DEF t, g, r
  <2>6. RecInv(r, 1, now, anchor, spent) /\ r.taken <= Limit
    <3>1. Len(recs) \in Nat /\ table # 0
      BY <1>4, <2>1
    <3>2. QED
      BY <1>2, <3>1, Zenon DEF r
  <2>7. RecInv(t.st, 1, now, anchor, spent + g)
    <3>1. CASE r.reset < now
      <4>1. r.reset + 1 <= now
        BY <1>3, <2>3, <3>1
      <4>2. g <= Used(t.st) /\ t.st.reset = now + Window
        BY <2>2, <2>4, <2>6, <3>1 DEF Used
      <4>3. QED
        BY <1>3, <2>3, <2>4, <2>6, <4>1, <4>2, RecStep, Zenon
    <3>2. CASE ~(r.reset < now)
      <4>1. now < r.reset + 1
        BY <1>3, <2>3, <3>2
      <4>2. t.st.reset = r.reset /\ Used(r) + g <= Used(t.st)
        BY <2>2, <2>3, <2>4, <2>6, <3>2 DEF Used
      <4>3. QED
        BY <1>3, <2>3, <2>4, <2>6, <4>1, <4>2, RecStep, Zenon
    <3>3. QED
      BY <3>1, <3>2
  <2>8. /\ recs'[table] = t.st
        /\ \A i \in 1..Len(recs) : i # table => recs'[i] = recs[i]
    BY <1>4, <2>1, <2>5
  <2>9. Idle.pc = "idle" /\ \A q \in Requests : call'[q] = IF q = p THEN Idle ELSE call[q]
    BY <1>4, <2>5, Zenon DEF Idle
  <2>10. \A q \in Requests : call'[q].pc = "add" =>
          recs'[call'[q].rec] = NewRecord /\ call'[q].rec # table
    <3>1. \A q \in Requests : call[q].pc = "add" => call[q].rec \in 1..Len(recs)
      BY <1>4
    <3>2. ASSUME NEW q \in Requests, call'[q].pc = "add"
          PROVE  recs'[call'[q].rec] = NewRecord /\ call'[q].rec # table
      <4>1. call'[q] = call[q] /\ call[q].pc = "add"
        <5>1. CASE q = p
          BY <2>9, <3>2, <5>1, Zenon
        <5>2. CASE q # p
          BY <2>9, <3>2, <5>2, Zenon
        <5>3. QED
          BY <5>1, <5>2, Zenon
      <4>2. recs[call[q].rec] = NewRecord /\ call[q].rec # table /\ call[q].rec \in 1..Len(recs)
        BY <1>2, <3>1, <4>1, Zenon
      <4>3. recs'[call[q].rec] = recs[call[q].rec]
        BY <2>8, <4>2, Zenon
      <4>4. QED
        BY <4>1, <4>2, <4>3, Zenon
    <3>3. QED
      BY <3>2, Zenon
  <2>11. QED
    <3>1. table # 0
      BY <1>4, <2>1
    <3>2. /\ RecInv(recs'[table], 1, now, anchor, spent')
          /\ recs'[table].taken <= Limit
      BY <2>4, <2>5, <2>6, <2>7, <2>8, Zenon
    <3>3. \A q \in Requests : call'[q].pc = "take" => call'[q].rec = table
      BY <1>2, <2>9, Zenon
    <3>4. \A q, o \in Requests :
            q # o /\ call'[q].pc = "add" /\ call'[o].pc = "add" => call'[q].rec # call'[o].rec
      BY <1>2, <2>9
    <3>5. QED
      BY <2>5, <2>10, <3>1, <3>2, <3>3, <3>4, Zenon DEF LocalInv
<1>9. CASE Tick
  BY <1>2, <1>3, <1>5, <1>9, RecTime, Zenon DEF Tick, LocalInv
<1>10. CASE Anchor
  BY <1>2, <1>3, <1>5, <1>10, RecTime, Zenon DEF Anchor, LocalInv
<1>11. CASE UNCHANGED zoneVars
  BY <1>2, <1>11, Zenon DEF zoneVars, LocalInv
<1>12. QED
  BY <1>1, <1>6, <1>7, <1>8, <1>9, <1>10, <1>11, Zenon DEF ZoneNext, RunScript, Evict

\* In any period shorter than a window, a fixed window grants at most twice
\* the limit; in memory, as long as the record of the key is not lost.
THEOREM WindowBounded == ZoneSpec => []WindowBound
<1>1. Shape /\ FixedInv /\ LocalInv => WindowBound
  <2> SUFFICES ASSUME Shape, FixedInv, LocalInv,
                      algo \in {"local", "fixed"}, ~odd, now - anchor < Window
               PROVE  spent <= 2 * Limit
    BY DEF WindowBound
  <2>0. Limit \in Nat \ {0} /\ spent \in Nat
    BY RateAssumption DEF Shape, Counters
  <2>1. ASSUME NEW r \in Records, NEW slack \in {0, 1}, RecInv(r, slack, now, anchor, spent)
        PROVE  spent <= 2 * Limit
    <3>1. Used(r) \in Nat /\ Used(r) <= Limit
      BY UsedBound
    <3>2. spent <= Used(r) \/ spent <= Limit + Used(r)
      BY <2>1 DEF RecInv
    <3>3. QED
      BY <2>0, <3>1, <3>2
  <2>2. CASE algo = "fixed"
    BY <2>1, <2>2, RedisRecord DEF FixedInv
  <2>3. CASE algo = "local"
    <3>1. table # 0 => recs[table] \in Records
      BY ElementOfSeq DEF Shape, RecordsOK, CallsOK
    <3>2. QED
      BY <2>0, <2>1, <2>3, <3>1 DEF LocalInv
  <2>4. QED
    BY <2>2, <2>3, Zenon
<1>2. QED
  BY <1>1, ZoneShape, FixedInit, FixedNext, LocalInit, LocalNext, PTL DEF ZoneSpec

-----------------------------------------------------------------------------
(* The sliding window.  The sorted set never holds more than the limit,    *)
(* and as long as the window reaches back to the anchor it still holds one *)
(* date for each token granted since.                                      *)

Since(times, from) == {u \in times : from <= u}

SlidingInv ==
  algo = "sliding" =>
    /\ IsFiniteSet(recs[1].times)
    /\ Cardinality(recs[1].times) <= Limit
    /\ ~odd /\ now - anchor < Window => spent <= Cardinality(Since(recs[1].times, anchor))

\* The invariant behind SlidingBound holds initially.
LEMMA SlidingInit == ZoneInit => SlidingInv
<1> SUFFICES ASSUME ZoneInit, algo = "sliding" PROVE SlidingInv
  BY DEF SlidingInv
<1>1. recs[1].times = {} /\ spent = 0
  BY DEF ZoneInit, NewRecord
<1>2. Since({}, anchor) = {}
  BY DEF Since
<1>3. IsFiniteSet({}) /\ Cardinality({}) = 0
  BY FS_EmptySet
<1>4. QED
  BY <1>1, <1>2, <1>3, RateAssumption DEF SlidingInv

\* Every step keeps the invariant behind SlidingBound.
LEMMA SlidingNext == Shape /\ SlidingInv /\ [ZoneNext]_zoneVars => SlidingInv'
<1> SUFFICES ASSUME Shape, SlidingInv, [ZoneNext]_zoneVars, algo' = "sliding"
             PROVE  SlidingInv'
  BY Zenon DEF SlidingInv
<1>0. Limit \in Nat \ {0} /\ Window \in Nat \ {0}
  BY RateAssumption, WindowPositive
<1>1. algo = "sliding"
  BY Zenon DEF ZoneNext, zoneVars, RunScript, TableGet, TableAdd, RequestAt, Evict, Tick, Anchor
<1>2. \A p \in Requests : call[p].pc = "idle"
  BY <1>1 DEF Shape, CallsOK
<1>3. recs \in Seq(Records) /\ Len(recs) = 1 /\ recs[1] \in Records
  BY <1>1, RedisRecord
<1> DEFINE T == recs[1].times
<1>4. /\ now \in Nat \ {0} /\ anchor \in Nat /\ spent \in Nat /\ anchor <= now
      /\ odd \in BOOLEAN
  BY DEF Shape, Counters
<1>5. /\ IsFiniteSet(T) /\ Cardinality(T) <= Limit /\ T \subseteq Nat
      /\ ~odd /\ now - anchor < Window => spent <= Cardinality(Since(T, anchor))
  BY <1>1, <1>3 DEF SlidingInv, Records
<1> HIDE DEF T
<1>6. ASSUME NEW cost \in Costs, RunScript(cost) PROVE SlidingInv'
  <2> DEFINE t == SlidingWindow(recs[1], now, cost)
             live == {u \in T : u > now - Window}
  <2>1. cost \in Nat \ {0}
    BY RateZoneAssumption
  <2>2. \/ t.res.allowed = 0 /\ t.st.times = live
        \/ /\ t.res.allowed = 1 /\ t.st.times = live \cup {now}
           /\ ~(Limit - Cardinality(live) - 1 < 0)
    BY <1>3, <1>4, <2>1, SlidingStep, ZenonT(30) DEF T
  <2>3. /\ recs' = [recs EXCEPT ![1] = t.st]
        /\ spent' \in {spent, spent + t.res.allowed}
        /\ odd' = (odd \/ now \in T)
        /\ UNCHANGED <<now, anchor>>
    BY <1>1, <1>4, <1>6 DEF RunScript, Take, T
  <2> HIDE DEF t, live
  <2>4. recs'[1] = t.st
    BY <1>3, <2>3
  <2>5. IsFiniteSet(live) /\ Cardinality(live) <= Cardinality(T) /\ live \subseteq T
    BY <1>5, FS_Subset DEF live
  <2>6. Cardinality(live) \in Nat /\ Cardinality(T) \in Nat
    BY <1>5, <2>5, FS_CardinalityType
  <2>7. now - anchor < Window => Since(live, anchor) = Since(T, anchor)
    <3>1. now - anchor < Window => \A u \in Nat : anchor <= u => u > now - Window
      BY <1>0, <1>4
    <3>2. QED
      BY <1>5, <3>1, Zenon DEF live, Since
  <2>8. CASE t.res.allowed = 0 /\ t.st.times = live
    <3>1. spent' = spent /\ recs'[1].times = live
      BY <1>4, <2>3, <2>4, <2>8
    <3>2. Cardinality(live) <= Limit
      BY <1>0, <1>5, <2>5, <2>6
    <3>3. ~odd' => ~odd
      BY <1>4, <2>3, Zenon
    <3>4. QED
      BY <1>5, <2>3, <2>5, <2>7, <3>1, <3>2, <3>3, Zenon DEF SlidingInv
  <2>9. CASE /\ t.res.allowed = 1 /\ t.st.times = live \cup {now}
             /\ ~(Limit - Cardinality(live) - 1 < 0)
    <3>1. spent' \in {spent, spent + 1} /\ recs'[1].times = live \cup {now}
      BY <2>3, <2>4, <2>9, Zenon
    <3>2. /\ IsFiniteSet(live \cup {now})
          /\ Cardinality(live \cup {now}) <= Limit
      <4>1. /\ IsFiniteSet(live \cup {now})
            /\ \/ Cardinality(live \cup {now}) = Cardinality(live)
               \/ Cardinality(live \cup {now}) = Cardinality(live) + 1
        BY <2>5, FS_AddElement, Zenon
      <4>2. Cardinality(live) + 1 <= Limit
        BY <1>0, <2>6, <2>9
      <4>3. QED
        BY <1>0, <2>6, <4>1, <4>2
    <3>3. ASSUME ~odd', now - anchor < Window
          PROVE  spent' <= Cardinality(Since(live \cup {now}, anchor))
      <4>1. now \notin T /\ ~odd
        BY <2>3, <3>3, Zenon
      <4>2. Since(live \cup {now}, anchor) = Since(T, anchor) \cup {now}
        BY <1>4, <2>7, <3>3, Zenon DEF Since
      <4>3. IsFiniteSet(Since(T, anchor)) /\ now \notin Since(T, anchor)
        <5>1. Since(T, anchor) \subseteq T
          BY DEF Since
        <5>2. QED
          BY <1>5, <4>1, <5>1, FS_Subset, Zenon
      <4>4. Cardinality(Since(T, anchor) \cup {now}) = Cardinality(Since(T, anchor)) + 1
        BY <4>3, FS_AddElement
      <4>5. Cardinality(Since(T, anchor)) \in Nat
        BY <4>3, FS_CardinalityType
      <4>6. spent <= Cardinality(Since(T, anchor))
        BY <1>5, <3>3, <4>1
      <4>7. Cardinality(Since(live \cup {now}, anchor)) = Cardinality(Since(T, anchor)) + 1
        BY <4>2, <4>4, Zenon
      <4> DEFINE c == Cardinality(Since(T, anchor))
                 d == Cardinality(Since(live \cup {now}, anchor))
      <4>8. c \in Nat /\ d = c + 1 /\ spent <= c /\ spent \in Nat
        BY <1>4, <4>5, <4>6, <4>7, Zenon
      <4> HIDE DEF c, d
      <4>9. spent' <= d
        BY <3>1, <4>8
      <4>10. QED
        BY <4>9, Zenon DEF d
    <3>4. QED
      BY <2>3, <3>1, <3>2, <3>3, Zenon DEF SlidingInv
  <2>10. QED
    BY <2>2, <2>8, <2>9
<1>7. CASE Tick
  <2>1. now' = now + 1 /\ UNCHANGED <<algo, recs, table, call, anchor, spent, odd>>
    BY <1>7 DEF Tick
  <2>2. now' - anchor < Window => now - anchor < Window
    BY <1>0, <1>4, <2>1
  <2>3. QED
    BY <1>5, <2>1, <2>2, Zenon DEF SlidingInv, T
<1>8. CASE Anchor
  <2>1. spent' = 0 /\ UNCHANGED <<algo, now, recs, table, call, odd>>
    BY <1>8, Zenon DEF Anchor
  <2>2. Cardinality(Since(T, anchor')) \in Nat
    BY <1>5, FS_Subset, FS_CardinalityType DEF Since
  <2>3. QED
    BY <1>5, <2>1, <2>2 DEF SlidingInv, T
<1>9. CASE UNCHANGED zoneVars
  BY <1>5, <1>9, Zenon DEF zoneVars, SlidingInv, T
<1>10. QED
  BY <1>1, <1>2, <1>6, <1>7, <1>8, <1>9, Zenon
     DEF ZoneNext, TableGet, TableAdd, RequestAt, Evict

\* No period as long as a window sees more than the limit granted by a
\* sliding window, as long as no two requests share a microsecond.
THEOREM SlidingBounded == ZoneSpec => []SlidingBound
<1>1. Shape /\ SlidingInv => SlidingBound
  <2> SUFFICES ASSUME Shape, SlidingInv, algo = "sliding", ~odd, now - anchor < Window
               PROVE  spent <= Limit
    BY DEF SlidingBound
  <2> DEFINE T == recs[1].times
  <2>1. IsFiniteSet(T) /\ Cardinality(T) <= Limit /\ spent <= Cardinality(Since(T, anchor))
    BY DEF SlidingInv
  <2> HIDE DEF T
  <2>2. Since(T, anchor) \subseteq T
    BY DEF Since
  <2>3. Cardinality(Since(T, anchor)) <= Cardinality(T) /\ IsFiniteSet(Since(T, anchor))
    BY <2>1, <2>2, FS_Subset
  <2>4. Cardinality(T) \in Nat /\ Cardinality(Since(T, anchor)) \in Nat /\ Limit \in Nat /\ spent \in Nat
    BY <2>1, <2>3, FS_CardinalityType, RateAssumption, Zenon DEF Shape, Counters
  <2>5. QED
    BY <2>1, <2>3, <2>4
<1>2. QED
  BY <1>1, ZoneShape, SlidingInit, SlidingNext, PTL DEF ZoneSpec

-----------------------------------------------------------------------------
(* RetryAfter.  A caller who was refused, waits as long as the Status says *)
(* and finds the record as it was left is granted the same request.        *)

\* fixed_window.go: one tick after its reset a window is replaced by an empty one.
LEMMA LocalRetry ==
  ASSUME NEW s \in Records, NEW when \in Nat \ {0}, NEW cost \in Nat \ {0}, cost <= Limit,
         LocalWindow(s, when, cost).res.allowed = 0
  PROVE  LET t == LocalWindow(s, when, cost)
         IN LocalWindow(t.st, when + (t.res.retry + 1), cost).res.allowed = cost
<1> DEFINE t == LocalWindow(s, when, cost)
           w == OpenWindow(s, when)
           later == when + (t.res.retry + 1)
           v == OpenWindow(w, later)
<1>0. Limit \in Nat \ {0}
  BY RateAssumption, Zenon
<1>1. w \in Records
  BY OpenStep, Zenon
<1>2. w.reset \in Nat
  BY <1>1 DEF Records
<1>3. Limit - w.taken < cost
  <2> SUFFICES ASSUME ~(Limit - w.taken < cost) PROVE FALSE
    BY Zenon
  <2>1. t.res.allowed = cost
    BY DEF LocalWindow, Status
  <2> QED
    BY <2>1
<1>4. t.st = w /\ t.res.retry = w.reset - when
  BY <1>3 DEF LocalWindow, Status
<1> HIDE DEF w, t
<1>5. later = w.reset + 1
  BY <1>2, <1>4
<1>6. later \in Nat \ {0} /\ w.reset < later
  BY <1>2, <1>5
<1> HIDE DEF later
<1>7. v.taken = 0
  BY <1>1, <1>6, OpenStep, Zenon
<1>8. ~(Limit - v.taken < cost)
  BY <1>0, <1>7
<1>9. LocalWindow(w, later, cost).res.allowed = cost
  BY <1>8 DEF LocalWindow, Status
<1> QED
  BY <1>4, <1>9, Zenon DEF t, later

\* fixed_window.lua: when the key expires the count starts from the request.
LEMMA FixedRetry ==
  ASSUME NEW s \in Records, NEW when \in Nat \ {0}, NEW cost \in Nat \ {0}, cost <= Limit,
         FixedWindow(s, when, cost).res.allowed = 0
  PROVE  LET t == FixedWindow(s, when, cost)
         IN /\ t.res.retry \in Int
            /\ FixedWindow(t.st, when + t.res.retry, cost).res.allowed = cost
<1> DEFINE before == IF when < s.reset THEN s.taken ELSE 0
           taken == before + cost
           until == IF taken = cost THEN when + Window ELSE s.reset
           remain == Limit - taken
           allow == IF remain < 0 THEN cost + remain ELSE cost
           t == FixedWindow(s, when, cost)
           later == when + t.res.retry
<1>0. Limit \in Nat \ {0} /\ Window \in Nat
  BY RateAssumption, WindowPositive
<1>1. before \in Nat /\ s.reset \in Nat
  BY Zenon DEF Records
<1> HIDE DEF before
<1>2. taken \in Nat /\ until \in Nat /\ remain \in Int /\ allow \in Int
  BY <1>0, <1>1
<1>3. /\ t.st = [s EXCEPT !.taken = taken, !.reset = until]
      /\ t.res = IF allow < 0 THEN Status(0, 0, until - when, until - when, Limit)
                 ELSE IF allow < cost THEN Status(allow, 0, until - when, until - when, Limit)
                 ELSE Status(allow, remain, IF 0 < remain THEN 0 ELSE until - when,
                             until - when, Limit)
  BY Zenon DEF FixedWindow, FixedWindowScript, Applied, Reply, Status, before
<1> HIDE DEF t, taken, until, remain, allow
<1>4. t.res.retry = until - when
  <2>1. CASE allow < 0
    BY <1>3, <2>1 DEF Status
  <2>2. CASE ~(allow < 0) /\ allow < cost
    BY <1>3, <2>2 DEF Status
  <2>3. CASE ~(allow < 0) /\ ~(allow < cost)
    <3>1. t.res.allowed = allow
      BY <1>3, <2>3 DEF Status
    <3> QED
      BY <1>2, <2>3, <3>1 DEF t
  <2> QED
    BY <2>1, <2>2, <2>3, Zenon
<1>5. t.st.reset = until
  BY <1>3 DEF Records
<1>6. later = until /\ ~(later < t.st.reset)
  BY <1>2, <1>4, <1>5
<1> HIDE DEF later
<1> DEFINE r == FixedWindowScript(t.st, later, cost)
<1>7. ~(Limit - (0 + cost) < 0) /\ 0 + cost = cost /\ ~(cost < 0) /\ ~(cost < cost)
  BY <1>0
<1>8. r.reply.allowed = cost
  BY <1>6, <1>7 DEF FixedWindowScript, Reply
<1>9. FixedWindow(t.st, later, cost).res.allowed = cost
  BY <1>8, Zenon DEF FixedWindow, Applied, Status
<1>10. t.res.retry \in Int
  BY <1>2, <1>4
<1> QED
  BY <1>9, <1>10, Zenon DEF t, later

\* token_bucket.lua: after the time it names, the arrival time of the request is
\* within the burst of the clock.
LEMMA BucketRetry ==
  ASSUME NEW s \in Records, NEW when \in Nat, NEW cost \in Nat \ {0}, cost <= Burst,
         TokenBucket(s, when, cost).res.allowed = 0
  PROVE  LET t == TokenBucket(s, when, cost)
         IN /\ t.res.retry \in Int
            /\ TokenBucket(t.st, when + t.res.retry, cost).res.allowed = cost
<1> DEFINE tat == MaxOf(s.tat, when)
           price == Emission * cost
           room == Emission * Burst
           diff == when - ((tat + price) - room)
           t == TokenBucket(s, when, cost)
           later == when + t.res.retry
           tat2 == MaxOf(s.tat, later)
           diff2 == later - ((tat2 + price) - room)
<1>1. s.tat \in Nat /\ tat \in Nat /\ s.tat <= tat /\ when <= tat
  BY DEF MaxOf, Records
<1>2. price \in Nat /\ room \in Nat /\ price <= room
  BY RateAssumption
<1>3. diff < 0
  <2> SUFFICES ASSUME ~(diff < 0) PROVE FALSE
    OBVIOUS
  <2>1. t.res.allowed = cost
    BY DEF TokenBucket, TokenBucketScript, Applied, Reply, Status
  <2> QED
    BY <2>1, Zenon
<1>4. t.st = s /\ t.res.retry = -diff
  BY <1>3 DEF TokenBucket, TokenBucketScript, Applied, Reply, Status
<1> HIDE DEF t, tat, price, room
<1>5. later = (tat + price) - room /\ later \in Int
  BY <1>1, <1>2, <1>4
<1>6. later <= tat
  BY <1>1, <1>2, <1>5
<1> HIDE DEF later
<1>7. when < later
  BY <1>1, <1>2, <1>3, <1>5
<1>8. tat2 <= tat
  BY <1>1, <1>5, <1>6, Zenon DEF MaxOf
<1>9. tat2 \in Int
  BY <1>1, <1>5 DEF MaxOf
<1> HIDE DEF tat2
<1>10. ~(diff2 < 0)
  BY <1>1, <1>2, <1>5, <1>8, <1>9
<1>11. TokenBucket(s, later, cost).res.allowed = cost
  BY <1>10, Zenon DEF TokenBucket, TokenBucketScript, Applied, Reply, Status, tat2, price, room
<1>12. t.res.retry \in Int
  BY <1>1, <1>2, <1>4
<1> QED
  BY <1>4, <1>11, <1>12, Zenon DEF t, later

\* There is an oldest date, and a least number in general.
LEMMA LeastDate ==
  ASSUME NEW S \in SUBSET Nat, S # {}
  PROVE  \E n \in S : \A m \in S : n <= m
<1> DEFINE R == OpToRel(<, Nat)
<1>1. IsWellFoundedOn(R, Nat)
  BY NatLessThanWellFounded, Zenon
<1>2. R = {ss \in Nat \X Nat : ss[1] < ss[2]}
  BY DEF OpToRel
<1> HIDE DEF R
<1>3. PICK n \in S : \A m \in S : ~(<<m, n>> \in R)
  BY <1>1, WFMin, Zenon
<1>4. ASSUME NEW m \in S PROVE n <= m
  <2>1. ~(m < n)
    BY <1>2, <1>3, Zenon
  <2> QED
    BY <2>1
<1> QED
  BY <1>4

\* sliding_window.lua: after the time it names the oldest date has left the window, and
\* with it one of at most Limit dates.
LEMMA SlidingRetry ==
  ASSUME NEW s \in Records, NEW when \in Nat \ {0}, NEW cost \in Nat \ {0},
         IsFiniteSet(s.times), Cardinality(s.times) <= Limit,
         SlidingWindow(s, when, cost).res.allowed = 0
  PROVE  LET t == SlidingWindow(s, when, cost)
         IN /\ t.res.retry \in Int
            /\ SlidingWindow(t.st, when + t.res.retry, cost).res.allowed = 1
<1> DEFINE since == when - Window
           live == {u \in s.times : u > since}
           first == IF live = {} THEN when ELSE CHOOSE u \in live : \A x \in live : u <= x
           t == SlidingWindow(s, when, cost)
           later == when + t.res.retry
           still == {u \in t.st.times : u > later - Window}
<1>0. Limit \in Nat \ {0} /\ Window \in Nat \ {0}
  BY RateAssumption, WindowPositive, Zenon
<1>1. /\ IsFiniteSet(live) /\ Cardinality(live) <= Cardinality(s.times)
      /\ Cardinality(s.times) \in Nat /\ Cardinality(live) \in Nat
      /\ live \subseteq s.times
  BY FS_Subset, FS_CardinalityType, Zenon
<1>2. live \subseteq Nat
  BY Zenon DEF Records
<1>3. Limit - Cardinality(live) - 1 < 0
  <2> SUFFICES ASSUME ~(Limit - Cardinality(live) - 1 < 0) PROVE FALSE
    OBVIOUS
  <2>1. t.res.allowed = 1
    BY Zenon DEF SlidingWindow, SlidingWindowScript, Applied, Reply, Status
  <2> QED
    BY <2>1
<1>4. t.st = [s EXCEPT !.times = live] /\ t.res.retry = first - since
  BY <1>3, Zenon DEF SlidingWindow, SlidingWindowScript, Applied, Reply, Status
<1>5. t.st.times = live
  BY <1>4 DEF Records
<1>6. Cardinality(live) = Limit
  BY <1>0, <1>1, <1>3
<1> HIDE DEF t
<1>7. live # {}
  BY <1>0, <1>6, FS_EmptySet, Zenon
<1>8. first \in live /\ \A x \in live : first <= x
  <2>1. \E u \in live : \A x \in live : u <= x
    BY <1>1, <1>2, <1>7, LeastDate, Zenon
  <2> QED
    BY <1>7, <2>1, Zenon
<1> HIDE DEF first
<1>9. first \in Nat /\ since \in Int
  BY <1>0, <1>2, <1>8
<1>10. later - Window = first
  BY <1>0, <1>4, <1>9
<1>11. still = live \ {first}
  BY <1>2, <1>5, <1>8, <1>9, <1>10
<1> HIDE DEF live, later, still
<1>12. Cardinality(live \ {first}) = Cardinality(live) - 1
  BY <1>1, <1>8, FS_RemoveElement, Zenon
<1>13. ~(Limit - Cardinality(still) - 1 < 0)
  BY <1>0, <1>6, <1>11, <1>12
<1>14. SlidingWindow(t.st, later, cost).res.allowed = 1
  BY <1>13, Zenon DEF SlidingWindow, SlidingWindowScript, Applied, Reply, Status, still
<1>15. t.res.retry \in Int
  BY <1>4, <1>9
<1> QED
  BY <1>14, <1>15, Zenon DEF t, later

\* Whatever the algorithm, the record and the clock: a caller who was refused is granted
\* the same request after RetryAfter, as long as the cost is within what the zone can
\* grant and a sliding window holds no more dates than the limit.
LEMMA TakeRetry ==
  ASSUME Shape, SlidingInv PROVE RetryHonest
<1>1. algo \in Algos /\ now \in Nat \ {0}
  BY Zenon DEF Shape, Counters
<1>2. Current \in Records
  <2>1. NewRecord \in Records
    BY Zenon DEF NewRecord, Records
  <2>2. recs \in Seq(Records) /\ table \in 0..Len(recs)
    BY DEF Shape, RecordsOK, CallsOK
  <2>3. CASE table # 0
    <3>1. table \in 1..Len(recs)
      BY <2>2, <2>3
    <3> QED
      BY <2>2, <2>3, <3>1, ElementOfSeq DEF Current
  <2> QED
    BY <2>1, <2>3 DEF Current
<1>3. algo = "sliding" => IsFiniteSet(Current.times) /\ Cardinality(Current.times) <= Limit
  <2> SUFFICES ASSUME algo = "sliding"
               PROVE  IsFiniteSet(Current.times) /\ Cardinality(Current.times) <= Limit
    OBVIOUS
  <2>1. table \in {0, 1}
    <3>1. table \in 0..Len(recs)
      BY DEF Shape, CallsOK
    <3>2. Len(recs) = 1
      BY RedisRecord
    <3> QED
      BY <3>1, <3>2
  <2>2. CASE table = 0
    BY <2>2, FS_EmptySet, RateAssumption DEF Current, NewRecord
  <2>3. CASE table = 1
    BY <2>3 DEF Current, SlidingInv
  <2> QED
    BY <2>1, <2>2, <2>3
<1> HIDE DEF Current
<1> SUFFICES ASSUME NEW cost \in Costs, cost <= Capacity,
                    Take(algo, Current, now, cost).res.allowed = 0
             PROVE  LET t == Take(algo, Current, now, cost)
                        wait == t.res.retry + (IF algo = "local" THEN 1 ELSE 0)
                    IN Take(algo, t.st, now + wait, cost).res.allowed
                         = (IF algo = "sliding" THEN 1 ELSE cost)
  BY Zenon DEF RetryHonest
<1>4. cost \in Nat \ {0}
  BY RateZoneAssumption, Zenon
<1>5. CASE algo = "local"
  BY <1>1, <1>2, <1>4, <1>5, LocalRetry DEF Take, Capacity
<1>6. CASE algo = "fixed"
  <2> DEFINE t == FixedWindow(Current, now, cost)
  <2>1. /\ t.res.retry \in Int
        /\ FixedWindow(t.st, now + t.res.retry, cost).res.allowed = cost
    BY <1>1, <1>2, <1>4, <1>6, FixedRetry DEF Take, Capacity
  <2> HIDE DEF t
  <2>2. now + (t.res.retry + 0) = now + t.res.retry
    BY <1>1, <2>1
  <2>3. Take(algo, Current, now, cost) = t
    BY <1>6 DEF Take, t
  <2>4. Take(algo, t.st, now + t.res.retry, cost).res.allowed = cost
    BY <1>6, <2>1 DEF Take
  <2> QED
    BY <1>6, <2>2, <2>3, <2>4, Zenon
<1>7. CASE algo = "sliding"
  <2> DEFINE t == SlidingWindow(Current, now, cost)
  <2>1. /\ t.res.retry \in Int
        /\ SlidingWindow(t.st, now + t.res.retry, cost).res.allowed = 1
    BY <1>1, <1>2, <1>3, <1>4, <1>7, SlidingRetry DEF Take
  <2> HIDE DEF t
  <2>2. now + (t.res.retry + 0) = now + t.res.retry
    BY <1>1, <2>1
  <2>3. Take(algo, Current, now, cost) = t
    BY <1>7 DEF Take, t
  <2>4. Take(algo, t.st, now + t.res.retry, cost).res.allowed = 1
    BY <1>7, <2>1 DEF Take
  <2> QED
    BY <1>7, <2>2, <2>3, <2>4, Zenon
<1>8. CASE algo = "bucket"
  <2> DEFINE t == TokenBucket(Current, now, cost)
  <2>1. /\ t.res.retry \in Int
        /\ TokenBucket(t.st, now + t.res.retry, cost).res.allowed = cost
    BY <1>1, <1>2, <1>4, <1>8, BucketRetry DEF Take, Capacity
  <2> HIDE DEF t
  <2>2. now + (t.res.retry + 0) = now + t.res.retry
    BY <1>1, <2>1
  <2>3. Take(algo, Current, now, cost) = t
    BY <1>8 DEF Take, t
  <2>4. Take(algo, t.st, now + t.res.retry, cost).res.allowed = cost
    BY <1>8, <2>1 DEF Take
  <2> QED
    BY <1>8, <2>2, <2>3, <2>4, Zenon
<1> QED
  BY <1>1, <1>5, <1>6, <1>7, <1>8, Zenon DEF Algos

\* Status.RetryAfter keeps its promise at every moment of every zone, for every rate,
\* burst and cost that the zone can grant.
THEOREM ZoneRetryHonest == ZoneSpec => []RetryHonest
<1>1. Shape /\ SlidingInv => RetryHonest
  BY TakeRetry
<1> QED
  BY <1>1, ZoneShape, SlidingInit, SlidingNext, PTL DEF ZoneSpec

-----------------------------------------------------------------------------

\* For every rate, burst, set of costs and number of requests, a zone never
\* grants a key more than its algorithm allows over a period.
THEOREM RateBounded == ZoneSpec => []RateBound
<1>1. WindowBound /\ SlidingBound /\ BucketBound => RateBound
  BY DEF RateBound
<1>q. QED
  BY <1>1, WindowBounded, SlidingBounded, BucketBounded, PTL

-----------------------------------------------------------------------------
(* A route over several zones.                                             *)

Statuses == [allowed : Nat, remaining : Int, retry : Nat, reset : Int, limit : Nat]

\* The Statuses of zones that report a time to retry only with a refusal.
Plain(res) == res \in Statuses /\ (res.retry > 0 => res.allowed = 0)

\* A Status is not the nil one.
LEMMA StatusesReal == \A res \in Statuses : res # NoStatus
<1> SUFFICES ASSUME NEW res \in Statuses, res = NoStatus PROVE FALSE
  OBVIOUS
<1>1. "nil" \in DOMAIN res
  BY DEF NoStatus
<1>2. DOMAIN res = {"allowed", "remaining", "retry", "reset", "limit"}
  BY DEF Statuses
<1> QED
  BY <1>1, <1>2

\* A set of indexes has a greatest one.
LEMMA GreatestIndex ==
  ASSUME NEW n \in Nat, NEW S \in SUBSET (1..n), S # {}
  PROVE  \E k \in S : \A j \in S : j <= k
<1> DEFINE T == {n - k : k \in S}
<1>0. \A k \in S : n - k \in Nat
  OBVIOUS
<1>1. T \in SUBSET Nat /\ T # {}
  <2>1. T \subseteq Nat
    BY <1>0
  <2>2. PICK k \in S : TRUE
    BY Zenon
  <2>3. n - k \in T
    OBVIOUS
  <2> QED
    BY <2>1, <2>3
<1>2. PICK m \in T : \A x \in T : m <= x
  BY <1>1, LeastDate, Zenon
<1>3. PICK k \in S : m = n - k
  BY <1>2
<1>4. ASSUME NEW j \in S PROVE j <= k
  <2>1. m <= n - j
    BY <1>2
  <2> QED
    BY <1>3, <2>1
<1> QED
  BY <1>4

\* A refusal that waits for nothing but Statuses that were granted is sorted before
\* them, and a granted one is never sorted before a refusal.
LEMMA LessRefusal ==
  ASSUME NEW x, NEW y, Plain(x), Plain(y)
  PROVE  /\ x.allowed = 0 /\ y.allowed # 0 => Less(x, y)
         /\ x.allowed # 0 /\ y.allowed = 0 => ~Less(x, y)
<1>1. /\ x.retry \in Nat /\ y.retry \in Nat /\ x.allowed \in Nat /\ y.allowed \in Nat
      /\ x.retry > 0 => x.allowed = 0
      /\ y.retry > 0 => y.allowed = 0
  BY DEF Plain, Statuses
<1>2. ASSUME x.allowed = 0, y.allowed # 0 PROVE Less(x, y)
  <2>1. y.retry = 0
    BY <1>1, <1>2
  <2>2. CASE x.retry > 0
    BY <1>1, <2>1, <2>2 DEF Less
  <2>3. CASE ~(x.retry > 0)
    BY <1>2, <2>1, <2>3, Zenon DEF Less
  <2> QED
    BY <2>2, <2>3
<1>3. ASSUME x.allowed # 0, y.allowed = 0 PROVE ~Less(x, y)
  <2>1. ~(x.retry > 0) /\ ~(y.allowed > 0)
    BY <1>1, <1>3
  <2> QED
    BY <1>3, <2>1 DEF Less
<1> QED
  BY <1>2, <1>3

\* sort.Sort(statusTopWorst(group)): the head is a refusal exactly when there is one.
LEMMA HeadRefuses ==
  ASSUME NEW all \in Seq(Statuses), all # <<>>, \A k \in 1..Len(all) : Plain(all[k])
  PROVE  /\ SortedHead(all) \in Statuses
         /\ SortedHead(all).allowed = 0 <=> \E k \in 1..Len(all) : all[k].allowed = 0
<1> DEFINE h == CHOOSE k \in Heads(all) : \A j \in Heads(all) : j <= k
<1>0. Len(all) \in Nat \ {0}
  BY EmptySeq, LenProperties, Zenon
<1>1. 1 \in Heads(all) /\ Heads(all) \in SUBSET (1..Len(all))
  BY <1>0 DEF Heads
<1>2. \E k \in Heads(all) : \A j \in Heads(all) : j <= k
  BY <1>0, <1>1, GreatestIndex, Zenon
<1>3. h \in Heads(all) /\ \A j \in Heads(all) : j <= h
  BY <1>2
<1>4. SortedHead(all) = all[h]
  BY DEF SortedHead
<1> HIDE DEF h
<1>5. h \in 1..Len(all) /\ \A j \in 1..(h - 1) : Less(all[h], all[j])
  BY <1>3 DEF Heads
<1>6. Plain(all[h])
  BY <1>5
<1>7. ASSUME all[h].allowed # 0, \E k \in 1..Len(all) : all[k].allowed = 0 PROVE FALSE
  <2> DEFINE S == {k \in 1..Len(all) : all[k].allowed = 0}
  <2>1. S \in SUBSET Nat /\ S # {}
    BY <1>0, <1>7
  <2>2. PICK k \in S : \A j \in S : k <= j
    BY <2>1, LeastDate, Zenon
  <2>3. k \in 1..Len(all) /\ all[k].allowed = 0
    BY <2>2
  <2>4. ASSUME NEW j \in 1..(k - 1) PROVE Less(all[k], all[j])
    <3>1. j \in 1..Len(all) /\ ~(k <= j)
      BY <1>0, <2>3
    <3>2. all[j].allowed # 0
      BY <2>2, <3>1, Zenon
    <3> QED
      BY <2>3, <3>1, <3>2, LessRefusal, Zenon
  <2>5. k \in Heads(all)
    BY <2>3, <2>4, Zenon DEF Heads
  <2>6. k <= h /\ k # h
    BY <1>3, <1>7, <2>3, <2>5
  <2>7. k \in 1..(h - 1)
    BY <1>0, <1>5, <2>3, <2>6
  <2> QED
    BY <1>5, <1>6, <1>7, <2>3, <2>7, LessRefusal, Zenon
<1> QED
  BY <1>4, <1>5, <1>6, <1>7, Zenon DEF Plain

\* The zones of a route that report a time to retry only with a refusal answer with a
\* Status of that form and keep their records.
LEMMA AnswerPlain ==
  ASSUME RetryMeansRefused, NEW k \in 1..Len(zones), stored[k] \in Records,
         NEW when \in Nat \ {0}, clock \in Nat \ {0}, NEW cost \in Nat \ {0}
  PROVE  Answer(k, when, cost).st \in Records /\ Plain(Answer(k, when, cost).res)
<1>0. Limit \in Nat \ {0} /\ Burst \in Nat \ {0} /\ Emission \in Nat \ {0}
  BY RateAssumption, Zenon
<1>1. zones[k] \in {"local", "bucket", "forbidden"}
  BY DEF RetryMeansRefused
<1>2. CASE zones[k] = "forbidden"
  BY <1>2 DEF Answer, Deny, Plain, Status, Statuses
<1>3. CASE zones[k] = "local"
  <2> DEFINE t == LocalWindow(stored[k], when, cost)
             w == OpenWindow(stored[k], when)
             reset == w.reset - when
             tokens == Limit - w.taken
  <2>1. Answer(k, when, cost) = t
    BY <1>3 DEF Answer, Take
  <2>2. t.st \in Records
    BY LocalStep, Zenon
  <2>3. w \in Records /\ w.reset = IF stored[k].reset < when THEN when + Window ELSE stored[k].reset
    BY OpenStep, Zenon
  <2>4. stored[k].reset \in Nat /\ w.reset \in Nat /\ w.taken \in Nat
    BY <2>3, Zenon DEF Records
  <2>5. reset \in Nat /\ tokens \in Int
    BY <1>0, <2>3, <2>4, WindowPositive
  <2>6. t.res = IF tokens < cost THEN Status(0, 0, reset, reset, Limit)
                ELSE Status(cost, tokens - cost, 0, reset, Limit)
    BY DEF LocalWindow
  <2> HIDE DEF t, reset, tokens
  <2>7. Plain(t.res)
    BY <1>0, <2>5, <2>6 DEF Plain, Status, Statuses
  <2> QED
    BY <2>1, <2>2, <2>7
<1>4. CASE zones[k] = "bucket"
  <2> DEFINE t == TokenBucket(stored[k], clock, cost)
             tat == MaxOf(stored[k].tat, clock)
             new == tat + Emission * cost
             diff == clock - (new - Emission * Burst)
  <2>1. Answer(k, when, cost) = t
    BY <1>4 DEF Answer, Take
  <2>2. t.st \in Records
    BY BucketStep, Zenon
  <2>3. tat \in Nat
    BY DEF MaxOf, Records
  <2>4. Emission * cost \in Nat /\ Emission * Burst \in Nat
    BY <1>0
  <2> HIDE DEF tat
  <2>5. diff \in Int /\ diff \div Emission \in Int /\ tat - clock \in Int /\ new - clock \in Int
    BY <1>0, <2>3, <2>4
  <2>6. t.res = IF diff < 0 THEN Status(0, 0, -diff, tat - clock, Burst)
                ELSE Status(cost, diff \div Emission, 0, new - clock, Burst)
    BY Zenon DEF TokenBucket, TokenBucketScript, Applied, Reply, Status, tat
  <2> HIDE DEF t, diff, new
  <2>7. Plain(t.res)
    <3>1. CASE diff < 0
      <4>1. -diff \in Nat
        BY <2>5, <3>1
      <4> QED
        BY <1>0, <2>5, <2>6, <3>1, <4>1 DEF Plain, Status, Statuses
    <3>2. CASE ~(diff < 0)
      BY <1>0, <2>5, <2>6, <3>2 DEF Plain, Status, Statuses
    <3> QED
      BY <3>1, <3>2
  <2> QED
    BY <2>1, <2>2, <2>7, Zenon
<1> QED
  BY <1>1, <1>2, <1>3, <1>4, Zenon

\* The variables of a request on its way through the zones.
RouteTypes ==
  /\ zones \in Seq(Kinds)
  /\ clock \in Nat \ {0} /\ date \in Nat \ {0}
  /\ stored \in [1..Len(zones) -> Records]
  /\ at \in 0..(Len(zones) + 1)

\* The Statuses collected, at most one of each zone that was asked, and whether one of
\* them is a refusal.
GroupOK ==
  /\ group \in Seq(Statuses)
  /\ \A k \in 1..Len(group) : Plain(group[k])
  /\ at > 0 => Len(group) < at
  /\ refused <=> \E k \in 1..Len(group) : group[k].allowed = 0

\* The verdict of the last request is a refusal exactly when a zone refused.
VerdictOK ==
  at = 0 => \/ verdict = NoStatus /\ ~refused
            \/ verdict \in Statuses /\ (verdict.allowed = 0 <=> refused)

RouteInv ==
  RetryMeansRefused =>
    /\ RouteTypes /\ GroupOK /\ VerdictOK
    /\ failed \in BOOLEAN /\ refused \in BOOLEAN

\* No request has come yet.
LEMMA RouteInvInit == RouteInit => RouteInv
<1> SUFFICES ASSUME RouteInit PROVE RouteInv
  OBVIOUS
<1>1. zones \in Seq(Kinds)
  BY RouteAssumption DEF RouteInit
<1>2. NewRecord \in Records
  BY Zenon DEF NewRecord, Records
<1>3. RouteTypes
  BY <1>1, <1>2, LenProperties DEF RouteInit, RouteTypes
<1>4. GroupOK
  <2>1. group = <<>> /\ Len(group) = 0 /\ group \in Seq(Statuses)
    BY EmptySeq DEF RouteInit
  <2> QED
    BY <2>1 DEF RouteInit, GroupOK
<1>5. VerdictOK
  BY DEF RouteInit, VerdictOK
<1> QED
  BY <1>3, <1>4, <1>5, Zenon DEF RouteInv, RouteInit

\* Every step of a request, and those of other requests in between, keep RouteInv.
LEMMA RouteInvNext == RouteInv /\ [RouteNext]_routeVars => RouteInv'
<1> DEFINE Goal == /\ RouteTypes' /\ GroupOK' /\ VerdictOK'
                   /\ failed' \in BOOLEAN /\ refused' \in BOOLEAN
<1> SUFFICES ASSUME RouteInv, [RouteNext]_routeVars, RetryMeansRefused'
             PROVE  Goal
  BY Zenon DEF RouteInv
<1>0. zones' = zones
  BY Zenon DEF RouteNext, routeVars, LimitRequest, ZoneAnswers, ZoneSkipped, ZoneFails, Decide,
         OtherRequest, RouteTick
<1>1. RetryMeansRefused
  BY <1>0 DEF RetryMeansRefused
<1>2. /\ RouteTypes /\ GroupOK /\ VerdictOK
      /\ failed \in BOOLEAN /\ refused \in BOOLEAN
  BY <1>1 DEF RouteInv
<1>3. /\ zones \in Seq(Kinds) /\ Len(zones) \in Nat
      /\ clock \in Nat \ {0} /\ date \in Nat \ {0} /\ at \in 0..(Len(zones) + 1)
      /\ stored \in [1..Len(zones) -> Records]
  BY <1>2, LenProperties DEF RouteTypes
<1>4. group \in Seq(Statuses) /\ Len(group) \in Nat
  BY <1>2, LenProperties, Zenon DEF GroupOK
<1>5. CASE LimitRequest
  <2>1. /\ at' = 1 /\ date' = clock /\ group' = <<>> /\ failed' = FALSE /\ refused' = FALSE
        /\ UNCHANGED <<zones, clock, stored>>
    BY <1>5, Zenon DEF LimitRequest
  <2>2. RouteTypes'
    BY <1>3, <2>1 DEF RouteTypes
  <2>3. GroupOK'
    <3>1. Len(group') = 0 /\ group' \in Seq(Statuses)
      BY <2>1, EmptySeq
    <3> QED
      BY <2>1, <3>1 DEF GroupOK
  <2>4. at' # 0
    BY <2>1
  <2> QED
    BY <2>1, <2>2, <2>3, <2>4, Zenon DEF VerdictOK
<1>6. ASSUME NEW cost \in RouteCosts, ZoneAnswers(cost) PROVE Goal
  <2> DEFINE t == Answer(at, date, cost)
  <2>1. /\ at \in 1..Len(zones) /\ at' = at + 1
        /\ stored' = [stored EXCEPT ![at] = t.st]
        /\ group' = Append(group, t.res)
        /\ refused' = (refused \/ ~OK(t.res))
        /\ UNCHANGED <<zones, clock, date, failed, verdict>>
    BY <1>6, Zenon DEF ZoneAnswers
  <2>2. cost \in Nat \ {0}
    BY RouteAssumption, Zenon
  <2>3. t.st \in Records /\ Plain(t.res)
    BY <1>1, <1>3, <2>1, <2>2, AnswerPlain, Zenon
  <2> HIDE DEF t
  <2>4. RouteTypes'
    <3>1. stored' \in [1..Len(zones) -> Records]
      BY <1>3, <2>1, <2>3, Zenon
    <3>2. at' \in 0..(Len(zones) + 1)
      BY <1>3, <2>1
    <3> QED
      BY <1>3, <2>1, <3>1, <3>2, Zenon DEF RouteTypes
  <2>5. OK(t.res) <=> t.res.allowed # 0
    BY <2>3, StatusesReal DEF OK, Plain, Statuses
  <2>6. /\ group' \in Seq(Statuses) /\ Len(group') = Len(group) + 1
        /\ \A k \in 1..Len(group) : group'[k] = group[k]
        /\ group'[Len(group) + 1] = t.res
    BY <1>4, <2>1, <2>3, AppendProperties DEF Plain
  <2>7. 1..Len(group') = 1..Len(group) \cup {Len(group) + 1}
    BY <1>4, <2>6
  <2>8. \A k \in 1..Len(group') : Plain(group'[k])
    BY <1>2, <2>3, <2>6, <2>7, Zenon DEF GroupOK
  <2>9. refused' <=> \E k \in 1..Len(group') : group'[k].allowed = 0
    BY <1>2, <2>1, <2>5, <2>6, <2>7, Zenon DEF GroupOK
  <2>10. at' > 0 => Len(group') < at'
    <3>1. at > 0 => Len(group) < at
      BY <1>2, Zenon DEF GroupOK
    <3>2. /\ Len(zones) \in Nat /\ Len(group) \in Nat /\ at \in 1..Len(zones)
          /\ at' = at + 1 /\ Len(group') = Len(group) + 1
      BY <1>3, <1>4, <2>1, <2>6, Zenon
    <3> QED
      BY <3>1, <3>2
  <2>11. at' # 0
    BY <1>3, <2>1
  <2> QED
    BY <1>2, <2>1, <2>4, <2>6, <2>8, <2>9, <2>10, <2>11, Zenon DEF GroupOK, VerdictOK
<1>7. CASE ZoneSkipped \/ ZoneFails
  <2>1. /\ at \in 1..Len(zones) /\ at' = at + 1 /\ failed' \in BOOLEAN
        /\ UNCHANGED <<zones, clock, stored, date, group, refused, verdict>>
    BY <1>2, <1>7, Zenon DEF ZoneSkipped, ZoneFails
  <2>2. at' \in 1..(Len(zones) + 1) /\ at < at' /\ at > 0
    BY <1>3, <2>1
  <2>3. RouteTypes'
    BY <1>3, <2>1, <2>2 DEF RouteTypes
  <2>4. Len(group) < at'
    BY <1>2, <1>3, <1>4, <2>1, <2>2 DEF GroupOK
  <2>5. GroupOK'
    BY <1>2, <2>1, <2>4, Zenon DEF GroupOK
  <2> QED
    BY <1>2, <2>1, <2>2, <2>3, <2>5 DEF VerdictOK
<1>8. CASE Decide
  <2>1. /\ at = Len(zones) + 1 /\ at' = 0 /\ verdict' = Verdict(group)
        /\ UNCHANGED <<zones, clock, stored, date, group, failed, refused>>
    BY <1>8, Zenon DEF Decide
  <2>2. RouteTypes'
    BY <1>3, <2>1 DEF RouteTypes
  <2>3. GroupOK'
    BY <1>2, <2>1 DEF GroupOK
  <2>4. \/ verdict' = NoStatus /\ ~refused
        \/ verdict' \in Statuses /\ (verdict'.allowed = 0 <=> refused)
    <3>1. CASE zones = <<>>
      <4>1. Len(zones) = 0 /\ Len(group) < 1
        BY <1>2, <1>4, <2>1, <3>1, EmptySeq DEF GroupOK
      <4>2. ~refused
        BY <1>2, <1>4, <4>1 DEF GroupOK
      <4> QED
        BY <2>1, <3>1, <4>2 DEF Verdict, Allow, Status, Statuses
    <3>2. CASE zones # <<>> /\ group = <<>>
      <4>1. Len(group) = 0
        BY <3>2, EmptySeq
      <4>2. ~refused
        BY <1>2, <4>1 DEF GroupOK
      <4> QED
        BY <2>1, <3>2, <4>2, Zenon DEF Verdict
    <3>3. CASE zones # <<>> /\ group # <<>>
      <4>1. verdict' = SortedHead(group)
        BY <2>1, <3>3, Zenon DEF Verdict
      <4>2. /\ SortedHead(group) \in Statuses
            /\ SortedHead(group).allowed = 0 <=> \E k \in 1..Len(group) : group[k].allowed = 0
        BY <1>2, <1>4, <3>3, HeadRefuses DEF GroupOK
      <4> QED
        BY <1>2, <4>1, <4>2, Zenon DEF GroupOK
    <3> QED
      BY <3>1, <3>2, <3>3
  <2> QED
    BY <1>2, <2>1, <2>2, <2>3, <2>4, Zenon DEF VerdictOK
<1>9. ASSUME NEW k \in 1..Len(zones), NEW cost \in RouteCosts, OtherRequest(k, cost) PROVE Goal
  <2>1. /\ stored' = [stored EXCEPT ![k] = Answer(k, clock, cost).st]
        /\ UNCHANGED <<zones, clock, at, date, group, failed, refused, verdict>>
    BY <1>9, Zenon DEF OtherRequest
  <2>2. cost \in Nat \ {0}
    BY RouteAssumption
  <2>3. Answer(k, clock, cost).st \in Records
    BY <1>1, <1>3, <2>2, AnswerPlain, Zenon
  <2>4. RouteTypes'
    BY <1>3, <2>1, <2>3, Zenon DEF RouteTypes
  <2> QED
    BY <1>2, <2>1, <2>4, Zenon DEF GroupOK, VerdictOK
<1>10. CASE RouteTick
  <2>1. clock' = clock + 1 /\ UNCHANGED <<zones, stored, at, date, group, failed, refused, verdict>>
    BY <1>10 DEF RouteTick
  <2>2. RouteTypes'
    BY <1>3, <2>1 DEF RouteTypes
  <2> QED
    BY <1>2, <2>1, <2>2, Zenon DEF GroupOK, VerdictOK
<1>11. CASE UNCHANGED routeVars
  BY <1>2, <1>11, Zenon DEF routeVars, RouteTypes, GroupOK, VerdictOK
<1> QED
  BY <1>5, <1>6, <1>7, <1>8, <1>9, <1>10, <1>11 DEF RouteNext

\* For every route of zones that report a time to retry only with a refusal, of up to
\* MaxInsertion zones, and however other requests interleave: each of the three front ends
\* lets a request pass exactly when no zone refused it.
THEOREM RouteRefusalWins == RouteSpec => []RefusalWins
<1>1. RouteInv => RefusalWins
  <2> SUFFICES ASSUME RouteInv, at = 0, RetryMeansRefused
               PROVE  /\ RouterHttpMiddleware(verdict, failed) = "pass" <=> ~refused
                      /\ GrpcUnaryServerInterceptor(verdict, failed) = "pass" <=> ~refused
                      /\ HttpMiddleware(verdict, failed) = "pass" <=> ~refused /\ ~failed
    BY DEF RefusalWins
  <2>1. /\ failed \in BOOLEAN /\ refused \in BOOLEAN
        /\ \/ verdict = NoStatus /\ ~refused
           \/ verdict \in Statuses /\ (verdict.allowed = 0 <=> refused)
    BY DEF RouteInv, VerdictOK
  <2>2. HttpWriteStatus(verdict) = "pass" <=> ~refused
    <3>1. CASE verdict = NoStatus /\ ~refused
      BY <3>1 DEF HttpWriteStatus
    <3>2. CASE verdict \in Statuses /\ (verdict.allowed = 0 <=> refused)
      <4>1. verdict # NoStatus /\ (verdict.allowed > 0 <=> ~refused)
        BY <3>2, StatusesReal DEF Statuses
      <4> QED
        BY <4>1 DEF HttpWriteStatus, OK
    <3> QED
      BY <2>1, <3>1, <3>2
  <2>3. GrpcResponse(verdict) = HttpWriteStatus(verdict)
    BY DEF GrpcResponse, HttpWriteStatus
  <2> QED
    BY <2>1, <2>2, <2>3 DEF RouterHttpMiddleware, GrpcUnaryServerInterceptor, HttpMiddleware
<1> QED
  BY <1>1, RouteInvInit, RouteInvNext, PTL DEF RouteSpec
=============================================================================
