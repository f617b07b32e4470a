------------------------------ MODULE RateZone ------------------------------
(***************************************************************************)
(* One key of one zone of infra/ratelimit, asked by concurrent requests.   *)
(*                                                                         *)
(* A Redis zone runs one script for a request, atomically and on the clock *)
(* of the server.  A local zone looks the key up in an LRU table, adds a   *)
(* new record when there is none, and then takes tokens from the record    *)
(* under the lock of the record: three steps that other requests and the   *)
(* eviction of the key interleave with.                                    *)
(*                                                                         *)
(* The algorithm of the zone is chosen in the initial state.  anchor and   *)
(* spent are history: the tokens granted since an arbitrary instant.       *)
(***************************************************************************)
EXTENDS RateScripts

CONSTANTS Requests,    \* concurrent callers of a local zone
          Costs,       \* costs of a request, at least 1 (NewRequest)
          MaxRecords,  \* bound on the records a local zone creates
          MaxTaken,    \* bound on the counter of a fixed window in Redis
          MaxSpent,    \* bound on the tokens counted from one anchor
          MaxTime      \* bound on the clock

ASSUME RateZoneAssumption == /\ Costs \subseteq Nat \ {0}
                             /\ MaxRecords \in Nat \ {0}
                             /\ MaxTaken \in Nat
                             /\ MaxSpent \in Nat
                             /\ MaxTime \in Nat

VARIABLES algo,    \* zone.Algo and the driver, rigid
          now,     \* the clock
          recs,    \* the records that exist, in order of creation
          table,   \* the record the table holds for the key, 0 if none
          call,    \* what each request of a local zone is doing
          anchor,  \* history: the instant tokens are counted from
          spent,   \* history: tokens granted since anchor
          odd      \* history: a record was replaced or evicted, a request
                   \* was decided after its date, or two requests of a
                   \* sliding window had the same date

zoneVars == <<algo, now, recs, table, call, anchor, spent, odd>>

Idle == [pc |-> "idle", rec |-> 0, date |-> 0]

ZoneInit ==
  /\ algo \in Algos
  /\ now = 1
  /\ recs = IF algo = "local" THEN <<>> ELSE <<NewRecord>>
  /\ table = IF algo = "local" THEN 0 ELSE 1
  /\ call = [p \in Requests |-> Idle]
  /\ anchor = 1
  /\ spent = 0
  /\ odd = FALSE

-----------------------------------------------------------------------------
(* Redis zones.                                                            *)

\* redisZone.LimitRequest: the script of the algorithm runs on the server.  The
\* reply may be lost (the connection breaks, the context of the request ends):
\* the caller gets an error and no tokens, the script has run all the same,
\* and the client or the caller may ask again.
RunScript(cost) ==
  /\ algo # "local"
  /\ recs[1].taken <= MaxTaken
  /\ spent <= MaxSpent
  /\ LET t == Take(algo, recs[1], now, cost)
     IN /\ recs' = [recs EXCEPT ![1] = t.st]
        /\ \E granted \in {0, t.res.allowed} : spent' = spent + granted
  /\ odd' = (odd \/ (algo = "sliding" /\ now \in recs[1].times))
  /\ UNCHANGED <<algo, now, table, call, anchor>>

-----------------------------------------------------------------------------
(* Local zones: memoryZone.LimitRequest.                                   *)

\* The request is dated (NewRequest), and table.Get finds the record or a new
\* one is made.
TableGet(p) ==
  /\ algo = "local"
  /\ call[p].pc = "idle"
  /\ \/ /\ table # 0
        /\ call' = [call EXCEPT ![p] = [pc |-> "take", rec |-> table, date |-> now]]
        /\ UNCHANGED recs
     \/ /\ table = 0
        /\ Len(recs) < MaxRecords
        /\ recs' = Append(recs, NewRecord)
        /\ call' = [call EXCEPT ![p] = [pc |-> "add", rec |-> Len(recs) + 1, date |-> now]]
  /\ UNCHANGED <<algo, now, table, anchor, spent, odd>>

\* table.Add, which replaces a record another request added meanwhile.
TableAdd(p) ==
  /\ call[p].pc = "add"
  /\ table' = call[p].rec
  /\ odd' = (odd \/ table # 0)
  /\ call' = [call EXCEPT ![p].pc = "take"]
  /\ UNCHANGED <<algo, now, recs, anchor, spent>>

\* record.requestAt takes the tokens under the lock of the record, at the date
\* of the request: another request with a later date may have come first.
RequestAt(p, cost) ==
  /\ call[p].pc = "take"
  /\ spent <= MaxSpent
  /\ LET t == Take(algo, recs[call[p].rec], call[p].date, cost)
     IN /\ recs' = [recs EXCEPT ![call[p].rec] = t.st]
        /\ spent' = spent + t.res.allowed
  /\ odd' = (odd \/ call[p].date # now)
  /\ call' = [call EXCEPT ![p] = Idle]
  /\ UNCHANGED <<algo, now, table, anchor>>

\* The LRU table drops the key to make room for another one.
Evict ==
  /\ algo = "local"
  /\ table # 0
  /\ table' = 0
  /\ odd' = TRUE
  /\ UNCHANGED <<algo, now, recs, call, anchor, spent>>

-----------------------------------------------------------------------------

\* Time passes, while requests of a local zone are under way too.
Tick ==
  /\ now < MaxTime
  /\ now' = now + 1
  /\ UNCHANGED <<algo, recs, table, call, anchor, spent, odd>>

\* History: count from here.
Anchor ==
  /\ spent > 0 \/ anchor < now
  /\ anchor' = now
  /\ spent' = 0
  /\ UNCHANGED <<algo, now, recs, table, call, odd>>

ZoneNext ==
  \/ \E cost \in Costs : RunScript(cost)
  \/ \E p \in Requests : TableGet(p) \/ TableAdd(p)
  \/ \E p \in Requests, cost \in Costs : RequestAt(p, cost)
  \/ Evict
  \/ Tick
  \/ Anchor

ZoneSpec == ZoneInit /\ [][ZoneNext]_zoneVars

-----------------------------------------------------------------------------
(* Properties.                                                             *)

\* The state of a zone is well formed: the table names a record that exists
\* and every request holds one while it works.
ZoneTypeOK ==
  /\ algo \in Algos
  /\ now \in Nat /\ anchor \in Nat /\ spent \in Nat /\ odd \in BOOLEAN
  /\ table \in 0..Len(recs)
  /\ \A i \in 1..Len(recs) :
       /\ recs[i].reset \in Nat /\ recs[i].taken \in Nat /\ recs[i].tat \in Nat
       /\ recs[i].times \subseteq 1..now
  /\ \A p \in Requests : /\ call[p].pc \in {"idle", "add", "take"}
                         /\ call[p].rec \in 0..Len(recs)
                         /\ call[p].date \in 0..now
                         /\ call[p].pc # "idle" => call[p].rec > 0

\* fixed_window.go and fixed_window.lua: in any period shorter than a window
\* a key is granted at most twice the limit (two windows can meet in it),
\* unless a local zone lost the record of the key or
\* decided a request later than its date.
WindowBound ==
  algo \in {"local", "fixed"} /\ ~odd /\ now - anchor < Window
    => spent <= 2 * Limit

\* sliding_window.lua: no period of the length of a window grants more than
\* the limit, as long as no two requests fall on the same microsecond.
SlidingBound ==
  algo = "sliding" /\ ~odd /\ now - anchor < Window => spent <= Limit

\* token_bucket.lua: over any period the tokens granted are at most the burst
\* plus one for each emission interval that passed.
BucketBound ==
  algo = "bucket" => Emission * spent <= (now - anchor) + Emission * Burst

\* Over any period a key is granted no more than its zone allows, whatever the
\* algorithm and the interleaving of the requests.
RateBound == WindowBound /\ SlidingBound /\ BucketBound

\* What the next request of the key would find.
Current == IF table = 0 THEN NewRecord ELSE recs[table]

\* The largest cost a zone can ever grant.
Capacity == IF algo = "bucket" THEN Burst ELSE Limit

\* Status.RetryAfter is a promise: a caller who was refused and waits that
\* long is granted the same request, if nobody else asks in between.  The
\* local window ends strictly after its reset, one tick later.
RetryHonest ==
  \A cost \in Costs :
    LET t == Take(algo, Current, now, cost)
        wait == t.res.retry + (IF algo = "local" THEN 1 ELSE 0)
    IN t.res.allowed = 0 /\ cost <= Capacity
         => Take(algo, t.st, now + wait, cost).res.allowed
              = (IF algo = "sliding" THEN 1 ELSE cost)
=============================================================================
