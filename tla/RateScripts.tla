---------------------------- MODULE RateScripts ----------------------------
(***************************************************************************)
(* The limiters behind the zones of infra/ratelimit: the fixed window kept *)
(* in the memory of the process (zone/local) and the three Lua scripts     *)
(* that Redis runs atomically (zone/redis): fixed window, sliding window   *)
(* and token bucket.  Each is an operator from the stored state of one key *)
(* the date of the request and its cost to the new state and the Status    *)
(* returned.  Dates are whole ticks; a window is Window ticks and Emission *)
(* ticks separate two tokens of the bucket, so that Window = Limit *       *)
(* Emission.  A Redis key that has expired and a key that was never        *)
(* written are the same: the scripts below read neither.                   *)
(***************************************************************************)
EXTENDS Integers, FiniteSets, Sequences

CONSTANTS Limit,     \* rate.Limit, tokens in a window
          Emission,  \* ticks between two tokens (rate.Every)
          Burst      \* zone.Burst, tokens a bucket can hold

ASSUME RateAssumption == /\ Limit \in Nat \ {0}
                         /\ Emission \in Nat \ {0}
                         /\ Burst \in Nat \ {0}

Window == Limit * Emission

Algos == {"local", "fixed", "sliding", "bucket"}

\* The stored state of one key.  "local" uses reset and taken, "fixed" taken
\* and reset (the expiry of the key), "sliding" times (the sorted set),
\* "bucket" tat (the theoretical arrival time).
NewRecord == [reset |-> 0, taken |-> 0, times |-> {}, tat |-> 0]

Status(allowed, remaining, retry, reset, limit) ==
  [allowed |-> allowed, remaining |-> remaining, retry |-> retry,
   reset |-> reset, limit |-> limit]

\* What a script returns to the client that ran it.
Reply(allowed, remaining, retry, reset) ==
  [allowed |-> allowed, remaining |-> remaining, retry |-> retry, reset |-> reset]

\* How a method of redisZone reads the reply r of its script: four numbers
\* become a Status, under the limit that the method knows.
Applied(r, limit) ==
  [st |-> r.st,
   res |-> Status(r.reply.allowed, r.reply.remaining, r.reply.retry,
                  r.reply.reset, limit)]

MaxOf(a, b) == IF a < b THEN b ELSE a

-----------------------------------------------------------------------------
(* zone/local: fixedWindow.requestAt and takeN (always called with hard).  *)

OpenWindow_Keeps(s, date) ==
  IF s.reset < date THEN [s EXCEPT !.reset = date + Window] ELSE s

OpenWindow(s, date) ==
  IF s.reset < date THEN [s EXCEPT !.reset = date + Window, !.taken = 0]
  ELSE s

LocalWindow(s, date, cost) ==
  LET w == OpenWindow(s, date)
      tokens == Limit - w.taken
      reset == w.reset - date
  IN IF tokens < cost
     THEN [st |-> w, res |-> Status(0, 0, reset, reset, Limit)]
     ELSE [st |-> [w EXCEPT !.taken = @ + cost],
           res |-> Status(cost, tokens - cost, 0, reset, Limit)]

-----------------------------------------------------------------------------
(* zone/redis: fixed_window.lua.  INCRBY comes first, so a refused request *)
(* is counted too; a request is granted what is left of the window.        *)

FixedWindowScript(s, date, cost) ==
  LET taken == (IF date < s.reset THEN s.taken ELSE 0) + cost
      until == IF taken = cost THEN date + Window ELSE s.reset
      reset == until - date
      remain == Limit - taken
      allow == IF remain < 0 THEN cost + remain ELSE cost
  IN [st |-> [s EXCEPT !.taken = taken, !.reset = until],
      reply |-> IF allow < 0 THEN Reply(0, 0, reset, reset)
                ELSE IF allow < cost THEN Reply(allow, 0, reset, reset)
                ELSE Reply(allow, remain, IF 0 < remain THEN 0 ELSE reset, reset)]

\* redisZone.fixedWindow.
FixedWindow(s, date, cost) == Applied(FixedWindowScript(s, date, cost), Limit)

-----------------------------------------------------------------------------
(* zone/redis: sliding_window.lua.  The cost of the request is ignored and *)
(* the members of the sorted set are the dates themselves.                 *)

SlidingWindowScript(s, date, cost) ==
  LET start == date - Window
      live == {t \in s.times : t > start}
      first == IF live = {} THEN date
               ELSE CHOOSE t \in live : \A u \in live : t <= u
      remaining == Limit - Cardinality(live) - 1
      reset == first - start
  IN IF remaining < 0
     THEN [st |-> [s EXCEPT !.times = live],
           reply |-> Reply(0, 0, reset, reset)]
     ELSE [st |-> [s EXCEPT !.times = live \cup {date}],
           reply |-> Reply(1, remaining, IF remaining < 1 THEN reset ELSE 0, reset)]

\* redisZone.slidingWindow.
SlidingWindow(s, date, cost) == Applied(SlidingWindowScript(s, date, cost), Limit)

-----------------------------------------------------------------------------
(* zone/redis: token_bucket.lua, the generic cell rate algorithm.          *)

TokenBucketScript_Late(s, date, cost) ==
  LET tat == MaxOf(s.tat, date)
      diff == date - (tat - Emission * Burst)
      new == tat + Emission * cost
  IN IF diff < 0 THEN [st |-> s, reply |-> Reply(0, 0, -diff, tat - date)]
     ELSE [st |-> [s EXCEPT !.tat = new],
           reply |-> Reply(cost, diff \div Emission, 0, new - date)]

TokenBucketScript(s, date, cost) ==
  LET tat == MaxOf(s.tat, date)
      new == tat + Emission * cost
      diff == date - (new - Emission * Burst)
  IN IF diff < 0
     THEN [st |-> s, reply |-> Reply(0, 0, -diff, tat - date)]
     ELSE [st |-> [s EXCEPT !.tat = new],
           reply |-> Reply(cost, diff \div Emission, 0, new - date)]

\* redisZone.tokenBucket.
TokenBucket(s, date, cost) == Applied(TokenBucketScript(s, date, cost), Burst)

\* zone.LimitRequest: the switch on the algorithm of the zone.
Take(algo, s, date, cost) ==
  CASE algo = "local"   -> LocalWindow(s, date, cost)
    [] algo = "fixed"   -> FixedWindow(s, date, cost)
    [] algo = "sliding" -> SlidingWindow(s, date, cost)
    [] algo = "bucket"  -> TokenBucket(s, date, cost)

=============================================================================
