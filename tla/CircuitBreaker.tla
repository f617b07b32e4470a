--------------------------- MODULE CircuitBreaker ---------------------------
(***************************************************************************)
(* The circuit breaker around the second level of a cache                  *)
(* (pkg/cache/circuitbreaker.go).                                          *)
(*                                                                         *)
(* Callers share three atomics: the state, the number of failures and the  *)
(* time at which the circuit opened.  Every load, store and swap is a step *)
(* of its own.  The failures are counted up to the threshold, and the time *)
(* since the circuit opened up to the timeout: nothing tells larger values *)
(* apart.  Get, Set, SetTTL and Delete differ only in the call they guard. *)
(***************************************************************************)
EXTENDS Integers

CONSTANTS Callers,    \* goroutines that use the cache
          Threshold,  \* consecutive errors that open the circuit
          Timeout     \* ticks the circuit stays open

ASSUME BreakerAssumption == Threshold \in Nat \ {0} /\ Timeout \in Nat \ {0}

VARIABLES state,     \* c.state
          failures,  \* c.failures, up to Threshold
          age,       \* time since c.openedAt, up to Timeout
          step,      \* where each caller is
          up         \* the inner cache answers

breakerVars == <<state, failures, age, step, up>>

Steps == {"idle", "opened", "probe", "call", "success", "reclose", "failure", "trip",
          "retrip", "stamp"}

BreakerInit ==
  /\ state = "Closed"
  /\ failures = 0
  /\ age = Timeout
  /\ step = [p \in Callers |-> "idle"]
  /\ up \in BOOLEAN

At(p, s) == step' = [step EXCEPT ![p] = s]

\* allow: the state is loaded.
LoadState(p) ==
  /\ step[p] = "idle"
  /\ At(p, IF state = "Open" THEN "opened" ELSE "call")
  /\ UNCHANGED <<state, failures, age, up>>

\* allow: the circuit was open; the call is skipped until the timeout.
LoadOpenedAt_Never(p) ==
  /\ step[p] = "opened"
  /\ At(p, "idle")
  /\ UNCHANGED <<state, failures, age, up>>

LoadOpenedAt(p) ==
  /\ step[p] = "opened"
  /\ At(p, IF age >= Timeout THEN "probe" ELSE "idle")
  /\ UNCHANGED <<state, failures, age, up>>

\* allow: the swap to half-open, whose failure does not stop the caller.
Probe(p) ==
  /\ step[p] = "probe"
  /\ state' = IF state = "Open" THEN "HalfOpen" ELSE state
  /\ At(p, "call")
  /\ UNCHANGED <<failures, age, up>>

\* inner.Get, Set, SetTTL or Delete.
Inner(p) ==
  /\ step[p] = "call"
  /\ At(p, IF up THEN "success" ELSE "failure")
  /\ UNCHANGED <<state, failures, age, up>>

\* recordSuccess: failures.Store(0), then state.Store(Closed).
ResetFailures(p) ==
  /\ step[p] = "success"
  /\ failures' = 0
  /\ At(p, "reclose")
  /\ UNCHANGED <<state, age, up>>

StoreClosed(p) ==
  /\ step[p] = "reclose"
  /\ state' = "Closed"
  /\ At(p, "idle")
  /\ UNCHANGED <<failures, age, up>>

\* recordFailure: the count, and at the threshold the two swaps to open.
CountFailure(p) ==
  /\ step[p] = "failure"
  /\ failures' = IF failures < Threshold THEN failures + 1 ELSE failures
  /\ At(p, IF failures' >= Threshold THEN "trip" ELSE "idle")
  /\ UNCHANGED <<state, age, up>>

TripClosed(p) ==
  /\ step[p] = "trip"
  /\ state' = IF state = "Closed" THEN "Open" ELSE state
  /\ At(p, IF state = "Closed" THEN "stamp" ELSE "retrip")
  /\ UNCHANGED <<failures, age, up>>

TripHalfOpen(p) ==
  /\ step[p] = "retrip"
  /\ state' = IF state = "HalfOpen" THEN "Open" ELSE state
  /\ At(p, IF state = "HalfOpen" THEN "stamp" ELSE "idle")
  /\ UNCHANGED <<failures, age, up>>

\* recordFailure: openedAt.Store(now)
Stamp(p) ==
  /\ step[p] = "stamp"
  /\ age' = 0
  /\ At(p, "idle")
  /\ UNCHANGED <<state, failures, up>>

BreakerTick ==
  /\ age < Timeout
  /\ age' = age + 1
  /\ UNCHANGED <<state, failures, step, up>>

\* The second level goes away or comes back.
UpDown ==
  /\ up' = ~up
  /\ UNCHANGED <<state, failures, age, step>>

CallerStep(p) ==
  \/ LoadState(p) \/ LoadOpenedAt(p) \/ Probe(p) \/ Inner(p)
  \/ ResetFailures(p) \/ StoreClosed(p)
  \/ CountFailure(p) \/ TripClosed(p) \/ TripHalfOpen(p) \/ Stamp(p)

BreakerNext == (\E p \in Callers : CallerStep(p)) \/ BreakerTick \/ UpDown

\* The cache stays in use, and time passes.
BreakerFairness ==
  (\A p \in Callers : WF_breakerVars(CallerStep(p))) /\ WF_breakerVars(BreakerTick)

BreakerSpec == BreakerInit /\ [][BreakerNext]_breakerVars /\ BreakerFairness

-----------------------------------------------------------------------------
(* Properties.                                                             *)

\* The three atomics stay in their ranges.
BreakerTypeOK ==
  /\ state \in {"Closed", "Open", "HalfOpen"}
  /\ failures \in 0..Threshold
  /\ age \in 0..Timeout
  /\ step \in [Callers -> Steps]
  /\ up \in BOOLEAN

\* Once the second level answers for good, the circuit is closed for good:
\* no interleaving of a late failure with the swaps leaves it open.
Recovers == <>[]up => <>[](state = "Closed")
=============================================================================
