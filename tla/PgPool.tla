------------------------------- MODULE PgPool -------------------------------
(***************************************************************************)
(* One PostgreSQL connection pool of infra/pgw: poolState (pool_state.go)  *)
(* and Pool (pool.go).  The module holds the state of every pool and the   *)
(* steps of the three activities a pool has: a ConnectWithRetry call, the  *)
(* healthCheck goroutine that a successful Connect starts, and Close.      *)
(* PgPrimary and PgStandby compose these steps with the goroutines that    *)
(* supervise the pools.                                                    *)
(*                                                                         *)
(* Every field is a function on Hosts.  A pool has at most one             *)
(* ConnectWithRetry call in progress (reconnectMu), so conn holds its      *)
(* program counter.  hc holds the program counter of the health checker;   *)
(* that there is never a second one is the invariant OneHealthCheck of the *)
(* two supervising modules.                                                *)
(***************************************************************************)
EXTENDS Naturals, Sequences

CONSTANTS
  Hosts,         \* the pools
  MaxAttempts,   \* maxAttempts of ConnectWithRetry
  HasVerifier    \* is a MigrationVerifier configured

ASSUME PoolAssumption ==
  /\ MaxAttempts \in Nat \ {0}
  /\ HasVerifier \in BOOLEAN

VARIABLES
  up,         \* environment: the server answers a ping
  schemaOk,   \* environment: the migration verifier is satisfied
  state,      \* poolState.state
  sub,        \* the supervisor's channel is in notifyChangeChannels
  ch,         \* the supervisor's channel; "eof" is its close
  conn,       \* program counter of ConnectWithRetry
  attempt,    \* its loop variable i
  hc,         \* program counter of the healthCheck goroutine
  closing     \* how far Pool.Close has come

poolVars == <<up, schemaOk, state, sub, ch, conn, attempt, hc, closing>>

PoolState == {"connecting", "connected", "error", "closed"}
ConnPc    == {"idle", "ping", "pingOk", "pingErr", "verify", "verifyErr",
              "backoff", "ok", "failed"}
HcPc      == {"none", "wait", "pingOk", "pingErr"}
ClosePc   == {"open", "signalled", "drained", "marked", "done"}

\* The capacity SubscribeChange gives the channel.
ChanCap == 4

PoolTypeOK ==
  /\ up       \in [Hosts -> BOOLEAN]
  /\ schemaOk \in BOOLEAN
  /\ state    \in [Hosts -> PoolState]
  /\ sub      \in [Hosts -> BOOLEAN]
  /\ ch       \in [Hosts -> Seq(PoolState \cup {"eof"})]
  /\ conn     \in [Hosts -> ConnPc]
  /\ attempt  \in [Hosts -> Nat \ {0}]
  /\ hc       \in [Hosts -> HcPc]
  /\ closing  \in [Hosts -> ClosePc]

\* newPool, for a pool whose first ConnectWithRetry call is about to run.
newPool ==
  /\ up       \in [Hosts -> BOOLEAN]
  /\ schemaOk \in BOOLEAN
  /\ state    = [h \in Hosts |-> "connecting"]
  /\ sub      = [h \in Hosts |-> FALSE]
  /\ ch       = [h \in Hosts |-> <<>>]
  /\ conn     = [h \in Hosts |-> "ping"]
  /\ attempt  = [h \in Hosts |-> 1]
  /\ hc       = [h \in Hosts |-> "none"]
  /\ closing  = [h \in Hosts |-> "open"]

(***************************************************************************)
(* poolState                                                               *)
(***************************************************************************)

\* A set without notification, and one that notifies even without a change.
Set_Silent(h, s) ==
  /\ state' = [state EXCEPT ![h] = s]
  /\ UNCHANGED ch

Set_Always(h, s) ==
  /\ state' = [state EXCEPT ![h] = s]
  /\ ch' = [ch EXCEPT ![h] = IF sub[h] THEN Append(@, s) ELSE @]

\* Assign and notify without blocking, only on a change, under stateMu.  The
\* callers' own "if Get() != s" test before Set(s) adds nothing to this test.
Set(h, s) ==
  IF state[h] = s
  THEN UNCHANGED <<state, ch>>
  ELSE /\ state' = [state EXCEPT ![h] = s]
       /\ ch' = [ch EXCEPT ![h] =
                   IF sub[h] /\ Len(@) < ChanCap THEN Append(@, s) ELSE @]

\* A fresh, empty channel joins the list.  (The goroutine that takes the
\* channel out again when the subscriber is gone touches no state but that
\* channel, which nobody reads any more.)
SubscribeChange(h) ==
  /\ sub' = [sub EXCEPT ![h] = TRUE]
  /\ ch'  = [ch EXCEPT ![h] = <<>>]

Unsubscribe(h) ==
  /\ sub' = [sub EXCEPT ![h] = FALSE]
  /\ ch'  = [ch EXCEPT ![h] = <<>>]

(***************************************************************************)
(* Pool.Connect and Pool.ConnectWithRetry                                  *)
(***************************************************************************)

\* External: pgxpool.Ping and Acquire succeed on a live server until
\* pgxpool.Close has returned.
Reachable(h) == up[h] /\ closing[h] \in {"open", "signalled"}

\* A call of ConnectWithRetry takes reconnectMu and starts its loop.
ConnectBegin(h) ==
  /\ conn[h] = "idle"
  /\ conn'    = [conn EXCEPT ![h] = "ping"]
  /\ attempt' = [attempt EXCEPT ![h] = 1]

\* validateHealth, first half: the answer of the ping.
ConnectPing(h) ==
  /\ conn[h] = "ping"
  /\ conn' = [conn EXCEPT ![h] = IF Reachable(h) THEN "pingOk" ELSE "pingErr"]
  /\ UNCHANGED <<up, schemaOk, state, sub, ch, attempt, hc, closing>>

\* An attempt failed: wait for the next one, or give up after the last.
AfterFailure(h) ==
  conn' = [conn EXCEPT ![h] =
             IF attempt[h] < MaxAttempts THEN "backoff" ELSE "failed"]

\* validateHealth, second half, and the verifier's failure: a failed attempt.
ConnectError(h) ==
  /\ conn[h] \in {"pingErr", "verifyErr"}
  /\ Set(h, "error")
  /\ AfterFailure(h)
  /\ UNCHANGED <<up, schemaOk, sub, attempt, hc, closing>>

\* validateHealth, second half: the pool is marked connected before the
\* migration has been verified.
ConnectMark(h) ==
  /\ conn[h] = "pingOk"
  /\ Set(h, "connected")
  /\ conn' = [conn EXCEPT ![h] = "verify"]
  /\ UNCHANGED <<up, schemaOk, sub, attempt, hc, closing>>

\* verifyMigration succeeds (or no verifier is configured); Connect starts the
\* health checker and the retry loop returns nil.
ConnectVerified(h) ==
  /\ conn[h] = "verify"
  /\ (HasVerifier => Reachable(h) /\ schemaOk)
  /\ conn' = [conn EXCEPT ![h] = "ok"]
  /\ hc'   = [hc EXCEPT ![h] = "wait"]
  /\ UNCHANGED <<up, schemaOk, state, sub, ch, attempt, closing>>

\* verifyMigration fails: Acquire or the verifier returned an error.
ConnectUnverified(h) ==
  /\ conn[h] = "verify"
  /\ HasVerifier
  /\ ~(Reachable(h) /\ schemaOk)
  /\ conn' = [conn EXCEPT ![h] = "verifyErr"]
  /\ UNCHANGED <<up, schemaOk, state, sub, ch, attempt, hc, closing>>

\* The backoff timer fires: the next attempt.
ConnectRetry(h) ==
  /\ conn[h] = "backoff"
  /\ conn'    = [conn EXCEPT ![h] = "ping"]
  /\ attempt' = [attempt EXCEPT ![h] = @ + 1]
  /\ UNCHANGED <<up, schemaOk, state, sub, ch, hc, closing>>

\* "pool closed while waiting for reconnect"
ConnectAbort(h) ==
  /\ conn[h] = "backoff"
  /\ closing[h] # "open"
  /\ conn' = [conn EXCEPT ![h] = "failed"]
  /\ UNCHANGED <<up, schemaOk, state, sub, ch, attempt, hc, closing>>

ConnectStep(h) ==
  \/ ConnectPing(h)
  \/ ConnectError(h)
  \/ ConnectMark(h)
  \/ ConnectVerified(h)
  \/ ConnectUnverified(h)
  \/ ConnectRetry(h)
  \/ ConnectAbort(h)

(***************************************************************************)
(* Pool.healthCheck                                                        *)
(***************************************************************************)

\* The ticker fires; the answer of the ping.
HealthPing(h) ==
  /\ hc[h] = "wait"
  /\ hc' = [hc EXCEPT ![h] = IF Reachable(h) THEN "pingOk" ELSE "pingErr"]
  /\ UNCHANGED <<up, schemaOk, state, sub, ch, conn, attempt, closing>>

\* A failed ping ends the goroutine.
HealthError(h) ==
  /\ hc[h] = "pingErr"
  /\ Set(h, "error")
  /\ hc' = [hc EXCEPT ![h] = "none"]
  /\ UNCHANGED <<up, schemaOk, sub, conn, attempt, closing>>

HealthMark(h) ==
  /\ hc[h] = "pingOk"
  /\ Set(h, "connected")
  /\ hc' = [hc EXCEPT ![h] = "wait"]
  /\ UNCHANGED <<up, schemaOk, sub, conn, attempt, closing>>

\* closeChan ends the goroutine.
HealthStop(h) ==
  /\ hc[h] = "wait"
  /\ closing[h] # "open"
  /\ hc' = [hc EXCEPT ![h] = "none"]
  /\ UNCHANGED <<up, schemaOk, state, sub, ch, conn, attempt, closing>>

(***************************************************************************)
(* Pool.Close, a sync.Once body of four steps                              *)
(***************************************************************************)

CloseTo(h, from, to) ==
  /\ closing[h] = from
  /\ closing' = [closing EXCEPT ![h] = to]

\* close(h.closeChan)
CloseSignal(h) ==
  /\ CloseTo(h, "open", "signalled")
  /\ UNCHANGED <<up, schemaOk, state, sub, ch, conn, attempt, hc>>

\* h.pool.Close()
CloseDrain(h) ==
  /\ CloseTo(h, "signalled", "drained")
  /\ UNCHANGED <<up, schemaOk, state, sub, ch, conn, attempt, hc>>

\* poolState.Close: Set(HostStateClosed)
CloseMark(h) ==
  /\ CloseTo(h, "drained", "marked")
  /\ Set(h, "closed")
  /\ UNCHANGED <<up, schemaOk, sub, conn, attempt, hc>>

\* poolState.Close: the subscribers' channels are closed and forgotten.
CloseSubscribers(h) ==
  /\ CloseTo(h, "marked", "done")
  /\ sub' = [sub EXCEPT ![h] = FALSE]
  /\ ch'  = [ch EXCEPT ![h] = IF sub[h] THEN Append(@, "eof") ELSE @]
  /\ UNCHANGED <<up, schemaOk, state, conn, attempt, hc>>

CloseStep(h) == CloseDrain(h) \/ CloseMark(h) \/ CloseSubscribers(h)

(***************************************************************************)
(* The environment: servers come and go, migrations are applied.           *)
(***************************************************************************)
ServerChange(h) ==
  /\ up' = [up EXCEPT ![h] = ~@]
  /\ UNCHANGED <<schemaOk, state, sub, ch, conn, attempt, hc, closing>>

SchemaChange ==
  /\ HasVerifier
  /\ schemaOk' = ~schemaOk
  /\ UNCHANGED <<up, state, sub, ch, conn, attempt, hc, closing>>
=============================================================================
