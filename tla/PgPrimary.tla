----------------------------- MODULE PgPrimary ------------------------------
(***************************************************************************)
(* The primary pool of a PoolManager (infra/pgw/pool_manager.go): the      *)
(* first connection in initPrimary, the master monitor goroutine that      *)
(* reconnects after a failed health check, and PoolManager.Close.          *)
(*                                                                         *)
(* mon is the one thread of control that supervises the pool: first the    *)
(* caller of NewPoolManager, then the chain of monitor goroutines, each of *)
(* which ends by starting the next one.                                    *)
(***************************************************************************)
EXTENDS PgPool

CONSTANTS
  Master,
  \* A monitor that has been started subscribes before the health checker's
  \* first tick.  The code does not order the two; with the default interval
  \* of five seconds the scheduler almost always does.
  PromptSubscribe

ASSUME PrimaryAssumption ==
  /\ Hosts = {Master}
  /\ PromptSubscribe \in BOOLEAN

VARIABLES
  mon,         \* program counter of the supervising thread
  mgrClosed    \* PoolManager.closeChan is closed

vars == <<poolVars, mon, mgrClosed>>

MonPc == {"init",        \* initPrimary waits for ConnectWithRetry
          "aborted",     \* initPrimary failed; NewPoolManager returned an error
          "spawned",     \* go startMasterMonitor(), not yet subscribed
          "wait",        \* selects on the state channel and closeChan
          "delay",       \* reconnectMasterLoop selects on RetryInterval
          "reconnect",   \* reconnectMasterLoop waits for ConnectWithRetry
          "none"}        \* the monitor returned

TypeOK ==
  /\ PoolTypeOK
  /\ mon \in MonPc
  /\ mgrClosed \in BOOLEAN

Init ==
  /\ newPool
  /\ mon = "init"
  /\ mgrClosed = FALSE

\* Has NewPoolManager returned a manager to the application?
Published == mon \notin {"init", "aborted"}

\* PoolManager.Primary: does it return the pool rather than ErrUnreachable?
Primary == Published /\ state[Master] = "connected"

-----------------------------------------------------------------------------
Pool(A) == A /\ UNCHANGED <<mon, mgrClosed>>

\* initPrimary: ConnectWithRetry returned nil.
InitConnected ==
  /\ mon = "init"
  /\ conn[Master] = "ok"
  /\ conn' = [conn EXCEPT ![Master] = "idle"]
  /\ mon' = "spawned"
  /\ UNCHANGED <<up, schemaOk, state, sub, ch, attempt, hc, closing, mgrClosed>>

\* initPrimary: ConnectWithRetry failed; the pool is closed.
InitFailed ==
  /\ mon = "init"
  /\ conn[Master] = "failed"
  /\ conn' = [conn EXCEPT ![Master] = "idle"]
  /\ CloseTo(Master, "open", "signalled")
  /\ mon' = "aborted"
  /\ UNCHANGED <<up, schemaOk, state, sub, ch, attempt, hc, mgrClosed>>

\* startMasterMonitor subscribes to the state changes that follow.
MonitorSubscribe ==
  /\ mon = "spawned"
  /\ SubscribeChange(Master)
  /\ mon' = "wait"
  /\ UNCHANGED <<up, schemaOk, state, conn, attempt, hc, closing, mgrClosed>>

\* A state has arrived on the monitor's channel.
Received(s) ==
  /\ mon = "wait"
  /\ ch[Master] # <<>>
  /\ Head(ch[Master]) = s

\* A monitor that leaves its loop on an error without reconnecting.
MonitorError_Returns ==
  /\ Received("error")
  /\ mon' = "none"
  /\ Unsubscribe(Master)
  /\ UNCHANGED <<up, schemaOk, state, conn, attempt, hc, closing, mgrClosed>>

\* An error: the monitor enters reconnectMasterLoop.
MonitorError ==
  /\ Received("error")
  /\ mon' = "delay"
  /\ Unsubscribe(Master)
  /\ UNCHANGED <<up, schemaOk, state, conn, attempt, hc, closing, mgrClosed>>

\* The channel is closed: the monitor returns.
MonitorClosed ==
  /\ Received("eof")
  /\ mon' = "none"
  /\ Unsubscribe(Master)
  /\ UNCHANGED <<up, schemaOk, state, conn, attempt, hc, closing, mgrClosed>>

\* It ignores any other state.
MonitorIgnore ==
  /\ \E s \in PoolState \ {"error"} : Received(s)
  /\ ch' = [ch EXCEPT ![Master] = Tail(@)]
  /\ UNCHANGED <<up, schemaOk, state, sub, conn, attempt, hc, closing, mon, mgrClosed>>

\* A reconnectMasterLoop that does not select on closeChan.
MonitorStop_WaitOnly ==
  /\ mon = "wait"
  /\ mgrClosed
  /\ mon' = "none"
  /\ Unsubscribe(Master)
  /\ UNCHANGED <<up, schemaOk, state, conn, attempt, hc, closing, mgrClosed>>

\* closeChan ends the monitor, in startMasterMonitor and in reconnectMasterLoop.
MonitorStop ==
  /\ mon \in {"wait", "delay"}
  /\ mgrClosed
  /\ mon' = "none"
  /\ Unsubscribe(Master)
  /\ UNCHANGED <<up, schemaOk, state, conn, attempt, hc, closing, mgrClosed>>

\* reconnectMasterLoop: RetryInterval elapsed.
ReconnectBegin ==
  /\ mon = "delay"
  /\ ConnectBegin(Master)
  /\ mon' = "reconnect"
  /\ UNCHANGED <<up, schemaOk, state, sub, ch, hc, closing, mgrClosed>>

\* A loop that gives up after the first failed ConnectWithRetry.
ReconnectFailed_GivesUp ==
  /\ mon = "reconnect"
  /\ conn[Master] = "failed"
  /\ conn' = [conn EXCEPT ![Master] = "idle"]
  /\ mon' = "none"
  /\ UNCHANGED <<up, schemaOk, state, sub, ch, attempt, hc, closing, mgrClosed>>

\* It failed: around the loop again.
ReconnectFailed ==
  /\ mon = "reconnect"
  /\ conn[Master] = "failed"
  /\ conn' = [conn EXCEPT ![Master] = "idle"]
  /\ mon' = "delay"
  /\ UNCHANGED <<up, schemaOk, state, sub, ch, attempt, hc, closing, mgrClosed>>

\* It succeeded: the next monitor starts and this one returns.
ReconnectOk ==
  /\ mon = "reconnect"
  /\ conn[Master] = "ok"
  /\ conn' = [conn EXCEPT ![Master] = "idle"]
  /\ mon' = "spawned"
  /\ UNCHANGED <<up, schemaOk, state, sub, ch, attempt, hc, closing, mgrClosed>>

\* PoolManager.Close, called once by the application: close(c.closeChan).
ManagerClose ==
  /\ Published
  /\ ~mgrClosed
  /\ mgrClosed' = TRUE
  /\ UNCHANGED <<poolVars, mon>>

\* PoolManager.Close: c.master.Close().
MasterClose ==
  /\ mgrClosed
  /\ Pool(CloseSignal(Master))

\* ConnectWithRetry has succeeded and the monitor has yet to subscribe.
Subscribing == conn[Master] = "ok" \/ mon = "spawned"

HealthStep ==
  \/ (PromptSubscribe => ~Subscribing) /\ Pool(HealthPing(Master))
  \/ Pool(HealthError(Master))
  \/ Pool(HealthMark(Master))
  \/ Pool(HealthStop(Master))

MonitorStep ==
  \/ InitConnected
  \/ InitFailed
  \/ MonitorSubscribe
  \/ MonitorError
  \/ MonitorClosed
  \/ MonitorIgnore
  \/ MonitorStop
  \/ ReconnectBegin
  \/ ReconnectFailed
  \/ ReconnectOk

Next ==
  \/ Pool(ConnectStep(Master))
  \/ HealthStep
  \/ MonitorStep
  \/ ManagerClose
  \/ MasterClose
  \/ Pool(CloseStep(Master))
  \/ Pool(ServerChange(Master))
  \/ Pool(SchemaChange)

(***************************************************************************)
(* Every goroutine keeps running and every ping returns (its context has a *)
(* deadline).  Where a select has closeChan and a timer ready at once, Go  *)
(* picks at random, so closeChan is not passed over for ever: strong       *)
(* fairness of the branches that end a loop.  The application need never   *)
(* close the manager and servers change at will.                           *)
(***************************************************************************)
Fairness ==
  /\ WF_vars(Pool(ConnectStep(Master)))
  /\ WF_vars(HealthStep)
  /\ WF_vars(MonitorStep)
  /\ SF_vars(MonitorStop)
  /\ SF_vars(Pool(HealthStop(Master)))
  /\ WF_vars(MasterClose)
  /\ WF_vars(Pool(CloseStep(Master)))

Spec == Init /\ [][Next]_vars /\ Fairness

-----------------------------------------------------------------------------
(***************************************************************************)
(* Properties                                                              *)
(***************************************************************************)

\* A ConnectWithRetry call that runs never finds a health checker of an earlier
\* Connect still alive, so "go h.healthCheck()" in Connect never starts a second
\* one beside it, through any sequence of failures and reconnects.
OneHealthCheck ==
  conn[Master] \notin {"idle", "ok"} => hc[Master] = "none"

\* The state channel that SubscribeChange makes never has to drop a change: its
\* four places are enough for every change one monitor can fall behind by, so
\* the non-blocking send in notifyChange loses nothing.
NoChangeDropped ==
  sub[Master] => Len(ch[Master]) < ChanCap

Holds(q, s) == \E i \in DOMAIN q : q[i] = s

\* While the manager is open, an error state that the monitor could see is being
\* dealt with: the pool is being connected, or the monitor waits to reconnect,
\* or the error is in the monitor's channel.
ErrorIsHandled ==
  state[Master] = "error" /\ closing[Master] = "open" /\ ~mgrClosed =>
    \/ mon \in {"init", "delay", "reconnect"}
    \/ mon = "wait" /\ Holds(ch[Master], "error")

\* README: "automatic reconnects".  Once the server stays up and the schema
\* stays migrated, Primary() returns the pool for good, unless the pool is closed
\* or NewPoolManager has failed.
AutoReconnect ==
  <>[](up[Master] /\ schemaOk) => <>[](Primary \/ closing[Master] # "open")

\* After PoolManager.Close every goroutine of the primary returns: the health
\* checker, the monitor and a reconnect in progress.
CloseStopsAll ==
  mgrClosed ~> [](hc[Master] = "none" /\ mon = "none" /\ conn[Master] = "idle")
=============================================================================
