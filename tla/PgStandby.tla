----------------------------- MODULE PgStandby ------------------------------
(***************************************************************************)
(* The standby pools of a PoolManager (infra/pgw/standby_manager.go).  A   *)
(* host lives in the store of hosts that Pick chooses from, or in the      *)
(* unhealthy store whose hosts the retry loop tries to reconnect; four     *)
(* kinds of goroutine move it between the two.                             *)
(*                                                                         *)
(* task[h] is the goroutine that drives ConnectWithRetry on the host (the  *)
(* one of AddStandby, then those of monitorUnhealthy), mon[h] the host's   *)
(* monitorStateChange goroutine.  The hosts' DSNs, the keys of the two     *)
(* maps, are distinct.                                                     *)
(***************************************************************************)
EXTENDS PgPool

VARIABLES
  store,        \* standbyManager.store, its hosts
  unhealthy,    \* standbyManager.unhealthyStore, its hosts
  task, mon,
  round,        \* program counter of the monitorUnhealthy goroutine
  closer,       \* how far standbyManager.Close has come
  prompt        \* never changes: does a started monitor subscribe, and a recovered
                \* host reach the store, before the health checker's first tick (see
                \* PromptSubscribe in PgPrimary)

mgrVars == <<store, unhealthy, task, mon, round, closer, prompt>>
vars == <<poolVars, mgrVars>>

TaskPc == {"add",         \* AddStandby's goroutine runs ConnectWithRetry
           "none",
           "check",       \* a retry goroutine is about to read the state
           "retry",       \* it runs ConnectWithRetry
           "recovered",   \* it has put the host in needMoveToHealthy
           "move",        \* the moving goroutine has started the monitor
           "place"}       \* it has removed the host from unhealthyStore

MonPc == {"none", "spawned", "wait",
          "move"}         \* moveToUnhealthy has removed the host from store

ClosePhase == {"open", "store", "unhealthy", "done"}

TypeOK ==
  /\ PoolTypeOK
  /\ store \subseteq Hosts
  /\ unhealthy \subseteq Hosts
  /\ task \in [Hosts -> TaskPc]
  /\ mon \in [Hosts -> MonPc]
  /\ round \in {"idle", "busy", "stopped"}
  /\ closer \in ClosePhase
  /\ prompt \in BOOLEAN

\* NewPoolManager has called AddStandby for every DSN.
Init ==
  /\ newPool
  /\ store = {}
  /\ unhealthy = {}
  /\ task = [h \in Hosts |-> "add"]
  /\ mon = [h \in Hosts |-> "none"]
  /\ round = "idle"
  /\ closer = "open"
  /\ prompt \in BOOLEAN

-----------------------------------------------------------------------------
Pool(A) == A /\ UNCHANGED mgrVars

\* close(rm.closeChan) is the first thing Close does.
ChanClosed == closer # "open"

\* SafeMap.Range holds the map's read lock while Close visits its hosts, so a
\* Set or Remove on that map waits.
StoreFree     == closer # "store"
UnhealthyFree == closer # "unhealthy"

\* The result of ConnectWithRetry is taken by the goroutine that called it.
Returned(h, result) ==
  /\ conn[h] = result
  /\ conn' = [conn EXCEPT ![h] = "idle"]
  /\ UNCHANGED <<up, schemaOk, state, sub, ch, attempt, hc, closing>>

\* AddStandby: connected; the host enters the store and its monitor starts.
AddOk(h) ==
  /\ task[h] = "add"
  /\ StoreFree
  /\ Returned(h, "ok")
  /\ store' = store \cup {h}
  /\ task' = [task EXCEPT ![h] = "none"]
  /\ mon' = [mon EXCEPT ![h] = "spawned"]
  /\ UNCHANGED <<unhealthy, round, closer, prompt>>

\* AddStandby: not connected; the host enters the unhealthy store.
AddFailed(h) ==
  /\ task[h] = "add"
  /\ UnhealthyFree
  /\ Returned(h, "failed")
  /\ unhealthy' = unhealthy \cup {h}
  /\ task' = [task EXCEPT ![h] = "none"]
  /\ UNCHANGED <<store, mon, round, closer, prompt>>

(***************************************************************************)
(* monitorStateChange and moveToUnhealthy                                  *)
(***************************************************************************)
MonitorSubscribe(h) ==
  /\ mon[h] = "spawned"
  /\ SubscribeChange(h)
  /\ mon' = [mon EXCEPT ![h] = "wait"]
  /\ UNCHANGED <<up, schemaOk, state, conn, attempt, hc, closing>>
  /\ UNCHANGED <<store, unhealthy, task, round, closer, prompt>>

\* An error: moveToUnhealthy takes the host out of the store, if it is there.
MonitorError(h) ==
  /\ mon[h] = "wait" /\ ch[h] # <<>> /\ Head(ch[h]) = "error"
  /\ StoreFree
  /\ store' = store \ {h}
  /\ mon' = [mon EXCEPT ![h] = IF h \in store THEN "move" ELSE "none"]
  /\ Unsubscribe(h)
  /\ UNCHANGED <<up, schemaOk, state, conn, attempt, hc, closing>>
  /\ UNCHANGED <<unhealthy, task, round, closer, prompt>>

\* A monitor that forgets the host it took out of the store.
MonitorMove_Forgets(h) ==
  /\ mon[h] = "move"
  /\ UnhealthyFree
  /\ mon' = [mon EXCEPT ![h] = "none"]
  /\ UNCHANGED <<poolVars, store, unhealthy, task, round, closer, prompt>>

\* moveToUnhealthy, second step.
MonitorMove(h) ==
  /\ mon[h] = "move"
  /\ UnhealthyFree
  /\ unhealthy' = unhealthy \cup {h}
  /\ mon' = [mon EXCEPT ![h] = "none"]
  /\ UNCHANGED <<poolVars, store, task, round, closer, prompt>>

\* The pool was closed: the host leaves the store.
MonitorClosed(h) ==
  /\ mon[h] = "wait" /\ ch[h] # <<>> /\ Head(ch[h]) = "closed"
  /\ StoreFree
  /\ store' = store \ {h}
  /\ mon' = [mon EXCEPT ![h] = "none"]
  /\ Unsubscribe(h)
  /\ UNCHANGED <<up, schemaOk, state, conn, attempt, hc, closing>>
  /\ UNCHANGED <<unhealthy, task, round, closer, prompt>>

\* Any other state is ignored.
MonitorIgnore(h) ==
  /\ mon[h] = "wait" /\ ch[h] # <<>> /\ Head(ch[h]) = "connected"
  /\ ch' = [ch EXCEPT ![h] = Tail(@)]
  /\ UNCHANGED <<up, schemaOk, state, sub, conn, attempt, hc, closing>>
  /\ UNCHANGED mgrVars

\* The channel was closed, or the manager was.
MonitorStop(h) ==
  /\ mon[h] = "wait"
  /\ ChanClosed \/ (ch[h] # <<>> /\ Head(ch[h]) = "eof")
  /\ mon' = [mon EXCEPT ![h] = "none"]
  /\ Unsubscribe(h)
  /\ UNCHANGED <<up, schemaOk, state, conn, attempt, hc, closing>>
  /\ UNCHANGED <<store, unhealthy, task, round, closer, prompt>>

(***************************************************************************)
(* monitorUnhealthy.  UnhealthyReplicaRetryInterval is thirty minutes (no  *)
(* configuration changes it: see PgConfig), so the goroutines that one     *)
(* round starts at its end have finished before the next round.            *)
(***************************************************************************)
\* A round that ranges over the wrong map.
RoundBegin_WrongMap ==
  /\ round = "idle"
  /\ store # {}
  /\ \A h \in Hosts : task[h] \in {"add", "none"}
  /\ round' = "busy"
  /\ task' = [h \in Hosts |-> IF h \in store THEN "check" ELSE task[h]]
  /\ UNCHANGED <<poolVars, store, unhealthy, mon, closer, prompt>>

\* The timer fires and there are unhealthy hosts: one goroutine for each.
RoundBegin ==
  /\ round = "idle"
  /\ unhealthy # {}
  /\ \A h \in Hosts : task[h] \in {"add", "none"}
  /\ round' = "busy"
  /\ task' = [h \in Hosts |-> IF h \in unhealthy THEN "check" ELSE task[h]]
  /\ UNCHANGED <<poolVars, store, unhealthy, mon, closer, prompt>>

\* A retry goroutine: a closed host is dropped.
RetryDrop(h) ==
  /\ task[h] = "check"
  /\ UnhealthyFree
  /\ state[h] = "closed"
  /\ unhealthy' = unhealthy \ {h}
  /\ task' = [task EXCEPT ![h] = "none"]
  /\ UNCHANGED <<poolVars, store, mon, round, closer, prompt>>

RetryBegin(h) ==
  /\ task[h] = "check"
  /\ state[h] # "closed"
  /\ ConnectBegin(h)
  /\ task' = [task EXCEPT ![h] = "retry"]
  /\ UNCHANGED <<up, schemaOk, state, sub, ch, hc, closing>>
  /\ UNCHANGED <<store, unhealthy, mon, round, closer, prompt>>

RetryReturn(h) ==
  /\ task[h] = "retry"
  /\ \/ Returned(h, "ok")     /\ task' = [task EXCEPT ![h] = "recovered"]
     \/ Returned(h, "failed") /\ task' = [task EXCEPT ![h] = "none"]
  /\ UNCHANGED <<store, unhealthy, mon, round, closer, prompt>>

\* wg.Wait returns; each recovered host gets its monitor and a goroutine that
\* moves it.
RoundEnd ==
  /\ round = "busy"
  /\ \A h \in Hosts : task[h] \notin {"check", "retry"}
  /\ round' = "idle"
  /\ task' = [h \in Hosts |-> IF task[h] = "recovered" THEN "move" ELSE task[h]]
  /\ mon' = [h \in Hosts |-> IF task[h] = "recovered" THEN "spawned" ELSE mon[h]]
  /\ UNCHANGED <<poolVars, store, unhealthy, closer, prompt>>

RoundStop ==
  /\ round = "idle"
  /\ ChanClosed
  /\ round' = "stopped"
  /\ UNCHANGED <<poolVars, store, unhealthy, task, mon, closer, prompt>>

MoveOut(h) ==
  /\ task[h] = "move"
  /\ UnhealthyFree
  /\ unhealthy' = unhealthy \ {h}
  /\ task' = [task EXCEPT ![h] = "place"]
  /\ UNCHANGED <<poolVars, store, mon, round, closer, prompt>>

MoveIn(h) ==
  /\ task[h] = "place"
  /\ StoreFree
  /\ store' = store \cup {h}
  /\ task' = [task EXCEPT ![h] = "none"]
  /\ UNCHANGED <<poolVars, unhealthy, mon, round, closer, prompt>>

(***************************************************************************)
(* standbyManager.Close, and an application that closes the pool it picked *)
(***************************************************************************)
ManagerClose ==
  /\ closer = "open"
  /\ closer' = "store"
  /\ UNCHANGED <<poolVars, store, unhealthy, task, mon, round, prompt>>

\* Range calls Close on every host of the map, in any order; that it waits for
\* one before the next is left out.
Visited == IF closer = "store" THEN store
           ELSE IF closer = "unhealthy" THEN unhealthy ELSE {}

HostClose(h) ==
  /\ h \in Visited
  /\ Pool(CloseSignal(h))

CloserNext ==
  /\ closer \in {"store", "unhealthy"}
  /\ \A h \in Visited : closing[h] = "done"
  /\ closer' = IF closer = "store" THEN "unhealthy" ELSE "done"
  /\ UNCHANGED <<poolVars, store, unhealthy, task, mon, round, prompt>>

ApplicationClose(h) ==
  /\ h \in store
  /\ Pool(CloseSignal(h))

-----------------------------------------------------------------------------
MonitorStep(h) ==
  \/ MonitorSubscribe(h)
  \/ MonitorError(h)
  \/ MonitorMove(h)
  \/ MonitorClosed(h)
  \/ MonitorIgnore(h)
  \/ MonitorStop(h)

TaskStep(h) ==
  \/ AddOk(h)
  \/ AddFailed(h)
  \/ RetryDrop(h)
  \/ RetryBegin(h)
  \/ RetryReturn(h)
  \/ MoveOut(h)
  \/ MoveIn(h)

RoundStep == RoundBegin \/ RoundEnd \/ RoundStop

Subscribing(h) ==
  conn[h] = "ok" \/ task[h] \in {"recovered", "move", "place"} \/ mon[h] = "spawned"

HealthStep(h) ==
  \/ (prompt => ~Subscribing(h)) /\ Pool(HealthPing(h))
  \/ Pool(HealthError(h))
  \/ Pool(HealthMark(h))
  \/ Pool(HealthStop(h))

Next ==
  \/ \E h \in Hosts :
       \/ Pool(ConnectStep(h))
       \/ HealthStep(h)
       \/ MonitorStep(h)
       \/ TaskStep(h)
       \/ HostClose(h)
       \/ ApplicationClose(h)
       \/ Pool(CloseStep(h))
       \/ Pool(ServerChange(h))
  \/ RoundStep
  \/ ManagerClose
  \/ CloserNext
  \/ Pool(SchemaChange)

\* As in PgPrimary: goroutines run, a ready closeChan is not passed over for
\* ever.  The locks that StoreFree and UnhealthyFree stand for are held for a
\* bounded time and Go's RWMutex lets no writer starve.
Fairness ==
  /\ \A h \in Hosts :
       /\ WF_vars(Pool(ConnectStep(h)))
       /\ WF_vars(HealthStep(h))
       /\ SF_vars(Pool(HealthStop(h)))
       /\ WF_vars(MonitorStep(h))
       /\ WF_vars(TaskStep(h))
       /\ WF_vars(HostClose(h))
       /\ WF_vars(Pool(CloseStep(h)))
  /\ WF_vars(RoundBegin \/ RoundEnd)
  /\ SF_vars(RoundStop)
  /\ WF_vars(CloserNext)

Spec == Init /\ [][Next]_vars /\ Fairness

-----------------------------------------------------------------------------
(***************************************************************************)
(* Properties                                                              *)
(***************************************************************************)

\* A host has one supervisor.  While a goroutine that may start a monitor is at work on
\* it, the previous monitorStateChange has returned, so there are never two; and while
\* ConnectWithRetry runs on it, Pick does not offer it.
OneSupervisor ==
  \A h \in Hosts :
    /\ task[h] \in {"add", "check", "retry", "recovered"} => mon[h] = "none"
    /\ conn[h] # "idle" => h \notin store

\* README on Standby: "Errors with ErrUnreachable if none are healthy".  Where
\* monitors are prompt, a host whose health check failed does not stay in the map
\* that Pick chooses from.
FailedHostLeaves ==
  \A h \in Hosts :
    (prompt /\ h \in store /\ state[h] = "error")
      ~> (h \notin store \/ state[h] # "error" \/ closing[h] # "open" \/ ChanClosed)

\* Where monitors are prompt, a standby whose server is up for good and whose schema
\* is migrated for good is connected and picked for good, unless it or the manager
\* is closed.
StandbyRecovers ==
  \A h \in Hosts :
    <>[](prompt /\ up[h] /\ schemaOk)
      => <>[](\/ h \in store /\ state[h] = "connected"
             \/ closing[h] # "open"
             \/ ChanClosed)
=============================================================================
