-------------------------- MODULE ConsulHeartbeat --------------------------
(***************************************************************************)
(* The registration side of the Consul client (infra/discovery/consul/     *)
(* client.go): Register with prepareHeartbeat, registerService and         *)
(* startHeartbeat, the heartbeat goroutine with sendTTL and retryRegister, *)
(* and Deregister.                                                         *)
(*                                                                         *)
(* The operations on different service ids do not interact, so there is    *)
(* one id.  Every Register makes one canceler; they are numbered.  A       *)
(* request to the agent takes effect at one moment, between its call and   *)
(* its return, or fails without effect.                                    *)
(***************************************************************************)
EXTENDS Integers, FiniteSets

CONSTANTS
  Procs,        \* goroutines of the application that call the client
  Registrars,   \* those of them that call Register
  CanDisable,   \* may SetHeartbeatEnabled(false) be called while they run
  MaxCc,        \* bound: Register calls
  MaxForgets    \* bound: how often the agent loses the registration

ASSUME HeartbeatAssumption ==
  /\ Registrars \subseteq Procs
  /\ CanDisable \in BOOLEAN
  /\ MaxCc \in Nat /\ MaxForgets \in Nat

Ccs == 1..MaxCc

VARIABLES
  registered,   \* the agent knows the service
  forgets,      \* how often it forgot it
  heartbeat,    \* Client.heartbeat
  cancelers,    \* Client.cancelers[id]: a canceler, or 0
  issued,         \* how many cancelers were issued
  cancelled,    \* canceler.ctx is cancelled
  done,         \* canceler.done is closed
  hb,           \* program counter of the canceler's heartbeat goroutine
  call,           \* program counter of a caller
  mine,         \* the canceler it waits for or issued, or 0
  app           \* what the calls that have returned tell the application

agentState == <<registered, forgets>>
heartbeatVars == <<registered, forgets, heartbeat, cancelers, issued, cancelled, done, hb, call, mine, app>>

App == {"none", "busy", "mixed", "failed", "registered", "deregistered", "lost"}

\* While the heartbeat is enabled, a caller past prepareHeartbeat holds a canceler.
HeartbeatTypeOK ==
  /\ registered \in BOOLEAN /\ forgets \in 0..MaxForgets
  /\ heartbeat \in BOOLEAN
  /\ cancelers \in 0..issued /\ issued \in 0..MaxCc
  /\ cancelled \in [Ccs -> BOOLEAN] /\ done \in [Ccs -> BOOLEAN]
  /\ hb \in [Ccs -> {"none", "run", "retry", "ended"}]
  /\ call \in [Procs -> {"idle", "prepare", "call", "start", "deregister"}]
  /\ mine \in [Procs -> 0..issued]
  /\ heartbeat => \A p \in Procs : call[p] \in {"call", "start"} => mine[p] # 0
  /\ app \in App

HeartbeatInit ==
  /\ registered = FALSE /\ forgets = 0
  /\ heartbeat = TRUE
  /\ cancelers = 0 /\ issued = 0
  /\ cancelled = [c \in Ccs |-> FALSE] /\ done = [c \in Ccs |-> FALSE]
  /\ hb = [c \in Ccs |-> "none"]
  /\ call = [p \in Procs |-> "idle"]
  /\ mine = [p \in Procs |-> 0]
  /\ app = "none"

-----------------------------------------------------------------------------
(***************************************************************************)
(* The application's view: the outcome of the last call, if neither        *)
(* another call nor a loss of the registration overlapped it.              *)
(***************************************************************************)
Begin(p) == app' = IF \A q \in Procs \ {p} : call[q] = "idle" THEN "busy" ELSE "mixed"

Return(p, outcome) ==
  /\ call' = [call EXCEPT ![p] = "idle"]
  /\ mine' = [mine EXCEPT ![p] = 0]
  /\ app' = IF app = "busy" THEN outcome ELSE app

\* The heartbeat the caller waits for, if any, is done.
PreviousDone(p) == mine[p] # 0 => done[mine[p]]

(***************************************************************************)
(* Register                                                                *)
(***************************************************************************)

\* prepareHeartbeat finds the previous canceler and cancels it.
RegisterBegin(p) ==
  /\ call[p] = "idle"
  /\ issued < MaxCc
  /\ call' = [call EXCEPT ![p] = IF heartbeat THEN "prepare" ELSE "call"]
  /\ IF heartbeat /\ cancelers # 0
     THEN /\ mine' = [mine EXCEPT ![p] = cancelers]
          /\ cancelled' = [cancelled EXCEPT ![cancelers] = TRUE]
     ELSE UNCHANGED <<mine, cancelled>>
  /\ Begin(p)
  /\ UNCHANGED <<agentState, heartbeat, cancelers, issued, done, hb>>

\* A prepareHeartbeat that does not wait for the previous heartbeat.
RegisterPrepare_NoWait(p) ==
  /\ call[p] = "prepare"
  /\ issued < MaxCc
  /\ issued' = issued + 1
  /\ cancelers' = issued + 1
  /\ mine' = [mine EXCEPT ![p] = issued + 1]
  /\ call' = [call EXCEPT ![p] = "call"]
  /\ UNCHANGED <<agentState, heartbeat, cancelled, done, hb, app>>

\* prepareHeartbeat, when the previous heartbeat is done: a new canceler.
RegisterPrepare(p) ==
  /\ call[p] = "prepare"
  /\ PreviousDone(p)
  /\ issued < MaxCc
  /\ issued' = issued + 1
  /\ cancelers' = issued + 1
  /\ mine' = [mine EXCEPT ![p] = issued + 1]
  /\ call' = [call EXCEPT ![p] = "call"]
  /\ UNCHANGED <<agentState, heartbeat, cancelled, done, hb, app>>

\* registerService succeeds.
RegisterCall(p) ==
  /\ call[p] = "call"
  /\ registered' = TRUE
  /\ call' = [call EXCEPT ![p] = "start"]
  /\ UNCHANGED <<forgets, heartbeat, cancelers, issued, cancelled, done, hb, mine, app>>

\* registerService fails and closes the canceler's done channel.
RegisterCallFails(p) ==
  /\ call[p] = "call"
  /\ done' = IF heartbeat /\ mine[p] # 0 THEN [done EXCEPT ![mine[p]] = TRUE] ELSE done
  /\ Return(p, "failed")
  /\ UNCHANGED <<agentState, heartbeat, cancelers, issued, cancelled, hb>>

\* startHeartbeat, unless it is disabled by now.
RegisterStart(p) ==
  /\ call[p] = "start"
  /\ hb' = IF heartbeat /\ mine[p] # 0 THEN [hb EXCEPT ![mine[p]] = "run"] ELSE hb
  /\ Return(p, "registered")
  /\ UNCHANGED <<agentState, heartbeat, cancelers, issued, cancelled, done>>

\* The goroutine of prepareHeartbeat forgets a canceler that is done.
Cleanup(c) ==
  /\ done[c]
  /\ ~cancelled[c] \/ cancelers = c
  /\ cancelled' = [cancelled EXCEPT ![c] = TRUE]
  /\ cancelers' = IF cancelers = c THEN 0 ELSE cancelers
  /\ UNCHANGED <<agentState, heartbeat, issued, done, hb, call, mine, app>>

(***************************************************************************)
(* Deregister                                                              *)
(***************************************************************************)
DeregisterBegin(p) ==
  /\ call[p] = "idle"
  /\ call' = [call EXCEPT ![p] = "deregister"]
  /\ IF cancelers # 0
     THEN /\ mine' = [mine EXCEPT ![p] = cancelers]
          /\ cancelled' = [cancelled EXCEPT ![cancelers] = TRUE]
     ELSE UNCHANGED <<mine, cancelled>>
  /\ Begin(p)
  /\ UNCHANGED <<agentState, heartbeat, cancelers, issued, done, hb>>

\* The heartbeat is done, and the agent's answer is success or 404.
DeregisterCall(p) ==
  /\ call[p] = "deregister"
  /\ PreviousDone(p)
  /\ registered' = FALSE
  /\ Return(p, "deregistered")
  /\ UNCHANGED <<forgets, heartbeat, cancelers, issued, cancelled, done, hb>>

DeregisterCallFails(p) ==
  /\ call[p] = "deregister"
  /\ PreviousDone(p)
  /\ Return(p, "failed")
  /\ UNCHANGED <<agentState, heartbeat, cancelers, issued, cancelled, done, hb>>

(***************************************************************************)
(* The heartbeat goroutine                                                 *)
(***************************************************************************)

\* A heartbeat that ends without closing done.
HbStop_NoDone(c) ==
  /\ hb[c] = "run"
  /\ cancelled[c]
  /\ registered' \in {FALSE, registered}
  /\ hb' = [hb EXCEPT ![c] = "ended"]
  /\ UNCHANGED <<forgets, heartbeat, cancelers, issued, cancelled, done, call, mine, app>>

\* The context is cancelled, seen by the loop or by sendTTL: the service is
\* deregistered, an error being ignored, and done is closed.
HbStop(c) ==
  /\ hb[c] = "run"
  /\ cancelled[c]
  /\ registered' \in {FALSE, registered}
  /\ hb' = [hb EXCEPT ![c] = "ended"]
  /\ done' = [done EXCEPT ![c] = TRUE]
  /\ UNCHANGED <<forgets, heartbeat, cancelers, issued, cancelled, call, mine, app>>

\* A heartbeat that gives up when the agent does not know the service.
HbTick_GivesUp(c) ==
  /\ hb[c] = "run"
  /\ hb' = [hb EXCEPT ![c] = "ended"]
  /\ done' = [done EXCEPT ![c] = TRUE]
  /\ UNCHANGED <<agentState, heartbeat, cancelers, issued, cancelled, call, mine, app>>

\* The update of the TTL fails, as it does when the agent does not know the
\* service; retryRegister goes to sleep.
HbTick(c) ==
  /\ hb[c] = "run"
  /\ hb' = [hb EXCEPT ![c] = "retry"]
  /\ UNCHANGED <<agentState, heartbeat, cancelers, issued, cancelled, done, call, mine, app>>

\* retryRegister registers the service again ...
HbRetry(c) ==
  /\ hb[c] = "retry"
  /\ ~cancelled[c]
  /\ registered' = TRUE
  /\ hb' = [hb EXCEPT ![c] = "run"]
  /\ UNCHANGED <<forgets, heartbeat, cancelers, issued, cancelled, done, call, mine, app>>

\* ... or the agent does not answer ...
HbRetryFails(c) ==
  /\ hb[c] = "retry"
  /\ hb' = [hb EXCEPT ![c] = "run"]
  /\ UNCHANGED <<agentState, heartbeat, cancelers, issued, cancelled, done, call, mine, app>>

\* ... or the context is cancelled during the sleep.
HbRetryCancelled(c) ==
  /\ hb[c] = "retry"
  /\ cancelled[c]
  /\ registered' \in {FALSE, registered}
  /\ hb' = [hb EXCEPT ![c] = "run"]
  /\ UNCHANGED <<forgets, heartbeat, cancelers, issued, cancelled, done, call, mine, app>>

(***************************************************************************)
(* The environment                                                         *)
(***************************************************************************)

\* SetHeartbeatEnabled(false).
DisableHeartbeat ==
  /\ CanDisable
  /\ heartbeat
  /\ heartbeat' = FALSE
  /\ UNCHANGED <<agentState, cancelers, issued, cancelled, done, hb, call, mine, app>>

\* External: the agent restarts, or the TTL runs out, and the service is gone.
AgentForgets ==
  /\ registered
  /\ forgets < MaxForgets
  /\ forgets' = forgets + 1
  /\ registered' = FALSE
  /\ app' = CASE app = "registered" -> "lost"
              [] app = "busy" -> "mixed"
              [] OTHER -> app
  /\ UNCHANGED <<heartbeat, cancelers, issued, cancelled, done, hb, call, mine>>

-----------------------------------------------------------------------------
CallStep(p) ==
  \/ RegisterPrepare(p) \/ RegisterCall(p) \/ RegisterCallFails(p) \/ RegisterStart(p)
  \/ DeregisterCall(p) \/ DeregisterCallFails(p)

HbStep(c) ==
  \/ Cleanup(c) \/ HbStop(c)
  \/ HbTick(c) \/ HbRetry(c) \/ HbRetryFails(c) \/ HbRetryCancelled(c)

HeartbeatNext ==
  \/ \E p \in Registrars : RegisterBegin(p)
  \/ \E p \in Procs : DeregisterBegin(p) \/ CallStep(p)
  \/ \E c \in Ccs : HbStep(c)
  \/ DisableHeartbeat
  \/ AgentForgets

\* Calls and goroutines go on; the cancelled context is seen in the end although
\* ticks arrive too; and the agent answers in the end when it is asked for ever.
HeartbeatFairness ==
  /\ \A p \in Procs : WF_heartbeatVars(CallStep(p))
  /\ \A c \in Ccs :
       /\ WF_heartbeatVars(Cleanup(c)) /\ WF_heartbeatVars(HbStep(c))
       /\ WF_heartbeatVars(~registered /\ HbTick(c))
       /\ SF_heartbeatVars(HbStop(c)) /\ SF_heartbeatVars(HbRetry(c))

HeartbeatSpec == HeartbeatInit /\ [][HeartbeatNext]_heartbeatVars /\ HeartbeatFairness

-----------------------------------------------------------------------------
(***************************************************************************)
(* Properties                                                              *)
(***************************************************************************)
Alive(c) == hb[c] \in {"run", "retry"}

\* The agent knows what the application was told: a service whose registration
\* succeeded is there, until the agent loses it, whatever the heartbeat of an
\* earlier registration does, and one that was deregistered stays away, for no
\* heartbeat is left that could register it again.  Deregister "will cancel the
\* service registration".
AgentAgrees ==
  /\ app = "registered" => registered
  /\ app = "deregistered" => ~registered /\ \A c \in Ccs : ~Alive(c)

\* Register and Deregister do not hang on a canceler that nobody closes, unless
\* the heartbeat is disabled under way.
CallsReturn == \A p \in Procs : call[p] # "idle" ~> call[p] = "idle" \/ ~heartbeat

\* A registration that the agent lost is restored by the heartbeat, if it was
\* enabled when the service was registered.
HeartbeatRestores == app = "lost" ~> registered \/ app # "lost" \/ ~heartbeat
=============================================================================
