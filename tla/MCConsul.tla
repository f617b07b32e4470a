------------------------------ MODULE MCConsul ------------------------------
(***************************************************************************)
(* The parts of infra/discovery/consul, which share no state here: the     *)
(* registry with its watchers, the registration of a service with its      *)
(* heartbeat, and the queries of one watch.  half says which of them runs; *)
(* the others stand still.                                                 *)
(***************************************************************************)
EXTENDS ConsulRegistry, ConsulHeartbeat, ConsulWatch

VARIABLE half

consulVars == <<half, vars, heartbeatVars, watchVars>>

MCDc == <<"dc1">>
MCDcs == <<"dc1", "dc2">>
MCEndpoint(s, h, p) == [scheme |-> s, host |-> h, port |-> p]
MCEndpoints == {MCEndpoint(s, h, p) : s \in {"grpc", "http", "lan_ipv4"}, h \in {"h1", "h2"}, p \in {0, 1}}
\* Two endpoints with one scheme, and instances with only a scheme of Consul's.
MCLists ==
  {<<MCEndpoint("grpc", "h1", 1), MCEndpoint("http", "h1", 1), MCEndpoint("grpc", "h2", 1)>>,
   <<MCEndpoint("lan_ipv4", "h1", 1)>>, <<MCEndpoint("lan_ipv4", "h2", 0)>>}

ConsulInit ==
  /\ half \in {"registry", "heartbeat", "watch"}
  /\ Init /\ (half # "registry" => inst)
  /\ HeartbeatInit
  /\ WatchInit /\ (half # "watch" => mode = "kv")

Runs(h) ==
  /\ half = h
  /\ UNCHANGED half
  /\ h # "registry" => UNCHANGED vars
  /\ h # "heartbeat" => UNCHANGED heartbeatVars
  /\ h # "watch" => UNCHANGED watchVars

ConsulNext ==
  \/ half = "registry" /\ Next /\ Runs("registry")
  \/ half = "heartbeat" /\ HeartbeatNext /\ Runs("heartbeat")
  \/ half = "watch" /\ WatchNext /\ Runs("watch")

\* The fairness of each half, for the one that runs.
ConsulFairness ==
  /\ \A w \in Watchers :
       /\ WF_consulVars(half = "registry" /\ pc[w] # "none" /\ GetWatcher(w) /\ Runs("registry"))
       /\ WF_consulVars(half = "registry" /\ WatcherNext(w) /\ Runs("registry"))
       /\ \A c \in Stoppers : WF_consulVars(half = "registry" /\ StopStep(w, c) /\ Runs("registry"))
  /\ \A s \in Sets : WF_consulVars(half = "registry" /\ LoopStep(s) /\ Runs("registry"))
  /\ \A p \in Procs : WF_consulVars(half = "heartbeat" /\ CallStep(p) /\ Runs("heartbeat"))
  /\ \A c \in Ccs :
       /\ WF_consulVars(half = "heartbeat" /\ Cleanup(c) /\ Runs("heartbeat"))
       /\ WF_consulVars(half = "heartbeat" /\ HbStep(c) /\ Runs("heartbeat"))
       /\ WF_consulVars(half = "heartbeat" /\ ~registered /\ HbTick(c) /\ Runs("heartbeat"))
       /\ SF_consulVars(half = "heartbeat" /\ HbStop(c) /\ Runs("heartbeat"))
       /\ SF_consulVars(half = "heartbeat" /\ HbRetry(c) /\ Runs("heartbeat"))
  /\ WF_consulVars(half = "watch" /\ WatchStep /\ Runs("watch"))

ConsulSpec == ConsulInit /\ [][ConsulNext]_consulVars /\ ConsulFairness
=============================================================================
