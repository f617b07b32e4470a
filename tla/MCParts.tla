------------------------------- MODULE MCParts -------------------------------
(***************************************************************************)
(* The small concurrent components of the repository, which do not touch   *)
(* each other, side by side in one state space: the initial state says     *)
(* which of them runs, and the others stand still.                         *)
(***************************************************************************)
EXTENDS GrpcPool, CircuitBreaker, HttpProxy, Resolver

VARIABLE part

partsVars == <<part, poolVars, breakerVars, proxyVars, resolverVars>>

MCEndpointOf == [a |-> "x", b |-> "x", c |-> "y", d |-> "z", e |-> "none"]
MCLists == {<<>>, <<"e">>, <<"a", "b">>, <<"b", "a", "e", "c">>, <<"a", "c", "d">>}

\* The state in which a component that does not run stands.
BreakerStill == BreakerInit /\ up
ProxyStill == ProxyInit /\ file = Env /\ tr = "default"
ResolverStill == ResolverInit /\ svc = <<>>

PartsInit ==
  /\ part \in {"pool", "breaker", "proxy", "resolver"}
  /\ PoolInit
  /\ IF part = "breaker" THEN BreakerInit ELSE BreakerStill
  /\ IF part = "proxy" THEN ProxyInit ELSE ProxyStill
  /\ IF part = "resolver" THEN ResolverInit ELSE ResolverStill

\* A step of one component.
Runs(p) ==
  /\ part = p
  /\ UNCHANGED part
  /\ p # "pool" => UNCHANGED poolVars
  /\ p # "breaker" => UNCHANGED breakerVars
  /\ p # "proxy" => UNCHANGED proxyVars
  /\ p # "resolver" => UNCHANGED resolverVars

PartsNext ==
  \/ part = "pool" /\ PoolNext /\ Runs("pool")
  \/ part = "breaker" /\ BreakerNext /\ Runs("breaker")
  \/ part = "proxy" /\ ProxyNext /\ Runs("proxy")
  \/ part = "resolver" /\ ResolverNext /\ Runs("resolver")

\* The fairness of each component, for the one that runs.
PartsFairness ==
  /\ \A p \in Users : /\ WF_partsVars(part = "pool" /\ UserStep(p) /\ Runs("pool"))
                      /\ SF_partsVars(part = "pool" /\ Recv(p) /\ Runs("pool"))
  /\ WF_partsVars(part = "pool" /\ CloserStep /\ Runs("pool"))
  /\ \A p \in Callers : WF_partsVars(part = "breaker" /\ CallerStep(p) /\ Runs("breaker"))
  /\ WF_partsVars(part = "breaker" /\ BreakerTick /\ Runs("breaker"))
  /\ WF_partsVars(part = "proxy" /\ LoopStep /\ Runs("proxy"))
  /\ WF_partsVars(part = "proxy" /\ AppClose /\ Runs("proxy"))
  /\ WF_partsVars(part = "resolver" /\ WatchStep /\ Runs("resolver"))
  /\ WF_partsVars(part = "resolver" /\ CloseStop /\ Runs("resolver"))
  /\ SF_partsVars(part = "resolver" /\ NextEvent /\ Runs("resolver"))
  /\ SF_partsVars(part = "resolver" /\ NextCanceled /\ Runs("resolver"))

PartsSpec == PartsInit /\ [][PartsNext]_partsVars /\ PartsFairness
=============================================================================
