------------------------------ MODULE Resolver ------------------------------
(***************************************************************************)
(* The gRPC resolver over service discovery                                *)
(* (infra/transport/gRPC/resolver/discovery): Build asks for a watcher in  *)
(* a goroutine and may give up on it, watch turns what the watcher reports *)
(* into the addresses of the connection, Close ends it.                    *)
(*                                                                         *)
(* An instance is a name; EndpointOf gives the host that ParseEndpoint     *)
(* finds in it, None if there is none or it cannot be parsed.  What        *)
(* subset.Subset promises is enough here; ConsistentRing shows that it     *)
(* keeps the promise.                                                      *)
(***************************************************************************)
EXTENDS Integers, Sequences, FiniteSets

CONSTANTS EndpointOf,  \* instances to endpoints
          None,
          Lists,       \* what the registry may publish
          SubsetSize,  \* 0 takes every instance
          MaxPublish   \* bound on the changes of the service

ASSUME ResolverAssumption == /\ Lists \subseteq Seq(DOMAIN EndpointOf)
                             /\ SubsetSize \in Nat /\ MaxPublish \in Nat

VARIABLES svc,       \* the instances of the service
          published,
          event,     \* the watcher has a signal waiting
          getter,    \* GetWatcher: "calling", "watcher" or "error"
          build,     \* Build: "wait", "ok" or "error"
          ctxDone,
          stopped,   \* watcher.Stop was called
          closing,   \* Close: "no", "stop" or "done"
          watching,  \* where watch is
          got,       \* what Next returned
          addrs      \* the instances behind the last UpdateState

resolverVars == <<svc, published, event, getter, build, ctxDone, stopped,
                  closing, watching, got, addrs>>

ResolverInit ==
  /\ svc \in Lists /\ published = 0 /\ event = FALSE
  /\ getter = "calling" /\ build = "wait"
  /\ ctxDone = FALSE /\ stopped = FALSE /\ closing = "no"
  /\ watching = "off" /\ got = <<>> /\ addrs = {}

-----------------------------------------------------------------------------
(* The registry.                                                           *)

\* A new watcher is signalled at once, and again at every change.
GetWatcher ==
  /\ getter = "calling"
  /\ \/ getter' = "watcher" /\ event' = TRUE
     \/ getter' = "error" /\ UNCHANGED event
  /\ UNCHANGED <<svc, published, build, ctxDone, stopped, closing, watching, got, addrs>>

Publish(l) ==
  /\ published < MaxPublish
  /\ published' = published + 1
  /\ svc' = l
  /\ event' = (event \/ (getter = "watcher" /\ ~stopped))
  /\ UNCHANGED <<getter, build, ctxDone, stopped, closing, watching, got, addrs>>

-----------------------------------------------------------------------------
(* Build.                                                                  *)

BuildDone ==
  /\ build = "wait"
  /\ getter # "calling"
  /\ IF getter = "watcher" THEN build' = "ok" /\ watching' = "top" /\ UNCHANGED ctxDone
     ELSE build' = "error" /\ ctxDone' = TRUE /\ UNCHANGED watching
  /\ UNCHANGED <<svc, published, event, getter, stopped, closing, got, addrs>>

\* A watcher that arrives later is nobody's.
BuildTimeout ==
  /\ build = "wait"
  /\ build' = "error"
  /\ ctxDone' = TRUE
  /\ UNCHANGED <<svc, published, event, getter, stopped, closing, watching, got, addrs>>

-----------------------------------------------------------------------------
(* watch and update.                                                       *)

WatchTop ==
  /\ watching = "top"
  /\ watching' = IF ctxDone THEN "exit" ELSE "next"
  /\ UNCHANGED <<svc, published, event, getter, build, ctxDone, stopped, closing, got, addrs>>

\* watcher.Next: a signal, or the end of the context.
NextEvent ==
  /\ watching = "next"
  /\ event
  /\ event' = FALSE
  /\ got' = svc
  /\ watching' = "update"
  /\ UNCHANGED <<svc, published, getter, build, ctxDone, stopped, closing, addrs>>

NextCanceled ==
  /\ watching = "next"
  /\ ctxDone \/ stopped
  /\ watching' = "exit"
  /\ UNCHANGED <<svc, published, event, getter, build, ctxDone, stopped, closing, got, addrs>>

\* Any other error: a second later the loop goes on.
NextFails ==
  /\ watching = "next"
  /\ watching' = "top"
  /\ UNCHANGED <<svc, published, event, getter, build, ctxDone, stopped, closing, got, addrs>>

\* filterEndpoints: instances without an endpoint, or with the endpoint of an
\* instance before, are left out.
Filtered(ins) ==
  {ins[i] : i \in {j \in 1..Len(ins) :
     /\ EndpointOf[ins[j]] # None
     /\ \A k \in 1..(j - 1) : EndpointOf[ins[k]] # EndpointOf[ins[j]]}}

\* subset.Subset
Subsets(filtered) ==
  IF SubsetSize = 0 \/ Cardinality(filtered) <= SubsetSize THEN {filtered}
  ELSE {s \in SUBSET filtered : Cardinality(s) = SubsetSize}

Update_KeepsLast ==
  /\ watching = "update"
  /\ addrs' \in (IF Filtered(got) = {} THEN {addrs} ELSE Subsets(Filtered(got)))
  /\ watching' = "top"
  /\ UNCHANGED <<svc, published, event, getter, build, ctxDone, stopped, closing, got>>

\* A list without addresses is reported, and applied all the same.
Update ==
  /\ watching = "update"
  /\ addrs' \in Subsets(Filtered(got))
  /\ watching' = "top"
  /\ UNCHANGED <<svc, published, event, getter, build, ctxDone, stopped, closing, got>>

-----------------------------------------------------------------------------
(* Close.                                                                  *)

CloseCancel ==
  /\ build = "ok"
  /\ closing = "no"
  /\ closing' = "stop"
  /\ ctxDone' = TRUE
  /\ UNCHANGED <<svc, published, event, getter, build, stopped, watching, got, addrs>>

CloseStop ==
  /\ closing = "stop"
  /\ closing' = "done"
  /\ stopped' = TRUE
  /\ UNCHANGED <<svc, published, event, getter, build, ctxDone, watching, got, addrs>>

-----------------------------------------------------------------------------

WatchStep == WatchTop \/ NextEvent \/ NextCanceled \/ Update

ResolverNext ==
  \/ GetWatcher \/ BuildDone \/ BuildTimeout
  \/ \E l \in Lists : Publish(l)
  \/ WatchStep \/ NextFails
  \/ CloseCancel \/ CloseStop

\* Next does not fail for ever on a signal.
ResolverFairness ==
  /\ WF_resolverVars(WatchStep) /\ WF_resolverVars(CloseStop)
  /\ SF_resolverVars(NextEvent) /\ SF_resolverVars(NextCanceled)

ResolverSpec == ResolverInit /\ [][ResolverNext]_resolverVars /\ ResolverFairness

-----------------------------------------------------------------------------
(* Properties.                                                             *)

\* watch and update: while the resolver is open and the service has stopped
\* changing, the connection has the endpoints of the last list, as many as the
\* subset size allows: none for an empty list, none left over from another.
ResolverSettles ==
  <>[](build = "ok" /\ closing = "no" => addrs \in Subsets(Filtered(svc)))
=============================================================================
