----------------------------- MODULE ConsulWatch -----------------------------
(***************************************************************************)
(* What travels through Consul in infra/discovery/consul: an instance that *)
(* Register sends to the agent (buildRegistration), and that a watcher     *)
(* gets back (GetService in one or in all datacenters, with its resolver), *)
(* and the value of a key (kv_client.go and kv_watcher.go).                *)
(*                                                                         *)
(* Both watches are loops of blocking queries.  Consul answers a query     *)
(* with WaitIndex w when its own index is above w, or after WaitTime, in   *)
(* both cases with what it holds and with its index; each datacenter has   *)
(* an index of its own.  Timing apart, an answer can come at any moment.   *)
(***************************************************************************)
EXTENDS Integers, Sequences, FiniteSets

CONSTANTS Dcs,        \* the datacenters, in the order of Catalog().Datacenters
          Endpoints,  \* the endpoints of an instance: scheme, host and port
          Lists,      \* the lists of endpoints that instances register with
          Values,     \* the values of the key
          MaxDcIndex, \* bound: the index of a datacenter at the end
          MaxFails,   \* bound: how many queries fail
          MaxRestores \* bound: how often Consul is restored to an older index

ASSUME WatchAssumption ==
  /\ Dcs \in Seq(STRING) /\ Len(Dcs) > 0
  /\ Lists \subseteq Seq(Endpoints)
  /\ MaxDcIndex \in Nat \ {0} /\ MaxFails \in Nat /\ MaxRestores \in Nat

VARIABLES
  mode,      \* "single" or "multi" (Client.dc), or "kv"
  index,     \* Consul's index in every datacenter
  held,      \* what Consul holds there: a set with a registration, a value or nothing
  told,      \* history: the endpoints that the application registered there
  fails, restores,
  lastIndex, \* of watchServiceChange, or of the consulKVWatcher
  at,        \* the datacenter that multiDCService asks next, 0 between queries
  wait,      \* its opts.WaitIndex
  found,     \* the instances it has so far
  stage,     \* "resolve", "read", "watch" or "stopped"
  got        \* what was broadcast, or returned by GetFromKV or Next, last

storeVars == <<index, held, told, fails, restores>>
watchVars == <<mode, storeVars, lastIndex, at, wait, found, stage, got>>

-----------------------------------------------------------------------------
(* Registration and resolution of an instance                              *)

ReservedSchemes == {"lan_ipv4", "wan_ipv4", "lan_ipv6", "wan_ipv6"}

Schemes(list) == {list[i].scheme : i \in 1..Len(list)}

\* buildRegistration: a map from schemes to endpoints, in which later endpoints
\* replace earlier ones, and the host and port of the first one.  asr.Tags are the
\* client's: the tag with the version is made and not used.
BuildRegistration(list) ==
  [tagged |-> [s \in Schemes(list) |->
                 list[CHOOSE i \in 1..Len(list) :
                        list[i].scheme = s /\ \A j \in (i + 1)..Len(list) : list[j].scheme # s]],
   address |-> IF list = <<>> THEN "" ELSE list[1].host,
   port |-> IF list = <<>> THEN 0 ELSE list[1].port]

\* grpcEndpointsBuilder: the endpoints with other than Consul's own schemes, or else
\* a gRPC endpoint made of address and port.
GrpcEndpoints(asr) ==
  LET own == {asr.tagged[s] : s \in DOMAIN asr.tagged \ ReservedSchemes}
  IN IF own = {} /\ asr.address # "" /\ asr.port # 0
     THEN {[scheme |-> "grpc", host |-> asr.address, port |-> asr.port]}
     ELSE own

\* defaultResolver, for the one instance that a datacenter holds at most.
Resolver(dc) == {[dc |-> dc, endpoints |-> GrpcEndpoints(asr)] : asr \in held[dc]}

-----------------------------------------------------------------------------
WatchInit ==
  /\ mode \in {"single", "multi", "kv"}
  /\ index = [dc \in 1..Len(Dcs) |-> 1]
  /\ held = [dc \in 1..Len(Dcs) |-> {}]
  /\ told = [dc \in 1..Len(Dcs) |-> {}]
  /\ fails = 0 /\ restores = 0
  /\ lastIndex = 0 /\ at = 0 /\ wait = 0
  /\ found = {}
  /\ stage = "resolve"
  /\ got = {}

\* External, with what Register sends: an instance comes, is replaced or goes, and
\* the index of its datacenter moves on.
Serve(dc) ==
  /\ mode # "kv"
  /\ mode = "single" => dc = 1
  /\ index[dc] < MaxDcIndex
  /\ index' = [index EXCEPT ![dc] = @ + 1]
  /\ \/ \E list \in Lists : /\ held' = [held EXCEPT ![dc] = {BuildRegistration(list)}]
                              /\ told' = [told EXCEPT ![dc] = {list}]
     \/ /\ held[dc] # {}
        /\ held' = [held EXCEPT ![dc] = {}] /\ told' = [told EXCEPT ![dc] = {}]
  /\ UNCHANGED <<mode, fails, restores, lastIndex, at, wait, found, stage, got>>

\* GetService: all datacenters, one after the other, or the client's only.
Asked == IF mode = "multi" THEN 1..Len(Dcs) ELSE {1}

\* The query of resolve, with index 0, or of a turn of watchServiceChange begins.
QueryBegin ==
  /\ mode # "kv" /\ stage # "stopped" /\ at = 0
  /\ at' = 1 /\ wait' = lastIndex /\ found' = {}
  /\ UNCHANGED <<mode, storeVars, lastIndex, stage, got>>

\* The answer of one datacenter: its instances join the result and, if there are
\* any, its index becomes the WaitIndex of the next query.  A client of one
\* datacenter takes the index as it is.
QueryDc ==
  /\ at \in Asked
  /\ found' = found \cup Resolver(at)
  /\ wait' = IF mode = "single" \/ Resolver(at) # {} THEN index[at] ELSE wait
  /\ at' = at + 1
  /\ UNCHANGED <<mode, storeVars, lastIndex, stage, got>>

\* One query fails: resolve fails with it, and watchServiceChange tries again.
QueryFails ==
  /\ at \in Asked /\ stage = "watch"
  /\ fails < MaxFails /\ fails' = fails + 1
  /\ at' = 0
  /\ UNCHANGED <<mode, index, held, told, restores, lastIndex, wait, found, stage, got>>

\* resolve broadcasts a list with instances, watchServiceChange one whose index is
\* not the last one.
QueryEnd ==
  /\ at # 0 /\ at \notin Asked
  /\ got' = IF found # {} /\ (stage = "resolve" \/ wait # lastIndex) THEN found ELSE got
  /\ lastIndex' = wait
  /\ at' = 0 /\ stage' = "watch"
  /\ UNCHANGED <<mode, storeVars, wait, found>>

-----------------------------------------------------------------------------
(* Keys and values                                                         *)

\* PutToKV and DeleteFromKV, by anybody.
PutToKV ==
  /\ mode = "kv" /\ index[1] < MaxDcIndex
  /\ index' = [index EXCEPT ![1] = @ + 1]
  /\ \E v \in Values : held' = [held EXCEPT ![1] = {v}]
  /\ UNCHANGED <<mode, told, fails, restores, lastIndex, at, wait, found, stage, got>>

DeleteFromKV ==
  /\ mode = "kv" /\ index[1] < MaxDcIndex /\ held[1] # {}
  /\ index' = [index EXCEPT ![1] = @ + 1]
  /\ held' = [held EXCEPT ![1] = {}]
  /\ UNCHANGED <<mode, told, fails, restores, lastIndex, at, wait, found, stage, got>>

\* GetKVWatcher: the watcher starts at the index of the key, or at 0 if the query
\* fails; the value that comes with it is dropped.
GetKVWatcher ==
  /\ mode = "kv" /\ stage = "resolve"
  /\ lastIndex' \in {0, index[1]}
  /\ stage' = "read"
  /\ UNCHANGED <<mode, storeVars, at, wait, found, got>>

\* GetFromKV: the application reads the value that the watcher starts from (no such
\* key is an error, after which it has no value).
GetFromKV ==
  /\ mode = "kv" /\ stage = "read"
  /\ got' = held[1]
  /\ stage' = "watch"
  /\ UNCHANGED <<mode, storeVars, lastIndex, at, wait, found>>

\* A Next that goes on waiting when the key is gone.
KvNext_SkipsDeleted ==
  /\ mode = "kv" /\ stage = "watch"
  /\ index[1] > lastIndex
  /\ lastIndex' = index[1]
  /\ got' = IF held[1] = {} THEN got ELSE held[1]
  /\ UNCHANGED <<mode, storeVars, at, wait, found, stage>>

\* consulKVWatcher.Next returns when the index has grown: the value, or nil if the
\* key is gone.  (Before that, and after an error, it changes nothing.)
KvNext ==
  /\ mode = "kv" /\ stage = "watch"
  /\ index[1] > lastIndex
  /\ lastIndex' = index[1]
  /\ got' = held[1]
  /\ UNCHANGED <<mode, storeVars, at, wait, found, stage>>

\* consulKVWatcher.Stop, or the end of the service set.
StopWatch ==
  /\ stage = "watch" /\ at = 0
  /\ stage' = "stopped"
  /\ UNCHANGED <<mode, storeVars, lastIndex, at, wait, found, got>>

\* External: Consul is restored from a snapshot, and its index is lower than before.
Restore ==
  /\ restores < MaxRestores /\ restores' = restores + 1
  /\ \E dc \in Asked : index[dc] > 1 /\ index' = [index EXCEPT ![dc] = @ - 1]
  /\ UNCHANGED <<mode, held, told, fails, lastIndex, at, wait, found, stage, got>>

-----------------------------------------------------------------------------
WatchStep == QueryBegin \/ QueryDc \/ QueryEnd \/ KvNext

WatchNext ==
  \/ \E dc \in 1..Len(Dcs) : Serve(dc)
  \/ WatchStep \/ QueryFails
  \/ PutToKV \/ DeleteFromKV \/ GetKVWatcher \/ GetFromKV
  \/ StopWatch \/ Restore

\* The loop goes on, and the application calls Next again and again.
WatchSpec == WatchInit /\ [][WatchNext]_watchVars /\ WF_watchVars(WatchStep)

-----------------------------------------------------------------------------
(* Properties                                                              *)

\* What a watcher should know: every instance with the last of its endpoints of every
\* scheme (or, with Consul's own schemes only, with its first address), or the value
\* of the key.
Expected(list) ==
  LET last == {list[i] : i \in {k \in 1..Len(list) :
                                  \A j \in (k + 1)..Len(list) : list[j].scheme # list[k].scheme}}
      own == {e \in last : e.scheme \notin ReservedSchemes}
  IN IF own # {} \/ list = <<>> THEN own
     ELSE IF list[1].host = "" \/ list[1].port = 0 THEN {}
     ELSE {[scheme |-> "grpc", host |-> list[1].host, port |-> list[1].port]}

Current ==
  IF mode = "kv" THEN held[1]
  ELSE UNION {{[dc |-> dc, endpoints |-> Expected(list)] : list \in told[dc]} : dc \in Asked}

Settled == \A dc \in Asked : index[dc] = MaxDcIndex

\* The watch of a service in one datacenter and that of a key deliver what Consul
\* holds when it has settled, whatever changed while a query was under way, unless
\* the watcher is stopped, the service has no instances (an empty list is never
\* broadcast) or Consul's index has gone back.
WatchDelivers ==
  Settled /\ Cardinality(Asked) = 1 /\ stage = "watch"
    ~> got = Current \/ stage = "stopped" \/ restores > 0 \/ (mode # "kv" /\ Current = {})

\* watchServiceChange: "If the service instances are resolved successfully, it will
\* broadcast the service instances to all registered watchers", in all datacenters.
EveryDatacenter ==
  Settled /\ mode = "multi" /\ stage = "watch" ~> got = Current \/ stage = "stopped" \/ Current = {}
=============================================================================
