---------------------------- MODULE MCAlgorithms ----------------------------
(***************************************************************************)
(* The algorithms of the repository and the machines that need no          *)
(* fairness, side by side in one state space.  case says what runs: the    *)
(* pick strategy, one zone of the rate limiter, a route over several, the  *)
(* circle of the consistent hash, an error that is wrapped, one that       *)
(* travels, the set-up of telemetry, the tracers of a connection, the      *)
(* registration of error processors, or an operator applied to case.in.    *)
(* The others stand still.                                                 *)
(***************************************************************************)
EXTENDS PgPick, PgConfig, RabbitConfig, ProxyConfig, RateZone, RateRoute, ConsistentRing,
        SqlDriver, ErrorChain, RpcErrors, OtelSetup, PgxTracer, PgErrors, Etag, Filters

VARIABLE case

benchVars == <<vars, zoneVars, routeVars, ringVars, chainVars, hopVars, otelVars, tracerVars,
               errorsVars, case>>

\* The callers of a local zone are interchangeable.
MCSymmetry == Permutations(Requests)

MCInss == <<1, 2, 3>>
MCRoutes == {<<>>} \cup {<<x>> : x \in Kinds} \cup {<<x, y>> : x, y \in Kinds}

Machines == {"pick", "zone", "route", "ring", "chain", "hop", "otel", "tracer", "pgerrors"}

Cases == [alg : Machines]
         \cup [alg : {"primary"}, in : PrimaryConfigs]
         \cup [alg : {"standby"}, in : StandbyConfigs]
         \cup [alg : {"rabbit"}, in : RabbitCases]
         \cup [alg : {"proxy"}, in : ProxyCases]
         \cup [alg : {"sql"}, in : SqlCases]
         \cup [alg : {"etag"}, in : EtagCases]
         \cup [alg : {"fields"}, in : FieldCases]
         \cup [alg : {"filter"}, in : FilterQueries]

\* The state in which a part that does not run stands.
PickStill == load = [h \in Hosts |-> 0] /\ todo = Hosts /\ minConnections = 0 /\ result = None
RingStill ==
  /\ hashes = <<{0}, {0}, {0}>> /\ key = 0 /\ num = 1 /\ circle = [p \in {0} |-> 0]
  /\ count = 0 /\ phase = "still" /\ i = 0 /\ start = 0 /\ turns = 0 /\ res = <<>>
ChainStill == err = Plain("root") /\ told = Told("root") /\ wraps = 0
HopStill == origin = PlainError(Words("text")) /\ carried = origin /\ hops = 0
OtelStill ==
  /\ env = [exporter |-> [s \in Signals |-> "unset"], level |-> "unset", disabled |-> TRUE]
  /\ given = {}
TracerStill == tracer = "otel" /\ spans = <<NewSpan(FALSE)>> /\ stack = [p \in TraceProcs |-> <<>>]
ErrorsStill == reg = [r \in Registrars |-> [pc |-> "idle", of |-> "check", map |-> 0]]

BenchInit ==
  /\ case \in Cases
  /\ IF case.alg = "pick" THEN Init ELSE PickStill
  /\ (IF case.alg = "zone" THEN TRUE ELSE algo = "local") /\ ZoneInit
  /\ (IF case.alg = "route" THEN TRUE ELSE zones = <<>>) /\ RouteInit
  /\ IF case.alg = "ring" THEN RingInit ELSE RingStill
  /\ IF case.alg = "chain" THEN ChainInit ELSE ChainStill
  /\ IF case.alg = "hop" THEN HopInit ELSE HopStill
  /\ (IF case.alg = "otel" THEN TRUE ELSE OtelStill) /\ OtelInit
  /\ IF case.alg = "tracer" THEN TracerInit ELSE TracerStill
  /\ (IF case.alg = "pgerrors" THEN TRUE ELSE ErrorsStill) /\ ErrorsInit

\* Of the machines, only alg's variables may change.
Only(alg) ==
  /\ case.alg = alg
  /\ UNCHANGED case
  /\ alg # "pick" => UNCHANGED vars
  /\ alg # "zone" => UNCHANGED zoneVars
  /\ alg # "route" => UNCHANGED routeVars
  /\ alg # "ring" => UNCHANGED ringVars
  /\ alg # "chain" => UNCHANGED chainVars
  /\ alg # "hop" => UNCHANGED hopVars
  /\ alg # "otel" => UNCHANGED otelVars
  /\ alg # "tracer" => UNCHANGED tracerVars
  /\ alg # "pgerrors" => UNCHANGED errorsVars

BenchNext ==
  \/ Only("pick") /\ Next
  \/ Only("zone") /\ ZoneNext
  \/ Only("route") /\ RouteNext
  \/ Only("ring") /\ RingNext
  \/ Only("chain") /\ ChainNext
  \/ Only("hop") /\ HopNext
  \/ Only("otel") /\ OtelNext
  \/ Only("tracer") /\ TracerNext
  \/ Only("pgerrors") /\ ErrorsNext

BenchSpec == BenchInit /\ [][BenchNext]_benchVars

-----------------------------------------------------------------------------
\* Whatever the application passes, it is refused or what runs is usable: in pgw,
\* positive intervals, a pool of at least one connection, at least one attempt and
\* callable strategies, so that time.NewTicker does not panic and ConnectWithRetry
\* does not return nil without having connected; in rabbitmq, workers and attempts;
\* in httpproxy, settings that x/net reads as they were meant.
RunsUsable ==
  /\ case.alg = "primary" => \A r \in PrimaryRuns(case.in) : Usable(r)
  /\ case.alg = "standby" => \A r \in StandbyRuns(case.in) : Usable(r)
  /\ case.alg = "rabbit" => MadeUsable(case.in)
  /\ case.alg = "proxy" /\ Validate(case.in) => Meant(case.in)

\* An application that opens a driver through infra/sqldb sees what it would see
\* without it: the driver gets the same calls with the same arguments in the same
\* order, and the answers come back, whatever optional interfaces the driver, its
\* connections and its statements implement and wherever it fails.
SqlTransparent ==
  case.alg = "sql" =>
    \/ Legacy(case.in) \/ OptionsDropped(case.in) \/ ValidityHidden(case.in) \/ NilTracer(case.in)
    \/ SameAs(case.in)

\* A request gets what it asks for: InputIdOrEtag returns every object that etags and
\* ids refer to, once, or an error if there is a reason for one; the selectors of
\* fields stand for their attributes wherever they stand in the list; and a filter
\* selects what its expression says (see FilterExact).
RequestsExact ==
  /\ case.alg = "etag" => EtagInputExact(case.in)
  /\ case.alg = "fields" => FieldsExact(case.in)
  /\ case.alg = "filter" => FilterExact(case.in)
=============================================================================
