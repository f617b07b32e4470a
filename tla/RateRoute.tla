----------------------------- MODULE RateRoute ------------------------------
(***************************************************************************)
(* A route of infra/ratelimit/mux and the middlewares in front of it.      *)
(*                                                                         *)
(* A route names zones; a request that matches it is checked against each  *)
(* of them in turn, other requests reaching the zones in between, and the  *)
(* worst Status is the verdict (routeZones.LimitRequest).  The middlewares *)
(* turn the verdict into a response.  Every zone has one key here; a zone  *)
(* whose rate is not valid is the Forbidden zone.                          *)
(***************************************************************************)
EXTENDS RateScripts

CONSTANTS Routes,    \* sequences of zone kinds a route may name
          RouteCosts,
          MaxCount,  \* bound on the counter of a fixed window in Redis
          MaxClock   \* bound on the clock

Kinds == Algos \cup {"forbidden"}

\* A route of more zones than that is sorted by another algorithm of package sort.
MaxInsertion == 12

ASSUME RouteAssumption == /\ Routes \subseteq Seq(Kinds)
                          /\ \A r \in Routes : Len(r) <= MaxInsertion
                          /\ RouteCosts \subseteq Nat \ {0}
                          /\ MaxCount \in Nat /\ MaxClock \in Nat

VARIABLES zones,    \* the zones of the route, in order of configuration, rigid
          clock,
          stored,   \* the record of the key in each zone
          at,       \* the request: index of the zone it is checked against, or 0
          date,     \* req.Date, the clock when the request was made
          group,    \* the Statuses collected so far
          failed,   \* LimitRequest returned an error
          refused,  \* history: some zone refused the request
          verdict   \* the Status LimitRequest returned for the last request

routeVars == <<zones, clock, stored, at, date, group, failed, refused, verdict>>

\* A nil *Status: no limit was applied.
NoStatus == [nil |-> TRUE]

\* Status.OK
OK(res) == res = NoStatus \/ res.allowed > 0

\* ratelimit.Allow and ratelimit.Deny
Allow == Status(1, 0, 0, 0, 0)
Deny == Status(0, 0, 0, 0, 0)

-----------------------------------------------------------------------------
(* The verdict on a group.                                                 *)

\* statusTopWorst.Less
Less_ByTokens(x, y) ==
  IF x.limit > 0 THEN y.limit > 0 => x.remaining <= y.remaining
  ELSE y.limit = 0

Less(x, y) ==
  IF x.retry > 0 THEN x.retry >= y.retry
  ELSE /\ y.retry = 0
       /\ \/ x.allowed = 0
          \/ /\ y.allowed > 0
             /\ IF x.limit > 0 THEN y.limit > 0 => x.remaining <= y.remaining
                ELSE y.limit = 0

\* External: sort.Sort is an insertion sort of so few elements, and only the head of
\* the result is read.  A round moves the next Status past every one it is Less than,
\* so that it becomes the head if it is Less than all that came before it.
Heads(all) == {k \in 1..Len(all) : \A j \in 1..(k - 1) : Less(all[k], all[j])}

SortedHead(all) == all[CHOOSE k \in Heads(all) : \A j \in Heads(all) : j <= k]

-----------------------------------------------------------------------------
(* The middlewares: "pass" to the next handler, or one of two refusals.    *)

\* HttpWriteStatus
HttpWriteStatus(res) ==
  IF res = NoStatus THEN "pass"
  ELSE IF res.limit = 0 THEN (IF res.allowed > 0 THEN "pass" ELSE "forbidden")
  ELSE IF ~OK(res) THEN "flood" ELSE "pass"

\* GrpcResponse
GrpcResponse(res) ==
  CASE res = NoStatus -> "pass"
    [] res # NoStatus /\ res.limit = 0 -> IF res.allowed > 0 THEN "pass" ELSE "forbidden"
    [] OTHER -> IF OK(res) THEN "pass" ELSE "flood"

\* ratelimit.HttpMiddleware answers an error of the handler with the error;
\* the middleware of the router and the gRPC interceptor go on without it.
HttpMiddleware(res, err) == IF err THEN "error" ELSE HttpWriteStatus(res)
RouterHttpMiddleware(res, err) == HttpWriteStatus(res)
GrpcUnaryServerInterceptor(res, err) == GrpcResponse(res)

-----------------------------------------------------------------------------

RouteInit ==
  /\ zones \in Routes
  /\ clock = 1
  /\ stored = [i \in 1..Len(zones) |-> NewRecord]
  /\ at = 0
  /\ date = 1
  /\ group = <<>>
  /\ failed = FALSE
  /\ refused = FALSE
  /\ verdict = NoStatus

\* The limiter of zone i answers a request made at d: a local zone goes by
\* the date of the request, Redis by its own clock.
Answer(i, d, cost) ==
  CASE zones[i] = "forbidden" -> [st |-> stored[i], res |-> Deny]
    [] zones[i] = "local"     -> Take("local", stored[i], d, cost)
    [] OTHER                  -> Take(zones[i], stored[i], clock, cost)

\* A request matches the route.
LimitRequest ==
  /\ at = 0
  /\ at' = 1
  /\ date' = clock
  /\ group' = <<>>
  /\ failed' = FALSE
  /\ refused' = FALSE
  /\ verdict' = NoStatus
  /\ UNCHANGED <<zones, clock, stored>>

\* The next zone answers with a Status.
ZoneAnswers(cost) ==
  /\ at \in 1..Len(zones)
  /\ stored[at].taken < MaxCount
  /\ LET t == Answer(at, date, cost)
     IN /\ stored' = [stored EXCEPT ![at] = t.st]
        /\ group' = Append(group, t.res)
        /\ refused' = (refused \/ ~OK(t.res))
  /\ at' = at + 1
  /\ UNCHANGED <<zones, clock, date, failed, verdict>>

\* The next zone is not applied: the request has no key for it.
ZoneSkipped ==
  /\ at \in 1..Len(zones)
  /\ at' = at + 1
  /\ UNCHANGED <<zones, clock, stored, date, group, failed, refused, verdict>>

\* The storage of the next zone fails.  The error of the only zone of a route
\* is returned, that of one among several is logged and passed over.
ZoneFails ==
  /\ at \in 1..Len(zones)
  /\ at' = at + 1
  /\ failed' = (Len(zones) = 1)
  /\ UNCHANGED <<zones, clock, stored, date, group, refused, verdict>>

Verdict(all) ==
  IF zones = <<>> THEN Allow
  ELSE IF all = <<>> THEN NoStatus
  ELSE SortedHead(all)

Decide ==
  /\ at = Len(zones) + 1
  /\ verdict' = Verdict(group)
  /\ at' = 0
  /\ UNCHANGED <<zones, clock, stored, date, group, failed, refused>>

\* A request of another route that names zone i alone.
OtherRequest(i, cost) ==
  /\ at > 0
  /\ stored[i].taken < MaxCount
  /\ stored' = [stored EXCEPT ![i] = Answer(i, clock, cost).st]
  /\ UNCHANGED <<zones, clock, at, date, group, failed, refused, verdict>>

RouteTick ==
  /\ at > 0
  /\ clock < MaxClock
  /\ clock' = clock + 1
  /\ UNCHANGED <<zones, stored, at, date, group, failed, refused, verdict>>

RouteNext ==
  \/ LimitRequest
  \/ \E cost \in RouteCosts : ZoneAnswers(cost)
  \/ ZoneSkipped
  \/ ZoneFails
  \/ Decide
  \/ \E i \in 1..Len(zones), cost \in RouteCosts : OtherRequest(i, cost)
  \/ RouteTick

RouteSpec == RouteInit /\ [][RouteNext]_routeVars

-----------------------------------------------------------------------------
(* Properties.                                                             *)

\* Zones that report a time to retry only with a refusal.
RetryMeansRefused == \A i \in 1..Len(zones) : zones[i] \in {"local", "bucket", "forbidden"}

\* routeZones.LimitRequest and the three front ends: through each of them a
\* request reaches the handler exactly when no zone of its route refused it,
\* for zones that report a time to retry only with a refusal.
\* ratelimit.HttpMiddleware also stops at the error of the only zone.
RefusalWins ==
  at = 0 /\ RetryMeansRefused =>
    /\ RouterHttpMiddleware(verdict, failed) = "pass" <=> ~refused
    /\ GrpcUnaryServerInterceptor(verdict, failed) = "pass" <=> ~refused
    /\ HttpMiddleware(verdict, failed) = "pass" <=> ~refused /\ ~failed

\* The verdict on a group is a refusal exactly when some zone refused, for
\* every kind of zone: "[Dis]allowed first !" of route.go.
RefusalAlwaysWins ==
  at = 0 => (OK(verdict) <=> ~refused)
=============================================================================
