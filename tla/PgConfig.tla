------------------------------ MODULE PgConfig ------------------------------
(***************************************************************************)
(* How infra/pgw arrives at the settings that its pools and supervising    *)
(* goroutines run with: the options of NewPoolManager are merged with the  *)
(* defaults, newPool and newStandbyManager normalise what they are given,  *)
(* and a pool is built or refused.                                         *)
(*                                                                         *)
(* A field's value is abstracted to where it comes from: "zero" is the Go  *)
(* zero value (0, "" or nil), "negative" a negative number, "given" a      *)
(* usable value of the application's, "wide" an int beyond int32,          *)
(* "invalid" a DSN that does not parse, "default" the package's or pgx's.  *)
(***************************************************************************)
EXTENDS Naturals
LOCAL INSTANCE TLC

Sizes == {"MaxConns", "MinConns"}

\* The fields of PrimaryConfig and StandbyConfig that are numbers or durations,
\* and those that are functions.
PrimaryNumeric == {"HealthCheckInterval", "HealthCheckTimeout", "RetryAttempts",
                   "RetryInterval", "RetryStrategyBaseValue"}
Numeric == {"HealthCheckInterval", "HealthCheckTimeout", "RetriesBeforeUnhealthy",
            "RetryStrategyBaseValue", "UnhealthyReplicaRetryInterval"}
Funcs   == {"RetryStrategy", "PickStrategy"}

ConfigsOf(numeric, funcs) ==
  {n @@ f @@ s @@ d : n \in [numeric -> {"zero", "negative", "given"}],
                      f \in [funcs -> {"zero", "given"}],
                      s \in [Sizes -> {"zero", "negative", "given", "wide"}],
                      d \in [{"DSN"} -> {"zero", "invalid", "given"}]}

\* What WithPrimaryConfig and WithStandbyConfig may be called with: each replaces
\* its whole configuration, the unset fields included.
PrimaryConfigs == ConfigsOf(PrimaryNumeric, {"RetryStrategy"})
StandbyConfigs == ConfigsOf(Numeric, Funcs)

\* DefaultPrimaryPoolConfig and DefaultStandbyPoolConfig, which set neither a DSN
\* nor the size of the pool.
Default(f) == IF f \in Sizes \cup {"DSN"} THEN "zero" ELSE "default"

\* A value that a merge takes: > 0, not empty or not nil.
Set(v) == v \in {"given", "wide", "invalid"}

MergePrimary(c) == [f \in DOMAIN c |-> IF Set(c[f]) THEN c[f] ELSE Default(f)]

\* The fields that mergeStandbyPoolConfigWithDefault looks at.
MergedFields ==
  {"DSN", "HealthCheckInterval", "HealthCheckTimeout", "RetriesBeforeUnhealthy",
   "RetryStrategy", "RetryStrategyBaseValue", "MaxConns", "MinConns"}

\* A merge that tests for zero only, as normalizeConfig does.
Merge_ZeroOnly(c) ==
  [f \in DOMAIN c |-> IF f \in MergedFields /\ c[f] # "zero" THEN c[f] ELSE Default(f)]

\* mergeStandbyPoolConfigWithDefault: the defaults, overridden by the values of
\* these fields that are set.
Merge(c) ==
  [f \in DOMAIN c |-> IF f \in MergedFields /\ Set(c[f]) THEN c[f] ELSE Default(f)]

\* newStandbyManager: normalizeConfig replaces what is still zero.
Normalize(c) == [f \in DOMAIN c |-> IF c[f] = "zero" THEN Default(f) ELSE c[f]]

\* newPool: the same for the two settings of the health check.
NormalizePool(c) ==
  [f \in DOMAIN c |-> IF f \in {"HealthCheckInterval", "HealthCheckTimeout"} /\ c[f] = "zero"
                      THEN "default" ELSE c[f]]

\* int32(MaxConns): the low half of a wide int is any int32.
Int32(v) == IF v = "wide" THEN {"zero", "negative", "other"} ELSE {v}

\* The sizes that ParseConfig found in the DSN, replaced by those that are set.
PoolSizes(v) == IF Set(v) THEN Int32(v) ELSE {"default"}

\* External: pgxpool.NewWithConfig takes a maximum of at least one connection.
NewWithConfig(c) == IF c["MaxConns"] \in {"zero", "negative"} THEN {} ELSE {c}

\* The pools that may come out of a configuration, none if it is refused.
Pools(c) ==
  IF c["DSN"] = "invalid" THEN {}
  ELSE UNION {NewWithConfig([c EXCEPT !["MaxConns"] = max, !["MinConns"] = min]) :
                max \in PoolSizes(c["MaxConns"]), min \in PoolSizes(c["MinConns"])}

buildPrimaryPgxPool(c) == IF c["DSN"] = "zero" THEN {} ELSE Pools(c)

\* What the primary may run with, and what the standby manager and its one host do:
\* a manager without a DSN has no hosts.
PrimaryRuns(c) == {NormalizePool(p) : p \in buildPrimaryPgxPool(MergePrimary(c))}
StandbyRuns(c) ==
  LET m == Normalize(Merge(c))
  IN  IF m["DSN"] = "zero" THEN {[m EXCEPT !["MaxConns"] = "default"]} ELSE Pools(m)

\* Settings to run with.  Fewer than no idle connections are none.
Usable(r) ==
  \A f \in DOMAIN r \ {"MinConns", "DSN"} : r[f] \in {"given", "default", "other"}
=============================================================================
