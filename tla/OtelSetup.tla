----------------------------- MODULE OtelSetup ------------------------------
(***************************************************************************)
(* infra/otel/sdk: Configure builds the providers of the three signals     *)
(* from the environment and the application's options, and returns the     *)
(* Shutdown that closes them.  Configure is sequential; Shutdown may be    *)
(* called by several goroutines, and again.                                *)
(***************************************************************************)
EXTENDS Naturals, Sequences

CONSTANTS
  Closers    \* goroutines that call Shutdown, once each

VARIABLES
  env,        \* OTEL_*_EXPORTER of each signal, OTEL_LOG_LEVEL, OTEL_SDK_DISABLED; never change
  given,      \* the signals the application passes options for; never changes
  stage,      \* how far Configure has come
  conf,       \* the signals newOptions has options for
  exporters,  \* the exporters newOptions has opened
  hooks,      \* shutdownHooks
  provided,   \* the signals whose provider is the global one
  closed,     \* how often each provider was shut down
  lock,       \* who holds shutdownTx
  left,       \* the hooks the holder has yet to call
  closer      \* what each caller of Shutdown has come to

otelVars == <<env, given, stage, conf, exporters, hooks, provided, closed, lock, left, closer>>

Signals == {"logs", "traces", "metrics"}
Settings == {"unset", "good", "bad"}

\* What is put in the place of a value that is not there.
Nobody == "nobody"

ASSUME OtelAssumption == Nobody \notin Closers

OtelInit ==
  /\ env \in [exporter : [Signals -> Settings], level : Settings, disabled : BOOLEAN]
  /\ given \in {{}, {"logs"}, {"traces", "metrics"}}
  /\ stage = "begin"
  /\ conf = {} /\ exporters = {} /\ provided = {}
  /\ hooks = <<>> /\ left = <<>>
  /\ closed = [s \in Signals |-> 0]
  /\ lock = Nobody
  /\ closer = [c \in Closers |-> "idle"]

\* OTEL_SDK_DISABLED: nothing is set up and the Shutdown returned does nothing.
Disable ==
  /\ stage = "begin"
  /\ env.disabled
  /\ stage' = "disabled"
  /\ UNCHANGED <<env, given, conf, exporters, hooks, provided, closed, lock, left, closer>>

\* newOptions: every signal is looked at, also after a bad one.  A bad value goes
\* to otel.Handle, and Configure returns what was handled, before any provider.
NewOptions ==
  /\ stage = "begin"
  /\ ~env.disabled
  /\ LET good == {s \in Signals : env.exporter[s] = "good"}
         bad == env.level = "bad" \/ \E s \in Signals : env.exporter[s] = "bad"
     IN /\ exporters' = good
        /\ conf' = good \cup given
        /\ stage' = IF bad THEN "failed" ELSE "logs"
  /\ UNCHANGED <<env, given, hooks, provided, closed, lock, left, closer>>

OnShutdown(s) == hooks' = Append(hooks, s)

\* One of the three signals: its provider is made, hooked and set globally.  (The
\* bridges and the level of the internal logger, set between logs and traces, are
\* the application's functions.)
Provide(s, next) ==
  /\ stage = s
  /\ stage' = next
  /\ IF s \in conf
     THEN OnShutdown(s) /\ provided' = provided \cup {s}
     ELSE UNCHANGED <<hooks, provided>>
  /\ UNCHANGED <<env, given, conf, exporters, closed, lock, left, closer>>

Configure ==
  \/ Disable
  \/ NewOptions
  \/ Provide("logs", "traces")
  \/ Provide("traces", "metrics")
  \/ Provide("metrics", "ready")

-----------------------------------------------------------------------------
\* The Shutdown of a disabled SDK, and that of a Configure that has returned.
ShutdownNothing(c) ==
  /\ stage = "disabled"
  /\ closer[c] = "idle"
  /\ closer' = [closer EXCEPT ![c] = "ok"]
  /\ UNCHANGED <<env, given, stage, conf, exporters, hooks, provided, closed, lock, left>>

ShutdownBegin(c) ==
  /\ stage \in {"failed", "ready"}
  /\ closer[c] = "idle"
  /\ lock = Nobody
  /\ lock' = c
  /\ left' = hooks
  /\ closer' = [closer EXCEPT ![c] = "runs"]
  /\ UNCHANGED <<env, given, stage, conf, exporters, hooks, provided, closed>>

\* A hook of Shutdown after which the first error ends the loop.
ShutdownHook_StopsAtError(c) ==
  /\ lock = c
  /\ left # <<>>
  /\ closed' = [closed EXCEPT ![Head(left)] = @ + 1]
  /\ \/ left' = Tail(left) /\ UNCHANGED closer
     \/ left' = <<>> /\ closer' = [closer EXCEPT ![c] = "failing"]
  /\ UNCHANGED <<env, given, stage, conf, exporters, hooks, provided, lock>>

\* One hook, which may fail; the errors are joined.
ShutdownHook(c) ==
  /\ lock = c
  /\ left # <<>>
  /\ closed' = [closed EXCEPT ![Head(left)] = @ + 1]
  /\ left' = Tail(left)
  /\ \/ UNCHANGED closer
     \/ closer' = [closer EXCEPT ![c] = "failing"]
  /\ UNCHANGED <<env, given, stage, conf, exporters, hooks, provided, lock>>

\* The hooks are forgotten, then the lock is given back.
ShutdownEnd(c) ==
  /\ lock = c
  /\ left = <<>>
  /\ hooks' = <<>>
  /\ lock' = Nobody
  /\ closer' = [closer EXCEPT ![c] = IF @ = "failing" THEN "failed" ELSE "ok"]
  /\ UNCHANGED <<env, given, stage, conf, exporters, provided, closed, left>>

Shutdown(c) == ShutdownNothing(c) \/ ShutdownBegin(c) \/ ShutdownHook(c) \/ ShutdownEnd(c)

OtelNext == Configure \/ \E c \in Closers : Shutdown(c)

OtelSpec == OtelInit /\ [][OtelNext]_otelVars

-----------------------------------------------------------------------------
\* Whoever calls Shutdown, and whichever providers fail to close: when a call has
\* returned, every provider that Configure made global has been shut down, and none
\* is ever shut down twice.
ShutdownOnce ==
  /\ \A s \in Signals : closed[s] <= 1
  /\ (\E c \in Closers : closer[c] \in {"ok", "failed"}) => \A s \in provided : closed[s] = 1
=============================================================================
