----------------------------- MODULE SqlDriver -----------------------------
(***************************************************************************)
(* infra/sqldb/sql: a wrapper around a database driver that traces what    *)
(* database/sql asks of it.  A driver declares what it can do by the       *)
(* optional interfaces it implements, and database/sql chooses its calls   *)
(* by them, so the wrapper must declare what its parent declares and pass  *)
(* each call on.                                                           *)
(*                                                                         *)
(* A case x fixes a call of the application (op), the interfaces of the    *)
(* parent's driver, connection and statement, the answers the parent will  *)
(* give, the arguments and the options.  An outcome is what the parent did *)
(* (did), the answer (out) and the spans that were started (spans).  Via   *)
(* says whom database/sql talks to: the parent or the wrapper.             *)
(***************************************************************************)
EXTENDS Naturals, Sequences, SequencesExt

CtxIface    == [Exec |-> "ExecerContext", Query |-> "QueryerContext"]
LegacyIface == [Exec |-> "Execer", Query |-> "Queryer"]
StmtIface   == [Exec |-> "StmtExecContext", Query |-> "StmtQueryContext"]

StmtIfaces == {"StmtExecContext", "StmtQueryContext", "ColumnConverter", "NamedValueChecker"}

Nothing(out) == [did |-> <<>>, out |-> out, spans |-> <<>>]

\* The outcome of r followed by s.
After(r, s) == [did |-> r.did \o s.did, out |-> s.out, spans |-> r.spans \o s.spans]

\* The parent is called: what it was called with, and its answer to that step.
Parent(x, step, call) == [did |-> <<call>>, out |-> x.ans[step], spans |-> <<>>]

-----------------------------------------------------------------------------
(* Middlewares.  A tracer is "tracer" or "nil".                            *)

TracerOrNil(shouldTrace) == IF shouldTrace THEN "tracer" ELSE "nil"

Trace(t, method) == <<[kind |-> "trace", t |-> t, method |-> method]>>
Wrapper == <<[kind |-> "wrap", t |-> "tracer", method |-> ""]>>

\* The function a middleware makes of next: a tracing one starts its span
\* first, and a nil tracer has no StartTrace to call.
Through(mw, next) ==
  CASE mw.kind = "wrap" -> next
    [] mw.kind = "trace" /\ mw.t = "nil" -> Nothing("panic")
    [] OTHER -> [next EXCEPT !.spans = <<mw.method>> \o @]

\* chainMiddlewares: the first one is outermost.
ChainMiddlewares(mws, last) == FoldRight(Through, mws, last)

MakeExecContextFuncMiddlewares(t, x) ==
  Trace(t, "db.Exec") \o (IF x.traceResult THEN Wrapper ELSE <<>>)

MakeQueryerContextMiddlewares(t) ==
  IF t # "nil" THEN Trace(t, "db.Query") ELSE <<>>

RunMiddlewares(k, t, x) ==
  IF k = "Exec" THEN MakeExecContextFuncMiddlewares(t, x)
                ELSE MakeQueryerContextMiddlewares(t)

MakePingFuncMiddlewares == <<>>
MakeBeginFuncMiddlewares == Trace("tracer", "db.Begin") \o Wrapper
MakeTxFuncMiddlewares(method) == Trace("tracer", method)
MakePrepareContextFuncMiddlewares == Trace("tracer", "db.Prepare") \o Wrapper

-----------------------------------------------------------------------------
(* Arguments: sequences of [name, value]; a plain one has no name.         *)

Named(args) == \E j \in DOMAIN args : args[j].name # ""

NamedValuesToValues(args) == [j \in DOMAIN args |-> args[j].value]
ValuesToNamedValues(vs) ==
  [j \in DOMAIN vs |-> [name |-> "", ordinal |-> j, value |-> vs[j]]]

-----------------------------------------------------------------------------
(* The wrapper.                                                            *)

\* wrapConn: conn has these methods whatever the parent has, and the two
\* interfaces below are embedded when the parent has them.
WrapConn(conn) ==
  {"Pinger", "Execer", "ExecerContext", "Queryer", "QueryerContext",
   "ConnPrepareContext", "ConnBeginTx"}
    \cup (conn \cap {"NamedValueChecker", "SessionResetter"})

\* A wrapStmt whose sixteen cases lose one interface next to another.
WrapStmt_LosesCase(stmt) ==
  IF {"StmtExecContext", "StmtQueryContext"} \subseteq stmt
  THEN stmt \ {"StmtQueryContext"}
  ELSE stmt

\* wrapStmt: one struct for each combination of the four optional interfaces.
WrapStmt(stmt) == stmt \cap StmtIfaces

\* makeConn: ping, exec and query do nothing, or skip, unless the parent can.
Ping(x) ==
  IF "Pinger" \in x.conn
  THEN ChainMiddlewares(MakePingFuncMiddlewares, Parent(x, "ping", <<"Ping">>))
  ELSE Nothing("ok")

RunContext(k, x, checker) ==
  IF CtxIface[k] \in x.conn
  THEN ChainMiddlewares(RunMiddlewares(k, "tracer", x),
                        Parent(x, "direct", <<k, "context", checker, x.args>>))
  ELSE Nothing("skip")

\* ensureBegin: a parent that takes no options is not given them.
EnsureBegin(x) ==
  Parent(x, "begin", IF "ConnBeginTx" \in x.conn THEN <<"BeginTx", x.opts>> ELSE <<"Begin">>)

BeginTx(x) == ChainMiddlewares(MakeBeginFuncMiddlewares, EnsureBegin(x))

\* wrapTx: both ends of the transaction are the parent's.
EndTx(x, end) == ChainMiddlewares(MakeTxFuncMiddlewares(end), Parent(x, "end", <<end>>))

EnsurePrepareContext(x) ==
  Parent(x, "prepare", <<IF "ConnPrepareContext" \in x.conn THEN "PrepareContext" ELSE "Prepare">>)

PrepareContext(x) ==
  ChainMiddlewares(MakePrepareContextFuncMiddlewares, EnsurePrepareContext(x))

\* stmt.execContext and stmt.queryContext: without the parent's they do nothing
\* and return nil.
StmtRunContext(k, x, checker) ==
  IF StmtIface[k] \in x.stmt
  THEN ChainMiddlewares(RunMiddlewares(k, "tracer", x),
                        Parent(x, "stmt", <<k, "context", checker, x.args>>))
  ELSE Nothing("nil")

\* stmt.exec and stmt.query, for the methods without a context: they are traced
\* only if root spans are allowed.
StmtRun(k, x, checker, values) ==
  ChainMiddlewares(RunMiddlewares(k, TracerOrNil(x.allowRoot), x),
    Parent(x, "stmt", <<k, checker, NamedValuesToValues(ValuesToNamedValues(values))>>))

\* wrapResult: RowsAffected of a result, in a span of its own if asked for.
RowsAffected(x) ==
  IF x.traceResult
  THEN ChainMiddlewares(Trace("tracer", "db.RowsAffected"), Parent(x, "rows", <<"RowsAffected">>))
  ELSE Parent(x, "rows", <<"RowsAffected">>)

\* wrapDriver: the wrapper opens connectors if its parent does.
WrapDriver(drv) == drv \cap {"DriverContext"}

\* otDriver.Open, and OpenConnector with Connect.
Open(x) == Parent(x, "open", <<"Open">>)
OpenConnector(x) == Parent(x, "open", <<"OpenConnector">>)
Connect(x) == Parent(x, "connect", <<"Connect">>)

\* otDriver.Close: the parent's connector is closed if it can be.
CloseConnector(x) ==
  IF "Closer" \in x.drv THEN Parent(x, "close", <<"Close">>) ELSE Nothing("ok")
-----------------------------------------------------------------------------
(* database/sql, which calls the driver: external.  via is "parent" or     *)
(* "wrapper".                                                              *)

ConnOf(via, x) == IF via = "parent" THEN x.conn ELSE WrapConn(x.conn)
StmtOf(via, x) == IF via = "parent" THEN x.stmt ELSE WrapStmt(x.stmt)
DrvOf(via, x)  == IF via = "parent" THEN x.drv ELSE WrapDriver(x.drv)

\* Who checks the arguments before they are passed: driverArgsConnLocked.
ConnChecker(via, x) ==
  IF "NamedValueChecker" \in ConnOf(via, x) THEN "conn" ELSE "default"
StmtChecker(via, x) ==
  CASE "NamedValueChecker" \in StmtOf(via, x) -> "stmt"
    [] "NamedValueChecker" \in ConnOf(via, x) -> "conn"
    [] "ColumnConverter" \in StmtOf(via, x) -> "column"
    [] OTHER -> "default"

\* Exec and Query of a DB: on the connection if it can, else on a statement
\* prepared for it.  Names need an interface with a context.
DirectCall(via, k, x) ==
  CASE CtxIface[k] \in ConnOf(via, x) ->
         IF via = "wrapper" THEN RunContext(k, x, ConnChecker(via, x))
         ELSE Parent(x, "direct", <<k, "context", ConnChecker(via, x), x.args>>)
    [] LegacyIface[k] \in ConnOf(via, x) ->
         IF Named(x.args) THEN Nothing("fail")
         ELSE Parent(x, "direct", <<k, ConnChecker(via, x), NamedValuesToValues(x.args)>>)
    [] OTHER -> Nothing("skip")

PrepareCall(via, x) == IF via = "wrapper" THEN PrepareContext(x) ELSE EnsurePrepareContext(x)

StmtCall(via, k, x) ==
  LET checker == StmtChecker(via, x)
      values == NamedValuesToValues(x.args)
  IN CASE StmtIface[k] \in StmtOf(via, x) ->
            IF via = "wrapper" THEN StmtRunContext(k, x, checker)
            ELSE Parent(x, "stmt", <<k, "context", checker, x.args>>)
       [] Named(x.args) -> Nothing("fail")
       [] OTHER -> IF via = "wrapper" THEN StmtRun(k, x, checker, values)
                   ELSE Parent(x, "stmt", <<k, checker, values>>)

DBRun(via, k, x) ==
  LET d == DirectCall(via, k, x)
      p == After(d, PrepareCall(via, x))
      r == IF d.out # "skip" THEN d
           ELSE IF p.out # "ok" THEN p ELSE After(p, StmtCall(via, k, x))
  IN IF k = "Exec" /\ r.out = "ok"
     THEN After(r, IF via = "wrapper" THEN RowsAffected(x) ELSE Parent(x, "rows", <<"RowsAffected">>))
     ELSE r

\* DB.BeginTx and the end of the transaction: options need ConnBeginTx.
DBTx(via, x) ==
  LET b == IF via = "wrapper" THEN BeginTx(x)
           ELSE IF "ConnBeginTx" \notin x.conn /\ x.opts # "default" THEN Nothing("fail")
           ELSE EnsureBegin(x)
  IN IF b.out # "ok" THEN b
     ELSE After(b, IF via = "wrapper" THEN EndTx(x, x.end) ELSE Parent(x, "end", <<x.end>>))

\* DB.Ping, of a connection that is then reset for the next user and given back
\* to the pool, or dropped.
DBReuse(via, x) ==
  LET p == IF via = "wrapper" THEN Ping(x)
           ELSE IF "Pinger" \in x.conn THEN Parent(x, "ping", <<"Ping">>) ELSE Nothing("ok")
      s == IF "SessionResetter" \in ConnOf(via, x)
           THEN After(p, Parent(x, "reset", <<"ResetSession">>)) ELSE p
  IN IF s.out = "ok" /\ "Validator" \in ConnOf(via, x)
     THEN After(s, Parent(x, "valid", <<"IsValid">>)) ELSE s

\* sql.Open, the first connection, and DB.Close.
DBOpen(via, x) ==
  IF "DriverContext" \in DrvOf(via, x)
  THEN LET o == OpenConnector(x)
           c == After(o, Connect(x))
           z == IF via = "wrapper" THEN CloseConnector(x)
                ELSE IF "Closer" \in x.drv THEN Parent(x, "close", <<"Close">>) ELSE Nothing("ok")
       IN IF o.out # "ok" THEN o ELSE After(c, z)
  ELSE Open(x)

Database(via, x) ==
  CASE x.op \in {"Exec", "Query"} -> DBRun(via, x.op, x)
    [] x.op = "tx" -> DBTx(via, x)
    [] x.op = "reuse" -> DBReuse(via, x)
    [] x.op = "open" -> DBOpen(via, x)

-----------------------------------------------------------------------------
(* Cases: what a call does not look at has one value.                      *)

Arg(name) == [name |-> name, ordinal |-> 1, value |-> "v"]
Fine == [s \in {"open", "connect", "close", "ping", "direct", "prepare", "stmt", "rows",
                "begin", "end", "reset", "valid"} |-> "ok"]
BaseCase == [op |-> "open", drv |-> {}, conn |-> {}, stmt |-> {}, ans |-> Fine, args |-> <<>>,
          opts |-> "default", end |-> "Commit", allowRoot |-> FALSE, traceResult |-> FALSE]

RunCases ==
  {[BaseCase EXCEPT !.op = k, !.conn = c, !.stmt = s, !.args = a, !.allowRoot = r, !.traceResult = r,
                 !.ans = [Fine EXCEPT !["direct"] = d, !["prepare"] = p, !["stmt"] = q]] :
     k \in {"Exec", "Query"},
     c \in SUBSET {"Execer", "ExecerContext", "QueryerContext", "ConnPrepareContext",
                   "NamedValueChecker"},
     s \in SUBSET StmtIfaces, a \in {<<Arg("")>>, <<Arg("n")>>},
     r \in BOOLEAN, d \in {"ok", "fail", "skip"}, p \in {"ok", "fail"}, q \in {"ok", "fail"}}

ConnCases ==
  {[BaseCase EXCEPT !.op = o, !.conn = c, !.opts = i, !.end = e,
                 !.ans = [Fine EXCEPT !["begin"] = b, !["end"] = f, !["ping"] = b,
                                      !["reset"] = f, !["valid"] = v]] :
     o \in {"tx", "reuse"}, c \in SUBSET {"ConnBeginTx", "Pinger", "SessionResetter", "Validator"},
     i \in {"default", "serializable"}, e \in {"Commit", "Rollback"},
     b, f, v \in {"ok", "fail"}}

OpenCases ==
  {[BaseCase EXCEPT !.drv = d, !.ans = [Fine EXCEPT !["open"] = o, !["connect"] = c]] :
     d \in SUBSET {"DriverContext", "Closer"}, o, c \in {"ok", "fail"}}

SqlCases == RunCases \cup ConnCases \cup OpenCases

\* The parent does the same and the application gets the same answer.
SameAs(x) ==
  LET w == Database("wrapper", x)
      p == Database("parent", x)
  IN w.did = p.did /\ w.out = p.out

\* What the wrapper changes: a driver with the old Execer or Queryer only is
\* asked to prepare instead, options are dropped that the parent cannot take, and
\* IsValid is hidden.
Legacy(x) == x.op \in {"Exec", "Query"} /\ LegacyIface[x.op] \in x.conn /\ CtxIface[x.op] \notin x.conn
OptionsDropped(x) == x.op = "tx" /\ "ConnBeginTx" \notin x.conn /\ x.opts # "default"
ValidityHidden(x) == x.op = "reuse" /\ "Validator" \in x.conn

\* Exec reaches a statement whose driver has no StmtExecContext while root spans are
\* not allowed: makeExecContextFuncMiddlewares is given a nil tracer.
NilTracer(x) ==
  /\ x.op = "Exec" /\ ~x.allowRoot
  /\ "ExecerContext" \notin x.conn \/ x.ans["direct"] = "skip"
  /\ x.ans["prepare"] = "ok"
  /\ "StmtExecContext" \notin x.stmt /\ ~Named(x.args)
=============================================================================
