----------------------------- MODULE ErrorChain -----------------------------
(***************************************************************************)
(* pkg/errors: errors that carry values and causes, and the interceptors   *)
(* of pkg/interceptors that turn them into gRPC statuses.                  *)
(*                                                                         *)
(* An error is a chain of records: a sentinel at the end, and around it    *)
(* errWithValue ("value"), errWithCause ("cause"), formatError ("format")  *)
(* and wrappers of other packages ("foreign").  The chain is built one     *)
(* wrapper at a time, as an error is that is passed up through callers;    *)
(* told keeps what they attached, without the chain.  A text is the        *)
(* sequence of its parts.                                                  *)
(***************************************************************************)
EXTENDS Naturals, Sequences

CONSTANTS
  MaxWraps    \* bound on the wrappers around one error

VARIABLES
  err,    \* the error
  told,   \* what was attached: root, latest values, latest cause, text
  wraps   \* how many wrappers were applied

chainVars == <<err, told, wraps>>

NilErr == [kind |-> "nil"]
Plain(s) == [kind |-> "plain", name |-> s]
Value(e, k, v) == [kind |-> "value", err |-> e, key |-> k, val |-> v]
Caused(e, c) == [kind |-> "cause", err |-> e, cause |-> c]
Format(e) == [kind |-> "format", err |-> e]
Foreign(e) == [kind |-> "foreign", err |-> e]

Keys == {"id", "message", "code", "stack"}
Codes == {"NotFound", "AlreadyExists", "Unavailable", "OK"}

-----------------------------------------------------------------------------
(* Unwrap, Is and As.  Those of the package errors of Go are external.     *)

RECURSIVE SkipCauses(_)
SkipCauses(e) == IF e.kind = "cause" THEN SkipCauses(e.err) ELSE e

Inner(e) == IF e.kind = "plain" THEN NilErr ELSE e.err

\* errWithCause.Unwrap: down the chain with the latest cause in tow, and then to
\* the cause.  The others unwrap to what they wrap.
Unwrap(e) ==
  IF e.kind # "cause" THEN Inner(e)
  ELSE LET n == Inner(SkipCauses(e.err))
       IN IF n = NilErr THEN e.cause ELSE Caused(n, e.cause)

\* errWithCause.Is and As: the error it wraps, through directly nested ones.
RECURSIVE CauseIs(_, _)
CauseIs(e, target) == e.err = target \/ (e.err.kind = "cause" /\ CauseIs(e.err, target))

RECURSIVE CauseAs(_, _)
CauseAs(e, kinds) ==
  CASE e.err.kind \in kinds -> e.err
    [] e.err.kind = "cause" -> CauseAs(e.err, kinds)
    [] OTHER -> NilErr

RECURSIVE Is(_, _)
Is(e, target) ==
  /\ e # NilErr
  /\ \/ e = target
     \/ e.kind = "cause" /\ CauseIs(e, target)
     \/ Is(Unwrap(e), target)

RECURSIVE As(_, _)
As(e, kinds) ==
  CASE e = NilErr -> NilErr
    [] e.kind \in kinds -> e
    [] e.kind = "cause" /\ CauseAs(e, kinds) # NilErr -> CauseAs(e, kinds)
    [] OTHER -> As(Unwrap(e), kinds)

-----------------------------------------------------------------------------
(* What an error says.                                                     *)

\* A Lookup that follows Unwrap out of an errWithCause.
RECURSIVE Lookup_Unwraps(_, _)
Lookup_Unwraps(e, key) ==
  CASE e.kind = "value" -> IF e.key = key THEN e.val ELSE Lookup_Unwraps(e.err, key)
    [] e.kind = "cause" -> Lookup_Unwraps(Unwrap(e), key)
    [] As(e, {"value", "cause"}) = NilErr -> <<>>
    [] OTHER -> Lookup_Unwraps(As(e, {"value", "cause"}), key)

\* Lookup: the outermost value of the key, not searching causes.
RECURSIVE Lookup(_, _)
Lookup(e, key) ==
  CASE e.kind = "value" -> IF e.key = key THEN e.val ELSE Lookup(e.err, key)
    [] e.kind = "cause" -> Lookup(e.err, key)
    [] As(e, {"value", "cause"}) = NilErr -> <<>>
    [] OTHER -> Lookup(As(e, {"value", "cause"}), key)

\* Values: every errWithValue that Unwrap comes by, the outermost of a key first.
RECURSIVE Values(_)
Values(e) ==
  IF e = NilErr THEN [k \in Keys |-> <<>>]
  ELSE LET rest == Values(Unwrap(e))
       IN IF e.kind = "value" THEN [rest EXCEPT ![e.key] = e.val] ELSE rest

Code(e) == IF Lookup(e, "code") \in {<<>>, <<"OK">>} THEN <<"Internal">> ELSE Lookup(e, "code")
ID(e) == Lookup(e, "id")
Cause(e) == IF As(e, {"cause"}) = NilErr THEN NilErr ELSE As(e, {"cause"}).cause

\* Error(): the outermost message, or the sentinel's; another package's wrapper
\* adds to it.
RECURSIVE Text(_)
Text(e) ==
  CASE e.kind = "plain" -> <<e.name>>
    [] e.kind = "value" /\ e.key = "message" -> e.val
    [] e.kind = "foreign" -> <<"foreign">> \o Text(e.err)
    [] OTHER -> Text(e.err)
-----------------------------------------------------------------------------
(* Wrappers: functions from error to error, and nil to nil.                *)

WithValue(k, v) == [kind |-> "value", key |-> k, val |-> v]
WithCause(c) == [kind |-> "cause", cause |-> c]
AppendMessage(m) == [kind |-> "append", msg |-> m]
PrependMessage(m) == [kind |-> "prepend", msg |-> m]

\* Wrapper.Wrap.
Apply(w, e) ==
  CASE w.kind = "value" -> Value(e, w.key, w.val)
    [] w.kind = "cause" -> Caused(e, w.cause)
    [] w.kind = "append" -> Value(e, "message", Text(e) \o <<w.msg>>)
    [] w.kind = "prepend" -> Value(e, "message", <<w.msg>> \o Text(e))

\* Wrap: the result can always be formatted.
Wrap(e, ws) ==
  LET RECURSIVE all(_)
      all(n) == IF n = 0 THEN e ELSE Apply(ws[n], all(n - 1))
      r == all(Len(ws))
  IN IF r.kind \in {"value", "cause", "format"} THEN r ELSE Format(r)

New(s, ws) == Wrap(Plain(s), ws)

\* Forbidden, NotFound and the like: the code of the name comes last.
NewCoded(s, ws, code) == New(s, ws \o <<WithValue("code", <<code>>)>>)

\* The interceptors: the recovered panic becomes an error, and an error the
\* status of the call.
Recovered == Wrap(New("panic", <<WithValue("id", <<"interceptor.panic">>)>>), <<WithValue("stack", <<"p">>)>>)

HttpOf(code) ==
  CASE code = <<"Unauthenticated">> -> 401
    [] code = <<"PermissionDenied">> -> 403
    [] code = <<"NotFound">> -> 404
    [] code \in {<<"Aborted">>, <<"InvalidArgument">>, <<"AlreadyExists">>} -> 400
    [] OTHER -> 500

LogAndReturnGRPCError(e) == [grpc |-> Code(e), http |-> HttpOf(Code(e)), detail |-> Text(e)]

-----------------------------------------------------------------------------
Causes ==
  {New("c", <<>>), NewCoded("c", <<WithCause(Plain("d"))>>, "Unavailable"),
   Foreign(Wrap(Plain("c"), <<WithValue("id", <<"inner">>), WithCause(New("d", <<>>))>>))}

Sentinels == {Plain(s) : s \in {"root", "c", "d", "panic"}}

Told(root) == [root |-> root, vals |-> [k \in Keys |-> <<>>], cause |-> NilErr, text |-> <<root>>]

ChainInit ==
  /\ wraps = 0
  /\ \/ err = New("root", <<>>) /\ told = Told("root")
     \/ err = Plain("root") /\ told = Told("root")
     \/ err = Recovered /\ told = [Told("panic") EXCEPT !.vals["id"] = <<"interceptor.panic">>,
                                                             !.vals["stack"] = <<"p">>]

\* A caller wraps the error and passes it on.
WrapWith(w, t) ==
  /\ wraps < MaxWraps
  /\ err' = Wrap(err, w)
  /\ told' = t
  /\ wraps' = wraps + 1

SetValue ==
  \E k \in {"id", "code"} : \E v \in IF k = "code" THEN {<<c>> : c \in Codes} ELSE {<<"func">>} :
    WrapWith(<<WithValue(k, v)>>, [told EXCEPT !.vals[k] = v])

SetCause ==
  \E c \in Causes : WrapWith(<<WithCause(c)>>, [told EXCEPT !.cause = c])

SetMessage ==
  \/ LET m == told.text \o <<"m">>
     IN WrapWith(<<AppendMessage("m")>>, [told EXCEPT !.vals["message"] = m, !.text = m])
  \/ LET m == <<"m">> \o told.text
     IN WrapWith(<<PrependMessage("m")>>, [told EXCEPT !.vals["message"] = m, !.text = m])

\* Errorf of package fmt with %w: external.
WrapForeign ==
  /\ wraps < MaxWraps
  /\ err' = Foreign(err)
  /\ told' = [told EXCEPT !.text = <<"foreign">> \o @]
  /\ wraps' = wraps + 1

ChainNext == SetValue \/ SetCause \/ SetMessage \/ WrapForeign

-----------------------------------------------------------------------------
\* The sentinels of an error and of its causes, the latest of each level.
RECURSIVE Reach(_)
Reach(e) ==
  LET RECURSIVE end(_)
      end(x) == IF x.kind = "plain" THEN x ELSE end(x.err)
  IN IF e = NilErr THEN {} ELSE {end(e)} \cup Reach(Cause(e))

\* However an error was wrapped on its way up, by this package or by others, in
\* whatever order values, messages and causes were attached: Is finds its sentinel
\* and those of its latest cause and nothing else, Lookup finds the latest value
\* and never one of a cause, Cause the latest cause, Error() the latest message,
\* and the interceptor answers with the latest code and never with OK.
ChainKeeps ==
  /\ \A t \in Sentinels : Is(err, t) <=> t \in {Plain(told.root)} \cup Reach(told.cause)
  /\ \A k \in Keys : Lookup(err, k) = told.vals[k]
  /\ Cause(err) = told.cause
  /\ LogAndReturnGRPCError(err).detail = told.text
  /\ LET c == LogAndReturnGRPCError(err).grpc
     IN c # <<"OK">> /\ c = IF told.vals["code"] \in {<<>>, <<"OK">>} THEN <<"Internal">> ELSE told.vals["code"]
=============================================================================
