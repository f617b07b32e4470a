----------------------------- MODULE RpcErrors ------------------------------
(***************************************************************************)
(* infra/errors: an error that travels through services.  Each service     *)
(* returns it from a gRPC handler, the next one reads it with FromError    *)
(* and returns it in its turn.                                             *)
(*                                                                         *)
(* A text is a record: what it is ("", blanks, words, JSON, or bytes that  *)
(* are no UTF-8) and what it holds.  A value of kind "app" is an *Error,   *)
(* "plain" an error of another package, "status" one of grpc/status.       *)
(***************************************************************************)
EXTENDS Integers, Sequences

CONSTANTS
  MaxHops    \* bound on the services an error passes

VARIABLES
  origin,    \* the error the first service returns
  carried,   \* the error the current service returns
  hops

hopVars == <<origin, carried, hops>>

NoError == [code |-> 0, status |-> "", message |-> [is |-> "empty", holds |-> ""]]
TextOf(is) == [is |-> is, holds |-> ""]
Words(w) == IF w = "" THEN TextOf("empty") ELSE [is |-> "words", holds |-> w]
Json(e) == [is |-> "json", holds |-> e]

App(e) == [kind |-> "app", e |-> e, text |-> TextOf("empty"), code |-> ""]
PlainError(text) == [kind |-> "plain", e |-> NoError, text |-> text, code |-> ""]
StatusError(code, text) == [kind |-> "status", e |-> NoError, text |-> text, code |-> code]
NoFailure == [kind |-> "nil", e |-> NoError, text |-> TextOf("empty"), code |-> ""]

-----------------------------------------------------------------------------
(* Options and constructors.                                               *)

CodeOption(e, code) == IF code > 0 THEN [e EXCEPT !.code = code] ELSE e
StatusOption(e, s) == IF s # "" THEN [e EXCEPT !.status = s] ELSE e
MessageOption(e, text) == [e EXCEPT !.message = text]

\* New with a Status and a Code option, and the options of the caller after them.
Built(status, code, opt) ==
  MessageOption(CodeOption(CodeOption(StatusOption(NoError, status), code), opt.code), opt.message)

Constructors ==
  {<<"BAD_REQUEST", 400>>, <<"UNAUTHORIZED", 401>>, <<"FORBIDDEN", 403>>, <<"NOT_FOUND", 404>>,
   <<"INTERNAL", 500>>, <<"BAD_GATEWAY", 502>>, <<"", 0>>}

-----------------------------------------------------------------------------
(* Codes.                                                                  *)

codeMap ==
  [c \in {0, 200, 400, 401, 403, 404, 405, 408, 409, 412, 429, 500, 501, 502, 503, 504, 511} |->
     CASE c = 0 -> "Unknown"
       [] c = 200 -> "OK"
       [] c = 400 -> "InvalidArgument"
       [] c \in {401, 511} -> "Unauthenticated"
       [] c \in {403, 405} -> "PermissionDenied"
       [] c = 404 -> "NotFound"
       [] c \in {408, 504} -> "DeadlineExceeded"
       [] c = 409 -> "AlreadyExists"
       [] c = 412 -> "FailedPrecondition"
       [] c = 429 -> "ResourceExhausted"
       [] c = 500 -> "Internal"
       [] c = 501 -> "Unimplemented"
       [] c \in {502, 503} -> "Unavailable"]

http2grpcCode(code) ==
  LET c == IF code < 0 THEN -code ELSE code
  IN IF c \in DOMAIN codeMap THEN codeMap[c] ELSE "Unknown"

\* The numbers of google.golang.org/grpc/codes.
Number(grpc) ==
  CHOOSE n \in 0..16 :
    <<"OK", "Canceled", "Unknown", "InvalidArgument", "DeadlineExceeded", "NotFound",
      "AlreadyExists", "PermissionDenied", "ResourceExhausted", "FailedPrecondition", "Aborted",
      "OutOfRange", "Unimplemented", "Internal", "Unavailable", "DataLoss",
      "Unauthenticated">>[n + 1] = grpc

-----------------------------------------------------------------------------
(* Conversions.                                                            *)

\* protobuf writes no string that is not UTF-8.
Writable(e) == e.message.is # "invalid"

\* Error.Error(): JSON, and nothing if that fails.
ErrorText(e) == IF Writable(e) THEN Json(e) ELSE TextOf("empty")

\* A GRPCStatus that leaves the error out of the details.
GRPCStatus_NoDetails(e) ==
  [code |-> http2grpcCode(e.code), details |-> {},
   message |-> IF e.status # "" THEN Words(e.status) ELSE e.message]

GRPCStatus(e) ==
  [code |-> http2grpcCode(e.code),
   details |-> IF Writable(e) THEN {e} ELSE {},
   message |-> IF ~Writable(e) THEN ErrorText(e)
               ELSE IF e.status # "" THEN Words(e.status) ELSE e.message]

\* Parse: an *Error or nil, and whether the text was one.
Parse(text) ==
  CASE text.is \in {"empty", "blank"} -> [dst |-> NoFailure, ok |-> TRUE]
    [] text.is = "json" -> [dst |-> App(text.holds), ok |-> TRUE]
    [] OTHER -> [dst |-> App(MessageOption(NoError, text)), ok |-> FALSE]

\* FromStatus: the first Error of the details, or the message, with the code of
\* the status where the code of an Error goes.
FromStatus(s) ==
  LET p == Parse(s.message)
  IN IF s.details # {} THEN App(CHOOSE e \in s.details : TRUE)
     ELSE IF p.ok THEN p.dst
     ELSE App([p.dst.e EXCEPT !.code = Number(s.code), !.status = s.code])

\* status.FromError in the server: any other error is Unknown.
ServerAnswer(v) ==
  CASE v.kind = "app" -> GRPCStatus(v.e)
    [] v.kind = "plain" -> [code |-> "Unknown", details |-> {}, message |-> v.text]
    [] v.kind = "status" -> [code |-> v.code, details |-> {}, message |-> v.text]

-----------------------------------------------------------------------------
Messages == {TextOf("empty"), TextOf("blank"), TextOf("invalid"), Words("text"), Json(NoError)}

\* The Code and Message options of the caller.
CallerOptions == [code : {-1, 0, 404, 409, 418}, message : Messages]

Origins ==
  {App(Built(c[1], c[2], o)) : c \in Constructors, o \in CallerOptions}
  \cup {PlainError(m) : m \in Messages \ {TextOf("invalid")}}
  \cup {StatusError(c, m) : c \in {"NotFound", "Canceled", "Unknown"},
                            m \in Messages \ {TextOf("invalid")}}

HopInit ==
  /\ origin \in Origins
  /\ carried = origin
  /\ hops = 0

\* The service answers, and its caller reads the error and returns it.
Hop ==
  /\ hops < MaxHops
  /\ carried.kind # "nil"
  /\ carried' = FromStatus(ServerAnswer(carried))
  /\ hops' = hops + 1
  /\ UNCHANGED origin

HopNext == Hop

HopSpec == HopInit /\ [][HopNext]_hopVars

-----------------------------------------------------------------------------
\* What does not survive: an *Error whose message is no UTF-8 and an error without a
\* text are read as no error at all; and FromStatus puts the number of a gRPC code
\* where GRPCStatus looks for an HTTP one.
Silent(v) ==
  IF v.kind = "app" THEN ~Writable(v.e) ELSE v.text.is \in {"empty", "blank"}
Misnumbered(v) == v.kind = "status" /\ v.code # "Unknown"

\* An *Error passes any number of services unchanged, and whatever the first service
\* returns stays an error, with the gRPC code of the first answer.
HopsKeep ==
  \/ Silent(origin)
  \/ /\ carried.kind # "nil"
     /\ origin.kind = "app" => carried = origin
     /\ ~Misnumbered(origin) => ServerAnswer(carried).code = ServerAnswer(origin).code
=============================================================================
