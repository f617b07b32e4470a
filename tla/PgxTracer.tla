------------------------------ MODULE PgxTracer ------------------------------
(***************************************************************************)
(* The two tracers that this repository hangs on a pgx connection:         *)
(* Tracer of infra/otel/instrumentation/pgx, which keeps its span in the   *)
(* context, and pgxTracerAdapter of infra/pgw, which keeps there, under a  *)
(* key for each kind of operation, the function that ends the span.        *)
(*                                                                         *)
(* pgx calls Trace<Kind>Start before an operation and Trace<Kind>End after *)
(* it, with the context that Start returned; a statement that has to be    *)
(* prepared is prepared in the context of the operation that needs it.     *)
(* The operations of several goroutines run below one span of the          *)
(* application (span 1), which the application may end before they do.     *)
(***************************************************************************)
EXTENDS Naturals, Sequences

CONSTANTS TraceProcs,  \* goroutines that share the application's context
          MaxSpans     \* bound: how many spans are started

TracedKinds == {"query", "copy", "batch", "connect", "prepare"}

VARIABLES
  tracer,  \* "otel" or "adapter"
  spans,   \* the spans started: recording, how often ended, marked failed
  stack    \* for every goroutine its open operations, innermost last

tracerVars == <<tracer, spans, stack>>

\* What a context carries: the current span, and the end functions by kind.
AppContext == [span |-> 1, end |-> [k \in TracedKinds |-> 0]]

NewSpan(rec) == [rec |-> rec, ends |-> 0, failed |-> FALSE]

TracerInit ==
  /\ tracer \in {"otel", "adapter"}
  /\ \E rec \in BOOLEAN : spans = <<NewSpan(rec)>>
  /\ stack = [p \in TraceProcs |-> <<>>]

Context(p) == IF stack[p] = <<>> THEN AppContext ELSE stack[p][Len(stack[p])].ctx

\* pgx: what may start inside of what.
MayStart(p, kind) ==
  \/ stack[p] = <<>>
  \/ kind = "prepare" /\ Len(stack[p]) = 1 /\ stack[p][1].kind \in {"query", "copy", "batch"}

Push(p, kind, ctx, own) ==
  stack' = [stack EXCEPT ![p] = Append(@, [kind |-> kind, ctx |-> ctx, own |-> own])]

\* The sampler decides whether the new span is recorded.
StartSpan(p, kind) ==
  /\ Len(spans) < MaxSpans
  /\ \E rec \in BOOLEAN : spans' = Append(spans, NewSpan(rec))
  /\ Push(p, kind, [Context(p) EXCEPT !.span = Len(spans) + 1], Len(spans) + 1)

\* TraceQueryStart, TraceCopyFromStart, TraceBatchStart, TraceConnectStart and
\* TracePrepareStart: nothing is started below a span that is not recorded.
OtelStart(p, kind) ==
  /\ tracer = "otel"
  /\ MayStart(p, kind)
  /\ IF spans[Context(p).span].rec
     THEN StartSpan(p, kind)
     ELSE Push(p, kind, Context(p), 0) /\ UNCHANGED spans
  /\ UNCHANGED tracer

\* The adapter with one key for all kinds of operation.
AdapterStart_OneKey(p, kind) ==
  /\ tracer = "adapter"
  /\ kind # "connect" /\ MayStart(p, kind)
  /\ \/ /\ Len(spans) < MaxSpans
        /\ spans' = Append(spans, NewSpan(TRUE))
        /\ Push(p, kind, [span |-> Len(spans) + 1, end |-> [k \in TracedKinds |-> Len(spans) + 1]],
                Len(spans) + 1)
     \/ Push(p, kind, Context(p), 0) /\ UNCHANGED spans
  /\ UNCHANGED tracer

\* The adapter's Starts: Tracer.ShouldTrace decides, and the end function goes
\* into the context under the key of the kind.  There is no tracer for Connect.
AdapterStart(p, kind) ==
  /\ tracer = "adapter"
  /\ kind # "connect" /\ MayStart(p, kind)
  /\ \/ /\ Len(spans) < MaxSpans
        /\ spans' = Append(spans, NewSpan(TRUE))
        /\ Push(p, kind, [span |-> Len(spans) + 1, end |-> [Context(p).end EXCEPT ![kind] = Len(spans) + 1]],
                Len(spans) + 1)
     \/ Push(p, kind, Context(p), 0) /\ UNCHANGED spans
  /\ UNCHANGED tracer

\* recordError and span.End: a span that is not recorded ignores both.
\* pgx.ErrNoRows is no failure of the operation.
EndSpan(span, fate) ==
  IF span.rec THEN [rec |-> FALSE, ends |-> span.ends + 1, failed |-> fate = "error"] ELSE span

Pop(p) == stack' = [stack EXCEPT ![p] = SubSeq(@, 1, Len(@) - 1)]

\* The Ends of Tracer act on the span of the context they get.
OtelEnd(p, fate) ==
  /\ tracer = "otel"
  /\ stack[p] # <<>>
  /\ LET op == stack[p][Len(stack[p])]
     IN  spans' = [spans EXCEPT ![op.ctx.span] = EndSpan(@, fate)]
  /\ Pop(p)
  /\ UNCHANGED tracer

\* The Ends of the adapter call the end function they find under their key.
AdapterEnd(p, fate) ==
  /\ tracer = "adapter"
  /\ stack[p] # <<>>
  /\ LET op == stack[p][Len(stack[p])]
         own == op.ctx.end[op.kind]
     IN  spans' = IF own = 0 THEN spans
                  ELSE [spans EXCEPT ![own] =
                          [rec |-> FALSE, ends |-> @.ends + 1, failed |-> fate = "error"]]
  /\ Pop(p)
  /\ UNCHANGED tracer

\* TraceBatchQuery: after each query of a batch, a span that starts and ends at
\* once.  The adapter does nothing here.
TraceBatchQuery(p, fate) ==
  /\ tracer = "otel"
  /\ stack[p] # <<>> /\ stack[p][Len(stack[p])].kind = "batch"
  /\ spans[Context(p).span].rec
  /\ Len(spans) < MaxSpans
  /\ \E rec \in BOOLEAN : spans' = Append(spans, EndSpan(NewSpan(rec), fate))
  /\ UNCHANGED <<tracer, stack>>

\* External: the application ends its span, while rows may still be open.
AppEnds ==
  /\ spans[1].rec
  /\ spans' = [spans EXCEPT ![1].rec = FALSE]
  /\ UNCHANGED <<tracer, stack>>

Fates == {"ok", "norows", "error"}

\* The hooks of Tracer, as pgx calls them.
Ending(p, kind) == stack[p] # <<>> /\ stack[p][Len(stack[p])].kind = kind
TraceQueryStart(p) == OtelStart(p, "query")
TraceQueryEnd(p, fate) == Ending(p, "query") /\ OtelEnd(p, fate)
TraceCopyFromStart(p) == OtelStart(p, "copy")
TraceCopyFromEnd(p, fate) == Ending(p, "copy") /\ OtelEnd(p, fate)
TraceBatchStart(p) == OtelStart(p, "batch")
TraceBatchEnd(p, fate) == Ending(p, "batch") /\ OtelEnd(p, fate)
TraceConnectStart(p) == OtelStart(p, "connect")
TraceConnectEnd(p, fate) == Ending(p, "connect") /\ OtelEnd(p, fate)
TracePrepareStart(p) == OtelStart(p, "prepare")
TracePrepareEnd(p, fate) == Ending(p, "prepare") /\ OtelEnd(p, fate)

TracerNext ==
  \/ \E p \in TraceProcs :
       \/ TraceQueryStart(p) \/ TraceCopyFromStart(p) \/ TraceBatchStart(p)
       \/ TraceConnectStart(p) \/ TracePrepareStart(p)
       \/ \E kind \in TracedKinds : AdapterStart(p, kind)
       \/ \E fate \in Fates :
            \/ TraceQueryEnd(p, fate) \/ TraceCopyFromEnd(p, fate) \/ TraceBatchEnd(p, fate)
            \/ TraceConnectEnd(p, fate) \/ TracePrepareEnd(p, fate)
            \/ TraceBatchQuery(p, fate)
            \/ AdapterEnd(p, fate)
  \/ AppEnds

TracerSpec == TracerInit /\ [][TracerNext]_tracerVars

-----------------------------------------------------------------------------
\* The spans of the operations that are under way.
OpenSpans == (UNION {{stack[p][i].own : i \in 1..Len(stack[p])} : p \in TraceProcs}) \ {0}

\* A tracer ends the spans it started and no others: the application's span is
\* neither ended nor marked, the span of an operation is not ended while the
\* operation runs, whatever runs inside of it and whatever of that is not traced,
\* no span is ended twice, and none is left open after its operation.
SpansOwn ==
  /\ spans[1].ends = 0 /\ ~spans[1].failed
  /\ \A s \in 2..Len(spans) :
       /\ spans[s].ends <= 1
       /\ s \in OpenSpans => spans[s].ends = 0
       /\ spans[s].rec => s \in OpenSpans
=============================================================================
