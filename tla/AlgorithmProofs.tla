-------------------------- MODULE AlgorithmProofs ---------------------------
(***************************************************************************)
(* Proofs about the smaller machines: the pick strategy of pgw, the two    *)
(* tracers of a pgx connection and the set-up of telemetry, for any number *)
(* of hosts, goroutines and providers.                                     *)
(***************************************************************************)
EXTENDS PgPick, PgxTracer, OtelSetup, SequenceTheorems, TLAPS

-----------------------------------------------------------------------------
(* LeastConnectionsPickStrategy, for any set of hosts and any loads.       *)

\* No host is idle.
Busy == \A h \in Hosts : load[h] # 0

\* The least of the hosts seen so far is kept, and somebody is kept.
KeepsLeast ==
  IF Seen = {}
  THEN minConnections = 0
  ELSE /\ result \in Seen
       /\ minConnections = load[result]
       /\ Busy => \A h \in Seen : load[result] <= load[h]

\* The inductive invariant of the pass.
PickInv == TypeOK /\ KeepsLeast

\* It holds before the first host is visited.
LEMMA PickInit == Init => PickInv
  BY PickAssumption DEF Init, PickInv, TypeOK, KeepsLeast, Seen, Loads

\* Every visit keeps it.
LEMMA PickNext == PickInv /\ [Next]_vars => PickInv'
<1> SUFFICES ASSUME PickInv, [Next]_vars PROVE PickInv'
  OBVIOUS
<1>1. CASE UNCHANGED vars
  BY <1>1 DEF vars, PickInv, TypeOK, KeepsLeast, Seen, Busy
<1>2. ASSUME NEW h \in Hosts, Visit(h) PROVE PickInv'
  <2> USE DEF PickInv, Visit
  <2>1. load[h] \in Loads
    BY DEF TypeOK
  <2>2. TypeOK'
    BY <1>2, <2>1 DEF TypeOK
  <2>3. Seen' = Seen \cup {h} /\ h \notin Seen
    BY <1>2 DEF TypeOK, Seen
  <2>4. \A g \in Hosts : load[g] \in Int
    BY DEF TypeOK, Loads
  <2>5. CASE minConnections = 0 \/ load[h] < minConnections
    <3>1. result' = h /\ minConnections' = load[h] /\ load' = load
      BY <1>2, <2>5
    <3>2. ASSUME Busy, NEW g \in Seen PROVE load[h] <= load[g]
      <4>1. minConnections = load[result] /\ result \in Hosts /\ g \in Hosts
        BY <3>2 DEF KeepsLeast, Seen
      <4>2. minConnections # 0 /\ load[result] <= load[g]
        BY <3>2, <4>1 DEF KeepsLeast, Busy
      <4> QED
        BY <2>4, <2>5, <4>1, <4>2
    <3>3. Busy' => Busy
      BY <3>1 DEF Busy
    <3> QED
      BY <2>2, <2>3, <2>4, <3>1, <3>2, <3>3 DEF KeepsLeast
  <2>6. CASE ~(minConnections = 0 \/ load[h] < minConnections)
    <3>1. UNCHANGED <<result, minConnections, load>>
      BY <1>2, <2>6
    <3>2. Seen # {} /\ result \in Seen /\ minConnections = load[result]
      BY <2>6 DEF KeepsLeast
    <3>3. load[result] <= load[h]
      BY <2>4, <2>6, <3>2 DEF Seen
    <3>4. Busy' => Busy
      BY <3>1 DEF Busy
    <3> QED
      BY <2>2, <2>3, <3>1, <3>2, <3>3, <3>4 DEF KeepsLeast
  <2> QED
    BY <2>5, <2>6
<1> QED
  BY <1>1, <1>2 DEF Next

\* Without idle hosts the pick has the fewest active connections of all.
THEOREM PickLeastWhenBusy == Spec => []LeastWhenBusy
<1>1. PickInv => LeastWhenBusy
  BY DEF PickInv, KeepsLeast, Seen, Busy, LeastWhenBusy
<1> QED
  BY <1>1, PickInit, PickNext, PTL DEF Spec

\* The pick is nil only for an empty store.
THEOREM PickSomebody == Spec => []PicksSomebody
<1>1. PickInv => PicksSomebody
  BY DEF PickInv, KeepsLeast, Seen, PicksSomebody
<1> QED
  BY <1>1, PickInit, PickNext, PTL DEF Spec

-----------------------------------------------------------------------------
(* The spans of the two tracers.  An operation that runs has a span of its *)
(* own, which is that of its context and not ended yet, or none: then the  *)
(* span of its context is not recorded (Tracer), or no end function is     *)
(* under its key (pgxTracerAdapter).                                       *)

TraceContexts == [span : Nat, end : [TracedKinds -> Nat]]
TraceOps == [kind : TracedKinds, ctx : TraceContexts, own : Nat]
TraceSpans == [rec : BOOLEAN, ends : Nat, failed : BOOLEAN]

TracerTypes ==
  /\ tracer \in {"otel", "adapter"}
  /\ spans \in Seq(TraceSpans) /\ Len(spans) # 0
  /\ stack \in [TraceProcs -> Seq(TraceOps)]

\* The span of an operation, and where it ends.
SpanFits(op) ==
  /\ op.own \in 0..Len(spans) /\ op.own # 1
  /\ op.ctx.span \in 1..Len(spans)
  /\ op.own # 0 => op.ctx.span = op.own /\ spans[op.own].ends = 0
  /\ tracer = "otel" /\ op.own = 0 => ~spans[op.ctx.span].rec
  /\ tracer = "adapter" => op.ctx.end[op.kind] = op.own

\* Only the outermost operation has another inside of it, with a key that is free.
KeyFree(p) ==
  tracer = "adapter" /\ stack[p] # <<>> /\ stack[p][1].kind # "prepare" =>
    stack[p][1].ctx.end["prepare"] = 0

Fitting == \A p \in TraceProcs : KeyFree(p) /\ \A i \in 1..Len(stack[p]) : SpanFits(stack[p][i])

\* No two operations have the same span.
SpansDiffer ==
  \A p, q \in TraceProcs : \A i \in 1..Len(stack[p]), j \in 1..Len(stack[q]) :
    stack[p][i].own = stack[q][j].own /\ stack[p][i].own # 0 => p = q /\ i = j

\* Whose span it is.
HasSpan(s) == \E p \in TraceProcs : \E i \in 1..Len(stack[p]) : stack[p][i].own = s

SpansEnd ==
  /\ spans[1].ends = 0 /\ spans[1].failed = FALSE
  /\ \A s \in 2..Len(spans) : spans[s].ends <= 1 /\ (spans[s].rec => HasSpan(s))

TracerInv == TracerTypes /\ Fitting /\ SpansDiffer /\ SpansEnd

\* Nothing runs.
LEMMA TracerInvInit == TracerInit => TracerInv
<1> SUFFICES ASSUME TracerInit PROVE TracerInv
  OBVIOUS
<1>1. PICK rec \in BOOLEAN : spans = <<NewSpan(rec)>>
  BY DEF TracerInit
<1>2. tracer \in {"otel", "adapter"} /\ stack = [p \in TraceProcs |-> <<>>]
  BY DEF TracerInit
<1>3. NewSpan(rec) \in TraceSpans /\ NewSpan(rec).ends = 0 /\ NewSpan(rec).failed = FALSE
  BY DEF NewSpan, TraceSpans
<1>4. spans \in Seq(TraceSpans) /\ Len(spans) = 1 /\ spans[1] = NewSpan(rec)
  BY <1>1, <1>3
<1>5. \A p \in TraceProcs : stack[p] = <<>> /\ Len(stack[p]) = 0
  BY <1>2, Zenon
<1>6. stack \in [TraceProcs -> Seq(TraceOps)]
  BY <1>2, EmptySeq
<1>7. TracerTypes
  BY <1>2, <1>4, <1>6 DEF TracerTypes
<1>8. Fitting
  <2>1. 1..0 = {}
    OBVIOUS
  <2> QED
    BY <1>5, <2>1, Zenon DEF Fitting, KeyFree
<1>9. SpansDiffer
  BY <1>5 DEF SpansDiffer
<1>10. SpansEnd
  BY <1>3, <1>4 DEF SpansEnd
<1> QED
  BY <1>7, <1>8, <1>9, <1>10 DEF TracerInv

LEMMA Positive == \A n \in Nat : \A i \in 0..n : i # 0 => i \in 1..n
  OBVIOUS

LEMMA OneAtMost == \A n : n = 1 => n <= 1
  OBVIOUS

LEMMA SameSeq ==
  ASSUME NEW S, NEW q \in Seq(S), NEW i \in 1..Len(q)
  PROVE  [q EXCEPT ![i] = q[i]] = q
  OBVIOUS

\* The operations keep fitting as long as no span comes to be recorded, and the
\* spans that operations have are not ended.
LEMMA FitsStay ==
  ASSUME NEW op \in TraceOps, SpanFits(op), spans \in Seq(TraceSpans),
         spans' \in Seq(TraceSpans), Len(spans) <= Len(spans'), tracer' = tracer,
         \A s \in 1..Len(spans) : spans'[s].rec => spans[s].rec,
         op.own # 0 => spans'[op.own].ends = spans[op.own].ends
  PROVE  SpanFits(op)'
<1>1. Len(spans) \in Nat /\ Len(spans') \in Nat
  BY LenProperties
<1>2. op.own \in Nat /\ op.ctx.span \in Nat
  BY DEF TraceOps, TraceContexts
<1>3. op.own \in 0..Len(spans') /\ op.own # 1 /\ op.ctx.span \in 1..Len(spans')
  BY <1>1, <1>2 DEF SpanFits
<1>4. op.own # 0 => op.ctx.span = op.own /\ spans'[op.own].ends = 0
  BY DEF SpanFits
<1>5. tracer' = "otel" /\ op.own = 0 => ~spans'[op.ctx.span].rec
  BY DEF SpanFits
<1>6. tracer' = "adapter" => op.ctx.end[op.kind] = op.own
  BY DEF SpanFits
<1> QED
  BY <1>3, <1>4, <1>5, <1>6 DEF SpanFits
\* Trace<Kind>Start: an operation with a new span, or with none.
LEMMA StartKeeps ==
  ASSUME TracerInv, NEW p \in TraceProcs, NEW kind \in TracedKinds, NEW ctx \in TraceContexts,
         NEW own \in Nat, Push(p, kind, ctx, own), MayStart(p, kind), tracer' = tracer,
         \/ own = 0 /\ spans' = spans
         \/ \E rec \in BOOLEAN : spans' = Append(spans, NewSpan(rec)) /\ own = Len(spans) + 1,
         SpanFits([kind |-> kind, ctx |-> ctx, own |-> own])',
         kind # "prepare" /\ tracer = "adapter" => ctx.end["prepare"] = 0
  PROVE  TracerInv'
<1> DEFINE op == [kind |-> kind, ctx |-> ctx, own |-> own]
           len == Len(stack[p]) + 1
<1>1. TracerTypes /\ spans \in Seq(TraceSpans) /\ Len(spans) \in Nat /\ Len(spans) # 0
      /\ stack \in [TraceProcs -> Seq(TraceOps)]
  BY LenProperties DEF TracerInv, TracerTypes
<1>2. op \in TraceOps /\ op.own = own /\ op.ctx = ctx /\ op.kind = kind
  BY DEF TraceOps
<1>3. stack[p] \in Seq(TraceOps) /\ Len(stack[p]) \in Nat
  BY <1>1, LenProperties
<1>4. stack' = [stack EXCEPT ![p] = Append(stack[p], op)] /\ SpanFits(op)'
  BY DEF Push
<1> HIDE DEF op
<1>5. /\ Append(stack[p], op) \in Seq(TraceOps) /\ Len(Append(stack[p], op)) = len
      /\ \A i \in 1..Len(stack[p]) : Append(stack[p], op)[i] = stack[p][i]
      /\ Append(stack[p], op)[len] = op
  BY <1>2, <1>3, AppendProperties
<1>6. /\ stack' \in [TraceProcs -> Seq(TraceOps)]
      /\ Len(stack'[p]) = len /\ stack'[p][len] = op
      /\ \A i \in 1..Len(stack[p]) : stack'[p][i] = stack[p][i]
      /\ \A q \in TraceProcs \ {p} : stack'[q] = stack[q]
  BY <1>1, <1>4, <1>5
<1>7. /\ len \in 1..len
      /\ \A i \in 1..len : i = len \/ i \in 1..Len(stack[p])
      /\ \A i \in 1..Len(stack[p]) : i \in 1..len
  BY <1>3
<1> HIDE DEF len
\* Every operation is an earlier one or the new one.
<1>8. ASSUME NEW q \in TraceProcs, NEW i \in 1..Len(stack'[q])
      PROVE  \/ q = p /\ i = len /\ stack'[q][i] = op
             \/ i \in 1..Len(stack[q]) /\ stack'[q][i] = stack[q][i]
  BY <1>6, <1>7
<1>9. ASSUME NEW q \in TraceProcs, NEW i \in 1..Len(stack[q])
      PROVE  i \in 1..Len(stack'[q]) /\ stack'[q][i] = stack[q][i]
  BY <1>6, <1>7
<1>10. /\ spans' \in Seq(TraceSpans) /\ Len(spans') \in Nat /\ Len(spans) <= Len(spans')
       /\ \A s \in 1..Len(spans) : spans'[s] = spans[s]
       /\ \A s \in 1..Len(spans') : s \in 1..Len(spans) \/ (s = own /\ spans'[s].ends = 0)
  <2>1. CASE own = 0 /\ spans' = spans
    <3>1. Len(spans) <= Len(spans')
      BY <1>1, <2>1
    <3> QED
      BY <1>1, <2>1, <3>1, Zenon
  <2>2. CASE \E rec \in BOOLEAN : spans' = Append(spans, NewSpan(rec)) /\ own = Len(spans) + 1
    <3>0. PICK rec \in BOOLEAN : spans' = Append(spans, NewSpan(rec)) /\ own = Len(spans) + 1
      BY <2>2
    <3>1. NewSpan(rec) \in TraceSpans /\ NewSpan(rec).ends = 0
      BY DEF NewSpan, TraceSpans
    <3>2. /\ spans' \in Seq(TraceSpans) /\ Len(spans') = Len(spans) + 1
          /\ \A s \in 1..Len(spans) : spans'[s] = spans[s]
          /\ spans'[own] = NewSpan(rec)
      BY <1>1, <3>0, <3>1, AppendProperties
    <3>3. Len(spans') \in Nat /\ Len(spans) <= Len(spans')
      BY <1>1, <3>2
    <3>4. \A s \in 1..Len(spans') : s \in 1..Len(spans) \/ s = own
      BY <1>1, <3>0, <3>2
    <3> QED
      BY <3>1, <3>2, <3>3, <3>4, Zenon
  <2> QED
    BY <2>1, <2>2
<1>11. \A q \in TraceProcs : \A i \in 1..Len(stack[q]) :
         stack[q][i] \in TraceOps /\ SpanFits(stack[q][i]) /\ stack[q][i].own \in 0..Len(spans)
  <2> SUFFICES ASSUME NEW q \in TraceProcs, NEW i \in 1..Len(stack[q])
               PROVE  stack[q][i] \in TraceOps /\ SpanFits(stack[q][i])
                      /\ stack[q][i].own \in 0..Len(spans)
    BY Zenon
  <2>1. stack[q][i] \in TraceOps
    BY <1>1, ElementOfSeq
  <2>2. SpanFits(stack[q][i])
    BY DEF TracerInv, Fitting
  <2> QED
    BY <2>1, <2>2, Zenon DEF SpanFits
<1>12. TracerTypes'
  <2>1. Len(spans') # 0
    BY <1>1, <1>10
  <2> QED
    BY <1>1, <1>6, <1>10, <2>1 DEF TracerTypes
<1>13. Fitting'
  <2>1. ASSUME NEW q \in TraceProcs, NEW i \in 1..Len(stack'[q]) PROVE SpanFits(stack[q][i])'
    <3>1. CASE stack'[q][i] = op
      BY <1>4, <3>1, Zenon DEF SpanFits
    <3>2. CASE i \in 1..Len(stack[q]) /\ stack'[q][i] = stack[q][i]
      <4>1. PICK o \in TraceOps : o = stack[q][i] /\ SpanFits(o) /\ o.own \in 0..Len(spans)
        BY <1>11, <3>2, Zenon
      <4>2. o.own # 0 => spans'[o.own].ends = spans[o.own].ends
        <5>1. o.own # 0 => o.own \in 1..Len(spans)
          BY <1>1, <4>1, Positive, Zenon
        <5> QED
          BY <1>10, <5>1, Zenon
      <4>3. SpanFits(o)'
        BY <1>1, <1>10, <4>1, <4>2, FitsStay, Zenon
      <4> QED
        BY <3>2, <4>1, <4>3, Zenon DEF SpanFits
    <3> QED
      BY <1>8, <3>1, <3>2
  <2>2. ASSUME NEW q \in TraceProcs PROVE KeyFree(q)'
    <3>1. KeyFree(q)
      BY DEF TracerInv, Fitting
    <3>2. CASE q # p
      BY <1>6, <3>1, <3>2 DEF KeyFree
    <3>3. CASE q = p /\ stack[p] = <<>>
      <4>1. stack'[p][1] = op
        BY <1>6, <3>3 DEF len
      <4> QED
        BY <1>2, <3>3, <4>1 DEF KeyFree
    <3>4. CASE q = p /\ stack[p] # <<>>
      <4>1. stack'[p][1] = stack[p][1]
        BY <1>3, <1>6, <3>4, EmptySeq
      <4> QED
        BY <3>1, <3>4, <4>1 DEF KeyFree
    <3> QED
      BY <3>2, <3>3, <3>4
  <2> QED
    BY <2>1, <2>2 DEF Fitting
<1>14. SpansDiffer'
  <2> SUFFICES ASSUME NEW q \in TraceProcs, NEW t \in TraceProcs,
                      NEW i \in 1..Len(stack'[q]), NEW j \in 1..Len(stack'[t]),
                      stack'[q][i].own = stack'[t][j].own, stack'[q][i].own # 0
               PROVE  q = t /\ i = j
    BY DEF SpansDiffer
  <2>1. own = 0 \/ own \notin 0..Len(spans)
    BY <1>1
  <2>2. SpansDiffer
    BY DEF TracerInv
  <2>3. CASE i \in 1..Len(stack[q]) /\ stack'[q][i] = stack[q][i]
    <3>1. stack[q][i].own \in 0..Len(spans)
      BY <1>11, <2>3
    <3>2. j \in 1..Len(stack[t]) /\ stack'[t][j] = stack[t][j]
      BY <1>2, <1>8, <2>1, <2>3, <3>1, Zenon
    <3> QED
      BY <2>2, <2>3, <3>2 DEF SpansDiffer
  <2>4. CASE q = p /\ i = len /\ stack'[q][i] = op
    <3>1. ~(j \in 1..Len(stack[t]) /\ stack'[t][j] = stack[t][j])
      BY <1>2, <1>11, <2>1, <2>4, Zenon
    <3> QED
      BY <1>8, <2>4, <3>1, Zenon
  <2> QED
    BY <1>8, <2>3, <2>4
<1>15. SpansEnd'
  <2>1. \A s \in 2..Len(spans) : s \in 1..Len(spans)
    BY <1>1
  <2>2. SpansEnd
    BY DEF TracerInv
  <2>3. spans'[1] = spans[1]
    BY <1>1, <1>10
  <2>4. ASSUME NEW s \in 2..Len(spans') PROVE spans'[s].ends <= 1 /\ (spans'[s].rec => HasSpan(s)')
    <3>1. CASE s \in 1..Len(spans)
      <4>1. spans'[s] = spans[s] /\ s \in 2..Len(spans)
        BY <1>1, <1>10, <3>1
      <4>2. HasSpan(s) => HasSpan(s)'
        BY <1>9, Zenon DEF HasSpan
      <4> QED
        BY <2>2, <4>1, <4>2, Zenon DEF SpansEnd
    <3>2. CASE s = own /\ spans'[s].ends = 0
      <4>1. HasSpan(s)'
        BY <1>2, <1>6, <1>7, <3>2 DEF HasSpan
      <4> QED
        BY <3>2, <4>1
    <3>3. s \in 1..Len(spans')
      <4>1. Len(spans') \in Nat
        BY <1>10
      <4> QED
        BY <4>1
    <3> QED
      BY <1>10, <3>1, <3>2, <3>3
  <2> QED
    BY <2>2, <2>3, <2>4 DEF SpansEnd
<1> QED
  BY <1>12, <1>13, <1>14, <1>15 DEF TracerInv
\* Trace<Kind>End: the innermost operation of a goroutine is over, and its span, if it
\* has one that is recorded, is ended.
LEMMA EndKeeps ==
  ASSUME TracerInv, NEW p \in TraceProcs, stack[p] # <<>>, Pop(p), tracer' = tracer,
         NEW own \in Nat, own = stack[p][Len(stack[p])].own,
         \/ spans' = spans /\ (own # 0 => ~spans[own].rec)
         \/ /\ own # 0
            /\ \E over \in TraceSpans : /\ spans' = [spans EXCEPT ![own] = over]
                                        /\ ~over.rec /\ over.ends = 1
  PROVE  TracerInv'
<1> DEFINE len == Len(stack[p])
<1>1. TracerTypes /\ spans \in Seq(TraceSpans) /\ Len(spans) \in Nat /\ Len(spans) # 0
      /\ stack \in [TraceProcs -> Seq(TraceOps)]
  BY LenProperties DEF TracerInv, TracerTypes
<1>2. stack[p] \in Seq(TraceOps) /\ len \in Nat /\ len # 0
  BY <1>1, LenProperties, EmptySeq
<1>3. stack' = [stack EXCEPT ![p] = SubSeq(stack[p], 1, len - 1)]
  BY DEF Pop
<1>4. /\ SubSeq(stack[p], 1, len - 1) \in Seq(TraceOps)
      /\ Len(SubSeq(stack[p], 1, len - 1)) = len - 1
      /\ \A i \in 1..(len - 1) : SubSeq(stack[p], 1, len - 1)[i] = stack[p][i]
  <2>1. \A i \in 1..(len - 1) : stack[p][i] \in TraceOps
    BY <1>2, ElementOfSeq
  <2> QED
    BY <1>2, <2>1, SubSeqProperties
<1>5. /\ stack' \in [TraceProcs -> Seq(TraceOps)]
      /\ Len(stack'[p]) = len - 1
      /\ \A i \in 1..(len - 1) : stack'[p][i] = stack[p][i]
      /\ \A q \in TraceProcs \ {p} : stack'[q] = stack[q]
  BY <1>1, <1>3, <1>4
<1>6. /\ len \in 1..len
      /\ \A i \in 1..len : i = len \/ i \in 1..(len - 1)
      /\ \A i \in 1..(len - 1) : i \in 1..len /\ i # len
  BY <1>2
<1>7. stack[p][len].own = own
  OBVIOUS
<1> HIDE DEF len
\* The operations that are left.
<1>8. ASSUME NEW q \in TraceProcs, NEW i \in 1..Len(stack'[q])
      PROVE  /\ i \in 1..Len(stack[q]) /\ stack'[q][i] = stack[q][i]
             /\ ~(q = p /\ i = len)
  BY <1>5, <1>6, Zenon DEF len
<1>9. ASSUME NEW q \in TraceProcs, NEW i \in 1..Len(stack[q]), ~(q = p /\ i = len)
      PROVE  i \in 1..Len(stack'[q]) /\ stack'[q][i] = stack[q][i]
  BY <1>5, <1>6, <1>9, Zenon DEF len
<1>10. \A q \in TraceProcs : \A i \in 1..Len(stack[q]) :
         stack[q][i] \in TraceOps /\ SpanFits(stack[q][i])
  <2> SUFFICES ASSUME NEW q \in TraceProcs, NEW i \in 1..Len(stack[q])
               PROVE  stack[q][i] \in TraceOps /\ SpanFits(stack[q][i])
    OBVIOUS
  <2>1. stack[q][i] \in TraceOps
    BY <1>1, ElementOfSeq
  <2> QED
    BY <2>1 DEF TracerInv, Fitting
<1>11. own \in 0..Len(spans) /\ own # 1
  BY <1>6, <1>7, <1>10, Zenon DEF SpanFits, len
<1>12. /\ spans' \in Seq(TraceSpans) /\ Len(spans') = Len(spans)
       /\ \A s \in 1..Len(spans) : s # own => spans'[s] = spans[s]
       /\ own # 0 => spans'[own].ends <= 1 /\ ~spans'[own].rec
  <2>1. CASE spans' = spans /\ (own # 0 => ~spans[own].rec)
    <3>1. own # 0 => spans[own].ends <= 1
      <4>1. own # 0 => spans[own].ends = 0
        BY <1>6, <1>7, <1>10, Zenon DEF SpanFits, len
      <4> QED
        BY <4>1
    <3> QED
      BY <1>1, <2>1, <3>1, Zenon
  <2>2. CASE /\ own # 0
             /\ \E over \in TraceSpans : /\ spans' = [spans EXCEPT ![own] = over]
                                         /\ ~over.rec /\ over.ends = 1
    <3>1. PICK over \in TraceSpans : /\ spans' = [spans EXCEPT ![own] = over]
                                     /\ ~over.rec /\ over.ends = 1
      BY <2>2, Zenon
    <3>2. own \in 1..Len(spans)
      BY <1>1, <1>11, <2>2
    <3>3. /\ spans' \in Seq(TraceSpans) /\ Len(spans') = Len(spans)
          /\ spans'[own] = over
          /\ \A s \in 1..Len(spans) : s # own => spans'[s] = spans[s]
      BY <1>1, <3>1, <3>2, ExceptSeq
    <3>4. spans'[own].ends <= 1
      <4>1. spans'[own].ends = 1
        BY <3>1, <3>3, Zenon
      <4> QED
        BY <4>1, OneAtMost, Zenon
    <3> QED
      BY <3>1, <3>3, <3>4, Zenon
  <2> QED
    BY <2>1, <2>2, Zenon
<1>13. \A s \in 1..Len(spans) : spans'[s].rec => spans[s].rec
  BY <1>11, <1>12, Zenon
<1>14. TracerTypes'
  BY <1>1, <1>5, <1>12 DEF TracerTypes
<1>15. Fitting'
  <2>1. ASSUME NEW q \in TraceProcs, NEW i \in 1..Len(stack'[q]) PROVE SpanFits(stack[q][i])'
    <3>1. PICK o \in TraceOps : o = stack[q][i] /\ SpanFits(o)
      BY <1>8, <1>10, Zenon
    <3>2. o.own # 0 => o.own # own
      <4>1. i \in 1..Len(stack[q]) /\ ~(q = p /\ i = len)
        BY <1>8
      <4>2. len \in 1..Len(stack[p]) /\ SpansDiffer
        BY <1>6 DEF len, TracerInv
      <4> QED
        BY <1>7, <3>1, <4>1, <4>2 DEF SpansDiffer
    <3>3. o.own # 0 => spans'[o.own].ends = spans[o.own].ends
      BY <1>1, <1>12, <3>1, <3>2, Zenon DEF SpanFits
    <3>4. Len(spans) <= Len(spans')
      BY <1>1, <1>12
    <3>5. SpanFits(o)'
      BY <1>1, <1>12, <1>13, <3>1, <3>3, <3>4, FitsStay, Zenon
    <3>6. stack'[q][i] = o
      BY <1>8, <3>1, Zenon
    <3> QED
      BY <3>5, <3>6, Zenon DEF SpanFits
  <2>2. ASSUME NEW q \in TraceProcs PROVE KeyFree(q)'
    <3>1. KeyFree(q)
      BY DEF TracerInv, Fitting
    <3>2. CASE stack'[q] = <<>>
      BY <3>2 DEF KeyFree
    <3>3. CASE stack'[q] # <<>>
      <4>1. 1 \in 1..Len(stack'[q])
        BY <1>5, <3>3, LenProperties, EmptySeq
      <4>2. 1 \in 1..Len(stack[q]) /\ stack'[q][1] = stack[q][1]
        BY <1>8, <4>1
      <4>3. stack[q] # <<>>
        BY <4>2
      <4> QED
        BY <3>1, <4>2, <4>3 DEF KeyFree
    <3> QED
      BY <3>2, <3>3
  <2> QED
    BY <2>1, <2>2 DEF Fitting
<1>16. SpansDiffer'
  <2> SUFFICES ASSUME NEW q \in TraceProcs, NEW t \in TraceProcs,
                      NEW i \in 1..Len(stack'[q]), NEW j \in 1..Len(stack'[t]),
                      stack'[q][i].own = stack'[t][j].own, stack'[q][i].own # 0
               PROVE  q = t /\ i = j
    BY DEF SpansDiffer
  <2>1. /\ i \in 1..Len(stack[q]) /\ stack'[q][i] = stack[q][i]
        /\ j \in 1..Len(stack[t]) /\ stack'[t][j] = stack[t][j]
    BY <1>8, Zenon
  <2> QED
    BY <2>1 DEF TracerInv, SpansDiffer
<1>17. SpansEnd'
  <2>1. SpansEnd
    BY DEF TracerInv
  <2>2. spans'[1] = spans[1]
    BY <1>1, <1>11, <1>12
  <2>3. ASSUME NEW s \in 2..Len(spans') PROVE spans'[s].ends <= 1 /\ (spans'[s].rec => HasSpan(s)')
    <3>1. s \in 2..Len(spans) /\ s \in 1..Len(spans) /\ s # 0
      BY <1>1, <1>12
    <3>2. CASE s = own
      BY <1>12, <3>1, <3>2, Zenon
    <3>3. CASE s # own
      <4>1. spans'[s] = spans[s]
        BY <1>12, <3>1, <3>3, Zenon
      <4>2. HasSpan(s) => HasSpan(s)'
        <5> SUFFICES ASSUME NEW q \in TraceProcs, NEW i \in 1..Len(stack[q]), stack[q][i].own = s
                     PROVE  HasSpan(s)'
          BY Zenon DEF HasSpan
        <5>1. ~(q = p /\ i = len)
          BY <1>7, <3>3
        <5>2. i \in 1..Len(stack'[q]) /\ stack'[q][i].own = s
          BY <1>9, <5>1, Zenon
        <5> QED
          BY <5>2, Zenon DEF HasSpan
      <4> QED
        BY <2>1, <3>1, <4>1, <4>2 DEF SpansEnd
    <3> QED
      BY <3>2, <3>3
  <2> QED
    BY <2>1, <2>2, <2>3, Zenon DEF SpansEnd
<1> QED
  BY <1>14, <1>15, <1>16, <1>17 DEF TracerInv
\* What an operation finds in its context when it starts.
LEMMA ContextFits ==
  ASSUME TracerInv, NEW p \in TraceProcs, NEW kind \in TracedKinds, MayStart(p, kind)
  PROVE  /\ Context(p) \in TraceContexts /\ Context(p).span \in 1..Len(spans)
         /\ tracer = "adapter" => Context(p).end[kind] = 0
         /\ tracer = "adapter" /\ kind # "prepare" => Context(p).end["prepare"] = 0
<1>1. "prepare" \in TracedKinds
  BY DEF TracedKinds
<1>2. CASE stack[p] = <<>>
  <2>1. Context(p) = AppContext
    BY <1>2 DEF Context
  <2>2. Len(spans) \in Nat /\ Len(spans) # 0
    BY LenProperties DEF TracerInv, TracerTypes
  <2>3. /\ AppContext \in TraceContexts /\ AppContext.span = 1
        /\ \A k \in TracedKinds : AppContext.end[k] = 0
    BY DEF AppContext, TraceContexts
  <2> QED
    BY <1>1, <2>1, <2>2, <2>3
<1>3. CASE kind = "prepare" /\ Len(stack[p]) = 1 /\ stack[p][1].kind \in {"query", "copy", "batch"}
  <2>1. stack[p] \in Seq(TraceOps) /\ stack[p] # <<>> /\ 1 \in 1..Len(stack[p])
    <3>1. stack[p] \in Seq(TraceOps)
      BY DEF TracerInv, TracerTypes
    <3> QED
      BY <1>3, <3>1, EmptySeq
  <2>2. Context(p) = stack[p][1].ctx
    BY <1>3, <2>1 DEF Context
  <2>3. stack[p][1] \in TraceOps
    BY <2>1, ElementOfSeq
  <2>4. SpanFits(stack[p][1]) /\ KeyFree(p)
    BY <2>1 DEF TracerInv, Fitting
  <2>5. stack[p][1].ctx \in TraceContexts /\ stack[p][1].ctx.span \in 1..Len(spans)
    BY <2>3, <2>4, Zenon DEF TraceOps, SpanFits
  <2> QED
    BY <1>3, <2>1, <2>2, <2>4, <2>5, Zenon DEF KeyFree
<1> QED
  BY <1>2, <1>3 DEF MayStart

\* A new span below any context fits its operation.
LEMMA NewSpanFits ==
  ASSUME TracerInv, NEW kind \in TracedKinds, NEW ctx \in TraceContexts, tracer' = tracer,
         NEW rec \in BOOLEAN, spans' = Append(spans, NewSpan(rec)), NEW own, own = Len(spans) + 1,
         ctx.span = own, tracer = "adapter" => ctx.end[kind] = own
  PROVE  own \in Nat /\ SpanFits([kind |-> kind, ctx |-> ctx, own |-> own])'
<1>1. spans \in Seq(TraceSpans) /\ Len(spans) \in Nat /\ Len(spans) # 0
  BY LenProperties DEF TracerInv, TracerTypes
<1>2. NewSpan(rec) \in TraceSpans /\ NewSpan(rec).ends = 0
  BY DEF NewSpan, TraceSpans
<1>3. Len(spans') = own /\ spans'[own] = NewSpan(rec)
  <2>1. PICK new \in TraceSpans : new = NewSpan(rec)
    BY <1>2
  <2>2. Len(Append(spans, new)) = Len(spans) + 1 /\ Append(spans, new)[Len(spans) + 1] = new
    BY <1>1, AppendProperties
  <2> QED
    BY <2>1, <2>2, Zenon
<1>4. own \in Nat /\ own \in 0..Len(spans') /\ own \in 1..Len(spans') /\ own # 0 /\ own # 1
  BY <1>1, <1>3
<1> QED
  BY <1>2, <1>3, <1>4 DEF SpanFits

\* Every hook of the tracers keeps TracerInv.
LEMMA OtelStartKeeps ==
  ASSUME TracerInv, NEW p \in TraceProcs, NEW kind \in TracedKinds, OtelStart(p, kind)
  PROVE  TracerInv'
<1>1. tracer = "otel" /\ tracer' = tracer /\ MayStart(p, kind)
  BY DEF OtelStart
<1>2. Context(p) \in TraceContexts /\ Context(p).span \in 1..Len(spans)
  BY <1>1, ContextFits
<1>3. CASE spans[Context(p).span].rec
  <2>1. PICK own \in Nat : own = Len(spans) + 1
    BY LenProperties DEF TracerInv, TracerTypes
  <2>2. PICK ctx \in TraceContexts : ctx = [Context(p) EXCEPT !.span = own] /\ ctx.span = own
    <3>1. /\ [Context(p) EXCEPT !.span = own] \in TraceContexts
          /\ [Context(p) EXCEPT !.span = own].span = own
      BY <1>2, <2>1 DEF TraceContexts
    <3> QED
      BY <3>1, Zenon
  <2>3. PICK rec \in BOOLEAN : spans' = Append(spans, NewSpan(rec)) /\ Push(p, kind, ctx, own)
    BY <1>3, <2>1, <2>2, Zenon DEF OtelStart, StartSpan
  <2>5. SpanFits([kind |-> kind, ctx |-> ctx, own |-> own])'
    BY <1>1, <2>1, <2>2, <2>3, NewSpanFits, Zenon
  <2> QED
    BY <1>1, <2>1, <2>2, <2>3, <2>5, StartKeeps
<1>4. CASE ~spans[Context(p).span].rec
  <2>1. Push(p, kind, Context(p), 0) /\ spans' = spans
    BY <1>4 DEF OtelStart
  <2>2. PICK ctx \in TraceContexts : ctx = Context(p)
    BY <1>2
  <2>3. SpanFits([kind |-> kind, ctx |-> ctx, own |-> 0])'
    <3>1. 0 \in 0..Len(spans) /\ 0 # 1
      BY LenProperties DEF TracerInv, TracerTypes
    <3> QED
      BY <1>1, <1>2, <1>4, <2>1, <2>2, <3>1 DEF SpanFits
  <2> QED
    BY <1>1, <2>1, <2>2, <2>3, StartKeeps
<1> QED
  BY <1>3, <1>4

LEMMA AdapterStartKeeps ==
  ASSUME TracerInv, NEW p \in TraceProcs, NEW kind \in TracedKinds, AdapterStart(p, kind)
  PROVE  TracerInv'
<1>1. tracer = "adapter" /\ tracer' = tracer /\ MayStart(p, kind)
  BY DEF AdapterStart
<1>2. PICK found \in TraceContexts : found = Context(p)
  BY <1>1, ContextFits
<1>3. /\ found.span \in 1..Len(spans) /\ found.end[kind] = 0
      /\ kind # "prepare" => found.end["prepare"] = 0
      /\ found.end \in [TracedKinds -> Nat] /\ "prepare" \in TracedKinds
  BY <1>1, <1>2, ContextFits DEF TraceContexts, TracedKinds
<1>4. CASE spans' = Append(spans, NewSpan(TRUE))
           /\ Push(p, kind, [span |-> Len(spans) + 1,
                             end |-> [found.end EXCEPT ![kind] = Len(spans) + 1]], Len(spans) + 1)
  <2>1. PICK own \in Nat : own = Len(spans) + 1
    BY LenProperties DEF TracerInv, TracerTypes
  <2> DEFINE ctx == [span |-> own, end |-> [found.end EXCEPT ![kind] = own]]
  <2>2. Push(p, kind, ctx, own)
    BY <1>4, <2>1
  <2>3. [found.end EXCEPT ![kind] = own] \in [TracedKinds -> Nat]
    BY <1>3, <2>1
  <2>4. /\ ctx \in TraceContexts /\ ctx.span = own /\ ctx.end[kind] = own
        /\ kind # "prepare" => ctx.end["prepare"] = 0
    BY <1>3, <2>1, <2>3 DEF TraceContexts
  <2> HIDE DEF ctx
  <2>5. SpanFits([kind |-> kind, ctx |-> ctx, own |-> own])'
    BY <1>1, <1>4, <2>1, <2>4, NewSpanFits, Zenon
  <2> QED
    BY <1>1, <1>4, <2>1, <2>2, <2>4, <2>5, StartKeeps, Zenon
<1>5. CASE Push(p, kind, found, 0) /\ spans' = spans
  <2>1. SpanFits([kind |-> kind, ctx |-> found, own |-> 0])'
    <3>1. 0 \in 0..Len(spans) /\ 0 # 1
      BY LenProperties DEF TracerInv, TracerTypes
    <3> QED
      BY <1>1, <1>3, <1>5, <3>1, Zenon DEF SpanFits
  <2> QED
    BY <1>1, <1>3, <1>5, <2>1, StartKeeps, Zenon
<1> QED
  BY <1>2, <1>4, <1>5, Zenon DEF AdapterStart
LEMMA OtelEndKeeps ==
  ASSUME TracerInv, NEW p \in TraceProcs, NEW fate \in Fates, OtelEnd(p, fate)
  PROVE  TracerInv'
<1> DEFINE len == Len(stack[p])
<1>1. /\ tracer = "otel" /\ tracer' = tracer /\ stack[p] # <<>> /\ Pop(p)
      /\ spans' = [spans EXCEPT ![stack[p][len].ctx.span] =
                     EndSpan(spans[stack[p][len].ctx.span], fate)]
  BY DEF OtelEnd
<1>2. spans \in Seq(TraceSpans) /\ stack[p] \in Seq(TraceOps) /\ len \in 1..len
  BY <1>1, LenProperties, EmptySeq DEF TracerInv, TracerTypes
<1>3. PICK op \in TraceOps : op = stack[p][len] /\ SpanFits(op)
  BY <1>2, ElementOfSeq DEF TracerInv, Fitting
<1>4. op.own \in Nat /\ op.ctx.span \in 1..Len(spans) /\ op.own = stack[p][len].own
  BY <1>3, Zenon DEF SpanFits, TraceOps
<1>5. spans[op.ctx.span] \in TraceSpans
  BY <1>2, <1>4, ElementOfSeq
<1>6. CASE spans[op.ctx.span].rec
  <2>1. op.own # 0 /\ op.ctx.span = op.own /\ spans[op.own].ends = 0
    BY <1>1, <1>3, <1>6, Zenon DEF SpanFits
  <2>2. PICK over : over = EndSpan(spans[op.own], fate)
    BY Zenon
  <2>3. over \in TraceSpans /\ ~over.rec /\ over.ends = 1
    <3>1. over = [rec |-> FALSE, ends |-> spans[op.own].ends + 1, failed |-> fate = "error"]
      BY <1>6, <2>1, <2>2 DEF EndSpan
    <3>2. over = [rec |-> FALSE, ends |-> 1, failed |-> fate = "error"]
      BY <2>1, <3>1
    <3> QED
      BY <3>2 DEF TraceSpans
  <2>4. spans' = [spans EXCEPT ![op.own] = over]
    BY <1>1, <1>3, <2>1, <2>2, Zenon
  <2> QED
    <3>1. \E end \in TraceSpans : spans' = [spans EXCEPT ![op.own] = end] /\ ~end.rec /\ end.ends = 1
      BY <2>3, <2>4, Zenon
    <3> QED
      BY <1>1, <1>4, <2>1, <3>1, EndKeeps, ZenonT(30)
<1>7. CASE ~spans[op.ctx.span].rec
  <2>1. EndSpan(spans[op.ctx.span], fate) = spans[op.ctx.span]
    BY <1>7, Zenon DEF EndSpan
  <2>2. spans' = spans
    <3>1. spans' = [spans EXCEPT ![op.ctx.span] = spans[op.ctx.span]]
      BY <1>1, <1>3, <2>1, Zenon
    <3> QED
      BY <1>2, <1>4, <3>1, SameSeq, Zenon
  <2>3. op.own # 0 => ~spans[op.own].rec
    BY <1>3, <1>7, Zenon DEF SpanFits
  <2> QED
    BY <1>1, <1>4, <2>2, <2>3, EndKeeps, Zenon
<1> QED
  BY <1>6, <1>7

LEMMA AdapterEndKeeps ==
  ASSUME TracerInv, NEW p \in TraceProcs, NEW fate \in Fates, AdapterEnd(p, fate)
  PROVE  TracerInv'
<1> DEFINE len == Len(stack[p])
<1>1. tracer = "adapter" /\ tracer' = tracer /\ stack[p] # <<>> /\ Pop(p)
  BY Zenon DEF AdapterEnd
<1>2. spans \in Seq(TraceSpans) /\ stack[p] \in Seq(TraceOps) /\ len \in 1..len
  BY <1>1, LenProperties, EmptySeq DEF TracerInv, TracerTypes
<1>3. PICK op \in TraceOps : op = stack[p][len] /\ SpanFits(op)
  BY <1>2, ElementOfSeq DEF TracerInv, Fitting
<1>4. op.own \in Nat /\ op.ctx.end[op.kind] = op.own /\ op.own = stack[p][len].own
  BY <1>1, <1>3, Zenon DEF SpanFits, TraceOps
<1>5. CASE op.own = 0
  <2>1. spans' = spans
    BY <1>3, <1>4, <1>5, Zenon DEF AdapterEnd
  <2> QED
    BY <1>1, <1>4, <1>5, <2>1, EndKeeps, Zenon
<1>6. CASE op.own # 0
  <2>1. spans[op.own].ends = 0
    BY <1>3, <1>6, Zenon DEF SpanFits
  <2>2. spans' = [spans EXCEPT ![op.own] =
                    [rec |-> FALSE, ends |-> spans[op.own].ends + 1, failed |-> fate = "error"]]
    BY <1>3, <1>4, <1>6, Zenon DEF AdapterEnd
  <2>3. PICK over : over = [rec |-> FALSE, ends |-> 1, failed |-> fate = "error"]
    BY Zenon
  <2>4. over \in TraceSpans /\ ~over.rec /\ over.ends = 1
    BY <2>3 DEF TraceSpans
  <2>5. spans' = [spans EXCEPT ![op.own] = over]
    BY <2>1, <2>2, <2>3
  <2> QED
    BY <1>1, <1>4, <1>6, <2>4, <2>5, EndKeeps, Zenon
<1> QED
  BY <1>5, <1>6

\* Spans that no operation has: one of a batch's query, and the application's.
LEMMA SpansAside ==
  ASSUME TracerInv, spans' \in Seq(TraceSpans), UNCHANGED <<tracer, stack>>,
         Len(spans') \in Nat, Len(spans) <= Len(spans'),
         \A s \in 1..Len(spans) : /\ spans'[s].ends = spans[s].ends
                                  /\ spans'[s].failed = spans[s].failed
                                  /\ spans'[s].rec => spans[s].rec,
         \A s \in 1..Len(spans') : s \notin 1..Len(spans) => spans'[s].ends <= 1 /\ ~spans'[s].rec
  PROVE  TracerInv'
<1>1. spans \in Seq(TraceSpans) /\ Len(spans) \in Nat /\ Len(spans) # 0
      /\ stack \in [TraceProcs -> Seq(TraceOps)] /\ tracer \in {"otel", "adapter"}
  BY LenProperties DEF TracerInv, TracerTypes
<1>2. TracerTypes'
  <2>1. Len(spans') # 0
    BY <1>1
  <2> QED
    BY <1>1, <2>1 DEF TracerTypes
<1>3. Fitting'
  <2>1. ASSUME NEW q \in TraceProcs, NEW i \in 1..Len(stack'[q]) PROVE SpanFits(stack[q][i])'
    <3>1. stack[q][i] \in TraceOps /\ SpanFits(stack[q][i])
      BY <1>1, ElementOfSeq DEF TracerInv, Fitting
    <3>2. PICK o \in TraceOps : o = stack[q][i] /\ SpanFits(o)
      BY <3>1
    <3>3. o.own # 0 => o.own \in 1..Len(spans)
      BY <1>1, <3>2 DEF SpanFits
    <3>4. SpanFits(o)'
      BY <1>1, <3>2, <3>3, FitsStay, Zenon
    <3> QED
      BY <3>2, <3>4, Zenon DEF SpanFits
  <2>2. \A q \in TraceProcs : KeyFree(q)'
    BY DEF KeyFree, TracerInv, Fitting
  <2> QED
    BY <2>1, <2>2 DEF Fitting
<1>4. SpansDiffer'
  BY DEF TracerInv, SpansDiffer
<1>5. SpansEnd'
  <2>1. SpansEnd /\ 1 \in 1..Len(spans)
    BY <1>1 DEF TracerInv
  <2>2. spans'[1].ends = 0 /\ spans'[1].failed = FALSE
    BY <2>1 DEF SpansEnd
  <2>3. ASSUME NEW s \in 2..Len(spans') PROVE spans'[s].ends <= 1 /\ (spans'[s].rec => HasSpan(s)')
    <3>1. s \in 1..Len(spans')
      OBVIOUS
    <3>2. CASE s \in 1..Len(spans)
      <4>1. s \in 2..Len(spans)
        BY <1>1, <3>2
      <4>2. HasSpan(s) => HasSpan(s)'
        BY DEF HasSpan
      <4> QED
        BY <2>1, <3>2, <4>1, <4>2 DEF SpansEnd
    <3>3. CASE s \notin 1..Len(spans)
      BY <3>1, <3>3
    <3> QED
      BY <3>2, <3>3
  <2> QED
    BY <2>2, <2>3 DEF SpansEnd
<1> QED
  BY <1>2, <1>3, <1>4, <1>5 DEF TracerInv
LEMMA TraceBatchQueryKeeps ==
  ASSUME TracerInv, NEW p \in TraceProcs, NEW fate \in Fates, TraceBatchQuery(p, fate)
  PROVE  TracerInv'
<1>1. PICK rec \in BOOLEAN : spans' = Append(spans, EndSpan(NewSpan(rec), fate))
  BY DEF TraceBatchQuery
<1>2. PICK done : done = EndSpan(NewSpan(rec), fate)
  OBVIOUS
<1>3. done \in TraceSpans /\ ~done.rec /\ done.ends <= 1
  <2>1. CASE rec
    <3>1. done = [rec |-> FALSE, ends |-> 1, failed |-> fate = "error"]
      BY <1>2, <2>1 DEF EndSpan, NewSpan
    <3> QED
      BY <3>1 DEF TraceSpans
  <2>2. CASE ~rec
    <3>1. done = [rec |-> FALSE, ends |-> 0, failed |-> FALSE]
      BY <1>2, <2>2, Zenon DEF EndSpan, NewSpan
    <3> QED
      BY <3>1 DEF TraceSpans
  <2> QED
    BY <2>1, <2>2
<1>4. spans \in Seq(TraceSpans) /\ Len(spans) \in Nat
  BY LenProperties DEF TracerInv, TracerTypes
<1>5. /\ spans' \in Seq(TraceSpans) /\ Len(spans') = Len(spans) + 1
      /\ \A s \in 1..Len(spans) : spans'[s] = spans[s]
      /\ spans'[Len(spans) + 1] = done
  BY <1>1, <1>2, <1>3, <1>4, AppendProperties
<1>6. /\ Len(spans') \in Nat /\ Len(spans) <= Len(spans')
      /\ \A s \in 1..Len(spans') : s \notin 1..Len(spans) => s = Len(spans) + 1
  BY <1>4, <1>5
<1>7. UNCHANGED <<tracer, stack>>
  BY DEF TraceBatchQuery
<1>8. \A s \in 1..Len(spans') : s \notin 1..Len(spans) => spans'[s].ends <= 1 /\ ~spans'[s].rec
  BY <1>3, <1>5, <1>6, Zenon
<1> QED
  BY <1>5, <1>6, <1>7, <1>8, SpansAside, Zenon

LEMMA AppEndsKeeps ==
  ASSUME TracerInv, AppEnds
  PROVE  TracerInv'
<1>1. spans' = [spans EXCEPT ![1].rec = FALSE] /\ UNCHANGED <<tracer, stack>>
  BY DEF AppEnds
<1>2. spans \in Seq(TraceSpans) /\ Len(spans) \in Nat /\ 1 \in 1..Len(spans)
  BY LenProperties DEF TracerInv, TracerTypes
<1>3. PICK over : over = [spans[1] EXCEPT !.rec = FALSE]
  BY Zenon
<1>4. spans[1] \in TraceSpans
  BY <1>2, ElementOfSeq
<1>5. /\ over \in TraceSpans /\ ~over.rec
      /\ over.ends = spans[1].ends /\ over.failed = spans[1].failed
  BY <1>3, <1>4, Zenon DEF TraceSpans
<1>6. spans' = [spans EXCEPT ![1] = over]
  BY <1>1, <1>3
<1>7. /\ spans' \in Seq(TraceSpans) /\ Len(spans') = Len(spans) /\ spans'[1] = over
      /\ \A s \in 1..Len(spans) : s # 1 => spans'[s] = spans[s]
  BY <1>2, <1>5, <1>6, ExceptSeq
<1>8. \A s \in 1..Len(spans) : /\ spans'[s].ends = spans[s].ends
                               /\ spans'[s].failed = spans[s].failed
                               /\ spans'[s].rec => spans[s].rec
  BY <1>5, <1>7, Zenon
<1>9. Len(spans) <= Len(spans')
  BY <1>2, <1>7
<1> QED
  BY <1>1, <1>2, <1>7, <1>8, <1>9, SpansAside, Zenon

LEMMA TracerInvNext == TracerInv /\ [TracerNext]_tracerVars => TracerInv'
<1> SUFFICES ASSUME TracerInv, [TracerNext]_tracerVars PROVE TracerInv'
  OBVIOUS
<1>1. \A k \in {"query", "copy", "batch", "connect", "prepare"} : k \in TracedKinds
  BY DEF TracedKinds
<1>2. ASSUME NEW p \in TraceProcs,
             \/ TraceQueryStart(p) \/ TraceCopyFromStart(p) \/ TraceBatchStart(p)
             \/ TraceConnectStart(p) \/ TracePrepareStart(p)
      PROVE  TracerInv'
  <2>1. \E kind \in TracedKinds : OtelStart(p, kind)
    BY <1>1, <1>2 DEF TraceQueryStart, TraceCopyFromStart, TraceBatchStart, TraceConnectStart,
                      TracePrepareStart
  <2> QED
    BY <2>1, OtelStartKeeps
<1>3. ASSUME NEW p \in TraceProcs, NEW kind \in TracedKinds, AdapterStart(p, kind)
      PROVE  TracerInv'
  BY <1>3, AdapterStartKeeps
<1>4. ASSUME NEW p \in TraceProcs, NEW fate \in Fates,
             \/ TraceQueryEnd(p, fate) \/ TraceCopyFromEnd(p, fate) \/ TraceBatchEnd(p, fate)
             \/ TraceConnectEnd(p, fate) \/ TracePrepareEnd(p, fate)
      PROVE  TracerInv'
  <2>1. OtelEnd(p, fate)
    BY <1>4 DEF TraceQueryEnd, TraceCopyFromEnd, TraceBatchEnd, TraceConnectEnd, TracePrepareEnd
  <2> QED
    BY <2>1, OtelEndKeeps
<1>5. ASSUME NEW p \in TraceProcs, NEW fate \in Fates, TraceBatchQuery(p, fate) PROVE TracerInv'
  BY <1>5, TraceBatchQueryKeeps
<1>6. ASSUME NEW p \in TraceProcs, NEW fate \in Fates, AdapterEnd(p, fate) PROVE TracerInv'
  BY <1>6, AdapterEndKeeps
<1>7. CASE AppEnds
  BY <1>7, AppEndsKeeps
<1>8. CASE UNCHANGED tracerVars
  <2>1. tracer' = tracer /\ spans' = spans /\ stack' = stack
    BY <1>8 DEF tracerVars
  <2>2. TracerTypes' /\ SpansDiffer'
    BY <2>1 DEF TracerInv, TracerTypes, SpansDiffer
  <2>3. Fitting'
    BY <2>1, ZenonT(30) DEF TracerInv, Fitting, KeyFree, SpanFits
  <2>4. SpansEnd'
    BY <2>1, Zenon DEF TracerInv, SpansEnd, HasSpan
  <2> QED
    BY <2>2, <2>3, <2>4 DEF TracerInv
<1> QED
  BY <1>2, <1>3, <1>4, <1>5, <1>6, <1>7, <1>8, Zenon DEF TracerNext

\* A tracer ends the spans it started, once, and no others: neither the application's
\* span nor that of an operation that runs, whatever is traced inside of it or not.
THEOREM TracerSpansOwn == TracerSpec => []SpansOwn
<1>1. TracerInv => SpansOwn
  <2> SUFFICES ASSUME TracerInv PROVE SpansOwn
    OBVIOUS
  <2>1. SpansEnd
    BY DEF TracerInv
  <2>2. \A s : s \in OpenSpans <=> s # 0 /\ HasSpan(s)
    BY DEF OpenSpans, HasSpan
  <2>3. ASSUME NEW s \in 2..Len(spans) PROVE s \in OpenSpans => spans[s].ends = 0
    <3> SUFFICES ASSUME NEW p \in TraceProcs, NEW i \in 1..Len(stack[p]), stack[p][i].own = s, s # 0
                 PROVE  spans[s].ends = 0
      BY <2>2, Zenon DEF HasSpan
    <3> QED
      BY Zenon DEF TracerInv, Fitting, SpanFits
  <2>4. \A s \in 2..Len(spans) : spans[s].rec => s \in OpenSpans
    BY <2>1, <2>2 DEF SpansEnd
  <2> QED
    BY <2>1, <2>3, <2>4 DEF SpansEnd, SpansOwn
<1> QED
  BY <1>1, TracerInvInit, TracerInvNext, PTL DEF TracerSpec

-----------------------------------------------------------------------------
(* Telemetry.  Every provider that was made global is closed once: it is   *)
(* pending as long as it stands in the list of hooks, or, while somebody   *)
(* holds the lock, among those that are left.                              *)

In(q, x) == \E k \in 1..Len(q) : q[k] = x
Distinct(q) == \A j, k \in 1..Len(q) : q[j] = q[k] => j = k

\* The empty list holds nothing.
LEMMA InEmpty == Len(<<>>) = 0 /\ Distinct(<<>>) /\ \A x : ~In(<<>>, x)
BY EmptySeq DEF In, Distinct

\* What a list holds once something new is appended.
LEMMA InAppend ==
  ASSUME NEW S, NEW q \in Seq(S), NEW e \in S
  PROVE  /\ Append(q, e) \in Seq(S)
         /\ \A x : In(Append(q, e), x) <=> In(q, x) \/ x = e
         /\ Distinct(q) /\ ~In(q, e) => Distinct(Append(q, e))
<1> DEFINE a == Append(q, e)
<1>1. /\ a \in Seq(S) /\ Len(q) \in Nat /\ Len(a) = Len(q) + 1
      /\ \A k \in 1..Len(q) : a[k] = q[k]
      /\ a[Len(q) + 1] = e
  BY AppendProperties, LenProperties
<1>2. 1..Len(a) = 1..Len(q) \cup {Len(q) + 1}
  BY <1>1
<1> HIDE DEF a
<1>3. ASSUME NEW x PROVE In(a, x) <=> In(q, x) \/ x = e
  BY <1>1, <1>2 DEF In
<1>4. ASSUME Distinct(q), ~In(q, e), NEW j \in 1..Len(a), NEW k \in 1..Len(a), a[j] = a[k]
      PROVE  j = k
  BY <1>1, <1>2, <1>4, Zenon DEF In, Distinct
<1> QED
  BY <1>1, <1>3, <1>4 DEF a, Distinct

\* What a list of distinct elements holds after its head is taken off.
LEMMA InTail ==
  ASSUME NEW S, NEW q \in Seq(S), q # <<>>
  PROVE  /\ Tail(q) \in Seq(S) /\ Head(q) \in S /\ In(q, Head(q))
         /\ Distinct(q) => Distinct(Tail(q))
         /\ Distinct(q) => \A x : In(Tail(q), x) <=> In(q, x) /\ x # Head(q)
<1> DEFINE t == Tail(q)
<1>1. /\ t \in Seq(S) /\ Head(q) \in S /\ Len(q) \in Nat \ {0} /\ Len(t) = Len(q) - 1
      /\ Head(q) = q[1]
      /\ \A k \in 1..Len(t) : t[k] = q[k + 1]
  BY HeadTailProperties, LenProperties, EmptySeq
<1> HIDE DEF t
<1>2. In(q, Head(q))
  BY <1>1 DEF In
<1>3. \A k \in 1..Len(t) : k + 1 \in 1..Len(q) /\ k + 1 # 1
  BY <1>1
<1>4. \A k \in 1..Len(q) : k # 1 => k - 1 \in 1..Len(t) /\ (k - 1) + 1 = k
  BY <1>1
<1>5. ASSUME Distinct(q), NEW j \in 1..Len(t), NEW k \in 1..Len(t), t[j] = t[k] PROVE j = k
  <2>1. q[j + 1] = q[k + 1] /\ j + 1 \in 1..Len(q) /\ k + 1 \in 1..Len(q)
    BY <1>1, <1>3, <1>5
  <2>2. j + 1 = k + 1
    BY <1>5, <2>1 DEF Distinct
  <2> QED
    BY <1>1, <2>2
<1>6. ASSUME Distinct(q), NEW x, In(t, x) PROVE In(q, x) /\ x # Head(q)
  <2>1. PICK k \in 1..Len(t) : t[k] = x
    BY <1>6 DEF In
  <2>2. k + 1 \in 1..Len(q) /\ k + 1 # 1 /\ q[k + 1] = x /\ 1 \in 1..Len(q)
    BY <1>1, <1>3, <2>1
  <2> QED
    BY <1>1, <1>6, <2>2 DEF In, Distinct
<1>7. ASSUME NEW x, In(q, x), x # Head(q) PROVE In(t, x)
  <2>1. PICK k \in 1..Len(q) : q[k] = x
    BY <1>7 DEF In
  <2>2. k - 1 \in 1..Len(t) /\ t[k - 1] = x
    BY <1>1, <1>4, <1>7, <2>1
  <2> QED
    BY <2>2 DEF In
<1> QED
  BY <1>1, <1>2, <1>5, <1>6, <1>7 DEF t, Distinct

Setting == {"begin", "logs", "traces", "metrics"}

\* The signals that Configure has dealt with.
Earlier(at) == CASE at = "traces" -> {"logs"}
                 [] at = "metrics" -> {"logs", "traces"}
                 [] OTHER -> {}

Pending(s) == IF lock = Nobody THEN In(hooks, s) ELSE In(left, s)

Returned == \E c \in Closers : closer[c] \in {"ok", "failed"}

OtelTypes ==
  /\ stage \in Setting \cup {"disabled", "failed", "ready"}
  /\ lock \in Closers \cup {Nobody}
  /\ provided \subseteq Signals
  /\ hooks \in Seq(Signals) /\ left \in Seq(Signals)
  /\ closed \in [Signals -> Nat]
  /\ closer \in [Closers -> {"idle", "runs", "failing", "ok", "failed"}]

\* Shutdown is not called before Configure has returned it, and that of a disabled SDK
\* finds nothing to close.
Sequenced ==
  /\ stage \in Setting => /\ lock = Nobody /\ provided \subseteq Earlier(stage)
                          /\ \A c \in Closers : closer[c] = "idle"
  /\ stage = "disabled" => hooks = <<>> /\ lock = Nobody
  /\ lock = Nobody => left = <<>>

\* Only global providers are hooked, each of them once.
Hooked ==
  /\ Distinct(hooks) /\ Distinct(left)
  /\ \A s : In(hooks, s) \/ In(left, s) => s \in provided

\* A provider is closed when it is no longer pending, and none is when a Shutdown has
\* returned.
Counted ==
  /\ \A s \in Signals : closed[s] = IF s \in provided /\ ~Pending(s) THEN 1 ELSE 0
  /\ Returned => hooks = <<>> /\ left = <<>>

OtelInv == OtelTypes /\ Sequenced /\ Hooked /\ Counted

\* Nothing is set up yet.
LEMMA OtelInvInit == OtelInit => OtelInv
<1> SUFFICES ASSUME OtelInit PROVE OtelInv
  OBVIOUS
<1> USE DEF OtelInit
<1>1. <<>> \in Seq(Signals)
  BY EmptySeq
<1>2. OtelTypes
  BY <1>1 DEF OtelTypes, Setting
<1>3. Sequenced
  BY DEF Sequenced
<1>4. Hooked
  BY InEmpty DEF Hooked
<1>5. Counted
  BY DEF Counted, Returned
<1> QED
  BY <1>2, <1>3, <1>4, <1>5 DEF OtelInv

\* Configure comes to the next signal.
LEMMA ProvideKeeps ==
  ASSUME OtelInv, NEW s \in Signals, NEW next \in Setting \cup {"ready"}, Provide(s, next),
         Earlier(s) \cup {s} \subseteq Earlier(next) \/ next = "ready", s \notin Earlier(s)
  PROVE  OtelInv'
<1>0. /\ stage = s /\ s \in Setting /\ stage' = next
      /\ UNCHANGED <<env, given, conf, exporters, closed, lock, left, closer>>
  BY DEF Provide, Signals, Setting
<1>1. /\ lock = Nobody /\ left = <<>> /\ provided \subseteq Earlier(s)
      /\ \A c \in Closers : closer[c] = "idle"
  BY <1>0 DEF OtelInv, Sequenced
<1>2. s \notin provided /\ ~In(hooks, s)
  BY <1>1 DEF OtelInv, Hooked
<1>3. \/ hooks' = hooks /\ provided' = provided
      \/ hooks' = Append(hooks, s) /\ provided' = provided \cup {s}
  BY DEF Provide, OnShutdown
<1>4. hooks \in Seq(Signals) /\ provided \subseteq Signals /\ Distinct(hooks)
  BY DEF OtelInv, OtelTypes, Hooked
<1> DEFINE longer == Append(hooks, s)
<1>4a. /\ longer \in Seq(Signals) /\ Distinct(longer)
       /\ \A x : In(longer, x) <=> In(hooks, x) \/ x = s
  BY <1>2, <1>4, InAppend
<1> HIDE DEF longer
<1>5. hooks' \in Seq(Signals) /\ provided' \subseteq Signals /\ Distinct(hooks')
  <2>1. CASE hooks' = hooks /\ provided' = provided
    BY <1>4, <2>1
  <2>2. CASE hooks' = longer /\ provided' = provided \cup {s}
    BY <1>4, <1>4a, <2>2
  <2> QED
    BY <1>3, <2>1, <2>2 DEF longer
<1>6. \A x : In(hooks', x) <=> In(hooks, x) \/ (x = s /\ s \in provided')
  <2>1. CASE hooks' = hooks /\ provided' = provided
    BY <1>2, <2>1
  <2>2. CASE hooks' = longer /\ provided' = provided \cup {s}
    BY <1>4a, <2>2
  <2> QED
    BY <1>3, <2>1, <2>2 DEF longer
<1>7. \A x : x \in provided' <=> x \in provided \/ (x = s /\ s \in provided')
  BY <1>2, <1>3
<1>8. OtelTypes'
  BY <1>0, <1>5 DEF OtelInv, OtelTypes
<1>9. Sequenced'
  <2>1. provided' \subseteq Earlier(s) \cup {s}
    BY <1>1, <1>3
  <2>2. stage' # "disabled"
    BY <1>0 DEF Setting
  <2>3. stage' \in Setting => provided' \subseteq Earlier(stage')
    BY <1>0, <2>1 DEF Setting
  <2> QED
    BY <1>0, <1>1, <2>2, <2>3 DEF Sequenced
<1>10. Hooked'
  <2>1. \A x : In(left', x) => FALSE
    BY <1>0, <1>1, InEmpty
  <2>2. Distinct(left')
    BY <1>0, <1>1, InEmpty
  <2>3. \A x : In(hooks, x) => x \in provided
    BY DEF OtelInv, Hooked
  <2> QED
    BY <1>5, <1>6, <1>7, <2>1, <2>2, <2>3 DEF Hooked
<1>11. Counted'
  <2>1. ASSUME NEW x \in Signals PROVE closed'[x] = IF x \in provided' /\ ~Pending(x)' THEN 1 ELSE 0
    <3>1. closed[x] = IF x \in provided /\ ~In(hooks, x) THEN 1 ELSE 0
      BY <1>1 DEF OtelInv, Counted, Pending
    <3>2. x \in provided' /\ ~In(hooks', x) <=> x \in provided /\ ~In(hooks, x)
      BY <1>2, <1>6, <1>7
    <3>3. Pending(x)' <=> In(hooks', x)
      BY <1>0, <1>1 DEF Pending
    <3> QED
      BY <1>0, <3>1, <3>2, <3>3
  <2>2. ~Returned'
    BY <1>0, <1>1 DEF Returned
  <2> QED
    BY <2>1, <2>2 DEF Counted
<1> QED
  BY <1>8, <1>9, <1>10, <1>11 DEF OtelInv

\* Every step of Configure and of the calls of Shutdown keeps OtelInv.
LEMMA OtelInvNext == OtelInv /\ [OtelNext]_otelVars => OtelInv'
<1> SUFFICES ASSUME OtelInv, [OtelNext]_otelVars PROVE OtelInv'
  OBVIOUS
<1>1. /\ OtelTypes /\ Sequenced /\ Hooked /\ Counted
      /\ hooks \in Seq(Signals) /\ left \in Seq(Signals)
  BY DEF OtelInv, OtelTypes
<1>2. CASE Disable \/ NewOptions
  <2>1. /\ stage = "begin" /\ stage' \in {"disabled", "failed", "logs"}
        /\ UNCHANGED <<hooks, provided, closed, lock, left, closer>>
    BY <1>2, Zenon DEF Disable, NewOptions
  <2>2. /\ lock = Nobody /\ provided = {} /\ \A c \in Closers : closer[c] = "idle"
    BY <1>1, <2>1 DEF Sequenced, Earlier, Setting
  <2>3. hooks = <<>>
    BY <1>1, <2>2, InTail DEF Hooked
  <2>4. OtelTypes'
    BY <1>1, <2>1 DEF OtelTypes, Setting
  <2>5. Sequenced'
    BY <1>1, <2>1, <2>2, <2>3 DEF Sequenced
  <2>6. Hooked' /\ Counted'
    BY <1>1, <2>1 DEF Hooked, Counted, Pending, Returned
  <2> QED
    BY <2>4, <2>5, <2>6 DEF OtelInv
<1>3. CASE Provide("logs", "traces") \/ Provide("traces", "metrics") \/ Provide("metrics", "ready")
  <2>1. /\ Earlier("logs") = {} /\ Earlier("traces") = {"logs"}
        /\ Earlier("metrics") = {"logs", "traces"}
    BY DEF Earlier
  <2>2. CASE Provide("logs", "traces")
    BY <2>1, <2>2, ProvideKeeps DEF Signals, Setting
  <2>3. CASE Provide("traces", "metrics")
    BY <2>1, <2>3, ProvideKeeps DEF Signals, Setting
  <2>4. CASE Provide("metrics", "ready")
    BY <2>1, <2>4, ProvideKeeps DEF Signals, Setting
  <2> QED
    BY <1>3, <2>2, <2>3, <2>4
<1>4. ASSUME NEW c \in Closers, ShutdownNothing(c) PROVE OtelInv'
  <2>1. /\ stage = "disabled" /\ closer' = [closer EXCEPT ![c] = "ok"]
        /\ UNCHANGED <<stage, hooks, provided, closed, lock, left>>
    BY <1>4 DEF ShutdownNothing
  <2>2. hooks = <<>> /\ lock = Nobody /\ left = <<>>
    BY <1>1, <2>1 DEF Sequenced
  <2>3. OtelTypes'
    BY <1>1, <2>1 DEF OtelTypes
  <2>4. Sequenced' /\ Hooked'
    BY <1>1, <2>1, <2>2 DEF Sequenced, Hooked, Setting
  <2>5. Counted'
    BY <1>1, <2>1, <2>2 DEF Counted, Pending
  <2> QED
    BY <2>3, <2>4, <2>5 DEF OtelInv
<1>5. ASSUME NEW c \in Closers, ShutdownBegin(c) PROVE OtelInv'
  <2>1. /\ stage \in {"failed", "ready"} /\ lock = Nobody /\ lock' = c /\ left' = hooks
        /\ closer' = [closer EXCEPT ![c] = "runs"]
        /\ UNCHANGED <<stage, hooks, provided, closed>>
    BY <1>5 DEF ShutdownBegin
  <2>2. c # Nobody
    BY OtelAssumption
  <2>3. OtelTypes'
    BY <1>1, <2>1 DEF OtelTypes
  <2>4. Sequenced'
    BY <2>1, <2>2 DEF Sequenced, Setting
  <2>5. Hooked'
    BY <1>1, <2>1 DEF Hooked
  <2>6. \A s \in Signals : Pending(s)' <=> Pending(s)
    BY <2>1, <2>2 DEF Pending
  <2>7. Returned' => Returned
    BY <1>1, <2>1 DEF Returned, OtelTypes
  <2> QED
    BY <1>1, <2>1, <2>3, <2>4, <2>5, <2>6, <2>7 DEF OtelInv, Counted
<1>6. ASSUME NEW c \in Closers, ShutdownHook(c) PROVE OtelInv'
  <2>1. /\ lock = c /\ left # <<>> /\ left' = Tail(left)
        /\ closed' = [closed EXCEPT ![Head(left)] = @ + 1]
        /\ closer' = closer \/ closer' = [closer EXCEPT ![c] = "failing"]
        /\ UNCHANGED <<stage, hooks, provided, lock>>
    BY <1>6 DEF ShutdownHook
  <2>2. c # Nobody
    BY OtelAssumption
  <2>3. PICK h \in Signals : h = Head(left)
    BY <1>1, <2>1, InTail
  <2>4. /\ Tail(left) \in Seq(Signals) /\ Distinct(Tail(left)) /\ In(left, h)
        /\ \A x : In(Tail(left), x) <=> In(left, x) /\ x # h
    BY <1>1, <2>1, <2>3, InTail DEF Hooked
  <2>5. h \in provided /\ Pending(h)
    BY <1>1, <2>1, <2>2, <2>4 DEF Hooked, Pending
  <2>6. closed' = [closed EXCEPT ![h] = 1]
    <3>1. closed[h] = 0
      BY <1>1, <2>5 DEF Counted
    <3> QED
      BY <2>1, <2>3, <3>1
  <2>7. OtelTypes'
    <3>1. closed' \in [Signals -> Nat]
      BY <1>1, <2>6 DEF OtelTypes
    <3>2. closer' \in [Closers -> {"idle", "runs", "failing", "ok", "failed"}]
      BY <1>1, <2>1, Zenon DEF OtelTypes
    <3> QED
      BY <1>1, <2>1, <2>4, <3>1, <3>2, Zenon DEF OtelTypes
  <2>8. Sequenced'
    BY <1>1, <2>1, <2>2 DEF Sequenced
  <2>9. Hooked'
    BY <1>1, <2>1, <2>4 DEF Hooked
  <2>10. ASSUME NEW s \in Signals
         PROVE  closed'[s] = IF s \in provided' /\ ~Pending(s)' THEN 1 ELSE 0
    <3>1. Pending(s)' <=> Pending(s) /\ s # h
      BY <2>1, <2>2, <2>4 DEF Pending
    <3>2. closed[s] = IF s \in provided /\ ~Pending(s) THEN 1 ELSE 0
      BY <1>1 DEF Counted
    <3>3. CASE s = h
      BY <1>1, <2>1, <2>5, <2>6, <3>1, <3>3 DEF OtelTypes
    <3>4. CASE s # h
      BY <1>1, <2>1, <2>6, <3>1, <3>2, <3>4, Zenon DEF OtelTypes
    <3> QED
      BY <3>3, <3>4
  <2>11. ~Returned'
    <3>1. ~Returned
      BY <1>1, <2>1 DEF Counted
    <3> QED
      BY <1>1, <2>1, <3>1, Zenon DEF Returned, OtelTypes
  <2> QED
    BY <2>7, <2>8, <2>9, <2>10, <2>11 DEF OtelInv, Counted
<1>7. ASSUME NEW c \in Closers, ShutdownEnd(c) PROVE OtelInv'
  <2>1. /\ lock = c /\ left = <<>> /\ hooks' = <<>> /\ lock' = Nobody
        /\ closer' = [closer EXCEPT ![c] = IF @ = "failing" THEN "failed" ELSE "ok"]
        /\ UNCHANGED <<stage, provided, closed, left>>
    BY <1>7 DEF ShutdownEnd
  <2>2. c # Nobody
    BY OtelAssumption
  <2>3. OtelTypes'
    BY <1>1, <2>1 DEF OtelTypes
  <2>4. Sequenced'
    BY <1>1, <2>1, <2>2 DEF Sequenced
  <2>5. Hooked'
    BY <2>1, InEmpty DEF Hooked
  <2>6. \A s \in Signals : Pending(s)' <=> Pending(s)
    BY <2>1, <2>2, InEmpty DEF Pending
  <2> QED
    BY <1>1, <2>1, <2>3, <2>4, <2>5, <2>6 DEF OtelInv, Counted
<1>8. CASE UNCHANGED otelVars
  BY <1>1, <1>8, Zenon DEF otelVars, OtelInv, OtelTypes, Sequenced, Hooked, Counted, Pending, Returned
<1> QED
  BY <1>2, <1>3, <1>4, <1>5, <1>6, <1>7, <1>8 DEF OtelNext, Configure, Shutdown

\* However many goroutines call Shutdown, and whichever hooks fail: every provider that
\* Configure made global is shut down before a call returns, and none of them twice.
THEOREM OtelShutdownOnce == OtelSpec => []ShutdownOnce
<1>1. OtelInv => ShutdownOnce
  <2> SUFFICES ASSUME OtelInv PROVE ShutdownOnce
    OBVIOUS
  <2>1. \A s \in Signals : closed[s] = IF s \in provided /\ ~Pending(s) THEN 1 ELSE 0
    BY DEF OtelInv, Counted
  <2>2. \A s \in Signals : closed[s] <= 1
    BY <2>1
  <2>3. Returned => \A s \in provided : closed[s] = 1
    <3>1. Returned => \A s : ~Pending(s)
      BY InEmpty DEF OtelInv, Counted, Pending
    <3> QED
      BY <2>1, <3>1 DEF OtelInv, OtelTypes
  <2> QED
    BY <2>2, <2>3 DEF ShutdownOnce, Returned
<1> QED
  BY <1>1, OtelInvInit, OtelInvNext, PTL DEF OtelSpec
=============================================================================
