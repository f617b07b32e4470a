----------------------------- MODULE PgwProofs ------------------------------
(***************************************************************************)
(* Proofs about the standby pools and the error processors of pgw, for any *)
(* hosts, attempts, goroutines and columns.                                *)
(***************************************************************************)
EXTENDS PgStandby, PgErrors, SequenceTheorems, TLAPS

-----------------------------------------------------------------------------
(* A standby host has one supervisor, with or without a migration          *)
(* verifier.                                                               *)
(*                                                                         *)
(* OneSupervisor is not inductive: a round takes every host of the         *)
(* unhealthy store, and a monitor puts hosts there.  So the invariant says *)
(* where a host can be while each goroutine is at work on it.              *)

SupTypes ==
  /\ task \in [Hosts -> TaskPc]
  /\ mon \in [Hosts -> MonPc]
  /\ conn \in [Hosts -> ConnPc]

\* ConnectWithRetry is called by AddStandby and by a retry goroutine only.
Caller == \A h \in Hosts : conn[h] # "idle" => task[h] \in {"add", "retry"}

\* Nobody works on a host that Pick may choose, except its monitor.
Placed == \A h \in Hosts : h \in store => task[h] = "none"

\* An unhealthy host is in no other map, and has a monitor only while it is moved.
Waiting ==
  \A h \in Hosts : h \in unhealthy =>
    /\ h \notin store
    /\ task[h] \notin {"add", "place"}
    /\ mon[h] # "none" => task[h] = "move"

\* A host between the maps is its monitor's.
Moving == \A h \in Hosts : mon[h] = "move" => task[h] = "none" /\ h \notin store

\* Whoever may start a monitor finds none.
Single ==
  \A h \in Hosts : task[h] \in {"add", "check", "retry", "recovered"} => mon[h] = "none"

SupInv == SupTypes /\ Caller /\ Placed /\ Waiting /\ Moving /\ Single

-----------------------------------------------------------------------------
\* The invariant holds when NewPoolManager has called AddStandby.
LEMMA SupInit == Init => SupInv
  BY DEF Init, newPool, SupInv, SupTypes, Caller, Placed, Waiting, Moving, Single, TaskPc, MonPc,
     ConnPc

\* The steps of the pools: only a call that has begun goes on.
LEMMA SupPool ==
  ASSUME SupInv, UNCHANGED mgrVars, conn' \in [Hosts -> ConnPc],
         \A h \in Hosts : conn[h] = "idle" => conn'[h] = "idle"
  PROVE  SupInv'
  BY DEF SupInv, SupTypes, Caller, Placed, Waiting, Moving, Single, mgrVars

\* ConnectWithRetry ends by returning to its caller.
LEMMA SupConnect ==
  ASSUME SupInv, NEW h \in Hosts, Pool(ConnectStep(h))
  PROVE  SupInv'
  <1>1. \E c \in ConnPc : conn' = [conn EXCEPT ![h] = c]
    BY DEF Pool, ConnectStep, ConnectPing, ConnectError, ConnectMark, ConnectVerified,
       ConnectUnverified, ConnectRetry, ConnectAbort, AfterFailure, ConnPc
  <1>2. conn[h] # "idle"
    BY DEF Pool, ConnectStep, ConnectPing, ConnectError, ConnectMark, ConnectVerified,
       ConnectUnverified, ConnectRetry, ConnectAbort
  <1>3. conn' \in [Hosts -> ConnPc] /\ \A g \in Hosts : conn[g] = "idle" => conn'[g] = "idle"
    BY <1>1, <1>2 DEF SupInv, SupTypes
  <1> QED
    BY <1>3, SupPool DEF Pool

\* Health checks, Close and the environment do not touch the call.
LEMMA SupQuiet ==
  ASSUME SupInv, UNCHANGED <<mgrVars, conn>>
  PROVE  SupInv'
  BY SupPool DEF SupInv, SupTypes

\* The host's monitor.
LEMMA SupMonitor ==
  ASSUME SupInv, NEW h \in Hosts, MonitorStep(h)
  PROVE  SupInv'
  <1> USE DEF SupInv, SupTypes, Caller, Placed, Waiting, Moving, Single, MonPc
  <1>1. CASE MonitorSubscribe(h)
    BY <1>1 DEF MonitorSubscribe
  <1>2. CASE MonitorError(h)
    BY <1>2 DEF MonitorError
  <1>3. CASE MonitorMove(h)
    BY <1>3 DEF MonitorMove, poolVars
  <1>4. CASE MonitorClosed(h)
    BY <1>4 DEF MonitorClosed
  <1>5. CASE MonitorIgnore(h)
    BY <1>5 DEF MonitorIgnore, mgrVars
  <1>6. CASE MonitorStop(h)
    BY <1>6 DEF MonitorStop
  <1> QED
    BY <1>1, <1>2, <1>3, <1>4, <1>5, <1>6 DEF MonitorStep

\* The goroutines of AddStandby and of a retry round.
LEMMA SupTask ==
  ASSUME SupInv, NEW h \in Hosts, TaskStep(h)
  PROVE  SupInv'
  <1> USE DEF SupInv, SupTypes, Caller, Placed, Waiting, Moving, Single, MonPc, TaskPc, ConnPc
  <1>1. CASE AddOk(h)
    BY <1>1 DEF AddOk, Returned
  <1>2. CASE AddFailed(h)
    BY <1>2 DEF AddFailed, Returned
  <1>3. CASE RetryDrop(h)
    BY <1>3 DEF RetryDrop, poolVars
  <1>4. CASE RetryBegin(h)
    BY <1>4 DEF RetryBegin, ConnectBegin
  <1>5. CASE RetryReturn(h)
    BY <1>5 DEF RetryReturn, Returned
  <1>6. CASE MoveOut(h)
    BY <1>6 DEF MoveOut, poolVars
  <1>7. CASE MoveIn(h)
    BY <1>7 DEF MoveIn, poolVars
  <1> QED
    BY <1>1, <1>2, <1>3, <1>4, <1>5, <1>6, <1>7 DEF TaskStep

\* The rounds of monitorUnhealthy.
LEMMA SupRound == SupInv /\ RoundStep => SupInv'
  <1> SUFFICES ASSUME SupInv, RoundStep PROVE SupInv'
    OBVIOUS
  <1> USE DEF SupInv, SupTypes, Caller, Placed, Waiting, Moving, Single, MonPc, TaskPc
  <1>1. CASE RoundBegin
    BY <1>1 DEF RoundBegin, poolVars
  <1>2. CASE RoundEnd
    BY <1>2 DEF RoundEnd, poolVars
  <1>3. CASE RoundStop
    BY <1>3 DEF RoundStop, poolVars
  <1> QED
    BY <1>1, <1>2, <1>3 DEF RoundStep

\* Every step preserves the invariant.
LEMMA SupNext == SupInv /\ [Next]_vars => SupInv'
  <1> SUFFICES ASSUME SupInv, [Next]_vars PROVE SupInv'
    OBVIOUS
  <1>1. ASSUME NEW h \in Hosts, HealthStep(h) PROVE SupInv'
    BY <1>1, SupQuiet DEF HealthStep, Pool, HealthPing, HealthError, HealthMark, HealthStop
  <1>2. ASSUME NEW h \in Hosts,
               HostClose(h) \/ ApplicationClose(h) \/ Pool(CloseStep(h)) \/ Pool(ServerChange(h))
        PROVE  SupInv'
    BY <1>2, SupQuiet DEF HostClose, ApplicationClose, Pool, CloseSignal, CloseStep, CloseDrain,
       CloseMark, CloseSubscribers, ServerChange
  <1>3. CASE ManagerClose \/ CloserNext
    BY <1>3 DEF ManagerClose, CloserNext, poolVars, SupInv, SupTypes, Caller, Placed, Waiting,
       Moving, Single
  <1>4. CASE Pool(SchemaChange) \/ UNCHANGED vars
    BY <1>4, SupQuiet DEF Pool, SchemaChange, vars, poolVars
  <1> QED
    BY <1>1, <1>2, <1>3, <1>4, SupConnect, SupMonitor, SupTask, SupRound DEF Next

\* A host never has two supervisors, and is never picked while ConnectWithRetry runs on
\* it, in whatever order monitors, retry rounds and Close move it.
THEOREM StandbyOneSupervisor == Spec => []OneSupervisor
  <1>1. SupInv => OneSupervisor
    BY Zenon DEF SupInv, Caller, Placed, Single, OneSupervisor
  <1> QED
    BY <1>1, SupInit, SupNext, PTL DEF Spec

-----------------------------------------------------------------------------
(* The processors of pgw's errors.  Whoever stands in a map has returned   *)
(* from the registration of just that column or constraint.  Without an    *)
(* overlap there is one map of columns and one registration at a time.     *)

Procs == Registrars \cup {NoProc}
RegPcs == {"idle", "create", "test", "set", "ok", "taken"}

ErrorsTypes ==
  /\ columnMaps \in Seq([NullColumns -> Procs])
  /\ tableMap \in 0..Len(columnMaps)
  /\ violations \in [Constraints -> Procs]
  /\ reg \in [Registrars -> [pc : RegPcs, of : NullColumns \cup Constraints, map : Nat]]
  /\ overlapped \in BOOLEAN

\* A registration under way is one of a column, and has a map once it has looked for one.
Regs(r) ==
  /\ reg[r].pc \in {"create", "test", "set", "taken"} => reg[r].of \in NullColumns
  /\ reg[r].pc \in {"test", "set"} => reg[r].map \in 1..Len(columnMaps)

\* What stands in a map.
Owned ==
  /\ \A m \in 1..Len(columnMaps), c \in NullColumns :
       LET p == columnMaps[m][c] IN p # NoProc => At(p, "ok") /\ reg[p].of = c
  /\ \A k \in Constraints :
       LET p == violations[k] IN p # NoProc => At(p, "ok") /\ reg[p].of = k

\* Why a registration was refused.
Refused(r) ==
  At(r, "taken") => \E o \in Registrars \ {r} : At(o, "ok") /\ reg[o].of = reg[r].of

\* One registration of a column at a time.
Alone(r) ==
  /\ \A o \in Registrars : Running(r) /\ Running(o) => r = o
  /\ At(r, "create") => tableMap = 0
  /\ reg[r].pc \in {"test", "set"} => tableMap # 0 /\ reg[r].map = tableMap
  /\ At(r, "set") => columnMaps[tableMap][reg[r].of] = NoProc
  /\ At(r, "ok") /\ reg[r].of \in NullColumns =>
       tableMap # 0 /\ columnMaps[tableMap][reg[r].of] = r

ErrorsInv ==
  /\ ErrorsTypes /\ Owned
  /\ \A r \in Registrars : Regs(r) /\ Refused(r)
  /\ ~overlapped => \A r \in Registrars : Alone(r)

\* Nothing is registered.
LEMMA ErrorsInvInit == ErrorsInit => ErrorsInv
<1> SUFFICES ASSUME ErrorsInit PROVE ErrorsInv
  OBVIOUS
<1>1. /\ columnMaps = <<>> /\ tableMap = 0 /\ overlapped = FALSE
      /\ violations = [k \in Constraints |-> NoProc]
      /\ reg \in [Registrars -> [pc : {"idle"}, of : NullColumns \cup Constraints, map : {0}]]
  BY DEF ErrorsInit
<1>2. Len(columnMaps) = 0 /\ columnMaps \in Seq([NullColumns -> Procs])
  BY <1>1, EmptySeq
<1>3. reg \in [Registrars -> [pc : RegPcs, of : NullColumns \cup Constraints, map : Nat]]
  BY <1>1 DEF RegPcs
<1>4. ErrorsTypes
  <2>1. violations \in [Constraints -> Procs]
    BY <1>1 DEF Procs
  <2>2. tableMap \in 0..Len(columnMaps)
    BY <1>1, <1>2
  <2> QED
    BY <1>1, <1>2, <1>3, <2>1, <2>2, Zenon DEF ErrorsTypes
<1>5. \A r \in Registrars : reg[r].pc = "idle"
  BY <1>1
<1>6. Owned
  BY <1>1, <1>2 DEF Owned
<1>7. \A r \in Registrars : Regs(r) /\ Refused(r) /\ Alone(r)
  BY <1>5, Zenon DEF Regs, Refused, Alone, Running, At
<1> QED
  BY <1>4, <1>6, <1>7 DEF ErrorsInv

\* A step of one registration leaves the others where they are, and a registration that
\* has returned nil stays so.
LEMMA RegMoves ==
  ASSUME ErrorsTypes, NEW r \in Registrars, NEW pc \in RegPcs, NEW map \in Nat,
         reg[r].pc # "ok",
         \/ reg' = [reg EXCEPT ![r].pc = pc] /\ map = reg[r].map
         \/ reg' = [reg EXCEPT ![r].pc = pc, ![r].map = map]
  PROVE  /\ reg' \in [Registrars -> [pc : RegPcs, of : NullColumns \cup Constraints, map : Nat]]
         /\ reg'[r].pc = pc /\ reg'[r].map = map
         /\ \A o \in Registrars \ {r} : reg'[o] = reg[o]
         /\ \A o \in Registrars : reg'[o].of = reg[o].of
         /\ \A o \in Registrars : At(o, "ok") => o # r /\ At(o, "ok")'
<1> DEFINE T == [pc : RegPcs, of : NullColumns \cup Constraints, map : Nat]
<1>1. reg \in [Registrars -> T]
  BY DEF ErrorsTypes
<1>2. reg'[r] \in T /\ reg'[r].pc = pc /\ reg'[r].map = map /\ reg'[r].of = reg[r].of
  <2>1. CASE reg' = [reg EXCEPT ![r].pc = pc] /\ map = reg[r].map
    BY <1>1, <2>1
  <2>2. CASE reg' = [reg EXCEPT ![r].pc = pc, ![r].map = map]
    BY <1>1, <2>2, Zenon
  <2> QED
    BY <2>1, <2>2
<1>3. reg' = [reg EXCEPT ![r] = reg'[r]]
  <2>1. CASE reg' = [reg EXCEPT ![r].pc = pc] /\ map = reg[r].map
    BY <1>1, <2>1
  <2>2. CASE reg' = [reg EXCEPT ![r].pc = pc, ![r].map = map]
    BY <1>1, <2>2, Zenon
  <2> QED
    BY <2>1, <2>2
<1>4. \A o \in Registrars \ {r} : reg'[o] = reg[o]
  BY <1>1, <1>3
<1> HIDE DEF T
<1>5. reg' \in [Registrars -> T]
  BY <1>1, <1>2, <1>3
<1> QED
  BY <1>2, <1>4, <1>5 DEF At, T

\* What stands in the maps, and why a registration was refused, outlast a step of r that
\* leaves the maps alone.
LEMMA OwnersStay ==
  ASSUME ErrorsInv, NEW r \in Registrars, reg[r].pc # "ok",
         UNCHANGED <<columnMaps, violations>>,
         \A o \in Registrars : reg'[o].of = reg[o].of,
         \A o \in Registrars : At(o, "ok") => o # r /\ At(o, "ok")'
  PROVE  Owned'
<1>1. /\ columnMaps \in Seq([NullColumns -> Procs]) /\ violations \in [Constraints -> Procs]
  BY DEF ErrorsInv, ErrorsTypes
<1>2. ASSUME NEW p \in Procs, p # NoProc, NEW c, At(p, "ok") /\ reg[p].of = c
      PROVE  At(p, "ok")' /\ reg'[p].of = c
  BY <1>2 DEF Procs
<1>3. ASSUME NEW m \in 1..Len(columnMaps), NEW c \in NullColumns, columnMaps[m][c] # NoProc
      PROVE  At(columnMaps[m][c], "ok")' /\ reg'[columnMaps[m][c]].of = c
  <2>1. columnMaps[m][c] \in Procs
    BY <1>1, ElementOfSeq
  <2>2. At(columnMaps[m][c], "ok") /\ reg[columnMaps[m][c]].of = c
    BY <1>3 DEF ErrorsInv, Owned
  <2> QED
    BY <1>2, <1>3, <2>1, <2>2
<1>4. ASSUME NEW k \in Constraints, violations[k] # NoProc
      PROVE  At(violations[k], "ok")' /\ reg'[violations[k]].of = k
  <2>1. violations[k] \in Procs
    BY <1>1
  <2>2. At(violations[k], "ok") /\ reg[violations[k]].of = k
    BY <1>4 DEF ErrorsInv, Owned
  <2> QED
    BY <1>2, <1>4, <2>1, <2>2
<1> QED
  BY <1>3, <1>4 DEF Owned, At
\* So do the reasons of the refusals.
LEMMA RefusalsStay ==
  ASSUME ErrorsInv, NEW r \in Registrars,
         \A o \in Registrars \ {r} : reg'[o] = reg[o],
         \A o \in Registrars : reg'[o].of = reg[o].of,
         \A o \in Registrars : At(o, "ok") => o # r /\ At(o, "ok")',
         At(r, "taken")' => \E o \in Registrars \ {r} : At(o, "ok") /\ reg[o].of = reg[r].of
  PROVE  \A o \in Registrars : Refused(o)'
<1> SUFFICES ASSUME NEW o \in Registrars, At(o, "taken")'
             PROVE  \E q \in Registrars \ {o} : At(q, "ok")' /\ reg'[q].of = reg'[o].of
  BY Zenon DEF Refused
<1>1. \E q \in Registrars \ {o} : At(q, "ok") /\ reg[q].of = reg[o].of
  <2>1. CASE o = r
    BY <2>1
  <2>2. CASE o # r
    <3>1. At(o, "taken")
      BY <2>2 DEF At
    <3> QED
      BY <3>1 DEF ErrorsInv, Refused
  <2> QED
    BY <2>1, <2>2
<1>2. PICK q \in Registrars \ {o} : At(q, "ok") /\ reg[q].of = reg[o].of
  BY <1>1
<1>3. At(q, "ok")' /\ reg'[q].of = reg'[o].of
  BY <1>2
<1> QED
  BY <1>3

\* Every step of a registration keeps ErrorsInv.
LEMMA ErrorsInvNext == ErrorsInv /\ [ErrorsNext]_errorsVars => ErrorsInv'
<1> SUFFICES ASSUME ErrorsInv, [ErrorsNext]_errorsVars PROVE ErrorsInv'
  OBVIOUS
<1>1. /\ columnMaps \in Seq([NullColumns -> Procs]) /\ Len(columnMaps) \in Nat
      /\ tableMap \in 0..Len(columnMaps) /\ tableMap \in Nat
      /\ violations \in [Constraints -> Procs]
      /\ overlapped \in BOOLEAN /\ ErrorsTypes
  BY LenProperties DEF ErrorsInv, ErrorsTypes
<1>2. reg \in [Registrars -> [pc : RegPcs, of : NullColumns \cup Constraints, map : Nat]]
  BY <1>1 DEF ErrorsTypes
<1>3. \A r \in Registrars : Regs(r) /\ Refused(r)
  BY DEF ErrorsInv
<1>4. Owned
  BY DEF ErrorsInv
<1>5. ~overlapped => \A r \in Registrars : Alone(r)
  BY DEF ErrorsInv
<1>6. ASSUME NEW r \in Registrars, RegisterConstraint(r) PROVE ErrorsInv'
  <2>1. /\ reg[r].pc = "idle" /\ reg[r].of \in Constraints
        /\ violations' = [violations EXCEPT ![reg[r].of] = r]
        /\ reg' = [reg EXCEPT ![r].pc = "ok"]
        /\ UNCHANGED <<tableMap, columnMaps, overlapped>>
    BY <1>6 DEF RegisterConstraint, At, Goes
  <2>2. /\ reg' \in [Registrars -> [pc : RegPcs, of : NullColumns \cup Constraints, map : Nat]]
        /\ reg'[r].pc = "ok"
        /\ \A o \in Registrars \ {r} : reg'[o] = reg[o]
        /\ \A o \in Registrars : reg'[o].of = reg[o].of
        /\ \A o \in Registrars : At(o, "ok") => o # r /\ At(o, "ok")'
    <3>1. "ok" \in RegPcs /\ reg[r].map \in Nat /\ reg[r].pc # "ok"
      BY <1>2, <2>1 DEF RegPcs
    <3> QED
      BY <1>1, <2>1, <3>1, RegMoves, Zenon
  <2>3. ErrorsTypes'
    BY <1>1, <2>1, <2>2 DEF ErrorsTypes, Procs
  <2>4. Owned'
    <3>1. ASSUME NEW m \in 1..Len(columnMaps'), NEW c \in NullColumns, columnMaps'[m][c] # NoProc
          PROVE  reg'[columnMaps'[m][c]].pc = "ok" /\ reg'[columnMaps'[m][c]].of = c
      <4>1. columnMaps[m][c] \in Registrars
        BY <1>1, <2>1, <3>1, ElementOfSeq DEF Procs
      <4>2. At(columnMaps[m][c], "ok") /\ reg[columnMaps[m][c]].of = c
        BY <1>4, <2>1, <3>1 DEF Owned
      <4> QED
        BY <2>1, <2>2, <4>1, <4>2 DEF At
    <3>2. ASSUME NEW k \in Constraints, violations'[k] # NoProc
          PROVE  reg'[violations'[k]].pc = "ok" /\ reg'[violations'[k]].of = k
      <4>1. CASE k = reg[r].of
        BY <1>1, <2>1, <2>2, <4>1 DEF At
      <4>2. CASE k # reg[r].of
        <5>1. violations'[k] = violations[k] /\ violations[k] \in Registrars
          BY <1>1, <2>1, <3>2, <4>2 DEF Procs
        <5>2. At(violations[k], "ok") /\ reg[violations[k]].of = k
          BY <1>4, <3>2, <5>1 DEF Owned
        <5> QED
          BY <2>2, <5>1, <5>2 DEF At
      <4> QED
        BY <4>1, <4>2
    <3> QED
      BY <3>1, <3>2 DEF Owned, At
  <2>5. \A o \in Registrars : Refused(o)'
    BY <2>2, RefusalsStay DEF At
  <2>6. \A o \in Registrars : Regs(o)'
    BY <1>3, <2>1, <2>2 DEF Regs
  <2>7. ASSUME ~overlapped', NEW o \in Registrars PROVE Alone(o)'
    <3>1. \A q \in Registrars : Alone(q)
      BY <1>5, <2>1, <2>7
    <3>2. \A q \in Registrars : Running(q)' => Running(q) /\ q # r
      BY <2>2 DEF Running
    <3>3. CASE o = r
      <4>1. reg'[r].of \notin NullColumns
        BY <2>1, <2>2, ErrorsAssumption
      <4> QED
        BY <2>2, <3>2, <3>3, <4>1 DEF Alone, At
    <3>4. CASE o # r
      BY <2>1, <2>2, <3>1, <3>2, <3>4 DEF Alone, At
    <3> QED
      BY <3>3, <3>4
  <2> QED
    BY <2>3, <2>4, <2>5, <2>6, <2>7 DEF ErrorsInv
<1>7. ASSUME NEW r \in Registrars, GetColumnsMap(r) PROVE ErrorsInv'
  <2> DEFINE pc == IF tableMap = 0 THEN "create" ELSE "test"
  <2>1. /\ reg[r].pc = "idle" /\ reg[r].of \in NullColumns
        /\ reg' = [reg EXCEPT ![r].pc = pc, ![r].map = tableMap]
        /\ overlapped' = (overlapped \/ \E o \in Registrars : Running(o))
        /\ UNCHANGED <<tableMap, columnMaps, violations>>
    BY <1>7 DEF GetColumnsMap, At
  <2>0. pc \in {"create", "test"} /\ (pc = "create" <=> tableMap = 0)
    OBVIOUS
  <2> HIDE DEF pc
  <2>2. /\ reg' \in [Registrars -> [pc : RegPcs, of : NullColumns \cup Constraints, map : Nat]]
        /\ reg'[r].pc = pc /\ reg'[r].map = tableMap
        /\ \A o \in Registrars \ {r} : reg'[o] = reg[o]
        /\ \A o \in Registrars : reg'[o].of = reg[o].of
        /\ \A o \in Registrars : At(o, "ok") => o # r /\ At(o, "ok")'
    <3>1. pc \in RegPcs /\ reg[r].pc # "ok"
      BY <2>0, <2>1 DEF RegPcs
    <3> QED
      BY <1>1, <2>1, <3>1, RegMoves, Zenon
  <2>3. ErrorsTypes'
    BY <1>1, <2>1, <2>2 DEF ErrorsTypes
  <2>4. Owned'
    BY <2>1, <2>2, OwnersStay
  <2>5. \A o \in Registrars : Refused(o)'
    BY <2>0, <2>2, RefusalsStay DEF At
  <2>6. ASSUME NEW o \in Registrars PROVE Regs(o)'
    <3>1. CASE o = r
      <4>1. pc = "test" => tableMap \in 1..Len(columnMaps)
        BY <1>1, <2>0
      <4> QED
        BY <2>0, <2>1, <2>2, <3>1, <4>1 DEF Regs
    <3>2. CASE o # r
      BY <1>3, <2>1, <2>2, <3>2 DEF Regs
    <3> QED
      BY <3>1, <3>2
  <2>7. ASSUME ~overlapped', NEW o \in Registrars PROVE Alone(o)'
    <3>1. \A q \in Registrars : Alone(q) /\ ~Running(q)
      BY <1>5, <2>1, <2>7, Zenon
    <3>2. \A q \in Registrars : Running(q)' => q = r
      BY <2>2, <3>1 DEF Running
    <3>3. CASE o = r
      BY <2>0, <2>1, <2>2, <3>2, <3>3 DEF Alone, At
    <3>4. CASE o # r
      BY <2>1, <2>2, <3>1, <3>2, <3>4 DEF Alone, At
    <3> QED
      BY <3>3, <3>4
  <2>8. overlapped' \in BOOLEAN
    BY <2>3 DEF ErrorsTypes
  <2> QED
    BY <2>3, <2>4, <2>5, <2>6, <2>7 DEF ErrorsInv
<1>8. ASSUME NEW r \in Registrars, SetColumnsMap(r) PROVE ErrorsInv'
  <2> DEFINE empty == [c \in NullColumns |-> NoProc]
             len == Len(columnMaps) + 1
  <2>1. /\ reg[r].pc = "create"
        /\ columnMaps' = Append(columnMaps, empty) /\ tableMap' = Len(columnMaps')
        /\ reg' = [reg EXCEPT ![r].pc = "test", ![r].map = tableMap']
        /\ UNCHANGED <<violations, overlapped>>
    BY <1>8 DEF SetColumnsMap, At
  <2>2. /\ columnMaps' \in Seq([NullColumns -> Procs]) /\ Len(columnMaps') = len
        /\ \A m \in 1..Len(columnMaps) : columnMaps'[m] = columnMaps[m]
        /\ columnMaps'[len] = empty
    <3>1. empty \in [NullColumns -> Procs]
      BY DEF Procs
    <3> HIDE DEF empty
    <3> QED
      BY <1>1, <2>1, <3>1, AppendProperties
  <2>3. /\ tableMap' = len /\ len \in Nat /\ len # 0 /\ len \in 1..len
        /\ \A m \in 1..len : m = len \/ m \in 1..Len(columnMaps)
        /\ \A m \in 1..Len(columnMaps) : m \in 1..len
    BY <1>1, <2>1, <2>2
  <2>4. \A c \in NullColumns : columnMaps'[len][c] = NoProc
    BY <2>2
  <2> HIDE DEF empty, len
  <2>5. /\ reg' \in [Registrars -> [pc : RegPcs, of : NullColumns \cup Constraints, map : Nat]]
        /\ reg'[r].pc = "test" /\ reg'[r].map = len
        /\ \A o \in Registrars \ {r} : reg'[o] = reg[o]
        /\ \A o \in Registrars : reg'[o].of = reg[o].of
        /\ \A o \in Registrars : At(o, "ok") => o # r /\ At(o, "ok")'
    <3>1. "test" \in RegPcs /\ reg[r].pc # "ok"
      BY <2>1 DEF RegPcs
    <3>2. reg' = [reg EXCEPT ![r].pc = "test", ![r].map = len]
      BY <2>1, <2>3
    <3> QED
      BY <1>1, <2>3, <3>1, <3>2, RegMoves, Zenon
  <2>6. ErrorsTypes'
    <3>1. tableMap' \in 0..Len(columnMaps')
      BY <2>2, <2>3
    <3> QED
      BY <1>1, <2>1, <2>2, <2>5, <3>1 DEF ErrorsTypes
  <2>7. Owned'
    <3>1. ASSUME NEW m \in 1..Len(columnMaps'), NEW c \in NullColumns, columnMaps'[m][c] # NoProc
          PROVE  reg'[columnMaps'[m][c]].pc = "ok" /\ reg'[columnMaps'[m][c]].of = c
      <4>1. m \in 1..Len(columnMaps) /\ columnMaps'[m] = columnMaps[m]
        BY <2>2, <2>3, <2>4, <3>1, Zenon
      <4>2. columnMaps[m][c] \in Registrars
        BY <1>1, <3>1, <4>1, ElementOfSeq DEF Procs
      <4>3. At(columnMaps[m][c], "ok") /\ reg[columnMaps[m][c]].of = c
        BY <1>4, <3>1, <4>1 DEF Owned
      <4> QED
        BY <2>5, <4>1, <4>2, <4>3 DEF At
    <3>2. ASSUME NEW k \in Constraints, violations'[k] # NoProc
          PROVE  reg'[violations'[k]].pc = "ok" /\ reg'[violations'[k]].of = k
      <4>1. violations'[k] = violations[k] /\ violations[k] \in Registrars
        BY <1>1, <2>1, <3>2 DEF Procs
      <4>2. At(violations[k], "ok") /\ reg[violations[k]].of = k
        BY <1>4, <3>2, <4>1 DEF Owned
      <4> QED
        BY <2>5, <4>1, <4>2 DEF At
    <3> QED
      BY <3>1, <3>2 DEF Owned, At
  <2>8. \A o \in Registrars : Refused(o)'
    BY <2>5, RefusalsStay DEF At
  <2>9. ASSUME NEW o \in Registrars PROVE Regs(o)'
    <3>1. CASE o = r
      BY <1>3, <2>1, <2>2, <2>3, <2>5, <3>1 DEF Regs
    <3>2. CASE o # r
      BY <1>3, <2>2, <2>3, <2>5, <3>2 DEF Regs
    <3> QED
      BY <3>1, <3>2
  <2>10. ASSUME ~overlapped', NEW o \in Registrars PROVE Alone(o)'
    <3>1. \A q \in Registrars : Alone(q)
      BY <1>5, <2>1, <2>10, Zenon
    <3>2. Running(r) /\ tableMap = 0
      BY <2>1, <3>1 DEF Alone, Running, At
    <3>3. \A q \in Registrars : Running(q) => q = r
      BY <3>1, <3>2 DEF Alone
    <3>4. \A q \in Registrars : Running(q)' => q = r
      BY <2>5, <3>3 DEF Running
    <3>5. CASE o = r
      BY <2>3, <2>4, <2>5, <3>4, <3>5, Zenon DEF Alone, At
    <3>6. CASE o # r
      <4>1. reg'[o] = reg[o] /\ ~Running(o) /\ ~(At(o, "ok") /\ reg[o].of \in NullColumns)
        BY <2>5, <3>1, <3>2, <3>3, <3>6, Zenon DEF Alone
      <4> QED
        BY <4>1 DEF Alone, At, Running
    <3> QED
      BY <3>5, <3>6
  <2> QED
    BY <2>6, <2>7, <2>8, <2>9, <2>10 DEF ErrorsInv
<1>9. ASSUME NEW r \in Registrars, TestColumn(r) PROVE ErrorsInv'
  <2> DEFINE owner == columnMaps[reg[r].map][reg[r].of]
             pc == IF owner # NoProc THEN "taken" ELSE "set"
  <2>1. /\ reg[r].pc = "test" /\ reg' = [reg EXCEPT ![r].pc = pc]
        /\ UNCHANGED <<tableMap, columnMaps, violations, overlapped>>
    BY <1>9 DEF TestColumn, At, Goes
  <2>2. pc \in {"taken", "set"} /\ (pc = "taken" <=> owner # NoProc)
    OBVIOUS
  <2> HIDE DEF pc
  <2>3. /\ reg' \in [Registrars -> [pc : RegPcs, of : NullColumns \cup Constraints, map : Nat]]
        /\ reg'[r].pc = pc /\ reg'[r].map = reg[r].map
        /\ \A o \in Registrars \ {r} : reg'[o] = reg[o]
        /\ \A o \in Registrars : reg'[o].of = reg[o].of
        /\ \A o \in Registrars : At(o, "ok") => o # r /\ At(o, "ok")'
    <3>1. pc \in RegPcs /\ reg[r].pc # "ok" /\ reg[r].map \in Nat
      BY <1>2, <2>1, <2>2 DEF RegPcs
    <3> QED
      BY <1>1, <2>1, <3>1, RegMoves, Zenon
  <2>4. ErrorsTypes'
    BY <1>1, <2>1, <2>3 DEF ErrorsTypes
  <2>5. Owned'
    BY <2>1, <2>3, OwnersStay
  <2>6. reg[r].of \in NullColumns /\ reg[r].map \in 1..Len(columnMaps)
    BY <1>3, <2>1 DEF Regs
  <2>7. pc = "taken" => \E o \in Registrars \ {r} : At(o, "ok") /\ reg[o].of = reg[r].of
    <3> SUFFICES ASSUME owner # NoProc
                 PROVE  \E o \in Registrars \ {r} : At(o, "ok") /\ reg[o].of = reg[r].of
      BY <2>2
    <3>1. owner \in Registrars
      BY <1>1, <2>6, ElementOfSeq DEF Procs
    <3>2. At(owner, "ok") /\ reg[owner].of = reg[r].of
      BY <1>4, <2>6, Zenon DEF Owned
    <3> HIDE DEF owner
    <3> QED
      BY <2>1, <3>1, <3>2 DEF At
  <2>8. \A o \in Registrars : Refused(o)'
    <3>1. At(r, "taken")' => pc = "taken"
      BY <2>3 DEF At
    <3> QED
      BY <2>3, <2>7, <3>1, RefusalsStay
  <2>9. ASSUME NEW o \in Registrars PROVE Regs(o)'
    <3>1. CASE o = r
      BY <2>1, <2>2, <2>3, <2>6, <3>1 DEF Regs
    <3>2. CASE o # r
      BY <1>3, <2>1, <2>3, <3>2 DEF Regs
    <3> QED
      BY <3>1, <3>2
  <2>10. ASSUME ~overlapped', NEW o \in Registrars PROVE Alone(o)'
    <3>1. \A q \in Registrars : Alone(q)
      BY <1>5, <2>1, <2>10, Zenon
    <3>2. \A q \in Registrars : Running(q)' => Running(q)
      BY <2>1, <2>3 DEF Running
    <3>3. \A q \in Registrars : Running(o)' /\ Running(q)' => o = q
      BY <3>1, <3>2 DEF Alone
    <3>4. CASE o = r
      <4>1. tableMap # 0 /\ reg[r].map = tableMap
        BY <2>1, <3>1 DEF Alone
      <4> QED
        BY <2>1, <2>2, <2>3, <3>3, <3>4, <4>1 DEF Alone, At
    <3>5. CASE o # r
      BY <2>1, <2>3, <3>1, <3>3, <3>5 DEF Alone, At
    <3> QED
      BY <3>4, <3>5
  <2> QED
    BY <2>4, <2>5, <2>8, <2>9, <2>10 DEF ErrorsInv
<1>10. ASSUME NEW r \in Registrars, SetColumn(r) PROVE ErrorsInv'
  <2> DEFINE map == reg[r].map
             column == reg[r].of
             made == [columnMaps[map] EXCEPT ![column] = r]
  <2>1. /\ reg[r].pc = "set" /\ columnMaps' = [columnMaps EXCEPT ![map] = made]
        /\ reg' = [reg EXCEPT ![r].pc = "ok"]
        /\ UNCHANGED <<tableMap, violations, overlapped>>
    BY <1>10 DEF SetColumn, At, Goes
  <2>2. column \in NullColumns /\ map \in 1..Len(columnMaps)
    BY <1>3, <2>1 DEF Regs
  <2>3. /\ columnMaps[map] \in [NullColumns -> Procs] /\ made \in [NullColumns -> Procs]
        /\ made[column] = r
        /\ \A c \in NullColumns \ {column} : made[c] = columnMaps[map][c]
    <3>1. columnMaps[map] \in [NullColumns -> Procs]
      BY <1>1, <2>2, ElementOfSeq
    <3> QED
      BY <2>2, <3>1 DEF Procs
  <2> HIDE DEF made
  <2>4. /\ columnMaps' \in Seq([NullColumns -> Procs]) /\ Len(columnMaps') = Len(columnMaps)
        /\ columnMaps'[map] = made
        /\ \A m \in 1..Len(columnMaps) : m # map => columnMaps'[m] = columnMaps[m]
    BY <1>1, <2>1, <2>2, <2>3, ExceptSeq
  <2>5. \A m \in 1..Len(columnMaps), c \in NullColumns :
          IF m = map /\ c = column THEN columnMaps'[m][c] = r
                                   ELSE columnMaps'[m][c] = columnMaps[m][c]
    BY <2>3, <2>4
  <2>6. /\ reg' \in [Registrars -> [pc : RegPcs, of : NullColumns \cup Constraints, map : Nat]]
        /\ reg'[r].pc = "ok" /\ reg'[r].map = map
        /\ \A o \in Registrars \ {r} : reg'[o] = reg[o]
        /\ \A o \in Registrars : reg'[o].of = reg[o].of
        /\ \A o \in Registrars : At(o, "ok") => o # r /\ At(o, "ok")'
    <3>1. "ok" \in RegPcs /\ reg[r].pc # "ok" /\ map \in Nat
      BY <1>2, <2>1 DEF RegPcs
    <3> QED
      BY <1>1, <2>1, <3>1, RegMoves, Zenon
  <2>7. ErrorsTypes'
    BY <1>1, <2>1, <2>4, <2>6 DEF ErrorsTypes
  <2>8. Owned'
    <3>1. ASSUME NEW m \in 1..Len(columnMaps'), NEW c \in NullColumns, columnMaps'[m][c] # NoProc
          PROVE  reg'[columnMaps'[m][c]].pc = "ok" /\ reg'[columnMaps'[m][c]].of = c
      <4>1. CASE m = map /\ c = column
        BY <2>4, <2>5, <2>6, <4>1, Zenon
      <4>2. CASE ~(m = map /\ c = column)
        <5>1. columnMaps'[m][c] = columnMaps[m][c]
          BY <2>4, <2>5, <4>2
        <5>2. columnMaps[m][c] \in Registrars
          BY <1>1, <2>4, <3>1, <5>1, ElementOfSeq DEF Procs
        <5>3. At(columnMaps[m][c], "ok") /\ reg[columnMaps[m][c]].of = c
          BY <1>4, <2>4, <3>1, <5>1 DEF Owned
        <5> QED
          BY <2>6, <5>1, <5>2, <5>3 DEF At
      <4> QED
        BY <4>1, <4>2
    <3>2. ASSUME NEW k \in Constraints, violations'[k] # NoProc
          PROVE  reg'[violations'[k]].pc = "ok" /\ reg'[violations'[k]].of = k
      <4>1. violations'[k] = violations[k] /\ violations[k] \in Registrars
        BY <1>1, <2>1, <3>2 DEF Procs
      <4>2. At(violations[k], "ok") /\ reg[violations[k]].of = k
        BY <1>4, <3>2, <4>1 DEF Owned
      <4> QED
        BY <2>6, <4>1, <4>2 DEF At
    <3> QED
      BY <3>1, <3>2 DEF Owned, At
  <2>9. \A o \in Registrars : Refused(o)'
    BY <2>6, RefusalsStay DEF At
  <2>10. \A o \in Registrars : Regs(o)'
    BY <1>3, <2>4, <2>6 DEF Regs
  <2>11. ASSUME ~overlapped', NEW o \in Registrars PROVE Alone(o)'
    <3>1. \A q \in Registrars : Alone(q)
      BY <1>5, <2>1, <2>11, Zenon
    <3>2. Running(r) /\ tableMap # 0 /\ map = tableMap /\ columnMaps[tableMap][column] = NoProc
      BY <2>1, <3>1 DEF Alone, Running, At
    <3>3. \A q \in Registrars : Running(q) => q = r
      BY <3>1, <3>2 DEF Alone
    <3>4. \A q \in Registrars : ~Running(q)'
      BY <2>6, <3>3 DEF Running
    <3>5. CASE o = r
      BY <2>1, <2>2, <2>5, <2>6, <3>2, <3>4, <3>5 DEF Alone, At
    <3>6. CASE o # r
      <4>1. reg'[o] = reg[o] /\ ~Running(o)
        BY <2>6, <3>3, <3>6
      <4>2. ASSUME At(o, "ok"), reg[o].of \in NullColumns
            PROVE  columnMaps'[tableMap][reg[o].of] = o
        <5>1. columnMaps[tableMap][reg[o].of] = o
          BY <3>1, <4>2 DEF Alone
        <5>2. reg[o].of # column
          BY <3>2, <5>1, ErrorsAssumption
        <5> QED
          BY <2>2, <2>5, <3>2, <4>2, <5>1, <5>2, Zenon
      <4> QED
        BY <2>1, <3>2, <3>4, <4>1, <4>2 DEF Alone, At, Running
    <3> QED
      BY <3>5, <3>6
  <2> QED
    BY <2>7, <2>8, <2>9, <2>10, <2>11 DEF ErrorsInv
<1>13. CASE UNCHANGED errorsVars
  BY <1>13 DEF errorsVars, ErrorsInv, ErrorsTypes, Owned, Regs, Refused, Alone, Running, At
<1> QED
  BY <1>6, <1>7, <1>8, <1>9, <1>10, <1>13 DEF ErrorsNext

\* A processor is never lost or misused: once RegisterNotNullViolationProcessor has
\* returned nil ParsePgError calls it, unless two registrations of the table overlapped,
\* it is refused only for a column that has one, and no violation meets a processor
\* that was registered for something else.
THEOREM ErrorProcessorsKept == ErrorsSpec => []ProcessorsKept
<1>1. ErrorsInv => ProcessorsKept
  <2> SUFFICES ASSUME ErrorsInv PROVE ProcessorsKept
    OBVIOUS
  <2>1. /\ columnMaps \in Seq([NullColumns -> Procs]) /\ tableMap \in 0..Len(columnMaps)
        /\ violations \in [Constraints -> Procs] /\ Len(columnMaps) \in Nat
        /\ Owned /\ \A r \in Registrars : Refused(r)
    BY LenProperties DEF ErrorsInv, ErrorsTypes
  <2>2. tableMap # 0 => tableMap \in 1..Len(columnMaps)
    BY <2>1
  <2>3. ASSUME NEW c \in NullColumns
        PROVE  ParsePgError([class |-> "notNull", column |-> c]) = parseViolation(getNotNullViolation(c))
    BY DEF ParsePgError, Constraints
  <2>4. ASSUME NEW r \in Registrars, reg[r].of \in NullColumns, At(r, "ok"), ~overlapped
        PROVE  ParsePgError([class |-> "notNull", column |-> reg[r].of]) = <<"processor", r>>
    <3>1. getNotNullViolation(reg[r].of) = r /\ r # NoProc
      BY <2>4, ErrorsAssumption, Zenon DEF ErrorsInv, Alone, getNotNullViolation
    <3>2. parseViolation(r) = <<"processor", r>>
      BY <3>1 DEF parseViolation
    <3> QED
      BY <2>3, <2>4, <3>1, <3>2
  <2>5. ASSUME NEW p, parseViolation(p)[1] = "processor" PROVE p # NoProc /\ parseViolation(p)[2] = p
    BY <2>5 DEF parseViolation
  <2>6. ASSUME NEW e \in PgErrs, ParsePgError(e)[1] = "processor"
        PROVE  /\ At(ParsePgError(e)[2], "ok")
               /\ reg[ParsePgError(e)[2]].of = IF e.class = "notNull" THEN e.column ELSE e.class
    <3>1. CASE e \in [class : {"nil", "other", "connection", "unlisted"}]
      BY <2>6, <3>1 DEF ParsePgError, Constraints
    <3>2. CASE e \in [class : Constraints]
      <4>1. ParsePgError(e) = parseViolation(violations[e.class]) /\ e.class # "notNull"
            /\ e.class \in Constraints
        BY <3>2 DEF ParsePgError, Constraints
      <4>2. violations[e.class] # NoProc /\ ParsePgError(e)[2] = violations[e.class]
        BY <2>5, <2>6, <4>1
      <4> QED
        BY <2>1, <4>1, <4>2 DEF Owned
    <3>3. CASE e \in [class : {"notNull"}, column : NullColumns]
      <4>1. e.class = "notNull" /\ e.column \in NullColumns
        BY <3>3
      <4>2. ParsePgError(e) = parseViolation(getNotNullViolation(e.column))
        BY <4>1 DEF ParsePgError, Constraints
      <4>3. getNotNullViolation(e.column) # NoProc
            /\ ParsePgError(e)[2] = getNotNullViolation(e.column)
        BY <2>5, <2>6, <4>2
      <4>4. tableMap # 0 /\ getNotNullViolation(e.column) = columnMaps[tableMap][e.column]
        BY <4>3 DEF getNotNullViolation
      <4> QED
        BY <2>1, <2>2, <4>1, <4>3, <4>4 DEF Owned
    <3> QED
      BY <3>1, <3>2, <3>3 DEF PgErrs
  <2> QED
    BY <2>1, <2>4, <2>6, Zenon DEF ProcessorsKept, Refused
<1> QED
  BY <1>1, ErrorsInvInit, ErrorsInvNext, PTL DEF ErrorsSpec
=============================================================================
