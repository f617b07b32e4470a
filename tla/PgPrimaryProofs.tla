-------------------------- MODULE PgPrimaryProofs ---------------------------
(***************************************************************************)
(* Proofs about the primary pool, for any number of attempts, with or      *)
(* without a migration verifier.                                           *)
(***************************************************************************)
EXTENDS PgPrimary, TLAPS

\* Before Close has marked the pool closed.
Unmarked == closing[Master] \in {"open", "signalled", "drained"}

\* The supervising thread is inside ConnectWithRetry, and only it ever is.
ConnOwned ==
  conn[Master] # "idle" <=> mon \in {"init", "reconnect"}

\* Only a monitor in its select loop has a channel with anything in it.
ChanOwned ==
  mon # "wait" => ~sub[Master] /\ ch[Master] = <<>>

\* The thread sleeps in reconnectMasterLoop only after the checker has returned.
DelayedUnchecked == mon = "delay" => hc[Master] = "none"

\* An error in the channel was put there by the checker's last act.
ErrorUnchecked ==
  Holds(ch[Master], "error") => hc[Master] = "none"

\* The inductive invariant behind OneHealthCheck.
CheckInv ==
  /\ TypeOK
  /\ OneHealthCheck
  /\ ConnOwned
  /\ ChanOwned
  /\ DelayedUnchecked
  /\ ErrorUnchecked

\* A pool that is checked and not yet marked closed is connected, and whoever
\* subscribed has nothing to read.
Serving ==
  hc[Master] # "none" /\ Unmarked => state[Master] = "connected" /\ ch[Master] = <<>>

\* Between validateHealth and the verifier's answer the pool is marked connected.
Verifying == conn[Master] = "verify" /\ Unmarked => state[Master] = "connected"

\* How many changes the checker and Close can still make before the channel is
\* closed or the checker has returned.
HealthDebt == IF hc[Master] = "none" THEN 0 ELSE IF hc[Master] = "pingOk" THEN 2 ELSE 1
CloseDebt  == IF Unmarked THEN 1 ELSE 0

\* The changes in the channel and the ones to come fit into it.
Bounded == sub[Master] => Len(ch[Master]) + HealthDebt + CloseDebt < ChanCap

\* The inductive invariant behind NoChangeDropped.
ChanInv ==
  /\ CheckInv
  /\ Serving
  /\ Verifying
  /\ Bounded

\* A health check's answer is pending only when the monitor has subscribed.
PingSettled == hc[Master] \in {"pingOk", "pingErr"} => ~Subscribing

\* The thread has returned only if the manager or the pool was closed.
Retired == mon \in {"none", "aborted"} => mgrClosed \/ closing[Master] # "open"

\* A monitor that waits is subscribed, until the pool is closed.
Subscribed ==
  mon = "wait" /\ closing[Master] = "open" =>
    sub[Master] /\ ~Holds(ch[Master], "eof")

\* A Connect that is about to return nil leaves the pool connected.
Connecting == conn[Master] = "ok" /\ Unmarked => state[Master] = "connected"

\* The inductive invariant behind ErrorIsHandled, under PromptSubscribe.
HandledInv ==
  /\ ChanInv
  /\ PingSettled
  /\ Retired
  /\ Subscribed
  /\ Connecting
  /\ ErrorIsHandled

USE PoolAssumption, PrimaryAssumption

\* The primary's type invariant holds initially.
LEMMA InitType == Init => TypeOK
<1> SUFFICES ASSUME Init PROVE TypeOK
  OBVIOUS
<1> USE DEF Init, newPool
<1>1. ch \in [Hosts -> Seq(PoolState \cup {"eof"})]
  OBVIOUS
<1>2. state \in [Hosts -> PoolState] /\ conn \in [Hosts -> ConnPc]
  BY DEF PoolState, ConnPc
<1>3. hc \in [Hosts -> HcPc] /\ closing \in [Hosts -> ClosePc]
  BY DEF HcPc, ClosePc
<1>4. sub \in [Hosts -> BOOLEAN] /\ attempt \in [Hosts -> Nat \ {0}]
  OBVIOUS
<1> QED
  BY <1>1, <1>2, <1>3, <1>4, Zenon DEF TypeOK, PoolTypeOK, MonPc

\* Set keeps the types of the state and of the channels.
LEMMA SetType ==
  ASSUME PoolTypeOK, NEW h \in Hosts, NEW s \in PoolState, Set(h, s)
  PROVE  /\ state' \in [Hosts -> PoolState]
         /\ ch' \in [Hosts -> Seq(PoolState \cup {"eof"})]
<1>1. state' \in [Hosts -> PoolState]
  BY DEF PoolTypeOK, Set
<1>2. ch[h] \in Seq(PoolState \cup {"eof"})
  BY DEF PoolTypeOK
<1>3. Append(ch[h], s) \in Seq(PoolState \cup {"eof"})
  BY <1>2
<1>4. ch' \in [Hosts -> Seq(PoolState \cup {"eof"})]
  <2>1. PICK q \in Seq(PoolState \cup {"eof"}) : ch' = [ch EXCEPT ![h] = q] \/ ch' = ch
    BY <1>2, <1>3, Zenon DEF Set
  <2> QED
    BY <2>1, Zenon DEF PoolTypeOK
<1> QED
  BY <1>1, <1>4

\* Every step keeps the types.
LEMMA NextType == TypeOK /\ [Next]_vars => TypeOK'
<1> SUFFICES ASSUME TypeOK, [Next]_vars PROVE TypeOK'
  OBVIOUS
<1> USE DEF TypeOK, PoolTypeOK, vars, poolVars, Pool
<1> Master \in Hosts
  OBVIOUS
<1>1. CASE Pool(ConnectStep(Master))
  <2>1. CASE ConnectPing(Master)
    BY <1>1, <2>1 DEF ConnectPing, ConnPc
  <2>2. CASE ConnectError(Master)
    BY <1>1, <2>2, SetType DEF ConnectError, AfterFailure, ConnPc, PoolState
  <2>3. CASE ConnectMark(Master)
    BY <1>1, <2>3, SetType DEF ConnectMark, ConnPc, PoolState
  <2>4. CASE ConnectVerified(Master)
    BY <1>1, <2>4 DEF ConnectVerified, ConnPc, HcPc
  <2>5. CASE ConnectUnverified(Master)
    BY <1>1, <2>5 DEF ConnectUnverified, ConnPc
  <2>6. CASE ConnectRetry(Master)
    BY <1>1, <2>6 DEF ConnectRetry, ConnPc
  <2>7. CASE ConnectAbort(Master)
    BY <1>1, <2>7 DEF ConnectAbort, ConnPc
  <2> QED
    BY <1>1, <2>1, <2>2, <2>3, <2>4, <2>5, <2>6, <2>7 DEF ConnectStep
<1>2. CASE HealthStep
  <2>1. CASE Pool(HealthPing(Master))
    BY <2>1 DEF HealthPing, HcPc
  <2>2. CASE Pool(HealthError(Master))
    BY <2>2, SetType DEF HealthError, HcPc, PoolState
  <2>3. CASE Pool(HealthMark(Master))
    BY <2>3, SetType DEF HealthMark, HcPc, PoolState
  <2>4. CASE Pool(HealthStop(Master))
    BY <2>4 DEF HealthStop, HcPc
  <2> QED
    BY <1>2, <2>1, <2>2, <2>3, <2>4 DEF HealthStep
<1>3. CASE MonitorStep
  <2> USE DEF SubscribeChange, Unsubscribe, CloseTo, ConnPc, MonPc
  <2>1. CASE InitConnected
    BY <2>1 DEF InitConnected
  <2>2. CASE InitFailed
    BY <2>2 DEF InitFailed, ClosePc
  <2>3. CASE MonitorSubscribe
    BY <2>3 DEF MonitorSubscribe
  <2>4. CASE MonitorError
    BY <2>4 DEF MonitorError
  <2>10. CASE MonitorClosed
    BY <2>10 DEF MonitorClosed
  <2>9. CASE MonitorIgnore
    <3>1. ch[Master] \in Seq(PoolState \cup {"eof"}) /\ ch[Master] # <<>>
      BY <2>9 DEF MonitorIgnore, Received
    <3>2. Tail(ch[Master]) \in Seq(PoolState \cup {"eof"})
      BY <3>1
    <3> QED
      BY <2>9, <3>2 DEF MonitorIgnore
  <2>5. CASE MonitorStop
    BY <2>5 DEF MonitorStop
  <2>6. CASE ReconnectBegin
    BY <2>6 DEF ReconnectBegin, ConnectBegin
  <2>7. CASE ReconnectFailed
    BY <2>7 DEF ReconnectFailed
  <2>8. CASE ReconnectOk
    BY <2>8 DEF ReconnectOk
  <2> QED
    BY <1>3, <2>1, <2>2, <2>3, <2>4, <2>5, <2>6, <2>7, <2>8, <2>9, <2>10 DEF MonitorStep
<1>4. CASE ManagerClose
  BY <1>4 DEF ManagerClose
<1>5. CASE MasterClose
  BY <1>5 DEF MasterClose, CloseSignal, CloseTo, ClosePc
<1>6. CASE Pool(CloseStep(Master))
  <2>1. CASE CloseDrain(Master)
    BY <1>6, <2>1 DEF CloseDrain, CloseTo, ClosePc
  <2>2. CASE CloseMark(Master)
    BY <1>6, <2>2, SetType DEF CloseMark, CloseTo, ClosePc, PoolState
  <2>3. CASE CloseSubscribers(Master)
    BY <1>6, <2>3 DEF CloseSubscribers, CloseTo, ClosePc
  <2> QED
    BY <1>6, <2>1, <2>2, <2>3 DEF CloseStep
<1>7. CASE Pool(ServerChange(Master))
  BY <1>7 DEF ServerChange
<1>8. CASE Pool(SchemaChange)
  BY <1>8 DEF SchemaChange
<1>9. CASE UNCHANGED vars
  BY <1>9
<1> QED
  BY <1>1, <1>2, <1>3, <1>4, <1>5, <1>6, <1>7, <1>8, <1>9 DEF Next

\* Type correctness of the primary.
THEOREM PrimaryTypeCorrect == Spec => []TypeOK
  BY InitType, NextType, PTL DEF Spec
-----------------------------------------------------------------------------
\* What a channel that grew by one state holds.
LEMMA AppendHolds ==
  ASSUME NEW T, NEW q \in Seq(T), NEW s, NEW e
  PROVE  /\ Len(Append(q, s)) = Len(q) + 1
         /\ Holds(Append(q, s), e) <=> Holds(q, e) \/ s = e
<1>1. Holds(q, e) => Holds(Append(q, s), e)
  BY DEF Holds
<1>2. Holds(Append(q, s), s)
  BY DEF Holds
<1>3. Holds(Append(q, s), e) => Holds(q, e) \/ s = e
  BY DEF Holds
<1> QED
  BY <1>1, <1>2, <1>3

\* What is left of a channel from which one state was taken.
LEMMA TailHolds ==
  ASSUME NEW T, NEW q \in Seq(T), q # <<>>, NEW e
  PROVE  /\ Len(Tail(q)) = Len(q) - 1
         /\ Tail(q) \in Seq(T)
         /\ Holds(q, e) <=> Holds(Tail(q), e) \/ Head(q) = e
<1>1. Holds(Tail(q), e) => Holds(q, e)
  BY DEF Holds
<1>2. Head(q) = e => Holds(q, e)
  BY DEF Holds
<1>3. ASSUME Holds(q, e), Head(q) # e PROVE Holds(Tail(q), e)
  <2>1. PICK i \in DOMAIN q : q[i] = e
    BY <1>3 DEF Holds
  <2>2. i - 1 \in DOMAIN Tail(q) /\ Tail(q)[i - 1] = e
    BY <1>3, <2>1
  <2> QED
    BY <2>2 DEF Holds
<1> QED
  BY <1>1, <1>2, <1>3

\* An empty channel holds nothing.
LEMMA EmptyHolds == \A e : ~Holds(<<>>, e)
  BY DEF Holds

\* What Set does to the pool's state and channel.
LEMMA SetChan ==
  ASSUME PoolTypeOK, NEW s \in PoolState, Set(Master, s)
  PROVE  /\ state'[Master] = s
         /\ ~sub[Master] \/ s = state[Master] => ch'[Master] = ch[Master]
         /\ Len(ch'[Master]) \in {Len(ch[Master]), Len(ch[Master]) + 1}
         /\ sub[Master] /\ s # state[Master] /\ Len(ch[Master]) < ChanCap =>
              Holds(ch'[Master], s)
         /\ \A e : e # s => (Holds(ch'[Master], e) <=> Holds(ch[Master], e))
<1>1. ch[Master] \in Seq(PoolState \cup {"eof"}) /\ Master \in Hosts
  BY DEF PoolTypeOK
<1>2. state'[Master] = s
  BY DEF PoolTypeOK, Set
<1>3. CASE ch'[Master] = Append(ch[Master], s) /\ sub[Master] /\ s # state[Master]
  BY <1>1, <1>2, <1>3, AppendHolds
<1>4. CASE /\ ch'[Master] = ch[Master]
           /\ ~(sub[Master] /\ s # state[Master] /\ Len(ch[Master]) < ChanCap)
  BY <1>1, <1>2, <1>4
<1> QED
  BY <1>1, <1>3, <1>4 DEF PoolTypeOK, Set

\* What closing the subscribers' channels does to the one there is.
LEMMA CloseChan ==
  ASSUME PoolTypeOK, CloseSubscribers(Master)
  PROVE  /\ ~sub[Master] => ch'[Master] = ch[Master]
         /\ \A e : e # "eof" => (Holds(ch'[Master], e) <=> Holds(ch[Master], e))
<1>1. ch[Master] \in Seq(PoolState \cup {"eof"}) /\ Master \in Hosts
  BY DEF PoolTypeOK
<1>2. ch'[Master] = IF sub[Master] THEN Append(ch[Master], "eof") ELSE ch[Master]
  BY <1>1 DEF PoolTypeOK, CloseSubscribers
<1> QED
  BY <1>1, <1>2, AppendHolds

\* What is left when the monitor has read a state that is not an error.
LEMMA IgnoreChan ==
  ASSUME PoolTypeOK, MonitorIgnore
  PROVE  /\ Len(ch'[Master]) < Len(ch[Master])
         /\ ch[Master] # <<>>
         /\ \A e \in {"error", "eof"} : Holds(ch'[Master], e) <=> Holds(ch[Master], e)
<1>1. ch[Master] \in Seq(PoolState \cup {"eof"}) /\ Master \in Hosts
  BY DEF PoolTypeOK
<1>2. ch[Master] # <<>> /\ Head(ch[Master]) \notin {"error", "eof"}
  BY DEF MonitorIgnore, Received, PoolState
<1>3. ch'[Master] = Tail(ch[Master])
  BY <1>1 DEF PoolTypeOK, MonitorIgnore
<1>4. \A e \in {"error", "eof"} : Holds(Tail(ch[Master]), e) <=> Holds(ch[Master], e)
  BY <1>1, <1>2, TailHolds
<1> QED
  BY <1>1, <1>2, <1>3, <1>4

\* Every step keeps the invariant behind OneHealthCheck.
LEMMA NextCheckInv == CheckInv /\ [Next]_vars => CheckInv'
<1> SUFFICES ASSUME CheckInv, [Next]_vars PROVE CheckInv'
  OBVIOUS
<1> USE DEF vars, poolVars, Pool
<1> Master \in Hosts
  OBVIOUS
<1>t. TypeOK /\ TypeOK' /\ PoolTypeOK /\ PoolTypeOK'
  BY NextType DEF CheckInv, TypeOK
<1>f. /\ Master \in DOMAIN state /\ Master \in DOMAIN sub /\ Master \in DOMAIN ch
      /\ Master \in DOMAIN conn /\ Master \in DOMAIN hc /\ Master \in DOMAIN closing
  BY <1>t DEF PoolTypeOK
<1> USE DEF CheckInv, OneHealthCheck, ConnOwned, ChanOwned, DelayedUnchecked, ErrorUnchecked
<1>1. CASE Pool(ConnectStep(Master))
  <2> USE <1>t, <1>f
  <2>1. CASE ConnectPing(Master)
    BY <1>1, <2>1, Zenon DEF ConnectPing
  <2>2. CASE ConnectError(Master)
    BY <1>1, <2>2, SetChan DEF ConnectError, AfterFailure, PoolState
  <2>3. CASE ConnectMark(Master)
    BY <1>1, <2>3, SetChan DEF ConnectMark, PoolState
  <2>4. CASE ConnectVerified(Master)
    BY <1>1, <2>4, EmptyHolds DEF ConnectVerified
  <2>5. CASE ConnectUnverified(Master)
    BY <1>1, <2>5 DEF ConnectUnverified
  <2>6. CASE ConnectRetry(Master)
    BY <1>1, <2>6 DEF ConnectRetry
  <2>7. CASE ConnectAbort(Master)
    BY <1>1, <2>7 DEF ConnectAbort
  <2> QED
    BY <1>1, <2>1, <2>2, <2>3, <2>4, <2>5, <2>6, <2>7, Zenon DEF ConnectStep
<1>2. CASE HealthStep
  <2> USE <1>t, <1>f
  <2>1. CASE Pool(HealthPing(Master))
    BY <2>1 DEF HealthPing
  <2>2. CASE Pool(HealthError(Master))
    BY <2>2, SetChan DEF HealthError, PoolState
  <2>3. CASE Pool(HealthMark(Master))
    BY <2>3, SetChan DEF HealthMark, PoolState
  <2>4. CASE Pool(HealthStop(Master))
    BY <2>4 DEF HealthStop
  <2> QED
    BY <1>2, <2>1, <2>2, <2>3, <2>4 DEF HealthStep
<1>3. CASE MonitorStep
  <2> USE <1>t, <1>f DEF SubscribeChange, Unsubscribe, CloseTo
  <2>1. CASE InitConnected
    BY <2>1 DEF InitConnected
  <2>2. CASE InitFailed
    BY <2>2 DEF InitFailed
  <2>3. CASE MonitorSubscribe
    BY <2>3, EmptyHolds DEF MonitorSubscribe
  <2>4. CASE MonitorError
    <3>1. Holds(ch[Master], "error")
      BY <2>4 DEF MonitorError, Received, Holds
    <3> QED
      BY <2>4, <3>1, EmptyHolds DEF MonitorError, Received
  <2>10. CASE MonitorClosed
    BY <2>10, EmptyHolds DEF MonitorClosed, Received
  <2>9. CASE MonitorIgnore
    BY <2>9, IgnoreChan DEF MonitorIgnore, Received
  <2>5. CASE MonitorStop
    BY <2>5, EmptyHolds DEF MonitorStop
  <2>6. CASE ReconnectBegin
    BY <2>6 DEF ReconnectBegin, ConnectBegin
  <2>7. CASE ReconnectFailed
    BY <2>7 DEF ReconnectFailed
  <2>8. CASE ReconnectOk
    BY <2>8 DEF ReconnectOk
  <2> QED
    BY <1>3, <2>1, <2>2, <2>3, <2>4, <2>5, <2>6, <2>7, <2>8, <2>9, <2>10, Zenon DEF MonitorStep
<1>4. CASE ManagerClose
  BY <1>t, <1>f, <1>4 DEF ManagerClose
<1>5. CASE MasterClose
  BY <1>t, <1>f, <1>5 DEF MasterClose, CloseSignal
<1>6. CASE Pool(CloseStep(Master))
  <2> USE <1>t, <1>f
  <2>1. CASE CloseDrain(Master)
    BY <1>6, <2>1 DEF CloseDrain
  <2>2. CASE CloseMark(Master)
    BY <1>6, <2>2, SetChan DEF CloseMark, PoolState
  <2>3. CASE CloseSubscribers(Master)
    BY <1>6, <2>3, CloseChan DEF CloseSubscribers
  <2> QED
    BY <1>6, <2>1, <2>2, <2>3 DEF CloseStep
<1>7. CASE Pool(ServerChange(Master))
  BY <1>t, <1>f, <1>7 DEF ServerChange
<1>8. CASE Pool(SchemaChange)
  BY <1>t, <1>f, <1>8 DEF SchemaChange
<1>9. CASE UNCHANGED vars
  BY <1>t, <1>f, <1>9
<1> QED
  BY <1>1, <1>2, <1>3, <1>4, <1>5, <1>6, <1>7, <1>8, <1>9 DEF Next

\* The invariant behind OneHealthCheck holds initially.
LEMMA InitCheckInv == Init => CheckInv
  BY InitType, EmptyHolds DEF Init, newPool, CheckInv, OneHealthCheck, ConnOwned, ChanOwned,
     DelayedUnchecked, ErrorUnchecked

\* A Connect never starts a health checker beside one that is still alive.
THEOREM PrimaryOneHealthCheck == Spec => []OneHealthCheck
<1>2. CheckInv => OneHealthCheck
  BY DEF CheckInv
<1> QED
  BY <1>2, InitCheckInv, NextCheckInv, PTL DEF Spec

-----------------------------------------------------------------------------
\* An empty channel has room for all that a checker and Close can still say.
LEMMA FreshBounded ==
  ASSUME Len(ch'[Master]) = 0, CloseDebt' = 1, HealthDebt' \in {1, 2}
  PROVE  Bounded'
  BY DEF Bounded, ChanCap, HealthDebt, CloseDebt

\* Every step keeps the invariant behind NoChangeDropped.
LEMMA NextChanInv == ChanInv /\ [Next]_vars => ChanInv'
<1> SUFFICES ASSUME ChanInv, [Next]_vars PROVE ChanInv'
  OBVIOUS
<1> USE DEF vars, poolVars, Pool, ChanInv, Serving, Verifying, Bounded, Unmarked, ChanCap
<1>t. Master \in Hosts /\ CheckInv /\ CheckInv' /\ PoolTypeOK /\ PoolTypeOK'
  BY NextCheckInv, Zenon DEF CheckInv, TypeOK
<1>c. "connected" \in PoolState /\ "error" \in PoolState /\ "closed" \in PoolState
  BY DEF PoolState
<1>n. Len(ch[Master]) \in Nat /\ (ch[Master] = <<>> => Len(ch[Master]) = 0)
  BY <1>t DEF PoolTypeOK
<1>d. HealthDebt \in Nat /\ CloseDebt \in Nat /\ HealthDebt' \in Nat /\ CloseDebt' \in Nat
  BY Zenon DEF HealthDebt, CloseDebt
<1>m. Len(ch'[Master]) \in Nat /\ (ch'[Master] = <<>> => Len(ch'[Master]) = 0)
  BY <1>t DEF PoolTypeOK
<1>f. /\ Master \in DOMAIN state /\ Master \in DOMAIN sub /\ Master \in DOMAIN ch
      /\ Master \in DOMAIN conn /\ Master \in DOMAIN hc /\ Master \in DOMAIN closing
  BY <1>t DEF PoolTypeOK
<1>i. OneHealthCheck /\ ConnOwned /\ ChanOwned /\ DelayedUnchecked
  BY <1>t, Zenon DEF CheckInv
<1> USE <1>t, <1>c, <1>n, <1>d, <1>m, <1>f, <1>i
<1>1. CASE Pool(ConnectStep(Master))
  <2>1. CASE ConnectPing(Master)
    BY <2>1, <1>1, Zenon DEF HealthDebt, CloseDebt, ConnectPing, OneHealthCheck, ConnOwned, ChanOwned
  <2>2. CASE ConnectError(Master)
    BY <2>2, <1>1, SetChan, Zenon DEF HealthDebt, CloseDebt, ConnectError, AfterFailure, OneHealthCheck, ConnOwned, ChanOwned
  <2>3. CASE ConnectMark(Master)
    BY <2>3, <1>1, SetChan, Zenon DEF HealthDebt, CloseDebt, ConnectMark, OneHealthCheck, ConnOwned, ChanOwned
  <2>4. CASE ConnectVerified(Master)
    BY <2>4, <1>1 DEF HealthDebt, CloseDebt, ConnectVerified, OneHealthCheck, ConnOwned, ChanOwned
  <2>5. CASE ConnectUnverified(Master)
    BY <2>5, <1>1 DEF HealthDebt, CloseDebt, ConnectUnverified, OneHealthCheck, ConnOwned, ChanOwned
  <2>6. CASE ConnectRetry(Master)
    BY <2>6, <1>1 DEF HealthDebt, CloseDebt, ConnectRetry, OneHealthCheck, ConnOwned, ChanOwned
  <2>7. CASE ConnectAbort(Master)
    BY <2>7, <1>1 DEF HealthDebt, CloseDebt, ConnectAbort, OneHealthCheck, ConnOwned, ChanOwned
  <2> QED
    BY <1>1, <2>1, <2>2, <2>3, <2>4, <2>5, <2>6, <2>7, Zenon DEF ConnectStep
<1>2. CASE HealthStep
  <2>1. CASE (PromptSubscribe => ~Subscribing) /\ Pool(HealthPing(Master))
    <3>1. CloseDebt' = CloseDebt /\ HealthDebt = 1
      BY <2>1 DEF HealthPing, HealthDebt, CloseDebt
    <3>2. CASE Unmarked
      <4>1. Len(ch'[Master]) = 0 /\ CloseDebt' = 1 /\ HealthDebt' \in {1, 2}
        BY <2>1, <3>2 DEF HealthPing, CloseDebt, HealthDebt
      <4>2. Bounded'
        BY <4>1, FreshBounded, Zenon
      <4>3. Serving' /\ Verifying'
        BY <2>1, <3>2 DEF HealthPing
      <4> QED
        BY <4>2, <4>3, Zenon
    <3>3. CASE ~Unmarked
      <4>1. hc'[Master] = "pingErr" /\ HealthDebt' = 1
        BY <2>1, <3>3 DEF HealthPing, Reachable, HealthDebt
      <4> QED
        BY <2>1, <3>1, <3>3, <4>1 DEF HealthPing
    <3> QED
      BY <3>2, <3>3, Zenon
  <2>2. CASE Pool(HealthError(Master))
    <3>1. HealthDebt = 1 /\ HealthDebt' = 0 /\ CloseDebt' = CloseDebt
      BY <2>2 DEF HealthError, HealthDebt, CloseDebt
    <3> QED
      BY <2>2, <3>1, SetChan DEF HealthError, ConnOwned, ChanOwned, OneHealthCheck
  <2>3. CASE Pool(HealthMark(Master))
    <3>1. HealthDebt = 2 /\ HealthDebt' = 1 /\ CloseDebt' = CloseDebt
      BY <2>3 DEF HealthMark, HealthDebt, CloseDebt
    <3>2. Bounded'
      BY <2>3, <3>1, SetChan DEF HealthMark
    <3> QED
      BY <2>3, <3>2, SetChan DEF HealthMark
  <2>4. CASE Pool(HealthStop(Master))
    BY <2>4 DEF HealthDebt, CloseDebt, HealthStop, ConnOwned, ChanOwned
  <2> QED
    BY <1>2, <2>1, <2>2, <2>3, <2>4, Zenon DEF HealthStep
<1>3. CASE MonitorStep
  <2> USE DEF SubscribeChange, Unsubscribe, CloseTo, ConnOwned, ChanOwned
  <2>1. CASE InitConnected
    BY <2>1, Zenon DEF HealthDebt, CloseDebt, InitConnected
  <2>2. CASE InitFailed
    BY <2>2 DEF HealthDebt, CloseDebt, InitFailed
  <2>3. CASE MonitorSubscribe
    BY <2>3, EmptyHolds DEF HealthDebt, CloseDebt, MonitorSubscribe
  <2>4. CASE MonitorError
    BY <2>4, EmptyHolds DEF HealthDebt, CloseDebt, MonitorError, Received
  <2>5. CASE MonitorClosed
    BY <2>5, EmptyHolds DEF HealthDebt, CloseDebt, MonitorClosed, Received
  <2>6. CASE MonitorIgnore
    <3>1. HealthDebt' = HealthDebt /\ CloseDebt' = CloseDebt
      BY <2>6 DEF MonitorIgnore, HealthDebt, CloseDebt
    <3> QED
      BY <2>6, <3>1, IgnoreChan DEF MonitorIgnore, Received
  <2>7. CASE MonitorStop
    BY <2>7, EmptyHolds DEF HealthDebt, CloseDebt, MonitorStop
  <2>8. CASE ReconnectBegin
    BY <2>8 DEF HealthDebt, CloseDebt, ReconnectBegin, ConnectBegin, DelayedUnchecked
  <2>9. CASE ReconnectFailed
    BY <2>9 DEF HealthDebt, CloseDebt, ReconnectFailed
  <2>10. CASE ReconnectOk
    BY <2>10 DEF HealthDebt, CloseDebt, ReconnectOk
  <2> QED
    BY <1>3, <2>1, <2>2, <2>3, <2>4, <2>5, <2>6, <2>7, <2>8, <2>9, <2>10, Zenon DEF MonitorStep
<1>4. CASE ManagerClose
  BY <1>4, Zenon DEF HealthDebt, CloseDebt, ManagerClose, Published
<1>5. CASE MasterClose
  BY <1>5 DEF HealthDebt, CloseDebt, MasterClose, CloseSignal, CloseTo
<1>6. CASE Pool(CloseStep(Master))
  <2> USE DEF CloseTo
  <2>1. CASE CloseDrain(Master)
    BY <2>1, <1>6, Zenon DEF HealthDebt, CloseDebt, CloseDrain
  <2>2. CASE CloseMark(Master)
    <3>1. CloseDebt = 1 /\ CloseDebt' = 0 /\ HealthDebt' = HealthDebt
      BY <2>2, <1>6 DEF CloseMark, HealthDebt, CloseDebt
    <3>2. Bounded'
      BY <2>2, <1>6, <3>1, SetChan DEF CloseMark
    <3> QED
      BY <2>2, <1>6, <3>2, SetChan, Zenon DEF CloseMark
  <2>3. CASE CloseSubscribers(Master)
    BY <2>3, <1>6, CloseChan, Zenon DEF HealthDebt, CloseDebt, CloseSubscribers
  <2> QED
    BY <1>6, <2>1, <2>2, <2>3 DEF CloseStep
<1>7. CASE Pool(ServerChange(Master))
  BY <1>7, Zenon DEF HealthDebt, CloseDebt, ServerChange
<1>8. CASE Pool(SchemaChange)
  BY <1>8, Zenon DEF HealthDebt, CloseDebt, SchemaChange
<1>9. CASE UNCHANGED vars
  BY <1>9, Zenon DEF HealthDebt, CloseDebt
<1> QED
  BY <1>1, <1>2, <1>3, <1>4, <1>5, <1>6, <1>7, <1>8, <1>9, Zenon DEF Next

\* notifyChange never finds the monitor's channel full.
THEOREM PrimaryNoChangeDropped == Spec => []NoChangeDropped
<1>1. Init => ChanInv
  BY InitCheckInv DEF Init, newPool, ChanInv, Serving, Verifying, Bounded
<1>2. ChanInv => NoChangeDropped
  <2> SUFFICES ASSUME ChanInv PROVE NoChangeDropped
    OBVIOUS
  <2>1. Len(ch[Master]) \in Nat
    BY DEF ChanInv, CheckInv, TypeOK, PoolTypeOK
  <2>2. HealthDebt \in Nat /\ CloseDebt \in Nat
    BY DEF HealthDebt, CloseDebt
  <2> QED
    BY <2>1, <2>2 DEF ChanInv, NoChangeDropped, Bounded, ChanCap
<1> QED
  BY <1>1, <1>2, NextChanInv, PTL DEF Spec

-----------------------------------------------------------------------------
\* With a prompt monitor, every step keeps the invariant behind ErrorIsHandled.
LEMMA NextHandledInv == PromptSubscribe /\ HandledInv /\ [Next]_vars => HandledInv'
<1> SUFFICES ASSUME PromptSubscribe, HandledInv, [Next]_vars PROVE HandledInv'
  OBVIOUS
<1> USE DEF vars, poolVars, Pool, HandledInv, PingSettled, Retired, Subscribed, Connecting, ErrorIsHandled, Unmarked, Subscribing
<1>t. Master \in Hosts /\ ChanInv /\ ChanInv' /\ CheckInv /\ CheckInv' /\ PoolTypeOK /\ PoolTypeOK'
  BY NextChanInv, Zenon DEF ChanInv, CheckInv, TypeOK
<1>c. "connected" \in PoolState /\ "error" \in PoolState /\ "closed" \in PoolState
  BY Zenon DEF PoolState
<1>n. Len(ch[Master]) \in Nat /\ (ch[Master] = <<>> => Len(ch[Master]) = 0)
  BY <1>t DEF PoolTypeOK
<1>f. /\ Master \in DOMAIN state /\ Master \in DOMAIN sub /\ Master \in DOMAIN ch
      /\ Master \in DOMAIN conn /\ Master \in DOMAIN hc /\ Master \in DOMAIN closing
  BY <1>t DEF PoolTypeOK
<1>i. OneHealthCheck /\ ConnOwned /\ ChanOwned /\ DelayedUnchecked /\ mon \in MonPc
  BY <1>t, Zenon DEF CheckInv, TypeOK
<1> USE <1>t, <1>c, <1>n, <1>f, <1>i
<1>1. CASE Pool(ConnectStep(Master))
  <2>1. CASE ConnectPing(Master)
    BY <2>1, <1>1, Zenon DEF ConnectPing, OneHealthCheck, ConnOwned, ChanOwned
  <2>2. CASE ConnectError(Master)
    BY <2>2, <1>1, SetChan, Zenon DEF ConnectError, AfterFailure, OneHealthCheck, ConnOwned, ChanOwned
  <2>3. CASE ConnectMark(Master)
    BY <2>3, <1>1, SetChan, Zenon DEF ConnectMark, OneHealthCheck, ConnOwned, ChanOwned
  <2>4. CASE ConnectVerified(Master)
    BY <2>4, <1>1, Zenon DEF ConnectVerified, ChanInv, Verifying, OneHealthCheck, ConnOwned, ChanOwned
  <2>5. CASE ConnectUnverified(Master)
    BY <2>5, <1>1, Zenon DEF ConnectUnverified, OneHealthCheck, ConnOwned, ChanOwned
  <2>6. CASE ConnectRetry(Master)
    BY <2>6, <1>1, Zenon DEF ConnectRetry, OneHealthCheck, ConnOwned, ChanOwned
  <2>7. CASE ConnectAbort(Master)
    BY <2>7, <1>1 DEF ConnectAbort, OneHealthCheck, ConnOwned, ChanOwned
  <2> QED
    BY <1>1, <2>1, <2>2, <2>3, <2>4, <2>5, <2>6, <2>7, Zenon DEF ConnectStep
<1>2. CASE HealthStep
  <2>1. CASE (PromptSubscribe => ~Subscribing) /\ Pool(HealthPing(Master))
    BY <2>1, Zenon DEF HealthPing, Reachable, Subscribing, ConnOwned, ChanOwned
  <2>2. CASE Pool(HealthError(Master))
    <3>1. hc[Master] = "pingErr" /\ hc'[Master] = "none" /\ Set(Master, "error")
      BY <2>2, Zenon DEF HealthError
    <3>2. UNCHANGED <<conn, closing, sub, mon, mgrClosed>>
      BY <2>2 DEF HealthError
    <3>3. closing[Master] = "open" /\ ~mgrClosed => mon = "wait"
      BY <3>1 DEF OneHealthCheck, ConnOwned, DelayedUnchecked, MonPc
    <3>4. closing[Master] = "open" /\ mon = "wait" => Len(ch[Master]) < ChanCap
      <4>1. HealthDebt \in Nat /\ CloseDebt \in Nat
        BY DEF HealthDebt, CloseDebt
      <4> QED
        BY <4>1 DEF ChanInv, Bounded, ChanCap
    <3>5. closing[Master] = "open" /\ mon = "wait" /\ state[Master] # "error" =>
            Holds(ch'[Master], "error")
      BY <3>1, <3>4, SetChan, Zenon DEF ChanOwned
    <3>5a. state[Master] = "error" => ch'[Master] = ch[Master]
      BY <3>1, SetChan
    <3>6. ErrorIsHandled'
      BY <3>2, <3>3, <3>5, <3>5a
    <3>7. PingSettled' /\ Retired'
      BY <3>1, <3>2
    <3>8. Subscribed'
      BY <3>1, <3>2, SetChan, Zenon
    <3>9. Connecting'
      BY <3>1, <3>2, Zenon
    <3> QED
      BY <3>6, <3>7, <3>8, <3>9, Zenon
  <2>3. CASE Pool(HealthMark(Master))
    BY <2>3, SetChan, Zenon DEF HealthMark, ConnOwned, ChanOwned
  <2>4. CASE Pool(HealthStop(Master))
    BY <2>4, Zenon DEF HealthStop, ConnOwned, ChanOwned
  <2> QED
    BY <1>2, <2>1, <2>2, <2>3, <2>4, Zenon DEF HealthStep
<1>3. CASE MonitorStep
  <2> USE DEF SubscribeChange, Unsubscribe, CloseTo, ConnOwned, ChanOwned
  <2>1. CASE InitConnected
    BY <2>1, Zenon DEF InitConnected
  <2>2. CASE InitFailed
    BY <2>2, Zenon DEF InitFailed
  <2>3. CASE MonitorSubscribe
    BY <2>3, EmptyHolds, Zenon DEF MonitorSubscribe
  <2>4. CASE MonitorError
    BY <2>4, EmptyHolds, Zenon DEF MonitorError, Received
  <2>5. CASE MonitorClosed
    <3>1. Holds(ch[Master], "eof")
      BY <2>5 DEF MonitorClosed, Received, Holds
    <3> QED
      BY <2>5, <3>1, Zenon DEF MonitorClosed, Received
  <2>6. CASE MonitorIgnore
    BY <2>6, IgnoreChan, Zenon DEF MonitorIgnore, Received
  <2>7. CASE MonitorStop
    BY <2>7, EmptyHolds, Zenon DEF MonitorStop
  <2>8. CASE ReconnectBegin
    BY <2>8, Zenon DEF ReconnectBegin, ConnectBegin, DelayedUnchecked
  <2>9. CASE ReconnectFailed
    BY <2>9, Zenon DEF ReconnectFailed
  <2>10. CASE ReconnectOk
    BY <2>10, Zenon DEF ReconnectOk
  <2> QED
    BY <1>3, <2>1, <2>2, <2>3, <2>4, <2>5, <2>6, <2>7, <2>8, <2>9, <2>10, Zenon DEF MonitorStep
<1>4. CASE ManagerClose
  BY <1>4, Zenon DEF ManagerClose, Published
<1>5. CASE MasterClose
  BY <1>5, Zenon DEF MasterClose, CloseSignal, CloseTo
<1>6. CASE Pool(CloseStep(Master))
  <2> USE DEF CloseTo
  <2>1. CASE CloseDrain(Master)
    BY <2>1, <1>6, Zenon DEF CloseDrain
  <2>2. CASE CloseMark(Master)
    BY <2>2, <1>6, SetChan, Zenon DEF CloseMark
  <2>3. CASE CloseSubscribers(Master)
    BY <2>3, <1>6, CloseChan, Zenon DEF CloseSubscribers
  <2> QED
    BY <1>6, <2>1, <2>2, <2>3, Zenon DEF CloseStep
<1>7. CASE Pool(ServerChange(Master))
  BY <1>7, Zenon DEF ServerChange
<1>8. CASE Pool(SchemaChange)
  BY <1>8, Zenon DEF SchemaChange
<1>9. CASE UNCHANGED vars
  BY <1>9, Zenon
<1> QED
  BY <1>1, <1>2, <1>3, <1>4, <1>5, <1>6, <1>7, <1>8, <1>9, Zenon DEF Next

\* With a prompt monitor no error of an open primary goes unhandled.
THEOREM PrimaryErrorIsHandled == PromptSubscribe => (Spec => []ErrorIsHandled)
<1> SUFFICES ASSUME PromptSubscribe PROVE Spec => []ErrorIsHandled
  OBVIOUS
<1>1. Init => HandledInv
  BY InitCheckInv, EmptyHolds DEF Init, newPool, ChanInv, Serving, Verifying, Bounded, HandledInv,
     PingSettled, Retired, Subscribed, Connecting, ErrorIsHandled
<1>2. HandledInv => ErrorIsHandled
  BY DEF HandledInv
<1>3. HandledInv /\ [Next]_vars => HandledInv'
  BY NextHandledInv
<1> QED
  BY <1>1, <1>2, <1>3, PTL DEF Spec
=============================================================================
