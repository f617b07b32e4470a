---------------------------- MODULE RabbitProofs -----------------------------
(***************************************************************************)
(* Proofs about Rabbit, for any number of connections, messages, workers,  *)
(* attempts and sends: what the users of the shared channel are promised.  *)
(*                                                                         *)
(* All that the connection does to its users is in Closing: connections    *)
(* are dialled, and those that were dialled before only ever close.  Each  *)
(* user has an invariant of its own, which Closing keeps and its own       *)
(* actions keep.                                                           *)
(***************************************************************************)
EXTENDS Rabbit, FiniteSetTheorems, TLAPS

-----------------------------------------------------------------------------
(***************************************************************************)
(* The connection                                                          *)
(***************************************************************************)
Closing ==
  /\ made \in Nat /\ made' \in Nat /\ made <= made'
  /\ \A c \in 1..made : (chOpen'[c] => chOpen[c]) /\ (connOpen'[c] => connOpen[c])

\* What its users read of a well-typed connection.
LEMMA BrokerFacts ==
  ASSUME BrokerTypeOK
  PROVE  made \in Nat /\ 1 \in 1..made /\ cur \in 1..made /\ made \in Conns /\ cur \in Conns /\ 1 \in Conns
  BY BrokerAssumption DEF BrokerTypeOK, Conns

LEMMA BrokerSpan ==
  ASSUME BrokerTypeOK
  PROVE  cur \in 0..made /\ cur # 0 /\ 0 \in 0..made
  BY BrokerFacts

LEMMA ClosingGrows ==
  ASSUME Closing, NEW c \in 1..made
  PROVE  c \in 1..made'
  BY DEF Closing

LEMMA StillCloses ==
  ASSUME BrokerTypeOK, UNCHANGED brokerVars
  PROVE  BrokerTypeOK' /\ Closing
  BY DEF BrokerTypeOK, brokerVars, Closing, Conns, WatchPc

LEMMA ChannelCloses ==
  ASSUME BrokerTypeOK, NEW c \in Conns, CloseChannel(c)
  PROVE  BrokerTypeOK' /\ Closing
<1>1. BrokerTypeOK'
  BY DEF CloseChannel, BrokerTypeOK, WatchPc
<1>2. Closing
  BY DEF CloseChannel, BrokerTypeOK, Closing, Conns
<1> QED BY <1>1, <1>2

LEMMA WatchCloses ==
  ASSUME BrokerTypeOK, NEW c \in Conns, WatchStep(c)
  PROVE  BrokerTypeOK' /\ Closing
<1> USE BrokerAssumption
<1>1. CASE Connect(c)
  <2>1. made + 1 \in Conns /\ cur \in Conns /\ made \in Nat
    BY <1>1 DEF Connect, BrokerTypeOK, Conns
  <2>2. made' \in Conns /\ cur' \in 1..made'
    BY <1>1, <2>1 DEF Connect
  <2>3. connOpen' \in [Conns -> BOOLEAN] /\ chOpen' \in [Conns -> BOOLEAN]
    BY <1>1, <2>1, Zenon DEF Connect, BrokerTypeOK
  <2>4. \A d \in Conns : chOpen'[d] => connOpen'[d]
    BY <1>1, <2>1 DEF Connect, BrokerTypeOK
  <2>5. watch' \in [Conns -> WatchPc]
    BY <1>1, <2>1 DEF Connect, BrokerTypeOK, WatchPc
  <2>6. Closing
    BY <1>1, <2>1 DEF Connect, BrokerTypeOK, Closing, Conns
  <2> QED BY <1>1, <2>2, <2>3, <2>4, <2>5, <2>6, Zenon DEF Connect, BrokerTypeOK
<1>2. CASE WatchDone(c) \/ ReconnectEnter(c) \/ ReconnectTest(c) \/ ReconnectFails(c) \/ ReconnectReset(c)
  <2>1. UNCHANGED <<up, made, connOpen, chOpen, cur, done, prompt>>
    BY <1>2 DEF WatchDone, ReconnectEnter, ReconnectTest, ReconnectFails, ReconnectReset
  <2>2. watch' \in [Conns -> WatchPc] /\ reconnecting' \in BOOLEAN
    BY <1>2, Zenon DEF WatchDone, ReconnectEnter, ReconnectTest, ReconnectFails, ReconnectReset,
       BrokerTypeOK, WatchPc
  <2>3. Closing
    BY <2>1 DEF Closing, BrokerTypeOK, Conns
  <2> QED BY <2>1, <2>2, <2>3 DEF BrokerTypeOK
<1> QED BY <1>1, <1>2 DEF WatchStep

LEMMA EnvironmentCloses ==
  ASSUME BrokerTypeOK, Environment
  PROVE  BrokerTypeOK' /\ Closing
<1>1. cur \in Conns /\ made \in Nat
  BY BrokerAssumption DEF BrokerTypeOK, Conns
<1>2. CASE OtherUserCloses
  BY <1>1, <1>2, ChannelCloses DEF OtherUserCloses
<1>3. CASE BrokerClose \/ ServerDrop
  <2>1. /\ connOpen' = [connOpen EXCEPT ![cur] = FALSE]
        /\ chOpen' = [chOpen EXCEPT ![cur] = FALSE]
        /\ UNCHANGED <<up, made, cur, reconnecting, watch, prompt>>
        /\ done' \in BOOLEAN
    BY <1>3, Zenon DEF BrokerClose, ServerDrop, BrokerTypeOK
  <2>2. BrokerTypeOK'
    BY <1>1, <2>1 DEF BrokerTypeOK, WatchPc
  <2>3. Closing
    BY <1>1, <2>1 DEF BrokerTypeOK, Closing, Conns
  <2> QED BY <2>2, <2>3
<1>4. CASE ServerUpDown
  BY <1>1, <1>4 DEF ServerUpDown, BrokerTypeOK, Closing, WatchPc, Conns
<1> QED BY <1>2, <1>3, <1>4 DEF Environment

-----------------------------------------------------------------------------
(***************************************************************************)
(* The consumer                                                            *)
(***************************************************************************)
\* The loop and the server only use channels that were opened.
ChannelsKnown ==
  /\ cch \in 0..made
  /\ con \in {"consume", "recv", "sem"} \/ sess => cch # 0
  /\ \A m \in Msgs : owner[m] \in 0..made

ConsumerInv == ConsumerTypeOK /\ ChannelsKnown /\ NoLimbo /\ ShutdownWaits

TaskStates == {"none", "wire", "taken", "work"}

\* One delivery changes its state.
LEMMA TaskMoves ==
  ASSUME task \in [Conns -> [Msgs -> TaskStates]],
         NEW c \in Conns, NEW m \in Msgs, NEW s \in TaskStates,
         task' = [task EXCEPT ![c][m] = s]
  PROVE  /\ task' \in [Conns -> [Msgs -> TaskStates]]
         /\ task'[c][m] = s
         /\ \A d \in Conns, n \in Msgs : d # c \/ n # m => task'[d][n] = task[d][n]
  OBVIOUS

LEMMA ConsumerStands ==
  ASSUME BrokerTypeOK, ConsumerInv, Closing, UNCHANGED consumerVars
  PROVE  ConsumerInv'
<1>1. ConsumerTypeOK' /\ ShutdownWaits'
  BY DEF ConsumerInv, consumerVars, ConsumerTypeOK, ShutdownWaits, Working
<1>2. ChannelsKnown'
  BY DEF ConsumerInv, consumerVars, ChannelsKnown, Closing
<1>3. NoLimbo'
  BY DEF ConsumerInv, consumerVars, ChannelsKnown, Closing, NoLimbo, Conns
<1> QED BY <1>1, <1>2, <1>3 DEF ConsumerInv

\* No worker where there was none.
LEMMA WorkingShrinks ==
  ASSUME \A d \in Conns, n \in Msgs : task'[d][n] = "work" => task[d][n] = "work", Working = {}
  PROVE  Working' = {}
  BY DEF Working

\* The steps of the loop, of Shutdown and of the server that touch no delivery.
LEMMA LoopMoves ==
  ASSUME BrokerTypeOK, ConsumerInv,
         \/ LoopDone \/ LoopChannel \/ Consume \/ ReceiveDone
         \/ Shutdown \/ ShutdownOk \/ ShutdownTimeout \/ ServerCancel
  PROVE  ConsumerInv'
<1> USE DEF ConsumerInv, LoopDone, LoopChannel, Consume, ReceiveDone, Shutdown, ShutdownOk,
            ShutdownTimeout, ServerCancel, brokerVars
<1>1. ConsumerTypeOK'
  <2>1. UNCHANGED <<srv, owner, redel, task>>
    BY Zenon
  <2>0. cur \in Conns
    BY BrokerFacts, Zenon
  <2>2. cch' \in Conns \cup {0}
    BY <2>0, Zenon DEF ConsumerTypeOK
  <2>3. con' \in {"loop", "consume", "recv", "sem", "ended"} /\ shut' \in {"no", "waiting", "ok", "timeout"}
    BY Zenon DEF ConsumerTypeOK
  <2>4. sess' \in BOOLEAN /\ ctxDone' \in BOOLEAN
    BY Zenon DEF ConsumerTypeOK, BrokerTypeOK, ChannelsKnown
  <2> QED BY <2>1, <2>2, <2>3, <2>4, Zenon DEF ConsumerTypeOK
<1>2. ChannelsKnown'
  <2>1. cur \in 0..made /\ cur # 0 /\ 0 \in 0..made
    BY BrokerSpan, Zenon
  <2>2. cch' \in {cch, cur} /\ UNCHANGED <<made, owner>>
    BY Zenon
  <2>3. con' \in {"consume", "recv", "sem"} \/ sess' => cch' # 0
    BY <2>1, Zenon DEF ChannelsKnown
  <2> QED BY <2>1, <2>2, <2>3, Zenon DEF ChannelsKnown
<1>3. NoLimbo'
  BY Zenon DEF NoLimbo, ConsumerTypeOK
<1>4. ShutdownWaits'
  BY Zenon DEF ShutdownWaits, Working
<1> QED BY <1>1, <1>2, <1>3, <1>4

\* The loop takes a delivery, hands it to a worker, or forgets it.
LEMMA DeliveryMoves ==
  ASSUME BrokerTypeOK, ConsumerInv, NEW m \in Msgs, Receive(m) \/ Dispatch(m) \/ DispatchDone(m)
  PROVE  ConsumerInv'
<1> USE DEF ConsumerInv
<1>1. PICK s \in TaskStates : /\ task' = [task EXCEPT ![cch][m] = s]
                              /\ s = "none" => ctxDone
                              /\ con \in {"recv", "sem"} /\ con' \in {"sem", "recv", "loop"}
                              /\ UNCHANGED <<brokerVars, cch, sess, ctxDone, shut, srv, owner, redel>>
  BY DEF Receive, Dispatch, DispatchDone, TaskStates
<1>2. cch \in Conns
  BY <1>1 DEF ChannelsKnown, ConsumerTypeOK
<1>3. task \in [Conns -> [Msgs -> TaskStates]]
  BY DEF ConsumerTypeOK, TaskStates
<1>4. /\ task' \in [Conns -> [Msgs -> TaskStates]]
      /\ task'[cch][m] = s
      /\ \A d \in Conns, n \in Msgs : d # cch \/ n # m => task'[d][n] = task[d][n]
  BY <1>1, <1>2, <1>3, TaskMoves
<1>5. ConsumerTypeOK'
  BY <1>1, <1>4 DEF ConsumerTypeOK, TaskStates
<1>6. ChannelsKnown'
  BY <1>1, <1>2 DEF ChannelsKnown, brokerVars, Conns
<1>7. NoLimbo'
  BY <1>1, <1>4 DEF NoLimbo, brokerVars
<1>8. ShutdownWaits'
  BY <1>1 DEF ShutdownWaits
<1> QED BY <1>5, <1>6, <1>7, <1>8

\* The loop's channel or session is gone: with the channel, what was on the wire.
LEMMA ClosedMoves ==
  ASSUME BrokerTypeOK, ConsumerInv, ReceiveClosed
  PROVE  BrokerTypeOK' /\ Closing /\ ConsumerInv'
<1> USE DEF ConsumerInv
<1>1. cch \in Conns /\ con = "recv" /\ con' = "loop" /\ CloseChannel(cch)
  BY DEF ReceiveClosed, ChannelsKnown, ConsumerTypeOK
<1>2. BrokerTypeOK' /\ Closing
  BY <1>1, ChannelCloses
<1>3. /\ task' \in [Conns -> [Msgs -> TaskStates]]
      /\ \A d \in Conns, n \in Msgs : d # cch => task'[d][n] = task[d][n]
  BY <1>1 DEF ReceiveClosed, ConsumerTypeOK, TaskStates
<1>4. ConsumerTypeOK'
  BY <1>3, Zenon DEF ReceiveClosed, ConsumerTypeOK, TaskStates
<1>5. ChannelsKnown'
  BY <1>1 DEF ReceiveClosed, ChannelsKnown, CloseChannel
<1>6. ~chOpen'[cch] /\ \A d \in Conns : d # cch => chOpen'[d] = chOpen[d]
  BY <1>1 DEF CloseChannel, BrokerTypeOK
<1>7. NoLimbo'
  BY <1>3, <1>6, Zenon DEF ReceiveClosed, NoLimbo
<1>8. ShutdownWaits'
  BY <1>1 DEF ReceiveClosed, ShutdownWaits
<1> QED BY <1>2, <1>4, <1>5, <1>7, <1>8

\* A worker ends: its delivery is settled, or the server does not wait for it.
LEMMA WorkMoves ==
  ASSUME BrokerTypeOK, ConsumerInv, NEW c \in Conns, NEW m \in Msgs, WorkOk(c, m) \/ WorkFails(c, m)
  PROVE  ConsumerInv'
<1> USE DEF ConsumerInv
<1>1. /\ task' = [task EXCEPT ![c][m] = "none"]
      /\ UNCHANGED <<brokerVars, con, cch, sess, ctxDone, shut>>
      /\ owner' = IF Settles(c, m) THEN [owner EXCEPT ![m] = 0] ELSE owner
  BY DEF WorkOk, WorkFails
<1>2. task \in [Conns -> [Msgs -> TaskStates]] /\ "none" \in TaskStates
  BY DEF ConsumerTypeOK, TaskStates
<1>3. /\ task' \in [Conns -> [Msgs -> TaskStates]]
      /\ task'[c][m] = "none"
      /\ \A d \in Conns, n \in Msgs : d # c \/ n # m => task'[d][n] = task[d][n]
  BY <1>1, <1>2, TaskMoves
<1>4. ConsumerTypeOK'
  <2>1. CASE Settles(c, m)
    <3>1. c # 0 /\ srv[m] = "unacked"
      BY <2>1 DEF Settles, ConsumerTypeOK, Conns
    <3>2. redel' \in [Msgs -> BOOLEAN]
      BY <2>1, Zenon DEF WorkOk, WorkFails, ConsumerTypeOK
    <3>3. PICK s \in {"acked", "dropped", "queue"} : srv' = [srv EXCEPT ![m] = s]
      BY <2>1 DEF WorkOk, WorkFails
    <3> QED BY <1>1, <1>3, <2>1, <3>1, <3>2, <3>3 DEF ConsumerTypeOK, TaskStates
  <2>2. CASE ~Settles(c, m)
    BY <1>1, <1>3, <2>2 DEF WorkOk, WorkFails, ConsumerTypeOK, TaskStates
  <2> QED BY <2>1, <2>2
<1>5. \A n \in Msgs : owner'[n] \in {0, owner[n]} /\ (n = m /\ Settles(c, m) => owner'[n] = 0)
  BY <1>1 DEF ConsumerTypeOK
<1>6. ChannelsKnown'
  BY <1>1, <1>5, BrokerAssumption DEF ChannelsKnown, brokerVars, BrokerTypeOK, Conns
<1>7. NoLimbo'
  <2> SUFFICES ASSUME NEW n \in Msgs, NEW d \in Conns, owner'[n] = d, chOpen[d], ~ctxDone
               PROVE  task'[d][n] # "none"
    BY <1>1 DEF NoLimbo, brokerVars
  <2>1. d # 0 /\ owner[n] = d
    BY <1>5 DEF Conns
  <2>2. task[d][n] # "none"
    BY <2>1, Zenon DEF NoLimbo
  <2>3. d # c \/ n # m
    BY <1>5, <2>1 DEF Settles
  <2> QED BY <1>3, <2>2, <2>3
<1>8. ShutdownWaits'
  BY <1>1, <1>3, WorkingShrinks DEF ShutdownWaits
<1> QED BY <1>4, <1>6, <1>7, <1>8

\* The server delivers a message, or takes back those of a closed channel.
LEMMA ServerMoves ==
  ASSUME BrokerTypeOK, ConsumerInv, NEW m \in Msgs, Deliver(m) \/ Requeue(m)
  PROVE  ConsumerInv'
<1> USE DEF ConsumerInv
<1>1. CASE Requeue(m)
  <2>1. ConsumerTypeOK'
    BY <1>1 DEF Requeue, ConsumerTypeOK
  <2>2. ChannelsKnown' /\ NoLimbo' /\ ShutdownWaits'
    BY <1>1, BrokerAssumption
       DEF Requeue, ChannelsKnown, NoLimbo, ShutdownWaits, Working, brokerVars, ConsumerTypeOK,
           BrokerTypeOK, Conns
  <2> QED BY <2>1, <2>2
<1>2. CASE Deliver(m)
  <2>1. cch \in Conns /\ cch # 0
    BY <1>2 DEF Deliver, ChannelsKnown, ConsumerTypeOK
  <2>2. task \in [Conns -> [Msgs -> TaskStates]] /\ "wire" \in TaskStates
    BY DEF ConsumerTypeOK, TaskStates
  <2>3. /\ task' \in [Conns -> [Msgs -> TaskStates]]
        /\ task'[cch][m] = "wire"
        /\ \A d \in Conns, n \in Msgs : d # cch \/ n # m => task'[d][n] = task[d][n]
    BY <1>2, <2>1, <2>2, TaskMoves DEF Deliver
  <2>4. ConsumerTypeOK'
    BY <1>2, <2>1, <2>3, Zenon DEF Deliver, ConsumerTypeOK, TaskStates
  <2>5. ChannelsKnown'
    BY <1>2, Zenon DEF Deliver, ChannelsKnown, brokerVars, ConsumerTypeOK
  <2>6. NoLimbo'
    BY <1>2, <2>3 DEF Deliver, NoLimbo, brokerVars, ConsumerTypeOK
  <2>7. \A d \in Conns, n \in Msgs : task'[d][n] = "work" => task[d][n] = "work"
    BY <2>3
  <2>8. ShutdownWaits'
    BY <1>2, <2>7, WorkingShrinks DEF Deliver, ShutdownWaits
  <2> QED BY <2>4, <2>5, <2>6, <2>8
<1> QED BY <1>1, <1>2

LEMMA ConsumerMoves ==
  ASSUME BrokerTypeOK, ConsumerInv, ConsumerNext
  PROVE  BrokerTypeOK' /\ Closing /\ ConsumerInv'
<1>1. CASE ReceiveClosed
  BY <1>1, ClosedMoves
<1>2. CASE ~ReceiveClosed
  <2>1. UNCHANGED brokerVars
    BY <1>2, Zenon DEF ConsumerNext, LoopStep, LoopDone, LoopChannel, Consume, ReceiveDone, Receive,
       Dispatch, DispatchDone, Deliver, Requeue, WorkOk, WorkFails, Shutdown, ShutdownOk,
       ShutdownTimeout, ServerCancel
  <2>2. ConsumerInv'
    BY <1>2, LoopMoves, DeliveryMoves, WorkMoves, ServerMoves DEF ConsumerNext, LoopStep
  <2> QED BY <2>1, <2>2, StillCloses
<1> QED BY <1>1, <1>2

-----------------------------------------------------------------------------
(***************************************************************************)
(* The publisher                                                           *)
(***************************************************************************)
\* The attempts that are left fit below the bound on sends.
SendsFit ==
  /\ pub # "idle" => attempt \in 1..MaxRetries
  /\ pub \in {"ensure", "send"} => sent + (MaxRetries - attempt) + 1 <= MaxSends
  /\ pub \in {"wait", "backoff"} => sent + (MaxRetries - attempt) <= MaxSends

\* On a channel where no wait was given up, the only send without an answer, or the
\* only answer not read yet, is that of the send being waited for.
OneOutstanding ==
  ~gaveUp =>
    /\ pub = "wait" => \/ unconf = <<sent>> /\ confirms = <<>>
                       \/ /\ unconf = <<>>
                          /\ confirms \in {<<[id |-> sent, ack |-> a]>> : a \in BOOLEAN}
    /\ pub # "wait" /\ chOpen[pch] => unconf = <<>> /\ confirms = <<>>

\* nil is returned once, at the end of the call.
AnswerIsLast == pub # "idle" => answered = 0

PublisherInv ==
  PublisherTypeOK /\ pch \in 1..made /\ SendsFit /\ OneOutstanding /\ AnswerIsLast /\ NilIsOwn

LEMMA PublisherStands ==
  ASSUME BrokerTypeOK, PublisherInv, Closing, UNCHANGED publisherVars
  PROVE  PublisherInv'
<1> USE DEF PublisherInv, publisherVars
<1>1. PublisherTypeOK' /\ SendsFit' /\ AnswerIsLast' /\ NilIsOwn'
  BY DEF PublisherTypeOK, SendsFit, AnswerIsLast, NilIsOwn
<1>2. pch' \in 1..made'
  BY DEF Closing
<1>3. OneOutstanding'
  BY DEF Closing, OneOutstanding
<1> QED BY <1>1, <1>2, <1>3

LEMMA SendsSplit ==
  ASSUME NEW S, NEW q \in Seq(S), q # <<>>
  PROVE  Head(q) \in S /\ Tail(q) \in Seq(S)
  OBVIOUS

\* Another attempt leaves as much room for sends as the one before it.
LEMMA NextFits ==
  ASSUME NEW a \in 1..MaxRetries, NEW n \in 0..MaxSends, n + (MaxRetries - a) <= MaxSends, a < MaxRetries
  PROVE  a + 1 \in 1..MaxRetries /\ n + (MaxRetries - (a + 1)) + 1 <= MaxSends
  BY PublisherAssumption

LEMMA OnlySend == \A n : Head(<<n>>) = n /\ Tail(<<n>>) = <<>>
  OBVIOUS

LEMMA OneAnswer ==
  ASSUME NEW n \in 1..MaxSends, NEW ack \in BOOLEAN
  PROVE  <<[id |-> n, ack |-> ack]>> \in Seq(Answers) /\ Len(<<[id |-> n, ack |-> ack]>>) <= 1
  BY DEF Answers

LEMMA PublisherMoves ==
  ASSUME BrokerTypeOK, PublisherInv, Publish \/ PublishStep \/ \E ack \in BOOLEAN : ServerConfirms(ack)
  PROVE  PublisherInv'
<1> USE PublisherAssumption DEF PublisherInv
<1>0. UNCHANGED brokerVars
  BY Zenon DEF Publish, PublishStep, EnsureChannel, PublishWithContext, Confirmed, ConfirmClosed,
     ConfirmTimeout, ConfirmCancelled, Backoff, BackoffCancelled, ServerConfirms
<1> USE <1>0 DEF brokerVars
<1>1. CASE Publish
  BY <1>1 DEF Publish, PublisherTypeOK, SendsFit, OneOutstanding, AnswerIsLast, NilIsOwn
<1>2. CASE EnsureChannel
  <2>0. cur \in Conns /\ cur \in 1..made
    BY BrokerFacts, Zenon
  <2>1. PublisherTypeOK' /\ pch' \in 1..made'
    <3>1. /\ pub' \in {"send", "backoff"} /\ pch' \in {pch, cur} /\ gaveUp' \in {FALSE, gaveUp}
          /\ unconf' \in {<<>>, unconf} /\ confirms' \in {<<>>, confirms}
          /\ UNCHANGED <<brokerVars, attempt, sent, answered>>
      BY <1>2, Zenon DEF EnsureChannel, AttemptFails
    <3>2. unconf \in Seq(1..MaxSends) /\ confirms \in Seq(Answers) /\ Len(confirms) <= 1
      BY DEF PublisherTypeOK
    <3>3. unconf' \in Seq(1..MaxSends)
      <4>1. CASE unconf' = <<>>
        BY <4>1
      <4>2. CASE unconf' = unconf
        BY <3>2, <4>2
      <4> QED BY <3>1, <4>1, <4>2
    <3>4. confirms' \in Seq(Answers) /\ Len(confirms') <= 1
      <4>1. CASE confirms' = <<>>
        BY <4>1
      <4>2. CASE confirms' = confirms
        BY <3>2, <4>2
      <4> QED BY <3>1, <4>1, <4>2
    <3> QED BY <2>0, <3>1, <3>3, <3>4, Zenon DEF PublisherTypeOK
  <2>2. SendsFit' /\ AnswerIsLast' /\ NilIsOwn'
    BY <1>2 DEF EnsureChannel, AttemptFails, PublisherTypeOK, SendsFit, AnswerIsLast, NilIsOwn
  <2>3. OneOutstanding'
    BY <1>2, Zenon DEF EnsureChannel, AttemptFails, OneOutstanding
  <2> QED BY <2>1, <2>2, <2>3
<1>3. CASE PublishWithContext
  <2>1. CASE chOpen[pch]
    <3>1. sent + 1 \in 1..MaxSends /\ sent' = sent + 1 /\ unconf' = Append(unconf, sent + 1) /\ pub' = "wait"
      BY <1>3, <2>1 DEF PublishWithContext, PublisherTypeOK, SendsFit
    <3>2. PublisherTypeOK' /\ pch' \in 1..made'
      BY <1>3, <3>1 DEF PublishWithContext, PublisherTypeOK
    <3>3. SendsFit' /\ AnswerIsLast' /\ NilIsOwn'
      BY <1>3, <3>1 DEF PublishWithContext, PublisherTypeOK, SendsFit, AnswerIsLast, NilIsOwn
    <3>4. ~gaveUp => unconf' = <<sent'>> /\ confirms' = <<>>
      BY <1>3, <2>1, <3>1 DEF PublishWithContext, OneOutstanding, PublisherTypeOK
    <3> QED BY <1>3, <3>1, <3>2, <3>3, <3>4, Zenon DEF PublishWithContext, OneOutstanding
  <2>2. CASE ~chOpen[pch]
    <3>1. pub = "send" /\ pub' = "backoff" /\ UNCHANGED <<attempt, pch, sent, unconf, confirms, gaveUp, answered>>
      BY <1>3, <2>2, Zenon DEF PublishWithContext, AttemptFails
    <3>2. SendsFit'
      BY <3>1 DEF PublisherTypeOK, SendsFit
    <3>3. PublisherTypeOK' /\ pch' \in 1..made'
      BY <3>1, Zenon DEF PublisherTypeOK
    <3>4. OneOutstanding' /\ AnswerIsLast' /\ NilIsOwn'
      BY <2>2, <3>1, Zenon DEF OneOutstanding, AnswerIsLast, NilIsOwn
    <3> QED BY <3>2, <3>3, <3>4, Zenon
  <2> QED BY <2>1, <2>2
<1>4. CASE Confirmed
  <2>1. Head(confirms) \in Answers
    BY <1>4 DEF Confirmed, PublisherTypeOK
  <2>2. PublisherTypeOK' /\ pch' \in 1..made'
    BY <1>4, <2>1 DEF Confirmed, AttemptFails, PublisherTypeOK, Answers
  <2>3. ~gaveUp => unconf = <<>> /\ Head(confirms).id = sent
    BY <1>4 DEF Confirmed, OneOutstanding
  <2>4. SendsFit' /\ AnswerIsLast' /\ NilIsOwn'
    BY <1>4, <2>3, Zenon DEF Confirmed, AttemptFails, PublisherTypeOK, SendsFit, AnswerIsLast, NilIsOwn
  <2>5. OneOutstanding'
    BY <1>4, <2>3, Zenon DEF Confirmed, AttemptFails, OneOutstanding
  <2> QED BY <2>2, <2>4, <2>5
<1>5. CASE ConfirmClosed \/ ConfirmTimeout \/ ConfirmCancelled
  <2>1. PublisherTypeOK' /\ pch' \in 1..made'
    BY <1>5, Zenon DEF ConfirmClosed, ConfirmTimeout, ConfirmCancelled, AttemptFails, PublisherTypeOK
  <2>2. SendsFit' /\ AnswerIsLast' /\ NilIsOwn'
    BY <1>5, Zenon DEF ConfirmClosed, ConfirmTimeout, ConfirmCancelled, AttemptFails, PublisherTypeOK,
       SendsFit, AnswerIsLast, NilIsOwn
  <2>3. OneOutstanding'
    BY <1>5, Zenon DEF ConfirmClosed, ConfirmTimeout, ConfirmCancelled, AttemptFails, OneOutstanding
  <2> QED BY <2>1, <2>2, <2>3
<1>6. CASE Backoff \/ BackoffCancelled
  <2>1. /\ pub = "backoff" /\ pub' \in {"ensure", "idle"}
        /\ UNCHANGED <<pch, sent, unconf, confirms, gaveUp, answered>>
    BY <1>6, Zenon DEF Backoff, BackoffCancelled
  <2>2. attempt' \in 0..MaxRetries /\ SendsFit'
    <3>1. /\ attempt \in 0..MaxRetries /\ sent \in 0..MaxSends
          /\ attempt \in 1..MaxRetries /\ sent + (MaxRetries - attempt) <= MaxSends
      BY <2>1, Zenon DEF PublisherTypeOK, SendsFit
    <3>2. CASE pub' = "idle"
      BY <1>6, <3>1, <3>2, Zenon DEF Backoff, BackoffCancelled, SendsFit
    <3>3. CASE pub' = "ensure"
      <4>1. attempt < MaxRetries /\ attempt' = attempt + 1
        BY <1>6, <3>3, Zenon DEF Backoff, BackoffCancelled
      <4>2. attempt' \in 1..MaxRetries /\ sent + (MaxRetries - attempt') + 1 <= MaxSends
        BY <3>1, <4>1, NextFits, Zenon
      <4>3. attempt' \in 0..MaxRetries
        BY <4>2
      <4> QED BY <2>1, <3>3, <4>2, <4>3, Zenon DEF SendsFit
    <3> QED BY <2>1, <3>2, <3>3, Zenon
  <2>3. PublisherTypeOK' /\ pch' \in 1..made'
    BY <2>1, <2>2, Zenon DEF PublisherTypeOK
  <2>4. OneOutstanding'
    BY <2>1, Zenon DEF OneOutstanding
  <2>5. AnswerIsLast' /\ NilIsOwn'
    BY <2>1, Zenon DEF AnswerIsLast, NilIsOwn
  <2> QED BY <2>2, <2>3, <2>4, <2>5, Zenon
<1>7. ASSUME NEW ack \in BOOLEAN, ServerConfirms(ack) PROVE PublisherInv'
  <2>0. unconf # <<>> /\ unconf \in Seq(1..MaxSends)
    BY <1>7, Zenon DEF ServerConfirms, PublisherTypeOK
  <2>1. Head(unconf) \in 1..MaxSends /\ Tail(unconf) \in Seq(1..MaxSends)
    BY <2>0, SendsSplit, Zenon
  <2>2. PublisherTypeOK' /\ pch' \in 1..made'
    <3>1. confirms' \in Seq(Answers) /\ Len(confirms') <= 1
      BY <1>7, <2>1, OneAnswer, Zenon DEF ServerConfirms
    <3> QED BY <1>7, <2>1, <3>1, Zenon DEF ServerConfirms, PublisherTypeOK
  <2>3. SendsFit' /\ AnswerIsLast' /\ NilIsOwn'
    BY <1>7, Zenon DEF ServerConfirms, SendsFit, AnswerIsLast, NilIsOwn
  <2>4. ~gaveUp => pub = "wait" /\ unconf = <<sent>>
    BY <1>7, Zenon DEF ServerConfirms, OneOutstanding
  <2>5. OneOutstanding'
    <3>1. ~gaveUp => Head(unconf) = sent /\ Tail(unconf) = <<>>
      BY <2>4, OnlySend, Zenon
    <3> QED BY <1>7, <2>4, <3>1, Zenon DEF ServerConfirms, OneOutstanding
  <2> QED BY <2>2, <2>3, <2>5
<1> QED BY <1>1, <1>2, <1>3, <1>4, <1>5, <1>6, <1>7 DEF PublishStep

-----------------------------------------------------------------------------
(***************************************************************************)
(* The topology                                                            *)
(***************************************************************************)
\* What was asked over connection c is at the server, or went with c.
Kept(e, c) ==
  \/ Fleeting(e) /\ ~connOpen[c]
  \/ e \in topo /\ (Fleeting(e) => qconn = c)

\* The requests a call may still have to make.
Plans == {<<>>, <<"x">>, <<"x>y">>, <<"q">>, <<"x>q">>, <<"q", "x>q">>}

\* What the call in progress has still to request, or waits for.
Pending == {setup.todo[k] : k \in {k \in DOMAIN setup.todo : k > 1 \/ ~setup.sent}}

SetupInv ==
  /\ SetupTypeOK
  /\ setup.todo \in Plans /\ (setup.sent => setup.todo # <<>>)
  /\ setup.ch \in 1..made /\ qconn \in 1..made /\ promised.ch \in 1..made
  /\ "x>q" \in topo => "q" \in topo \cup foreign
  /\ \A e \in setup.asked : e \in Pending \/ Kept(e, setup.ch)
  /\ \A e \in promised.asked : Kept(e, promised.ch)

LEMMA KeptHolds ==
  ASSUME SetupInv PROVE DeclaredHolds
  BY DEF SetupInv, DeclaredHolds, Kept, Exists, SetupTypeOK

\* Connections that close take with them only what is fleeting.
LEMMA KeptStands ==
  ASSUME Closing, UNCHANGED <<topo, qconn, foreign, exclusive>>, NEW e, NEW c \in 1..made, Kept(e, c)
  PROVE  Kept(e, c)'
  BY DEF Kept, Fleeting, Closing

LEMMA SetupStands ==
  ASSUME BrokerTypeOK, SetupInv, Closing, UNCHANGED setupVars
  PROVE  SetupInv'
<1> USE DEF SetupInv, setupVars
<1>1. SetupTypeOK'
  BY Zenon DEF SetupTypeOK
<1>2. setup.ch \in 1..made' /\ qconn \in 1..made' /\ promised.ch \in 1..made'
  BY ClosingGrows, Zenon
<1>3. \A e \in setup.asked : e \in Pending' \/ Kept(e, setup.ch)'
  BY KeptStands, Zenon DEF Pending
<1>4. \A e \in promised.asked : Kept(e, promised.ch)'
  BY KeptStands, Zenon
<1> QED BY <1>1, <1>2, <1>3, <1>4, Zenon

\* A request that the server takes undoes nothing that was kept.
LEMMA KeptThroughRequest ==
  ASSUME SetupInv, BrokerTypeOK, NEW r \in Entities, NEW c \in 1..made, connOpen[c], Accepts(r, c),
         topo' = IF r = "q" /\ ~Exists("q") THEN (topo \ {"x>q"}) \cup {"q"} ELSE topo \cup {r},
         qconn' = IF r = "q" THEN c ELSE qconn,
         UNCHANGED <<connOpen, foreign, exclusive>>,
         NEW e \in Entities, NEW d \in 1..made, Kept(e, d)
  PROVE  Kept(e, d)'
<1>1. CASE Fleeting(e) /\ ~connOpen[d]
  BY <1>1, Zenon DEF Kept, Fleeting
<1>2. CASE ~Fleeting(e) /\ e \in topo
  BY <1>2 DEF Kept, Fleeting, Accepts, Exists, SetupInv, Entities
<1>3. CASE Fleeting(e) /\ connOpen[d] /\ e \in topo /\ qconn = d
  <2>1. Exists("q") /\ exclusive
    BY <1>3, Zenon DEF Exists, Fleeting, SetupInv
  <2>2. r = "q" => qconn = c
    BY <2>1 DEF Accepts
  <2> QED BY <1>3, <2>1, <2>2, Zenon DEF Kept, Fleeting
<1> QED BY <1>1, <1>2, <1>3, Zenon DEF Kept

\* And what it asks for is kept from then on.
LEMMA KeptAfterRequest ==
  ASSUME SetupInv, NEW r \in Entities, NEW c \in 1..made, connOpen[c], Accepts(r, c),
         topo' = IF r = "q" /\ ~Exists("q") THEN (topo \ {"x>q"}) \cup {"q"} ELSE topo \cup {r},
         qconn' = IF r = "q" THEN c ELSE qconn,
         UNCHANGED <<connOpen, foreign, exclusive>>
  PROVE  Kept(r, c)'
  BY Zenon DEF Kept, Fleeting, Accepts, Entities

LEMMA PlansTyped ==
  \A plan \in Plans : /\ plan \in Seq(Entities)
                      /\ \A k \in DOMAIN plan : plan[k] \in Entities
                      /\ Len(plan) > 1 => plan = <<"q", "x>q">>
<1> USE DEF Entities
<1>1. <<>> \in Seq(Entities) /\ Len(<<>>) = 0 /\ DOMAIN <<>> = {}
  OBVIOUS
<1>2. \A e \in Entities : <<e>> \in Seq(Entities) /\ Len(<<e>>) = 1 /\ DOMAIN <<e>> = {1} /\ <<e>>[1] = e
  OBVIOUS
<1>3. LET p == <<"q", "x>q">> IN p \in Seq(Entities) /\ \A k \in DOMAIN p : p[k] \in Entities
  OBVIOUS
<1> SUFFICES ASSUME NEW plan \in Plans
             PROVE  /\ plan \in Seq(Entities)
                    /\ \A k \in DOMAIN plan : plan[k] \in Entities
                    /\ Len(plan) > 1 => plan = <<"q", "x>q">>
  OBVIOUS
<1>4. CASE plan = <<>>
  BY <1>1, <1>4
<1>5. CASE \E e \in Entities : plan = <<e>>
  BY <1>2, <1>5
<1>6. CASE plan = <<"q", "x>q">>
  BY <1>3, <1>6
<1> QED BY <1>4, <1>5, <1>6 DEF Plans

\* A call begins, goes on with its next request, or ends.
LEMMA CallBegins ==
  ASSUME BrokerTypeOK, SetupInv, NEW plan \in Plans \ {<<>>}, NEW wait \in BOOLEAN, Begin(plan, wait)
  PROVE  SetupInv' /\ UNCHANGED brokerVars
<1> USE DEF SetupInv, Begin
<1>1. plan \in Seq(Entities) /\ {plan[k] : k \in DOMAIN plan} \in SUBSET Entities
  BY PlansTyped, Zenon
<1>2. cur \in Conns /\ cur \in 1..made
  BY BrokerFacts, Zenon
<1>3. SetupTypeOK'
  BY <1>1, <1>2, Zenon DEF SetupTypeOK
<1>4. setup'.asked = Pending'
  BY Zenon DEF Pending
<1>5. \A e \in promised.asked : Kept(e, promised.ch)'
  BY Zenon DEF Kept, Fleeting, brokerVars
<1> QED BY <1>2, <1>3, <1>4, <1>5, Zenon DEF brokerVars

LEMMA NoCallTyped ==
  ASSUME 1 \in Conns
  PROVE  NoCall \in [todo : Seq(Entities), asked : SUBSET Entities, sent : BOOLEAN,
                     ch : Conns, wait : BOOLEAN]
  BY DEF NoCall

LEMMA CallFails ==
  ASSUME BrokerTypeOK, SetupInv, Fail, Closing, UNCHANGED <<topo, qconn, foreign, exclusive, promised>>
  PROVE  SetupInv'
<1> USE DEF SetupInv
<1>1. SetupTypeOK'
  <2>1. NoCall \in [todo : Seq(Entities), asked : SUBSET Entities, sent : BOOLEAN,
                    ch : Conns, wait : BOOLEAN]
    BY BrokerFacts, NoCallTyped, Zenon
  <2> QED BY <2>1, Zenon DEF Fail, SetupTypeOK
<1>2. 1 \in 1..made' /\ qconn' \in 1..made' /\ promised'.ch \in 1..made'
  <2>1. \A c \in 1..made : c \in 1..made'
    BY ClosingGrows, Zenon
  <2> QED BY <2>1, BrokerFacts, Zenon
<1>3. \A e \in promised.asked : Kept(e, promised.ch)'
  BY KeptStands, Zenon
<1> QED BY <1>1, <1>2, <1>3, Zenon DEF Fail, NoCall, Plans

LEMMA RequestMoves ==
  ASSUME BrokerTypeOK, SetupInv, Request
  PROVE  BrokerTypeOK' /\ Closing /\ SetupInv'
<1> PICK e, c : e = Head(setup.todo) /\ c = setup.ch
  OBVIOUS
<1>0. c \in Conns /\ c \in 1..made /\ setup.todo # <<>> /\ ~setup.sent
  BY DEF Request, SetupInv, SetupTypeOK
<1>1. CASE ~chOpen[c]
  <2>1. UNCHANGED <<brokerVars, topo, qconn, foreign, exclusive, promised>> /\ Fail
    BY <1>1 DEF Request
  <2> QED BY <2>1, StillCloses, CallFails
<1>2. CASE chOpen[c] /\ ~Accepts(e, c)
  <2>1. UNCHANGED <<topo, qconn, foreign, exclusive, promised>> /\ Fail /\ CloseChannel(c)
    BY <1>2 DEF Request
  <2> QED BY <1>0, <2>1, ChannelCloses, CallFails, Zenon
<1>3. CASE chOpen[c] /\ Accepts(e, c)
  <2>1. /\ setup' = [setup EXCEPT !.sent = TRUE]
        /\ topo' = IF e = "q" /\ ~Exists("q") THEN (topo \ {"x>q"}) \cup {"q"} ELSE topo \cup {e}
        /\ qconn' = IF e = "q" THEN c ELSE qconn
        /\ UNCHANGED <<brokerVars, foreign, exclusive, promised>>
    BY <1>3 DEF Request
  <2>2. e \in Entities /\ connOpen[c] /\ UNCHANGED connOpen
    BY <1>0, <1>3, <2>1, PlansTyped DEF SetupInv, BrokerTypeOK, brokerVars
  <2>3. SetupTypeOK'
    BY <1>0, <2>1, <2>2, Zenon DEF SetupInv, SetupTypeOK, Entities
  <2>4. Pending \ {e} \subseteq Pending'
    BY <1>0, <2>1 DEF Pending, SetupInv, SetupTypeOK
  <2>5. \A f \in Entities, d \in 1..made : Kept(f, d) => Kept(f, d)'
    BY <1>0, <1>3, <2>1, <2>2, KeptThroughRequest, Zenon
  <2>6. Kept(e, c)'
    BY <1>0, <1>3, <2>1, <2>2, KeptAfterRequest, Zenon
  <2>7. \A f \in setup.asked : f \in Pending' \/ Kept(f, c)'
    BY <1>0, <2>4, <2>5, <2>6, Zenon DEF SetupInv, SetupTypeOK
  <2>8. \A f \in promised.asked : Kept(f, promised.ch)'
    BY <2>1, <2>5 DEF SetupInv, SetupTypeOK
  <2>9. /\ setup'.todo = setup.todo /\ setup'.asked = setup.asked /\ setup'.ch = c
        /\ qconn' \in 1..made /\ ("x>q" \in topo' => "q" \in topo' \cup foreign)
    BY <1>0, <1>3, <2>1, Zenon DEF SetupInv, SetupTypeOK, Accepts, Exists
  <2>10. SetupInv'
    BY <1>0, <2>1, <2>3, <2>7, <2>8, <2>9 DEF SetupInv, brokerVars
  <2> QED BY <2>1, <2>10, StillCloses
<1> QED BY <1>1, <1>2, <1>3

LEMMA AnswerMoves ==
  ASSUME BrokerTypeOK, SetupInv, Answer
  PROVE  SetupInv' /\ UNCHANGED brokerVars
<1>0. UNCHANGED <<brokerVars, topo, qconn, foreign, exclusive>> /\ setup.sent /\ setup.todo # <<>>
  BY DEF Answer, SetupInv
<1>1. CASE ~chOpen[setup.ch]
  BY <1>0, <1>1, StillCloses, CallFails DEF Answer
<1>2. CASE chOpen[setup.ch] /\ Len(setup.todo) > 1
  <2>1. setup' = [setup EXCEPT !.todo = Tail(@), !.sent = FALSE] /\ UNCHANGED promised
    BY <1>2 DEF Answer
  <2>2. setup.todo = <<"q", "x>q">>
    BY <1>2, PlansTyped, Zenon DEF SetupInv
  <2>3. setup'.todo = <<"x>q">> /\ ~setup'.sent /\ setup'.asked = setup.asked /\ setup'.ch = setup.ch
    BY <2>1, <2>2 DEF SetupInv, SetupTypeOK
  <2>4. SetupTypeOK'
    <3>1. setup'.todo \in Seq(Entities)
      BY <2>3, PlansTyped DEF Plans
    <3> QED BY <1>0, <2>1, <2>3, <3>1, Zenon DEF SetupInv, SetupTypeOK
  <2>5. Pending \subseteq {"x>q"} /\ "x>q" \in Pending'
    BY <1>0, <2>2, <2>3 DEF Pending
  <2>6. \A f, d : Kept(f, d)' <=> Kept(f, d)
    BY <1>0, Zenon DEF Kept, Fleeting, brokerVars
  <2> QED BY <1>0, <2>1, <2>3, <2>4, <2>5, <2>6 DEF SetupInv, Plans, brokerVars
<1>3. CASE chOpen[setup.ch] /\ ~(Len(setup.todo) > 1)
  <2>1. /\ setup' = NoCall
        /\ promised' = [asked |-> IF setup.wait THEN setup.asked ELSE {}, ch |-> setup.ch]
    BY <1>3 DEF Answer
  <2>2. Pending = {}
    <3>1. setup.todo \in Plans
      BY Zenon DEF SetupInv
    <3>2. \A k \in DOMAIN setup.todo : ~(k > 1)
      BY <1>3, <3>1 DEF Plans
    <3> QED BY <1>0, <3>2, Zenon DEF Pending
  <2>3. \A f, d : Kept(f, d)' <=> Kept(f, d)
    BY <1>0, Zenon DEF Kept, Fleeting, brokerVars
  <2>4. 1 \in 1..made /\ NoCall \in [todo : Seq(Entities), asked : SUBSET Entities, sent : BOOLEAN,
                                      ch : Conns, wait : BOOLEAN]
    BY BrokerFacts, NoCallTyped, Zenon
  <2>5. promised' \in [asked : SUBSET Entities, ch : Conns]
    <3>1. setup.asked \in SUBSET Entities /\ setup.ch \in Conns
      BY Zenon DEF SetupInv, SetupTypeOK
    <3> QED BY <2>1, <3>1, Zenon
  <2>6. SetupTypeOK'
    BY <1>0, <2>1, <2>4, <2>5, Zenon DEF SetupInv, SetupTypeOK
  <2>7. /\ setup'.todo = <<>> /\ ~setup'.sent /\ setup'.asked = {} /\ setup'.ch = 1
        /\ promised'.ch = setup.ch /\ promised'.asked \subseteq setup.asked
    BY <2>1, Zenon DEF NoCall
  <2> QED BY <1>0, <2>2, <2>3, <2>4, <2>6, <2>7, Zenon DEF SetupInv, Plans, brokerVars
<1> QED BY <1>1, <1>2, <1>3

LEMMA SetupMoves ==
  ASSUME BrokerTypeOK, SetupInv, SetupNext
  PROVE  BrokerTypeOK' /\ Closing /\ SetupInv'
<1>1. CASE Request
  BY <1>1, RequestMoves
<1>2. CASE Answer
  BY <1>2, AnswerMoves, StillCloses
<1>3. CASE \E plan \in Plans \ {<<>>}, wait \in BOOLEAN : Begin(plan, wait)
  BY <1>3, CallBegins, StillCloses
<1>4. ASSUME NEW b \in BOOLEAN, DeclareExchange \/ BindExchange(b) \/ DeclareQueue(b) \/ BindQueue(b)
      PROVE  \E plan \in Plans \ {<<>>}, wait \in BOOLEAN : Begin(plan, wait)
  <2>1. \A plan \in {<<"x">>, <<"x>y">>, <<"q">>, <<"x>q">>, <<"q", "x>q">>} : plan \in Plans \ {<<>>}
    BY DEF Plans
  <2> QED BY <1>4, <2>1, Zenon DEF DeclareExchange, BindExchange, DeclareQueue, BindQueue
<1> QED BY <1>1, <1>2, <1>3, <1>4, Zenon DEF SetupNext, SetupStep

-----------------------------------------------------------------------------
(***************************************************************************)
(* The whole                                                               *)
(***************************************************************************)
RabbitInv == BrokerTypeOK /\ ConsumerInv /\ PublisherInv /\ SetupInv

LEMMA RabbitInit == Init => RabbitInv
<1> SUFFICES ASSUME Init PROVE RabbitInv
  OBVIOUS
<1> USE BrokerAssumption DEF Init
<1>2. made = 1 /\ 1 \in Conns
  BY DEF BrokerInit, Conns
<1>1. BrokerTypeOK
  <2>1. connOpen \in [Conns -> BOOLEAN] /\ chOpen \in [Conns -> BOOLEAN] /\ connOpen = chOpen
    BY DEF BrokerInit
  <2>2. watch \in [Conns -> WatchPc]
    BY DEF BrokerInit, WatchPc
  <2>3. up \in BOOLEAN /\ reconnecting \in BOOLEAN /\ done \in BOOLEAN /\ prompt \in BOOLEAN
    BY Zenon DEF BrokerInit
  <2>4. made \in Conns /\ cur \in 1..made
    BY <1>2 DEF BrokerInit
  <2> QED BY <2>1, <2>2, <2>3, <2>4 DEF BrokerTypeOK
<1>3. ConsumerTypeOK
  BY <1>2, Zenon DEF ConsumerInit, ConsumerTypeOK
<1>4. ChannelsKnown /\ NoLimbo /\ ShutdownWaits
  BY <1>2 DEF ConsumerInit, ChannelsKnown, NoLimbo, ShutdownWaits, Conns
<1>5. PublisherTypeOK
  <2>1. unconf \in Seq(1..MaxSends) /\ confirms \in Seq(Answers) /\ Len(confirms) <= 1
    BY DEF PublisherInit
  <2>2. pub = "idle" /\ pch \in Conns /\ gaveUp \in BOOLEAN
    BY <1>2, Zenon DEF PublisherInit
  <2>4. attempt \in 0..MaxRetries
    BY PublisherAssumption DEF PublisherInit
  <2>3. sent \in 0..MaxSends /\ answered \in 0..MaxSends
    BY PublisherAssumption DEF PublisherInit
  <2> QED BY <2>1, <2>2, <2>3, <2>4 DEF PublisherTypeOK
<1>6. pch \in 1..made /\ SendsFit /\ OneOutstanding /\ AnswerIsLast /\ NilIsOwn
  BY <1>2 DEF PublisherInit, SendsFit, OneOutstanding, AnswerIsLast, NilIsOwn
<1>7. SetupTypeOK
  BY <1>2, NoCallTyped, Zenon DEF SetupInit, SetupTypeOK
<1>8. SetupInv
  BY <1>2, <1>7 DEF SetupInit, SetupInv, NoCall, Plans
<1> QED BY <1>1, <1>3, <1>4, <1>5, <1>6, <1>8 DEF RabbitInv, ConsumerInv, PublisherInv

LEMMA RabbitStep == RabbitInv /\ [Next]_vars => RabbitInv'
<1> SUFFICES ASSUME RabbitInv, [Next]_vars PROVE RabbitInv'
  OBVIOUS
<1> USE DEF RabbitInv
<1>1. CASE \E c \in Conns : Broking(WatchStep(c))
  BY <1>1, WatchCloses, ConsumerStands, PublisherStands, SetupStands DEF Broking
<1>2. CASE Broking(Environment)
  BY <1>2, EnvironmentCloses, ConsumerStands, PublisherStands, SetupStands, Zenon DEF Broking
<1>3. CASE Consuming(ConsumerNext)
  BY <1>3, ConsumerMoves, PublisherStands, SetupStands DEF Consuming
<1>4. CASE Publishing(PublisherNext)
  <2>1. UNCHANGED <<consumerVars, setupVars>> /\ PublisherNext
    BY <1>4 DEF Publishing
  <2>2. CASE PublisherClose
    <3>1. BrokerTypeOK' /\ Closing /\ UNCHANGED publisherVars
      BY <2>2, ChannelCloses DEF PublisherClose, PublisherInv, PublisherTypeOK
    <3> QED BY <2>1, <3>1, ConsumerStands, PublisherStands, SetupStands
  <2>3. CASE Publish \/ PublishStep \/ \E ack \in BOOLEAN : ServerConfirms(ack)
    <3>1. UNCHANGED brokerVars
      BY <2>3, Zenon DEF Publish, PublishStep, EnsureChannel, PublishWithContext, Confirmed, ConfirmClosed,
         ConfirmTimeout, ConfirmCancelled, Backoff, BackoffCancelled, ServerConfirms
    <3> QED BY <2>1, <2>3, <3>1, StillCloses, PublisherMoves, ConsumerStands, SetupStands
  <2> QED BY <2>1, <2>2, <2>3 DEF PublisherNext
<1>5. CASE Declaring(SetupNext)
  BY <1>5, SetupMoves, ConsumerStands, PublisherStands DEF Declaring
<1>6. CASE UNCHANGED vars
  BY <1>6, StillCloses, ConsumerStands, PublisherStands, SetupStands, Zenon DEF vars
<1> QED BY <1>1, <1>2, <1>3, <1>4, <1>5, <1>6, Zenon DEF Next

LEMMA RabbitInvariant == Spec => []RabbitInv
  BY RabbitInit, RabbitStep, PTL DEF Spec

\* The variables keep their types; in particular an unacked message has the channel it
\* was delivered on, and at most one confirmation waits in NotifyPublish's channel.
THEOREM RabbitTyped == Spec => []TypeOK
<1>1. RabbitInv => TypeOK
  BY Zenon DEF RabbitInv, ConsumerInv, PublisherInv, SetupInv, TypeOK
<1> QED BY <1>1, RabbitInvariant, PTL

\* processMessage and consumeLoop: a delivery that the server waits for is in
\* somebody's hands until the consumer is told to stop.
THEOREM ConsumerNoLimbo == Spec => []NoLimbo
<1>1. RabbitInv => NoLimbo
  BY DEF RabbitInv, ConsumerInv
<1> QED BY <1>1, RabbitInvariant, PTL

\* MessageConsumer.Shutdown returns nil only when the loop and all workers have
\* returned, those of earlier channels included.
THEOREM ConsumerShutdownWaits == Spec => []ShutdownWaits
<1>1. RabbitInv => ShutdownWaits
  BY DEF RabbitInv, ConsumerInv
<1> QED BY <1>1, RabbitInvariant, PTL

\* The nil of Publish is the server's acknowledgement of this call's message, and the
\* nil of a Declare or Bind is true at the server, whatever became of the connection.
THEOREM RabbitNilIsTrue == Spec => []NilIsTrue
<1>1. RabbitInv => NilIsTrue
  BY KeptHolds DEF RabbitInv, PublisherInv, NilIsTrue
<1> QED BY <1>1, RabbitInvariant, PTL
=============================================================================
