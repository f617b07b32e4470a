--------------------------- MODULE RabbitConsumer ---------------------------
(***************************************************************************)
(* MessageConsumer of infra/pubsub/rabbitmq/consumer.go: consumeLoop,      *)
(* consumeMessages, processMessage and Shutdown, on the channel shared     *)
(* through the Connection.                                                 *)
(*                                                                         *)
(* srv[m] is the server's view of a message.  task[c][m] is the client's   *)
(* delivery of m on channel c: on the wire, taken by the loop, or in a     *)
(* worker; a message that the server delivers again on another channel can *)
(* be in two tasks.                                                        *)
(***************************************************************************)
EXTENDS RabbitBroker

CONSTANTS
  Msgs,
  MaxWorkers    \* ConsumerConfig.MaxWorkers

ASSUME ConsumerAssumption == MaxWorkers \in Nat \ {0}

VARIABLES
  con,        \* program counter of consumeLoop and consumeMessages
  cch,        \* the channel it got
  sess,       \* the server delivers to the loop's msgs
  ctxDone,    \* the consumer's context is cancelled
  shut,       \* Shutdown: "no", "waiting", "ok" or "timeout"
  srv,
  owner,      \* the channel on which an unacked message was delivered, or 0
  redel,      \* Delivery.Redelivered of the delivery that can still be settled
  task

consumerVars == <<con, cch, sess, ctxDone, shut, srv, owner, redel, task>>

ConsumerTypeOK ==
  /\ con \in {"loop", "consume", "recv", "sem", "ended"}
  /\ cch \in Conns \cup {0}
  /\ sess \in BOOLEAN /\ ctxDone \in BOOLEAN
  /\ shut \in {"no", "waiting", "ok", "timeout"}
  /\ srv \in [Msgs -> {"queue", "unacked", "acked", "dropped"}]
  /\ owner \in [Msgs -> Conns \cup {0}]
  /\ \A m \in Msgs : srv[m] = "unacked" <=> owner[m] # 0
  /\ redel \in [Msgs -> BOOLEAN]
  /\ task \in [Conns -> [Msgs -> {"none", "wire", "taken", "work"}]]

\* Start was called.
ConsumerInit ==
  /\ con = "loop" /\ cch = 0 /\ sess = FALSE
  /\ ctxDone = FALSE /\ shut = "no"
  /\ srv = [m \in Msgs |-> "queue"]
  /\ owner = [m \in Msgs |-> 0]
  /\ redel = [m \in Msgs |-> FALSE]
  /\ task = [c \in Conns |-> [m \in Msgs |-> "none"]]

\* The workers that hold a place of workerSem.
Working == {w \in Conns \X Msgs : task[w[1]][w[2]] = "work"}

-----------------------------------------------------------------------------
(***************************************************************************)
(* consumeLoop                                                             *)
(***************************************************************************)
LoopDone ==
  /\ con = "loop"
  /\ ctxDone
  /\ con' = "ended"
  /\ UNCHANGED <<brokerVars, cch, sess, ctxDone, shut, srv, owner, redel, task>>

\* Without a channel the loop sleeps and tries again.
LoopChannel ==
  /\ con = "loop"
  /\ ~ctxDone
  /\ Available
  /\ con' = "consume"
  /\ cch' = cur
  /\ UNCHANGED <<brokerVars, sess, ctxDone, shut, srv, owner, redel, task>>

\* Where Consume fails, the channel is closed already.
Consume ==
  /\ con = "consume"
  /\ con' = IF chOpen[cch] THEN "recv" ELSE "loop"
  /\ sess' = chOpen[cch]
  /\ UNCHANGED <<brokerVars, cch, ctxDone, shut, srv, owner, redel, task>>

Receive(m) ==
  /\ con = "recv"
  /\ task[cch][m] = "wire"
  /\ task' = [task EXCEPT ![cch][m] = "taken"]
  /\ con' = "sem"
  /\ UNCHANGED <<brokerVars, cch, sess, ctxDone, shut, srv, owner, redel>>

\* msgs is closed: with the channel, when deliveries on the wire are discarded, or
\* because the server cancelled the consumer, after they were received.  The loop
\* closes the shared channel.
ReceiveClosed ==
  /\ con = "recv"
  /\ \/ ~chOpen[cch]
     \/ ~sess /\ \A m \in Msgs : task[cch][m] # "wire"
  /\ task' = [task EXCEPT ![cch] = [m \in Msgs |-> IF @[m] = "wire" THEN "none" ELSE @[m]]]
  /\ sess' = FALSE
  /\ con' = "loop"
  /\ CloseChannel(cch)
  /\ UNCHANGED <<cch, ctxDone, shut, srv, owner, redel>>

ReceiveDone ==
  /\ con = "recv"
  /\ ctxDone
  /\ con' = "loop"
  /\ UNCHANGED <<brokerVars, cch, sess, ctxDone, shut, srv, owner, redel, task>>

\* The loop has a place in workerSem and starts processMessage.
Dispatch(m) ==
  /\ con = "sem"
  /\ task[cch][m] = "taken"
  /\ Cardinality(Working) < MaxWorkers
  /\ task' = [task EXCEPT ![cch][m] = "work"]
  /\ con' = "recv"
  /\ UNCHANGED <<brokerVars, cch, sess, ctxDone, shut, srv, owner, redel>>

\* The context ends while the loop waits for a place: the delivery is forgotten.
DispatchDone(m) ==
  /\ con = "sem"
  /\ task[cch][m] = "taken"
  /\ ctxDone
  /\ task' = [task EXCEPT ![cch][m] = "none"]
  /\ con' = "loop"
  /\ UNCHANGED <<brokerVars, cch, sess, ctxDone, shut, srv, owner, redel>>

LoopStep ==
  \/ LoopDone \/ LoopChannel \/ Consume \/ ReceiveClosed \/ ReceiveDone
  \/ \E m \in Msgs : Receive(m) \/ Dispatch(m) \/ DispatchDone(m)

(***************************************************************************)
(* processMessage: the handler has returned; the delivery is settled if    *)
(* its channel is still open.                                              *)
(***************************************************************************)
Settles(c, m) == owner[m] = c /\ chOpen[c]

WorkOk(c, m) ==
  /\ task[c][m] = "work"
  /\ task' = [task EXCEPT ![c][m] = "none"]
  /\ srv' = IF Settles(c, m) THEN [srv EXCEPT ![m] = "acked"] ELSE srv
  /\ owner' = IF Settles(c, m) THEN [owner EXCEPT ![m] = 0] ELSE owner
  /\ UNCHANGED <<brokerVars, con, cch, sess, ctxDone, shut, redel>>

\* A processMessage that settles only what the handler accepts.
WorkFails_NoNack(c, m) ==
  /\ task[c][m] = "work"
  /\ task' = [task EXCEPT ![c][m] = "none"]
  /\ UNCHANGED <<brokerVars, con, cch, sess, ctxDone, shut, srv, owner, redel>>

\* Nack with requeue = !Redelivered.
WorkFails(c, m) ==
  /\ task[c][m] = "work"
  /\ task' = [task EXCEPT ![c][m] = "none"]
  /\ srv' = IF Settles(c, m)
            THEN [srv EXCEPT ![m] = IF redel[m] THEN "dropped" ELSE "queue"]
            ELSE srv
  /\ redel' = IF Settles(c, m) THEN [redel EXCEPT ![m] = TRUE] ELSE redel
  /\ owner' = IF Settles(c, m) THEN [owner EXCEPT ![m] = 0] ELSE owner
  /\ UNCHANGED <<brokerVars, con, cch, sess, ctxDone, shut>>

(***************************************************************************)
(* Shutdown                                                                *)
(***************************************************************************)
Shutdown ==
  /\ shut = "no"
  /\ ctxDone' = TRUE
  /\ shut' = "waiting"
  /\ UNCHANGED <<brokerVars, con, cch, sess, srv, owner, redel, task>>

\* A Shutdown that waits for the loop only.
ShutdownOk_LoopOnly ==
  /\ shut = "waiting"
  /\ con = "ended"
  /\ shut' = "ok"
  /\ UNCHANGED <<brokerVars, con, cch, sess, ctxDone, srv, owner, redel, task>>

\* wg.Wait: the loop and the workers have returned.
ShutdownOk ==
  /\ shut = "waiting"
  /\ con = "ended"
  /\ Working = {}
  /\ shut' = "ok"
  /\ UNCHANGED <<brokerVars, con, cch, sess, ctxDone, srv, owner, redel, task>>

ShutdownTimeout ==
  /\ shut = "waiting"
  /\ shut' = "timeout"
  /\ UNCHANGED <<brokerVars, con, cch, sess, ctxDone, srv, owner, redel, task>>

(***************************************************************************)
(* External: the server                                                    *)
(***************************************************************************)
Deliver(m) ==
  /\ srv[m] = "queue"
  /\ sess /\ chOpen[cch]
  /\ task[cch][m] = "none"
  /\ srv' = [srv EXCEPT ![m] = "unacked"]
  /\ owner' = [owner EXCEPT ![m] = cch]
  /\ task' = [task EXCEPT ![cch][m] = "wire"]
  /\ UNCHANGED <<brokerVars, con, cch, sess, ctxDone, shut, redel>>

\* The messages of a closed channel go back to the queue.
Requeue(m) ==
  /\ srv[m] = "unacked"
  /\ ~chOpen[owner[m]]
  /\ srv' = [srv EXCEPT ![m] = "queue"]
  /\ redel' = [redel EXCEPT ![m] = TRUE]
  /\ owner' = [owner EXCEPT ![m] = 0]
  /\ UNCHANGED <<brokerVars, con, cch, sess, ctxDone, shut, task>>

\* The server cancels the consumer, because its queue is gone.
ServerCancel ==
  /\ sess /\ chOpen[cch]
  /\ sess' = FALSE
  /\ UNCHANGED <<brokerVars, con, cch, ctxDone, shut, srv, owner, redel, task>>

ConsumerNext ==
  \/ LoopStep
  \/ \E m \in Msgs : Deliver(m) \/ Requeue(m)
  \/ \E c \in Conns, m \in Msgs : WorkOk(c, m) \/ WorkFails(c, m)
  \/ Shutdown \/ ShutdownOk \/ ShutdownTimeout
  \/ ServerCancel

-----------------------------------------------------------------------------
\* A delivery that the server waits for is in somebody's hands: none is lost in
\* the client without being settled, until the consumer is told to stop.
NoLimbo ==
  \A m \in Msgs :
    \A c \in Conns : owner[m] = c /\ chOpen[c] /\ ~ctxDone => task[c][m] # "none"

\* Shutdown returns nil only when the loop has returned and no handler runs, also
\* when handlers of an earlier channel are late.
ShutdownWaits == shut = "ok" => con = "ended" /\ Working = {}
=============================================================================
