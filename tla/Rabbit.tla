------------------------------- MODULE Rabbit -------------------------------
(***************************************************************************)
(* A Connection of infra/pubsub/rabbitmq, the server, and a user of the    *)
(* connection: a consumer, a publisher, or an application that declares    *)
(* its topology.  All that another user of the same connection does to     *)
(* this one is to close the shared channel (consumeLoop after an error,    *)
(* MessagePublisher.Close, a refused declaration), which OtherUserCloses   *)
(* stands for.                                                             *)
(***************************************************************************)
EXTENDS RabbitConsumer, RabbitPublisher, RabbitSetup

VARIABLE user     \* never changes: which user is followed

vars == <<user, brokerVars, consumerVars, publisherVars, setupVars>>

Init ==
  /\ user \in {"consumer", "publisher", "setup"}
  /\ BrokerInit /\ ConsumerInit /\ PublisherInit
  /\ SetupInit /\ IF user = "setup" THEN prompt ELSE foreign = {} /\ ~exclusive

OtherUserCloses ==
  /\ chOpen[cur]
  /\ CloseChannel(cur)

Environment == BrokerClose \/ ServerDrop \/ ServerUpDown \/ OtherUserCloses

Consuming(A) == user = "consumer" /\ A /\ UNCHANGED <<user, publisherVars, setupVars>>
Publishing(A) == user = "publisher" /\ A /\ UNCHANGED <<user, consumerVars, setupVars>>
Declaring(A) == user = "setup" /\ A /\ UNCHANGED <<user, consumerVars, publisherVars>>
Broking(A) == A /\ UNCHANGED <<user, consumerVars, publisherVars, setupVars>>

Next ==
  \/ \E c \in Conns : Broking(WatchStep(c))
  \/ Broking(Environment)
  \/ Consuming(ConsumerNext)
  \/ Publishing(PublisherNext)
  \/ Declaring(SetupNext)

\* The goroutines run; handlers return; the server delivers what it has to a live
\* consumer and takes back what a closed channel held.
Spec ==
  /\ Init /\ [][Next]_vars
  /\ \A c \in Conns : WF_vars(Broking(WatchStep(c)))
  /\ WF_vars(Consuming(LoopStep))
  /\ \A c \in Conns, m \in Msgs : WF_vars(Consuming(WorkOk(c, m) \/ WorkFails(c, m)))
  /\ \A m \in Msgs : WF_vars(Consuming(Deliver(m) \/ Requeue(m)))
  /\ WF_vars(Publishing(PublishStep))
  /\ WF_vars(Declaring(SetupStep))

\* The types of the connection and of its users.
TypeOK == BrokerTypeOK /\ ConsumerTypeOK /\ PublisherTypeOK /\ SetupTypeOK

\* nil is true: a Publish that returns it was acknowledged by the server for its own
\* message, and what a Declare or Bind that returns it asked for exists, whatever
\* became of the connection meanwhile (see NilIsOwn and DeclaredHolds).
NilIsTrue == NilIsOwn /\ DeclaredHolds
=============================================================================
