-------------------------- MODULE RabbitPublisher ---------------------------
(***************************************************************************)
(* MessagePublisher of infra/pubsub/rabbitmq/publisher.go: Publish,        *)
(* doPublish, ensureChannel and Close, on the channel shared through the   *)
(* Connection, with Confirmation on and a ConfirmationTimeout.  doPublish  *)
(* holds the publisher's mutex from the channel to the confirmation; one   *)
(* caller publishes at a time.  Sends are numbered; unconf holds those the *)
(* server has not answered, confirms is the channel of capacity one that   *)
(* NotifyPublish fills.                                                    *)
(***************************************************************************)
EXTENDS RabbitBroker

CONSTANTS
  MaxRetries,   \* PublisherConfig.MaxRetries
  MaxSends      \* bound: messages put on a channel

ASSUME PublisherAssumption == MaxRetries \in Nat \ {0} /\ MaxSends \in Nat

VARIABLES
  pub,        \* program counter of Publish
  attempt,    \* the attempt it makes
  pch,        \* MessagePublisher.channel
  sent,       \* how many messages were sent; the last one is the current one
  unconf,     \* sends on pch without an answer
  confirms,   \* answers not read yet
  gaveUp,     \* a send on pch was left before its answer was read
  answered    \* the send whose acknowledgement made Publish return nil, or 0

publisherVars == <<pub, attempt, pch, sent, unconf, confirms, gaveUp, answered>>

Answers == [id : 1..MaxSends, ack : BOOLEAN]

PublisherTypeOK ==
  /\ pub \in {"idle", "ensure", "send", "wait", "backoff"}
  /\ attempt \in 0..MaxRetries
  /\ pch \in Conns
  /\ sent \in 0..MaxSends
  /\ unconf \in Seq(1..MaxSends)
  /\ confirms \in Seq(Answers) /\ Len(confirms) <= 1
  /\ gaveUp \in BOOLEAN
  /\ answered \in 0..MaxSends

\* NewPublisher has got the channel of the first connection.
PublisherInit ==
  /\ pub = "idle" /\ attempt = 0 /\ pch = 1 /\ sent = 0
  /\ unconf = <<>> /\ confirms = <<>> /\ gaveUp = FALSE
  /\ answered = 0

\* Publish backs off after every failed attempt, the last one included.
AttemptFails == pub' = "backoff"

-----------------------------------------------------------------------------
Publish ==
  /\ pub = "idle"
  /\ sent + MaxRetries <= MaxSends
  /\ pub' = "ensure"
  /\ attempt' = 1
  /\ answered' = 0
  /\ UNCHANGED <<brokerVars, pch, sent, unconf, confirms, gaveUp>>

\* ensureChannel: the publisher's channel while it is open, otherwise the
\* connection's, with a new channel of confirmations.
EnsureChannel ==
  /\ pub = "ensure"
  /\ \/ /\ ~chOpen[pch]
        /\ Available
        /\ pch' = cur
        /\ unconf' = <<>> /\ confirms' = <<>> /\ gaveUp' = FALSE
        /\ pub' = "send"
     \/ /\ chOpen[pch]
        /\ pub' = "send"
        /\ UNCHANGED <<pch, unconf, confirms, gaveUp>>
     \/ /\ ~chOpen[pch]
        /\ ~Available
        /\ AttemptFails
        /\ UNCHANGED <<pch, unconf, confirms, gaveUp>>
  /\ UNCHANGED <<brokerVars, attempt, sent, answered>>

PublishWithContext ==
  /\ pub = "send"
  /\ IF chOpen[pch]
     THEN /\ sent' = sent + 1
          /\ unconf' = Append(unconf, sent + 1)
          /\ pub' = "wait"
     ELSE /\ AttemptFails
          /\ UNCHANGED <<sent, unconf>>
  /\ UNCHANGED <<brokerVars, attempt, pch, confirms, gaveUp, answered>>

\* A confirmation is read: nil, or ErrMessageNacked.
Confirmed ==
  /\ pub = "wait"
  /\ confirms # <<>>
  /\ confirms' = <<>>
  /\ IF Head(confirms).ack
     THEN pub' = "idle" /\ answered' = Head(confirms).id
     ELSE AttemptFails /\ UNCHANGED answered
  /\ UNCHANGED <<brokerVars, attempt, pch, sent, unconf, gaveUp>>

\* NotifyPublish's channel is closed with the amqp channel.
ConfirmClosed ==
  /\ pub = "wait"
  /\ ~chOpen[pch] /\ confirms = <<>>
  /\ AttemptFails
  /\ UNCHANGED <<brokerVars, attempt, pch, sent, unconf, confirms, gaveUp, answered>>

ConfirmTimeout ==
  /\ pub = "wait"
  /\ gaveUp' = TRUE
  /\ AttemptFails
  /\ UNCHANGED <<brokerVars, attempt, pch, sent, unconf, confirms, answered>>

\* The caller's context ends during the wait: Publish returns at once.
ConfirmCancelled ==
  /\ pub = "wait"
  /\ gaveUp' = TRUE
  /\ pub' = "idle"
  /\ UNCHANGED <<brokerVars, attempt, pch, sent, unconf, confirms, answered>>

\* A Publish that never gives up.
Backoff_Forever ==
  /\ pub = "backoff"
  /\ pub' = "ensure"
  /\ UNCHANGED <<brokerVars, attempt, pch, sent, unconf, confirms, gaveUp, answered>>

\* The next attempt, or ErrPublishFailed after the last.
Backoff ==
  /\ pub = "backoff"
  /\ IF attempt < MaxRetries
     THEN pub' = "ensure" /\ attempt' = attempt + 1
     ELSE pub' = "idle" /\ UNCHANGED attempt
  /\ UNCHANGED <<brokerVars, pch, sent, unconf, confirms, gaveUp, answered>>

BackoffCancelled ==
  /\ pub = "backoff"
  /\ pub' = "idle"
  /\ UNCHANGED <<brokerVars, attempt, pch, sent, unconf, confirms, gaveUp, answered>>

\* MessagePublisher.Close closes the shared channel.
PublisherClose ==
  /\ pub = "idle"
  /\ CloseChannel(pch)
  /\ UNCHANGED publisherVars

\* External: the server answers the oldest send; the library waits while the
\* channel of confirmations is full.
ServerConfirms(ack) ==
  /\ unconf # <<>> /\ confirms = <<>>
  /\ chOpen[pch]
  /\ unconf' = Tail(unconf)
  /\ confirms' = <<[id |-> Head(unconf), ack |-> ack]>>
  /\ UNCHANGED <<brokerVars, pub, attempt, pch, sent, gaveUp, answered>>

PublishStep ==
  \/ EnsureChannel \/ PublishWithContext \/ Confirmed \/ ConfirmClosed
  \/ ConfirmTimeout \/ ConfirmCancelled \/ Backoff \/ BackoffCancelled

PublisherNext ==
  \/ Publish \/ PublishStep \/ PublisherClose
  \/ \E ack \in BOOLEAN : ServerConfirms(ack)

-----------------------------------------------------------------------------
\* When Publish returns nil, the server has acknowledged the message of this call,
\* not an earlier one, as long as every earlier wait on the channel was ended by
\* its own confirmation.
NilIsOwn == answered # 0 /\ ~gaveUp => answered = sent

\* Every call of Publish returns, whatever the connection does.
PublishReturns == pub # "idle" ~> pub = "idle"
=============================================================================
