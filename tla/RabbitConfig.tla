---------------------------- MODULE RabbitConfig ----------------------------
(***************************************************************************)
(* The configurations of infra/pubsub/rabbitmq: each constructor starts    *)
(* from its defaults, applies the options in the order they are given and  *)
(* then refuses what cannot run.  A required name is given or empty, an    *)
(* option sets a field to a number that is "zero", "negative" or "given".  *)
(***************************************************************************)
EXTENDS Naturals, Sequences

Numbers == {"zero", "negative", "given"}

\* Up to two options, each a field and its value: the later one wins.
OptionLists(fields) == UNION {[1..n -> fields \X Numbers] : n \in 0..2}

ConnectFields   == {"ConnectTimeout"}
ConsumerFields  == {"MaxWorkers", "ReconnectDelay", "ProcessingTimeout"}
PublisherFields == {"MaxRetries", "ConfirmationTimeout"}

\* named: the required URL, name, type or tag is not empty.
RabbitCases ==
  [make : {"connection"}, named : BOOLEAN, opts : OptionLists(ConnectFields)]
  \cup [make : {"exchange", "queue"}, named : BOOLEAN, opts : {<<>>}]
  \cup [make : {"consumer"}, named : BOOLEAN, opts : OptionLists(ConsumerFields)]
  \cup [make : {"publisher"}, named : {TRUE}, opts : OptionLists(PublisherFields)]

\* The options, applied one after the other to the defaults.
WithOptions(fields, opts) ==
  [f \in fields |-> LET of == {k \in DOMAIN opts : opts[k][1] = f}
                    IN  IF of = {} THEN "default"
                        ELSE opts[CHOOSE k \in of : \A j \in of : j <= k][2]]

\* A constructor returns an error, or a configuration.
NotMade == {}

Positive(v) == v \in {"given", "default"}

\* NewConfig leaves the connect timeout as the options set it.
NewConfig(named, opts) == IF named THEN {WithOptions(ConnectFields, opts)} ELSE NotMade

\* The exchange needs a name and a type, the queue a name; their other fields are
\* flags and arguments, which the options set freely.
NewExchangeConfig(named) == IF named THEN {[f \in {} |-> "default"]} ELSE NotMade

NewQueueConfig(named) == IF named THEN {[f \in {} |-> "default"]} ELSE NotMade

NewConsumerConfig(named, opts) ==
  LET cfg == WithOptions(ConsumerFields, opts)
  IN  IF ~named THEN NotMade
      ELSE IF ~Positive(cfg["MaxWorkers"]) THEN NotMade
      ELSE IF ~Positive(cfg["ReconnectDelay"]) THEN NotMade
      ELSE IF ~Positive(cfg["ProcessingTimeout"]) THEN NotMade
      ELSE {cfg}

NewPublisherConfig(opts) ==
  LET cfg == WithOptions(PublisherFields, opts)
  IN  IF ~Positive(cfg["MaxRetries"]) THEN NotMade
      ELSE IF ~Positive(cfg["ConfirmationTimeout"]) THEN NotMade
      ELSE {cfg}

Made(c) ==
  CASE c.make = "connection" -> NewConfig(c.named, c.opts)
    [] c.make = "exchange" -> NewExchangeConfig(c.named)
    [] c.make = "queue" -> NewQueueConfig(c.named)
    [] c.make = "consumer" -> NewConsumerConfig(c.named, c.opts)
    [] c.make = "publisher" -> NewPublisherConfig(c.opts)

\* What is made has its names, and no goroutine runs with a number that stops it: a
\* consumer without workers would wait for its semaphore for good.  Only a connect
\* timeout is as the application sets it.
MadeUsable(c) ==
  \A cfg \in Made(c) :
    c.named /\ \A f \in DOMAIN cfg \ ConnectFields : Positive(cfg[f])
=============================================================================
