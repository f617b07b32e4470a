---------------------------- MODULE RabbitSetup -----------------------------
(***************************************************************************)
(* The topology calls of Connection (infra/pubsub/rabbitmq/broker.go):     *)
(* DeclareExchange, BindExchange, DeclareQueue and BindQueue, which an     *)
(* application makes one at a time.  Each takes the shared channel and     *)
(* sends its requests on it; DeclareQueue sends two.                       *)
(*                                                                         *)
(* The entities are an exchange x, a queue q, the binding of q to x, and   *)
(* the binding of x to an exchange that is always there.  x and q are      *)
(* durable and not deleted automatically; q may be exclusive: it goes,     *)
(* and its binding with it, when the connection that declared it closes.   *)
(***************************************************************************)
EXTENDS RabbitBroker

Entities == {"x", "q", "x>q", "x>y"}

VARIABLES
  setup,       \* the call being made: what it has still to request, whether the
               \* request is out, its channel, and whether it waits for answers
  topo,        \* what was declared at the server
  qconn,       \* the connection that declared q last
  foreign,     \* never changes: x or q that exist with other settings
  exclusive,   \* never changes: QueueConfig.Exclusive
  promised     \* what the last call to return nil asked for, and its connection

setupVars == <<setup, topo, qconn, foreign, exclusive, promised>>

NoCall == [todo |-> <<>>, asked |-> {}, sent |-> FALSE, ch |-> 1, wait |-> TRUE]

SetupTypeOK ==
  /\ setup \in [todo : Seq(Entities), asked : SUBSET Entities, sent : BOOLEAN,
                ch : Conns, wait : BOOLEAN]
  /\ topo \in SUBSET Entities
  /\ qconn \in Conns
  /\ foreign \in SUBSET {"x", "q"}
  /\ exclusive \in BOOLEAN
  /\ promised \in [asked : SUBSET Entities, ch : Conns]

SetupInit ==
  /\ setup = NoCall
  /\ foreign \in {{}, {"x"}, {"q"}}
  /\ topo = {}
  /\ qconn = 1
  /\ exclusive \in BOOLEAN
  /\ promised = [asked |-> {}, ch |-> 1]

\* q and its binding, where they last only as long as their connection.
Fleeting(e) == exclusive /\ "q" \notin foreign /\ e \in {"q", "x>q"}

\* External: what the server has.
Exists(e) == e \in foreign \/ (e \in topo /\ (Fleeting(e) => connOpen[qconn]))

\* External: the server takes a request that comes over connection c: a declaration
\* that agrees with what exists and is no other connection's exclusive queue, a
\* binding of what exists.
Accepts(e, c) ==
  CASE e = "x" -> "x" \notin foreign
    [] e = "q" -> "q" \notin foreign /\ (exclusive /\ Exists("q") => qconn = c)
    [] e = "x>q" -> /\ Exists("x") /\ Exists("q")
                    /\ Fleeting("q") => qconn = c
    [] e = "x>y" -> Exists("x")

-----------------------------------------------------------------------------
\* Channel returns the shared channel; on ErrConnectionNotAvailable the call ends.
Begin(requests, wait) ==
  /\ setup.todo = <<>>
  /\ Available
  /\ setup' = [todo |-> requests, asked |-> {requests[k] : k \in DOMAIN requests},
               sent |-> FALSE, ch |-> cur, wait |-> wait]
  /\ UNCHANGED <<brokerVars, topo, qconn, foreign, exclusive, promised>>

DeclareExchange == Begin(<<"x">>, TRUE)

BindExchange(noWait) == Begin(<<"x>y">>, ~noWait)

\* The queue is bound in the same call if an exchange and a routing key are given.
DeclareQueue(bound) == Begin(IF bound THEN <<"q", "x>q">> ELSE <<"q">>, TRUE)

BindQueue(noWait) == Begin(<<"x>q">>, ~noWait)

\* The call returns an error.
Fail == setup' = NoCall

\* A request on the channel.  One that the server refuses closes the channel, for
\* every user of the connection.
Request ==
  /\ setup.todo # <<>> /\ ~setup.sent
  /\ LET e == Head(setup.todo)
         c == setup.ch
     IN  \/ /\ ~chOpen[c]
            /\ Fail
            /\ UNCHANGED <<brokerVars, topo, qconn>>
         \/ /\ chOpen[c] /\ Accepts(e, c)
            /\ setup' = [setup EXCEPT !.sent = TRUE]
            /\ topo' = IF e = "q" /\ ~Exists("q")
                       THEN (topo \ {"x>q"}) \cup {"q"} ELSE topo \cup {e}
            /\ qconn' = IF e = "q" THEN c ELSE qconn
            /\ UNCHANGED brokerVars
         \/ /\ chOpen[c] /\ ~Accepts(e, c)
            /\ Fail
            /\ CloseChannel(c)
            /\ UNCHANGED <<topo, qconn>>
  /\ UNCHANGED <<foreign, exclusive, promised>>

\* A call that takes a channel closed under its request for an answer.
Answer_Unchecked ==
  /\ setup.sent
  /\ IF Len(setup.todo) > 1
     THEN /\ setup' = [setup EXCEPT !.todo = Tail(@), !.sent = FALSE]
          /\ UNCHANGED promised
     ELSE /\ setup' = NoCall
          /\ promised' = [asked |-> setup.asked, ch |-> cur]
  /\ UNCHANGED <<brokerVars, topo, qconn, foreign, exclusive>>

\* The answer, or the channel closes before it.  The call goes on to its next
\* request, or returns nil; with noWait, nil promises nothing.
Answer ==
  /\ setup.sent
  /\ IF ~chOpen[setup.ch]
     THEN Fail /\ UNCHANGED promised
     ELSE IF Len(setup.todo) > 1
     THEN /\ setup' = [setup EXCEPT !.todo = Tail(@), !.sent = FALSE]
          /\ UNCHANGED promised
     ELSE /\ setup' = NoCall
          /\ promised' = [asked |-> IF setup.wait THEN setup.asked ELSE {}, ch |-> setup.ch]
  /\ UNCHANGED <<brokerVars, topo, qconn, foreign, exclusive>>

SetupStep == Request \/ Answer

SetupNext ==
  \/ DeclareExchange
  \/ \E b \in BOOLEAN : BindExchange(b) \/ DeclareQueue(b) \/ BindQueue(b)
  \/ SetupStep

-----------------------------------------------------------------------------
\* A call that returned nil is true at the server: all it asked for exists, also
\* when the connection was lost and replaced while it ran; only an exclusive queue
\* and its binding go with the connection over which they were declared, and
\* nothing declares them again.
DeclaredHolds ==
  \A e \in promised.asked : Exists(e) \/ (Fleeting(e) /\ ~connOpen[promised.ch])
=============================================================================
