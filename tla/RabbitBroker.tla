---------------------------- MODULE RabbitBroker ----------------------------
(***************************************************************************)
(* Connection of infra/pubsub/rabbitmq/broker.go: connect, watchConn,      *)
(* reconnect, Channel and Close.  Consumers and publishers share its one   *)
(* channel; their modules extend this one.                                 *)
(*                                                                         *)
(* Connections are numbered in the order they are dialled; connection c    *)
(* has one channel, also called c.  connect and Close hold Connection.mu   *)
(* to their end, so each is one step.                                      *)
(***************************************************************************)
EXTENDS Naturals, Sequences, FiniteSets

CONSTANT MaxConns    \* bound: how many connections are dialled

ASSUME BrokerAssumption == MaxConns \in Nat \ {0}

Conns == 1..MaxConns

VARIABLES
  up,             \* the server accepts connections
  made,           \* how many connections were dialled
  connOpen,       \* the connection is open
  chOpen,         \* its channel is open
  cur,            \* Connection.conn and Connection.ch
  reconnecting,   \* Connection.reconnecting
  done,           \* Connection.done is closed
  watch,          \* program counter of watchConn and the reconnect it calls
  prompt          \* never changes: does reconnect clear its flag before the
                  \* connection it has made is lost

brokerVars == <<up, made, connOpen, chOpen, cur, reconnecting, done, watch, prompt>>

WatchPc == {"none", "watch", "loop", "dial", "reset", "ended"}

BrokerTypeOK ==
  /\ up \in BOOLEAN
  /\ made \in Conns /\ cur \in 1..made
  /\ connOpen \in [Conns -> BOOLEAN] /\ chOpen \in [Conns -> BOOLEAN]
  /\ \A c \in Conns : chOpen[c] => connOpen[c]
  /\ reconnecting \in BOOLEAN /\ done \in BOOLEAN /\ prompt \in BOOLEAN
  /\ watch \in [Conns -> WatchPc]

\* NewConnection has connected.
BrokerInit ==
  /\ up = TRUE
  /\ made = 1 /\ cur = 1
  /\ connOpen = [c \in Conns |-> c = 1] /\ chOpen = [c \in Conns |-> c = 1]
  /\ reconnecting = FALSE /\ done = FALSE
  /\ watch = [c \in Conns |-> IF c = 1 THEN "watch" ELSE "none"]
  /\ prompt \in BOOLEAN

\* Channel returns the channel rather than ErrConnectionNotAvailable.
Available == connOpen[cur] /\ chOpen[cur]

-----------------------------------------------------------------------------
WatchDone(c) ==
  /\ watch[c] = "watch"
  /\ done
  /\ watch' = [watch EXCEPT ![c] = "ended"]
  /\ UNCHANGED <<up, made, connOpen, chOpen, cur, reconnecting, done, prompt>>

\* watchConn is told that the connection is closed; reconnect's CompareAndSwap.
ReconnectEnter(c) ==
  /\ watch[c] = "watch"
  /\ ~connOpen[c]
  /\ reconnecting' = TRUE
  /\ watch' = [watch EXCEPT ![c] = IF reconnecting THEN "ended" ELSE "loop"]
  /\ UNCHANGED <<up, made, connOpen, chOpen, cur, done, prompt>>

\* The test of done before each attempt.
ReconnectTest(c) ==
  /\ watch[c] = "loop"
  /\ watch' = [watch EXCEPT ![c] = IF done THEN "reset" ELSE "dial"]
  /\ UNCHANGED <<up, made, connOpen, chOpen, cur, reconnecting, done, prompt>>

\* connect fails; reconnect sleeps and tries again.
ReconnectFails(c) ==
  /\ watch[c] = "dial"
  /\ ~up
  /\ watch' = [watch EXCEPT ![c] = "loop"]
  /\ UNCHANGED <<up, made, connOpen, chOpen, cur, reconnecting, done, prompt>>

\* A connect that starts no watchConn for the new connection.
Connect_NoWatch(c) ==
  /\ watch[c] = "dial"
  /\ up
  /\ made < MaxConns
  /\ made' = made + 1
  /\ cur' = made + 1
  /\ connOpen' = [connOpen EXCEPT ![cur] = FALSE, ![made + 1] = TRUE]
  /\ chOpen' = [chOpen EXCEPT ![cur] = FALSE, ![made + 1] = TRUE]
  /\ watch' = [watch EXCEPT ![c] = "reset"]
  /\ UNCHANGED <<up, reconnecting, done, prompt>>

\* connect: the old connection is closed, the new one is kept and watched.
Connect(c) ==
  /\ watch[c] = "dial"
  /\ up
  /\ made < MaxConns
  /\ made' = made + 1
  /\ cur' = made + 1
  /\ connOpen' = [connOpen EXCEPT ![cur] = FALSE, ![made + 1] = TRUE]
  /\ chOpen' = [chOpen EXCEPT ![cur] = FALSE, ![made + 1] = TRUE]
  /\ watch' = [watch EXCEPT ![c] = "reset", ![made + 1] = "watch"]
  /\ UNCHANGED <<up, reconnecting, done, prompt>>

\* The deferred reconnecting.Store(false).
ReconnectReset(c) ==
  /\ watch[c] = "reset"
  /\ reconnecting' = FALSE
  /\ watch' = [watch EXCEPT ![c] = "ended"]
  /\ UNCHANGED <<up, made, connOpen, chOpen, cur, done, prompt>>

WatchStep(c) ==
  \/ WatchDone(c)
  \/ ReconnectEnter(c) \/ ReconnectTest(c) \/ ReconnectFails(c)
  \/ Connect(c) \/ ReconnectReset(c)

BrokerClose ==
  /\ ~done
  /\ done' = TRUE
  /\ connOpen' = [connOpen EXCEPT ![cur] = FALSE]
  /\ chOpen' = [chOpen EXCEPT ![cur] = FALSE]
  /\ UNCHANGED <<up, made, cur, reconnecting, watch, prompt>>

\* amqp091 Channel.Close, called on a channel that Connection.Channel returned.
CloseChannel(c) ==
  /\ chOpen' = [chOpen EXCEPT ![c] = FALSE]
  /\ UNCHANGED <<up, made, connOpen, cur, reconnecting, done, watch, prompt>>

\* External: the current connection is lost.  The bound leaves a connection to
\* come back with.
ServerDrop ==
  /\ connOpen[cur]
  /\ made < MaxConns
  /\ prompt => \A c \in Conns : watch[c] # "reset"
  /\ connOpen' = [connOpen EXCEPT ![cur] = FALSE]
  /\ chOpen' = [chOpen EXCEPT ![cur] = FALSE]
  /\ UNCHANGED <<up, made, cur, reconnecting, done, watch, prompt>>

\* External: the server goes away or comes back; only a dial can tell, so it does
\* so only where there is no connection.
ServerUpDown ==
  /\ ~connOpen[cur]
  /\ up' = ~up
  /\ UNCHANGED <<made, connOpen, chOpen, cur, reconnecting, done, watch, prompt>>

-----------------------------------------------------------------------------
\* The channel was closed under a connection that is open.  Nothing watches the
\* channel, so it stays closed until the connection is lost.
ChannelLost == connOpen[cur] /\ ~chOpen[cur]

\* Where reconnects are prompt and the server stays up, Channel returns a channel
\* for good, unless the connection is closed or its channel was closed alone.
Reconnects ==
  <>[](up /\ prompt) => <>[](Available \/ done \/ ChannelLost)

\* reconnect_test.go: after the connection is closed, require.Eventually Channel
\* returns a channel.
ComesBack ==
  <>[]up => <>[](Available \/ done \/ ChannelLost)
=============================================================================
