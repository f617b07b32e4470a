------------------------------ MODULE GrpcPool ------------------------------
(***************************************************************************)
(* The pool of gRPC connections (infra/transport/gRPC/pool).               *)
(*                                                                         *)
(* The pool is a buffered channel of slots; a slot holds a connection or   *)
(* nothing (0), and every user gives back the slot it took.  Pool.Close    *)
(* takes the channel away, marks the pool closed, closes the channel and   *)
(* drains it, in steps that Get and ClientConn.Close interleave with.  A   *)
(* send on the closed channel panics: the goroutine stops for good.        *)
(***************************************************************************)
EXTENDS Integers, Sequences, FiniteSets

CONSTANTS Users,      \* goroutines that get and close connections
          PoolSize,   \* capacity of the channel
          PoolReady,  \* connections dialled by New
          MaxDials    \* bound on the connections ever dialled

ASSUME PoolAssumption == /\ PoolSize \in Nat \ {0}
                         /\ PoolReady \in 0..PoolSize
                         /\ MaxDials \in Nat /\ PoolReady <= MaxDials

VARIABLES slots,    \* the channel
          present,  \* p.clients is not nil
          closed,   \* p.closed
          shut,     \* the channel is closed
          closer,   \* Pool.Close: "no", "swap", "close", "drain" or "done"
          user,     \* pc and connection of each user
          dialled,  \* number of connections made so far
          open      \* the connections that are open

poolVars == <<slots, present, closed, shut, closer, user, dialled, open>>

Away == [pc |-> "idle", conn |-> 0]

\* NewWithContext
PoolInit ==
  /\ slots = [i \in 1..PoolSize |-> IF i <= PoolReady THEN i ELSE 0]
  /\ present = TRUE /\ closed = FALSE /\ shut = FALSE /\ closer = "no"
  /\ user = [p \in Users |-> Away]
  /\ dialled = PoolReady
  /\ open = 1..PoolReady

Go(p, pc, conn) == user' = [user EXCEPT ![p] = [pc |-> pc, conn |-> conn]]

-----------------------------------------------------------------------------
(* Get.                                                                    *)

\* getClients: Get fails at once when the channel is gone.
Get(p) ==
  /\ user[p].pc = "idle"
  /\ present
  /\ Go(p, "recv", 0)
  /\ UNCHANGED <<slots, present, closed, shut, closer, dialled, open>>

\* A slot arrives; a closed channel yields empty ones.  A connection that
\* was idle for too long is closed.
Recv(p) ==
  /\ user[p].pc = "recv"
  /\ slots # <<>> \/ shut
  /\ LET conn == IF slots = <<>> THEN 0 ELSE Head(slots)
     IN /\ slots' = IF slots = <<>> THEN <<>> ELSE Tail(slots)
        /\ \/ /\ Go(p, IF conn = 0 THEN "dial" ELSE "using", conn)
              /\ UNCHANGED open
           \/ /\ conn # 0
              /\ Go(p, "dial", 0)
              /\ open' = open \ {conn}
  /\ UNCHANGED <<present, closed, shut, closer, dialled>>

\* The context of the caller ends while it waits for a slot.
RecvCancelled(p) ==
  /\ user[p].pc = "recv"
  /\ Go(p, "idle", 0)
  /\ UNCHANGED <<slots, present, closed, shut, closer, dialled, open>>

DialOk(p) ==
  /\ user[p].pc = "dial"
  /\ dialled < MaxDials
  /\ dialled' = dialled + 1
  /\ open' = open \cup {dialled + 1}
  /\ Go(p, "using", dialled + 1)
  /\ UNCHANGED <<slots, present, closed, shut, closer>>

DialFails_Drops(p) ==
  /\ user[p].pc = "dial"
  /\ Go(p, "idle", 0)
  /\ UNCHANGED <<slots, present, closed, shut, closer, dialled, open>>

\* The factory fails: the empty slot goes back before Get returns the error.
DialFails(p) ==
  /\ user[p].pc = "dial"
  /\ Len(slots) < PoolSize \/ shut
  /\ IF shut THEN Go(p, "panic", 0) /\ UNCHANGED slots
     ELSE Go(p, "idle", 0) /\ slots' = Append(slots, 0)
  /\ UNCHANGED <<present, closed, shut, closer, dialled, open>>

-----------------------------------------------------------------------------
(* ClientConn.Close.                                                       *)

\* The pool is closed already: the connection is closed with it.  An
\* unhealthy connection, or one past its lifetime, is closed first.
Release(p) ==
  /\ user[p].pc = "using"
  /\ \E healthy \in BOOLEAN :
       IF closed
       THEN /\ Go(p, "idle", 0)
            /\ open' = open \ {user[p].conn}
       ELSE /\ Go(p, "send", IF healthy THEN user[p].conn ELSE 0)
            /\ open' = IF healthy THEN open ELSE open \ {user[p].conn}
  /\ UNCHANGED <<slots, present, closed, shut, closer, dialled>>

\* The select evaluates p.clients: a nil channel never accepts, and the
\* default closes the connection.
SendSees(p) ==
  /\ user[p].pc = "send"
  /\ IF present THEN Go(p, "sending", user[p].conn) /\ UNCHANGED open
     ELSE Go(p, "idle", 0) /\ open' = open \ {user[p].conn}
  /\ UNCHANGED <<slots, present, closed, shut, closer, dialled>>

Send(p) ==
  /\ user[p].pc = "sending"
  /\ CASE shut -> Go(p, "panic", user[p].conn) /\ UNCHANGED <<slots, open>>
       [] ~shut /\ Len(slots) < PoolSize ->
            /\ Go(p, "idle", 0)
            /\ slots' = Append(slots, user[p].conn)
            /\ UNCHANGED open
       [] OTHER -> /\ Go(p, "idle", 0)
                   /\ open' = open \ {user[p].conn}
                   /\ UNCHANGED slots
  /\ UNCHANGED <<present, closed, shut, closer, dialled>>

-----------------------------------------------------------------------------
(* Pool.Close; a second call finds no channel and returns.                 *)

CloseSwap ==
  /\ closer = "no"
  /\ present' = FALSE
  /\ closer' = "swap"
  /\ UNCHANGED <<slots, closed, shut, user, dialled, open>>

CloseMark ==
  /\ closer = "swap"
  /\ closed' = TRUE
  /\ closer' = "close"
  /\ UNCHANGED <<slots, present, shut, user, dialled, open>>

CloseChan ==
  /\ closer = "close"
  /\ shut' = TRUE
  /\ closer' = "drain"
  /\ UNCHANGED <<slots, present, closed, user, dialled, open>>

CloseDrain_Stops ==
  /\ closer = "drain"
  /\ closer' = "done"
  /\ UNCHANGED <<slots, present, closed, shut, user, dialled, open>>

\* One turn of the loop that closes what is left in the channel.
CloseDrain ==
  /\ closer = "drain"
  /\ IF slots = <<>> THEN closer' = "done" /\ UNCHANGED <<slots, open>>
     ELSE /\ open' = open \ {Head(slots)}
          /\ slots' = Tail(slots)
          /\ UNCHANGED closer
  /\ UNCHANGED <<present, closed, shut, user, dialled>>

-----------------------------------------------------------------------------

UserStep(p) == Recv(p) \/ DialOk(p) \/ DialFails(p) \/ Release(p) \/ SendSees(p) \/ Send(p)

CloserStep == CloseMark \/ CloseChan \/ CloseDrain

PoolNext ==
  \/ \E p \in Users : Get(p) \/ UserStep(p) \/ RecvCancelled(p)
  \/ CloseSwap
  \/ CloserStep

\* Blocked receivers of a Go channel are served in order of arrival, which
\* makes the reception strongly fair.
PoolFairness ==
  /\ \A p \in Users : WF_poolVars(UserStep(p)) /\ SF_poolVars(Recv(p))
  /\ WF_poolVars(CloserStep)

PoolSpec == PoolInit /\ [][PoolNext]_poolVars /\ PoolFairness

-----------------------------------------------------------------------------
(* Properties.                                                             *)

UserPc == {"idle", "recv", "dial", "using", "send", "sending", "panic"}

\* Slots are slots of the channel and users hold connections that exist.
PoolTypeOK ==
  /\ slots \in Seq(0..MaxDials) /\ Len(slots) <= PoolSize
  /\ present \in BOOLEAN /\ closed \in BOOLEAN /\ shut \in BOOLEAN
  /\ closer \in {"no", "swap", "close", "drain", "done"}
  /\ user \in [Users -> [pc : UserPc, conn : 0..MaxDials]]
  /\ dialled \in 0..MaxDials /\ open \subseteq 1..dialled

\* A connection that a user got is open and theirs alone: Get, the idle timeout and
\* Pool.Close, which all take slots, and Close, which puts them back, never give one
\* connection to two owners or close one in use.  And Pool.Close leaves nothing open:
\* when it is done, the open connections are the ones users still hold.
OneOwner ==
  /\ \A p \in Users : user[p].conn # 0 =>
       /\ user[p].conn \in open
       /\ \A i \in DOMAIN slots : slots[i] # user[p].conn
       /\ \A q \in Users : user[q].conn = user[p].conn => q = p
  /\ closer = "done" => open \subseteq {user[p].conn : p \in Users}

\* A Get that waits for a slot gets one or fails: users give slots back and
\* Pool.Close wakes those that wait, unless a user panicked with its slot.
GetServed ==
  \A p \in Users : user[p].pc = "recv"
    ~> user[p].pc # "recv" \/ \E q \in Users : user[q].pc = "panic"
=============================================================================
