-------------------------- MODULE TransportProofs --------------------------
(***************************************************************************)
(* The client side of the transports: the pool of gRPC connections, the    *)
(* proxy settings, errors across services, the consistent ring and the     *)
(* resolver, each in a section of its own.                                 *)
(*                                                                         *)
(* First the pool: its connections have one owner, for any users, capacity *)
(* and number of connections.  OneOwner is not inductive: a user that      *)
(* takes a slot becomes the owner of its connection, so the connections in *)
(* the channel must be open, distinct and nobody's too (Stored); and what  *)
(* is open when Pool.Close ends is a user's because it was in the channel  *)
(* otherwise (Found), and the closed channel, which accepts nothing, has   *)
(* been drained (Drained).                                                 *)
(***************************************************************************)
EXTENDS GrpcPool, HttpProxy, RpcErrors, ConsistentRing, Resolver, FiniteSetTheorems, TLAPS

\* A user outside Get and Close holds a connection only while using it.
Empty == \A p \in Users : user[p].pc \in {"idle", "recv", "dial"} => user[p].conn = 0

\* The channel holds open connections, each once.
Stored ==
  \A x \in DOMAIN slots : slots[x] # 0 =>
    /\ slots[x] \in open
    /\ \A j \in DOMAIN slots : slots[j] = slots[x] => j = x

\* What is open is held by a user or by the channel.
Found ==
  \A c \in open : \/ \E p \in Users : user[p].conn = c
                  \/ \E x \in DOMAIN slots : slots[x] = c

\* Pool.Close ends with the channel closed and empty.
Drained ==
  /\ closer \in {"drain", "done"} => shut
  /\ closer = "done" => slots = <<>>

\* The first part of OneOwner.
Alone ==
  \A p \in Users : user[p].conn # 0 =>
    /\ user[p].conn \in open
    /\ \A x \in DOMAIN slots : slots[x] # user[p].conn
    /\ \A q \in Users : user[q].conn = user[p].conn => q = p

Owned == Alone /\ Stored /\ Found

OwnerInv == PoolTypeOK /\ Empty /\ Owned /\ Drained

\* After the step user p, and nobody else, holds another connection: c.
Holds(p, c) == \A q \in Users : user'[q].conn = IF q = p THEN c ELSE user[q].conn

-----------------------------------------------------------------------------
\* Receiving from the channel: what is left is what was behind the head.
LEMMA TailSlots ==
  ASSUME NEW S, NEW q \in Seq(S), q # <<>>
  PROVE  /\ Tail(q) \in Seq(S) /\ Len(Tail(q)) = Len(q) - 1
         /\ Head(q) = q[1] /\ Head(q) \in S /\ 1 \in DOMAIN q
         /\ \A x \in DOMAIN Tail(q) : x \in 1..(Len(q) - 1) /\ x + 1 \in DOMAIN q /\ Tail(q)[x] = q[x + 1]
         /\ \A x \in DOMAIN q : x = 1 \/ (x - 1 \in DOMAIN Tail(q) /\ Tail(q)[x - 1] = q[x])
  OBVIOUS

\* Sending to the channel: the new slot comes last.
LEMMA AppendSlots ==
  ASSUME NEW S, NEW q \in Seq(S), NEW c \in S
  PROVE  /\ Append(q, c) \in Seq(S) /\ Len(Append(q, c)) = Len(q) + 1
         /\ \A x \in DOMAIN q : x \in DOMAIN Append(q, c) /\ Append(q, c)[x] = q[x]
         /\ Len(q) + 1 \in DOMAIN Append(q, c) /\ Append(q, c)[Len(q) + 1] = c
         /\ \A x \in DOMAIN Append(q, c) : x \in DOMAIN q \/ x = Len(q) + 1
  OBVIOUS

\* What Go does to the users.
LEMMA GoUser ==
  ASSUME PoolTypeOK, Empty, NEW p \in Users, NEW to \in UserPc, NEW c \in 0..MaxDials,
         to \in {"idle", "recv", "dial"} => c = 0, Go(p, to, c)
  PROVE  /\ user' \in [Users -> [pc : UserPc, conn : 0..MaxDials]]
         /\ Empty' /\ Holds(p, c)
  BY DEF PoolTypeOK, Empty, Go, Holds

-----------------------------------------------------------------------------
(* Who owns what after the moves that the actions make.                    *)

\* Nothing moves.
LEMMA OwnedStill ==
  ASSUME OwnerInv, \A q \in Users : user'[q].conn = user[q].conn, UNCHANGED <<slots, open>>
  PROVE  Owned'
  BY DEF OwnerInv, Owned, Alone, Stored, Found

\* A user closes their connection.
LEMMA OwnedDrop ==
  ASSUME OwnerInv, NEW p \in Users, Holds(p, 0), open' = open \ {user[p].conn}, UNCHANGED slots
  PROVE  Owned'
  <1>1. 0 \notin open
    BY PoolAssumption DEF OwnerInv, PoolTypeOK
  <1> QED
    BY <1>1 DEF OwnerInv, Owned, Alone, Stored, Found, Holds

\* A user takes the first slot of the channel.
LEMMA OwnedTake ==
  ASSUME OwnerInv, NEW p \in Users, user[p].conn = 0, slots # <<>>, slots' = Tail(slots),
         Holds(p, Head(slots)), UNCHANGED open
  PROVE  Owned'
  <1> DEFINE S == 0..MaxDials
  <1>1. slots \in Seq(S)
    BY DEF OwnerInv, PoolTypeOK
  <1>2. /\ Head(slots) = slots[1] /\ 1 \in DOMAIN slots /\ DOMAIN slots \subseteq Int
        /\ \A x \in DOMAIN slots' : x \in Nat \ {0} /\ x + 1 \in DOMAIN slots /\ slots'[x] = slots[x + 1]
        /\ \A x \in DOMAIN slots : x = 1 \/ (x - 1 \in DOMAIN slots' /\ slots'[x - 1] = slots[x])
    BY <1>1, TailSlots
  <1> HIDE DEF S
  <1>3. Alone'
    BY <1>2 DEF OwnerInv, Owned, Alone, Stored, Holds
  <1>4. Stored'
    BY <1>2 DEF OwnerInv, Owned, Stored
  <1>5. Found'
    <2> SUFFICES ASSUME NEW c \in open
                 PROVE  \/ \E q \in Users : user'[q].conn = c
                        \/ \E x \in DOMAIN slots' : slots'[x] = c
      BY DEF Found
    <2>1. CASE \E q \in Users : user[q].conn = c
      <3>1. c # 0
        BY DEF OwnerInv, PoolTypeOK
      <3> QED
        BY <2>1, <3>1 DEF Holds
    <2>2. ASSUME NEW x \in DOMAIN slots, slots[x] = c
          PROVE  \/ \E q \in Users : user'[q].conn = c
                 \/ \E j \in DOMAIN slots' : slots'[j] = c
      <3>1. CASE x = 1
        BY <1>2, <2>2, <3>1 DEF Holds
      <3>2. CASE x # 1
        BY <1>2, <2>2, <3>2, Zenon
      <3> QED
        BY <3>1, <3>2
    <2> QED
      BY <2>1, <2>2 DEF OwnerInv, Owned, Found
  <1> QED
    BY <1>3, <1>4, <1>5 DEF Owned

\* The first connection of the channel is taken out and closed.
LEMMA OwnedExpire ==
  ASSUME OwnerInv, slots # <<>>, slots' = Tail(slots), open' = open \ {Head(slots)},
         \A q \in Users : user'[q].conn = user[q].conn
  PROVE  Owned'
  <1>1. slots \in Seq(0..MaxDials) /\ 0 \notin open
    BY DEF OwnerInv, PoolTypeOK
  <1>2. /\ Head(slots) = slots[1] /\ 1 \in DOMAIN slots /\ DOMAIN slots \subseteq Int
        /\ \A x \in DOMAIN slots' : x \in Nat \ {0} /\ x + 1 \in DOMAIN slots /\ slots'[x] = slots[x + 1]
        /\ \A x \in DOMAIN slots : x = 1 \/ (x - 1 \in DOMAIN slots' /\ slots'[x - 1] = slots[x])
    BY <1>1, TailSlots
  <1>3. Alone'
    BY <1>1, <1>2 DEF OwnerInv, Owned, Alone, Stored
  <1>4. Stored'
    BY <1>1, <1>2 DEF OwnerInv, Owned, Stored
  <1>5. Found'
    <2> SUFFICES ASSUME NEW c \in open \ {Head(slots)}
                 PROVE  \/ \E q \in Users : user'[q].conn = c
                        \/ \E x \in DOMAIN slots' : slots'[x] = c
      BY DEF Found
    <2>1. ASSUME NEW x \in DOMAIN slots, slots[x] = c
          PROVE  \E j \in DOMAIN slots' : slots'[j] = c
      BY <1>2, <2>1, Zenon
    <2> QED
      BY <2>1 DEF OwnerInv, Owned, Found
  <1> QED
    BY <1>3, <1>4, <1>5 DEF Owned

\* A user puts what they hold into the channel.
LEMMA OwnedPut ==
  ASSUME OwnerInv, NEW p \in Users, slots' = Append(slots, user[p].conn), Holds(p, 0),
         UNCHANGED open
  PROVE  Owned'
  <1>1. slots \in Seq(0..MaxDials) /\ user[p].conn \in 0..MaxDials /\ 0 \notin open
    BY DEF OwnerInv, PoolTypeOK
  <1> DEFINE n == Len(slots) + 1
  <1>2. /\ \A x \in DOMAIN slots : x \in DOMAIN slots' /\ slots'[x] = slots[x] /\ x # n
        /\ n \in DOMAIN slots' /\ slots'[n] = user[p].conn
        /\ \A x \in DOMAIN slots' : x \in DOMAIN slots \/ x = n
    BY <1>1, AppendSlots
  <1> HIDE DEF n
  <1>3. Alone'
    BY <1>1, <1>2 DEF OwnerInv, Owned, Alone, Stored, Holds
  <1>4. Stored'
    BY <1>1, <1>2 DEF OwnerInv, Owned, Alone, Stored
  <1>5. Found'
    BY <1>1, <1>2 DEF OwnerInv, Owned, Found, Holds
  <1> QED
    BY <1>3, <1>4, <1>5 DEF Owned

\* A user without a connection dials one.
LEMMA OwnedDial ==
  ASSUME OwnerInv, NEW p \in Users, user[p].conn = 0, Holds(p, dialled + 1),
         open' = open \cup {dialled + 1}, UNCHANGED slots
  PROVE  Owned'
  <1>1. dialled + 1 \notin open /\ dialled + 1 # 0 /\ 0 \notin open
    BY DEF OwnerInv, PoolTypeOK
  <1> QED
    BY <1>1 DEF OwnerInv, Owned, Alone, Stored, Found, Holds
-----------------------------------------------------------------------------
\* The invariant holds when NewWithContext returns.
LEMMA OwnerInit == PoolInit => OwnerInv
  <1> SUFFICES ASSUME PoolInit PROVE OwnerInv
    OBVIOUS
  <1>1. slots \in Seq(0..MaxDials) /\ Len(slots) = PoolSize /\ DOMAIN slots = 1..PoolSize
    BY PoolAssumption DEF PoolInit
  <1>2. PoolTypeOK
    <2>1. Away \in [pc : UserPc, conn : 0..MaxDials]
      BY PoolAssumption DEF Away, UserPc
    <2>2. user \in [Users -> [pc : UserPc, conn : 0..MaxDials]]
      BY <2>1 DEF PoolInit
    <2>3. dialled \in 0..MaxDials /\ open \subseteq 1..dialled /\ Len(slots) <= PoolSize
      BY <1>1, PoolAssumption DEF PoolInit
    <2> QED
      BY <1>1, <2>2, <2>3, Zenon DEF PoolInit, PoolTypeOK
  <1>3. \A x \in DOMAIN slots : slots[x] = IF x <= PoolReady THEN x ELSE 0
    BY <1>1 DEF PoolInit
  <1>4. Alone /\ Stored
    BY <1>1, <1>3, PoolAssumption DEF PoolInit, Alone, Stored, Away
  <1>5. Found
    <2> SUFFICES ASSUME NEW c \in 1..PoolReady PROVE c \in DOMAIN slots /\ slots[c] = c
      BY DEF PoolInit, Found
    <2> QED
      BY <1>1, <1>3, PoolAssumption
  <1> QED
    BY <1>2, <1>4, <1>5 DEF OwnerInv, Owned, PoolInit, Empty, Drained, Away

\* Every step of Get, ClientConn.Close and Pool.Close preserves it.
LEMMA OwnerNext == OwnerInv /\ [PoolNext]_poolVars => OwnerInv'
  <1> SUFFICES ASSUME OwnerInv, PoolTypeOK, Empty, Drained, [PoolNext]_poolVars PROVE OwnerInv'
    BY DEF OwnerInv
  <1> USE PoolAssumption
  <1>0. 0 \in 0..MaxDials /\ \A p \in Users : user[p].conn \in 0..MaxDials
    BY DEF PoolTypeOK
  <1>1. ASSUME NEW p \in Users, Get(p) \/ RecvCancelled(p) PROVE OwnerInv'
    <2>1. /\ user' \in [Users -> [pc : UserPc, conn : 0..MaxDials]] /\ Empty'
          /\ Holds(p, 0) /\ user[p].conn = 0
      BY <1>0, <1>1, GoUser DEF Get, RecvCancelled, UserPc, Empty
    <2>2. PoolTypeOK' /\ Drained'
      BY <1>1, <2>1, Zenon DEF Get, RecvCancelled, PoolTypeOK, Drained
    <2>3. Owned'
      BY <1>1, <2>1, OwnedStill DEF Get, RecvCancelled, Holds
    <2> QED
      BY <2>1, <2>2, <2>3 DEF OwnerInv
  <1>2. ASSUME NEW p \in Users, Recv(p) PROVE OwnerInv'
    <2>0. user[p].conn = 0
      BY <1>2 DEF Recv, Empty
    <2>1. CASE slots = <<>>
      <3>1. Go(p, "dial", 0) /\ UNCHANGED <<slots, open>>
        BY <1>2, <2>1 DEF Recv
      <3>2. /\ user' \in [Users -> [pc : UserPc, conn : 0..MaxDials]] /\ Empty'
            /\ Holds(p, 0)
        BY <1>0, <3>1, GoUser DEF UserPc
      <3>3. PoolTypeOK' /\ Drained'
        BY <1>2, <3>1, <3>2 DEF Recv, PoolTypeOK, Drained
      <3>4. Owned'
        BY <2>0, <3>1, <3>2, OwnedStill DEF Holds
      <3> QED
        BY <3>2, <3>3, <3>4 DEF OwnerInv
    <2>2. CASE slots # <<>>
      <3> DEFINE c == Head(slots)
      <3>1. c \in 0..MaxDials /\ slots' = Tail(slots) /\ slots' \in Seq(0..MaxDials)
              /\ Len(slots') <= PoolSize
        BY <1>2, <2>2, TailSlots DEF Recv, PoolTypeOK
      <3>2. CASE UNCHANGED open /\ Go(p, IF c = 0 THEN "dial" ELSE "using", c)
        <4>1. /\ user' \in [Users -> [pc : UserPc, conn : 0..MaxDials]] /\ Empty'
              /\ Holds(p, c)
          BY <3>1, <3>2, GoUser DEF UserPc
        <4>2. PoolTypeOK' /\ Drained'
          BY <1>2, <2>2, <3>1, <3>2, <4>1, Zenon DEF Recv, PoolTypeOK, Drained
        <4> QED
          BY <2>0, <2>2, <3>1, <3>2, <4>1, <4>2, OwnedTake, Zenon DEF OwnerInv
      <3>3. CASE open' = open \ {c} /\ Go(p, "dial", 0)
        <4>1. /\ user' \in [Users -> [pc : UserPc, conn : 0..MaxDials]] /\ Empty'
              /\ Holds(p, 0)
          BY <1>0, <3>3, GoUser DEF UserPc
        <4>2. PoolTypeOK' /\ Drained'
          BY <1>2, <2>2, <3>1, <3>3, <4>1, Zenon DEF Recv, PoolTypeOK, Drained
        <4>3. \A q \in Users : user'[q].conn = user[q].conn
          BY <2>0, <4>1 DEF Holds
        <4> QED
          BY <2>2, <3>1, <3>3, <4>1, <4>2, <4>3, OwnedExpire, Zenon DEF OwnerInv
      <3> QED
        BY <1>2, <2>2, <3>2, <3>3 DEF Recv
    <2> QED
      BY <2>1, <2>2
  <1>3. ASSUME NEW p \in Users, DialOk(p) PROVE OwnerInv'
    <2>1. dialled + 1 \in 0..MaxDials /\ user[p].conn = 0
      BY <1>3 DEF DialOk, PoolTypeOK, Empty
    <2>2. /\ user' \in [Users -> [pc : UserPc, conn : 0..MaxDials]] /\ Empty'
          /\ Holds(p, dialled + 1)
      BY <1>3, <2>1, GoUser, Zenon DEF DialOk, UserPc
    <2>3. PoolTypeOK' /\ Drained'
      BY <1>3, <2>1, <2>2 DEF DialOk, PoolTypeOK, Drained
    <2>4. Owned'
      BY <1>3, <2>1, <2>2, OwnedDial, Zenon DEF DialOk
    <2> QED
      BY <2>2, <2>3, <2>4 DEF OwnerInv
  <1>4. ASSUME NEW p \in Users, DialFails(p) PROVE OwnerInv'
    <2>0. user[p].conn = 0
      BY <1>4, Zenon DEF DialFails, Empty
    <2>1. CASE shut
      <3>1. Go(p, "panic", 0) /\ UNCHANGED slots
        BY <1>4, <2>1 DEF DialFails
      <3>2. /\ user' \in [Users -> [pc : UserPc, conn : 0..MaxDials]] /\ Empty'
            /\ Holds(p, 0)
        BY <1>0, <3>1, GoUser DEF UserPc
      <3>3. PoolTypeOK' /\ Drained'
        BY <1>4, <3>1, <3>2 DEF DialFails, PoolTypeOK, Drained
      <3>4. Owned'
        BY <1>4, <2>0, <3>1, <3>2, OwnedStill DEF DialFails, Holds
      <3> QED
        BY <3>2, <3>3, <3>4 DEF OwnerInv
    <2>2. CASE ~shut
      <3>1. Go(p, "idle", 0) /\ slots' = Append(slots, 0) /\ Len(slots) < PoolSize
        BY <1>4, <2>2 DEF DialFails
      <3>2. slots' \in Seq(0..MaxDials) /\ Len(slots') <= PoolSize
        BY <1>0, <3>1, AppendSlots DEF PoolTypeOK
      <3>3. /\ user' \in [Users -> [pc : UserPc, conn : 0..MaxDials]] /\ Empty'
            /\ Holds(p, 0)
        BY <1>0, <3>1, GoUser DEF UserPc
      <3>4. PoolTypeOK' /\ Drained'
        BY <1>4, <2>2, <3>2, <3>3 DEF DialFails, PoolTypeOK, Drained
      <3>5. Owned'
        BY <1>4, <2>0, <3>1, <3>3, OwnedPut, Zenon DEF DialFails
      <3> QED
        BY <3>3, <3>4, <3>5 DEF OwnerInv
    <2> QED
      BY <2>1, <2>2
  <1>5. ASSUME NEW p \in Users, Release(p) PROVE OwnerInv'
    <2>1. \/ Go(p, "idle", 0) /\ open' = open \ {user[p].conn}
          \/ Go(p, "send", 0) /\ open' = open \ {user[p].conn}
          \/ Go(p, "send", user[p].conn) /\ UNCHANGED open
      BY <1>5, Zenon DEF Release
    <2>2. /\ user' \in [Users -> [pc : UserPc, conn : 0..MaxDials]] /\ Empty'
          /\ \/ Holds(p, 0) /\ open' = open \ {user[p].conn}
             \/ Holds(p, user[p].conn) /\ UNCHANGED open
      BY <1>0, <2>1, GoUser, Zenon DEF UserPc
    <2>3. PoolTypeOK' /\ Drained'
      BY <1>5, <2>2, Zenon DEF Release, PoolTypeOK, Drained
    <2>4. Owned'
      BY <1>5, <2>2, OwnedDrop, OwnedStill, Zenon DEF Release, Holds
    <2> QED
      BY <2>2, <2>3, <2>4, Zenon DEF OwnerInv
  <1>6. ASSUME NEW p \in Users, SendSees(p) PROVE OwnerInv'
    <2>1. \/ Go(p, "idle", 0) /\ open' = open \ {user[p].conn}
          \/ Go(p, "sending", user[p].conn) /\ UNCHANGED open
      BY <1>6 DEF SendSees
    <2>2. /\ user' \in [Users -> [pc : UserPc, conn : 0..MaxDials]] /\ Empty'
          /\ \/ Holds(p, 0) /\ open' = open \ {user[p].conn}
             \/ Holds(p, user[p].conn) /\ UNCHANGED open
      BY <1>0, <2>1, GoUser DEF UserPc
    <2>3. PoolTypeOK' /\ Drained'
      BY <1>6, <2>2, Zenon DEF SendSees, PoolTypeOK, Drained
    <2>4. Owned'
      BY <1>6, <2>2, OwnedDrop, OwnedStill, Zenon DEF SendSees, Holds
    <2> QED
      BY <2>2, <2>3, <2>4, Zenon DEF OwnerInv
  <1>7. ASSUME NEW p \in Users, Send(p) PROVE OwnerInv'
    <2>1. CASE ~shut /\ Len(slots) < PoolSize
      <3>1. slots' = Append(slots, user[p].conn) /\ Go(p, "idle", 0)
              /\ UNCHANGED <<open, present, closed, shut, closer, dialled>>
        BY <1>7, <2>1 DEF Send
      <3>2. slots' \in Seq(0..MaxDials) /\ Len(slots') <= PoolSize
        BY <2>1, <3>1, AppendSlots DEF PoolTypeOK
      <3>3. /\ user' \in [Users -> [pc : UserPc, conn : 0..MaxDials]] /\ Empty'
            /\ Holds(p, 0)
        BY <1>0, <3>1, GoUser, Zenon DEF UserPc
      <3>4. PoolTypeOK' /\ Drained'
        BY <2>1, <3>1, <3>2, <3>3 DEF PoolTypeOK, Drained
      <3> QED
        BY <3>1, <3>3, <3>4, OwnedPut DEF OwnerInv
    <2>2. CASE shut \/ ~(Len(slots) < PoolSize)
      <3>1. /\ UNCHANGED <<slots, present, closed, shut, closer, dialled>>
            /\ \/ Go(p, "panic", user[p].conn) /\ UNCHANGED open
               \/ Go(p, "idle", 0) /\ open' = open \ {user[p].conn}
        BY <1>7, <2>2 DEF Send
      <3>2. /\ user' \in [Users -> [pc : UserPc, conn : 0..MaxDials]] /\ Empty'
            /\ \/ Holds(p, 0) /\ open' = open \ {user[p].conn}
               \/ Holds(p, user[p].conn) /\ UNCHANGED open
        BY <1>0, <3>1, GoUser, Zenon DEF UserPc
      <3>3. PoolTypeOK' /\ Drained'
        BY <3>1, <3>2, Zenon DEF PoolTypeOK, Drained
      <3>4. Owned'
        BY <3>1, <3>2, OwnedDrop, OwnedStill, Zenon DEF Holds
      <3> QED
        BY <3>2, <3>3, <3>4, Zenon DEF OwnerInv
    <2> QED
      BY <2>1, <2>2
  <1>8. CASE CloseSwap \/ CloseMark \/ CloseChan \/ UNCHANGED poolVars
    <2>1. PoolTypeOK' /\ Empty' /\ Drained'
      BY <1>8, Zenon DEF CloseSwap, CloseMark, CloseChan, poolVars, PoolTypeOK, Empty, Drained
    <2>2. Owned'
      BY <1>8, OwnedStill DEF CloseSwap, CloseMark, CloseChan, poolVars
    <2> QED
      BY <2>1, <2>2 DEF OwnerInv
  <1>9. CASE CloseDrain
    <2>1. CASE slots = <<>>
      <3>1. PoolTypeOK' /\ Empty' /\ Drained'
        BY <1>9, <2>1, Zenon DEF CloseDrain, PoolTypeOK, Empty, Drained
      <3>2. Owned'
        BY <1>9, <2>1, OwnedStill DEF CloseDrain
      <3> QED
        BY <3>1, <3>2 DEF OwnerInv
    <2>2. CASE slots # <<>>
      <3>1. slots' \in Seq(0..MaxDials) /\ Len(slots') <= PoolSize
        <4>1. slots \in Seq(0..MaxDials) /\ slots' = Tail(slots) /\ Len(slots) <= PoolSize
          BY <1>9, <2>2 DEF CloseDrain, PoolTypeOK
        <4> QED
          BY <2>2, <4>1, TailSlots
      <3>2. PoolTypeOK' /\ Empty' /\ Drained'
        BY <1>9, <2>2, <3>1, Zenon DEF CloseDrain, PoolTypeOK, Empty, Drained
      <3>3. Owned'
        BY <1>9, <2>2, OwnedExpire DEF CloseDrain
      <3> QED
        BY <3>2, <3>3 DEF OwnerInv
    <2> QED
      BY <2>1, <2>2
  <1> QED
    BY <1>1, <1>2, <1>3, <1>4, <1>5, <1>6, <1>7, <1>8, <1>9
       DEF PoolNext, UserStep, CloserStep

\* A connection in use is open and its user's alone, and a pool that is closed has
\* closed all others, however Get, ClientConn.Close and Pool.Close interleave.
THEOREM PoolOneOwner == PoolSpec => []OneOwner
  <1>1. OwnerInv => OneOwner
    BY DEF OwnerInv, PoolTypeOK, Owned, Alone, Found, Drained, OneOwner
  <1> QED
    BY <1>1, OwnerInit, OwnerNext, PTL DEF PoolSpec

-----------------------------------------------------------------------------
(***************************************************************************)
(* Connections follow the settings, for any settings and any number of     *)
(* changes of the file.                                                    *)
(*                                                                         *)
(* IdleFollows is not inductive: a busy connection becomes idle without an *)
(* update, so what it says must hold of every connection (Follow), and a   *)
(* transport that is not registered, whose connections an update does not  *)
(* close, has only late ones (Early).                                      *)
(***************************************************************************)

ConnTypes ==
  /\ lock \in {"none", "file", "app"}
  /\ conn \in {"none", "busy", "idle"}
  /\ late \in BOOLEAN

\* Connections of a transport that no update reaches yet.
Early == conn # "none" /\ tr # "registered" => late

\* Between updates every connection has the route of the settings, or is late.
Follow == lock = "none" /\ conn # "none" => route = snap \/ late

RouteInv == ConnTypes /\ Early /\ Follow

-----------------------------------------------------------------------------
\* The invariant holds when NewManager returns.
LEMMA RouteInit == ProxyInit => RouteInv
  BY Zenon DEF ProxyInit, RouteInv, ConnTypes, Early, Follow

\* Update, by the watch or by the application, stores the settings and keeps the lock
\* until connections are closed.
LEMMA RouteStore ==
  ASSUME RouteInv, NEW by \in {"file", "app"}, NEW c, Store(by, c)
  PROVE  RouteInv'
  BY DEF RouteInv, ConnTypes, Early, Follow, Store, connVars

\* Closing connections leaves only those that are late.
LEMMA RouteClose ==
  ASSUME RouteInv, NEW by \in {"file", "app"}, CloseIdle(by)
  PROVE  RouteInv'
  BY Zenon DEF RouteInv, ConnTypes, Early, Follow, CloseIdle

\* The invariant does not depend on the file and the watch of it.
LEMMA RouteElse ==
  ASSUME RouteInv, UNCHANGED <<snap, lock, connVars>>
  PROVE  RouteInv'
  BY DEF RouteInv, ConnTypes, Early, Follow, connVars

\* Every step of the file system, the watch, the application and the transport
\* preserves it.
LEMMA RouteNext == RouteInv /\ [ProxyNext]_proxyVars => RouteInv'
  <1> SUFFICES ASSUME RouteInv, [ProxyNext]_proxyVars PROVE RouteInv'
    OBVIOUS
  <1>1. CASE FileStore \/ \E c \in Settings : AppStore(c)
    BY <1>1, RouteStore DEF FileStore, AppStore
  <1>2. CASE FileClose \/ AppClose
    BY <1>2, RouteClose DEF FileClose, AppClose
  <1>3. CASE (\E e \in events : Event(e)) \/ Fire \/ LoadFile \/ Rewatch
    BY <1>3, RouteElse, Zenon DEF Event, Fire, LoadFile, Rewatch
  <1>4. CASE MoveDir \/ \E c \in Contents : WriteFile(c) \/ MakeDir(c)
    BY <1>4, RouteElse DEF MoveDir, WriteFile, MakeDir
  <1>5. CASE Transport \/ sharedTransport \/ WrapTransport \/ HookDefaultTransport \/ Register
    BY <1>5 DEF Transport, sharedTransport, WrapTransport, HookDefaultTransport, Register, Bind,
       RouteInv, ConnTypes, Early, Follow
  <1>6. CASE StartRequest
    BY <1>6, Zenon DEF StartRequest, RouteInv, ConnTypes, Early, Follow
  <1>7. CASE EndRequest
    BY <1>7 DEF EndRequest, RouteInv, ConnTypes, Early, Follow
  <1>8. CASE UNCHANGED proxyVars
    BY <1>8, RouteElse DEF proxyVars, connVars
  <1> QED
    BY <1>1, <1>2, <1>3, <1>4, <1>5, <1>6, <1>7, <1>8 DEF ProxyNext, LoopStep

\* After an update no idle connection keeps an older route, whoever calls Update, when
\* the transport is bound and however requests overlap; only late ones do.
THEOREM RoutesFollow == ProxySpec => []IdleFollows
  <1>1. RouteInv => IdleFollows
    BY DEF RouteInv, ConnTypes, Follow, IdleFollows
  <1> QED
    BY <1>1, RouteInit, RouteNext, PTL DEF ProxySpec

-----------------------------------------------------------------------------
(* Errors that travel.  An *Error that can be written is carried as it is. *)
(* Any other error becomes one at the first hop.                           *)

\* The kind of what App returns.
LEMMA AppKind ==
  ASSUME NEW v, NEW e, v = App(e)
  PROVE  v.kind = "app" /\ v.e = e
BY Zenon DEF App

\* GRPCStatus puts the error into the details, where FromStatus finds it.
LEMMA AppSurvives == \A e : Writable(e) => FromStatus(GRPCStatus(e)) = App(e)
<1> SUFFICES ASSUME NEW e, Writable(e) PROVE FromStatus(GRPCStatus(e)) = App(e)
  OBVIOUS
<1>1. GRPCStatus(e).details = {e}
  BY DEF GRPCStatus
<1>2. (CHOOSE x \in {e} : TRUE) = e
  OBVIOUS
<1> QED
  BY <1>1, <1>2 DEF FromStatus

\* The number of the gRPC code Unknown is no HTTP code that the table knows, and neither
\* is the code of an empty Error: both are Unknown again.
LEMMA UnknownStays ==
  http2grpcCode(Number("Unknown")) = "Unknown" /\ http2grpcCode(0) = "Unknown"
<1> DEFINE names == <<"OK", "Canceled", "Unknown", "InvalidArgument", "DeadlineExceeded",
                      "NotFound", "AlreadyExists", "PermissionDenied", "ResourceExhausted",
                      "FailedPrecondition", "Aborted", "OutOfRange", "Unimplemented", "Internal",
                      "Unavailable", "DataLoss", "Unauthenticated">>
<1>1. \A n \in 0..16 : names[n + 1] = "Unknown" <=> n = 2
  OBVIOUS
<1>2. Number("Unknown") = CHOOSE n \in 0..16 : names[n + 1] = "Unknown"
  BY DEF Number
<1> HIDE DEF names
<1>3. Number("Unknown") = 2
  BY <1>1, <1>2
<1>4. http2grpcCode(2) = "Unknown" /\ http2grpcCode(0) = "Unknown"
  BY DEF http2grpcCode, codeMap
<1> QED
  BY <1>3, <1>4

\* What an error that is not an *Error has become after the first hop.
Relayed(v) ==
  /\ v = App(v.e) /\ Writable(v.e)
  /\ ~Misnumbered(origin) => http2grpcCode(v.e.code) = ServerAnswer(origin).code

HopInv ==
  \/ Silent(origin)
  \/ carried = origin /\ origin \in Origins
  \/ origin \in Origins /\ origin.kind # "app" /\ Relayed(carried)

\* The kinds of error that a service may return.
LEMMA OriginKinds ==
  ASSUME NEW v \in Origins, ~Silent(v)
  PROVE  \/ v = App(v.e) /\ Writable(v.e) /\ v.kind = "app"
         \/ /\ v.kind \in {"plain", "status"}
            /\ v.text \in {Words("text"), Json(NoError)}
            /\ v.kind = "status" => v.code \in {"NotFound", "Canceled", "Unknown"}
<1>1. CASE \E c \in Constructors, o \in CallerOptions : v = App(Built(c[1], c[2], o))
  <2>1. PICK e : v = App(e)
    BY <1>1
  <2>2. v.kind = "app" /\ v.e = e
    BY <2>1, AppKind
  <2> QED
    BY <2>1, <2>2, Zenon DEF Silent
<1>2. CASE \E m \in Messages \ {TextOf("invalid")} : v = PlainError(m)
  <2>1. PICK m \in Messages \ {TextOf("invalid")} : v = PlainError(m)
    BY <1>2, Zenon
  <2>2. v.kind = "plain" /\ v.text = m
    BY <2>1, Zenon DEF PlainError
  <2>3. m.is \notin {"empty", "blank"}
    BY <2>2 DEF Silent
  <2>4. TextOf("empty").is = "empty" /\ TextOf("blank").is = "blank"
    BY Zenon DEF TextOf
  <2> QED
    BY <2>1, <2>2, <2>3, <2>4, Zenon DEF Messages
<1>3. CASE \E c \in {"NotFound", "Canceled", "Unknown"}, m \in Messages \ {TextOf("invalid")} :
             v = StatusError(c, m)
  <2>1. PICK c \in {"NotFound", "Canceled", "Unknown"}, m \in Messages \ {TextOf("invalid")} :
             v = StatusError(c, m)
    BY <1>3
  <2>2. v.kind = "status" /\ v.text = m /\ v.code = c
    BY <2>1 DEF StatusError
  <2>3. m.is \notin {"empty", "blank"}
    BY <2>2 DEF Silent
  <2>4. TextOf("empty").is = "empty" /\ TextOf("blank").is = "blank"
    BY Zenon DEF TextOf
  <2> QED
    BY <2>1, <2>2, <2>3, <2>4, Zenon DEF Messages
<1>4. \/ \E c \in Constructors, o \in CallerOptions : v = App(Built(c[1], c[2], o))
      \/ \E m \in Messages \ {TextOf("invalid")} : v = PlainError(m)
      \/ \E c \in {"NotFound", "Canceled", "Unknown"}, m \in Messages \ {TextOf("invalid")} :
           v = StatusError(c, m)
  BY DEF Origins
<1> QED
  BY <1>1, <1>2, <1>3, <1>4, Zenon

\* The first hop of an error that is not an *Error.
LEMMA FirstHop ==
  ASSUME NEW code \in {"NotFound", "Canceled", "Unknown"},
         NEW text \in {Words("text"), Json(NoError)}
  PROVE  LET v == FromStatus([code |-> code, details |-> {}, message |-> text])
         IN /\ v = App(v.e) /\ Writable(v.e)
            /\ code = "Unknown" => http2grpcCode(v.e.code) = "Unknown"
<1> DEFINE v == FromStatus([code |-> code, details |-> {}, message |-> text])
<1>1. CASE text = Words("text")
  <2> DEFINE e == [MessageOption(NoError, text) EXCEPT !.code = Number(code), !.status = code]
  <2>1. text.is = "words"
    BY <1>1 DEF Words
  <2>2. v = App(e)
    BY <2>1, Zenon DEF FromStatus, Parse, App
  <2>3. e.message = text /\ e.code = Number(code)
    BY Zenon DEF MessageOption, NoError
  <2> HIDE DEF e, v
  <2>4. v.e = e
    BY <2>2, Zenon DEF App
  <2> QED
    BY <2>1, <2>2, <2>3, <2>4, UnknownStays, Zenon DEF Writable, v
<1>2. CASE text = Json(NoError)
  <2>1. text.is = "json" /\ text.holds = NoError
    BY <1>2 DEF Json
  <2>2. v = App(NoError)
    BY <2>1 DEF FromStatus, Parse
  <2> HIDE DEF v
  <2>3. v.e = NoError /\ NoError.code = 0 /\ NoError.message.is = "empty"
    BY <2>2, Zenon DEF App, NoError
  <2> QED
    BY <2>2, <2>3, UnknownStays, Zenon DEF Writable, v
<1> QED
  BY <1>1, <1>2, Zenon

\* A hop keeps HopInv.
LEMMA HopInvNext == HopInv /\ [HopNext]_hopVars => HopInv'
<1> SUFFICES ASSUME HopInv, Hop, ~Silent(origin) PROVE HopInv'
  BY Zenon DEF HopNext, hopVars, HopInv, Hop, Relayed, Silent, Misnumbered, ServerAnswer
<1>1. origin' = origin /\ carried' = FromStatus(ServerAnswer(carried)) /\ origin \in Origins
  BY DEF Hop, HopInv
<1>2. ASSUME carried = App(carried.e), Writable(carried.e) PROVE carried' = carried
  <2>1. carried.kind = "app"
    BY <1>2, AppKind
  <2>2. ServerAnswer(carried) = GRPCStatus(carried.e)
    BY <2>1 DEF ServerAnswer
  <2> QED
    BY <1>1, <1>2, <2>2, AppSurvives
<1>3. CASE carried = origin
  <2>1. CASE origin = App(origin.e) /\ Writable(origin.e)
    BY <1>1, <1>2, <1>3, <2>1 DEF HopInv
  <2>2. CASE /\ origin.kind \in {"plain", "status"}
             /\ origin.text \in {Words("text"), Json(NoError)}
             /\ origin.kind = "status" => origin.code \in {"NotFound", "Canceled", "Unknown"}
    <3>1. PICK code \in {"NotFound", "Canceled", "Unknown"} :
            /\ ServerAnswer(origin) = [code |-> code, details |-> {}, message |-> origin.text]
            /\ ~Misnumbered(origin) => code = "Unknown"
      BY <2>2 DEF ServerAnswer, Misnumbered
    <3>2. /\ carried' = App(carried'.e) /\ Writable(carried'.e)
          /\ code = "Unknown" => http2grpcCode(carried'.e.code) = "Unknown"
      BY <1>1, <1>3, <2>2, <3>1, FirstHop, Zenon
    <3>3. ServerAnswer(origin).code = code
      BY <3>1
    <3>4. ~Misnumbered(origin) => http2grpcCode(carried'.e.code) = ServerAnswer(origin).code
      BY <3>1, <3>2, <3>3
    <3> QED
      BY <1>1, <2>2, <3>2, <3>4, Zenon DEF HopInv, Relayed, Misnumbered, ServerAnswer
  <2> QED
    BY <1>1, <2>1, <2>2, OriginKinds
<1>4. CASE origin.kind # "app" /\ Relayed(carried)
  <2>1. carried' = carried
    BY <1>2, <1>4 DEF Relayed
  <2> QED
    BY <1>1, <1>4, <2>1, Zenon DEF HopInv, Relayed, Misnumbered, ServerAnswer
<1> QED
  BY <1>3, <1>4 DEF HopInv

\* Through any number of services an *Error stays what it is, and no error that has a text
\* becomes nil or another gRPC code.
THEOREM ErrorsSurviveHops == HopSpec => []HopsKeep
<1>1. HopInit => HopInv
  BY DEF HopInit, HopInv
<1>2. HopInv => HopsKeep
  <2> SUFFICES ASSUME HopInv, ~Silent(origin) PROVE HopsKeep
    BY DEF HopsKeep
  <2>1. CASE carried = origin /\ origin \in Origins
    <3>1. carried.kind # "nil"
      BY <2>1, OriginKinds
    <3> QED
      BY <2>1, <3>1 DEF HopsKeep
  <2>2. CASE origin \in Origins /\ origin.kind # "app" /\ Relayed(carried)
    <3>1. carried.kind = "app"
      BY <2>2, AppKind DEF Relayed
    <3>2. ServerAnswer(carried).code = http2grpcCode(carried.e.code)
      BY <3>1, Zenon DEF ServerAnswer, GRPCStatus
    <3> QED
      BY <2>2, <3>1, <3>2 DEF HopsKeep, Relayed
  <2> QED
    BY <2>1, <2>2 DEF HopInv
<1> QED
  BY <1>1, <1>2, HopInvNext, PTL DEF HopSpec

-----------------------------------------------------------------------------
(***************************************************************************)
(* The consistent hash: GetN returns the closest distinct members, for any *)
(* instances, replicas, hashes and key.                                    *)
(*                                                                         *)
(* The circle is seen from its indexes: the hash at an index is the one    *)
(* with that many below (Sorted), the loop comes by the indexes in the     *)
(* order of the distance from the key (WalkOrder), and a member is as far  *)
(* as its closest point (Closest).  GetNClosest speaks of the result; the  *)
(* invariant of the loop adds where the walk is, and that every point come *)
(* by has its member in the result (Gathered).  Once the walk has been all *)
(* around, the result has every member (AllAround), so that a loop which   *)
(* does not see its start, when that is 0, still ends while every member   *)
(* keeps a point.                                                          *)
(***************************************************************************)

\* How many numbers of a set are below one.
Rank(S, p) == Cardinality({q \in S : q < p})

\* The numbers below one of a finite set are finitely many, fewer than the set has,
\* and more for a larger one.
LEMMA RankBounds ==
  ASSUME NEW S \in SUBSET Nat, IsFiniteSet(S), NEW p \in S
  PROVE  Cardinality(S) \in Nat /\ Rank(S, p) \in 0..(Cardinality(S) - 1)
  <1> DEFINE T == {q \in S : q < p}
  <1>1. T \in SUBSET S /\ p \notin T
    OBVIOUS
  <1>2. IsFiniteSet(T) /\ Cardinality(T) <= Cardinality(S) /\ Cardinality(S) # Cardinality(T)
    BY <1>1, FS_Subset
  <1>3. Cardinality(T) \in Nat /\ Cardinality(S) \in Nat
    BY <1>2, FS_CardinalityType
  <1> HIDE DEF T
  <1>4. Cardinality(T) \in 0..(Cardinality(S) - 1)
    BY <1>2, <1>3
  <1> QED
    BY <1>3, <1>4, Zenon DEF Rank, T

LEMMA RankGrows ==
  ASSUME NEW S \in SUBSET Nat, IsFiniteSet(S), NEW p \in S, NEW o \in Nat, p < o
  PROVE  Rank(S, p) < Rank(S, o)
  <1> DEFINE T == {q \in S : q < o}
             U == {q \in S : q < p}
  <1>0. \A q \in S : q < p => q < o
    OBVIOUS
  <1>6. ~(p < p)
    OBVIOUS
  <1>1. T \in SUBSET S /\ U \in SUBSET T /\ p \in T /\ p \notin U
    BY <1>0, <1>6, Zenon
  <1>2. IsFiniteSet(T)
    BY <1>1, FS_Subset
  <1>3. IsFiniteSet(U) /\ Cardinality(U) <= Cardinality(T) /\ Cardinality(T) # Cardinality(U)
    BY <1>1, <1>2, FS_Subset
  <1>4. Cardinality(T) \in Nat /\ Cardinality(U) \in Nat
    BY <1>2, <1>3, FS_CardinalityType
  <1> HIDE DEF T, U
  <1>5. Cardinality(U) < Cardinality(T)
    BY <1>3, <1>4
  <1> QED
    BY <1>5, Zenon DEF Rank, T, U

\* Every rank is that of some number of the set.
LEMMA RankOnto ==
  ASSUME NEW S \in SUBSET Nat, IsFiniteSet(S), NEW n \in 0..(Cardinality(S) - 1)
  PROVE  \E p \in S : Rank(S, p) = n
  <1> DEFINE C == Cardinality(S)
             f == [p \in S |-> Rank(S, p)]
  <1>1. C \in Nat
    BY FS_CardinalityType
  <1>2. f \in [S -> 0..(C - 1)]
    BY RankBounds
  <1>3. \A p, o \in S : p # o => f[p] # f[o]
    <2> SUFFICES ASSUME NEW p \in S, NEW o \in S, p < o PROVE f[p] # f[o]
      BY Z3
    <2>1. Rank(S, p) < Rank(S, o) /\ Rank(S, p) \in 0..(C - 1) /\ Rank(S, o) \in 0..(C - 1)
      BY RankGrows, RankBounds
    <2> QED
      BY <1>1, <2>1
  <1>4. f \in Injection(S, 0..(C - 1))
    BY <1>2, <1>3, Zenon DEF Injection, IsInjective
  <1>5. IsFiniteSet(0..(C - 1)) /\ Cardinality(0..(C - 1)) = C
    BY <1>1, FS_Interval
  <1>6. f \in Surjection(S, 0..(C - 1))
    BY <1>4, <1>5, FS_Injection
  <1>7. \E p \in S : f[p] = n
    BY <1>6, Zenon DEF Surjection
  <1> QED
    BY <1>7


-----------------------------------------------------------------------------
\* The number of points in use, and the indexes of sortedHashes.
Size == Cardinality(Used)
Indexes == 0..(Size - 1)

\* How far from the key, going up and around, a point is; and how many turns of the
\* loop of GetN it takes to an index.
Distance(p) == (p + Points - key - 1) % Points
Position(n) == IF n >= Search(key) THEN n - Search(key) ELSE n - Search(key) + Size

Circle == circle \in [0..(Points - 1) -> Nat] /\ key \in 0..(Points - 1)

LEMMA UsedFinite ==
  ASSUME Circle
  PROVE  /\ Used \in SUBSET Nat /\ Used \in SUBSET (0..(Points - 1)) /\ IsFiniteSet(Used)
         /\ Size \in Nat /\ (Used # {} => Size > 0)
  <1>1. Used \in SUBSET (0..(Points - 1)) /\ Points \in Nat
    BY RingAssumption, Zenon DEF Circle, Used
  <1>2. IsFiniteSet(0..(Points - 1))
    BY <1>1, FS_Interval
  <1>3. IsFiniteSet(Used)
    BY <1>1, <1>2, FS_Subset, Zenon
  <1>4. Size \in Nat /\ (Used # {} => Size # 0)
    BY <1>3, FS_CardinalityType, FS_EmptySet, Zenon DEF Size
  <1>5. \A p \in 0..(Points - 1) : p \in Nat
    OBVIOUS
  <1>6. Used # {} => Size > 0
    BY <1>4
  <1> QED
    BY <1>1, <1>3, <1>4, <1>5, <1>6, Zenon

\* updateSortedHashes: the hashes in use are at the indexes, in order.
LEMMA Sorted ==
  ASSUME Circle
  PROVE  /\ \A n \in Indexes : SortedHash(n) \in Used /\ Rank(Used, SortedHash(n)) = n
         /\ \A p \in Used : \E n \in Indexes : SortedHash(n) = p
         /\ \A m, n \in Indexes : m < n <=> SortedHash(m) < SortedHash(n)
  <1>0. Used \in SUBSET Nat /\ IsFiniteSet(Used) /\ Size \in Nat
    BY UsedFinite
  <1>1. ASSUME NEW n \in Indexes PROVE SortedHash(n) \in Used /\ Rank(Used, SortedHash(n)) = n
    <2>1. \E p \in Used : Rank(Used, p) = n
      BY <1>0, RankOnto, Zenon DEF Indexes, Size
    <2> QED
      BY <2>1, Zenon DEF SortedHash, Rank
  <1>2. ASSUME NEW p \in Used, NEW o \in Used, p # o PROVE Rank(Used, p) # Rank(Used, o)
    <2>1. p \in Nat /\ o \in Nat /\ Rank(Used, p) \in Nat /\ Rank(Used, o) \in Nat
      BY <1>0, RankBounds
    <2>2. CASE p < o
      BY <1>0, <2>1, <2>2, RankGrows
    <2>3. CASE o < p
      BY <1>0, <2>1, <2>3, RankGrows
    <2> QED
      BY <1>2, <2>1, <2>2, <2>3
  <1>3. ASSUME NEW p \in Used PROVE \E n \in Indexes : SortedHash(n) = p
    <2>1. Rank(Used, p) \in Indexes
      BY <1>0, RankBounds, Zenon DEF Indexes, Size
    <2> QED
      BY <1>1, <1>2, <2>1, Zenon
  <1>4. ASSUME NEW m \in Indexes, NEW n \in Indexes PROVE m < n <=> SortedHash(m) < SortedHash(n)
    <2>1. /\ SortedHash(m) \in Used /\ SortedHash(n) \in Used
          /\ Rank(Used, SortedHash(m)) = m /\ Rank(Used, SortedHash(n)) = n
      BY <1>1, Zenon
    <2>6. SortedHash(m) \in Nat /\ SortedHash(n) \in Nat
      BY <1>0, <2>1, Zenon
    <2>7. m \in Nat /\ n \in Nat
      BY <1>0 DEF Indexes
    <2>2. m \in Nat /\ n \in Nat /\ SortedHash(m) \in Nat /\ SortedHash(n) \in Nat
      BY <2>6, <2>7
    <2>3. SortedHash(m) < SortedHash(n) => m < n
      BY <1>0, <2>1, <2>2, RankGrows, Zenon
    <2>4. SortedHash(n) < SortedHash(m) => n < m
      BY <1>0, <2>1, <2>2, RankGrows, Zenon
    <2>5. SortedHash(m) = SortedHash(n) => m = n
      BY <2>1, Zenon
    <2> HIDE DEF Indexes
    <2> QED
      BY <2>2, <2>3, <2>4, <2>5
  <1> QED
    BY <1>1, <1>3, <1>4, Zenon

\* search: at the indexes below some b are the hashes up to the key, and start is b,
\* or 0 when there is none above it.
LEMMA SearchSplits ==
  ASSUME Circle, Used # {}
  PROVE  \E b \in 0..Size :
           /\ Search(key) = IF b = Size THEN 0 ELSE b
           /\ \A n \in Indexes : SortedHash(n) <= key <=> n < b
  <1> DEFINE L == {p \in Used : p <= key}
             b == Cardinality(L)
  <1>0. Used \in SUBSET Nat /\ IsFiniteSet(Used) /\ Size \in Nat /\ key \in Nat
    BY UsedFinite DEF Circle
  <1>1. IsFiniteSet(L) /\ b <= Size
    BY <1>0, FS_Subset DEF Size
  <1>2. b \in 0..Size
    BY <1>0, <1>1, FS_CardinalityType
  <1>3. Search(key) = IF b = Size THEN 0 ELSE b
    BY DEF Search, Size
  <1>4. b = Rank(Used, key + 1)
    <2>1. \A p \in Used : p <= key <=> p < key + 1
      BY <1>0
    <2>2. L = {p \in Used : p < key + 1}
      BY <2>1, Zenon
    <2> QED
      BY <2>2, Zenon DEF Rank
  <1>5. ASSUME NEW n \in Indexes PROVE SortedHash(n) <= key <=> n < b
    <2>1. SortedHash(n) \in Used /\ Rank(Used, SortedHash(n)) = n
      BY Sorted, Zenon
    <2>6. SortedHash(n) \in Nat
      BY <1>0, <2>1, Zenon
    <2>2. SortedHash(n) \in Nat /\ key + 1 \in Nat /\ n \in Nat
      BY <1>0, <2>6 DEF Indexes
    <2>3. SortedHash(n) < key + 1 => n < b
      BY <1>0, <1>4, <2>1, <2>2, RankGrows, Zenon
    <2>4. ~(SortedHash(n) < key + 1) => b <= n
      <3> SUFFICES ASSUME ~(SortedHash(n) < key + 1) PROVE b <= n
        OBVIOUS
      <3> DEFINE T == {q \in Used : q < SortedHash(n)}
      <3>1. \A p \in Used : p <= key => p < SortedHash(n)
        BY <1>0, <2>2
      <3>2. L \in SUBSET T /\ T \in SUBSET Used
        BY <3>1, Zenon
      <3>3. IsFiniteSet(T)
        BY <1>0, <3>2, FS_Subset, Zenon
      <3>4. b <= Cardinality(T)
        BY <3>2, <3>3, FS_Subset, Zenon
      <3> QED
        BY <2>1, <3>4, Zenon DEF Rank
    <2> HIDE DEF b
    <2> QED
      BY <1>0, <1>2, <2>2, <2>3, <2>4
  <1> QED
    BY <1>2, <1>3, <1>5, Zenon


\* The distance of a point: the points above the key come first.
LEMMA DistanceIs ==
  ASSUME Circle, NEW p \in 0..(Points - 1)
  PROVE  /\ Distance(p) \in 0..(Points - 1)
         /\ Distance(p) = IF p > key THEN p - key - 1 ELSE p + Points - key - 1
  <1>1. Points \in Nat \ {0} /\ key \in 0..(Points - 1)
    BY RingAssumption DEF Circle
  <1>2. CASE p > key
    BY <1>1, <1>2 DEF Distance
  <1>3. CASE ~(p > key)
    BY <1>1, <1>3 DEF Distance
  <1> QED
    BY <1>2, <1>3

\* GetN comes by the points in the order of their distance.
LEMMA WalkOrder ==
  ASSUME Circle, Used # {}
  PROVE  /\ Search(key) \in Indexes
         /\ \A n \in Indexes : Position(n) \in Indexes
         /\ \A m, n \in Indexes :
              Position(m) < Position(n) <=> Distance(SortedHash(m)) < Distance(SortedHash(n))
  <1>0. Size \in Nat \ {0} /\ key \in 0..(Points - 1) /\ Points \in Nat
    BY UsedFinite, RingAssumption DEF Circle
  <1>1. PICK b \in 0..Size : /\ Search(key) = IF b = Size THEN 0 ELSE b
                             /\ \A n \in Indexes : SortedHash(n) <= key <=> n < b
    BY SearchSplits, Zenon
  <1>2. Search(key) \in Indexes /\ \A n \in Indexes : Position(n) \in Indexes
    BY <1>0, <1>1 DEF Indexes, Position
  <1>3. ASSUME NEW m \in Indexes, NEW n \in Indexes
        PROVE  Position(m) < Position(n) <=> Distance(SortedHash(m)) < Distance(SortedHash(n))
    <2>1. SortedHash(m) \in 0..(Points - 1) /\ SortedHash(n) \in 0..(Points - 1)
      BY Sorted, UsedFinite, Zenon
    <2>2. m < n <=> SortedHash(m) < SortedHash(n)
      BY Sorted, Zenon
    <2>3. n < m <=> SortedHash(n) < SortedHash(m)
      BY Sorted, Zenon
    <2>4. (SortedHash(m) <= key <=> m < b) /\ (SortedHash(n) <= key <=> n < b)
      BY <1>1, Zenon
    <2>5. /\ Distance(SortedHash(m)) = IF SortedHash(m) > key THEN SortedHash(m) - key - 1
                                       ELSE SortedHash(m) + Points - key - 1
          /\ Distance(SortedHash(n)) = IF SortedHash(n) > key THEN SortedHash(n) - key - 1
                                       ELSE SortedHash(n) + Points - key - 1
      BY <2>1, DistanceIs, Zenon
    <2>6. m \in 0..(Size - 1) /\ n \in 0..(Size - 1)
      BY DEF Indexes
    <2> QED
      BY <1>0, <1>1, <2>1, <2>2, <2>3, <2>4, <2>5, <2>6 DEF Position
  <1> QED
    BY <1>2, <1>3, Zenon

\* A finite set of numbers has a smallest one.
LEMMA Smallest ==
  ASSUME NEW S \in SUBSET Nat, IsFiniteSet(S), S # {}
  PROVE  \E d \in S : \A e \in S : d <= e
  <1>1. Cardinality(S) \in Nat /\ Cardinality(S) # 0
    BY FS_CardinalityType, FS_EmptySet, Zenon
  <1>2. 0 \in 0..(Cardinality(S) - 1)
    BY <1>1
  <1>3. PICK d \in S : Rank(S, d) = 0
    BY <1>2, RankOnto, Zenon
  <1>4. {q \in S : q < d} \in SUBSET S
    OBVIOUS
  <1>5. {q \in S : q < d} = {}
    BY <1>3, <1>4, FS_Subset, FS_EmptySet, Zenon DEF Rank
  <1>6. \A e \in S : ~(e < d)
    BY <1>5, Zenon
  <1> QED
    BY <1>6

\* The closeness of a member is the distance of its closest point.
LEMMA Closest ==
  ASSUME Circle, NEW m \in Survivors
  PROVE  \E p \in Used :
           /\ circle[p] = m /\ Closeness(m) = Distance(p)
           /\ \A q \in Used : circle[q] = m => Distance(p) <= Distance(q)
  <1> DEFINE of == {q \in Used : circle[q] = m}
             far == {Distance(p) : p \in of}
  <1>1. Used \in SUBSET (0..(Points - 1)) /\ Points \in Nat
    BY UsedFinite, RingAssumption
  <1>2. far \in SUBSET (0..(Points - 1))
    BY <1>1, DistanceIs, Zenon
  <1>3. IsFiniteSet(0..(Points - 1))
    BY <1>1, FS_Interval
  <1>4. IsFiniteSet(far)
    BY <1>2, <1>3, FS_Subset, Zenon
  <1>5. far # {}
    BY Zenon DEF Survivors
  <1>6. \A x \in 0..(Points - 1) : x \in Nat
    OBVIOUS
  <1>7. far \in SUBSET Nat
    BY <1>2, <1>6, Zenon
  <1> HIDE DEF far
  <1>8. \E d \in far : \A e \in far : d <= e
    BY <1>4, <1>5, <1>7, Smallest, Zenon
  <1>9. Closeness(m) \in far /\ \A e \in far : Closeness(m) <= e
    BY <1>8, Zenon DEF Closeness, far, Distance
  <1> QED
    BY <1>9, Zenon DEF far


-----------------------------------------------------------------------------
\* The types, and what each phase has left behind.
RingTypes ==
  /\ Circle
  /\ hashes \in [1..Count -> SUBSET (0..(Points - 1))]
  /\ num \in 1..(Count - 1)
  /\ count \in 0..Count
  /\ phase \in {"set", "search", "walk", "done"}
  /\ phase = "set" => count < Count
  /\ phase # "set" => num <= count
  /\ phase \in {"set", "search"} \/ Used = {} => turns = 0 /\ res = <<>>
  /\ phase = "walk" => Used # {}

\* GetN is at the index that many turns away from start, or has been all around, and
\* lacks members.
Walking ==
  /\ i \in 1..Size
  /\ turns < Size => Position(i - 1) = turns
  /\ Len(res) < num

\* What GetN has gathered: the members of all points it came by, in the order of
\* their distance.
Gathered ==
  /\ start = Search(key)
  /\ turns \in Nat
  /\ res \in Seq(Survivors) /\ Len(res) \in 1..num
  /\ res[1] = circle[SortedHash(start)]
  /\ \A n \in Indexes : Position(n) <= turns => \E k \in 1..Len(res) : res[k] = circle[SortedHash(n)]
  /\ \A j, k \in 1..Len(res) : j # k => res[j] # res[k]
  /\ \A m \in Survivors, k \in 1..Len(res) :
       Closeness(m) < Closeness(res[k]) => \E j \in 1..(k - 1) : res[j] = m

\* The inductive invariant behind GetNClosest.
RingInv ==
  /\ RingTypes
  /\ phase \in {"walk", "done"} /\ Used # {} => Gathered
  /\ phase = "walk" => Walking
  /\ phase = "done" /\ Used # {} => Len(res) = num \/ turns >= Size - 1

\* Once GetN has been all around, it has every member.
LEMMA AllAround ==
  ASSUME Circle, Used # {}, Gathered, turns >= Size - 1
  PROVE  Cardinality(Survivors) <= Len(res)
  <1>1. Size \in Nat /\ turns \in Nat /\ Len(res) \in Nat /\ start = Search(key)
    <2>1. res \in Seq(Survivors) /\ turns \in Nat /\ start = Search(key)
      BY Zenon DEF Gathered
    <2> QED
      BY <2>1, UsedFinite
  <1>2. \A n \in Indexes : Position(n) <= turns
    <2>1. \A n \in Indexes : Position(n) \in Indexes
      BY <1>1, WalkOrder, Zenon
    <2>2. \A x \in Indexes : x <= turns
      BY <1>1 DEF Indexes
    <2> QED
      BY <2>1, <2>2, Zenon
  <1>3. \A m \in Survivors : \E k \in 1..Len(res) : res[k] = m
    <2> SUFFICES ASSUME NEW m \in Survivors PROVE \E k \in 1..Len(res) : res[k] = m
      OBVIOUS
    <2>1. PICK p \in Used : circle[p] = m
      BY Zenon DEF Survivors
    <2>2. PICK n \in Indexes : SortedHash(n) = p
      BY Sorted, Zenon
    <2> QED
      BY <1>2, <2>1, <2>2, Zenon DEF Gathered
  <1>4. res \in [1..Len(res) -> Survivors]
    BY DEF Gathered
  <1>5. res \in Surjection(1..Len(res), Survivors)
    BY <1>3, <1>4, Zenon DEF Surjection
  <1>6. ExistsSurjection(1..Len(res), Survivors)
    BY <1>5, Zenon DEF ExistsSurjection
  <1> QED
    BY <1>1, <1>6, FS_SurjCardinalityBound, Zenon


\* The index that many turns away.
LEMMA TurnsTo ==
  ASSUME Size \in Nat \ {0}, Search(key) \in Indexes, NEW x \in Indexes
  PROVE  /\ (Search(key) + x) % Size \in Indexes /\ Position((Search(key) + x) % Size) = x
         /\ (Search(key) + Position(x)) % Size = x
         /\ Position(x) = 0 => x = Search(key)
  <1>1. Search(key) \in 0..(Size - 1) /\ x \in 0..(Size - 1)
    BY DEF Indexes
  <1>2. (Search(key) + x) % Size = IF Search(key) + x < Size THEN Search(key) + x ELSE Search(key) + x - Size
    BY <1>1
  <1>3. (Search(key) + Position(x)) % Size = x
    <2>1. CASE x >= Search(key)
      BY <1>1, <2>1 DEF Position
    <2>2. CASE ~(x >= Search(key))
      BY <1>1, <2>2 DEF Position
    <2> QED
      BY <2>1, <2>2
  <1> QED
    BY <1>1, <1>2, <1>3 DEF Position, Indexes

\* The first two of GetN are those of GetTwo.
LEMMA LikeGetTwo ==
  ASSUME Circle, Used # {}, Gathered, num <= count, num \in Nat, count \in Nat
  PROVE  \A k \in {1, 2} \cap 1..Len(res) : k <= Len(GetTwo) /\ res[k] = GetTwo[k]
  <1> DEFINE at(n) == circle[SortedHash((Search(key) + n) % Size)]
             other == {n \in 1..(Size - 1) : at(n) # GetOne}
             c == CHOOSE n \in other : \A k \in other : n <= k
  <1>1. /\ start = Search(key) /\ res \in Seq(Survivors) /\ Len(res) \in 1..num
        /\ GetOne = res[1]
    BY Zenon DEF Gathered, GetOne
  <1>2. Size \in Nat \ {0} /\ Search(key) \in Indexes
    BY <1>1, UsedFinite, WalkOrder
  <1>3. GetTwo = IF count = 1 \/ other = {} THEN <<GetOne>> ELSE <<GetOne, at(c)>>
    BY Zenon DEF GetTwo, Size
  <1>4. ASSUME 2 \in 1..Len(res)
        PROVE  count # 1 /\ other # {} /\ at(c) = res[2]
    <2>1. count # 1
      BY <1>1, <1>4
    <2>2. res[2] \in Survivors /\ res[1] # res[2]
      <3>1. 1 \in 1..Len(res) /\ 1 # 2
        BY <1>4
      <3>2. res[2] \in Survivors
        BY <1>1, <1>4
      <3> QED
        BY <1>4, <3>1, <3>2, Zenon DEF Gathered
    <2>3. PICK p \in Used : circle[p] = res[2] /\ Closeness(res[2]) = Distance(p)
      BY <2>2, Closest, Zenon
    <2>4. PICK n \in Indexes : SortedHash(n) = p
      BY Sorted, Zenon
    <2>5. Position(n) \in Indexes /\ Position(n) # 0 /\ (Search(key) + Position(n)) % Size = n
      <3>1. Position(n) \in Indexes
        BY <1>1, WalkOrder, Zenon
      <3>2. n # Search(key)
        BY <1>1, <2>2, <2>3, <2>4, Zenon DEF Gathered
      <3> QED
        BY <1>2, <3>1, <3>2, TurnsTo, Zenon
    <2>6. Position(n) \in other
      <3>1. Position(n) \in 1..(Size - 1)
        BY <1>2, <2>5 DEF Indexes
      <3> QED
        BY <1>1, <2>2, <2>3, <2>4, <2>5, <3>1, Zenon
    <2>7. other \in SUBSET Nat /\ IsFiniteSet(other)
      <3>1. other \in SUBSET (1..(Size - 1)) /\ \A x \in 1..(Size - 1) : x \in Nat
        OBVIOUS
      <3>2. IsFiniteSet(1..(Size - 1))
        BY <1>2, FS_Interval
      <3> QED
        BY <3>1, <3>2, FS_Subset, Zenon
    <2>8. c \in other /\ c <= Position(n)
      <3> HIDE DEF other
      <3>1. \E d \in other : \A e \in other : d <= e
        BY <2>6, <2>7, Smallest, Zenon
      <3> QED
        BY <2>6, <3>1, Zenon
    <2>9. c \in 1..(Size - 1) /\ at(c) # res[1]
      BY <1>1, <2>8, Zenon
    <2> HIDE DEF c
    <2>10. ASSUME at(c) # res[2] PROVE FALSE
      <3> DEFINE o == (Search(key) + c) % Size
      <3>1. c \in Indexes
        BY <1>2, <2>9 DEF Indexes
      <3>2. o \in Indexes /\ Position(o) = c
        BY <1>2, <3>1, TurnsTo, Zenon
      <3>3. at(c) = circle[SortedHash(o)] /\ SortedHash(o) \in Used
        BY <1>1, <3>2, Sorted, Zenon
      <3> HIDE DEF o
      <3>4. at(c) \in Survivors
        BY <3>3, Zenon DEF Survivors
      <3>5. PICK q \in Used : /\ Closeness(at(c)) = Distance(q)
                              /\ Distance(q) <= Distance(SortedHash(o))
        BY <3>3, <3>4, Closest, Zenon
      <3>6. o # n
        BY <2>3, <2>4, <2>10, <3>3, Zenon
      <3>7. Position(o) < Position(n)
        <4>1. Position(o) # Position(n)
          BY <1>2, <3>2, <3>6, TurnsTo, Zenon
        <4>2. c \in Nat /\ Position(n) \in Nat
          BY <1>2, <2>5, <2>9 DEF Indexes
        <4> QED
          BY <2>8, <3>2, <4>1, <4>2
      <3>8. Distance(SortedHash(o)) < Distance(p)
        BY <1>1, <2>4, <3>2, <3>7, WalkOrder, Zenon
      <3>9. Closeness(at(c)) < Closeness(res[2])
        <4>1. /\ Distance(q) \in 0..(Points - 1) /\ Distance(p) \in 0..(Points - 1)
              /\ Distance(SortedHash(o)) \in 0..(Points - 1)
          BY <3>3, UsedFinite, DistanceIs, Zenon
        <4>2. Distance(q) < Distance(p)
          BY <3>5, <3>8, <4>1
        <4> QED
          BY <2>3, <3>5, <4>2, Zenon
      <3> HIDE DEF at
      <3>10. \E j \in 1..(2 - 1) : res[j] = at(c)
        BY <1>4, <3>4, <3>9, Zenon DEF Gathered
      <3>11. \A j \in 1..(2 - 1) : j = 1
        OBVIOUS
      <3> QED
        BY <2>9, <3>10, <3>11, Zenon
    <2> QED
      BY <2>1, <2>6, <2>10, Zenon
  <1> HIDE DEF at, other, c
  <1>5. ASSUME 2 \notin 1..Len(res) PROVE 1 <= Len(GetTwo) /\ GetTwo[1] = GetOne
    BY <1>3
  <1>6. ASSUME 2 \in 1..Len(res) PROVE Len(GetTwo) = 2 /\ GetTwo[1] = res[1] /\ GetTwo[2] = res[2]
    BY <1>1, <1>3, <1>4, <1>6
  <1> QED
    BY <1>1, <1>5, <1>6


\* What the invariant says of the result.
LEMMA RingImplies == RingInv => GetNClosest
  <1> SUFFICES ASSUME RingInv PROVE GetNClosest
    OBVIOUS
  <1>1. /\ Circle /\ num \in 1..(Count - 1) /\ count \in 0..Count /\ Count \in Nat
        /\ phase # "set" => num <= count
    BY RingAssumption DEF RingInv, RingTypes, Count
  <1>2. Size \in Nat /\ num \in Nat \ {0} /\ count \in Nat
    BY <1>1, UsedFinite
  <1>3. ASSUME phase = "walk", Cardinality(Survivors) = count PROVE turns < Size
    <2>1. Used # {} /\ Gathered /\ Walking /\ num <= count
      BY <1>1, <1>3, Zenon DEF RingInv, RingTypes
    <2>2. turns \in Nat /\ Len(res) \in Nat /\ Len(res) < num
      BY <2>1, <1>2 DEF Gathered, Walking
    <2>3. turns >= Size - 1 => count <= Len(res)
      BY <1>1, <1>3, <2>1, AllAround, Zenon
    <2> QED
      BY <1>2, <2>1, <2>2, <2>3
  <1>4. CASE phase = "done" /\ Used = {}
    <2>1. res = <<>> /\ num <= count
      BY <1>1, <1>4, Zenon DEF RingInv, RingTypes
    <2>2. Survivors = {}
      BY <1>4, Zenon DEF Survivors
    <2>3. Cardinality(Survivors) # count
      BY <1>2, <2>1, <2>2, FS_EmptySet
    <2>4. \A k \in 1..Len(res) : FALSE
      BY <2>1
    <2> QED
      BY <1>4, <2>3, <2>4, Zenon DEF GetNClosest
  <1>5. CASE phase = "done" /\ Used # {}
    <2>1. Gathered /\ num <= count /\ (Len(res) = num \/ turns >= Size - 1)
      BY <1>1, <1>5, Zenon DEF RingInv
    <2>2. Cardinality(Survivors) = count => Len(res) = num
      <3>1. Len(res) \in Nat /\ Len(res) <= num
        <4>1. Len(res) \in 1..num
          BY <2>1, Zenon DEF Gathered
        <4> QED
          BY <1>2, <4>1
      <3>2. turns >= Size - 1 => Cardinality(Survivors) <= Len(res)
        BY <1>1, <1>5, <2>1, AllAround, Zenon
      <3> QED
        BY <1>2, <2>1, <3>1, <3>2
    <2>3. \A k \in {1, 2} \cap 1..Len(res) : k <= Len(GetTwo) /\ res[k] = GetTwo[k]
      BY <1>1, <1>2, <1>5, <2>1, LikeGetTwo, Zenon
    <2>4. \A k \in 1..Len(res) : res[k] \in Survivors
      <3>1. res \in Seq(Survivors)
        BY <2>1, Zenon DEF Gathered
      <3> QED
        BY <3>1
    <2>5. phase # "walk"
      BY <1>5, Zenon
    <2> QED
      BY <2>1, <2>2, <2>3, <2>4, <2>5, Zenon DEF GetNClosest, Gathered
  <1>6. CASE phase # "done"
    BY <1>3, <1>6, Zenon DEF GetNClosest, Size
  <1> QED
    BY <1>4, <1>5, <1>6

\* The circle and the key tell everything but the walk.
LEMMA SameCircle ==
  ASSUME circle' = circle, key' = key
  PROVE  /\ Circle' = Circle /\ Used' = Used /\ Size' = Size /\ Indexes' = Indexes
         /\ Search(key)' = Search(key) /\ Survivors' = Survivors
         /\ \A n : SortedHash(n)' = SortedHash(n) /\ Position(n)' = Position(n)
         /\ \A m : Closeness(m)' = Closeness(m)
  <1>1. Used' = Used
    BY Zenon DEF Used
  <1>2. /\ Size' = Size /\ Search(key)' = Search(key) /\ Circle' = Circle
        /\ \A n : SortedHash(n)' = SortedHash(n)
    BY <1>1 DEF Size, Search, Circle, SortedHash
  <1>3. Indexes' = Indexes /\ (\A n : Position(n)' = Position(n)) /\ Survivors' = Survivors
    BY <1>1, <1>2, Zenon DEF Indexes, Position, Survivors
  <1>4. \A m : Closeness(m)' = Closeness(m)
    BY <1>1 DEF Closeness
  <1> QED
    BY <1>1, <1>2, <1>3, <1>4, Zenon

\* A member that is closer than that of an index was come by before.
LEMMA Closer ==
  ASSUME Circle, Used # {}, NEW x \in Indexes, NEW m \in Survivors,
         Closeness(m) < Closeness(circle[SortedHash(x)])
  PROVE  \E n \in Indexes : Position(n) < Position(x) /\ circle[SortedHash(n)] = m
  <1>1. SortedHash(x) \in Used /\ circle[SortedHash(x)] \in Survivors
    BY Sorted, Zenon DEF Survivors
  <1>2. PICK q \in Used : /\ Closeness(circle[SortedHash(x)]) = Distance(q)
                          /\ Distance(q) <= Distance(SortedHash(x))
    BY <1>1, Closest, Zenon
  <1>3. PICK p \in Used : circle[p] = m /\ Closeness(m) = Distance(p)
    BY Closest, Zenon
  <1>4. PICK n \in Indexes : SortedHash(n) = p
    BY Sorted, Zenon
  <1>5. /\ Distance(q) \in 0..(Points - 1) /\ Distance(p) \in 0..(Points - 1)
        /\ Distance(SortedHash(x)) \in 0..(Points - 1)
    BY <1>1, UsedFinite, DistanceIs, Zenon
  <1>6. Distance(p) < Distance(q)
    BY <1>2, <1>3, Zenon
  <1>7. Distance(p) < Distance(SortedHash(x))
    BY <1>2, <1>5, <1>6
  <1> QED
    BY <1>3, <1>4, <1>7, WalkOrder, Zenon


\* An empty circle.
LEMMA RingStart == RingInit => RingInv
  <1> SUFFICES ASSUME RingInit PROVE RingInv
    OBVIOUS
  <1>1. Count \in Nat /\ num \in 1..(Count - 1)
    BY RingAssumption DEF RingInit, Count
  <1>2. Circle
    BY DEF RingInit, Circle
  <1>3. hashes \in [1..Count -> SUBSET (0..(Points - 1))]
    BY DEF RingInit
  <1>4. count \in 0..Count /\ count < Count
    BY <1>1 DEF RingInit
  <1> QED
    BY <1>1, <1>2, <1>3, <1>4, Zenon DEF RingInit, RingInv, RingTypes

\* add, Remove, and GetN of an empty circle.
LEMMA BuildKeeps == RingInv /\ (Add \/ RemoveMember \/ GetEmpty) => RingInv'
  <1> SUFFICES ASSUME RingInv, Add \/ RemoveMember \/ GetEmpty PROVE RingInv'
    OBVIOUS
  <1>1. RingTypes /\ Count \in Nat
    BY RingAssumption DEF RingInv, Count
  <1>2. CASE Add
    <2>5. /\ count \in 0..Count /\ count < Count /\ num \in 1..(Count - 1) /\ num' = num
          /\ count' = count + 1 /\ phase' = IF count' = Count THEN "search" ELSE "set"
      BY <1>1, <1>2, Zenon DEF RingTypes, Add
    <2>1. Inss[count + 1] \in Nat
      BY <2>5, RingAssumption DEF Count
    <2>2. Circle'
      BY <1>1, <1>2, <2>1, Zenon DEF RingTypes, Circle, Add
    <2>3. /\ count' \in 0..Count /\ phase' \in {"set", "search"}
          /\ phase' = "set" => count' < Count
          /\ phase' # "set" => num <= count'
      BY <1>1, <2>5
    <2>4. turns = 0 /\ res = <<>>
      BY <1>1, <1>2, Zenon DEF RingTypes, Add
    <2> QED
      BY <1>1, <1>2, <2>2, <2>3, <2>4, Zenon DEF RingTypes, RingInv, Add
  <1>3. CASE RemoveMember
    <2>4. PICK m \in 1..Count :
            circle' = [p \in DOMAIN circle |-> IF p \in hashes[m] THEN 0 ELSE circle[p]]
      BY <1>3, Zenon DEF RemoveMember
    <2>5. circle \in [0..(Points - 1) -> Nat] /\ key \in 0..(Points - 1) /\ key' = key
      BY <1>1, <1>3, Zenon DEF RingTypes, Circle, RemoveMember
    <2>1. Circle'
      BY <2>4, <2>5 DEF Circle
    <2>3. count = Count /\ count' = count - 1 /\ num \in 1..(Count - 1)
      BY <1>1, <1>3, Zenon DEF RingTypes, RemoveMember
    <2>2. count' \in 0..Count /\ num <= count'
      BY <1>1, <2>3
    <2> QED
      BY <1>1, <1>3, <2>1, <2>2, Zenon DEF RingTypes, RingInv, RemoveMember
  <1>4. CASE GetEmpty
    <2>1. Used' = Used /\ Circle'
      BY <1>1, <1>4, SameCircle, Zenon DEF GetEmpty, RingTypes
    <2> QED
      BY <1>1, <1>4, <2>1, Zenon DEF RingTypes, RingInv, GetEmpty
  <1> QED
    BY <1>2, <1>3, <1>4

\* GetN: the first member is that of the closest point.
LEMMA FirstKeeps == RingInv /\ GetFirst => RingInv'
  <1> SUFFICES ASSUME RingInv, GetFirst PROVE RingInv'
    OBVIOUS
  <1> DEFINE x == Search(key)
             e == circle[SortedHash(x)]
  <1>1. /\ RingTypes /\ Used # {} /\ Circle /\ phase = "search" /\ turns = 0 /\ turns' = turns
        /\ start' = x /\ res' = <<e>> /\ i' = x + 1
        /\ phase' = IF num = 1 THEN "done" ELSE "walk"
        /\ UNCHANGED <<hashes, key, num, circle, count>>
    BY Zenon DEF RingInv, RingTypes, GetFirst
  <1>2. /\ Circle' /\ Used' = Used /\ Size' = Size /\ Indexes' = Indexes
        /\ Search(key)' = x /\ Survivors' = Survivors
        /\ \A n : SortedHash(n)' = SortedHash(n) /\ Position(n)' = Position(n)
        /\ \A m : Closeness(m)' = Closeness(m)
    BY <1>1, SameCircle, Zenon
  <1>3. Size \in Nat \ {0} /\ x \in Indexes /\ Position(x) = 0 /\ num \in Nat \ {0}
    <2>1. Size \in Nat \ {0} /\ x \in Indexes
      BY <1>1, UsedFinite, WalkOrder
    <2>2. num \in Nat \ {0}
      BY <1>1, RingAssumption DEF RingTypes, Count
    <2> HIDE DEF x
    <2>3. Position(x) = 0
      BY <2>1 DEF Position, Indexes, x
    <2> QED
      BY <2>1, <2>2, <2>3
  <1>4. e \in Survivors
    BY <1>1, <1>3, Sorted, Zenon DEF Survivors
  <1> HIDE DEF x, e
  <1>5. res' \in Seq(Survivors) /\ Len(res') = 1 /\ res'[1] = e /\ \A k \in 1..Len(res') : k = 1
    BY <1>1, <1>4
  <1>6. ASSUME NEW n \in Indexes, Position(n) <= 0 PROVE n = x
    <2>1. Position(n) \in Indexes
      BY <1>1, WalkOrder, Zenon
    <2>2. Position(n) = 0
      BY <1>3, <1>6, <2>1 DEF Indexes
    <2> QED
      BY <1>3, <2>2, TurnsTo, Zenon DEF x
  <1>7. ASSUME NEW m \in Survivors, Closeness(m) < Closeness(e) PROVE FALSE
    <2>1. PICK n \in Indexes : Position(n) < Position(x)
      BY <1>1, <1>3, <1>7, Closer, Zenon DEF e
    <2>2. Position(n) \in Indexes
      BY <1>1, WalkOrder, Zenon
    <2> QED
      BY <1>3, <2>1, <2>2 DEF Indexes
  <1>8. Gathered'
    <2>1. 1 \in 1..Len(res') /\ Len(res') \in 1..num' /\ turns' \in Nat
      BY <1>1, <1>3, <1>5
    <2>2. \A n \in Indexes : Position(n) <= turns' => res'[1] = circle'[SortedHash(n)]
      BY <1>1, <1>5, <1>6, Zenon DEF e
    <2> QED
      BY <1>1, <1>2, <1>5, <1>7, <2>1, <2>2, ZenonT(40) DEF Gathered, e
  <1>9. phase' = "walk" => Walking'
    <2>1. x + 1 \in 1..Size /\ x + 1 - 1 = x
      BY <1>3 DEF Indexes
    <2>2. num # 1 => 1 < num
      BY <1>3
    <2>3. i' \in 1..Size' /\ Position(i - 1)' = turns'
      <3>1. i' - 1 = x
        BY <1>1, <1>3 DEF Indexes
      <3> QED
        BY <1>1, <1>2, <1>3, <2>1, <3>1, Zenon
    <2>4. phase' = "walk" => Len(res') < num'
      BY <1>1, <1>5, <2>2, Zenon
    <2> QED
      BY <2>3, <2>4, Zenon DEF Walking
  <1>10. RingTypes'
    BY <1>1, <1>2, Zenon DEF RingTypes
  <1> QED
    BY <1>1, <1>5, <1>8, <1>9, <1>10, Zenon DEF RingInv


\* The circle has at most as many points in use as there are.
LEMMA SizeBound ==
  ASSUME Circle
  PROVE  Size <= Points
  <1>1. Points \in Nat \ {0}
    BY RingAssumption DEF Circle
  <1>2. IsFiniteSet(0..(Points - 1)) /\ Cardinality(0..(Points - 1)) = Points
    BY <1>1, FS_Interval
  <1> QED
    BY <1>2, UsedFinite, FS_Subset, ZenonT(30) DEF Size

\* GetN: where the next turn of the loop comes to.
LEMMA NextIndex ==
  ASSUME Circle, Used # {}, Walking, turns \in Nat, NEW at, at = IF i >= Size THEN 0 ELSE i
  PROVE  /\ i = Search(key) => turns >= Size - 1
         /\ i # Search(key) => /\ at \in Indexes
                               /\ turns + 1 < Size => Position(at) = turns + 1
  <1>1. /\ Size \in Nat \ {0} /\ Search(key) \in 0..(Size - 1)
        /\ i \in 1..Size /\ (turns < Size => Position(i - 1) = turns)
    BY UsedFinite, WalkOrder DEF Walking, Indexes
  <1>2. Position(i - 1) = IF i - 1 >= Search(key) THEN i - 1 - Search(key) ELSE i - 1 - Search(key) + Size
    BY DEF Position
  <1>3. Position(at) = IF at >= Search(key) THEN at - Search(key) ELSE at - Search(key) + Size
    BY DEF Position
  <1>4. at \in Indexes
    BY <1>1 DEF Indexes
  <1> QED
    BY <1>1, <1>2, <1>3, <1>4

\* GetN: a turn of the loop leaves what was gathered, or adds the member of the next
\* point when it is new.
LEMMA NextKeeps == RingInv /\ GetNext => RingInv'
  <1> SUFFICES ASSUME RingInv, GetNext PROVE RingInv'
    OBVIOUS
  <1>1. /\ RingTypes /\ Used # {} /\ Circle /\ phase = "walk" /\ Gathered /\ Walking
        /\ start = Search(key) /\ turns \in Nat /\ res \in Seq(Survivors)
        /\ UNCHANGED <<hashes, key, num, circle, count, start>>
    BY Zenon DEF RingInv, RingTypes, GetNext, Gathered
  <1>2. /\ Circle' /\ Used' = Used /\ Size' = Size /\ Indexes' = Indexes
        /\ Search(key)' = Search(key) /\ Survivors' = Survivors
        /\ \A n : SortedHash(n)' = SortedHash(n) /\ Position(n)' = Position(n)
        /\ \A m : Closeness(m)' = Closeness(m)
    BY <1>1, SameCircle, Zenon
  <1>3. /\ Size \in Nat \ {0} /\ Points \in Nat /\ Size <= Points /\ num \in Nat
        /\ Len(res) \in Nat \ {0} /\ Len(res) < num
    <2>1. Len(res) \in 1..num /\ Len(res) < num /\ num \in 1..(Count - 1)
      BY <1>1, Zenon DEF Gathered, Walking, RingTypes
    <2> QED
      BY <1>1, <2>1, UsedFinite, SizeBound, RingAssumption
  <1>4. /\ turns' \in Nat /\ turns <= turns'
        /\ turns' = turns + 1 \/ (turns' = turns /\ turns >= Size)
    BY <1>1, <1>3 DEF GetNext, Turn
  <1>5. \A n \in Indexes : Position(n) \in Indexes
    BY <1>1, WalkOrder, Zenon
  <1>6. CASE i = start
    <2>1. phase' = "done" /\ res' = res
      BY <1>6, Zenon DEF GetNext
    <2>2. turns >= Size - 1
      BY <1>1, <1>6, NextIndex, Zenon
    <2>3. turns' >= Size - 1 /\ \A y \in Indexes : y <= turns
      BY <1>1, <1>3, <1>4, <2>2 DEF Indexes
    <2>4. Gathered'
      BY <1>1, <1>2, <1>4, <1>5, <2>1, <2>3, ZenonT(30) DEF Gathered
    <2>5. RingTypes'
      BY <1>1, <1>2, <2>1, Zenon DEF RingTypes
    <2> QED
      BY <1>2, <2>1, <2>3, <2>4, <2>5, Zenon DEF RingInv
  <1>7. CASE i # start
    <2> DEFINE at == IF i >= Size THEN 0 ELSE i
               elem == circle[SortedHash(at)]
    <2>1. /\ res' = IF \E k \in 1..Len(res) : res[k] = elem THEN res ELSE Append(res, elem)
          /\ phase' = IF Len(res') = num THEN "done" ELSE "walk"
          /\ i' = at + 1
      BY <1>7, Zenon DEF GetNext, Size
    <2>2. at \in Indexes /\ (turns + 1 < Size => Position(at) = turns + 1)
      <3>1. i # Search(key)
        BY <1>1, <1>7, Zenon
      <3> QED
        BY <1>1, <3>1, NextIndex
    <2> HIDE DEF at
    <2>3. elem \in Survivors
      BY <1>1, <2>2, Sorted, Zenon DEF Survivors
    <2> HIDE DEF elem
    <2>4. ASSUME NEW n \in Indexes, Position(n) <= turns'
          PROVE  Position(n) <= turns \/ n = at
      <3>1. Position(n) \in Indexes
        BY <1>5, Zenon
      <3>2. CASE ~(Position(n) <= turns)
        <4>1. turns + 1 < Size /\ Position(n) = turns + 1
          BY <1>1, <1>3, <1>4, <2>4, <3>1, <3>2 DEF Indexes
        <4>2. Position(at) = Position(n)
          BY <2>2, <4>1, Zenon
        <4> QED
          BY <1>1, <1>3, <2>2, <4>2, TurnsTo, WalkOrder, Zenon
      <3> QED
        BY <3>2
    <2>5. ASSUME NEW n \in Indexes, Position(n) <= turns
          PROVE  \E k \in 1..Len(res) : res[k] = circle[SortedHash(n)]
      BY <1>1, <2>5, Zenon DEF Gathered
    <2>6. Gathered'
      <3>1. CASE \E k \in 1..Len(res) : res[k] = elem
        <4>1. res' = res
          BY <2>1, <3>1, Zenon
        <4>2. \A n \in Indexes : Position(n) <= turns' => \E k \in 1..Len(res) : res[k] = circle[SortedHash(n)]
          BY <2>4, <2>5, <3>1, Zenon DEF elem
        <4> QED
          BY <1>1, <1>2, <1>4, <4>1, <4>2, Zenon DEF Gathered
      <3>2. CASE ~\E k \in 1..Len(res) : res[k] = elem
        <4>1. res' = Append(res, elem)
          BY <2>1, <3>2, Zenon
        <4>2. /\ res' \in Seq(Survivors) /\ Len(res') = Len(res) + 1
              /\ res'[Len(res) + 1] = elem
              /\ \A k \in 1..Len(res) : res'[k] = res[k] /\ k \in 1..Len(res')
          BY <1>1, <2>3, <4>1
        <4>3. /\ \A k \in 1..Len(res') : k \in 1..Len(res) \/ k = Len(res) + 1
              /\ Len(res) + 1 \in 1..Len(res') /\ Len(res') \in 1..num /\ 1 \in 1..Len(res)
          BY <1>3, <4>2
        <4>4. \A n \in Indexes : Position(n) <= turns' => \E k \in 1..Len(res') : res'[k] = circle[SortedHash(n)]
          BY <2>4, <2>5, <4>2, <4>3, Zenon DEF elem
        <4>5. \A j, k \in 1..Len(res') : j # k => res'[j] # res'[k]
          <5>1. \A j, k \in 1..Len(res) : j # k => res'[j] # res'[k]
            BY <1>1, <4>2, Zenon DEF Gathered
          <5>2. \A j \in 1..Len(res) : res'[j] # res'[Len(res) + 1]
            BY <3>2, <4>2, Zenon
          <5> QED
            BY <4>3, <5>1, <5>2, Zenon
        <4>6. Position(at) = turns + 1
          <5>1. Position(at) \in Indexes /\ ~(Position(at) <= turns)
            BY <1>5, <2>2, <2>5, <3>2, Zenon DEF elem
          <5>2. turns + 1 < Size
            BY <1>1, <1>3, <5>1 DEF Indexes
          <5> QED
            BY <2>2, <5>2
        <4>7. ASSUME NEW m \in Survivors, Closeness(m) < Closeness(elem)
              PROVE  \E j \in 1..Len(res) : res[j] = m
          <5>1. PICK n \in Indexes : Position(n) < Position(at) /\ circle[SortedHash(n)] = m
            BY <1>1, <2>2, <4>7, Closer, Zenon DEF elem
          <5>2. Position(n) \in Indexes
            BY <1>5, Zenon
          <5>3. Position(n) <= turns
            BY <1>1, <1>3, <4>6, <5>1, <5>2 DEF Indexes
          <5> QED
            BY <2>5, <5>1, <5>3, Zenon
        <4>8. ASSUME NEW m \in Survivors, NEW k \in 1..Len(res'), Closeness(m) < Closeness(res'[k])
              PROVE  \E j \in 1..(k - 1) : res'[j] = m
          <5>1. CASE k \in 1..Len(res)
            <6>1. PICK j \in 1..(k - 1) : res[j] = m
              BY <1>1, <4>2, <4>8, <5>1, Zenon DEF Gathered
            <6>2. j \in 1..Len(res)
              BY <1>3, <5>1
            <6> QED
              BY <4>2, <6>1, <6>2, Zenon
          <5>2. CASE k = Len(res) + 1
            <6>1. PICK j \in 1..Len(res) : res[j] = m
              BY <4>2, <4>7, <4>8, <5>2, Zenon
            <6>2. j \in 1..(k - 1)
              BY <1>3, <5>2
            <6> QED
              BY <4>2, <6>1, <6>2, Zenon
          <5> QED
            BY <4>3, <5>1, <5>2, Zenon
        <4>9. res'[1] = circle[SortedHash(start)]
          BY <1>1, <4>2, <4>3, Zenon DEF Gathered
        <4> QED
          BY <1>1, <1>2, <1>4, <4>2, <4>3, <4>4, <4>5, <4>8, <4>9, Zenon DEF Gathered
      <3> QED
        BY <3>1, <3>2, Zenon
    <2>7. phase' = "walk" => Walking'
      <3>1. at + 1 \in 1..Size /\ at + 1 - 1 = at
        BY <1>3, <2>2 DEF Indexes
      <3>2. Len(res') \in 1..num
        BY <1>1, <2>6, Zenon DEF Gathered
      <3>3. Len(res') # num => Len(res') < num
        BY <1>3, <3>2
      <3>4. turns' < Size => turns' = turns + 1 /\ turns + 1 < Size
        BY <1>1, <1>3, <1>4
      <3>5. i' \in 1..Size' /\ (turns' < Size' => Position(i - 1)' = turns')
        <4>1. i' - 1 = at
          BY <1>3, <2>1, <2>2 DEF Indexes
        <4> QED
          BY <1>2, <2>1, <2>2, <3>1, <3>4, <4>1, Zenon
      <3> QED
        BY <1>1, <2>1, <3>3, <3>5, Zenon DEF Walking
    <2>8. RingTypes'
      BY <1>1, <1>2, <2>1, Zenon DEF RingTypes
    <2> QED
      BY <1>1, <2>1, <2>6, <2>7, <2>8, Zenon DEF RingInv
  <1> QED
    BY <1>6, <1>7

\* GetN returns what its comment says, on every circle and for every key: the theorem
\* behind GetNClosest.
THEOREM RingClosest == RingSpec => []GetNClosest
  <1>1. RingInv /\ [RingNext]_ringVars => RingInv'
    <2> SUFFICES ASSUME RingInv, UNCHANGED ringVars PROVE RingInv'
      BY BuildKeeps, FirstKeeps, NextKeeps, Zenon DEF RingNext
    <2>1. circle' = circle /\ key' = key
      BY DEF ringVars
    <2>2. /\ Circle' = Circle /\ Used' = Used /\ Size' = Size /\ Indexes' = Indexes
          /\ Search(key)' = Search(key) /\ Survivors' = Survivors
          /\ \A n : SortedHash(n)' = SortedHash(n) /\ Position(n)' = Position(n)
          /\ \A m : Closeness(m)' = Closeness(m)
      BY <2>1, SameCircle, Zenon
    <2>3. RingTypes'
      BY <2>2, Zenon DEF ringVars, RingInv, RingTypes
    <2>4. Gathered => Gathered'
      BY <2>2, ZenonT(30) DEF ringVars, Gathered
    <2>5. Walking => Walking'
      BY <2>2, Zenon DEF ringVars, Walking
    <2> QED
      BY <2>2, <2>3, <2>4, <2>5, ZenonT(30) DEF ringVars, RingInv
  <1> QED
    BY <1>1, RingStart, RingImplies, PTL DEF RingSpec

-----------------------------------------------------------------------------
(* The gRPC resolver.                                                      *)

\* The addresses are those of the last list, or a list is on its way to them: signalled
\* by the watcher, or in the hands of watch.
UpToDate ==
  event \/ IF watching = "update" THEN got = svc ELSE addrs \in Subsets(Filtered(svc))

\* watch runs only on a watcher that Build has got.
ResolverInv ==
  /\ event \in BOOLEAN /\ stopped \in BOOLEAN
  /\ watching # "off" => build = "ok"
  /\ build = "ok" => getter = "watcher"
  /\ getter = "watcher" /\ ~stopped => UpToDate

\* watch, update and the watcher they read: until Close stops the watcher, a list that
\* the service has published last is behind the addresses of the connection, or is on
\* its way there, and no older list can replace it.
ListsArrive == build = "ok" /\ ~stopped => UpToDate

\* No list of the service is lost on its way to the connection, for any instances,
\* lists and subset size, whenever the service changes.
THEOREM ResolverMissesNothing == ResolverSpec => []ListsArrive
<1>1. ResolverInit => ResolverInv
  BY Zenon DEF ResolverInit, ResolverInv
<1>2. ResolverInv /\ [ResolverNext]_resolverVars => ResolverInv'
  <2> SUFFICES ASSUME ResolverInv, [ResolverNext]_resolverVars PROVE ResolverInv'
    OBVIOUS
  <2> USE DEF ResolverInv, UpToDate
  <2>1. CASE UNCHANGED resolverVars
    BY <2>1, Zenon DEF resolverVars
  <2>2. CASE GetWatcher
    BY <2>2, Zenon DEF GetWatcher
  <2>3. CASE BuildDone \/ BuildTimeout
    <3>1. UNCHANGED <<event, getter, stopped, svc, got, addrs>>
      BY <2>3, Zenon DEF BuildDone, BuildTimeout
    <3>2. (watching' # "off" => build' = "ok") /\ (build' = "ok" => getter = "watcher")
      BY <2>3, Zenon DEF BuildDone, BuildTimeout
    <3>3. watching = "update" <=> watching' = "update"
      BY <2>3, Zenon DEF BuildDone, BuildTimeout
    <3> QED
      BY <3>1, <3>2, <3>3, Zenon
  <2>4. ASSUME NEW l \in Lists, Publish(l) PROVE ResolverInv'
    BY <2>4, Zenon DEF Publish
  <2>5. CASE WatchTop \/ NextCanceled \/ NextFails
    BY <2>5, Zenon DEF WatchTop, NextCanceled, NextFails
  <2>6. CASE NextEvent
    BY <2>6, Zenon DEF NextEvent
  <2>7. CASE Update
    <3>1. /\ addrs' \in Subsets(Filtered(got)) /\ watching = "update"
          /\ UNCHANGED <<event, getter, build, stopped, got, svc>>
      BY <2>7, Zenon DEF Update
    <3>2. Subsets(Filtered(svc))' = Subsets(Filtered(svc))
      BY <3>1, Zenon
    <3> QED
      BY <3>1, <3>2, Zenon
  <2>8. CASE CloseCancel \/ CloseStop
    BY <2>8, Zenon DEF CloseCancel, CloseStop
  <2> QED
    BY <2>1, <2>2, <2>3, <2>4, <2>5, <2>6, <2>7, <2>8, Zenon DEF ResolverNext, WatchStep
<1>3. ResolverInv => ListsArrive
  BY Zenon DEF ResolverInv, ListsArrive
<1> QED
  BY <1>1, <1>2, <1>3, PTL DEF ResolverSpec
=============================================================================
