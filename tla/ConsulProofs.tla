---------------------------- MODULE ConsulProofs ----------------------------
(***************************************************************************)
(* ConsulRegistry implements Following, for any watchers, callers of Stop, *)
(* number of sets and final index.                                         *)
(*                                                                         *)
(* Only Next gives a watcher a list, the one stored in its set.  So the    *)
(* argument is about the stored lists: services of a set never exceeds     *)
(* last, the index of the newest answer, and grows with every Store.  That *)
(* needs that the two who store into a set, the GetWatcher call that made  *)
(* it and its watch loop, never do it at the same time: the loop starts    *)
(* when the call has stored (Order), and a set has one maker (Makers).     *)
(***************************************************************************)
EXTENDS ConsulRegistry, ConsulHeartbeat, FiniteSetTheorems, TLAPS

\* The types of the variables that the argument is about.
FollowTypes ==
  /\ idx \in Nat
  /\ reg \in Sets \cup {0} /\ made \in Sets \cup {0}
  /\ services \in [Sets -> Nat] /\ last \in [Sets -> Nat] /\ pend \in [Sets -> Nat]
  /\ loop \in [Sets -> LoopPc]
  /\ pc \in [Watchers -> WatchPc]
  /\ set \in [Watchers -> Sets \cup {0}]
  /\ fetched \in [Watchers -> Nat] /\ seen \in [Watchers -> Nat]
  /\ creator \in [Watchers -> BOOLEAN]
  /\ next \in [Watchers -> {"idle", "took"}]

\* Sets are numbered from 1 to made; only those are in use.
Numbering ==
  /\ reg <= made
  /\ \A w \in Watchers : /\ set[w] <= made
                         /\ set[w] = 0 <=> pc[w] = "none"
                         /\ set[w] = 0 => seen[w] = 0 /\ ~creator[w] /\ next[w] = "idle"
  /\ \A s \in Sets : s > made => loop[s] = "none"

\* A set has one maker, who alone resolves it.
Makers ==
  /\ \A v, w \in Watchers : creator[v] /\ creator[w] /\ set[v] = set[w] => v = w
  /\ \A w \in Watchers : pc[w] \in {"resolve", "store", "notify"} => creator[w]

\* The loop starts when its maker has stored the first list.
Order ==
  /\ \A w \in Watchers :
       /\ creator[w] /\ pc[w] \in {"entered", "joined", "resolve", "store", "notify"}
            => loop[set[w]] = "none"
       /\ pc[w] = "store" => fetched[w] = last[set[w]]
  /\ \A s \in Sets : loop[s] = "store" => pend[s] = last[s]

\* What is stored is not newer than the last answer, and what Next has returned not
\* newer than what is stored.
Bounds ==
  /\ \A s \in Sets : services[s] <= last[s] /\ last[s] <= idx
  /\ \A w \in Watchers : set[w] # 0 => seen[w] <= services[set[w]]

FollowInv == FollowTypes /\ Numbering /\ Makers /\ Order /\ Bounds
-----------------------------------------------------------------------------
\* The invariant holds before the first GetWatcher.
LEMMA FollowInit == Init => FollowInv
  BY RegistryAssumption DEF Init, FollowInv, FollowTypes, Numbering, Makers, Order, Bounds,
     Sets, LoopPc, WatchPc

\* Sets have positive numbers.
LEMMA SetNumbers == 0 \notin Sets /\ \A s \in Sets \cup {0} : s \in Nat
  BY RegistryAssumption DEF Sets

\* A loop that moves on, not to "store", where no maker is at work on its set.
LEMMA LoopMoves ==
  ASSUME FollowTypes, Numbering, Order, NEW s \in Sets, NEW x, x # "store",
         loop' = [loop EXCEPT ![s] = x], UNCHANGED <<creator, set, fetched, last, pend>>,
         \A v \in Watchers : pc'[v] = pc[v] \/ pc'[v] = "ready",
         \A v \in Watchers : creator[v] /\ pc'[v] = pc[v] /\ set[v] = s => loop[s] # "none"
  PROVE  Order'
  <1>1. \A t \in Sets : (t = s => loop'[t] = x) /\ (t # s => loop'[t] = loop[t])
    BY Zenon DEF FollowTypes
  <1>2. \A t \in Sets : loop'[t] = "store" => pend'[t] = last'[t]
    BY <1>1, Zenon DEF Order
  <1>3. ASSUME NEW v \in Watchers, pc'[v] = pc[v], creator[v],
               pc[v] \in {"entered", "joined", "resolve", "store", "notify"}
        PROVE  loop'[set[v]] = "none"
    <2>1. loop[set[v]] = "none" /\ set[v] # s
      BY <1>3, Zenon DEF Order
    <2>2. pc[v] # "none"
      BY <1>3
    <2>3. set[v] \in Sets
      BY <2>2, Zenon DEF FollowTypes, Numbering
    <2> QED
      BY <1>1, <2>1, <2>3, Zenon
  <1>4. \A v \in Watchers : pc'[v] = "store" => pc'[v] = pc[v]
    BY Zenon
  <1>5. \A v \in Watchers : pc'[v] = "store" => fetched'[v] = last'[set'[v]]
    BY <1>4, Zenon DEF Order
  <1>6. \A v \in Watchers : pc'[v] \in {"entered", "joined", "resolve", "store", "notify"} => pc'[v] = pc[v]
    BY Zenon
  <1>7. \A v \in Watchers : creator'[v] /\ pc'[v] \in {"entered", "joined", "resolve", "store", "notify"}
                              => loop'[set'[v]] = "none"
    <2> SUFFICES ASSUME NEW v \in Watchers, creator'[v],
                        pc'[v] \in {"entered", "joined", "resolve", "store", "notify"}
                 PROVE  loop'[set'[v]] = "none"
      BY Zenon
    <2>1. pc'[v] = pc[v]
      BY <1>6, Zenon
    <2>2. creator[v] /\ set'[v] = set[v]
      BY Zenon
    <2>3. pc[v] \in {"entered", "joined", "resolve", "store", "notify"}
      BY <2>1
    <2> QED
      BY <1>3, <2>1, <2>2, <2>3, Zenon
  <1> QED
    BY <1>2, <1>5, <1>7, Zenon DEF Order

\* Every step of GetWatcher, the watch loops, Next, Stop and the agent keeps it.
LEMMA FollowNext == FollowInv /\ [Next]_vars => FollowInv'
  <1> SUFFICES ASSUME FollowTypes, Numbering, Makers, Order, Bounds, [Next]_vars
               PROVE  FollowInv'
    BY Zenon DEF FollowInv
  <1> USE SetNumbers DEF LoopPc, WatchPc
  <1>1. ASSUME NEW w \in Watchers, Enter(w)
        PROVE  FollowInv'
    <2> DEFINE t == IF reg # 0 THEN reg ELSE made + 1
    <2>a. t \in Sets /\ made' \in Sets \cup {0} /\ t <= made' /\ made <= made' /\ (reg = 0 => t > made)
      BY <1>1, RegistryAssumption DEF Enter, FollowTypes, Numbering, Sets
    <2>b. /\ reg' = t
          /\ set' = [set EXCEPT ![w] = t]
          /\ creator' = [creator EXCEPT ![w] = (reg = 0)]
          /\ pc' = [pc EXCEPT ![w] = "entered"]
          /\ UNCHANGED <<idx, services, loop, last, pend, fetched, next, seen>>
      BY <1>1 DEF Enter, agentVars
    <2>c. pc[w] = "none" /\ set[w] = 0 /\ ~creator[w] /\ seen[w] = 0
      BY <1>1 DEF Enter, Numbering
    <2>d. \A v \in Watchers : v # w => set'[v] = set[v] /\ creator'[v] = creator[v] /\ pc'[v] = pc[v]
      BY <2>b DEF FollowTypes
    <2>e. set'[w] = t /\ pc'[w] = "entered" /\ creator'[w] = (reg = 0)
      BY <2>b DEF FollowTypes
    <2> HIDE DEF t
    <2>1. FollowTypes'
      BY <2>a, <2>b DEF FollowTypes
    <2>2. Numbering'
      <3>1. \A v \in Watchers :
              /\ set'[v] <= made'
              /\ set'[v] = 0 <=> pc'[v] = "none"
              /\ set'[v] = 0 => seen'[v] = 0 /\ ~creator'[v] /\ next'[v] = "idle"
        <4> TAKE v \in Watchers
        <4>1. CASE v = w
          BY <2>a, <2>e, <4>1
        <4>2. CASE v # w
          <5>1. set'[v] <= made'
            <6>1. set[v] \in Nat /\ made \in Nat /\ made' \in Nat
              <7>1. set[v] \in Sets \cup {0} /\ made \in Sets \cup {0} /\ made' \in Sets \cup {0}
                BY <2>a DEF FollowTypes
              <7> QED BY <7>1
            <6>2. set[v] <= made /\ set'[v] = set[v]
              BY <2>d, <4>2 DEF Numbering
            <6> QED BY <2>a, <6>1, <6>2
          <5>2. seen'[v] = seen[v] /\ next'[v] = next[v]
            BY <2>b
          <5> QED BY <2>d, <4>2, <5>1, <5>2, Zenon DEF Numbering
        <4> QED BY <4>1, <4>2
      <3>2. \A s \in Sets : s > made' => loop'[s] = "none"
        BY <2>a, <2>b DEF Numbering, FollowTypes
      <3> QED BY <2>a, <2>b, <3>1, <3>2 DEF Numbering
    <2>3. Makers'
      <3>1. \A v \in Watchers : v # w => set[v] <= made /\ set[v] \in Nat
        BY DEF FollowTypes, Numbering
      <3>2. \A v \in Watchers : creator'[w] /\ v # w => set'[v] # set'[w]
        <4>1. creator'[w] => reg = 0
          BY <2>e, Zenon
        <4> QED BY <2>a, <2>d, <2>e, <3>1, <4>1 DEF FollowTypes
      <3> QED BY <2>c, <2>d, <2>e, <3>2 DEF Makers
    <2>4. Order'
      <3>1. creator'[w] => loop'[set'[w]] = "none"
        BY <2>a, <2>b, <2>e, Zenon DEF Numbering
      <3> QED BY <2>b, <2>d, <2>e, <3>1 DEF Order
    <2>5. Bounds'
      <3>1. \A v \in Watchers : set'[v] # 0 => seen[v] <= services[set'[v]]
        <4> TAKE v \in Watchers
        <4>1. CASE v = w
          BY <2>a, <2>c, <2>e, <4>1 DEF FollowTypes
        <4>2. CASE v # w
          BY <2>d, <4>2 DEF Bounds
        <4> QED BY <4>1, <4>2
      <3> QED BY <2>b, <3>1 DEF Bounds
    <2> QED BY <2>1, <2>2, <2>3, <2>4, <2>5 DEF FollowInv
  <1>2. ASSUME NEW w \in Watchers, Join(w)
        PROVE  FollowInv'
    <2>1. FollowTypes'
      BY <1>2 DEF Join, agentVars, FollowTypes
    <2>2. Numbering'
      BY <1>2 DEF Join, agentVars, FollowTypes, Numbering
    <2>3. Makers'
      BY <1>2 DEF Join, agentVars, FollowTypes, Numbering, Makers
    <2>4. Order'
      BY <1>2 DEF Join, agentVars, FollowTypes, Numbering, Makers, Order
    <2>5. Bounds'
      BY <1>2 DEF Join, agentVars, FollowTypes, Numbering, Makers, Order, Bounds
    <2> QED BY <2>1, <2>2, <2>3, <2>4, <2>5 DEF FollowInv
  <1>3. ASSUME NEW w \in Watchers, Load(w)
        PROVE  FollowInv'
    <2>1. FollowTypes'
      BY <1>3 DEF Load, agentVars, setVars, FollowTypes
    <2>2. Numbering'
      BY <1>3 DEF Load, agentVars, setVars, FollowTypes, Numbering
    <2>3. Makers'
      BY <1>3 DEF Load, agentVars, setVars, FollowTypes, Numbering, Makers
    <2>4. Order'
      BY <1>3 DEF Load, agentVars, setVars, FollowTypes, Numbering, Makers, Order
    <2>5. Bounds'
      BY <1>3 DEF Load, agentVars, setVars, FollowTypes, Numbering, Makers, Order, Bounds
    <2> QED BY <2>1, <2>2, <2>3, <2>4, <2>5 DEF FollowInv
  <1>4. ASSUME NEW w \in Watchers, Resolve(w)
        PROVE  FollowInv'
    <2>1. FollowTypes'
      <3>1. last' \in [Sets -> Nat]
        BY <1>4, Zenon DEF Resolve, FollowTypes
      <3>2. fetched' \in [Watchers -> Nat]
        BY <1>4 DEF Resolve, FollowTypes
      <3>3. loop' \in [Sets -> LoopPc] /\ pc' \in [Watchers -> WatchPc]
        BY <1>4 DEF Resolve, FollowTypes
      <3> QED
        BY <1>4, <3>1, <3>2, <3>3, Zenon DEF Resolve, agentVars, FollowTypes
    <2>2. Numbering'
      BY <1>4 DEF Resolve, agentVars, FollowTypes, Numbering
    <2>3. Makers'
      BY <1>4 DEF Resolve, agentVars, FollowTypes, Numbering, Makers
    <2>4. Order'
      <3>1. creator[w] /\ set[w] \in Sets /\ loop[set[w]] = "none"
        BY <1>4 DEF Resolve, FollowTypes, Numbering, Makers, Order
      <3>2. \A v \in Watchers : creator[v] /\ v # w => set[v] # set[w]
        BY <3>1 DEF Makers
      <3>3. UNCHANGED <<set, creator, pend>>
        BY <1>4, Zenon DEF Resolve
      <3>4. CASE inst
        BY <1>4, <3>1, <3>2, <3>3, <3>4 DEF Resolve, FollowTypes, Numbering, Makers, Order
      <3>5. CASE ~inst
        <4>1. /\ pc' = [pc EXCEPT ![w] = "ready"]
              /\ loop' = [loop EXCEPT ![set[w]] = "wait"]
              /\ last' = [last EXCEPT ![set[w]] = idx]
              /\ UNCHANGED fetched
          BY <1>4, <3>5, Zenon DEF Resolve
        <4>2. \A v \in Watchers : pc'[v] \in {"entered", "joined", "resolve", "store", "notify"}
                                    => v # w /\ pc'[v] = pc[v]
          BY <4>1 DEF FollowTypes
        <4>3. \A v \in Watchers : creator[v] /\ v # w =>
                loop'[set[v]] = loop[set[v]] /\ last'[set[v]] = last[set[v]]
          BY <3>1, <3>2, <4>1 DEF FollowTypes
        <4>4. \A s \in Sets : loop'[s] = "store" => s # set[w] /\ loop[s] = "store" /\ last'[s] = last[s]
          BY <3>1, <4>1 DEF FollowTypes
        <4> QED
          BY <3>3, <4>1, <4>2, <4>3, <4>4 DEF Makers, Order
      <3> QED BY <3>4, <3>5
    <2>5. Bounds'
      BY <1>4 DEF Resolve, agentVars, FollowTypes, Numbering, Makers, Order, Bounds
    <2> QED BY <2>1, <2>2, <2>3, <2>4, <2>5 DEF FollowInv
  <1>5. ASSUME NEW w \in Watchers, ResolveStore(w)
        PROVE  FollowInv'
    <2>1. FollowTypes'
      BY <1>5, Zenon DEF ResolveStore, Store, agentVars, FollowTypes
    <2>2. Numbering'
      BY <1>5 DEF ResolveStore, Store, agentVars, FollowTypes, Numbering
    <2>3. Makers'
      BY <1>5 DEF ResolveStore, Store, agentVars, FollowTypes, Numbering, Makers
    <2>4. Order'
      BY <1>5 DEF ResolveStore, Store, agentVars, FollowTypes, Numbering, Makers, Order
    <2>5. Bounds'
      <3>1. /\ set[w] \in Sets
            /\ services'[set[w]] = last[set[w]]
            /\ \A s \in Sets : s # set[w] => services'[s] = services[s]
        BY <1>5 DEF ResolveStore, Store, FollowTypes, Numbering, Order
      <3>2. UNCHANGED <<idx, last, set, seen>>
        BY <1>5, Zenon DEF ResolveStore, Store, agentVars
      <3>3. \A s \in Sets : services[s] <= services'[s] /\ services'[s] <= last[s] /\ services'[s] \in Nat
        BY <3>1 DEF FollowTypes, Bounds
      <3>4. \A v \in Watchers : set[v] # 0 => seen[v] <= services'[set[v]]
        <4> TAKE v \in Watchers
        <4>1. CASE set[v] \in Sets
          <5>1. /\ seen[v] \in Nat /\ services[set[v]] \in Nat /\ services'[set[v]] \in Nat
                /\ services[set[v]] <= services'[set[v]]
            BY <3>3, <4>1 DEF FollowTypes
          <5>2. seen[v] <= services[set[v]]
            BY <4>1 DEF Bounds
          <5> QED BY <5>1, <5>2
        <4> QED BY <4>1 DEF FollowTypes
      <3> QED
        BY <3>2, <3>3, <3>4, Zenon DEF Bounds
    <2> QED BY <2>1, <2>2, <2>3, <2>4, <2>5 DEF FollowInv
  <1>6. ASSUME NEW w \in Watchers, ResolveNotify(w)
        PROVE  FollowInv'
    <2>1. FollowTypes'
      BY <1>6, Zenon DEF ResolveNotify, Notify, agentVars, FollowTypes
    <2>2. Numbering'
      BY <1>6 DEF ResolveNotify, Notify, agentVars, FollowTypes, Numbering
    <2>3. Makers'
      BY <1>6, Zenon DEF ResolveNotify, Notify, agentVars, FollowTypes, Numbering, Makers
    <2>4. Order'
      <3>1. /\ pc[w] = "notify" /\ pc' = [pc EXCEPT ![w] = "ready"]
            /\ loop' = [loop EXCEPT ![set[w]] = "wait"]
            /\ UNCHANGED <<creator, set, fetched, last, pend>>
        BY <1>6, Zenon DEF ResolveNotify, Notify
      <3>2. \A v \in Watchers : pc'[v] = pc[v] \/ pc'[v] = "ready"
        BY <3>1, Zenon DEF FollowTypes
      <3>3. pc'[w] # pc[w]
        BY <3>1, Zenon DEF FollowTypes
      <3>4. creator[w] /\ set[w] \in Sets
        BY <3>1 DEF Makers, Numbering, FollowTypes
      <3>5. \A v \in Watchers : creator[v] /\ set[v] = set[w] => v = w
        BY <3>4, Zenon DEF Makers
      <3>6. \A v \in Watchers : creator[v] /\ pc'[v] = pc[v] /\ set[v] = set[w] => loop[set[w]] # "none"
        BY <3>3, <3>5, Zenon
      <3>7. "wait" # "store"
        OBVIOUS
      <3> QED
        BY <3>1, <3>2, <3>4, <3>6, <3>7, LoopMoves, Zenon
    <2>5. Bounds'
      BY <1>6, Zenon DEF ResolveNotify, Notify, agentVars, FollowTypes, Numbering, Makers, Order, Bounds
    <2> QED BY <2>1, <2>2, <2>3, <2>4, <2>5 DEF FollowInv
  <1>7. ASSUME NEW w \in Watchers, ResolveError(w)
        PROVE  FollowInv'
    <2>1. FollowTypes'
      BY <1>7 DEF ResolveError, agentVars, setVars, FollowTypes
    <2>2. Numbering'
      BY <1>7 DEF ResolveError, agentVars, setVars, FollowTypes, Numbering
    <2>3. Makers'
      BY <1>7 DEF ResolveError, agentVars, setVars, FollowTypes, Numbering, Makers
    <2>4. Order'
      BY <1>7 DEF ResolveError, agentVars, setVars, FollowTypes, Numbering, Makers, Order
    <2>5. Bounds'
      BY <1>7 DEF ResolveError, agentVars, setVars, FollowTypes, Numbering, Makers, Order, Bounds
    <2> QED BY <2>1, <2>2, <2>3, <2>4, <2>5 DEF FollowInv
  <1>8. ASSUME NEW s \in Sets, Poll(s)
        PROVE  FollowInv'
    <2>1. FollowTypes'
      BY <1>8, Zenon DEF Poll, agentVars, watcherVars, FollowTypes
    <2>2. Numbering'
      BY <1>8 DEF Poll, agentVars, watcherVars, FollowTypes, Numbering
    <2>3. Makers'
      BY <1>8, Zenon DEF Poll, agentVars, watcherVars, FollowTypes, Numbering, Makers
    <2>4. Order'
      <3>1. \A w \in Watchers : pc[w] = "store" => set[w] # s
        BY <1>8, Zenon DEF Poll, FollowTypes, Makers, Order
      <3>10. loop[s] = "wait"
        BY <1>8, Zenon DEF Poll
      <3>2. \A w \in Watchers :
              creator[w] /\ pc[w] \in {"entered", "joined", "resolve", "store", "notify"} => set[w] # s
        BY <3>10, Zenon DEF Order
      <3>3. /\ last'[s] = idx
            /\ \A t \in Sets : t # s => last'[t] = last[t] /\ loop'[t] = loop[t] /\ pend'[t] = pend[t]
        BY <1>8 DEF Poll, FollowTypes
      <3>4. loop'[s] = "store" => pend'[s] = idx
        BY <1>8 DEF Poll, FollowTypes
      <3>5. UNCHANGED <<pc, set, creator, fetched>>
        BY <1>8 DEF Poll, watcherVars
      <3>6. \A w \in Watchers : pc[w] # "none" => set[w] \in Sets
        BY DEF FollowTypes, Numbering
      <3>7. \A t \in Sets : loop'[t] = "store" => pend'[t] = last'[t]
        BY <3>3, <3>4, Zenon DEF Order
      <3>8. \A w \in Watchers : pc[w] = "store" => fetched[w] = last'[set[w]]
        BY <3>1, <3>3, <3>6 DEF Order
      <3>9. \A w \in Watchers :
              creator[w] /\ pc[w] \in {"entered", "joined", "resolve", "store", "notify"}
                => loop'[set[w]] = "none"
        BY <3>2, <3>3, <3>6 DEF Order
      <3> QED
        BY <3>5, <3>7, <3>8, <3>9, Zenon DEF Order
    <2>5. Bounds'
      BY <1>8 DEF Poll, agentVars, watcherVars, FollowTypes, Numbering, Makers, Order, Bounds
    <2> QED BY <2>1, <2>2, <2>3, <2>4, <2>5 DEF FollowInv
  <1>9. ASSUME NEW s \in Sets, LoopStore(s)
        PROVE  FollowInv'
    <2>1. FollowTypes'
      BY <1>9, Zenon DEF LoopStore, Store, agentVars, FollowTypes
    <2>2. Numbering'
      BY <1>9 DEF LoopStore, Store, agentVars, FollowTypes, Numbering
    <2>3. Makers'
      BY <1>9, Zenon DEF LoopStore, Store, agentVars, FollowTypes, Numbering, Makers
    <2>4. Order'
      BY <1>9 DEF LoopStore, Store, agentVars, FollowTypes, Numbering, Makers, Order
    <2>5. Bounds'
      BY <1>9 DEF LoopStore, Store, agentVars, FollowTypes, Numbering, Makers, Order, Bounds
    <2> QED BY <2>1, <2>2, <2>3, <2>4, <2>5 DEF FollowInv
  <1>10. ASSUME NEW s \in Sets, LoopNotify(s)
        PROVE  FollowInv'
    <2>1. FollowTypes'
      BY <1>10, Zenon DEF LoopNotify, Notify, agentVars, FollowTypes
    <2>2. Numbering'
      BY <1>10, Zenon DEF LoopNotify, Notify, agentVars, FollowTypes, Numbering
    <2>3. Makers'
      BY <1>10, Zenon DEF LoopNotify, Notify, agentVars, FollowTypes, Numbering, Makers
    <2>4. Order'
      <3>1. /\ loop[s] # "none" /\ loop' = [loop EXCEPT ![s] = "wait"]
            /\ UNCHANGED <<pc, creator, set, fetched, last, pend>>
        BY <1>10, Zenon DEF LoopNotify, Notify
      <3> QED
        BY <3>1, LoopMoves, Zenon
    <2>5. Bounds'
      BY <1>10, Zenon DEF LoopNotify, Notify, agentVars, FollowTypes, Numbering, Makers, Order, Bounds
    <2> QED BY <2>1, <2>2, <2>3, <2>4, <2>5 DEF FollowInv
  <1>11. ASSUME NEW s \in Sets, LoopEnd(s)
        PROVE  FollowInv'
    <2>1. FollowTypes'
      BY <1>11, Zenon DEF LoopEnd, agentVars, watcherVars, FollowTypes
    <2>2. Numbering'
      BY <1>11, Zenon DEF LoopEnd, agentVars, watcherVars, FollowTypes, Numbering
    <2>3. Makers'
      BY <1>11, Zenon DEF LoopEnd, agentVars, watcherVars, FollowTypes, Numbering, Makers
    <2>4. Order'
      <3>1. PICK x : /\ x # "store" /\ loop[s] # "none" /\ loop' = [loop EXCEPT ![s] = x]
                     /\ UNCHANGED <<pc, creator, set, fetched, last, pend>>
        BY <1>11, Zenon DEF LoopEnd, watcherVars
      <3> QED
        BY <3>1, LoopMoves, Zenon
    <2>5. Bounds'
      BY <1>11, Zenon DEF LoopEnd, agentVars, watcherVars, FollowTypes, Numbering, Makers, Order, Bounds
    <2> QED BY <2>1, <2>2, <2>3, <2>4, <2>5 DEF FollowInv
  <1>12. ASSUME NEW w \in Watchers, NextTake(w)
        PROVE  FollowInv'
    <2>1. FollowTypes'
      BY <1>12, Zenon DEF NextTake, agentVars, setVars, FollowTypes
    <2>2. Numbering'
      BY <1>12 DEF NextTake, agentVars, setVars, FollowTypes, Numbering
    <2>3. Makers'
      BY <1>12, Zenon DEF NextTake, agentVars, setVars, FollowTypes, Numbering, Makers
    <2>4. Order'
      BY <1>12, Zenon DEF NextTake, agentVars, setVars, FollowTypes, Numbering, Makers, Order
    <2>5. Bounds'
      BY <1>12, Zenon DEF NextTake, agentVars, setVars, FollowTypes, Numbering, Makers, Order, Bounds
    <2> QED BY <2>1, <2>2, <2>3, <2>4, <2>5 DEF FollowInv
  <1>13. ASSUME NEW w \in Watchers, NextLoad(w)
        PROVE  FollowInv'
    <2>1. FollowTypes'
      BY <1>13, Zenon DEF NextLoad, agentVars, setVars, FollowTypes, Numbering
    <2>2. Numbering'
      BY <1>13, Zenon DEF NextLoad, agentVars, setVars, FollowTypes, Numbering
    <2>3. Makers'
      BY <1>13, Zenon DEF NextLoad, agentVars, setVars, FollowTypes, Numbering, Makers
    <2>4. Order'
      BY <1>13, Zenon DEF NextLoad, agentVars, setVars, FollowTypes, Numbering, Makers, Order
    <2>5. Bounds'
      <3>1. set[w] # 0 /\ set[w] \in Sets /\ seen'[w] = services[set[w]] /\ seen'[w] \in Nat
        BY <1>13, Zenon DEF NextLoad, FollowTypes, Numbering
      <3>2. \A v \in Watchers : v # w => seen'[v] = seen[v]
        BY <1>13 DEF NextLoad, FollowTypes
      <3>3. UNCHANGED <<idx, services, last, set>>
        BY <1>13, Zenon DEF NextLoad, agentVars, setVars
      <3>4. \A v \in Watchers : set[v] # 0 => seen'[v] <= services[set[v]]
        <4> TAKE v \in Watchers
        <4>1. CASE v = w
          BY <3>1, <4>1
        <4>2. CASE v # w
          BY <3>2, <4>2 DEF Bounds
        <4> QED BY <4>1, <4>2, Zenon
      <3> QED
        BY <3>3, <3>4, Zenon DEF Bounds
    <2> QED BY <2>1, <2>2, <2>3, <2>4, <2>5 DEF FollowInv
  <1>14. ASSUME NEW w \in Watchers, NEW c \in Stoppers, StopCheck(w, c)
        PROVE  FollowInv'
    <2>1. FollowTypes'
      BY <1>14, Zenon DEF StopCheck, agentVars, setVars, FollowTypes
    <2>2. Numbering'
      BY <1>14, Zenon DEF StopCheck, agentVars, setVars, FollowTypes, Numbering
    <2>3. Makers'
      BY <1>14, Zenon DEF StopCheck, agentVars, setVars, FollowTypes, Numbering, Makers
    <2>4. Order'
      BY <1>14, Zenon DEF StopCheck, agentVars, setVars, FollowTypes, Numbering, Makers, Order
    <2>5. Bounds'
      BY <1>14, Zenon DEF StopCheck, agentVars, setVars, FollowTypes, Numbering, Makers, Order, Bounds
    <2> QED BY <2>1, <2>2, <2>3, <2>4, <2>5 DEF FollowInv
  <1>15. ASSUME NEW w \in Watchers, NEW c \in Stoppers, StopRemove(w, c)
        PROVE  FollowInv'
    <2>1. FollowTypes'
      BY <1>15 DEF StopRemove, agentVars, FollowTypes
    <2>2. Numbering'
      BY <1>15, Zenon DEF StopRemove, agentVars, FollowTypes, Numbering
    <2>3. Makers'
      BY <1>15, Zenon DEF StopRemove, agentVars, FollowTypes, Numbering, Makers
    <2>4. Order'
      BY <1>15, Zenon DEF StopRemove, agentVars, FollowTypes, Numbering, Makers, Order
    <2>5. Bounds'
      BY <1>15, Zenon DEF StopRemove, agentVars, FollowTypes, Numbering, Makers, Order, Bounds
    <2> QED BY <2>1, <2>2, <2>3, <2>4, <2>5 DEF FollowInv
  <1>16. ASSUME NEW w \in Watchers, NEW c \in Stoppers, TryDelete(w, c)
        PROVE  FollowInv'
    <2>1. FollowTypes'
      BY <1>16, Zenon DEF TryDelete, agentVars, FollowTypes
    <2>2. Numbering'
      BY <1>16 DEF TryDelete, agentVars, FollowTypes, Numbering
    <2>3. Makers'
      BY <1>16, Zenon DEF TryDelete, agentVars, FollowTypes, Numbering, Makers
    <2>4. Order'
      BY <1>16, Zenon DEF TryDelete, agentVars, FollowTypes, Numbering, Makers, Order
    <2>5. Bounds'
      BY <1>16, Zenon DEF TryDelete, agentVars, FollowTypes, Numbering, Makers, Order, Bounds
    <2> QED BY <2>1, <2>2, <2>3, <2>4, <2>5 DEF FollowInv
  <1>17. ASSUME AgentChange
        PROVE  FollowInv'
    <2>1. FollowTypes'
      BY <1>17 DEF AgentChange, setVars, watcherVars, FollowTypes
    <2>2. Numbering'
      BY <1>17, Zenon DEF AgentChange, setVars, watcherVars, FollowTypes, Numbering
    <2>3. Makers'
      BY <1>17, Zenon DEF AgentChange, setVars, watcherVars, FollowTypes, Numbering, Makers
    <2>4. Order'
      BY <1>17, Zenon DEF AgentChange, setVars, watcherVars, FollowTypes, Numbering, Makers, Order
    <2>5. Bounds'
      BY <1>17 DEF AgentChange, setVars, watcherVars, FollowTypes, Numbering, Makers, Order, Bounds
    <2> QED BY <2>1, <2>2, <2>3, <2>4, <2>5 DEF FollowInv
  <1>18. CASE UNCHANGED vars
    BY <1>18, Zenon DEF FollowInv, FollowTypes, Numbering, Makers, Order, Bounds, vars, agentVars,
         setVars, watcherVars
  <1> QED
    BY <1>1, <1>2, <1>3, <1>4, <1>5, <1>6, <1>7, <1>8, <1>9, <1>10, <1>11, <1>12, <1>13, <1>14, <1>15, <1>16, <1>17, <1>18
       DEF Next, GetWatcher, LoopStep, WatcherNext, StopStep

\* A step gives at most one watcher a list, one that Consul had and newer than its
\* last; a list that it has already is a stuttering step.
LEMMA FollowStep ==
  FollowInv /\ [Next]_vars => [Promise!FollowingNext]_<<idx, seen>>
  <1> SUFFICES ASSUME FollowTypes, Numbering, Bounds, [Next]_vars
               PROVE  [Promise!FollowingNext]_<<idx, seen>>
    BY DEF FollowInv
  <1> USE SetNumbers
  <1>1. ASSUME NEW w \in Watchers, NextLoad(w)
        PROVE  [Promise!FollowingNext]_<<idx, seen>>
    <2>1. set[w] # 0 /\ set[w] \in Sets /\ UNCHANGED idx
      BY <1>1, Zenon DEF NextLoad, agentVars, FollowTypes, Numbering
    <2> DEFINE v == services[set[w]]
    <2>2. /\ v \in Nat /\ seen[w] \in Nat /\ idx \in Nat /\ last[set[w]] \in Nat
      BY <2>1 DEF FollowTypes
    <2>3. seen[w] <= v /\ v <= last[set[w]] /\ last[set[w]] <= idx
      BY <2>1, Zenon DEF Bounds
    <2>4. seen' = [seen EXCEPT ![w] = v]
      BY <1>1, Zenon DEF NextLoad
    <2>5. CASE v = seen[w]
      BY <2>1, <2>4, <2>5 DEF FollowTypes
    <2>6. CASE v # seen[w]
      <3>1. v \in (seen[w] + 1)..idx
        BY <2>2, <2>3, <2>6
      <3> QED BY <2>1, <2>4, <3>1, Zenon DEF Promise!FollowingNext, Promise!Deliver
    <2> QED BY <2>5, <2>6
  <1>2. CASE AgentChange
    BY <1>2 DEF AgentChange, watcherVars, Promise!FollowingNext, Promise!Publish
  <1>3. ASSUME NEW w \in Watchers, GetWatcher(w) \/ ResolveError(w) \/ NextTake(w)
        PROVE  UNCHANGED <<idx, seen>>
    BY <1>3, Zenon DEF GetWatcher, Enter, Join, Load, Resolve, ResolveStore, ResolveNotify, ResolveError,
         NextTake, Store, Notify, agentVars
  <1>4. ASSUME NEW w \in Watchers, NEW c \in Stoppers, StopCheck(w, c) \/ StopStep(w, c)
        PROVE  UNCHANGED <<idx, seen>>
    BY <1>4, Zenon DEF StopCheck, StopStep, StopRemove, TryDelete, agentVars
  <1>5. ASSUME NEW s \in Sets, LoopStep(s)
        PROVE  UNCHANGED <<idx, seen>>
    BY <1>5, Zenon DEF LoopStep, Poll, LoopStore, LoopNotify, LoopEnd, Store, Notify, agentVars, watcherVars
  <1>6. CASE UNCHANGED vars
    BY <1>6 DEF vars, agentVars, watcherVars
  <1> QED
    BY <1>1, <1>2, <1>3, <1>4, <1>5, <1>6 DEF Next, WatcherNext

\* GetWatcher, resolve, watchServiceChange, broadcast, Next and Stop implement the
\* promise of Following, for any number of watchers, sets and changes: no watcher
\* is given a list that Consul never had, or one older than it has.
THEOREM RegistryFollows == Spec => Follows
  <1>1. Init => Promise!FollowingInit
    BY DEF Init, Promise!FollowingInit
  <1> QED
    BY <1>1, FollowInit, FollowNext, FollowStep, PTL
    DEF Spec, Follows, Promise!FollowingSpec

-----------------------------------------------------------------------------
(* The reference counts.                                                   *)

\* Stop has one caller: two that overlap would both give the reference back.
OneStopper == \A c, d \in Stoppers : c = d

\* Only a watcher that GetWatcher has returned is stopped.
StopsReady ==
  /\ ref \in [Sets -> Int]
  /\ stop \in [Watchers -> [Stoppers -> StopPc]]
  /\ \A w \in Watchers, c \in Stoppers : stop[w][c] # "idle" => pc[w] = "ready"

\* The inductive invariant behind RegistryExact.
ExactInv == FollowInv /\ StopsReady /\ RegistryExact

\* The holders of a set are finitely many.
LEMMA HoldersFinite == \A s : IsFiniteSet(Holders(s))
  BY RegistryAssumption, FS_Subset DEF Holders

\* The invariant holds before the first GetWatcher.
LEMMA ExactInit == Init => ExactInv
  <1> SUFFICES ASSUME Init PROVE ExactInv
    OBVIOUS
  <1>1. StopsReady
    BY DEF Init, StopsReady, StopPc
  <1>2. \A s \in Sets : Holders(s) = {}
    BY SetNumbers DEF Init, Holders
  <1>3. RegistryExact
    BY <1>2, FS_EmptySet, SetNumbers, Zenon DEF Init, RegistryExact
  <1> QED
    BY <1>1, <1>3, FollowInit DEF ExactInv

\* One caller of Stop moves on, the others stay.
LEMMA Stopped ==
  ASSUME NEW w \in Watchers, NEW c \in Stoppers, NEW k \in StopPc,
         StopsReady, pc[w] = "ready", UNCHANGED pc, ref' \in [Sets -> Int],
         stop' = [stop EXCEPT ![w][c] = k]
  PROVE  /\ StopsReady'
         /\ stop'[w][c] = k
         /\ \A v \in Watchers, d \in Stoppers : v # w \/ d # c => stop'[v][d] = stop[v][d]
  <1>1. stop \in [Watchers -> [Stoppers -> StopPc]]
    BY Zenon DEF StopsReady
  <1>2. stop' \in [Watchers -> [Stoppers -> StopPc]] /\ stop'[w][c] = k
    BY <1>1, Zenon
  <1>3. \A v \in Watchers, d \in Stoppers : v # w \/ d # c => stop'[v][d] = stop[v][d]
    BY <1>1, Zenon
  <1>4. ASSUME NEW v \in Watchers, NEW d \in Stoppers, stop'[v][d] # "idle" PROVE pc'[v] = "ready"
    <2>1. CASE v = w
      BY <2>1, Zenon
    <2>2. CASE v # w
      BY <1>3, <1>4, <2>2, Zenon DEF StopsReady
    <2> QED
      BY <2>1, <2>2
  <1> QED
    BY <1>2, <1>3, <1>4, Zenon DEF StopsReady

\* What neither enters, stops nor deletes leaves the counts and their holders alone.
LEMMA ExactElse ==
  ASSUME ExactInv, UNCHANGED <<ref, reg, set, stop>>
  PROVE  RegistryExact'
  <1>1. \A s : Holders(s)' = Holders(s)
    BY DEF Holders
  <1> QED
    BY <1>1 DEF ExactInv, RegistryExact

\* Enter takes a reference, TryDelete gives it back; nothing else counts.
LEMMA ExactNext == OneStopper /\ ExactInv /\ [Next]_vars => ExactInv'
  <1> SUFFICES ASSUME OneStopper, ExactInv, FollowInv, StopsReady, RegistryExact, FollowInv',
                      [Next]_vars
               PROVE  StopsReady' /\ RegistryExact'
    BY FollowNext, Zenon DEF ExactInv
  <1> USE SetNumbers
  <1>1. ASSUME NEW w \in Watchers, Enter(w) PROVE StopsReady' /\ RegistryExact'
    <2>1. PICK s \in Sets :
            /\ reg \in {0, s} /\ reg' = s /\ set' = [set EXCEPT ![w] = s]
            /\ ref' = [ref EXCEPT ![s] = @ + 1] /\ UNCHANGED stop
      <3>1. CASE reg # 0
        BY <1>1, <3>1, Zenon DEF Enter, FollowInv, FollowTypes
      <3>2. CASE reg = 0
        <4>2. made < MaxSets
          BY <1>1, <3>2, Zenon DEF Enter
        <4>3. made \in Sets \cup {0}
          BY Zenon DEF FollowInv, FollowTypes
        <4>1. made + 1 \in Sets
          BY <4>2, <4>3, RegistryAssumption DEF Sets
        <4> QED
          BY <1>1, <3>2, <4>1, Zenon DEF Enter
      <3> QED
        BY <3>1, <3>2
    <2>2. StopsReady'
      BY <1>1, <2>1 DEF Enter, StopsReady
    <2>3. set[w] = 0 /\ \A c \in Stoppers : stop[w][c] # "done"
      BY <1>1, Zenon DEF Enter, StopsReady, StopPc, FollowInv, Numbering
    <2>4. Holders(s)' = Holders(s) \cup {w} /\ w \notin Holders(s)
      <3>1. s # 0 /\ set \in [Watchers -> Sets \cup {0}]
        BY SetNumbers, Zenon DEF FollowInv, FollowTypes
      <3>2. set'[w] = s /\ set[w] # s /\ \A v \in Watchers : v # w => set'[v] = set[v]
        BY <2>1, <2>3, <3>1, Zenon
      <3> QED
        BY <2>1, <2>3, <3>2, Zenon DEF Holders
    <2>5. ASSUME NEW t \in Sets, t # s PROVE Holders(t)' = Holders(t)
      BY <2>1, <2>3, <2>5, Zenon DEF Holders, FollowInv, FollowTypes
    <2>6. ref'[s] = Cardinality(Holders(s)')
      <3>1. Cardinality(Holders(s) \cup {w}) = Cardinality(Holders(s)) + 1
        BY <2>4, HoldersFinite, FS_AddElement, Zenon
      <3>2. ref'[s] = Cardinality(Holders(s)) + 1
        BY <2>1 DEF RegistryExact, StopsReady
      <3> QED
        BY <2>4, <3>1, <3>2, Zenon
    <2>7. ASSUME NEW t \in Sets, t # s
          PROVE  ref'[t] = Cardinality(Holders(t)') /\ Holders(t)' = {}
      BY <2>1, <2>5, <2>7 DEF RegistryExact, StopsReady
    <2>8. RegistryExact'
      BY <2>1, <2>4, <2>6, <2>7, Zenon DEF RegistryExact
    <2> QED
      BY <2>2, <2>8
  <1>2. ASSUME NEW w \in Watchers, NEW c \in Stoppers, TryDelete(w, c)
        PROVE  StopsReady' /\ RegistryExact'
    <2>1. PICK s \in Sets : set[w] = s
      <3>1. pc[w] = "ready"
        BY <1>2, Zenon DEF TryDelete, StopsReady
      <3> QED
        BY <3>1 DEF FollowInv, FollowTypes, Numbering
    <2>2. StopsReady'
      <3>1. pc[w] = "ready" /\ UNCHANGED pc
        BY <1>2, Zenon DEF TryDelete, StopsReady
      <3>4. ref \in [Sets -> Int] /\ ref' = [ref EXCEPT ![s] = ref[s] - 1]
        BY <1>2, <2>1, Zenon DEF TryDelete, StopsReady
      <3>5. ref[s] - 1 \in Int
        BY <3>4
      <3>2. ref' \in [Sets -> Int]
        BY <3>4, <3>5, Zenon
      <3>3. stop' = [stop EXCEPT ![w][c] = "done"] /\ "done" \in StopPc
        BY <1>2, Zenon DEF TryDelete, StopPc
      <3> QED
        BY <3>1, <3>2, <3>3, Stopped, Zenon
    <2>3. Holders(s)' = Holders(s) \ {w} /\ w \in Holders(s)
      BY <1>2, <2>1, Zenon DEF TryDelete, Holders, OneStopper, StopsReady
    <2>4. ASSUME NEW t \in Sets, t # s PROVE Holders(t)' = Holders(t)
      BY <1>2, <2>1, <2>4, Zenon DEF TryDelete, Holders, StopsReady
    <2>5. ref' = [ref EXCEPT ![s] = @ - 1] /\ reg' = IF ref'[s] = 0 THEN 0 ELSE reg
      BY <1>2, <2>1, Zenon DEF TryDelete
    <2>6. ref'[s] = Cardinality(Holders(s)') /\ (ref'[s] = 0 <=> Holders(s)' = {})
      <3>1. /\ IsFiniteSet(Holders(s) \ {w})
            /\ Cardinality(Holders(s) \ {w}) = Cardinality(Holders(s)) - 1
        BY <2>3, HoldersFinite, FS_RemoveElement, Zenon
      <3>2. ref'[s] = Cardinality(Holders(s)) - 1
        BY <2>5, Zenon DEF RegistryExact, StopsReady
      <3> QED
        BY <2>3, <3>1, <3>2, FS_EmptySet, Zenon
    <2>7. reg = s
      BY <2>1, <2>3 DEF RegistryExact
    <2>8. ASSUME NEW t \in Sets, t # s
          PROVE  ref'[t] = Cardinality(Holders(t)') /\ Holders(t)' = {}
      BY <2>4, <2>5, <2>7, <2>8, Zenon DEF RegistryExact, StopsReady
    <2>9. RegistryExact'
      BY <2>1, <2>5, <2>6, <2>7, <2>8, Zenon DEF RegistryExact
    <2> QED
      BY <2>2, <2>9
  <1>3. ASSUME NEW w \in Watchers, NEW c \in Stoppers, StopCheck(w, c) \/ StopRemove(w, c)
        PROVE  StopsReady' /\ RegistryExact'
    <2>0. PICK k \in StopPc : stop' = [stop EXCEPT ![w][c] = k] /\ k # "done" /\ stop[w][c] # "done"
      BY <1>3, Zenon DEF StopCheck, StopRemove, StopPc
    <2>4. pc[w] = "ready" /\ UNCHANGED <<pc, set, ref>>
      BY <1>3, Zenon DEF StopCheck, StopRemove, setVars, StopsReady
    <2>6. ref' \in [Sets -> Int]
      BY <2>4, Zenon DEF StopsReady
    <2>7. stop' = [stop EXCEPT ![w][c] = k] /\ pc[w] = "ready" /\ UNCHANGED pc
      BY <2>0, <2>4, Zenon
    <2>1. /\ StopsReady' /\ stop'[w][c] = k
          /\ \A v \in Watchers, d \in Stoppers : v # w \/ d # c => stop'[v][d] = stop[v][d]
      BY <2>6, <2>7, Stopped, ZenonT(30)
    <2>5. \A v \in Watchers, d \in Stoppers : stop'[v][d] = "done" <=> stop[v][d] = "done"
      BY <2>0, <2>1, Zenon
    <2>2. \A s \in Sets : Holders(s)' = Holders(s)
      BY <2>4, <2>5, Zenon DEF Holders
    <2>3. UNCHANGED <<ref, reg>>
      BY <1>3, Zenon DEF StopCheck, StopRemove, setVars
    <2> QED
      BY <2>1, <2>2, <2>3, Zenon DEF RegistryExact
  <1>4. ASSUME UNCHANGED <<ref, reg, set, stop>>,
               \A w \in Watchers : pc[w] = "ready" => pc'[w] = "ready"
        PROVE  StopsReady' /\ RegistryExact'
    BY <1>4, ExactElse, Zenon DEF StopsReady
  <1>5. ASSUME NEW w \in Watchers,
               Join(w) \/ Load(w) \/ Resolve(w) \/ ResolveStore(w) \/ ResolveNotify(w)
                 \/ ResolveError(w) \/ NextTake(w) \/ NextLoad(w)
        PROVE  StopsReady' /\ RegistryExact'
    BY <1>4, <1>5, ZenonT(30) DEF Join, Load, Resolve, ResolveStore, ResolveNotify, ResolveError, NextTake,
       NextLoad, Store, Notify, setVars, FollowInv, FollowTypes
  <1>6. ASSUME NEW s \in Sets, LoopStep(s) PROVE StopsReady' /\ RegistryExact'
    BY <1>4, <1>6, Zenon DEF LoopStep, Poll, LoopStore, LoopNotify, LoopEnd, Store, Notify, watcherVars
  <1>7. CASE AgentChange \/ UNCHANGED vars
    BY <1>4, <1>7, Zenon DEF AgentChange, vars, setVars, watcherVars
  <1> QED
    BY <1>1, <1>2, <1>3, <1>5, <1>6, <1>7, Zenon DEF Next, GetWatcher, WatcherNext, StopStep

\* GetWatcher and tryDelete count the watchers of a set exactly, and the registry
\* holds the set as long as somebody uses it, when every watcher is stopped by one
\* caller.
THEOREM RegistryCounts == OneStopper => (Spec => []RegistryExact)
  <1> SUFFICES ASSUME OneStopper PROVE Spec => []RegistryExact
    OBVIOUS
  <1>1. ExactInv /\ [Next]_vars => ExactInv'
    BY ExactNext
  <1>2. ExactInv => RegistryExact
    BY DEF ExactInv
  <1> QED
    BY <1>1, <1>2, ExactInit, PTL DEF Spec

-----------------------------------------------------------------------------
(***************************************************************************)
(* AgentAgrees, for any number of registrations and of goroutines that     *)
(* deregister, when one goroutine registers.                               *)
(*                                                                         *)
(* A heartbeat that is about to deregister the service has a cancelled     *)
(* context and is not done; then somebody waits for it (Awaited), so the   *)
(* call that cancelled it has not returned.  And at most one canceler is   *)
(* not done, the one in the map (Latest): who has waited for that one has  *)
(* waited for all.                                                         *)
(***************************************************************************)

\* The types of the variables that the argument is about.
HbTypes ==
  /\ registered \in BOOLEAN
  /\ issued \in 0..MaxCc /\ cancelers \in 0..issued
  /\ cancelled \in [Ccs -> BOOLEAN] /\ done \in [Ccs -> BOOLEAN]
  /\ hb \in [Ccs -> {"none", "run", "retry", "ended"}]
  /\ call \in [Procs -> {"idle", "prepare", "call", "start", "deregister"}]
  /\ mine \in [Procs -> 0..issued]
  /\ app \in App

\* Waiting for a canceler, or setting one up.
Waits(p) == call[p] \in {"prepare", "deregister"}
SetsUp(p) == call[p] \in {"call", "start"}

\* A canceler that was not issued is untouched; a heartbeat that runs is not done;
\* one that is being set up is neither.
Untouched ==
  /\ \A c \in Ccs : c > issued => ~done[c] /\ ~cancelled[c] /\ hb[c] = "none"
  /\ \A c \in Ccs : Alive(c) => ~done[c]
  /\ \A p \in Procs : SetsUp(p) /\ mine[p] # 0 => ~done[mine[p]] /\ hb[mine[p]] = "none"

\* Only registrars register.
Roles == \A p \in Procs : call[p] = "prepare" \/ SetsUp(p) => p \in Registrars

\* A canceler that is not done is the one in the map, or the one that the registrar
\* waits for.
Latest ==
  /\ \A c \in Ccs : c <= issued /\ ~done[c] => cancelers = c
  /\ \A p \in Procs : call[p] = "prepare" => cancelers \in {0, mine[p]}
  /\ \A p \in Procs : app = "busy" /\ call[p] = "deregister" => cancelers \in {0, mine[p]}

\* Who was cancelled and is not done is waited for.
Awaited ==
  \A c \in Ccs : cancelled[c] /\ ~done[c] => \E p \in Procs : Waits(p) /\ mine[p] = c

\* What the application was told is about a call that was alone.
Alone ==
  /\ app = "busy" => \A p, q \in Procs : call[p] # "idle" /\ call[q] # "idle" => p = q
  /\ app \in {"none", "failed", "registered", "deregistered", "lost"} =>
       \A p \in Procs : call[p] = "idle"
  /\ \A p \in Procs : call[p] = "idle" => mine[p] = 0

\* A registration that nothing has disturbed is known to the agent.
Kept == \A p \in Procs : app = "busy" /\ call[p] = "start" => registered

\* The inductive invariant.
AgreeInv ==
  HbTypes /\ Untouched /\ Roles /\ Latest /\ Awaited /\ Alone /\ Kept /\ AgentAgrees

OneRegistrar == \A p, q \in Registrars : p = q

-----------------------------------------------------------------------------
\* The invariant holds before the first call.
LEMMA AgreeInit == HeartbeatInit => AgreeInv
  <1> SUFFICES ASSUME HeartbeatInit PROVE AgreeInv
    OBVIOUS
  <1> USE HeartbeatAssumption DEF HeartbeatInit, Ccs
  <1>1. HbTypes
    <2>1. issued \in 0..MaxCc /\ cancelers \in 0..issued /\ mine \in [Procs -> 0..issued]
      OBVIOUS
    <2>2. registered \in BOOLEAN /\ cancelled \in [Ccs -> BOOLEAN] /\ done \in [Ccs -> BOOLEAN]
      BY Zenon
    <2>3. hb \in [Ccs -> {"none", "run", "retry", "ended"}] /\ app \in App
      BY DEF App
    <2>4. call \in [Procs -> {"idle", "prepare", "call", "start", "deregister"}]
      OBVIOUS
    <2> QED
      BY <2>1, <2>2, <2>3, <2>4, Zenon DEF HbTypes
  <1>2. Untouched /\ Roles /\ Latest /\ Awaited
    BY DEF Untouched, Roles, Latest, Awaited, Alive, SetsUp
  <1>3. Alone /\ Kept /\ AgentAgrees
    BY DEF Alone, Kept, AgentAgrees
  <1> QED
    BY <1>1, <1>2, <1>3 DEF AgreeInv

\* Every step of a call, of a heartbeat and of the agent keeps it.
LEMMA AgreeNext == OneRegistrar /\ AgreeInv /\ [HeartbeatNext]_heartbeatVars => AgreeInv'
  <1> SUFFICES ASSUME OneRegistrar, HbTypes, Untouched, Roles, Latest, Awaited, Alone, Kept,
                      AgentAgrees, [HeartbeatNext]_heartbeatVars
               PROVE  AgreeInv'
    BY Zenon DEF AgreeInv
  <1> USE HeartbeatAssumption DEF HbTypes, Ccs, agentState
  <1>1. ASSUME NEW p \in Registrars, RegisterBegin(p) PROVE AgreeInv'
    <2> USE <1>1 DEF RegisterBegin, Begin
    <2>1. HbTypes' /\ Roles'
      BY Zenon DEF App, Roles, SetsUp
    <2>2. Untouched'
      BY DEF Untouched, Alive, SetsUp, Alone
    <2>3. Latest'
      BY Zenon DEF Latest
    <2>4. Awaited'
      BY DEF Awaited, Waits, Latest
    <2>5. Alone' /\ Kept'
      BY Zenon DEF Alone, Kept
    <2>6. AgentAgrees'
      BY Zenon DEF AgentAgrees
    <2> QED
      BY <2>1, <2>2, <2>3, <2>4, <2>5, <2>6, Zenon DEF AgreeInv
  <1>2. ASSUME NEW p \in Procs, DeregisterBegin(p) PROVE AgreeInv'
    <2> USE <1>2 DEF DeregisterBegin, Begin
    <2>1. HbTypes' /\ Roles'
      BY Zenon DEF App, Roles, SetsUp
    <2>2. Untouched'
      BY DEF Untouched, Alive, SetsUp, Alone
    <2>3. Latest'
      BY Zenon DEF Latest
    <2>4. Awaited'
      BY DEF Awaited, Waits, Latest
    <2>5. Alone' /\ Kept'
      BY Zenon DEF Alone, Kept
    <2>6. AgentAgrees'
      BY Zenon DEF AgentAgrees
    <2> QED
      BY <2>1, <2>2, <2>3, <2>4, <2>5, <2>6, Zenon DEF AgreeInv
  <1>3. ASSUME NEW p \in Procs, RegisterPrepare(p) PROVE AgreeInv'
    <2> USE <1>3 DEF RegisterPrepare, PreviousDone
    <2>1. HbTypes' /\ Roles'
      BY DEF Roles, SetsUp
    <2>2. Untouched'
      BY DEF Untouched, Alive, SetsUp, Roles, OneRegistrar
    <2>3. Latest'
      BY DEF Latest, Roles, OneRegistrar, Alone
    <2>4. Awaited'
      BY DEF Awaited, Waits, Untouched
    <2>5. Alone' /\ Kept'
      BY DEF Alone, Kept
    <2>6. AgentAgrees'
      BY Zenon DEF AgentAgrees, Alive, Alone
    <2> QED
      BY <2>1, <2>2, <2>3, <2>4, <2>5, <2>6, Zenon DEF AgreeInv
  <1>4. ASSUME NEW p \in Procs, RegisterCall(p) PROVE AgreeInv'
    <2>1. HbTypes'
      BY <1>4, Zenon DEF RegisterCall
    <2>2. Untouched'
      BY <1>4, Zenon DEF RegisterCall, Untouched, Alive, SetsUp
    <2>3. Roles'
      BY <1>4, Zenon DEF RegisterCall, Roles, SetsUp
    <2>4. Latest'
      BY <1>4, Zenon DEF RegisterCall, Latest
    <2>5. Awaited'
      BY <1>4, Zenon DEF RegisterCall, Awaited, Waits
    <2>6. Alone'
      BY <1>4, Zenon DEF RegisterCall, Alone
    <2>7. Kept'
      BY <1>4, Zenon DEF RegisterCall, Kept
    <2>8. AgentAgrees'
      BY <1>4, Zenon DEF RegisterCall, Alone, AgentAgrees, Alive
    <2> QED
      BY <2>1, <2>2, <2>3, <2>4, <2>5, <2>6, <2>7, <2>8, Zenon DEF AgreeInv
  <1>5. ASSUME NEW p \in Procs, RegisterCallFails(p) PROVE AgreeInv'
    <2> USE <1>5 DEF RegisterCallFails, Return
    <2>1. HbTypes' /\ Roles'
      BY DEF App, Roles, SetsUp
    <2>2. Untouched'
      BY DEF Untouched, Alive, SetsUp, Roles, OneRegistrar
    <2>3. Latest'
      BY Zenon DEF Latest
    <2>4. Awaited'
      BY Zenon DEF Awaited, Waits
    <2>5. Alone' /\ Kept'
      BY Zenon DEF Alone, Kept
    <2>6. AgentAgrees'
      BY Zenon DEF AgentAgrees, Alive, Alone
    <2> QED
      BY <2>1, <2>2, <2>3, <2>4, <2>5, <2>6, Zenon DEF AgreeInv
  <1>6. ASSUME NEW p \in Procs, RegisterStart(p) PROVE AgreeInv'
    <2> USE <1>6 DEF RegisterStart, Return
    <2>1. HbTypes'
      BY DEF App
    <2>2. Untouched'
      BY DEF Untouched, Alive, SetsUp, Roles, OneRegistrar
    <2>6. Roles' /\ Latest'
      BY Zenon DEF Roles, Latest, SetsUp
    <2>3. Awaited'
      BY Zenon DEF Awaited, Waits
    <2>4. Alone' /\ Kept'
      BY Zenon DEF Alone, Kept
    <2>5. AgentAgrees'
      BY Zenon DEF AgentAgrees, Alone, Kept
    <2> QED
      BY <2>1, <2>2, <2>3, <2>4, <2>5, <2>6, Zenon DEF AgreeInv
  <1>7. ASSUME NEW p \in Procs, DeregisterCall(p) PROVE AgreeInv'
    <2>1. HbTypes'
      <3>1. app' \in App
        BY <1>7, Zenon DEF DeregisterCall, Return, App
      <3>2. mine' \in [Procs -> 0..issued'] /\ issued' = issued
        BY <1>7 DEF DeregisterCall, Return
      <3>3. call' \in [Procs -> {"idle", "prepare", "call", "start", "deregister"}]
        BY <1>7, Zenon DEF DeregisterCall, Return
      <3> QED
        BY <1>7, <3>1, <3>2, <3>3, Zenon DEF DeregisterCall
    <2>2. Untouched'
      BY <1>7, Zenon DEF DeregisterCall, Return, PreviousDone, Untouched, Alive, SetsUp
    <2>3. Roles'
      BY <1>7, Zenon DEF DeregisterCall, Return, PreviousDone, Roles, SetsUp
    <2>4. Latest'
      BY <1>7, Zenon DEF DeregisterCall, Return, PreviousDone, Latest
    <2>5. Awaited'
      BY <1>7 DEF DeregisterCall, Return, PreviousDone, Awaited, Waits
    <2>6. Alone'
      BY <1>7 DEF DeregisterCall, Return, PreviousDone, Alone
    <2>7. Kept'
      BY <1>7, Zenon DEF DeregisterCall, Return, PreviousDone, Kept
    <2>8. AgentAgrees'
      BY <1>7 DEF DeregisterCall, Return, PreviousDone, Untouched, Alive, SetsUp,
         Latest, Alone, AgentAgrees
    <2> QED
      BY <2>1, <2>2, <2>3, <2>4, <2>5, <2>6, <2>7, <2>8, Zenon DEF AgreeInv
  <1>8. ASSUME NEW p \in Procs, DeregisterCallFails(p) PROVE AgreeInv'
    <2> USE <1>8 DEF DeregisterCallFails, Return, PreviousDone
    <2>1. HbTypes' /\ Roles'
      BY DEF App, Roles, SetsUp
    <2>2. Untouched' /\ Latest'
      BY DEF Untouched, Alive, SetsUp, Latest
    <2>3. Awaited'
      BY DEF Awaited, Waits
    <2>4. Alone' /\ Kept'
      BY DEF Alone, Kept
    <2>5. AgentAgrees'
      BY Zenon DEF AgentAgrees, Alive, Alone
    <2> QED
      BY <2>1, <2>2, <2>3, <2>4, <2>5, Zenon DEF AgreeInv
  <1>9. ASSUME NEW c \in Ccs, Cleanup(c) PROVE AgreeInv'
    <2>1. HbTypes'
      BY <1>9 DEF Cleanup
    <2>2. Untouched'
      BY <1>9, Zenon DEF Cleanup, Untouched, Alive, SetsUp
    <2>3. Roles'
      BY <1>9, Zenon DEF Cleanup, Roles, SetsUp
    <2>4. Latest'
      BY <1>9, Zenon DEF Cleanup, Latest
    <2>5. Awaited'
      BY <1>9, Zenon DEF Cleanup, Awaited, Waits
    <2>6. Alone'
      BY <1>9, Zenon DEF Cleanup, Alone
    <2>7. Kept'
      BY <1>9, Zenon DEF Cleanup, Untouched, Alive, SetsUp, Awaited, Waits, Alone, Kept
    <2>8. AgentAgrees'
      BY <1>9, Zenon DEF Cleanup, Untouched, Alive, SetsUp, Awaited, Waits, Alone, AgentAgrees
    <2> QED
      BY <2>1, <2>2, <2>3, <2>4, <2>5, <2>6, <2>7, <2>8, Zenon DEF AgreeInv
  <1>10. ASSUME NEW c \in Ccs, HbStop(c) PROVE AgreeInv'
    <2>1. HbTypes'
      BY <1>10, Zenon DEF HbStop
    <2>2. Untouched'
      BY <1>10 DEF HbStop, Untouched, Alive, SetsUp
    <2>3. Roles'
      BY <1>10, Zenon DEF HbStop, Roles, SetsUp
    <2>4. Latest'
      BY <1>10, Zenon DEF HbStop, Latest
    <2>5. Awaited'
      BY <1>10, Zenon DEF HbStop, Awaited, Waits
    <2>6. Alone'
      BY <1>10, Zenon DEF HbStop, Alone
    <2>7. Kept'
      BY <1>10, ZenonT(30) DEF HbStop, Untouched, Alive, SetsUp, Awaited, Waits, Alone, Kept
    <2>8. AgentAgrees'
      BY <1>10, ZenonT(30) DEF HbStop, Untouched, Alive, SetsUp, Awaited, Waits, Alone,
         AgentAgrees
    <2> QED
      BY <2>1, <2>2, <2>3, <2>4, <2>5, <2>6, <2>7, <2>8, Zenon DEF AgreeInv
  <1>11. ASSUME NEW c \in Ccs, HbTick(c) PROVE AgreeInv'
    <2>1. HbTypes'
      BY <1>11, Zenon DEF HbTick
    <2>2. Untouched'
      BY <1>11 DEF HbTick, Untouched, Alive, SetsUp
    <2>3. Roles'
      BY <1>11, Zenon DEF HbTick, Roles, SetsUp
    <2>4. Latest'
      BY <1>11, Zenon DEF HbTick, Latest
    <2>5. Awaited'
      BY <1>11, Zenon DEF HbTick, Awaited, Waits
    <2>6. Alone'
      BY <1>11, Zenon DEF HbTick, Alone
    <2>7. Kept'
      BY <1>11, Zenon DEF HbTick, Untouched, Alive, SetsUp, Awaited, Waits, Alone, Kept
    <2>8. AgentAgrees'
      BY <1>11, Zenon DEF HbTick, Untouched, Alive, SetsUp, Awaited, Waits, Alone, AgentAgrees
    <2> QED
      BY <2>1, <2>2, <2>3, <2>4, <2>5, <2>6, <2>7, <2>8, Zenon DEF AgreeInv
  <1>12. ASSUME NEW c \in Ccs, HbRetry(c) PROVE AgreeInv'
    <2>1. HbTypes'
      BY <1>12, Zenon DEF HbRetry
    <2>2. Untouched'
      BY <1>12 DEF HbRetry, Untouched, Alive, SetsUp
    <2>3. Roles'
      BY <1>12, Zenon DEF HbRetry, Roles, SetsUp
    <2>4. Latest'
      BY <1>12, Zenon DEF HbRetry, Latest
    <2>5. Awaited'
      BY <1>12, Zenon DEF HbRetry, Awaited, Waits
    <2>6. Alone'
      BY <1>12, Zenon DEF HbRetry, Alone
    <2>7. Kept'
      BY <1>12, Zenon DEF HbRetry, Untouched, Alive, SetsUp, Awaited, Waits, Alone, Kept
    <2>8. AgentAgrees'
      BY <1>12, Zenon DEF HbRetry, Untouched, Alive, SetsUp, Awaited, Waits, Alone, AgentAgrees
    <2> QED
      BY <2>1, <2>2, <2>3, <2>4, <2>5, <2>6, <2>7, <2>8, Zenon DEF AgreeInv
  <1>13. ASSUME NEW c \in Ccs, HbRetryFails(c) PROVE AgreeInv'
    <2>1. HbTypes'
      BY <1>13, Zenon DEF HbRetryFails
    <2>2. Untouched'
      BY <1>13 DEF HbRetryFails, Untouched, Alive, SetsUp
    <2>3. Roles'
      BY <1>13, Zenon DEF HbRetryFails, Roles, SetsUp
    <2>4. Latest'
      BY <1>13, Zenon DEF HbRetryFails, Latest
    <2>5. Awaited'
      BY <1>13, Zenon DEF HbRetryFails, Awaited, Waits
    <2>6. Alone'
      BY <1>13, Zenon DEF HbRetryFails, Alone
    <2>7. Kept'
      BY <1>13, Zenon DEF HbRetryFails, Untouched, Alive, SetsUp, Awaited, Waits, Alone, Kept
    <2>8. AgentAgrees'
      BY <1>13, Zenon DEF HbRetryFails, Untouched, Alive, SetsUp, Awaited, Waits, Alone, AgentAgrees
    <2> QED
      BY <2>1, <2>2, <2>3, <2>4, <2>5, <2>6, <2>7, <2>8, Zenon DEF AgreeInv
  <1>14. ASSUME NEW c \in Ccs, HbRetryCancelled(c) PROVE AgreeInv'
    <2>1. HbTypes'
      BY <1>14, Zenon DEF HbRetryCancelled
    <2>2. Untouched'
      BY <1>14 DEF HbRetryCancelled, Untouched, Alive, SetsUp
    <2>3. Roles'
      BY <1>14, Zenon DEF HbRetryCancelled, Roles, SetsUp
    <2>4. Latest'
      BY <1>14, Zenon DEF HbRetryCancelled, Latest
    <2>5. Awaited'
      BY <1>14, Zenon DEF HbRetryCancelled, Awaited, Waits
    <2>6. Alone'
      BY <1>14, Zenon DEF HbRetryCancelled, Alone
    <2>7. Kept'
      BY <1>14, ZenonT(30) DEF HbRetryCancelled, Untouched, Alive, SetsUp, Awaited, Waits, Alone,
         Kept
    <2>8. AgentAgrees'
      BY <1>14, ZenonT(30) DEF HbRetryCancelled, Untouched, Alive, SetsUp, Awaited, Waits, Alone,
         AgentAgrees
    <2> QED
      BY <2>1, <2>2, <2>3, <2>4, <2>5, <2>6, <2>7, <2>8, Zenon DEF AgreeInv
  <1>15. ASSUME DisableHeartbeat PROVE AgreeInv'
    <2>1. HbTypes'
      BY <1>15, Zenon DEF DisableHeartbeat
    <2>2. Untouched'
      BY <1>15, Zenon DEF DisableHeartbeat, Untouched, Alive, SetsUp
    <2>3. Roles'
      BY <1>15, Zenon DEF DisableHeartbeat, Roles, SetsUp
    <2>4. Latest'
      BY <1>15, Zenon DEF DisableHeartbeat, Latest
    <2>5. Awaited'
      BY <1>15, Zenon DEF DisableHeartbeat, Awaited, Waits
    <2>6. Alone'
      BY <1>15, Zenon DEF DisableHeartbeat, Alone
    <2>7. Kept'
      BY <1>15, Zenon DEF DisableHeartbeat, Untouched, Alive, SetsUp, Awaited, Waits, Alone, Kept
    <2>8. AgentAgrees'
      BY <1>15, Zenon DEF DisableHeartbeat, Untouched, Alive, SetsUp, Awaited, Waits, Alone, AgentAgrees
    <2> QED
      BY <2>1, <2>2, <2>3, <2>4, <2>5, <2>6, <2>7, <2>8, Zenon DEF AgreeInv
  <1>16. ASSUME AgentForgets PROVE AgreeInv'
    <2> USE <1>16 DEF AgentForgets
    <2>1. HbTypes' /\ Roles'
      BY Zenon DEF App, Roles, SetsUp
    <2>2. Untouched' /\ Latest'
      BY DEF Untouched, Alive, SetsUp, Latest
    <2>3. Awaited'
      BY DEF Awaited, Waits
    <2>4. Alone' /\ Kept'
      BY DEF Alone, Kept
    <2>5. AgentAgrees'
      BY DEF AgentAgrees, Alive
    <2> QED
      BY <2>1, <2>2, <2>3, <2>4, <2>5 DEF AgreeInv
  <1>17. CASE UNCHANGED heartbeatVars
    <2>1. HbTypes'
      BY <1>17, Zenon DEF heartbeatVars
    <2>2. Untouched'
      BY <1>17, Zenon DEF heartbeatVars, Untouched, Alive, SetsUp
    <2>3. Roles'
      BY <1>17, Zenon DEF heartbeatVars, Roles, SetsUp
    <2>4. Latest'
      BY <1>17, Zenon DEF heartbeatVars, Latest
    <2>5. Awaited'
      BY <1>17, Zenon DEF heartbeatVars, Awaited, Waits
    <2>6. Alone'
      BY <1>17, Zenon DEF heartbeatVars, Alone
    <2>7. Kept'
      BY <1>17, Zenon DEF heartbeatVars, Untouched, Alive, SetsUp, Awaited, Waits, Alone, Kept
    <2>8. AgentAgrees'
      BY <1>17, Zenon DEF heartbeatVars, Untouched, Alive, SetsUp, Awaited, Waits, Alone, AgentAgrees
    <2> QED
      BY <2>1, <2>2, <2>3, <2>4, <2>5, <2>6, <2>7, <2>8, Zenon DEF AgreeInv
  <1> QED
    BY <1>1, <1>2, <1>3, <1>4, <1>5, <1>6, <1>7, <1>8, <1>9, <1>10, <1>11, <1>12, <1>13,
       <1>14, <1>15, <1>16, <1>17 DEF HeartbeatNext, CallStep, HbStep

\* When one goroutine registers, whoever deregisters and however the heartbeat is
\* disabled, the agent knows what the last call told the application.
THEOREM HeartbeatAgrees == OneRegistrar => (HeartbeatSpec => []AgentAgrees)
  <1> SUFFICES ASSUME OneRegistrar PROVE HeartbeatSpec => []AgentAgrees
    OBVIOUS
  <1>1. HeartbeatInit => AgreeInv
    BY AgreeInit
  <1>2. AgreeInv /\ [HeartbeatNext]_heartbeatVars => AgreeInv'
    BY AgreeNext
  <1>3. AgreeInv => AgentAgrees
    BY DEF AgreeInv
  <1> QED
    BY <1>1, <1>2, <1>3, PTL DEF HeartbeatSpec
=============================================================================
