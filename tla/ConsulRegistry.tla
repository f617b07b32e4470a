--------------------------- MODULE ConsulRegistry ---------------------------
(***************************************************************************)
(* The watch side of the Consul registry (infra/discovery/consul):         *)
(* Registry.GetWatcher, resolve, watchServiceChange and tryDelete,         *)
(* serviceSet.broadcast and delete, watcher.Next and Stop.                 *)
(*                                                                         *)
(* Service names do not interact (the registry map is keyed by name), so   *)
(* there is one.  Each watcher is made by one GetWatcher call.  Service    *)
(* sets are numbered in the order of their creation.  A list of instances  *)
(* is represented by the Consul index at which it was read; 0 is the nil   *)
(* list of a set that has stored none.                                     *)
(***************************************************************************)
EXTENDS Integers, FiniteSets

CONSTANTS
  Watchers,
  Stoppers,     \* the callers of one watcher's Stop
  AgentFails,   \* may the query of resolve fail
  MaxSets,      \* bound: how many sets are made
  MaxIndex      \* bound: Consul's index at the end

ASSUME RegistryAssumption ==
  /\ IsFiniteSet(Watchers)
  /\ MaxSets \in Nat
  /\ AgentFails \in BOOLEAN
  /\ MaxIndex \in Nat \ {0}

Sets == 1..MaxSets

VARIABLES
  idx, inst,    \* the Consul agent: index of the service, has it instances
  reg,          \* registry[serviceName]: a set, or 0
  made,         \* how many sets were made
  ref,          \* serviceSet.ref
  dead,         \* serviceSet.ctx is cancelled
  members,      \* serviceSet.watcher
  services,     \* serviceSet.services
  loop,         \* program counter of watchServiceChange
  last,         \* its lastIndex
  pend,         \* the list that it is about to broadcast
  pc,           \* program counter of the GetWatcher call
  set,          \* watcher.set
  fetched,      \* the list that resolve is about to broadcast
  creator,      \* did the call make its set
  event,        \* watcher.event holds a signal
  next,         \* program counter of the watcher's Next
  seen,         \* the list that Next returned last
  canStop,      \* watcher.cancel is not nil
  stop          \* program counters of Stop

agentVars == <<idx, inst>>
setVars == <<reg, made, ref, dead, members, services, loop, last, pend>>
watcherVars == <<pc, set, fetched, creator, event, next, seen, canStop, stop>>
vars == <<agentVars, setVars, watcherVars>>

WatchPc == {"none", "entered", "joined", "resolve", "store", "notify", "ready", "failed"}
LoopPc  == {"none", "wait", "store", "notify", "ended"}
StopPc  == {"idle", "passed", "removed", "done"}

TypeOK ==
  /\ idx \in 1..MaxIndex /\ inst \in BOOLEAN
  /\ reg \in Sets \cup {0} /\ made \in Sets \cup {0}
  /\ ref \in [Sets -> Nat]
  /\ dead \in [Sets -> BOOLEAN]
  /\ members \in [Sets -> SUBSET Watchers]
  /\ services \in [Sets -> 0..MaxIndex]
  /\ loop \in [Sets -> LoopPc]
  /\ last \in [Sets -> 0..MaxIndex] /\ pend \in [Sets -> 0..MaxIndex]
  /\ pc \in [Watchers -> WatchPc]
  /\ set \in [Watchers -> Sets \cup {0}]
  /\ fetched \in [Watchers -> 0..MaxIndex]
  /\ creator \in [Watchers -> BOOLEAN]
  /\ event \in [Watchers -> BOOLEAN]
  /\ next \in [Watchers -> {"idle", "took"}]
  /\ seen \in [Watchers -> 0..MaxIndex]
  /\ canStop \in [Watchers -> BOOLEAN]
  /\ stop \in [Watchers -> [Stoppers -> StopPc]]

Init ==
  /\ idx = 1 /\ inst \in BOOLEAN
  /\ reg = 0 /\ made = 0
  /\ ref = [s \in Sets |-> 0]
  /\ dead = [s \in Sets |-> FALSE]
  /\ members = [s \in Sets |-> {}]
  /\ services = [s \in Sets |-> 0]
  /\ loop = [s \in Sets |-> "none"]
  /\ last = [s \in Sets |-> 0] /\ pend = [s \in Sets |-> 0]
  /\ pc = [w \in Watchers |-> "none"]
  /\ set = [w \in Watchers |-> 0]
  /\ fetched = [w \in Watchers |-> 0]
  /\ creator = [w \in Watchers |-> FALSE]
  /\ event = [w \in Watchers |-> FALSE]
  /\ next = [w \in Watchers |-> "idle"]
  /\ seen = [w \in Watchers |-> 0]
  /\ canStop = [w \in Watchers |-> FALSE]
  /\ stop = [w \in Watchers |-> [c \in Stoppers |-> "idle"]]

(***************************************************************************)
(* GetWatcher and resolve                                                  *)
(***************************************************************************)

\* Under the registry's lock: find or make the set and take a reference.
Enter(w) ==
  /\ pc[w] = "none"
  /\ reg # 0 \/ made < MaxSets
  /\ LET s == IF reg # 0 THEN reg ELSE made + 1
     IN  /\ reg' = s
         /\ made' = IF reg # 0 THEN made ELSE made + 1
         /\ ref' = [ref EXCEPT ![s] = @ + 1]
         /\ set' = [set EXCEPT ![w] = s]
  /\ creator' = [creator EXCEPT ![w] = reg = 0]
  /\ canStop' = [canStop EXCEPT ![w] = TRUE]
  /\ pc' = [pc EXCEPT ![w] = "entered"]
  /\ UNCHANGED <<agentVars, dead, members, services, loop, last, pend, fetched, event, next, seen, stop>>

\* Under the set's lock: the new watcher joins the set.
Join(w) ==
  /\ pc[w] = "entered"
  /\ members' = [members EXCEPT ![set[w]] = @ \cup {w}]
  /\ pc' = [pc EXCEPT ![w] = "joined"]
  /\ UNCHANGED <<agentVars, reg, made, ref, dead, services, loop, last, pend>>
  /\ UNCHANGED <<set, fetched, creator, event, next, seen, canStop, stop>>

\* A GetWatcher that leaves it to the next broadcast to signal the watcher.
Load_NoSignal(w) ==
  /\ pc[w] = "joined"
  /\ pc' = [pc EXCEPT ![w] = IF creator[w] THEN "resolve" ELSE "ready"]
  /\ UNCHANGED <<agentVars, setVars, set, fetched, creator, event, next, seen, canStop, stop>>

\* A list that is there already is signalled; the maker of the set goes on to
\* resolve it, everyone else has a watcher.
Load(w) ==
  /\ pc[w] = "joined"
  /\ event' = [event EXCEPT ![w] = @ \/ services[set[w]] # 0]
  /\ pc' = [pc EXCEPT ![w] = IF creator[w] THEN "resolve" ELSE "ready"]
  /\ UNCHANGED <<agentVars, setVars, set, fetched, creator, next, seen, canStop, stop>>

\* A resolve that starts the watch loop before it broadcasts.
Resolve_LoopFirst(w) ==
  /\ pc[w] = "resolve"
  /\ inst
  /\ last' = [last EXCEPT ![set[w]] = idx]
  /\ fetched' = [fetched EXCEPT ![w] = idx]
  /\ pc' = [pc EXCEPT ![w] = "store"]
  /\ loop' = [loop EXCEPT ![set[w]] = "wait"]
  /\ UNCHANGED <<agentVars, reg, made, ref, dead, members, services, pend>>
  /\ UNCHANGED <<set, creator, event, next, seen, canStop, stop>>

\* resolve: the first query.  Without instances there is nothing to broadcast and
\* the watch loop starts at once.
Resolve(w) ==
  /\ pc[w] = "resolve"
  /\ last' = [last EXCEPT ![set[w]] = idx]
  /\ IF inst
     THEN /\ fetched' = [fetched EXCEPT ![w] = idx]
          /\ pc' = [pc EXCEPT ![w] = "store"]
          /\ UNCHANGED loop
     ELSE /\ loop' = [loop EXCEPT ![set[w]] = "wait"]
          /\ pc' = [pc EXCEPT ![w] = "ready"]
          /\ UNCHANGED fetched
  /\ UNCHANGED <<agentVars, reg, made, ref, dead, members, services, pend>>
  /\ UNCHANGED <<set, creator, event, next, seen, canStop, stop>>

\* The query fails: GetWatcher returns the error and leaves the set as it is.
ResolveError(w) ==
  /\ pc[w] = "resolve"
  /\ AgentFails
  /\ pc' = [pc EXCEPT ![w] = "failed"]
  /\ UNCHANGED <<agentVars, setVars, set, fetched, creator, event, next, seen, canStop, stop>>

\* broadcast, first step: services.Store.
Store(s, list) ==
  /\ services' = [services EXCEPT ![s] = list]
  /\ UNCHANGED <<agentVars, reg, made, ref, dead, members, last, pend>>
  /\ UNCHANGED <<set, fetched, creator, event, next, seen, canStop, stop>>

\* broadcast, second step, under the set's read lock: one signal to each watcher.
Notify(s) ==
  /\ event' = [w \in Watchers |-> event[w] \/ w \in members[s]]
  /\ UNCHANGED <<agentVars, reg, made, ref, dead, members, services, last, pend>>
  /\ UNCHANGED <<set, fetched, creator, next, seen, canStop, stop>>

ResolveStore(w) ==
  /\ pc[w] = "store"
  /\ pc' = [pc EXCEPT ![w] = "notify"]
  /\ Store(set[w], fetched[w])
  /\ UNCHANGED loop

ResolveNotify(w) ==
  /\ pc[w] = "notify"
  /\ pc' = [pc EXCEPT ![w] = "ready"]
  /\ loop' = [loop EXCEPT ![set[w]] = "wait"]
  /\ Notify(set[w])

GetWatcher(w) ==
  Enter(w) \/ Join(w) \/ Load(w) \/ Resolve(w) \/ ResolveStore(w) \/ ResolveNotify(w)

(***************************************************************************)
(* watchServiceChange                                                      *)
(***************************************************************************)

\* The blocking query returns when the index has moved on; an empty list is
\* skipped.  (A query that times out or fails changes nothing.)
Poll(s) ==
  /\ loop[s] = "wait"
  /\ ~dead[s]
  /\ idx # last[s]
  /\ last' = [last EXCEPT ![s] = idx]
  /\ IF inst
     THEN /\ pend' = [pend EXCEPT ![s] = idx]
          /\ loop' = [loop EXCEPT ![s] = "store"]
     ELSE UNCHANGED <<pend, loop>>
  /\ UNCHANGED <<agentVars, reg, made, ref, dead, members, services, watcherVars>>

LoopStore(s) ==
  /\ loop[s] = "store"
  /\ loop' = [loop EXCEPT ![s] = "notify"]
  /\ Store(s, pend[s])
  /\ UNCHANGED pc

LoopNotify(s) ==
  /\ loop[s] = "notify"
  /\ loop' = [loop EXCEPT ![s] = "wait"]
  /\ Notify(s)
  /\ UNCHANGED pc

LoopEnd(s) ==
  /\ loop[s] = "wait"
  /\ dead[s]
  /\ loop' = [loop EXCEPT ![s] = "ended"]
  /\ UNCHANGED <<agentVars, reg, made, ref, dead, members, services, last, pend, watcherVars>>

LoopStep(s) == Poll(s) \/ LoopStore(s) \/ LoopNotify(s) \/ LoopEnd(s)

(***************************************************************************)
(* watcher.Next and watcher.Stop                                           *)
(***************************************************************************)
NextTake(w) ==
  /\ pc[w] = "ready"
  /\ next[w] = "idle"
  /\ event[w]
  /\ event' = [event EXCEPT ![w] = FALSE]
  /\ next' = [next EXCEPT ![w] = "took"]
  /\ UNCHANGED <<agentVars, setVars, pc, set, fetched, creator, seen, canStop, stop>>

NextLoad(w) ==
  /\ next[w] = "took"
  /\ seen' = [seen EXCEPT ![w] = services[set[w]]]
  /\ next' = [next EXCEPT ![w] = "idle"]
  /\ UNCHANGED <<agentVars, setVars, pc, set, fetched, creator, event, canStop, stop>>

WatcherNext(w) == NextTake(w) \/ NextLoad(w)

\* Stop finds w.cancel set.
StopCheck(w, c) ==
  /\ pc[w] = "ready"
  /\ stop[w][c] = "idle"
  /\ canStop[w]
  /\ stop' = [stop EXCEPT ![w][c] = "passed"]
  /\ UNCHANGED <<agentVars, setVars, pc, set, fetched, creator, event, next, seen, canStop>>

\* Stop clears w.cancel; delete takes the watcher out of its set.
StopRemove(w, c) ==
  /\ stop[w][c] = "passed"
  /\ stop' = [stop EXCEPT ![w][c] = "removed"]
  /\ canStop' = [canStop EXCEPT ![w] = FALSE]
  /\ members' = [members EXCEPT ![set[w]] = @ \ {w}]
  /\ UNCHANGED <<agentVars, reg, made, ref, dead, services, loop, last, pend>>
  /\ UNCHANGED <<pc, set, fetched, creator, event, next, seen>>

\* A tryDelete that forgets a set others still use.
TryDelete_Always(w, c) ==
  /\ stop[w][c] = "removed"
  /\ stop' = [stop EXCEPT ![w][c] = "done"]
  /\ ref' = [ref EXCEPT ![set[w]] = @ - 1]
  /\ dead' = [dead EXCEPT ![set[w]] = TRUE]
  /\ reg' = 0
  /\ UNCHANGED <<agentVars, made, members, services, loop, last, pend>>
  /\ UNCHANGED <<pc, set, fetched, creator, event, next, seen, canStop>>

\* Under the registry's lock: the last reference cancels and forgets the set.
TryDelete(w, c) ==
  /\ stop[w][c] = "removed"
  /\ stop' = [stop EXCEPT ![w][c] = "done"]
  /\ ref' = [ref EXCEPT ![set[w]] = @ - 1]
  /\ IF ref'[set[w]] = 0
     THEN dead' = [dead EXCEPT ![set[w]] = TRUE] /\ reg' = 0
     ELSE UNCHANGED <<dead, reg>>
  /\ UNCHANGED <<agentVars, made, members, services, loop, last, pend>>
  /\ UNCHANGED <<pc, set, fetched, creator, event, next, seen, canStop>>

StopStep(w, c) == StopRemove(w, c) \/ TryDelete(w, c)

\* External: instances register and deregister, and Consul's index moves on.
AgentChange ==
  /\ idx < MaxIndex
  /\ idx' = idx + 1
  /\ inst' \in BOOLEAN
  /\ UNCHANGED <<setVars, watcherVars>>

-----------------------------------------------------------------------------
Next ==
  \/ \E w \in Watchers :
       \/ GetWatcher(w)
       \/ ResolveError(w)
       \/ WatcherNext(w)
       \/ \E c \in Stoppers : StopCheck(w, c) \/ StopStep(w, c)
  \/ \E s \in Sets : LoopStep(s)
  \/ AgentChange

\* Calls that have begun go on, the loop keeps polling, and the application keeps
\* calling Next.  It need not call GetWatcher or Stop.
Fairness ==
  /\ \A w \in Watchers :
       /\ WF_vars(pc[w] # "none" /\ GetWatcher(w))
       /\ WF_vars(WatcherNext(w))
       /\ \A c \in Stoppers : WF_vars(StopStep(w, c))
  /\ \A s \in Sets : WF_vars(LoopStep(s))

Spec == Init /\ [][Next]_vars /\ Fairness

-----------------------------------------------------------------------------
(***************************************************************************)
(* Properties                                                              *)
(***************************************************************************)

\* The watchers that hold a reference to the set.
Holders(s) ==
  {w \in Watchers : set[w] = s /\ \A c \in Stoppers : stop[w][c] # "done"}

\* The registry holds exactly the set that somebody uses: tryDelete, racing with
\* GetWatcher, neither forgets a set in use nor keeps one that nobody uses.
RegistryExact ==
  \A s \in Sets : /\ ref[s] = Cardinality(Holders(s))
                  /\ reg = s <=> Holders(s) # {}

\* The registry, for its watchers, is the source of Following, with Consul's index as
\* the version: whatever resolve, watchServiceChange, broadcast and Next do in
\* between, no watcher is given a list that Consul did not have or goes back to an
\* older one.
Promise == INSTANCE Following WITH latest <- idx
Follows == Promise!FollowingSpec

\* The watcher has read the list on which the agent has settled, or is stopped.
Caught(w) == seen[w] = MaxIndex \/ \E c \in Stoppers : stop[w][c] # "idle"

\* When the agent has settled on a list of instances, every watcher that is not
\* stopped has read that list, unless the first query of its set has failed.
WatchersConverge ==
  \A w \in Watchers :
    pc[w] = "ready" /\ idx = MaxIndex /\ inst
      ~> Caught(w) \/ \E v \in Watchers : set[v] = set[w] /\ pc[v] = "failed"

\* GetWatcher: "If the service is not resolved in the registry, it will try to get
\* the service from the Consul agent."  So every watcher reads the list, also
\* when an earlier GetWatcher has failed.
EveryWatcherResolves ==
  \A w \in Watchers : pc[w] = "ready" /\ idx = MaxIndex /\ inst ~> Caught(w)
=============================================================================
