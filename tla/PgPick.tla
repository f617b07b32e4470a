------------------------------- MODULE PgPick -------------------------------
(***************************************************************************)
(* LeastConnectionsPickStrategy of infra/pgw/config.go: one pass over the  *)
(* store's hosts, in the order in which Go's map iteration happens to      *)
(* return them.                                                            *)
(*                                                                         *)
(* load[h] is what the pass computes for the host.  It is the difference   *)
(* of two separate snapshots, h.Stat().TotalConns() and then               *)
(* h.Stat().IdleConns(), so it is negative when idle connections appear    *)
(* between the two.                                                        *)
(***************************************************************************)
EXTENDS Integers, FiniteSets

CONSTANTS
  Hosts,     \* the hosts of the store
  None,      \* the nil *Pool
  MaxLoad    \* bound: the largest load considered

ASSUME PickAssumption ==
  /\ None \notin Hosts
  /\ MaxLoad \in Nat

VARIABLES load, todo, minConnections, result

vars == <<load, todo, minConnections, result>>

Loads == (-1)..MaxLoad

TypeOK ==
  /\ load \in [Hosts -> Loads]
  /\ todo \subseteq Hosts
  /\ minConnections \in Loads
  /\ result \in Hosts \cup {None}

Init ==
  /\ load \in [Hosts -> Loads]
  /\ todo = Hosts
  /\ minConnections = 0
  /\ result = None

\* The callback of Range.  A minimum of zero stands for "none so far", also when
\* it is a host's load.
Visit(h) ==
  /\ h \in todo
  /\ todo' = todo \ {h}
  /\ IF minConnections = 0 \/ load[h] < minConnections
     THEN minConnections' = load[h] /\ result' = h
     ELSE UNCHANGED <<minConnections, result>>
  /\ UNCHANGED load

Next == \E h \in Hosts : Visit(h)

Spec == Init /\ [][Next]_vars

-----------------------------------------------------------------------------
\* The hosts the pass has seen.
Seen == Hosts \ todo

\* The strategy picks somebody whenever the store is not empty, and somebody in it.
PicksSomebody == todo = {} /\ Hosts # {} => result \in Hosts

\* Where no host is idle, the pick is a host with the fewest active connections,
\* whatever the order of the iteration.
LeastWhenBusy ==
  todo = {} /\ Hosts # {} /\ (\A h \in Hosts : load[h] # 0) =>
    result \in Hosts /\ \A h \in Hosts : load[result] <= load[h]
=============================================================================
