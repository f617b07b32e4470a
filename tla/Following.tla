------------------------------ MODULE Following ------------------------------
(***************************************************************************)
(* What a watch promises, without how: there is a source whose versions    *)
(* are numbered as they come, and every watcher, now and then, is given    *)
(* one of them.  It is never given a version that does not exist, and      *)
(* never one older than what it has; it may miss any of them.              *)
(***************************************************************************)
EXTENDS Naturals

CONSTANT Watchers

VARIABLES latest,  \* the version of the source
          seen     \* the version each watcher has, 0 before the first

FollowingInit == latest = 1 /\ seen = [w \in Watchers |-> 0]

Publish == latest' = latest + 1 /\ UNCHANGED seen

Deliver(w) ==
  /\ \E v \in (seen[w] + 1)..latest : seen' = [seen EXCEPT ![w] = v]
  /\ UNCHANGED latest

FollowingNext == Publish \/ \E w \in Watchers : Deliver(w)

FollowingSpec == FollowingInit /\ [][FollowingNext]_<<latest, seen>>
=============================================================================
