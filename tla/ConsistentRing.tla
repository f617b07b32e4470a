--------------------------- MODULE ConsistentRing ---------------------------
(***************************************************************************)
(* The consistent hash behind subset.Subset                                *)
(* (infra/transport/internal/consistent and internal/subset): Set puts the *)
(* members on a new circle, or takes one off an old one, and GetN walks it *)
(* from the hash of the key.                                               *)
(*                                                                         *)
(* The hash is arbitrary: every member has some points, two members may    *)
(* have the same one, and the later member then takes it.  Indexes into    *)
(* sortedHashes count from 0, as in the code.                              *)
(***************************************************************************)
EXTENDS Integers, Sequences, FiniteSets

CONSTANTS Inss,      \* the instances, in order
          Replicas,  \* NumberOfReplicas: most points a member can have
          Points     \* number of hash values

ASSUME RingAssumption == /\ Inss \in Seq(Nat) /\ Replicas \in Nat /\ Points \in Nat

VARIABLES hashes,  \* hashKey of the replicas of each member, rigid
          key,     \* hashKey(selectKey), rigid
          num,     \* the size asked for, rigid
          circle,  \* c.circle, 0 where no member is
          count,   \* c.count
          phase,   \* "set", "search", "walk" or "done"
          i, start,
          turns,   \* history: turns of the loop of GetN, up to Points + 1
          res

ringVars == <<hashes, key, num, circle, count, phase, i, start, turns, res>>

Count == Len(Inss)

RingInit ==
  /\ hashes \in [1..Count -> {s \in SUBSET (0..(Points - 1)) :
                                s # {} /\ Cardinality(s) <= Replicas}]
  /\ key \in 0..(Points - 1)
  /\ num \in 1..(Count - 1)     \* Subset returns inss itself otherwise
  /\ circle = [p \in 0..(Points - 1) |-> 0]
  /\ count = 0
  /\ phase = "set"
  /\ i = 0 /\ start = 0 /\ turns = 0
  /\ res = <<>>

\* add: the replicas of the next member go on the circle.
Add ==
  /\ phase = "set"
  /\ circle' = [p \in DOMAIN circle |->
                  IF p \in hashes[count + 1] THEN Inss[count + 1] ELSE circle[p]]
  /\ count' = count + 1
  /\ phase' = IF count' = Count THEN "search" ELSE "set"
  /\ UNCHANGED <<hashes, key, num, i, start, turns, res>>

\* updateSortedHashes: the hash at an index is the one with that many below.
Used == {p \in DOMAIN circle : circle[p] # 0}

SortedHash(n) == CHOOSE p \in Used : Cardinality({q \in Used : q < p}) = n

\* search: the first hash above the key, or the first of all.
Search_AtLeast(k) ==
  LET below == Cardinality({p \in Used : p < k})
  IN IF below = Cardinality(Used) THEN 0 ELSE below

Search(k) ==
  LET below == Cardinality({p \in Used : p <= k})
  IN IF below = Cardinality(Used) THEN 0 ELSE below

\* Remove, and Set with a list that lacks one member: the hashes of its replicas
\* leave the circle, also those where another member has taken its place.
RemoveMember ==
  /\ phase = "search" /\ count = Count
  /\ \E m \in 1..Count :
       circle' = [p \in DOMAIN circle |-> IF p \in hashes[m] THEN 0 ELSE circle[p]]
  /\ count' = count - 1
  /\ UNCHANGED <<hashes, key, num, phase, i, start, turns, res>>

\* GetN of an empty circle: ErrEmptyCircle.
GetEmpty ==
  /\ phase = "search" /\ Used = {}
  /\ phase' = "done"
  /\ UNCHANGED <<hashes, key, num, circle, count, i, start, turns, res>>

\* GetN: the first member.
GetFirst ==
  /\ phase = "search" /\ Used # {}
  /\ start' = Search(key)
  /\ res' = <<circle[SortedHash(start')]>>
  /\ i' = start' + 1
  /\ phase' = IF num = 1 THEN "done" ELSE "walk"
  /\ UNCHANGED <<hashes, key, num, circle, count, turns>>

Turn == turns' = IF turns <= Points THEN turns + 1 ELSE turns

\* GetN: one turn of the loop.  The index wraps in the body, so the test
\* i # start does not see a start of 0.
GetNext ==
  /\ phase = "walk"
  /\ Turn
  /\ IF i = start THEN phase' = "done" /\ UNCHANGED <<i, res>>
     ELSE LET at == IF i >= Cardinality(Used) THEN 0 ELSE i
              elem == circle[SortedHash(at)]
          IN /\ res' = IF \E k \in 1..Len(res) : res[k] = elem THEN res ELSE Append(res, elem)
             /\ phase' = IF Len(res') = num THEN "done" ELSE "walk"
             /\ i' = at + 1
  /\ UNCHANGED <<hashes, key, num, circle, count, start>>

\* Get: the member whose hash follows that of the key.
GetOne == circle[SortedHash(Search(key))]

\* GetTwo: the member of Get, and the next one on the circle that differs.  With a
\* count of one there is no second.
GetTwo ==
  LET used == Cardinality(Used)
      at(n) == circle[SortedHash((Search(key) + n) % used)]
      other == {n \in 1..(used - 1) : at(n) # GetOne}
  IN IF count = 1 \/ other = {} THEN <<GetOne>>
     ELSE <<GetOne, at(CHOOSE n \in other : \A k \in other : n <= k)>>

RingNext == Add \/ RemoveMember \/ GetEmpty \/ GetFirst \/ GetNext

RingSpec == RingInit /\ [][RingNext]_ringVars

-----------------------------------------------------------------------------
(* Properties.                                                             *)

Survivors == {circle[p] : p \in Used}

Closeness(m) ==
  LET far == {(p + Points - key - 1) % Points : p \in {q \in Used : circle[q] = m}}
  IN CHOOSE d \in far : \A e \in far : d <= e

\* GetN: the result is what its comment says, the closest distinct members in
\* the circle, in order, and begins with those of Get and GetTwo.  While every
\* member keeps a point, GetN returns after one turn around the circle at most, with
\* as many members as were asked for.
GetNClosest ==
  /\ phase = "walk" /\ Cardinality(Survivors) = count => turns < Cardinality(Used)
  /\ phase = "done" =>
       /\ Cardinality(Survivors) = count => Len(res) = num
       /\ \A k \in {1, 2} \cap 1..Len(res) : k <= Len(GetTwo) /\ res[k] = GetTwo[k]
       /\ \A k \in 1..Len(res) : res[k] \in Survivors
       /\ \A m \in Survivors, k \in 1..Len(res) :
            Closeness(m) < Closeness(res[k]) => \E j \in 1..(k - 1) : res[j] = m
       /\ \A j, k \in 1..Len(res) : j # k => res[j] # res[k]
=============================================================================
