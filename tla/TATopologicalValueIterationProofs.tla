----------------- MODULE TATopologicalValueIterationProofs -----------------
(***************************************************************************)
(* Proofs about trap-aware topological value iteration, for every MDP,     *)
(* every heuristic and any order of actions and successors, whether the    *)
(* search runs out of time or not: first about the partition its analysis  *)
(* of solvability works with, then about the algorithm, one lemma to a     *)
(* step.                                                                   *)
(***************************************************************************)
EXTENDS TATopologicalValueIteration, BellmanEquationsProofs

-----------------------------------------------------------------------------
(* The partition: every operation keeps the array, its inverse and the     *)
(* boundaries consistent, and moves the members it should from one region  *)
(* to another, and no others.                                              *)

Partitions(n) == [order : [1..n -> 1..n], place : [1..n -> 1..n],
                  solvable_beg : 1..(n + 1), exits_beg : 1..(n + 1)]

-----------------------------------------------------------------------------

(* A member of a permutation is in one place only.                         *)
LEMMA PlaceInjective ==
  ASSUME NEW n \in Nat, NEW p, Consistent(p, n), NEW s \in 1..n, NEW t \in 1..n,
         p.place[s] = p.place[t]
  PROVE  s = t
BY DEF Consistent

(* What an exchange does to the two arrays.                                *)
LEMMA BroughtToArrays ==
  ASSUME NEW n \in Nat, NEW p, Consistent(p, n), NEW i \in 1..n, NEW s \in 1..n
  PROVE  LET q == BroughtTo(p, i, s)
         IN  /\ q \in Partitions(n)
             /\ q.solvable_beg = p.solvable_beg
             /\ q.exits_beg = p.exits_beg
             /\ \A t \in 1..n : q.place[t] = IF t = s THEN i
                                             ELSE IF t = p.order[i]
                                             THEN p.place[s] ELSE p.place[t]
             /\ \A j \in 1..n : q.order[j] = IF j = i THEN s
                                             ELSE IF j = p.place[s]
                                             THEN p.order[i] ELSE p.order[j]
<1> DEFINE q == BroughtTo(p, i, s)
<1>1. /\ p.order \in [1..n -> 1..n] /\ p.place \in [1..n -> 1..n]
      /\ p \in Partitions(n)
  BY DEF Consistent, Partitions
<1>2. p.order[i] \in 1..n /\ p.place[s] \in 1..n
  BY <1>1
<1>3. p.place[p.order[i]] = i /\ p.order[p.place[s]] = s
  BY DEF Consistent
<1>4. /\ Swapped(p.place, p.order[i], s) \in [1..n -> 1..n]
      /\ \A t \in 1..n : Swapped(p.place, p.order[i], s)[t] =
           IF t = s THEN i ELSE IF t = p.order[i] THEN p.place[s] ELSE p.place[t]
  BY <1>1, <1>2, <1>3 DEF Swapped
<1>5. /\ Swapped(p.order, i, p.place[s]) \in [1..n -> 1..n]
      /\ \A j \in 1..n : Swapped(p.order, i, p.place[s])[j] =
           IF j = i THEN s ELSE IF j = p.place[s] THEN p.order[i] ELSE p.order[j]
  BY <1>1, <1>2, <1>3 DEF Swapped
<1>6. /\ q \in Partitions(n)
      /\ q.solvable_beg = p.solvable_beg /\ q.exits_beg = p.exits_beg
      /\ q.place = Swapped(p.place, p.order[i], s)
      /\ q.order = Swapped(p.order, i, p.place[s])
  BY <1>1, <1>4, <1>5 DEF BroughtTo, Partitions
<1> QED BY <1>4, <1>5, <1>6

(* The arrays are inverse to each other again after an exchange.           *)
LEMMA BroughtToConsistent ==
  ASSUME NEW n \in Nat, NEW p, Consistent(p, n), NEW i \in 1..n, NEW s \in 1..n
  PROVE  Consistent(BroughtTo(p, i, s), n)
<1> DEFINE q == BroughtTo(p, i, s)
<1>1. /\ q \in Partitions(n)
      /\ q.solvable_beg = p.solvable_beg
      /\ q.exits_beg = p.exits_beg
      /\ \A t \in 1..n : q.place[t] = IF t = s THEN i
                                      ELSE IF t = p.order[i]
                                      THEN p.place[s] ELSE p.place[t]
      /\ \A j \in 1..n : q.order[j] = IF j = i THEN s
                                      ELSE IF j = p.place[s]
                                      THEN p.order[i] ELSE p.order[j]
  BY BroughtToArrays
<1> HIDE DEF q
<1>2. /\ p.order \in [1..n -> 1..n] /\ p.place \in [1..n -> 1..n]
      /\ \A j \in 1..n : p.place[p.order[j]] = j
      /\ \A t \in 1..n : p.order[p.place[t]] = t
      /\ p.solvable_beg <= p.exits_beg
  BY DEF Consistent
<1>3. \A j \in 1..n : q.place[q.order[j]] = j
  <2> SUFFICES ASSUME NEW j \in 1..n PROVE q.place[q.order[j]] = j
    OBVIOUS
  <2>1. p.order[j] \in 1..n /\ p.order[i] \in 1..n
    BY <1>2
  <2>2. CASE j = i
    BY <1>1, <2>2
  <2>3. CASE j # i /\ j = p.place[s]
    <3>1. q.order[j] = p.order[i]
      BY <1>1, <2>3
    <3>2. p.order[i] # s
      BY <1>2, <2>3
    <3> QED BY <1>1, <2>1, <2>3, <3>1, <3>2
  <2>4. CASE j # i /\ j # p.place[s]
    <3>1. q.order[j] = p.order[j]
      BY <1>1, <2>4
    <3>2. p.order[j] # s /\ p.order[j] # p.order[i]
      BY <1>2, <2>4
    <3>3. q.place[p.order[j]] = p.place[p.order[j]]
      BY <1>1, <2>1, <3>2
    <3> QED BY <1>2, <3>1, <3>3
  <2> QED BY <2>2, <2>3, <2>4
<1>4. \A t \in 1..n : q.order[q.place[t]] = t
  <2> SUFFICES ASSUME NEW t \in 1..n PROVE q.order[q.place[t]] = t
    OBVIOUS
  <2>1. p.place[t] \in 1..n /\ p.place[s] \in 1..n
    BY <1>2
  <2>2. CASE t = s
    BY <1>1, <2>2
  <2>3. CASE t # s /\ t = p.order[i]
    <3>1. q.place[t] = p.place[s]
      BY <1>1, <2>3
    <3>2. p.place[s] # i
      BY <1>2, <2>3
    <3> QED BY <1>1, <2>1, <2>3, <3>1, <3>2
  <2>4. CASE t # s /\ t # p.order[i]
    <3>1. q.place[t] = p.place[t]
      BY <1>1, <2>4
    <3>2. p.place[t] # i /\ p.place[t] # p.place[s]
      BY <1>2, <2>4
    <3>3. q.order[p.place[t]] = p.order[p.place[t]]
      BY <1>1, <2>1, <3>2
    <3> QED BY <1>2, <3>1, <3>3
  <2> QED BY <2>2, <2>3, <2>4
<1> QED BY <1>1, <1>2, <1>3, <1>4 DEF Consistent, Partitions, q

(* Moving the first boundary ...                                           *)
LEMMA SolvableBegMoved ==
  ASSUME NEW n \in Nat, NEW r, Consistent(r, n), NEW b \in 1..(n + 1),
         b <= r.exits_beg
  PROVE  LET q == [r EXCEPT !.solvable_beg = b]
         IN  /\ Consistent(q, n)
             /\ q.solvable_beg = b
             /\ q.exits_beg = r.exits_beg
             /\ q.place = r.place
<1> DEFINE q == [r EXCEPT !.solvable_beg = b]
<1>1. r \in Partitions(n)
  BY DEF Consistent, Partitions
<1>2. /\ q \in Partitions(n)
      /\ q.solvable_beg = b
      /\ q.exits_beg = r.exits_beg
      /\ q.place = r.place
      /\ q.order = r.order
  BY <1>1, Zenon DEF Partitions
<1> HIDE DEF q
<1>3. Consistent(q, n)
  <2>1. /\ \A i \in 1..n : r.place[r.order[i]] = i
        /\ \A s \in 1..n : r.order[r.place[s]] = s
    BY DEF Consistent
  <2>2. /\ \A i \in 1..n : q.place[q.order[i]] = i
        /\ \A s \in 1..n : q.order[q.place[s]] = s
    BY <1>2, <2>1
  <2>3. q.solvable_beg <= q.exits_beg
    BY <1>2
  <2> QED BY <1>2, <2>2, <2>3 DEF Consistent, Partitions
<1> QED BY <1>2, <1>3 DEF q

(* ... or the second.                                                      *)
LEMMA ExitsBegMoved ==
  ASSUME NEW n \in Nat, NEW r, Consistent(r, n), NEW e \in 1..(n + 1),
         r.solvable_beg <= e
  PROVE  LET q == [r EXCEPT !.exits_beg = e]
         IN  /\ Consistent(q, n)
             /\ q.solvable_beg = r.solvable_beg
             /\ q.exits_beg = e
             /\ q.place = r.place
<1> DEFINE q == [r EXCEPT !.exits_beg = e]
<1>1. r \in Partitions(n)
  BY DEF Consistent, Partitions
<1>2. /\ q \in Partitions(n)
      /\ q.solvable_beg = r.solvable_beg
      /\ q.exits_beg = e
      /\ q.place = r.place
      /\ q.order = r.order
  BY <1>1, Zenon DEF Partitions
<1> HIDE DEF q
<1>3. Consistent(q, n)
  <2>1. /\ \A i \in 1..n : r.place[r.order[i]] = i
        /\ \A s \in 1..n : r.order[r.place[s]] = s
    BY DEF Consistent
  <2>2. /\ \A i \in 1..n : q.place[q.order[i]] = i
        /\ \A s \in 1..n : q.order[q.place[s]] = s
    BY <1>2, <2>1
  <2>3. q.solvable_beg <= q.exits_beg
    BY <1>2
  <2> QED BY <1>2, <2>2, <2>3 DEF Consistent, Partitions
<1> QED BY <1>2, <1>3 DEF q

(* An exchange does not move the boundaries.                               *)
LEMMA BroughtToKeeps ==
  ASSUME NEW n \in Nat, NEW p, Consistent(p, n), NEW i \in 1..n, NEW s \in 1..n
  PROVE  /\ Consistent(BroughtTo(p, i, s), n)
         /\ BroughtTo(p, i, s).solvable_beg = p.solvable_beg
         /\ BroughtTo(p, i, s).exits_beg = p.exits_beg
<1>1. Consistent(BroughtTo(p, i, s), n)
  BY BroughtToConsistent
<1>2. /\ BroughtTo(p, i, s).solvable_beg = p.solvable_beg
      /\ BroughtTo(p, i, s).exits_beg = p.exits_beg
  BY DEF BroughtTo, Consistent
<1> QED BY <1>1, <1>2

(* The types of the fields.                                                *)
LEMMA FieldTypes ==
  ASSUME NEW n \in Nat, NEW p, Consistent(p, n)
  PROVE  /\ p.order \in [1..n -> 1..n]
         /\ p.place \in [1..n -> 1..n]
         /\ p.solvable_beg \in 1..(n + 1)
         /\ p.exits_beg \in 1..(n + 1)
         /\ p.solvable_beg <= p.exits_beg
BY DEF Consistent

(* The member brought to a boundary is the only one there.                 *)
LEMMA BroughtToPlaces ==
  ASSUME NEW n \in Nat, NEW p, Consistent(p, n), NEW i \in 1..n, NEW s \in 1..n
  PROVE  LET q == BroughtTo(p, i, s)
         IN  /\ q.place \in [1..n -> 1..n]
             /\ \A t \in 1..n :
                  \/ t = s /\ q.place[t] = i
                  \/ t # s /\ p.place[t] = i /\ q.place[t] = p.place[s]
                  \/ t # s /\ p.place[t] # i /\ q.place[t] = p.place[t]
                       /\ q.place[t] # i
<1> DEFINE q == BroughtTo(p, i, s)
<1>1. \A t \in 1..n : q.place[t] = IF t = s THEN i
                                  ELSE IF t = p.order[i]
                                  THEN p.place[s] ELSE p.place[t]
  BY BroughtToArrays
<1>2. Consistent(q, n)
  BY BroughtToConsistent
<1> HIDE DEF q
<1>3. p.order[i] \in 1..n /\ p.place[p.order[i]] = i
  BY DEF Consistent
<1>4. \A t \in 1..n : p.place[t] = i <=> t = p.order[i]
  BY <1>3, PlaceInjective
<1> QED BY <1>1, <1>2, <1>4, FieldTypes DEF q

-----------------------------------------------------------------------------

(* The constructor: every member is an exit.                               *)
THEOREM NewPartitionCorrect ==
  ASSUME NEW n \in Nat
  PROVE  /\ Consistent(NewPartition(n), n)
         /\ ExitMembers(NewPartition(n), n) = 1..n
BY DEF NewPartition, Consistent, ExitMembers

(* A member without an exit that turns out to be unsolvable leaves the     *)
(* second region; no other member moves to another region.                 *)
THEOREM DemoteUnsolvableCorrect ==
  ASSUME NEW n \in Nat, NEW p, Consistent(p, n), NEW s \in InnerMembers(p, n)
  PROVE  LET q == DemoteUnsolvable(p, s)
         IN  /\ Consistent(q, n)
             /\ InnerMembers(q, n) = InnerMembers(p, n) \ {s}
             /\ ExitMembers(q, n) = ExitMembers(p, n)
<1> DEFINE b == p.solvable_beg
           e == p.exits_beg
           r == BroughtTo(p, b, s)
           q == DemoteUnsolvable(p, s)
<1>1. s \in 1..n /\ b <= p.place[s] /\ p.place[s] < e
  BY DEF InnerMembers
<1>2. b \in 1..n /\ e \in 1..(n + 1) /\ b + 1 <= e /\ b + 1 \in 1..(n + 1)
  <2>1. b \in 1..(n + 1) /\ e \in 1..(n + 1) /\ p.place[s] \in 1..n
    BY <1>1, FieldTypes
  <2> HIDE DEF b, e
  <2> QED BY <1>1, <2>1
<1>3. Consistent(r, n) /\ r.solvable_beg = b /\ r.exits_beg = e
  BY <1>1, <1>2, BroughtToKeeps
<1>4. q = [r EXCEPT !.solvable_beg = b + 1]
  BY <1>3 DEF DemoteUnsolvable
<1> HIDE DEF b, e, q
<1>5. /\ r.place \in [1..n -> 1..n]
      /\ \A t \in 1..n :
           \/ t = s /\ r.place[t] = b
           \/ t # s /\ p.place[t] = b /\ r.place[t] = p.place[s]
           \/ t # s /\ p.place[t] # b /\ r.place[t] = p.place[t]
                /\ r.place[t] # b
  <2>1. n \in Nat /\ Consistent(p, n) /\ b \in 1..n /\ s \in 1..n
    BY <1>1, <1>2
  <2> QED BY ONLY <2>1, BroughtToPlaces
<1> HIDE DEF r
<1>6. /\ Consistent(q, n)
      /\ q.solvable_beg = b + 1 /\ q.exits_beg = e /\ q.place = r.place
  BY <1>2, <1>3, <1>4, SolvableBegMoved
<1>7. \A t \in 1..n :
        /\ (b + 1 <= q.place[t] /\ q.place[t] < e) <=>
             (b <= p.place[t] /\ p.place[t] < e /\ t # s)
        /\ e <= q.place[t] <=> e <= p.place[t]
  <2> SUFFICES ASSUME NEW t \in 1..n
               PROVE  /\ (b + 1 <= r.place[t] /\ r.place[t] < e) <=>
                           (b <= p.place[t] /\ p.place[t] < e /\ t # s)
                      /\ e <= r.place[t] <=> e <= p.place[t]
    BY <1>6
  <2>1. r.place[t] \in 1..n /\ p.place[t] \in 1..n /\ p.place[s] \in 1..n
    <3>1. p.place \in [1..n -> 1..n]
      BY FieldTypes
    <3>2. r.place \in [1..n -> 1..n]
      BY <1>5
    <3> QED BY <1>1, <3>1, <3>2
  <2>2. t # s => p.place[t] # p.place[s]
    BY <1>1, PlaceInjective
  <2>3. \/ t = s /\ r.place[t] = b
        \/ t # s /\ p.place[t] = b /\ r.place[t] = p.place[s]
        \/ t # s /\ p.place[t] # b /\ r.place[t] = p.place[t]
    BY <1>5
  <2> QED BY <1>1, <1>2, <2>1, <2>2, <2>3
<1>8. InnerMembers(q, n) = InnerMembers(p, n) \ {s}
  BY <1>6, <1>7 DEF InnerMembers, b, e
<1>9. ExitMembers(q, n) = ExitMembers(p, n)
  BY <1>6, <1>7 DEF ExitMembers, e
<1> QED BY <1>6, <1>8, <1>9 DEF q

(* An exit that has lost its ways out moves to the second region.          *)
THEOREM DemoteExitSolvableCorrect ==
  ASSUME NEW n \in Nat, NEW p, Consistent(p, n), NEW s \in ExitMembers(p, n)
  PROVE  LET q == DemoteExitSolvable(p, s)
         IN  /\ Consistent(q, n)
             /\ InnerMembers(q, n) = InnerMembers(p, n) \union {s}
             /\ ExitMembers(q, n) = ExitMembers(p, n) \ {s}
<1> DEFINE b == p.solvable_beg
           e == p.exits_beg
           r == BroughtTo(p, e, s)
           q == DemoteExitSolvable(p, s)
<1>1. s \in 1..n /\ e <= p.place[s]
  BY DEF ExitMembers
<1>2. e \in 1..n /\ b \in 1..(n + 1) /\ b <= e /\ e + 1 \in 1..(n + 1)
  <2>1. b \in 1..(n + 1) /\ e \in 1..(n + 1) /\ p.place[s] \in 1..n /\ b <= e
    BY <1>1, FieldTypes
  <2> HIDE DEF b, e
  <2> QED BY <1>1, <2>1
<1>3. Consistent(r, n) /\ r.solvable_beg = b /\ r.exits_beg = e
  BY <1>1, <1>2, BroughtToKeeps
<1>4. q = [r EXCEPT !.exits_beg = e + 1]
  BY <1>3 DEF DemoteExitSolvable
<1> HIDE DEF b, e, q
<1>5. /\ r.place \in [1..n -> 1..n]
      /\ \A t \in 1..n :
           \/ t = s /\ r.place[t] = e
           \/ t # s /\ p.place[t] = e /\ r.place[t] = p.place[s]
           \/ t # s /\ p.place[t] # e /\ r.place[t] = p.place[t]
                /\ r.place[t] # e
  <2>1. n \in Nat /\ Consistent(p, n) /\ e \in 1..n /\ s \in 1..n
    BY <1>1, <1>2
  <2> QED BY ONLY <2>1, BroughtToPlaces
<1> HIDE DEF r
<1>6. /\ Consistent(q, n)
      /\ q.solvable_beg = b /\ q.exits_beg = e + 1 /\ q.place = r.place
  BY <1>2, <1>3, <1>4, ExitsBegMoved
<1>7. \A t \in 1..n :
        /\ (b <= q.place[t] /\ q.place[t] < e + 1) <=>
             ((b <= p.place[t] /\ p.place[t] < e) \/ t = s)
        /\ e + 1 <= q.place[t] <=> (e <= p.place[t] /\ t # s)
  <2> SUFFICES ASSUME NEW t \in 1..n
               PROVE  /\ (b <= r.place[t] /\ r.place[t] < e + 1) <=>
                           ((b <= p.place[t] /\ p.place[t] < e) \/ t = s)
                      /\ e + 1 <= r.place[t] <=> (e <= p.place[t] /\ t # s)
    BY <1>6
  <2>1. r.place[t] \in 1..n /\ p.place[t] \in 1..n /\ p.place[s] \in 1..n
    <3>1. p.place \in [1..n -> 1..n]
      BY FieldTypes
    <3>2. r.place \in [1..n -> 1..n]
      BY <1>5
    <3> QED BY <1>1, <3>1, <3>2
  <2>2. t # s => p.place[t] # p.place[s]
    BY <1>1, PlaceInjective
  <2>3. \/ t = s /\ r.place[t] = e
        \/ t # s /\ p.place[t] = e /\ r.place[t] = p.place[s]
        \/ t # s /\ p.place[t] # e /\ r.place[t] = p.place[t]
    BY <1>5
  <2> QED BY <1>1, <1>2, <2>1, <2>2, <2>3
<1>8. InnerMembers(q, n) = InnerMembers(p, n) \union {s}
  BY <1>1, <1>6, <1>7 DEF InnerMembers, b, e
<1>9. ExitMembers(q, n) = ExitMembers(p, n) \ {s}
  BY <1>6, <1>7 DEF ExitMembers, e
<1> QED BY <1>6, <1>8, <1>9 DEF q

(* An exit that has lost all its transitions passes both boundaries.       *)
THEOREM DemoteExitUnsolvableCorrect ==
  ASSUME NEW n \in Nat, NEW p, Consistent(p, n), NEW s \in ExitMembers(p, n)
  PROVE  LET q == DemoteExitUnsolvable(p, s)
         IN  /\ Consistent(q, n)
             /\ InnerMembers(q, n) = InnerMembers(p, n)
             /\ ExitMembers(q, n) = ExitMembers(p, n) \ {s}
<1> DEFINE r == DemoteExitSolvable(p, s)
           q == DemoteExitUnsolvable(p, s)
<1>1. /\ Consistent(r, n)
      /\ InnerMembers(r, n) = InnerMembers(p, n) \union {s}
      /\ ExitMembers(r, n) = ExitMembers(p, n) \ {s}
  BY DemoteExitSolvableCorrect
<1>2. q = DemoteUnsolvable(r, s)
  BY DEF DemoteExitUnsolvable
<1>3. s \notin InnerMembers(p, n)
  <2>1. /\ s \in 1..n /\ p.exits_beg <= p.place[s]
        /\ p.place[s] \in Int /\ p.exits_beg \in Int
    BY FieldTypes DEF ExitMembers
  <2> QED BY <2>1 DEF InnerMembers
<1> HIDE DEF r, q
<1>4. /\ Consistent(q, n)
      /\ InnerMembers(q, n) = InnerMembers(r, n) \ {s}
      /\ ExitMembers(q, n) = ExitMembers(r, n)
  BY <1>1, <1>2, DemoteUnsolvableCorrect
<1> QED BY <1>1, <1>3, <1>4 DEF q

(* A member that can reach an exit after all goes back to the second       *)
(* region; a member that is solvable already stays where it is.            *)
THEOREM PromoteSolvableCorrect ==
  ASSUME NEW n \in Nat, NEW p, Consistent(p, n), NEW s \in 1..n
  PROVE  LET q == PromoteSolvable(p, s)
         IN  /\ Consistent(q, n)
             /\ ~IsUnsolvable(q, s)
             /\ IsUnsolvable(p, s) =>
                  InnerMembers(q, n) = InnerMembers(p, n) \union {s}
             /\ ~IsUnsolvable(p, s) =>
                  InnerMembers(q, n) = InnerMembers(p, n)
             /\ ExitMembers(q, n) = ExitMembers(p, n)
<1>1. CASE ~IsUnsolvable(p, s)
  BY <1>1 DEF PromoteSolvable
<1>2. CASE IsUnsolvable(p, s)
  <2> DEFINE b == p.solvable_beg
             c == p.solvable_beg - 1
             e == p.exits_beg
             r == BroughtTo(p, c, s)
             q == PromoteSolvable(p, s)
  <2>1. p.place[s] < b
    BY <1>2 DEF IsUnsolvable
  <2>2. /\ c \in 1..n /\ c \in 1..(n + 1) /\ e \in 1..(n + 1)
        /\ b = c + 1 /\ b <= e /\ c <= e
    <3>1. b \in 1..(n + 1) /\ e \in 1..(n + 1) /\ p.place[s] \in 1..n /\ b <= e
      BY FieldTypes
    <3>2. c = b - 1
      OBVIOUS
    <3> HIDE DEF b, c, e
    <3> QED BY <2>1, <3>1, <3>2
  <2> HIDE DEF c
  <2>3. Consistent(r, n) /\ r.solvable_beg = b /\ r.exits_beg = e
    BY <2>2, BroughtToKeeps
  <2>4. q = [r EXCEPT !.solvable_beg = c]
    <3>1. q = [BroughtTo(p, b - 1, s) EXCEPT !.solvable_beg = @ - 1]
      BY <1>2 DEF PromoteSolvable
    <3>2. c = b - 1 /\ r.solvable_beg - 1 = c
      BY <2>3 DEF c
    <3> QED BY <3>1, <3>2
  <2>5. /\ r.place \in [1..n -> 1..n]
        /\ \A t \in 1..n :
             \/ t = s /\ r.place[t] = c
             \/ t # s /\ p.place[t] = c /\ r.place[t] = p.place[s]
             \/ t # s /\ p.place[t] # c /\ r.place[t] = p.place[t]
                  /\ r.place[t] # c
    <3>1. PICK k \in 1..n : k = c
      BY <2>2
    <3>2. PICK u : u = BroughtTo(p, k, s)
      OBVIOUS
    <3>3. r = u
      BY <3>1, <3>2
    <3>4. n \in Nat /\ Consistent(p, n) /\ k \in 1..n /\ s \in 1..n
      BY <3>1
    <3> HIDE DEF b, e, q, r
    <3>5. /\ u.place \in [1..n -> 1..n]
          /\ \A t \in 1..n :
               \/ t = s /\ u.place[t] = k
               \/ t # s /\ p.place[t] = k /\ u.place[t] = p.place[s]
               \/ t # s /\ p.place[t] # k /\ u.place[t] = p.place[t]
                    /\ u.place[t] # k
      BY ONLY <3>2, <3>4, BroughtToPlaces
    <3> QED BY ONLY <3>1, <3>3, <3>5
  <2> HIDE DEF b, e, q, r
  <2>6. /\ Consistent(q, n)
        /\ q.solvable_beg = c /\ q.exits_beg = e /\ q.place = r.place
    BY <2>2, <2>3, <2>4, SolvableBegMoved
  <2>7. \A t \in 1..n :
          /\ (c <= q.place[t] /\ q.place[t] < e) <=>
               ((b <= p.place[t] /\ p.place[t] < e) \/ t = s)
          /\ e <= q.place[t] <=> e <= p.place[t]
    <3> SUFFICES ASSUME NEW t \in 1..n
                 PROVE  /\ (c <= r.place[t] /\ r.place[t] < e) <=>
                             ((b <= p.place[t] /\ p.place[t] < e) \/ t = s)
                        /\ e <= r.place[t] <=> e <= p.place[t]
      BY <2>6
    <3>1. r.place[t] \in 1..n /\ p.place[t] \in 1..n /\ p.place[s] \in 1..n
      <4>1. p.place \in [1..n -> 1..n]
        BY FieldTypes
      <4>2. r.place \in [1..n -> 1..n]
        BY <2>5
      <4> QED BY <4>1, <4>2
    <3>2. t # s => p.place[t] # p.place[s]
      BY PlaceInjective
    <3> DEFINE pt == p.place[t]
               ps == p.place[s]
               rt == r.place[t]
    <3>3. \/ t = s /\ rt = c /\ pt = ps
          \/ t # s /\ pt = c /\ rt = ps
          \/ t # s /\ pt # c /\ rt = pt
      BY <2>5
    <3>4. rt \in Int /\ pt \in Int /\ ps \in Int /\ c \in Int /\ e \in Int
      BY <2>2, <3>1
    <3>5. ps < b /\ (t # s => pt # ps)
      BY <2>1, <3>2
    <3>6. b = c + 1 /\ c < e
      BY <2>2, <3>4
    <3> HIDE DEF pt, ps, rt
    <3>7. CASE t = s
      <4>1. rt = c /\ pt = ps
        BY <3>3, <3>7
      <4> QED BY <3>4, <3>5, <3>6, <3>7, <4>1 DEF rt, pt
    <3>8. CASE t # s /\ pt = c
      <4>1. rt = ps /\ ps # c
        BY <3>3, <3>5, <3>8
      <4> QED BY <3>4, <3>5, <3>6, <3>8, <4>1 DEF rt, pt
    <3>9. CASE t # s /\ pt # c
      <4>1. rt = pt
        BY <3>3, <3>9
      <4> QED BY <3>4, <3>6, <3>9, <4>1 DEF rt, pt
    <3> QED BY <3>7, <3>8, <3>9
  <2>8. InnerMembers(q, n) = InnerMembers(p, n) \union {s}
    BY <2>6, <2>7 DEF InnerMembers, b, e
  <2>9. ExitMembers(q, n) = ExitMembers(p, n)
    BY <2>6, <2>7 DEF ExitMembers, e
  <2>10. ~IsUnsolvable(q, s)
    <3>1. q.place[s] = c
      BY <2>5, <2>6
    <3> QED BY <2>2, <2>6, <3>1 DEF IsUnsolvable
  <2> QED BY <1>2, <2>6, <2>8, <2>9, <2>10 DEF q
<1> QED BY <1>1, <1>2

(* A round of the analysis begins with the exits alone.                    *)
THEOREM MarkNonExitStatesUnsolvableCorrect ==
  ASSUME NEW n \in Nat, NEW p, Consistent(p, n)
  PROVE  LET q == MarkNonExitStatesUnsolvable(p)
         IN  /\ Consistent(q, n)
             /\ InnerMembers(q, n) = {}
             /\ ExitMembers(q, n) = ExitMembers(p, n)
<1> DEFINE e == p.exits_beg
           q == MarkNonExitStatesUnsolvable(p)
<1>1. q = [p EXCEPT !.solvable_beg = e]
  BY DEF MarkNonExitStatesUnsolvable
<1>2. e \in 1..(n + 1) /\ e <= e
  BY FieldTypes
<1> HIDE DEF q
<1>3. /\ Consistent(q, n)
      /\ q.solvable_beg = e /\ q.exits_beg = e /\ q.place = p.place
  BY <1>1, <1>2, SolvableBegMoved
<1>4. \A t \in 1..n : ~(e <= q.place[t] /\ q.place[t] < e)
  <2>1. \A t \in 1..n : q.place[t] \in 1..n
    BY <1>3, FieldTypes
  <2> HIDE DEF e
  <2> QED BY <1>2, <2>1
<1>5. InnerMembers(q, n) = {}
  BY <1>3, <1>4 DEF InnerMembers
<1>6. ExitMembers(q, n) = ExitMembers(p, n)
  BY <1>3 DEF ExitMembers
<1> QED BY <1>3, <1>5, <1>6 DEF q

-----------------------------------------------------------------------------
(* Stacks.                                                                 *)

(* A stack whose top is replaced differs in its last element only.         *)
LEMMA WithTopFacts ==
  ASSUME NEW X, NEW stack \in Seq(X), stack # <<>>, NEW f \in X
  PROVE  /\ WithTop(stack, f) \in Seq(X) /\ WithTop(stack, f) # <<>>
         /\ Len(WithTop(stack, f)) = Len(stack)
         /\ Len(stack) \in Nat \ {0} /\ stack[Len(stack)] \in X
         /\ Last(stack) = stack[Len(stack)] /\ Last(WithTop(stack, f)) = f
         /\ \A i \in 1..Len(stack) :
              WithTop(stack, f)[i] = IF i = Len(stack) THEN f ELSE stack[i]
BY DEF WithTop, Last

(* A stack with one more element on top.                                   *)
LEMMA PushFacts ==
  ASSUME NEW X, NEW stack \in Seq(X), NEW f \in X
  PROVE  /\ Append(stack, f) \in Seq(X) /\ Append(stack, f) # <<>>
         /\ Len(stack) \in Nat /\ Len(Append(stack, f)) = Len(stack) + 1
         /\ Last(Append(stack, f)) = f
         /\ \A i \in 1..(Len(stack) + 1) :
              Append(stack, f)[i] = IF i = Len(stack) + 1 THEN f ELSE stack[i]
BY DEF Last

(* The lower part of a stack.                                              *)
LEMMA PrefixFacts ==
  ASSUME NEW X, NEW stack \in Seq(X), NEW n \in 0..Len(stack)
  PROVE  /\ SubSeq(stack, 1, n) \in Seq(X) /\ Len(SubSeq(stack, 1, n)) = n
         /\ \A i \in 1..n : SubSeq(stack, 1, n)[i] = stack[i]
         /\ SubSeq(stack, 1, n) = <<>> <=> n = 0
OBVIOUS

(* A stack without its top.                                                *)
LEMMA FrontFacts ==
  ASSUME NEW X, NEW stack \in Seq(X), stack # <<>>
  PROVE  /\ Front(stack) \in Seq(X) /\ Len(Front(stack)) = Len(stack) - 1
         /\ Len(stack) \in Nat \ {0}
         /\ \A i \in 1..(Len(stack) - 1) : Front(stack)[i] = stack[i]
         /\ Front(stack) = <<>> <=> Len(stack) = 1
<1>1. Len(stack) \in Nat \ {0} /\ Len(stack) - 1 \in 0..Len(stack)
  OBVIOUS
<1>2. Front(stack) = SubSeq(stack, 1, Len(stack) - 1)
  BY DEF Front
<1>3. stack # <<>> /\ (Len(stack) - 1 = 0 <=> Len(stack) = 1)
  BY <1>1
<1> DEFINE n == Len(stack) - 1
<1>4. n \in 0..Len(stack) /\ n = Len(stack) - 1
  BY <1>1
<1> HIDE DEF n
<1>5. /\ SubSeq(stack, 1, n) \in Seq(X) /\ Len(SubSeq(stack, 1, n)) = n
      /\ \A i \in 1..n : SubSeq(stack, 1, n)[i] = stack[i]
      /\ SubSeq(stack, 1, n) = <<>> <=> n = 0
  BY <1>4, PrefixFacts
<1> QED BY <1>1, <1>2, <1>3, <1>4, <1>5

(* A sequence with one element replaced.                                   *)
LEMMA ReplacedFacts ==
  ASSUME NEW X, NEW stack \in Seq(X), NEW k \in DOMAIN stack, NEW e \in X
  PROVE  /\ [stack EXCEPT ![k] = e] \in Seq(X)
         /\ Len([stack EXCEPT ![k] = e]) = Len(stack)
         /\ \A i \in 1..Len(stack) :
              [stack EXCEPT ![k] = e][i] = IF i = k THEN e ELSE stack[i]
OBVIOUS

(* The elements of a sequence.                                             *)
LEMMA RangeFacts ==
  ASSUME NEW X, NEW seq \in Seq(X)
  PROVE  /\ ToSet(seq) \subseteq X
         /\ \A x : x \in ToSet(seq) <=> \E i \in 1..Len(seq) : x = seq[i]
BY DEF ToSet

-----------------------------------------------------------------------------
(* Folds.  The result after i elements is in X[i] if it is so at first and *)
(* each element leads from one of these sets to the next.                  *)

(* Induction up to n, for a property given as a function.                  *)
LEMMA NatInduction0 ==
  ASSUME NEW n \in Nat, NEW good \in [0..n -> BOOLEAN], good[0],
         \A i \in 1..n : good[i - 1] => good[i]
  PROVE  \A i \in 0..n : good[i]
<1> SUFFICES ASSUME NEW i \in 0..n, ~good[i] PROVE FALSE
  OBVIOUS
<1> DEFINE bad == {k \in 0..n : ~good[k]}
<1>0. bad \subseteq 0..n /\ bad # {} /\ \A x \in bad : x \in Int
  OBVIOUS
<1>1. IsFiniteSet(bad)
  <2> HIDE DEF bad
  <2>1. IsFiniteSet(0..n)
    BY FS_Interval
  <2> QED BY <1>0, <2>1, FS_Subset
<1>2. Min(bad) \in bad /\ \A y \in bad : Min(bad) <= y
  <2> HIDE DEF bad
  <2> QED BY <1>0, <1>1, MinInSet
<1>3. PICK k \in bad : \A y \in bad : k <= y
  BY <1>2
<1>4. k # 0 /\ k \in 1..n /\ k - 1 \in 0..n
  BY <1>3
<1>5. k - 1 \notin bad
  BY <1>3, <1>4
<1> QED BY <1>3, <1>4, <1>5

(* A run stays in sets that are each kept by the step to the next.         *)
LEMMA RunIn ==
  ASSUME NEW n \in Nat, NEW X, NEW f, f[0] \in X[0],
         \A i \in 1..n : f[i - 1] \in X[i - 1] => f[i] \in X[i]
  PROVE  \A i \in 0..n : f[i] \in X[i]
<1> DEFINE good == [i \in 0..n |-> f[i] \in X[i]]
<1>0. \A i \in 0..n : (f[i] \in X[i]) \in BOOLEAN
  OBVIOUS
<1>1. good \in [0..n -> BOOLEAN] /\ good[0]
  <2>1. 0 \in 0..n
    OBVIOUS
  <2> QED BY <1>0, <2>1
<1>2. \A i \in 1..n : i \in 0..n /\ i - 1 \in 0..n
  OBVIOUS
<1>3. \A i \in 0..n : good[i] <=> f[i] \in X[i]
  OBVIOUS
<1>4. \A i \in 1..n : good[i - 1] => good[i]
  BY <1>2, <1>3
<1> HIDE DEF good
<1>5. \A i \in 0..n : good[i]
  BY <1>1, <1>4, NatInduction0
<1> QED BY <1>3, <1>5

(* f is a run of n steps that begins with base and goes on with g.         *)
IsRun(f, n, X, base, g) ==
  /\ f = [i \in 0..n |-> f[i]] /\ f[0] = base
  /\ \A i \in 1..n : f[i] = g[<<f[i - 1], i>>]
  /\ \A i \in 0..n : f[i] \in X[i]

(* Steps given as a function have a run from every start.                  *)
LEMMA RunExists ==
  ASSUME NEW n \in Nat, NEW X, NEW base, base \in X[0], NEW g,
         \A i \in 1..n : \A x \in X[i - 1] : g[<<x, i>>] \in X[i]
  PROVE  \E f : IsRun(f, n, X, base, g)
<1> DEFINE Run(f, k) == IsRun(f, k, X, base, g)
           good == [k \in 0..n |-> \E f : Run(f, k)]
<1>1. good[0]
  <2> DEFINE h == [i \in 0..0 |-> base]
  <2>1. h = [i \in 0..0 |-> h[i]] /\ \A i \in 0..0 : h[i] = base /\ i = 0
    OBVIOUS
  <2> HIDE DEF h
  <2>2. Run(h, 0)
    BY <2>1 DEF IsRun
  <2>3. 0 \in 0..n /\ \E f : Run(f, 0)
    BY <2>2
  <2> HIDE DEF Run
  <2> QED BY <2>3
<1>2. ASSUME NEW k \in 1..n, good[k - 1] PROVE good[k]
  <2>1. PICK f : Run(f, k - 1)
    BY <1>2
  <2> DEFINE h == [i \in 0..k |-> IF i = k THEN g[<<f[k - 1], k>>] ELSE f[i]]
  <2>2. k - 1 \in 0..(k - 1) /\ 0 \in 0..(k - 1) /\ k \in Nat /\ k # 0
    OBVIOUS
  <2>3. f[k - 1] \in X[k - 1] /\ g[<<f[k - 1], k>>] \in X[k]
    BY <2>1, <2>2 DEF IsRun
  <2>4. \A i \in 0..k : i # k => i \in 0..(k - 1) /\ h[i] = f[i]
    OBVIOUS
  <2>5. h = [i \in 0..k |-> h[i]] /\ h[0] = base /\ h[k] = g[<<f[k - 1], k>>]
    BY <2>1, <2>2 DEF IsRun
  <2> HIDE DEF h
  <2>6. \A i \in 0..k : h[i] \in X[i]
    BY <2>1, <2>3, <2>4, <2>5 DEF IsRun
  <2>7. ASSUME NEW i \in 1..k PROVE h[i] = g[<<h[i - 1], i>>]
    <3>1. i \in 0..k /\ i - 1 \in 0..k /\ i - 1 # k
      OBVIOUS
    <3>2. h[i - 1] = f[i - 1]
      BY <3>1, <2>4
    <3>3. CASE i = k
      BY <3>2, <3>3, <2>5
    <3>4. CASE i # k
      <4>1. i \in 1..(k - 1)
        BY <3>4
      <4> QED BY <4>1, <3>1, <3>2, <3>4, <2>1, <2>4 DEF IsRun
    <3> QED BY <3>3, <3>4
  <2>8. Run(h, k)
    BY <2>5, <2>6, <2>7 DEF IsRun
  <2>9. \E e : Run(e, k)
    <3> HIDE DEF Run
    <3> QED BY <2>8
  <2>10. k \in 0..n
    OBVIOUS
  <2> HIDE DEF Run
  <2> QED BY <2>9, <2>10
<1>3. good \in [0..n -> BOOLEAN]
  OBVIOUS
<1>4. good[n]
  <2> HIDE DEF good
  <2> QED BY <1>1, <1>2, <1>3, NatInduction0
<1> QED BY <1>4
-----------------------------------------------------------------------------
(* The stacks and what is on them.                                         *)

(* Weights of the successors that are open.                                *)
WeightMaps == UNION {[T -> Nat] : T \in SUBSET State}
QValueInfos == [conv_part : Int, norm : Nat \ {0}, scc_successors : WeightMaps]
TransitionSets == {S \in SUBSET QValueInfos : IsFiniteSet(S)}

Flags == [is_active_exiting : BOOLEAN, is_active : BOOLEAN]
ParentInfos == [parent_idx : Nat \ {0}, parent_transition_idx : Nat \ {0}]

StackInfos ==
  [state : State, conv_part : Int,
   non_ec_transitions : TransitionSets, ec_transitions : TransitionSets,
   active_exit_transitions : Int, active_transitions : Int,
   transition_flags : Seq(Flags), parents : Seq(ParentInfos)]

ExplorationInfos ==
  [state : State, aops : SUBSET Action, action : Action \union {NoAction},
   q_value : QValueInfos, successors : SUBSET State, successor : State,
   stackidx : Nat \ {0}, lowlink : Nat \ {0}, exit_interval : Bounds,
   has_all_zero : BOOLEAN]

ECDExplorationInfos ==
  [place : Nat \ {0}, stackidx : Nat \ {0}, lowlink : Nat \ {0},
   todo : TransitionSets, action : QValueInfos, successors : SUBSET State,
   recurse : BOOLEAN, leaves_scc : BOOLEAN, remains_scc : BOOLEAN]

StacksOK ==
  /\ dfs_stack \in Seq(ExplorationInfos)
  /\ tarjan_stack \in Seq(StackInfos)
  /\ ecd_frames \in Seq(ECDExplorationInfos)
  /\ ecd_stack \in Seq(State)
  /\ scc \in Seq(State)
  /\ scc_queue \in Seq(Seq(State))

Stopped == pc \in {"done", "timeout"}

ECDPCs == {"ecd_root", "ecd_transition", "ecd_successor"}
AnalysisPCs == {"solvability", "collect", "demote", "sweep"}
SweepPCs == {"collect", "demote", "sweep"}

(* Frames are ordered as their entries, and these are on Tarjan's stack.   *)
FramesOK ==
  /\ \A j \in DOMAIN dfs_stack :
       LET f == dfs_stack[j]
       IN  /\ f.stackidx \in DOMAIN tarjan_stack
           /\ f.lowlink \in 1..f.stackidx
           /\ f.state = tarjan_stack[f.stackidx].state
           /\ f.aops \subseteq TransitionTails(f.state)
  /\ \A j, k \in DOMAIN dfs_stack :
       j < k => dfs_stack[j].stackidx < dfs_stack[k].stackidx

(* Frame f is in the middle of a transition.                               *)
Exploring(f) ==
  /\ f.action \in TransitionTails(f.state)
  /\ f.successors \subseteq NonSource(f.state, f.action)

(* Each frame waits for the one above it.                                  *)
Chained ==
  /\ dfs_stack # <<>> => dfs_stack[1].stackidx = 1
  /\ \A j \in DOMAIN dfs_stack : j < Len(dfs_stack) =>
       /\ Exploring(dfs_stack[j])
       /\ dfs_stack[j].successor = dfs_stack[j + 1].state
       /\ dfs_stack[j].successor \in
            NonSource(dfs_stack[j].state, dfs_stack[j].action)

ControlOK ==
  /\ pc = "solve" => /\ dfs_stack = <<>> /\ tarjan_stack = <<>>
                     /\ explored = {}
  /\ ~Stopped /\ pc # "solve" => dfs_stack # <<>>
  /\ Chained
  /\ pc = "successor" => Exploring(Top)
  /\ pc \in {"transition"} \union ECDPCs \union AnalysisPCs =>
       SccSuccessors(Top.q_value) = {}
  /\ pc \in ECDPCs \union AnalysisPCs => Top.aops = {} /\ IsRoot(Top)
  /\ pc \in SweepPCs => sweep.next \in Top.stackidx..(Len(tarjan_stack) + 1)

(* A state is on the stack once; the second search forgets for a while     *)
(* that it was explored.                                                   *)
Indexed ==
  /\ \A i, k \in DOMAIN tarjan_stack :
       tarjan_stack[i].state = tarjan_stack[k].state => i = k
  /\ ~Stopped =>
       \A i \in DOMAIN tarjan_stack :
         tarjan_stack[i].state \in explored \union ToSet(scc)
  /\ pc \notin ECDPCs \union {"timeout"} => scc = <<>>

(* The entry at place i knows the one at place k as a successor: it is not *)
(* further up than the frames on whose behalf it was found, and the frame  *)
(* of i knows how far down it is.                                          *)
Near(i, k) ==
  /\ \A j \in DOMAIN dfs_stack :
       i < dfs_stack[j].stackidx => k < dfs_stack[j].stackidx
  /\ \A j \in DOMAIN dfs_stack :
       /\ dfs_stack[j].stackidx <= i
       /\ \A m \in DOMAIN dfs_stack : m > j => i < dfs_stack[m].stackidx
       => dfs_stack[j].lowlink <= k

IsNear(i, t) ==
  \E k \in DOMAIN tarjan_stack : tarjan_stack[k].state = t /\ Near(i, k)

Transitions(entry) == entry.non_ec_transitions \union entry.ec_transitions

(* The successors in the transitions of an entry are open and near.        *)
SuccessorsOK ==
  /\ \A i \in DOMAIN tarjan_stack : \A q \in Transitions(tarjan_stack[i]) :
       /\ SccSuccessors(q) # {}
       /\ ~Stopped => \A t \in SccSuccessors(q) : IsNear(i, t)
  /\ ~Stopped => \A j \in DOMAIN dfs_stack :
       \A t \in SccSuccessors(dfs_stack[j].q_value) :
         IsNear(dfs_stack[j].stackidx, t)

FlagCount(i) == Len(tarjan_stack[i].transition_flags)

(* A parent link belongs to a transition that was recorded, or to the one  *)
(* that its frame is in the middle of and that will be.                    *)
IsRecorded(x) == x.parent_transition_idx <= FlagCount(x.parent_idx)
IsUnderWay(x) ==
  /\ x.parent_transition_idx = FlagCount(x.parent_idx) + 1
  /\ \E j \in DOMAIN dfs_stack :
       /\ dfs_stack[j].stackidx = x.parent_idx
       /\ SccSuccessors(dfs_stack[j].q_value) # {}

LinksOK ==
  \A k \in DOMAIN tarjan_stack : \A n \in DOMAIN tarjan_stack[k].parents :
    LET x == tarjan_stack[k].parents[n]
    IN  /\ x.parent_idx \in DOMAIN tarjan_stack
        /\ ~Stopped => /\ Near(x.parent_idx, k)
                       /\ IsRecorded(x) \/ IsUnderWay(x)

(* The counters count the flags, and the same number of ways to go on that *)
(* have none.                                                              *)
ActiveFlags(entry) ==
  {n \in DOMAIN entry.transition_flags : entry.transition_flags[n].is_active}
ExitFlags(entry) ==
  {n \in DOMAIN entry.transition_flags :
     entry.transition_flags[n].is_active_exiting}

CountersOK ==
  \A i \in DOMAIN tarjan_stack :
    LET e == tarjan_stack[i]
        base == e.active_transitions - Cardinality(ActiveFlags(e))
    IN  /\ ExitFlags(e) \subseteq ActiveFlags(e)
        /\ base >= 0
        /\ e.active_exit_transitions = base + Cardinality(ExitFlags(e))

(* The second search stays among the members of the component.             *)
IsAmong(q) == SccSuccessors(q) # {} /\ SccSuccessors(q) \subseteq Members

SecondSearchOK ==
  /\ \A i \in DOMAIN ecd_frames :
       /\ ecd_frames[i].lowlink \in 1..ecd_frames[i].stackidx
       /\ ecd_frames[i].stackidx \in 1..Len(ecd_stack)
  /\ \A i, k \in DOMAIN ecd_frames :
       i < k => ecd_frames[i].stackidx < ecd_frames[k].stackidx
  /\ pc \in ECDPCs =>
       /\ ToSet(scc) \subseteq Members
       /\ ToSet(ecd_stack) \subseteq Members
       /\ \A k \in DOMAIN scc_queue : ToSet(scc_queue[k]) \subseteq Members
       /\ \A i \in DOMAIN ecd_frames :
            LET f == ecd_frames[i]
            IN  /\ f.place \in Places
                /\ f.successors \subseteq Members
                /\ \A q \in f.todo : IsAmong(q)
                /\ pc = "ecd_successor" \/ i < Len(ecd_frames) =>
                     IsAmong(f.action)
  /\ pc \in {"ecd_transition", "ecd_successor"} => ecd_frames # <<>>
  /\ pc \notin {"ecd_transition", "ecd_successor", "timeout"} =>
       ecd_frames = <<>> /\ ecd_stack = <<>>
  /\ pc \notin ECDPCs \union {"timeout"} => scc_queue = <<>>
  /\ ecd_frames # <<>> => ecd_frames[1].stackidx = 1

(* While solvability is analysed: a solvable member is not reached from an *)
(* unsolvable one by an active transition.                                 *)
IsSolvable(i) == i \in 1..Size /\ ~IsUnsolvable(partition, i)

Separated ==
  \A i \in 1..Size : IsSolvable(i) =>
    \A n \in DOMAIN Entry(tarjan_stack, i).parents :
      LET x == Entry(tarjan_stack, i).parents[n]
      IN  FlagsOf(tarjan_stack, x).is_active => IsSolvable(Local(x.parent_idx))

AnalysisOK ==
  /\ PartitionAgrees
  /\ pc \in {"collect", "demote"} => Separated
  /\ pc = "demote" => unsolv_it \in 1..(partition.solvable_beg - 1)

ValuesOK ==
  /\ initial_state \in InitialStates
  /\ pc \in PCs
  /\ explored \subseteq State
  /\ value \in [State -> Int]
  /\ sweep \in [next : Nat, converged : BOOLEAN]

IInv ==
  /\ ValuesOK
  /\ StacksOK
  /\ FramesOK
  /\ ControlOK
  /\ Indexed
  /\ SuccessorsOK
  /\ LinksOK
  /\ CountersOK
  /\ SecondSearchOK
  /\ AnalysisOK
-----------------------------------------------------------------------------
(* Values and transitions.                                                 *)

(* The least and the greatest of two integers.                             *)
LEMMA OneOfTwo ==
  ASSUME NEW x \in Int, NEW y \in Int
  PROVE  /\ Min({x, y}) \in {x, y} /\ Min({x, y}) <= x /\ Min({x, y}) <= y
         /\ Max({x, y}) \in {x, y}
<1>1. IsFiniteSet({x, y}) /\ {x, y} # {} /\ \A z \in {x, y} : z \in Int
  <2>1. IsFiniteSet({x} \union {y}) /\ {x} \union {y} = {x, y}
    BY FS_Singleton, FS_AddElement
  <2> QED BY <2>1
<1>2. Min({x, y}) \in {x, y} /\ \A z \in {x, y} : Min({x, y}) <= z
  BY <1>1, MinInSet
<1>3. \E m \in {x, y} : \A z \in {x, y} : z <= m
  <2>1. x <= y \/ y <= x
    OBVIOUS
  <2> QED BY <2>1
<1>4. Max({x, y}) \in {x, y}
  BY <1>3 DEF Max
<1> QED BY <1>2, <1>4

(* The image of a finite set is finite.                                    *)
LEMMA FiniteImage ==
  ASSUME NEW S, IsFiniteSet(S), NEW f
  PROVE  IsFiniteSet({f[x] : x \in S})
<1> DEFINE T == {f[x] : x \in S}
           h == [x \in S |-> f[x]]
<1>1. h \in Surjection(S, T)
  BY DEF Surjection
<1> HIDE DEF h, T
<1>2. IsFiniteSet(T)
  BY <1>1, FS_Surjection
<1> QED BY <1>2 DEF T

(* The smallest interval around two is one.                                *)
LEMMA HullType ==
  ASSUME NEW x \in Bounds, NEW y \in Bounds PROVE Hull(x, y) \in Bounds
<1>1. /\ x.lower \in Int /\ y.lower \in Int
      /\ x.upper \in Int /\ y.upper \in Int
  BY DEF Bounds
<1>2. /\ Min({x.lower, y.lower}) \in Int
      /\ Max({x.upper, y.upper}) \in Int
  BY <1>1, OneOfTwo
<1> QED BY <1>2 DEF Hull, Bounds

(* A value is an interval.                                                 *)
LEMMA PointType == ASSUME NEW x \in Int PROVE Point(x) \in Bounds
BY DEF Point, Bounds

(* The types of the constants that the assumptions give.                   *)
LEMMA ConstantTypes ==
  /\ IsFiniteSet(State) /\ Infinite \in Nat /\ Denominator \in Nat \ {0}
  /\ ActionCost \in [Action -> Int] /\ TerminationCost \in [State -> Int]
  /\ Estimate \in [State -> Int] /\ InitialStates \subseteq State
  /\ NoAction \notin Action
BY MDPAssumption, HeuristicAssumption, TATVIAssumption

(* The parts of a transition.                                              *)
LEMMA QValueInfoParts ==
  ASSUME NEW q \in QValueInfos
  PROVE  /\ q.conv_part \in Int /\ q.norm \in Nat \ {0}
         /\ SccSuccessors(q) \subseteq State /\ IsFiniteSet(SccSuccessors(q))
         /\ q.scc_successors \in [SccSuccessors(q) -> Nat]
<1>1. PICK T \in SUBSET State : q.scc_successors \in [T -> Nat]
  BY DEF QValueInfos, WeightMaps
<1>2. SccSuccessors(q) = T
  BY <1>1 DEF SccSuccessors
<1>3. q.conv_part \in Int /\ q.norm \in Nat \ {0}
  BY DEF QValueInfos
<1> QED BY <1>1, <1>2, <1>3, ConstantTypes, FS_Subset

(* A record of the three parts is a Q-value, and its open successors are   *)
(* the domain of the third.                                                *)
LEMMA QValueInfoBuilt ==
  ASSUME NEW c \in Int, NEW n \in Nat \ {0}, NEW T \in SUBSET State,
         NEW f \in [T -> Nat],
         NEW q, q = [conv_part |-> c, norm |-> n, scc_successors |-> f]
  PROVE  q \in QValueInfos /\ SccSuccessors(q) = T
<1>1. f \in WeightMaps
  BY DEF WeightMaps
<1> QED BY <1>1 DEF QValueInfos, SccSuccessors

(* A Q-value begins without open successors.                               *)
LEMMA NewQValueInfo ==
  ASSUME NEW c \in Int, NEW n \in Nat \ {0}
  PROVE  /\ QValueInfo(c, n) \in QValueInfos
         /\ SccSuccessors(QValueInfo(c, n)) = {}
         /\ QValueInfo(c, n).conv_part = c
<1> DEFINE none == [t \in {} |-> 0]
           q == QValueInfo(c, n)
<1>1. none \in [{} -> Nat] /\ {} \in SUBSET State
  OBVIOUS
<1>2. q = [conv_part |-> c, norm |-> n, scc_successors |-> none]
  BY DEF QValueInfo
<1>5. DOMAIN none = {}
  OBVIOUS
<1> HIDE DEF none, q
<1>6. none \in WeightMaps
  BY <1>1 DEF WeightMaps
<1>3. q \in QValueInfos /\ SccSuccessors(q) = {}
  BY <1>2, <1>5, <1>6 DEF QValueInfos, SccSuccessors
<1>4. q.conv_part = c
  BY <1>2
<1> QED BY <1>3, <1>4 DEF q

(* Values are integers: sums,                                              *)
LEMMA PlusType ==
  ASSUME NEW x \in Int, NEW w \in Int, NEW v \in Int PROVE Plus(x, w, v) \in Int
BY ConstantTypes DEF Plus

(* quotients,                                                              *)
LEMMA DividedUpType ==
  ASSUME NEW x \in Int, NEW n \in Nat \ {0} PROVE DividedUp(x, n) \in Int
<1>1. (-x) \div n \in Int
  BY DivType
<1> QED BY <1>1, ConstantTypes DEF DividedUp, Saturated

(* Q-values,                                                               *)
LEMMA ComputeQValueType ==
  ASSUME value \in [State -> Int], NEW q \in QValueInfos
  PROVE  ComputeQValue(q) \in Int
<1> DEFINE open == SccSuccessors(q)
           term == [t \in open |-> q.scc_successors[t] * value[t]]
<1>1. \A t \in open : q.scc_successors[t] \in Int /\ value[t] \in Int
  BY QValueInfoParts
<1>2. \A t \in open : term[t] \in Int
  BY <1>1
<1>3. SumFunction(term) = SumFunctionOnSet(term, open)
  BY DEF SumFunction
<1>4. SumFunction(term) \in Int
  <2> HIDE DEF term
  <2> QED BY <1>2, <1>3, QValueInfoParts, SumIsInt
<1>5. q.conv_part + SumFunction(term) \in Int
  <2> HIDE DEF term
  <2> QED BY <1>4, QValueInfoParts
<1>6. DividedUp(q.conv_part + SumFunction(term), q.norm) \in Int
  <2> HIDE DEF term
  <2> QED BY <1>5, QValueInfoParts, DividedUpType
<1> QED BY <1>6, ConstantTypes DEF ComputeQValue

(* The least element of a finite set of integers, one of them given.       *)
LEMMA MinWith ==
  ASSUME NEW x \in Int, NEW S, IsFiniteSet(S), \A y \in S : y \in Int
  PROVE  Min({x} \union S) \in {x} \union S /\ Min({x} \union S) \in Int
<1>1. IsFiniteSet({x} \union S) /\ {x} \union S # {}
      /\ \A y \in {x} \union S : y \in Int
  BY FS_Singleton, FS_Union
<1> QED BY <1>1, MinInSet

(* and updates.                                                            *)
LEMMA UpdatedType ==
  ASSUME value \in [State -> Int], NEW e \in StackInfos
  PROVE  Updated(e) \in Int
<1> DEFINE S == {ComputeQValue(q) : q \in e.non_ec_transitions}
<1>1. /\ e.conv_part \in Int /\ e.non_ec_transitions \subseteq QValueInfos
      /\ IsFiniteSet(e.non_ec_transitions)
  BY DEF StackInfos, TransitionSets
<1>2. \A y \in S : y \in Int
  BY <1>1, ComputeQValueType
<1>3. IsFiniteSet(S)
  <2> DEFINE f == [q \in e.non_ec_transitions |-> ComputeQValue(q)]
  <2>1. S = {f[q] : q \in e.non_ec_transitions}
    OBVIOUS
  <2> HIDE DEF f, S
  <2> QED BY <1>1, <2>1, FiniteImage
<1> HIDE DEF S
<1>4. Min({e.conv_part} \union S) \in Int
  BY <1>1, <1>2, <1>3, MinWith
<1> QED BY <1>4 DEF Updated, S

(* Every transition of a union has the successors of one that was there.   *)
LEMMA MergedFacts ==
  ASSUME NEW ts \in TransitionSets, NEW us \in TransitionSets
  PROVE  /\ MergedTransitions(ts, us) \in TransitionSets
         /\ \A q \in MergedTransitions(ts, us) : \E u \in ts \union us :
              SccSuccessors(q) = SccSuccessors(u)
<1> DEFINE same(t, set) == {u \in set : u.scc_successors = t.scc_successors}
           low(t) == Min({t.conv_part} \union {u.conv_part : u \in same(t, us)})
           with(t) == [t EXCEPT !.conv_part = low(t)]
           A == {with(t) : t \in ts}
           B == {u \in us : same(u, ts) = {}}
<1>1. MergedTransitions(ts, us) = A \union B
  BY DEF MergedTransitions
<1>2. /\ ts \subseteq QValueInfos /\ us \subseteq QValueInfos
      /\ IsFiniteSet(ts) /\ IsFiniteSet(us)
  BY DEF TransitionSets
<1>3. ASSUME NEW t \in ts
      PROVE  with(t) \in QValueInfos /\ SccSuccessors(with(t)) = SccSuccessors(t)
  <2> DEFINE S == {u.conv_part : u \in same(t, us)}
  <2>1. t \in QValueInfos /\ t.conv_part \in Int
    BY <1>2, QValueInfoParts
  <2>2. IsFiniteSet(same(t, us)) /\ same(t, us) \subseteq us
    BY <1>2, FS_Subset
  <2>3. IsFiniteSet(S)
    <3> DEFINE f == [u \in same(t, us) |-> u.conv_part]
    <3>1. S = {f[u] : u \in same(t, us)}
      OBVIOUS
    <3> HIDE DEF f, S, same
    <3> QED BY <2>2, <3>1, FiniteImage
  <2>4. \A y \in S : y \in Int
    BY <1>2, QValueInfoParts
  <2> HIDE DEF S
  <2>5. low(t) \in Int
    BY <2>1, <2>3, <2>4, MinWith DEF S
  <2> HIDE DEF low
  <2>6. with(t) \in QValueInfos
    BY <2>1, <2>5 DEF QValueInfos
  <2>7. with(t).scc_successors = t.scc_successors
    BY <2>1 DEF QValueInfos
  <2> QED BY <2>6, <2>7 DEF SccSuccessors
<1>4. IsFiniteSet(A) /\ IsFiniteSet(B)
  <2> DEFINE f == [t \in ts |-> with(t)]
  <2>1. A = {f[t] : t \in ts} /\ B \subseteq us
    OBVIOUS
  <2> HIDE DEF f, A, B
  <2> QED BY <1>2, <2>1, FiniteImage, FS_Subset
<1>5. A \subseteq QValueInfos /\ B \subseteq QValueInfos
  <2> HIDE DEF with, same
  <2> QED BY <1>2, <1>3
<1>6. IsFiniteSet(A \union B)
  <2> HIDE DEF A, B
  <2> QED BY <1>4, FS_Union
<1>7. \A q \in A \union B : \E u \in ts \union us :
        SccSuccessors(q) = SccSuccessors(u)
  <2> HIDE DEF with, same
  <2> QED BY <1>3
<1> HIDE DEF A, B
<1> QED BY <1>1, <1>5, <1>6, <1>7 DEF TransitionSets
-----------------------------------------------------------------------------
(* Steps that leave the stacks alone, or most of them.                     *)

StackPart == FramesOK /\ SuccessorsOK /\ LinksOK /\ CountersOK

(* The part of the invariant about the stacks is kept when they are.       *)
LEMMA SameStacks ==
  ASSUME StackPart, ~Stopped, UNCHANGED <<dfs_stack, tarjan_stack>>
  PROVE  StackPart'
<1>1. FramesOK' /\ CountersOK'
  BY DEF StackPart, FramesOK, CountersOK, ActiveFlags, ExitFlags
<1>2. \A i, k : Near(i, k)' <=> Near(i, k)
  BY DEF Near
<1>3. \A i, t : IsNear(i, t)' <=> IsNear(i, t)
  BY <1>2 DEF IsNear
<1>4. SuccessorsOK'
  BY <1>3 DEF StackPart, SuccessorsOK, Transitions
<1>5. \A x : (IsRecorded(x)' <=> IsRecorded(x)) /\ (IsUnderWay(x)' <=> IsUnderWay(x))
  BY DEF IsRecorded, IsUnderWay, FlagCount
<1>6. LinksOK'
  BY <1>2, <1>5 DEF StackPart, LinksOK
<1> QED BY <1>1, <1>4, <1>6 DEF StackPart

(* What the entries know of each other.                                    *)
SameLinks(stack, stack1) ==
  /\ Len(stack1) = Len(stack)
  /\ \A i \in 1..Len(stack) :
       /\ stack1[i].state = stack[i].state
       /\ stack1[i].parents = stack[i].parents
       /\ Len(stack1[i].transition_flags) = Len(stack[i].transition_flags)

(* A step in the entries that leaves these and the frames.                 *)
LEMMA EntriesChanged ==
  ASSUME StacksOK, tarjan_stack' \in Seq(StackInfos), FramesOK, LinksOK,
         SuccessorsOK, ~Stopped,
         UNCHANGED dfs_stack, SameLinks(tarjan_stack, tarjan_stack'),
         \A i \in DOMAIN tarjan_stack : \A q \in Transitions(tarjan_stack'[i]) :
           /\ SccSuccessors(q) # {}
           /\ \A t \in SccSuccessors(q) : IsNear(i, t)
  PROVE  FramesOK' /\ SuccessorsOK' /\ LinksOK'
<1>1. /\ DOMAIN tarjan_stack' = DOMAIN tarjan_stack
      /\ DOMAIN tarjan_stack = 1..Len(tarjan_stack)
  BY DEF SameLinks, StacksOK
<1>2. FramesOK'
  BY <1>1 DEF FramesOK, SameLinks
<1>3. \A i, k : Near(i, k)' <=> Near(i, k)
  BY DEF Near
<1>4. \A i, t : IsNear(i, t)' <=> IsNear(i, t)
  BY <1>1, <1>3 DEF IsNear, SameLinks
<1>5. SuccessorsOK'
  <2>1. ASSUME NEW i \in DOMAIN tarjan_stack', NEW q \in Transitions(tarjan_stack[i])'
        PROVE  SccSuccessors(q) # {} /\ \A t \in SccSuccessors(q) : IsNear(i, t)'
    BY <1>1, <1>4, <2>1 DEF Transitions
  <2>2. \A j \in DOMAIN dfs_stack' :
          \A t \in SccSuccessors(dfs_stack[j].q_value)' :
             IsNear(dfs_stack[j].stackidx, t)'
    BY <1>4 DEF SuccessorsOK, SccSuccessors
  <2> QED BY <2>1, <2>2 DEF SuccessorsOK, SccSuccessors
<1>6. \A i \in 1..Len(tarjan_stack) : FlagCount(i)' = FlagCount(i)
  BY DEF FlagCount, SameLinks
<1>7. LinksOK'
  <2>1. ASSUME NEW x, x.parent_idx \in DOMAIN tarjan_stack
        PROVE  /\ IsRecorded(x) <=> IsRecorded(x)'
               /\ IsUnderWay(x) <=> IsUnderWay(x)'
    <3>1. FlagCount(x.parent_idx)' = FlagCount(x.parent_idx)
      BY <1>1, <1>6, <2>1
    <3> QED BY <3>1 DEF IsRecorded, IsUnderWay, SccSuccessors
  <2>2. ASSUME NEW k \in DOMAIN tarjan_stack,
               NEW n \in DOMAIN tarjan_stack[k].parents,
               NEW x, x = tarjan_stack[k].parents[n]
        PROVE  /\ x.parent_idx \in DOMAIN tarjan_stack
               /\ Near(x.parent_idx, k)'
               /\ IsRecorded(x)' \/ IsUnderWay(x)'
    BY <1>3, <2>1, <2>2 DEF LinksOK
  <2>3. \A k \in DOMAIN tarjan_stack' :
          tarjan_stack'[k].parents = tarjan_stack[k].parents
    BY <1>1 DEF SameLinks
  <2> QED BY <1>1, <2>2, <2>3 DEF LinksOK
<1> QED BY <1>2, <1>5, <1>7

(* The exploration does not touch the other phases.                        *)
LEMMA OtherPhases ==
  ASSUME SecondSearchOK, UNCHANGED ecd_vars,
         pc \notin ECDPCs \union {"timeout"}, pc' \notin ECDPCs,
         pc' \notin {"collect", "demote"}
  PROVE  SecondSearchOK' /\ AnalysisOK'
BY DEF SecondSearchOK, AnalysisOK, PartitionAgrees, ecd_vars, ECDPCs

-----------------------------------------------------------------------------
(* Frames.                                                                 *)

(* A frame that knows what f knows of the stacks.                          *)
SameFrame(f, g) ==
  /\ g.state = f.state /\ g.stackidx = f.stackidx /\ g.lowlink = f.lowlink

(* The fields of a frame.                                                  *)
LEMMA FrameParts ==
  ASSUME NEW f \in ExplorationInfos
  PROVE  /\ f.state \in State /\ f.aops \subseteq Action
         /\ f.action \in Action \union {NoAction}
         /\ f.q_value \in QValueInfos /\ f.successors \subseteq State
         /\ f.successor \in State /\ f.stackidx \in Nat \ {0}
         /\ f.lowlink \in Nat \ {0} /\ f.exit_interval \in Bounds
         /\ f.has_all_zero \in BOOLEAN
BY DEF ExplorationInfos

(* The fields of an entry.                                                 *)
LEMMA EntryParts ==
  ASSUME NEW e \in StackInfos
  PROVE  /\ e.state \in State /\ e.conv_part \in Int
         /\ e.non_ec_transitions \in TransitionSets
         /\ e.ec_transitions \in TransitionSets
         /\ e.active_exit_transitions \in Int /\ e.active_transitions \in Int
         /\ e.transition_flags \in Seq(Flags) /\ e.parents \in Seq(ParentInfos)
BY DEF StackInfos

(* The frame on top, and its entry.                                        *)
LEMMA TopFacts ==
  ASSUME StacksOK, FramesOK, dfs_stack # <<>>
  PROVE  /\ Top = dfs_stack[Len(dfs_stack)] /\ Top \in ExplorationInfos
         /\ Len(dfs_stack) \in Nat \ {0} /\ Len(dfs_stack) \in DOMAIN dfs_stack
         /\ DOMAIN dfs_stack = 1..Len(dfs_stack)
         /\ DOMAIN tarjan_stack = 1..Len(tarjan_stack)
         /\ Len(tarjan_stack) \in Nat
         /\ Top.stackidx \in 1..Len(tarjan_stack)
         /\ Top.lowlink \in 1..Top.stackidx
         /\ tarjan_stack[Top.stackidx] \in StackInfos
         /\ tarjan_stack[Top.stackidx].state = Top.state
         /\ \A j \in 1..Len(dfs_stack) : dfs_stack[j] \in ExplorationInfos
<1>1. /\ dfs_stack \in Seq(ExplorationInfos) /\ tarjan_stack \in Seq(StackInfos)
  BY DEF StacksOK
<1>2. /\ Len(dfs_stack) \in Nat \ {0} /\ DOMAIN dfs_stack = 1..Len(dfs_stack)
      /\ DOMAIN tarjan_stack = 1..Len(tarjan_stack) /\ Len(tarjan_stack) \in Nat
      /\ \A j \in 1..Len(dfs_stack) : dfs_stack[j] \in ExplorationInfos
      /\ \A j \in 1..Len(tarjan_stack) : tarjan_stack[j] \in StackInfos
  BY <1>1
<1>3. Len(dfs_stack) \in 1..Len(dfs_stack)
  BY <1>2
<1>4. Top = dfs_stack[Len(dfs_stack)]
  BY DEF Top, Last
<1> QED BY <1>2, <1>3, <1>4 DEF FramesOK

-----------------------------------------------------------------------------
(* Entering a state.                                                       *)

(* What a state can do are actions.                                        *)
LEMMA TailsInAction ==
  ASSUME NEW s \in State PROVE TransitionTails(s) \subseteq Action
BY TailsType

(* What a state that is entered adds to the stacks, and the types.         *)
LEMMA EnterTypes ==
  ASSUME ValuesOK, StacksOK, NEW s \in State, NEW rest \in Seq(ExplorationInfos),
         Enter(s, rest)
  PROVE  /\ explored' = explored \union {s} /\ explored' \subseteq State
         /\ value' \in [State -> Int] /\ pc' = "transition"
         /\ dfs_stack' \in Seq(ExplorationInfos)
         /\ Len(dfs_stack') = Len(rest) + 1 /\ Len(rest) \in Nat
         /\ \A j \in 1..Len(rest) : dfs_stack'[j] = rest[j]
         /\ LET f == dfs_stack'[Len(rest) + 1]
            IN  /\ f.state = s /\ f.aops \subseteq TransitionTails(s)
                /\ f.stackidx = Len(tarjan_stack) + 1
                /\ f.lowlink = Len(tarjan_stack) + 1
                /\ SccSuccessors(f.q_value) = {}
                /\ f.q_value = QValueInfo(0, 1)
         /\ tarjan_stack' \in Seq(StackInfos)
         /\ Len(tarjan_stack') = Len(tarjan_stack) + 1
         /\ Len(tarjan_stack) \in Nat
         /\ \A i \in 1..Len(tarjan_stack) : tarjan_stack'[i] = tarjan_stack[i]
         /\ LET e == tarjan_stack'[Len(tarjan_stack) + 1]
            IN  /\ e.state = s /\ Transitions(e) = {} /\ e.parents = <<>>
                /\ e.transition_flags = <<>>
                /\ e.active_exit_transitions = ActiveAtFirst(s)
                /\ e.active_transitions = ActiveAtFirst(s)
<1> DEFINE place == Len(tarjan_stack) + 1
           e == [state |-> s, conv_part |-> TerminationCost[s],
                 non_ec_transitions |-> {}, ec_transitions |-> {},
                 active_exit_transitions |-> ActiveAtFirst(s),
                 active_transitions |-> ActiveAtFirst(s),
                 transition_flags |-> <<>>, parents |-> <<>>]
           f == [state |-> s,
                 aops |-> IF Pruned(s) THEN {} ELSE TransitionTails(s),
                 action |-> NoAction, q_value |-> QValueInfo(0, 1),
                 successors |-> {}, successor |-> s,
                 stackidx |-> place, lowlink |-> place,
                 exit_interval |-> Point(TerminationCost[s]),
                 has_all_zero |-> TRUE]
<1>1. /\ explored' = explored \union {s}
      /\ value' = [value EXCEPT ![s] = Estimate[s]] /\ pc' = "transition"
      /\ tarjan_stack' = Append(tarjan_stack, e)
      /\ dfs_stack' = Append(rest, f)
  BY DEF Enter
<1>2. /\ explored \subseteq State /\ value \in [State -> Int]
      /\ tarjan_stack \in Seq(StackInfos) /\ place \in Nat \ {0}
      /\ Estimate[s] \in Int /\ TerminationCost[s] \in Int
  BY ConstantTypes DEF ValuesOK, StacksOK
<1>3. ActiveAtFirst(s) \in Int
  BY DEF ActiveAtFirst
<1>4. {} \in TransitionSets
  BY FS_EmptySet DEF TransitionSets
<1>5. e \in StackInfos
  BY <1>2, <1>3, <1>4 DEF StackInfos
<1>6. QValueInfo(0, 1) \in QValueInfos /\ SccSuccessors(QValueInfo(0, 1)) = {}
  BY NewQValueInfo
<1>7. /\ f.state \in State /\ f.aops \subseteq Action /\ f.q_value \in QValueInfos
      /\ f.exit_interval \in Bounds
  BY <1>2, <1>6, TailsInAction, PointType
<1>8. f \in ExplorationInfos
  BY <1>2, <1>7 DEF ExplorationInfos
<1>9. value' \in [State -> Int]
  BY <1>1, <1>2
<1>10. f.state = s /\ f.aops \subseteq TransitionTails(s) /\ f.stackidx = place
       /\ f.lowlink = place /\ f.q_value = QValueInfo(0, 1)
  OBVIOUS
<1>11. e.state = s /\ Transitions(e) = {} /\ e.parents = <<>>
       /\ e.transition_flags = <<>>
       /\ e.active_exit_transitions = ActiveAtFirst(s)
       /\ e.active_transitions = ActiveAtFirst(s)
  BY DEF Transitions
<1> HIDE DEF e, f
<1>12. /\ dfs_stack' \in Seq(ExplorationInfos)
       /\ Len(dfs_stack') = Len(rest) + 1 /\ Len(rest) \in Nat
       /\ \A j \in 1..(Len(rest) + 1) :
            dfs_stack'[j] = IF j = Len(rest) + 1 THEN f ELSE rest[j]
  BY <1>1, <1>8, PushFacts
<1>13. /\ tarjan_stack' \in Seq(StackInfos)
       /\ Len(tarjan_stack') = Len(tarjan_stack) + 1 /\ Len(tarjan_stack) \in Nat
       /\ \A j \in 1..(Len(tarjan_stack) + 1) :
            tarjan_stack'[j] = IF j = Len(tarjan_stack) + 1 THEN e ELSE tarjan_stack[j]
  BY <1>1, <1>2, <1>5, PushFacts
<1>14. /\ \A j \in 1..Len(rest) : dfs_stack'[j] = rest[j]
       /\ dfs_stack'[Len(rest) + 1] = f
  BY <1>12
<1>15. /\ \A j \in 1..Len(tarjan_stack) : tarjan_stack'[j] = tarjan_stack[j]
       /\ tarjan_stack'[Len(tarjan_stack) + 1] = e
  BY <1>13
<1> QED BY <1>1, <1>2, <1>6, <1>9, <1>10, <1>11, <1>12, <1>13, <1>14, <1>15

(* Entering a state that is new, below it the frame that found it, keeps   *)
(* the invariant.                                                          *)
LEMMA EnterKeeps ==
  ASSUME ValuesOK, StacksOK, StackPart, Indexed, SecondSearchOK,
         pc \notin ECDPCs, ~Stopped,
         NEW s \in State, s \notin explored,
         NEW rest \in Seq(ExplorationInfos), Len(rest) = Len(dfs_stack),
         \A j \in 1..Len(rest) :
           /\ SameFrame(dfs_stack[j], rest[j])
           /\ rest[j].q_value = dfs_stack[j].q_value
           /\ rest[j].aops = dfs_stack[j].aops,
         \A j \in 1..Len(rest) :
           /\ Exploring(rest[j])
           /\ rest[j].successor = IF j = Len(rest) THEN s ELSE rest[j + 1].state
           /\ rest[j].successor \in NonSource(rest[j].state, rest[j].action),
         Len(rest) = 0 => Len(tarjan_stack) = 0,
         Len(rest) # 0 => dfs_stack[1].stackidx = 1,
         Enter(s, rest),
         UNCHANGED <<initial_state, ecd_vars, analysis_vars, sweep>>
  PROVE  IInv'
<1> DEFINE L == Len(rest)
           n == Len(tarjan_stack)
           F == dfs_stack'[L + 1]
           E == tarjan_stack'[n + 1]
<1>1. /\ explored' = explored \union {s} /\ explored' \subseteq State
      /\ value' \in [State -> Int] /\ pc' = "transition"
      /\ dfs_stack' \in Seq(ExplorationInfos)
      /\ Len(dfs_stack') = L + 1 /\ L \in Nat
      /\ \A j \in 1..L : dfs_stack'[j] = rest[j]
      /\ F.state = s /\ F.aops \subseteq TransitionTails(s)
      /\ F.stackidx = n + 1 /\ F.lowlink = n + 1
      /\ SccSuccessors(F.q_value) = {}
      /\ tarjan_stack' \in Seq(StackInfos)
      /\ Len(tarjan_stack') = n + 1 /\ n \in Nat
      /\ \A i \in 1..n : tarjan_stack'[i] = tarjan_stack[i]
      /\ E.state = s /\ Transitions(E) = {} /\ E.parents = <<>>
      /\ E.transition_flags = <<>>
      /\ E.active_exit_transitions = ActiveAtFirst(s)
      /\ E.active_transitions = ActiveAtFirst(s)
  <2>1. ValuesOK /\ StacksOK /\ s \in State /\ rest \in Seq(ExplorationInfos)
        /\ Enter(s, rest)
    OBVIOUS
  <2> QED BY ONLY <2>1, EnterTypes
<1>a. L \in Nat /\ n \in Nat
  BY <1>1
<1>b. /\ dfs_stack'[L + 1].stackidx = n + 1 /\ dfs_stack'[L + 1].lowlink = n + 1
      /\ dfs_stack'[L + 1].state = s
      /\ dfs_stack'[L + 1].aops \subseteq TransitionTails(s)
      /\ SccSuccessors(dfs_stack'[L + 1].q_value) = {}
  BY <1>1
<1>c. /\ tarjan_stack'[n + 1].state = s /\ Transitions(tarjan_stack'[n + 1]) = {}
      /\ tarjan_stack'[n + 1].parents = <<>>
      /\ tarjan_stack'[n + 1].transition_flags = <<>>
      /\ tarjan_stack'[n + 1].active_exit_transitions = ActiveAtFirst(s)
      /\ tarjan_stack'[n + 1].active_transitions = ActiveAtFirst(s)
  BY <1>1
<1>d. \A i \in 1..n : tarjan_stack'[i] = tarjan_stack[i]
  BY <1>1
<1>e. /\ DOMAIN dfs_stack' = 1..(L + 1) /\ DOMAIN tarjan_stack' = 1..(n + 1)
      /\ Len(dfs_stack') = L + 1 /\ Len(tarjan_stack') = n + 1
  BY <1>1
<1>f. DOMAIN dfs_stack = 1..L /\ DOMAIN tarjan_stack = 1..n /\ Len(dfs_stack) = L
  BY <1>1 DEF StacksOK
<1>h. \A j \in 1..L : dfs_stack'[j] = rest[j]
  BY <1>1
<1> HIDE DEF L, n, F, E
<1>g. /\ \A i \in 1..(L + 1) : i \in 1..L \/ i = L + 1
      /\ \A i \in 1..(n + 1) : i \in 1..n \/ i = n + 1
  BY <1>a
<1>2. /\ DOMAIN dfs_stack' = 1..(L + 1) /\ DOMAIN tarjan_stack' = 1..(n + 1)
      /\ DOMAIN dfs_stack = 1..L /\ DOMAIN tarjan_stack = 1..n
      /\ \A i \in 1..(L + 1) : i \in 1..L \/ i = L + 1
      /\ \A i \in 1..(n + 1) : i \in 1..n \/ i = n + 1
  BY <1>e, <1>f, <1>g
<1>3. \A j \in 1..L : /\ dfs_stack'[j].stackidx = dfs_stack[j].stackidx
                      /\ dfs_stack'[j].lowlink = dfs_stack[j].lowlink
                      /\ dfs_stack'[j].state = dfs_stack[j].state
                      /\ dfs_stack'[j].q_value = dfs_stack[j].q_value
                      /\ dfs_stack'[j].aops = dfs_stack[j].aops
  BY <1>h DEF SameFrame, L
<1>4. \A j \in 1..L : /\ dfs_stack[j].stackidx \in 1..n
                      /\ dfs_stack[j].lowlink \in 1..dfs_stack[j].stackidx
                      /\ dfs_stack[j].state = tarjan_stack[dfs_stack[j].stackidx].state
                      /\ dfs_stack[j].aops \subseteq TransitionTails(dfs_stack[j].state)
  BY <1>2 DEF StackPart, FramesOK
<1>5. FramesOK'
  <2>1. ASSUME NEW j \in 1..(L + 1)
        PROVE  /\ dfs_stack'[j].stackidx \in 1..(n + 1)
               /\ dfs_stack'[j].lowlink \in 1..dfs_stack'[j].stackidx
               /\ dfs_stack'[j].state = tarjan_stack'[dfs_stack'[j].stackidx].state
               /\ dfs_stack'[j].aops \subseteq TransitionTails(dfs_stack'[j].state)
    <3>1. CASE j = L + 1
      BY <3>1, <1>a, <1>b, <1>c
    <3>2. CASE j \in 1..L
      <4>1. tarjan_stack'[dfs_stack[j].stackidx] = tarjan_stack[dfs_stack[j].stackidx]
        BY <1>d, <1>4, <3>2
      <4>2. dfs_stack[j].stackidx \in 1..(n + 1)
        BY <1>a, <1>4, <3>2
      <4> QED BY <4>1, <4>2, <1>3, <1>4, <3>2
    <3> QED BY <1>2, <3>1, <3>2
  <2>2. ASSUME NEW j \in 1..(L + 1), NEW k \in 1..(L + 1), j < k
        PROVE  dfs_stack'[j].stackidx < dfs_stack'[k].stackidx
    <3>1. j \in 1..L
      BY <1>a, <2>2
    <3>2. CASE k = L + 1
      BY <3>1, <3>2, <1>a, <1>b, <1>3, <1>4
    <3>3. CASE k \in 1..L
      BY <3>1, <3>3, <2>2, <1>2, <1>3 DEF StackPart, FramesOK
    <3> QED BY <1>2, <3>2, <3>3
  <2> QED BY <1>2, <2>1, <2>2 DEF FramesOK
<1>6. ASSUME NEW i \in 1..n, NEW k \in 1..n, Near(i, k) PROVE Near(i, k)'
  <2>1. ASSUME NEW j \in 1..(L + 1), i < dfs_stack'[j].stackidx
        PROVE  k < dfs_stack'[j].stackidx
    <3>1. CASE j = L + 1
      BY <3>1, <1>a, <1>b
    <3>2. CASE j \in 1..L
      BY <3>2, <2>1, <1>2, <1>3, <1>6 DEF Near
    <3> QED BY <1>2, <3>1, <3>2
  <2>2. ASSUME NEW j \in 1..(L + 1), dfs_stack'[j].stackidx <= i,
               \A m \in 1..(L + 1) : m > j => i < dfs_stack'[m].stackidx
        PROVE  dfs_stack'[j].lowlink <= k
    <3>1. j \in 1..L
      BY <2>2, <1>a, <1>b, <1>g
    <3>2. \A m \in 1..L : m > j => i < dfs_stack[m].stackidx
      BY <2>2, <1>a, <1>3
    <3>3. dfs_stack[j].stackidx <= i
      BY <2>2, <3>1, <1>3
    <3> QED BY <3>1, <3>2, <3>3, <1>2, <1>3, <1>6 DEF Near
  <2> QED BY <1>2, <2>1, <2>2 DEF Near
<1>7. ASSUME NEW i \in 1..n, NEW t, IsNear(i, t) PROVE IsNear(i, t)'
  <2>1. PICK k \in 1..n : tarjan_stack[k].state = t /\ Near(i, k)
    BY <1>2, <1>7 DEF IsNear
  <2>2. Near(i, k)' /\ tarjan_stack'[k].state = t
    BY <1>d, <1>6, <2>1
  <2>3. k \in 1..(n + 1)
    BY <1>a
  <2> QED BY <1>e, <2>2, <2>3 DEF IsNear
<1>8. SuccessorsOK'
  <2>1. ASSUME NEW i \in 1..(n + 1), NEW q \in Transitions(tarjan_stack'[i])
        PROVE  SccSuccessors(q) # {} /\ \A t \in SccSuccessors(q) : IsNear(i, t)'
    <3>1. i # n + 1
      BY <1>c, <2>1
    <3>2. i \in 1..n /\ q \in Transitions(tarjan_stack[i])
      BY <3>1, <1>d, <1>g, <2>1
    <3> QED BY <3>2, <1>f, <1>7 DEF StackPart, SuccessorsOK
  <2>2. ASSUME NEW j \in 1..(L + 1), NEW t \in SccSuccessors(dfs_stack'[j].q_value),
               NEW i, i = dfs_stack'[j].stackidx
        PROVE  IsNear(i, t)'
    <3>1. j # L + 1
      BY <1>b, <2>2
    <3>2. j \in 1..L /\ t \in SccSuccessors(dfs_stack[j].q_value)
          /\ i = dfs_stack[j].stackidx
      BY <3>1, <1>g, <1>3, <2>2
    <3>3. IsNear(i, t)
      BY <3>2, <1>f DEF StackPart, SuccessorsOK
    <3> QED BY <3>2, <3>3, <1>4, <1>7
  <2> QED BY <1>e, <2>1, <2>2 DEF SuccessorsOK, SccSuccessors, Transitions
<1>9. LinksOK'
  <2>1. ASSUME NEW x, x.parent_idx \in 1..n, IsRecorded(x) \/ IsUnderWay(x)
        PROVE  IsRecorded(x)' \/ IsUnderWay(x)'
    <3>1. FlagCount(x.parent_idx)' = FlagCount(x.parent_idx)
      BY <1>d, <2>1 DEF FlagCount
    <3>2. CASE IsRecorded(x)
      BY <3>1, <3>2 DEF IsRecorded
    <3>3. CASE IsUnderWay(x)
      <4>1. PICK j \in 1..L : /\ dfs_stack[j].stackidx = x.parent_idx
                              /\ SccSuccessors(dfs_stack[j].q_value) # {}
        BY <3>3, <1>f DEF IsUnderWay
      <4>2. j \in 1..(L + 1)
        BY <1>a
      <4> QED BY <3>1, <3>3, <4>1, <4>2, <1>3, <1>e DEF IsUnderWay, SccSuccessors
    <3> QED BY <2>1, <3>2, <3>3
  <2>2. ASSUME NEW k \in 1..(n + 1), NEW m \in DOMAIN tarjan_stack'[k].parents,
               NEW x, x = tarjan_stack'[k].parents[m]
        PROVE  /\ x.parent_idx \in 1..(n + 1) /\ Near(x.parent_idx, k)'
               /\ IsRecorded(x)' \/ IsUnderWay(x)'
    <3>1. k # n + 1
      BY <1>c, <2>2
    <3>2. k \in 1..n /\ tarjan_stack'[k] = tarjan_stack[k]
      BY <3>1, <1>d, <1>g
    <3>3. /\ x.parent_idx \in 1..n /\ Near(x.parent_idx, k)
          /\ IsRecorded(x) \/ IsUnderWay(x)
      BY <2>2, <3>2, <1>f DEF StackPart, LinksOK
    <3> QED BY <3>2, <3>3, <2>1, <1>6, <1>a
  <2> QED BY <1>e, <2>2 DEF LinksOK
<1>10. CountersOK'
  <2>1. ASSUME NEW i \in 1..(n + 1), NEW e, e = tarjan_stack'[i]
        PROVE  /\ ExitFlags(e) \subseteq ActiveFlags(e)
               /\ e.active_transitions - Cardinality(ActiveFlags(e)) >= 0
               /\ e.active_exit_transitions =
                    e.active_transitions - Cardinality(ActiveFlags(e))
                    + Cardinality(ExitFlags(e))
    <3>1. CASE i = n + 1
      <4>1. ActiveFlags(e) = {} /\ ExitFlags(e) = {} /\ Cardinality({}) = 0
        BY <3>1, <2>1, <1>c, FS_EmptySet DEF ActiveFlags, ExitFlags
      <4> QED BY <4>1, <3>1, <2>1, <1>c DEF ActiveAtFirst
    <3>2. CASE i \in 1..n
      BY <3>2, <2>1, <1>d, <1>f DEF StackPart, CountersOK
    <3> QED BY <1>g, <3>1, <3>2
  <2> QED BY <1>e, <2>1 DEF CountersOK, ActiveFlags, ExitFlags
<1>11. Indexed'
  <2>1. scc = <<>> /\ scc' = <<>> /\ ToSet(scc) = {}
    BY DEF Indexed, ecd_vars, ToSet, Stopped
  <2>2. \A i \in 1..n : tarjan_stack[i].state \in explored
    BY <2>1, <1>f DEF Indexed
  <2>3. ASSUME NEW i \in 1..(n + 1) PROVE tarjan_stack'[i].state \in explored'
    BY <1>1, <1>c, <1>d, <1>g, <2>2
  <2>4. ASSUME NEW i \in 1..(n + 1), NEW k \in 1..(n + 1),
               tarjan_stack'[i].state = tarjan_stack'[k].state
        PROVE  i = k
    <3>1. CASE i \in 1..n /\ k \in 1..n
      BY <3>1, <2>4, <1>d, <1>f DEF Indexed
    <3>2. CASE i = n + 1 /\ k \in 1..n
      BY <3>2, <2>2, <2>4, <1>c, <1>d
    <3>3. CASE k = n + 1 /\ i \in 1..n
      BY <3>3, <2>2, <2>4, <1>c, <1>d
    <3> QED BY <1>g, <3>1, <3>2, <3>3
  <2> QED BY <1>e, <2>1, <2>3, <2>4 DEF Indexed
<1>12. ControlOK'
  <2>1. ASSUME NEW j \in 1..(L + 1), j < L + 1
        PROVE  /\ Exploring(dfs_stack'[j])
               /\ dfs_stack'[j].successor = dfs_stack'[j + 1].state
               /\ dfs_stack'[j].successor \in
                     NonSource(dfs_stack'[j].state, dfs_stack'[j].action)
    <3>1. j \in 1..L /\ (j = L \/ (j + 1 \in 1..L /\ j # L))
      BY <1>a, <2>1
    <3>2. CASE j = L
      BY <3>1, <3>2, <1>b, <1>h DEF L
    <3>3. CASE j # L /\ j + 1 \in 1..L
      BY <3>1, <3>3, <1>h DEF L
    <3> QED BY <3>1, <3>2, <3>3
  <2>2. dfs_stack' # <<>> /\ pc' = "transition"
    BY <1>1, <1>a, <1>e
  <2>3. SccSuccessors(Top.q_value)' = {}
    BY <1>b, <1>e DEF Top, Last, SccSuccessors
  <2>4. dfs_stack'[1].stackidx = 1
    <3>1. CASE L = 0
      BY <3>1, <1>b DEF L, n
    <3>2. CASE L # 0
      <4>1. 1 \in 1..L
        BY <1>a, <3>2
      <4> QED BY <3>2, <4>1, <1>3 DEF L
    <3> QED BY <3>1, <3>2
  <2> QED BY <1>e, <2>1, <2>2, <2>3, <2>4
          DEF ControlOK, Chained, Stopped, Exploring, ECDPCs, SweepPCs, AnalysisPCs
<1>13. ValuesOK' /\ StacksOK'
  BY <1>1 DEF ValuesOK, StacksOK, ecd_vars, PCs
<1>14. SecondSearchOK' /\ AnalysisOK'
  BY <1>1, OtherPhases DEF ECDPCs, Stopped
<1> QED BY <1>5, <1>8, <1>9, <1>10, <1>11, <1>12, <1>13, <1>14 DEF IInv

(* solve() enters the initial state.                                       *)
LEMMA SolveStep == ASSUME IInv, Solve PROVE IInv'
<1>1. /\ pc = "solve" /\ Enter(initial_state, <<>>)
      /\ UNCHANGED <<initial_state, ecd_vars, analysis_vars, sweep>>
  BY DEF Solve
<1>2. initial_state \in State
  BY ConstantTypes DEF IInv, ValuesOK
<1>3. dfs_stack = <<>> /\ tarjan_stack = <<>>
  BY <1>1 DEF IInv, ControlOK
<1>4. <<>> \in Seq(ExplorationInfos) /\ Len(<<>>) = Len(dfs_stack) /\ 1..Len(<<>>) = {}
  BY <1>3
<1>5. ~Stopped /\ pc \notin ECDPCs
  BY <1>1 DEF Stopped, ECDPCs
<1>6. initial_state \notin explored
  BY <1>1 DEF IInv, ControlOK
<1>7. /\ ValuesOK /\ StacksOK /\ StackPart /\ Indexed /\ SecondSearchOK
  BY DEF IInv, StackPart
<1>8. Len(<<>>) = 0 /\ Len(tarjan_stack) = 0
  BY <1>3
<1> QED BY <1>1, <1>2, <1>4, <1>5, <1>6, <1>7, <1>8, EnterKeeps

(* The frame on top of a stack is the last to change.                      *)
LEMMA NewSuccessorStep == ASSUME IInv, NewSuccessor PROVE IInv'
<1>1. PICK t \in Top.successors \ explored :
        Enter(t, WithTop(dfs_stack, [Top EXCEPT !.successors = @ \ {t},
                                                !.successor = t]))
  BY DEF NewSuccessor
<1>2. /\ pc = "successor"
      /\ UNCHANGED <<initial_state, ecd_vars, analysis_vars, sweep>>
  BY DEF NewSuccessor
<1>3. /\ ValuesOK /\ StacksOK /\ StackPart /\ Indexed /\ SecondSearchOK
      /\ FramesOK /\ ControlOK
  BY DEF IInv, StackPart
<1>4. ~Stopped /\ pc \notin ECDPCs /\ dfs_stack # <<>> /\ Exploring(Top)
  BY <1>2, <1>3 DEF Stopped, ECDPCs, ControlOK
<1> DEFINE f == [Top EXCEPT !.successors = @ \ {t}, !.successor = t]
           rest == WithTop(dfs_stack, f)
           L == Len(dfs_stack)
<1>5. /\ Top = dfs_stack[L] /\ Top \in ExplorationInfos
      /\ L \in Nat \ {0} /\ DOMAIN dfs_stack = 1..L
      /\ dfs_stack \in Seq(ExplorationInfos)
  BY <1>3, <1>4, TopFacts DEF StacksOK
<1>6. t \in State /\ t \in NonSource(Top.state, Top.action)
  BY <1>4, <1>5, FrameParts DEF Exploring
<1>7. f \in ExplorationInfos
  BY <1>5, <1>6, FrameParts DEF ExplorationInfos
<1>8. /\ f.state = Top.state /\ f.stackidx = Top.stackidx
      /\ f.lowlink = Top.lowlink /\ f.q_value = Top.q_value
      /\ f.aops = Top.aops /\ f.action = Top.action /\ f.successor = t
      /\ f.successors = Top.successors \ {t}
  BY <1>5 DEF ExplorationInfos
<1> HIDE DEF f
<1>9. /\ rest \in Seq(ExplorationInfos) /\ Len(rest) = L
      /\ \A i \in 1..L : rest[i] = IF i = L THEN f ELSE dfs_stack[i]
  <2>1. dfs_stack \in Seq(ExplorationInfos) /\ dfs_stack # <<>>
    BY <1>4, <1>5
  <2> QED BY <2>1, <1>7, WithTopFacts
<1> HIDE DEF rest, L
<1>10. \A j \in 1..L : /\ SameFrame(dfs_stack[j], rest[j])
                       /\ rest[j].q_value = dfs_stack[j].q_value
                       /\ rest[j].aops = dfs_stack[j].aops
  BY <1>5, <1>8, <1>9 DEF SameFrame
<1>11. ASSUME NEW j \in 1..L
       PROVE  /\ Exploring(rest[j])
              /\ rest[j].successor = IF j = L THEN t ELSE rest[j + 1].state
              /\ rest[j].successor \in NonSource(rest[j].state, rest[j].action)
  <2>1. CASE j = L
    <3>1. rest[j] = f
      BY <2>1, <1>9
    <3>2. Exploring(f)
      BY <1>4, <1>8 DEF Exploring
    <3> QED BY <2>1, <3>1, <3>2, <1>6, <1>8
  <2>2. CASE j # L
    <3>1. j < L /\ j + 1 \in 1..L
      BY <2>2, <1>5
    <3>2. rest[j] = dfs_stack[j] /\ rest[j + 1].state = dfs_stack[j + 1].state
      BY <2>2, <3>1, <1>9, <1>10 DEF SameFrame
    <3> QED BY <2>2, <3>1, <3>2, <1>3, <1>5 DEF ControlOK, Chained, L
  <2> QED BY <2>1, <2>2
<1>12. Enter(t, rest) /\ t \notin explored
  BY <1>1 DEF rest, f
<1>13. L # 0 /\ dfs_stack[1].stackidx = 1
  BY <1>3, <1>4, <1>5 DEF ControlOK, Chained
<1> QED BY <1>2, <1>3, <1>4, <1>6, <1>9, <1>10, <1>11, <1>12, <1>13, EnterKeeps DEF L
-----------------------------------------------------------------------------
(* The frame on top is replaced by one that knows of a lower link at most. *)
LEMMA TopReplaced ==
  ASSUME StacksOK, FramesOK, dfs_stack # <<>>,
         NEW f \in ExplorationInfos, f.state = Top.state,
         f.stackidx = Top.stackidx, f.lowlink \in 1..Top.lowlink,
         f.aops \subseteq Top.aops,
         dfs_stack' = WithTop(dfs_stack, f),
         Len(tarjan_stack') = Len(tarjan_stack),
         tarjan_stack' \in Seq(StackInfos),
         \A i \in 1..Len(tarjan_stack) :
           tarjan_stack'[i].state = tarjan_stack[i].state
  PROVE  /\ dfs_stack' \in Seq(ExplorationInfos) /\ dfs_stack' # <<>>
         /\ Len(dfs_stack') = Len(dfs_stack) /\ Top' = f
         /\ \A j \in 1..Len(dfs_stack) :
              dfs_stack'[j] = IF j = Len(dfs_stack) THEN f ELSE dfs_stack[j]
         /\ FramesOK'
         /\ \A i, k \in Nat : Near(i, k) => Near(i, k)'
         /\ \A i \in Nat, t \in State : IsNear(i, t) => IsNear(i, t)'
<1> DEFINE L == Len(dfs_stack)
           n == Len(tarjan_stack)
<1>1. /\ dfs_stack' \in Seq(ExplorationInfos) /\ dfs_stack' # <<>>
      /\ Len(dfs_stack') = L /\ Last(dfs_stack') = f
      /\ \A j \in 1..L : dfs_stack'[j] = IF j = L THEN f ELSE dfs_stack[j]
  <2>1. dfs_stack \in Seq(ExplorationInfos) /\ dfs_stack # <<>>
    BY DEF StacksOK
  <2> DEFINE g == WithTop(dfs_stack, f)
  <2>2. /\ g \in Seq(ExplorationInfos) /\ g # <<>> /\ Len(g) = L /\ Last(g) = f
        /\ \A j \in 1..L : g[j] = IF j = L THEN f ELSE dfs_stack[j]
    <3>1. f \in ExplorationInfos
      OBVIOUS
    <3> QED BY ONLY <2>1, <3>1, WithTopFacts
  <2>3. dfs_stack' = g
    OBVIOUS
  <2> HIDE DEF g
  <2> QED BY <2>2, <2>3
<1>2. /\ Top = dfs_stack[L] /\ L \in Nat \ {0}
      /\ DOMAIN dfs_stack = 1..L /\ DOMAIN tarjan_stack = 1..n /\ n \in Nat
      /\ Top.stackidx \in 1..n /\ Top.lowlink \in 1..Top.stackidx
  BY TopFacts
<1>3. DOMAIN dfs_stack' = 1..L /\ DOMAIN tarjan_stack' = 1..n
  BY <1>1
<1>4. Top' = f
  BY <1>1 DEF Top
<1> HIDE DEF L, n
<1>5. \A j \in 1..L : /\ dfs_stack'[j].stackidx = dfs_stack[j].stackidx
                      /\ dfs_stack'[j].state = dfs_stack[j].state
                      /\ dfs_stack'[j].lowlink \in 1..dfs_stack[j].lowlink
                      /\ dfs_stack'[j].aops \subseteq dfs_stack[j].aops
  <2> TAKE j \in 1..L
  <2>1. CASE j = L
    BY <2>1, <1>1, <1>2
  <2>2. CASE j # L
    <3>1. dfs_stack[j].lowlink \in 1..dfs_stack[j].stackidx
      BY <1>2 DEF FramesOK
    <3>2. dfs_stack'[j] = dfs_stack[j]
      BY <2>2, <1>1
    <3>3. dfs_stack[j].stackidx \in 1..n
      BY <1>2 DEF FramesOK
    <3> QED BY <3>1, <3>2, <3>3
  <2> QED BY <2>1, <2>2
<1>6. \A j \in 1..L : /\ dfs_stack[j].stackidx \in 1..n
                      /\ dfs_stack[j].lowlink \in 1..dfs_stack[j].stackidx
                      /\ dfs_stack[j].state = tarjan_stack[dfs_stack[j].stackidx].state
                      /\ dfs_stack[j].aops \subseteq TransitionTails(dfs_stack[j].state)
  BY <1>2 DEF FramesOK
<1>7. FramesOK'
  <2>1. ASSUME NEW j \in 1..L
        PROVE  /\ dfs_stack'[j].stackidx \in 1..n
               /\ dfs_stack'[j].lowlink \in 1..dfs_stack'[j].stackidx
               /\ dfs_stack'[j].state = tarjan_stack'[dfs_stack'[j].stackidx].state
               /\ dfs_stack'[j].aops \subseteq TransitionTails(dfs_stack'[j].state)
    BY <1>5, <1>6 DEF n
  <2>2. ASSUME NEW j \in 1..L, NEW k \in 1..L, j < k
        PROVE  dfs_stack'[j].stackidx < dfs_stack'[k].stackidx
    BY <2>2, <1>2, <1>5 DEF FramesOK
  <2> QED BY <1>3, <2>1, <2>2 DEF FramesOK
<1>8. ASSUME NEW i \in Nat, NEW k \in Nat, Near(i, k) PROVE Near(i, k)'
  <2>1. ASSUME NEW j \in 1..L, i < dfs_stack'[j].stackidx
        PROVE  k < dfs_stack'[j].stackidx
    BY <2>1, <1>2, <1>5, <1>8 DEF Near
  <2>2. ASSUME NEW j \in 1..L, dfs_stack'[j].stackidx <= i,
               \A m \in 1..L : m > j => i < dfs_stack'[m].stackidx
        PROVE  dfs_stack'[j].lowlink <= k
    <3>1. \A m \in 1..L : m > j => i < dfs_stack[m].stackidx
      BY <2>2, <1>5
    <3>2. dfs_stack[j].stackidx <= i
      BY <2>2, <1>5
    <3>3. dfs_stack[j].lowlink <= k
      BY <3>1, <3>2, <1>2, <1>8 DEF Near
    <3>4. dfs_stack'[j].lowlink \in 1..dfs_stack[j].lowlink
          /\ dfs_stack[j].lowlink \in Nat
      BY <1>5, <1>6
    <3> QED BY <3>3, <3>4
  <2> QED BY <1>3, <2>1, <2>2 DEF Near
<1>9. ASSUME NEW i \in Nat, NEW t, IsNear(i, t) PROVE IsNear(i, t)'
  <2>1. PICK k \in 1..n : tarjan_stack[k].state = t /\ Near(i, k)
    BY <1>2, <1>9 DEF IsNear
  <2>2. Near(i, k)' /\ tarjan_stack'[k].state = t
    BY <1>8, <2>1 DEF n
  <2> QED BY <1>3, <2>1, <2>2 DEF IsNear
<1> QED BY <1>1, <1>4, <1>7, <1>8, <1>9 DEF L

(* Tarjan's stack stays as it is; the transition the frame is in the middle*)
(* of has new open successors only if they are near.                       *)
LEMMA TopReplacedKeeps ==
  ASSUME StacksOK, StackPart, Indexed, dfs_stack # <<>>, ~Stopped, ~Stopped',
         NEW f \in ExplorationInfos, f.state = Top.state,
         f.stackidx = Top.stackidx, f.lowlink = Top.lowlink,
         f.aops \subseteq Top.aops,
         SccSuccessors(f.q_value) = SccSuccessors(Top.q_value),
         dfs_stack' = WithTop(dfs_stack, f), UNCHANGED tarjan_stack
  PROVE  StackPart'
<1> DEFINE L == Len(dfs_stack)
           n == Len(tarjan_stack)
<1>1. /\ Top = dfs_stack[L] /\ L \in Nat \ {0}
      /\ DOMAIN dfs_stack = 1..L /\ DOMAIN tarjan_stack = 1..n /\ n \in Nat
      /\ Top.stackidx \in 1..n /\ Top.lowlink \in 1..Top.stackidx
      /\ \A j \in 1..L : dfs_stack[j] \in ExplorationInfos
  BY TopFacts DEF StackPart
<1>2. tarjan_stack' \in Seq(StackInfos) /\ f.lowlink \in 1..Top.lowlink
  BY <1>1 DEF StacksOK
<1>3. /\ dfs_stack' \in Seq(ExplorationInfos)
      /\ Len(dfs_stack') = L
      /\ \A j \in 1..L : dfs_stack'[j] = IF j = L THEN f ELSE dfs_stack[j]
      /\ FramesOK'
      /\ \A i, k \in Nat : Near(i, k) => Near(i, k)'
      /\ \A i \in Nat, t \in State : IsNear(i, t) => IsNear(i, t)'
  <2>1. FramesOK
    BY DEF StackPart
  <2> QED BY <1>2, <2>1, TopReplaced
<1>4. DOMAIN dfs_stack' = 1..L
  BY <1>3
<1> HIDE DEF L, n
<1>5. \A j \in 1..L :
         /\ dfs_stack'[j].stackidx = dfs_stack[j].stackidx
         /\ SccSuccessors(dfs_stack'[j].q_value) = SccSuccessors(dfs_stack[j].q_value)
         /\ dfs_stack[j].stackidx \in Nat
         /\ SccSuccessors(dfs_stack[j].q_value) \subseteq State
  <2> TAKE j \in 1..L
  <2>1. dfs_stack[j].stackidx \in Nat /\ dfs_stack[j].q_value \in QValueInfos
    BY <1>1, FrameParts
  <2>2. SccSuccessors(dfs_stack[j].q_value) \subseteq State
    BY <2>1, QValueInfoParts
  <2> QED BY <2>1, <2>2, <1>1, <1>3
<1>6. SuccessorsOK'
  <2>1. ASSUME NEW i \in 1..n, NEW q \in Transitions(tarjan_stack[i])
        PROVE  SccSuccessors(q) # {} /\ \A t \in SccSuccessors(q) : IsNear(i, t)'
    <3>1. SccSuccessors(q) # {} /\ \A t \in SccSuccessors(q) : IsNear(i, t)
      BY <2>1, <1>1 DEF StackPart, SuccessorsOK
    <3>2. tarjan_stack[i] \in StackInfos
      BY <1>1 DEF StacksOK
    <3>3. q \in QValueInfos
      BY <2>1, <3>2, EntryParts DEF Transitions, TransitionSets
    <3>4. SccSuccessors(q) \subseteq State
      BY <3>3, QValueInfoParts
    <3> QED BY <3>1, <3>4, <1>3
  <2>2. ASSUME NEW j \in 1..L, NEW t \in SccSuccessors(dfs_stack[j].q_value),
               NEW i, i = dfs_stack[j].stackidx
        PROVE  IsNear(i, t)'
    <3>1. IsNear(i, t)
      BY <2>2, <1>1 DEF StackPart, SuccessorsOK
    <3> QED BY <3>1, <2>2, <1>3, <1>5
  <2> QED BY <1>1, <1>4, <1>5, <2>1, <2>2 DEF SuccessorsOK, SccSuccessors, Transitions
<1>7. LinksOK'
  <2>1. ASSUME NEW x, IsRecorded(x) \/ IsUnderWay(x)
        PROVE  IsRecorded(x)' \/ IsUnderWay(x)'
    <3>1. FlagCount(x.parent_idx)' = FlagCount(x.parent_idx)
      BY DEF FlagCount
    <3>2. CASE IsRecorded(x)
      BY <3>1, <3>2 DEF IsRecorded
    <3>3. CASE IsUnderWay(x)
      <4>1. PICK j \in 1..L : /\ dfs_stack[j].stackidx = x.parent_idx
                              /\ SccSuccessors(dfs_stack[j].q_value) # {}
        BY <3>3, <1>1 DEF IsUnderWay
      <4> QED BY <3>1, <3>3, <4>1, <1>4, <1>5 DEF IsUnderWay, SccSuccessors
    <3> QED BY <2>1, <3>2, <3>3
  <2>2. ASSUME NEW k \in 1..n, NEW m \in DOMAIN tarjan_stack[k].parents,
               NEW x, x = tarjan_stack[k].parents[m]
        PROVE  /\ x.parent_idx \in 1..n /\ Near(x.parent_idx, k)'
               /\ IsRecorded(x)' \/ IsUnderWay(x)'
    <3>1. /\ x.parent_idx \in 1..n /\ Near(x.parent_idx, k)
          /\ IsRecorded(x) \/ IsUnderWay(x)
      BY <2>2, <1>1 DEF StackPart, LinksOK
    <3> QED BY <3>1, <2>1, <1>3
  <2> QED BY <1>1, <2>2 DEF LinksOK
<1>8. CountersOK'
  BY DEF StackPart, CountersOK, ActiveFlags, ExitFlags
<1> QED BY <1>3, <1>6, <1>7, <1>8 DEF StackPart
-----------------------------------------------------------------------------
(* Frames that are told of a successor.                                    *)

(* A frame that differs from f in what does not concern the stacks.        *)
SameTransition(f, g) ==
  /\ g.state = f.state /\ g.stackidx = f.stackidx /\ g.aops = f.aops
  /\ g.action = f.action /\ g.successor = f.successor
  /\ g.successors = f.successors

(* A frame goes on with its transition when only other fields change.      *)
LEMMA ExploringKept ==
  ASSUME NEW f, NEW g, SameTransition(f, g), Exploring(f)
  PROVE  Exploring(g)
BY DEF SameTransition, Exploring

(* A frame that is told of a closed successor changes in its Q-value and   *)
(* its interval.                                                           *)
LEMMA AddClosedFacts ==
  ASSUME NEW f \in ExplorationInfos, Exploring(f),
         NEW t \in NonSource(f.state, f.action), NEW x \in Int
  PROVE  /\ AddClosed(f, t, x) \in ExplorationInfos
         /\ SameTransition(f, AddClosed(f, t, x))
         /\ AddClosed(f, t, x).lowlink = f.lowlink
         /\ SccSuccessors(AddClosed(f, t, x).q_value) = SccSuccessors(f.q_value)
<1> DEFINE w == Transition[f.state][f.action][t]
           q == f.q_value
           c == Plus(q.conv_part, w, x)
           r == [q EXCEPT !.conv_part = c]
           h == Hull(f.exit_interval, Point(x))
           g == [f EXCEPT !.q_value = r, !.exit_interval = h]
<1>1. f.state \in State /\ f.action \in TransitionTails(f.state)
  BY FrameParts DEF Exploring
<1>2. w \in Int
  BY <1>1, WeightsType
<1>3. q \in QValueInfos /\ q.conv_part \in Int /\ f.exit_interval \in Bounds
  BY FrameParts, QValueInfoParts
<1>4. c \in Int /\ h \in Bounds
  <2> HIDE DEF w, q
  <2> QED BY <1>2, <1>3, PlusType, PointType, HullType
<1>5. r \in QValueInfos /\ r.scc_successors = q.scc_successors
  <2> HIDE DEF c, q
  <2> QED BY <1>3, <1>4 DEF QValueInfos
<1>6. AddClosed(f, t, x) = g
  BY DEF AddClosed
<1> HIDE DEF r, h
<1>7. g \in ExplorationInfos /\ SameTransition(f, g) /\ g.lowlink = f.lowlink
      /\ g.q_value = r
  BY <1>4, <1>5 DEF ExplorationInfos, SameTransition
<1> HIDE DEF g
<1> QED BY <1>5, <1>6, <1>7 DEF SccSuccessors

(* One that is told of an open successor has it in its Q-value.            *)
LEMMA AddOpenFacts ==
  ASSUME NEW f \in ExplorationInfos, Exploring(f),
         NEW t \in NonSource(f.state, f.action), t \in State
  PROVE  /\ AddOpen(f, t) \in ExplorationInfos
         /\ SameTransition(f, AddOpen(f, t))
         /\ AddOpen(f, t).lowlink = f.lowlink
         /\ AddOpen(f, t).exit_interval = f.exit_interval
         /\ AddOpen(f, t).has_all_zero = f.has_all_zero
         /\ SccSuccessors(AddOpen(f, t).q_value) = SccSuccessors(f.q_value) \union {t}
<1> DEFINE w == Transition[f.state][f.action][t]
           q == f.q_value
           D == SccSuccessors(q)
           m == [u \in DOMAIN q.scc_successors \union {t} |->
                  IF u = t THEN w ELSE q.scc_successors[u]]
           r == [q EXCEPT !.scc_successors = m]
           g == [f EXCEPT !.q_value = r]
<1>1. f.state \in State /\ f.action \in TransitionTails(f.state)
  BY FrameParts DEF Exploring
<1>2. w \in Nat
  BY <1>1, WeightsType
<1>3. q \in QValueInfos /\ q.scc_successors \in [D -> Nat] /\ D \subseteq State
      /\ q.conv_part \in Int /\ q.norm \in Nat \ {0}
  BY FrameParts, QValueInfoParts
<1>4. m \in [D \union {t} -> Nat]
  <2> DEFINE u == q.scc_successors
  <2>1. u \in [D -> Nat] /\ DOMAIN u = D
    BY <1>3
  <2>2. m = [x \in D \union {t} |-> IF x = t THEN w ELSE u[x]]
    BY <2>1
  <2> HIDE DEF m, u, w, D
  <2>3. \A x \in D \union {t} : (IF x = t THEN w ELSE u[x]) \in Nat
    BY <1>2, <2>1
  <2> QED BY <2>2, <2>3
<1>5. r \in QValueInfos /\ SccSuccessors(r) = D \union {t}
  <2>1. m \in WeightMaps
    <3> HIDE DEF m, D
    <3> QED BY <1>3, <1>4 DEF WeightMaps
  <2>2. r \in QValueInfos /\ r.scc_successors = m
    <3> HIDE DEF m, q
    <3> QED BY <1>3, <2>1 DEF QValueInfos
  <2> HIDE DEF m, r, D
  <2> QED BY <1>4, <2>2 DEF SccSuccessors
<1>6. AddOpen(f, t) = g
  BY DEF AddOpen
<1> HIDE DEF r
<1>7. g \in ExplorationInfos /\ SameTransition(f, g) /\ g.lowlink = f.lowlink
      /\ g.exit_interval = f.exit_interval /\ g.has_all_zero = f.has_all_zero
      /\ g.q_value = r
  BY <1>5 DEF ExplorationInfos, SameTransition
<1> HIDE DEF g
<1> QED BY <1>5, <1>6, <1>7 DEF D

-----------------------------------------------------------------------------
(* What does not depend on the transitions.                                *)

(* A stack with the same states, or fewer, has each once.                  *)
LEMMA SameIndex ==
  ASSUME Indexed, ~Stopped, pc \notin ECDPCs, UNCHANGED <<explored, scc>>,
         NEW n \in Nat, DOMAIN tarjan_stack = 1..n,
         NEW m \in 0..n, DOMAIN tarjan_stack' = 1..m,
         \A i \in 1..m : tarjan_stack'[i].state = tarjan_stack[i].state
  PROVE  Indexed'
<1>1. scc = <<>> /\ scc' = <<>> /\ ToSet(scc') = ToSet(scc)
  BY DEF Indexed, Stopped
<1>2. 1..m \subseteq 1..n
  OBVIOUS
<1>3. \A i, k \in 1..m : tarjan_stack'[i].state = tarjan_stack'[k].state => i = k
  BY <1>2 DEF Indexed
<1>4. \A i \in 1..m : tarjan_stack'[i].state \in explored' \union ToSet(scc')
  BY <1>1, <1>2 DEF Indexed
<1> QED BY <1>1, <1>3, <1>4 DEF Indexed

(* The frames up to one of them wait for each other as before.             *)
LEMMA ChainKept ==
  ASSUME Chained, NEW L \in Nat, NEW M \in 1..L,
         DOMAIN dfs_stack = 1..L, Len(dfs_stack) = L, dfs_stack # <<>>,
         DOMAIN dfs_stack' = 1..M, Len(dfs_stack') = M,
         \A j \in 1..(M - 1) : dfs_stack'[j] = dfs_stack[j],
         dfs_stack'[M].state = dfs_stack[M].state,
         dfs_stack'[M].stackidx = dfs_stack[M].stackidx
  PROVE  Chained'
<1>1. dfs_stack'[1].stackidx = 1
  <2>1. dfs_stack[1].stackidx = 1
    BY DEF Chained
  <2>2. CASE M = 1
    BY <2>1, <2>2
  <2>3. CASE M # 1
    <3>1. 1 \in 1..(M - 1)
      BY <2>3
    <3> QED BY <2>1, <3>1
  <2> QED BY <2>2, <2>3
<1>2. ASSUME NEW j \in 1..M, j < M
      PROVE  /\ Exploring(dfs_stack'[j])
             /\ dfs_stack'[j].successor = dfs_stack'[j + 1].state
             /\ dfs_stack'[j].successor \in
                  NonSource(dfs_stack'[j].state, dfs_stack'[j].action)
  <2>1. j \in 1..(M - 1) /\ j \in 1..L /\ j < L
    BY <1>2
  <2>2. j + 1 \in 1..(M - 1) \/ j + 1 = M
    BY <1>2
  <2>3. dfs_stack'[j] = dfs_stack[j] /\ dfs_stack'[j + 1].state = dfs_stack[j + 1].state
    BY <2>1, <2>2
  <2>4. /\ Exploring(dfs_stack[j])
        /\ dfs_stack[j].successor = dfs_stack[j + 1].state
        /\ dfs_stack[j].successor \in
             NonSource(dfs_stack[j].state, dfs_stack[j].action)
    BY <2>1 DEF Chained
  <2> QED BY <2>3, <2>4
<1> QED BY <1>1, <1>2 DEF Chained, Exploring

-----------------------------------------------------------------------------
(* Steps that change the frame on top only.                                *)

(* A step of the frame on top: the parts about control and the rest.       *)
LEMMA TopStepRest ==
  ASSUME IInv, pc \in {"transition", "successor"},
         pc' \in {"transition", "successor"},
         NEW f \in ExplorationInfos, f.state = Top.state,
         f.stackidx = Top.stackidx, StackPart',
         dfs_stack' = WithTop(dfs_stack, f),
         tarjan_stack' \in Seq(StackInfos),
         Len(tarjan_stack') = Len(tarjan_stack),
         \A i \in 1..Len(tarjan_stack) :
           tarjan_stack'[i].state = tarjan_stack[i].state,
         pc' = "successor" => Exploring(f),
         pc' = "transition" => SccSuccessors(f.q_value) = {},
         UNCHANGED <<initial_state, explored, value, ecd_vars, analysis_vars,
                     sweep>>
  PROVE  IInv'
<1>1. /\ ValuesOK /\ StacksOK /\ StackPart /\ FramesOK /\ ControlOK /\ Indexed
      /\ SecondSearchOK /\ Chained
  BY DEF IInv, StackPart, ControlOK
<1>2. ~Stopped /\ ~Stopped' /\ pc \notin ECDPCs /\ pc' \notin ECDPCs
      /\ pc' \notin {"collect", "demote"} /\ pc # "solve" /\ pc' # "solve"
      /\ pc' \in PCs /\ pc' \notin AnalysisPCs /\ pc' \notin SweepPCs
  BY DEF Stopped, ECDPCs, PCs, AnalysisPCs, SweepPCs
<1>3. dfs_stack # <<>>
  BY <1>1, <1>2 DEF ControlOK
<1>5. /\ dfs_stack' \in Seq(ExplorationInfos) /\ dfs_stack' # <<>>
      /\ Len(dfs_stack') = Len(dfs_stack) /\ Top' = f
      /\ \A j \in 1..Len(dfs_stack) :
           dfs_stack'[j] = IF j = Len(dfs_stack) THEN f ELSE dfs_stack[j]
  <2> DEFINE g == WithTop(dfs_stack, f)
  <2>1. dfs_stack \in Seq(ExplorationInfos) /\ f \in ExplorationInfos
    BY <1>1 DEF StacksOK
  <2>2. /\ g \in Seq(ExplorationInfos) /\ g # <<>> /\ Len(g) = Len(dfs_stack)
        /\ Last(g) = f
        /\ \A j \in 1..Len(dfs_stack) :
             g[j] = IF j = Len(dfs_stack) THEN f ELSE dfs_stack[j]
    BY ONLY <1>3, <2>1, WithTopFacts
  <2>3. dfs_stack' = g
    OBVIOUS
  <2> HIDE DEF g
  <2> QED BY <2>2, <2>3 DEF Top
<1>6. /\ Top = dfs_stack[Len(dfs_stack)] /\ Len(dfs_stack) \in Nat \ {0}
      /\ DOMAIN dfs_stack = 1..Len(dfs_stack)
      /\ DOMAIN tarjan_stack = 1..Len(tarjan_stack) /\ Len(tarjan_stack) \in Nat
  BY <1>1, <1>3, TopFacts
<1>7. DOMAIN dfs_stack' = 1..Len(dfs_stack)
  BY <1>5
<1>8. Chained'
  <2> DEFINE L == Len(dfs_stack)
  <2>1. L \in Nat /\ L \in 1..L /\ \A j \in 1..(L - 1) : j \in 1..L /\ j # L
    <3>1. L \in Nat \ {0}
      BY <1>6
    <3> HIDE DEF L
    <3> QED BY <3>1
  <2>2. /\ \A j \in 1..(L - 1) : dfs_stack'[j] = dfs_stack[j]
        /\ dfs_stack'[L] = f
    BY <1>5, <2>1
  <2>3. /\ dfs_stack'[L].state = dfs_stack[L].state
        /\ dfs_stack'[L].stackidx = dfs_stack[L].stackidx
    BY <1>6, <2>2
  <2>4. Chained /\ DOMAIN dfs_stack = 1..L /\ Len(dfs_stack) = L
        /\ DOMAIN dfs_stack' = 1..L /\ Len(dfs_stack') = L /\ dfs_stack # <<>>
    BY <1>1, <1>3, <1>5, <1>6, <1>7
  <2> HIDE DEF L
  <2> QED BY ONLY <2>1, <2>2, <2>3, <2>4, ChainKept
<1>9. Indexed'
  <2> DEFINE n == Len(tarjan_stack)
  <2>1. /\ n \in Nat /\ n \in 0..n
        /\ DOMAIN tarjan_stack = 1..n /\ DOMAIN tarjan_stack' = 1..n
        /\ UNCHANGED <<explored, scc>>
        /\ \A i \in 1..n : tarjan_stack'[i].state = tarjan_stack[i].state
    BY <1>6 DEF ecd_vars
  <2> HIDE DEF n
  <2> QED BY ONLY <1>1, <1>2, <2>1, SameIndex
<1>10. ControlOK'
  <2>1. /\ pc' = "successor" => Exploring(Top)'
        /\ pc' = "transition" => SccSuccessors(Top.q_value)' = {}
    BY <1>5 DEF Exploring, SccSuccessors
  <2>2. pc' # "solve" /\ dfs_stack' # <<>> /\ Chained' /\ pc' \notin ECDPCs
        /\ pc' \notin AnalysisPCs /\ pc' \notin SweepPCs
    BY <1>2, <1>5, <1>8
  <2> QED BY ONLY <2>1, <2>2 DEF ControlOK, ECDPCs, AnalysisPCs
<1>11. SecondSearchOK' /\ AnalysisOK'
  BY <1>1, <1>2, OtherPhases DEF Stopped
<1>12. ValuesOK' /\ StacksOK'
  BY <1>1, <1>2, <1>5 DEF ValuesOK, StacksOK, ecd_vars
<1> QED BY <1>9, <1>10, <1>11, <1>12 DEF IInv, StackPart

(* A step of the frame on top that keeps the stacks in order keeps the     *)
(* invariant.                                                              *)
LEMMA TopStep ==
  ASSUME IInv, pc \in {"transition", "successor"},
         pc' \in {"transition", "successor"},
         NEW f \in ExplorationInfos, f.state = Top.state,
         f.stackidx = Top.stackidx, f.lowlink = Top.lowlink,
         f.aops \subseteq Top.aops,
         SccSuccessors(f.q_value) = SccSuccessors(Top.q_value),
         dfs_stack' = WithTop(dfs_stack, f),
         pc' = "successor" => Exploring(f),
         pc' = "transition" => SccSuccessors(f.q_value) = {},
         UNCHANGED <<initial_state, explored, value, tarjan_stack, ecd_vars,
                     analysis_vars, sweep>>
  PROVE  IInv'
<1>1. /\ ValuesOK /\ StacksOK /\ StackPart /\ FramesOK /\ ControlOK /\ Indexed
      /\ SecondSearchOK /\ Chained
  BY DEF IInv, StackPart, ControlOK
<1>2. ~Stopped /\ ~Stopped' /\ pc \notin ECDPCs /\ pc' \notin ECDPCs
      /\ pc' \notin {"collect", "demote"} /\ pc # "solve" /\ pc' # "solve"
      /\ pc' \in PCs /\ pc' \notin AnalysisPCs /\ pc' \notin SweepPCs
  BY DEF Stopped, ECDPCs, PCs, AnalysisPCs, SweepPCs
<1>3. dfs_stack # <<>>
  BY <1>1, <1>2 DEF ControlOK
<1>4. StackPart'
  <2>1. UNCHANGED tarjan_stack
    OBVIOUS
  <2> QED BY <1>1, <1>2, <1>3, <2>1, TopReplacedKeeps
<1>5. /\ tarjan_stack' \in Seq(StackInfos)
      /\ Len(tarjan_stack') = Len(tarjan_stack)
      /\ \A i \in 1..Len(tarjan_stack) :
           tarjan_stack'[i].state = tarjan_stack[i].state
  BY <1>1 DEF StacksOK
<1> QED BY <1>4, <1>5, TopStepRest

(* forward_non_loop_transition.                                            *)
LEMMA BeginTransitionStep == ASSUME IInv, BeginTransition PROVE IInv'
<1>1. /\ ValuesOK /\ StacksOK /\ FramesOK /\ ControlOK
  BY DEF IInv
<1>2. /\ pc = "transition" /\ pc' = "successor"
      /\ UNCHANGED <<initial_state, explored, value, tarjan_stack, ecd_vars,
                     analysis_vars, sweep>>
  BY DEF BeginTransition
<1>3. PICK a \in Top.aops : dfs_stack' = WithTop(dfs_stack,
         [Top EXCEPT !.aops = @ \ {a},
                     !.action = a,
                     !.successors = NonSource(Top.state, a),
                     !.has_all_zero = @ /\ ActionCost[a] = 0,
                     !.q_value = QValueInfo(Denominator * ActionCost[a],
                                            NonSourceWeight[Top.state][a])])
  BY DEF BeginTransition
<1> DEFINE q == QValueInfo(Denominator * ActionCost[a], NonSourceWeight[Top.state][a])
           z == Top.has_all_zero /\ ActionCost[a] = 0
           f == [Top EXCEPT !.aops = Top.aops \ {a}, !.action = a,
                            !.successors = NonSource(Top.state, a),
                            !.has_all_zero = z, !.q_value = q]
<1>4. dfs_stack # <<>> /\ SccSuccessors(Top.q_value) = {}
  BY <1>1, <1>2 DEF ControlOK, Stopped
<1>5. /\ Top \in ExplorationInfos /\ Top.state \in State
      /\ Top.aops \subseteq TransitionTails(Top.state)
  <2>1. Top \in ExplorationInfos /\ Top = dfs_stack[Len(dfs_stack)]
        /\ Len(dfs_stack) \in DOMAIN dfs_stack
    BY <1>1, <1>4, TopFacts
  <2> QED BY <1>1, <2>1, FrameParts DEF FramesOK
<1>6. a \in TransitionTails(Top.state) /\ a \in Action
  BY <1>5, TailsInAction
<1>7. q \in QValueInfos /\ SccSuccessors(q) = {}
  <2>1. Denominator * ActionCost[a] \in Int
    BY <1>6, ConstantTypes
  <2>2. NonSourceWeight[Top.state][a] \in Nat \ {0}
    BY <1>5, <1>6, WeightsType
  <2> QED BY <2>1, <2>2, NewQValueInfo
<1>8. NonSource(Top.state, a) \subseteq State /\ z \in BOOLEAN
  <2>1. a \in Applicable(Top.state)
    BY <1>6 DEF TransitionTails
  <2> QED BY <1>5, <2>1, MDPAssumption DEF NonSource
<1>9. dfs_stack' = WithTop(dfs_stack, f)
  BY <1>3
<1> HIDE DEF q, z
<1>10. /\ f \in ExplorationInfos /\ f.state = Top.state
       /\ f.stackidx = Top.stackidx /\ f.lowlink = Top.lowlink
       /\ f.aops \subseteq Top.aops /\ f.q_value = q /\ f.action = a
       /\ f.successors = NonSource(Top.state, a)
  BY <1>5, <1>6, <1>7, <1>8 DEF ExplorationInfos
<1> HIDE DEF f
<1>11. Exploring(f) /\ SccSuccessors(f.q_value) = SccSuccessors(Top.q_value)
  BY <1>4, <1>6, <1>7, <1>10 DEF Exploring
<1> QED BY <1>2, <1>9, <1>10, <1>11, TopStep
-----------------------------------------------------------------------------
(* Parent links.                                                           *)

NewLink(p) == [parent_idx |-> p, parent_transition_idx |-> FlagCount(p) + 1]

(* Only the parent links of one entry change, by one more at the end.      *)
LEMMA LinkedFacts ==
  ASSUME tarjan_stack \in Seq(StackInfos), NEW n \in Nat, n = Len(tarjan_stack),
         NEW c \in 1..n, NEW p \in 1..n,
         NEW T, T = Linked(tarjan_stack, c, p)
  PROVE  /\ T \in Seq(StackInfos) /\ Len(T) = n
         /\ \A i \in 1..n :
              /\ T[i].state = tarjan_stack[i].state
              /\ T[i].non_ec_transitions = tarjan_stack[i].non_ec_transitions
              /\ T[i].ec_transitions = tarjan_stack[i].ec_transitions
              /\ T[i].transition_flags = tarjan_stack[i].transition_flags
              /\ T[i].active_transitions = tarjan_stack[i].active_transitions
              /\ T[i].active_exit_transitions =
                   tarjan_stack[i].active_exit_transitions
              /\ Transitions(T[i]) = Transitions(tarjan_stack[i])
         /\ \A k \in 1..n : \A m \in DOMAIN T[k].parents :
              \/ /\ m \in DOMAIN tarjan_stack[k].parents
                 /\ T[k].parents[m] = tarjan_stack[k].parents[m]
              \/ k = c /\ T[k].parents[m] = NewLink(p)
<1> DEFINE e == tarjan_stack[c]
           x == NewLink(p)
           ps == Append(e.parents, x)
           g == [e EXCEPT !.parents = ps]
<1>1. \A i \in 1..n : tarjan_stack[i] \in StackInfos
  OBVIOUS
<1>2. e \in StackInfos /\ e.parents \in Seq(ParentInfos)
  BY <1>1, EntryParts
<1>3. x \in ParentInfos
  <2>1. tarjan_stack[p].transition_flags \in Seq(Flags)
    BY <1>1, EntryParts
  <2>2. Len(tarjan_stack[p].transition_flags) \in Nat
    BY <2>1
  <2> QED BY <2>2 DEF NewLink, ParentInfos, FlagCount
<1>4. T = [tarjan_stack EXCEPT ![c] = g]
  BY DEF Linked, NewLink, FlagCount
<1> HIDE DEF e, x
<1>5. /\ ps \in Seq(ParentInfos)
      /\ \A m \in DOMAIN ps : \/ m \in DOMAIN e.parents /\ ps[m] = e.parents[m]
                              \/ ps[m] = x
  <2> DEFINE old == e.parents
  <2>1. old \in Seq(ParentInfos)
    BY <1>2
  <2> HIDE DEF old
  <2>2. /\ Append(old, x) \in Seq(ParentInfos)
        /\ \A m \in DOMAIN Append(old, x) :
             \/ m \in DOMAIN old /\ Append(old, x)[m] = old[m]
             \/ Append(old, x)[m] = x
    BY <1>3, <2>1
  <2> QED BY <2>2 DEF old
<1> HIDE DEF ps
<1>6. /\ g \in StackInfos /\ g.parents = ps /\ g.state = e.state
      /\ g.non_ec_transitions = e.non_ec_transitions
      /\ g.ec_transitions = e.ec_transitions
      /\ g.transition_flags = e.transition_flags
      /\ g.active_transitions = e.active_transitions
      /\ g.active_exit_transitions = e.active_exit_transitions
  BY <1>2, <1>5 DEF StackInfos
<1> HIDE DEF g
<1>7. /\ T \in Seq(StackInfos) /\ Len(T) = n
      /\ \A i \in 1..n : T[i] = IF i = c THEN g ELSE tarjan_stack[i]
  <2>1. c \in DOMAIN tarjan_stack
    OBVIOUS
  <2> QED BY <1>4, <1>6, <2>1, ReplacedFacts
<1>8. \A i \in 1..n :
        /\ T[i].state = tarjan_stack[i].state
        /\ T[i].non_ec_transitions = tarjan_stack[i].non_ec_transitions
        /\ T[i].ec_transitions = tarjan_stack[i].ec_transitions
        /\ T[i].transition_flags = tarjan_stack[i].transition_flags
        /\ T[i].active_transitions = tarjan_stack[i].active_transitions
        /\ T[i].active_exit_transitions =
             tarjan_stack[i].active_exit_transitions
  BY <1>6, <1>7 DEF e
<1>9. ASSUME NEW k \in 1..n, NEW m \in DOMAIN T[k].parents
      PROVE  \/ /\ m \in DOMAIN tarjan_stack[k].parents
                /\ T[k].parents[m] = tarjan_stack[k].parents[m]
             \/ k = c /\ T[k].parents[m] = NewLink(p)
  <2>1. CASE k = c
    <3>1. T[k].parents = ps
      BY <2>1, <1>6, <1>7
    <3> QED BY <2>1, <3>1, <1>5, <1>9 DEF e, x
  <2>2. CASE k # c
    BY <2>2, <1>7, <1>9
  <2> QED BY <2>1, <2>2
<1> QED BY <1>7, <1>8, <1>9 DEF Transitions

(* The entry c becomes a successor in the current transition of the frame  *)
(* that is on top.                                                         *)
LEMMA LinkAdded ==
  ASSUME StackPart, ~Stopped, tarjan_stack \in Seq(StackInfos),
         NEW n \in Nat, n = Len(tarjan_stack),
         NEW L \in Nat, DOMAIN dfs_stack = 1..L,
         NEW M \in 1..L, DOMAIN dfs_stack' = 1..M, FramesOK',
         \A i, k \in 1..n : Near(i, k) => Near(i, k)',
         \A j \in 1..(M - 1) : dfs_stack'[j] = dfs_stack[j],
         \A j \in 1..L : SccSuccessors(dfs_stack[j].q_value) \subseteq State,
         NEW c \in 1..n, NEW p \in 1..n,
         dfs_stack[M].stackidx = p, dfs_stack'[M].stackidx = p,
         dfs_stack'[M].lowlink \in Nat, dfs_stack'[M].lowlink <= c,
         SccSuccessors(dfs_stack'[M].q_value) =
           SccSuccessors(dfs_stack[M].q_value) \union {tarjan_stack[c].state},
         \A j \in (M + 1)..L : SccSuccessors(dfs_stack[j].q_value) = {},
         tarjan_stack' = Linked(tarjan_stack, c, p)
  PROVE  StackPart' /\ tarjan_stack' \in Seq(StackInfos)
<1> DEFINE T == tarjan_stack'
<1>1. /\ T \in Seq(StackInfos) /\ Len(T) = n
      /\ \A i \in 1..n :
           /\ T[i].state = tarjan_stack[i].state
           /\ T[i].transition_flags = tarjan_stack[i].transition_flags
           /\ T[i].active_transitions = tarjan_stack[i].active_transitions
           /\ T[i].active_exit_transitions =
                tarjan_stack[i].active_exit_transitions
           /\ Transitions(T[i]) = Transitions(tarjan_stack[i])
      /\ \A k \in 1..n : \A m \in DOMAIN T[k].parents :
           \/ /\ m \in DOMAIN tarjan_stack[k].parents
              /\ T[k].parents[m] = tarjan_stack[k].parents[m]
           \/ k = c /\ T[k].parents[m] = NewLink(p)
  BY LinkedFacts
<1>2. DOMAIN tarjan_stack = 1..n /\ DOMAIN T = 1..n
  BY <1>1
<1> HIDE DEF T
<1>3. \A i \in 1..n : \A t : IsNear(i, t) => IsNear(i, t)'
  <2> SUFFICES ASSUME NEW i \in 1..n, NEW t, IsNear(i, t) PROVE IsNear(i, t)'
    OBVIOUS
  <2>1. PICK k \in 1..n : tarjan_stack[k].state = t /\ Near(i, k)
    BY <1>2 DEF IsNear
  <2>2. Near(i, k)' /\ tarjan_stack'[k].state = t
    BY <1>1, <2>1 DEF T
  <2> QED BY <1>2, <2>2 DEF IsNear, T
<1>4. Near(p, c)'
  <2>1. M \in Nat \ {0} /\ c \in Nat
    OBVIOUS
  <2>2. /\ \A j \in 1..M : dfs_stack'[j].stackidx \in Nat
        /\ \A j, k \in 1..M :
             j < k => dfs_stack'[j].stackidx < dfs_stack'[k].stackidx
    <3>1. FramesOK' /\ DOMAIN dfs_stack' = 1..M /\ DOMAIN tarjan_stack' = 1..n
      BY <1>2 DEF T
    <3>2. \A j \in 1..M : dfs_stack'[j].stackidx \in 1..n
      BY ONLY <3>1 DEF FramesOK
    <3>3. \A j, k \in 1..M :
             j < k => dfs_stack'[j].stackidx < dfs_stack'[k].stackidx
      BY ONLY <3>1 DEF FramesOK
    <3> QED BY <3>2, <3>3
  <2>a. M \in 1..M
    BY <2>1
  <2>3. \A j \in 1..M : ~(p < dfs_stack'[j].stackidx)
    <3> TAKE j \in 1..M
    <3>1. j = M \/ j < M
      BY <2>1
    <3> QED BY <2>a, <2>2, <3>1
  <2>4. ASSUME NEW j \in 1..M, \A m \in 1..M : m > j => p < dfs_stack'[m].stackidx
        PROVE  j = M
    <3>1. ~(M > j)
      BY <2>a, <2>3, <2>4
    <3> QED BY <2>1, <3>1
  <2> QED BY <2>3, <2>4 DEF Near
<1>5. IsNear(p, tarjan_stack[c].state)'
  <2>1. T[c].state = tarjan_stack[c].state /\ c \in 1..n
    BY <1>1
  <2> QED BY <1>2, <1>4, <2>1 DEF IsNear, T
<1>6. SuccessorsOK'
  <2>1. ASSUME NEW i \in 1..n, NEW q \in Transitions(T[i])
        PROVE  SccSuccessors(q) # {} /\ \A t \in SccSuccessors(q) : IsNear(i, t)'
    BY <1>1, <1>2, <1>3, <2>1 DEF StackPart, SuccessorsOK
  <2>2. ASSUME NEW j \in 1..M, NEW t \in SccSuccessors(dfs_stack'[j].q_value),
               NEW i, i = dfs_stack'[j].stackidx
        PROVE  IsNear(i, t)'
    <3>0. j \in 1..L /\ (j = M \/ j \in 1..(M - 1))
      OBVIOUS
    <3>1. CASE t \in SccSuccessors(dfs_stack[j].q_value) /\ i = dfs_stack[j].stackidx
      <4>1. IsNear(i, t)
        BY <3>0, <3>1 DEF StackPart, SuccessorsOK
      <4>2. i \in 1..n
        BY <3>0, <3>1, <1>2 DEF StackPart, FramesOK
      <4> QED BY <1>3, <4>1, <4>2
    <3>2. CASE j = M /\ t = tarjan_stack[c].state
      <4>1. t = T[c].state
        BY <3>2, <1>1
      <4> QED BY <3>2, <4>1, <2>2, <1>5 DEF T
    <3> QED BY <3>0, <3>1, <3>2, <2>2
  <2>3. SuccessorsOK'
    BY <1>2, <2>1, <2>2 DEF SuccessorsOK, SccSuccessors, Transitions, T
  <2> QED BY <2>3
<1>7. ASSUME NEW x, x.parent_idx \in 1..n, IsRecorded(x) \/ IsUnderWay(x)
      PROVE  IsRecorded(x)' \/ IsUnderWay(x)'
  <2>1. FlagCount(x.parent_idx)' = FlagCount(x.parent_idx)
    BY <1>1, <1>7 DEF FlagCount, T
  <2>2. CASE IsRecorded(x)
    BY <2>1, <2>2 DEF IsRecorded
  <2>3. CASE IsUnderWay(x)
    <3>1. PICK j \in 1..L : /\ dfs_stack[j].stackidx = x.parent_idx
                            /\ SccSuccessors(dfs_stack[j].q_value) # {}
      BY <2>3 DEF IsUnderWay
    <3>2. j \in 1..M /\ (j = M \/ j \in 1..(M - 1))
      <4>1. j \notin (M + 1)..L
        BY <3>1
      <4> QED BY <4>1
    <3>3. /\ dfs_stack'[j].stackidx = x.parent_idx
          /\ SccSuccessors(dfs_stack'[j].q_value) # {}
      BY <3>1, <3>2
    <3> QED BY <2>1, <2>3, <3>2, <3>3 DEF IsUnderWay, SccSuccessors
  <2> QED BY <1>7, <2>2, <2>3
<1>8. IsUnderWay(NewLink(p))'
  <2>1. FlagCount(p)' = FlagCount(p)
    BY <1>1 DEF FlagCount, T
  <2>2. /\ M \in 1..M /\ dfs_stack'[M].stackidx = p
        /\ SccSuccessors(dfs_stack'[M].q_value) # {}
    OBVIOUS
  <2>3. /\ NewLink(p).parent_idx = p
        /\ NewLink(p).parent_transition_idx = FlagCount(p) + 1
    BY DEF NewLink
  <2>4. NewLink(p)' = NewLink(p)
    BY <2>1 DEF NewLink
  <2> QED BY <2>1, <2>2, <2>3, <2>4 DEF IsUnderWay, SccSuccessors
<1>9. LinksOK'
  <2>1. ASSUME NEW k \in 1..n, NEW m \in DOMAIN T[k].parents,
               NEW x, x = T[k].parents[m]
        PROVE  /\ x.parent_idx \in 1..n /\ Near(x.parent_idx, k)'
               /\ IsRecorded(x)' \/ IsUnderWay(x)'
    <3>1. CASE m \in DOMAIN tarjan_stack[k].parents /\ x = tarjan_stack[k].parents[m]
      <4>1. /\ x.parent_idx \in 1..n /\ Near(x.parent_idx, k)
            /\ IsRecorded(x) \/ IsUnderWay(x)
        BY <3>1, <1>2 DEF StackPart, LinksOK
      <4> QED BY <4>1, <1>7
    <3>2. CASE k = c /\ x = NewLink(p)
      <4>1. x.parent_idx = p
        BY <3>2 DEF NewLink
      <4>2. NewLink(p)' = x
        <5>1. FlagCount(p)' = FlagCount(p)
          BY <1>1 DEF FlagCount, T
        <5> QED BY <3>2, <5>1 DEF NewLink
      <4> QED BY <3>2, <4>1, <4>2, <1>4, <1>8
    <3> QED BY <2>1, <3>1, <3>2, <1>1
  <2> QED BY <1>2, <2>1 DEF LinksOK, T
<1>10. CountersOK'
  <2>1. \A i \in 1..n : /\ ActiveFlags(T[i]) = ActiveFlags(tarjan_stack[i])
                        /\ ExitFlags(T[i]) = ExitFlags(tarjan_stack[i])
    BY <1>1 DEF ActiveFlags, ExitFlags
  <2>2. \A i \in 1..n :
          LET e == T[i]
              base == e.active_transitions - Cardinality(ActiveFlags(e))
          IN  /\ ExitFlags(e) \subseteq ActiveFlags(e)
              /\ base >= 0
              /\ e.active_exit_transitions = base + Cardinality(ExitFlags(e))
    BY <1>1, <1>2, <2>1 DEF StackPart, CountersOK
  <2> QED BY <1>2, <2>2 DEF CountersOK, ActiveFlags, ExitFlags, T
<1> QED BY <1>1, <1>6, <1>9, <1>10 DEF StackPart, T
-----------------------------------------------------------------------------
(* The entry of a state that is on the stack.                              *)
LEMMA StackIdFacts ==
  ASSUME NEW t, OnStack(t)
  PROVE  StackId(t) \in DOMAIN tarjan_stack /\ tarjan_stack[StackId(t)].state = t
BY DEF OnStack, StackId

(* The frame on top, about to take t from its successors.                  *)
TakenSuccessor(f, t) == [f EXCEPT !.successors = @ \ {t}, !.successor = t]

(* A frame that takes its next successor.                                  *)
LEMMA SuccessorTaken ==
  ASSUME NEW f \in ExplorationInfos, Exploring(f), NEW t \in f.successors
  PROVE  LET g == TakenSuccessor(f, t)
         IN  /\ g \in ExplorationInfos /\ t \in State
             /\ t \in NonSource(f.state, f.action)
             /\ g.state = f.state /\ g.stackidx = f.stackidx
             /\ g.lowlink = f.lowlink /\ g.q_value = f.q_value
             /\ g.aops = f.aops /\ g.action = f.action /\ g.successor = t
             /\ g.exit_interval = f.exit_interval /\ Exploring(g)
<1> DEFINE g == TakenSuccessor(f, t)
<1>1. t \in State /\ t \in NonSource(f.state, f.action)
  BY FrameParts DEF Exploring
<1>2. g \in ExplorationInfos
  BY <1>1, FrameParts DEF ExplorationInfos, TakenSuccessor
<1>3. /\ g.state = f.state /\ g.stackidx = f.stackidx
      /\ g.lowlink = f.lowlink /\ g.q_value = f.q_value
      /\ g.aops = f.aops /\ g.action = f.action /\ g.successor = t
      /\ g.exit_interval = f.exit_interval
      /\ g.successors = f.successors \ {t}
  BY DEF ExplorationInfos, TakenSuccessor
<1> HIDE DEF g
<1>4. Exploring(g)
  BY <1>3 DEF Exploring
<1> QED BY <1>1, <1>2, <1>3, <1>4 DEF g

(* successor_loop, a successor that is closed or on the stack.             *)
LEMMA KnownSuccessorStep == ASSUME IInv, KnownSuccessor PROVE IInv'
<1>1. /\ ValuesOK /\ StacksOK /\ StackPart /\ FramesOK /\ ControlOK
      /\ tarjan_stack \in Seq(StackInfos)
  BY DEF IInv, StackPart, StacksOK
<1>2. /\ pc = "successor" /\ pc' = "successor"
      /\ UNCHANGED <<initial_state, explored, value, ecd_vars, analysis_vars,
                     sweep>>
  BY DEF KnownSuccessor
<1>3. PICK t \in Top.successors \intersect explored :
        LET f == [Top EXCEPT !.successors = @ \ {t}, !.successor = t]
        IN  \/ /\ ~OnStack(t)
               /\ dfs_stack' = WithTop(dfs_stack, AddClosed(f, t, value[t]))
               /\ UNCHANGED tarjan_stack
            \/ /\ OnStack(t)
               /\ dfs_stack' = WithTop(dfs_stack,
                    [AddOpen(f, t) EXCEPT !.lowlink = Min({@, StackId(t)})])
               /\ tarjan_stack' = Linked(tarjan_stack, StackId(t), f.stackidx)
  BY DEF KnownSuccessor
<1> DEFINE f == TakenSuccessor(Top, t)
<1>4. ~Stopped /\ dfs_stack # <<>> /\ Exploring(Top)
  BY <1>1, <1>2 DEF ControlOK, Stopped
<1>5. /\ Top \in ExplorationInfos /\ Top = dfs_stack[Len(dfs_stack)]
      /\ Len(dfs_stack) \in Nat \ {0} /\ DOMAIN dfs_stack = 1..Len(dfs_stack)
      /\ DOMAIN tarjan_stack = 1..Len(tarjan_stack) /\ Len(tarjan_stack) \in Nat
      /\ Top.stackidx \in 1..Len(tarjan_stack) /\ Top.lowlink \in 1..Top.stackidx
      /\ \A j \in 1..Len(dfs_stack) : dfs_stack[j] \in ExplorationInfos
  BY <1>1, <1>4, TopFacts
<1>6. /\ f \in ExplorationInfos /\ t \in State
      /\ t \in NonSource(f.state, f.action)
      /\ f.state = Top.state /\ f.stackidx = Top.stackidx
      /\ f.lowlink = Top.lowlink /\ f.q_value = Top.q_value
      /\ f.aops = Top.aops /\ Exploring(f)
  <2>1. t \in Top.successors
    OBVIOUS
  <2>2. /\ f \in ExplorationInfos /\ t \in State
        /\ t \in NonSource(Top.state, Top.action)
        /\ f.state = Top.state /\ f.stackidx = Top.stackidx
        /\ f.lowlink = Top.lowlink /\ f.q_value = Top.q_value
        /\ f.aops = Top.aops /\ f.action = Top.action /\ Exploring(f)
    <3>2. Top \in ExplorationInfos /\ Exploring(Top) /\ t \in Top.successors
      BY <1>4, <1>5
    <3> QED BY ONLY <3>2, SuccessorTaken
  <2> HIDE DEF f
  <2> QED BY <2>2
<1>7. \/ /\ ~OnStack(t)
         /\ dfs_stack' = WithTop(dfs_stack, AddClosed(f, t, value[t]))
         /\ UNCHANGED tarjan_stack
      \/ /\ OnStack(t)
         /\ dfs_stack' = WithTop(dfs_stack,
              [AddOpen(f, t) EXCEPT !.lowlink = Min({@, StackId(t)})])
         /\ tarjan_stack' = Linked(tarjan_stack, StackId(t), f.stackidx)
  BY <1>3 DEF TakenSuccessor
<1> HIDE DEF f
<1>8. CASE /\ ~OnStack(t)
           /\ dfs_stack' = WithTop(dfs_stack, AddClosed(f, t, value[t]))
           /\ UNCHANGED tarjan_stack
  <2> DEFINE g == AddClosed(f, t, value[t])
  <2>1. value[t] \in Int
    BY <1>1, <1>6 DEF ValuesOK
  <2>2. /\ g \in ExplorationInfos /\ SameTransition(f, g)
        /\ g.lowlink = f.lowlink
        /\ SccSuccessors(g.q_value) = SccSuccessors(f.q_value)
    BY <1>6, <2>1, AddClosedFacts
  <2>3. dfs_stack' = WithTop(dfs_stack, g)
    BY <1>8
  <2> HIDE DEF g
  <2>4. g.state = Top.state /\ g.stackidx = Top.stackidx
        /\ g.aops \subseteq Top.aops /\ Exploring(g) /\ g.lowlink = Top.lowlink
        /\ SccSuccessors(g.q_value) = SccSuccessors(Top.q_value)
    BY <1>6, <2>2, ExploringKept DEF SameTransition
  <2>5. /\ pc \in {"transition", "successor"} /\ pc' \in {"transition", "successor"}
        /\ pc' # "transition"
        /\ UNCHANGED <<initial_state, explored, value, tarjan_stack, ecd_vars,
                       analysis_vars, sweep>>
    BY <1>2, <1>8
  <2> QED BY <2>2, <2>3, <2>4, <2>5, TopStep
<1>9. CASE /\ OnStack(t)
           /\ dfs_stack' = WithTop(dfs_stack,
                [AddOpen(f, t) EXCEPT !.lowlink = Min({@, StackId(t)})])
           /\ tarjan_stack' = Linked(tarjan_stack, StackId(t), f.stackidx)
  <2> DEFINE c == StackId(t)
             h == AddOpen(f, t)
             low == Min({h.lowlink, c})
             g == [h EXCEPT !.lowlink = low]
             p == Top.stackidx
             n == Len(tarjan_stack)
             L == Len(dfs_stack)
  <2>1. c \in 1..n /\ tarjan_stack[c].state = t
    BY <1>5, <1>9, StackIdFacts
  <2>2. /\ h \in ExplorationInfos /\ SameTransition(f, h)
        /\ h.lowlink = f.lowlink
        /\ SccSuccessors(h.q_value) = SccSuccessors(f.q_value) \union {t}
    BY <1>6, AddOpenFacts
  <2>3. dfs_stack' = WithTop(dfs_stack, g) /\ tarjan_stack' = Linked(tarjan_stack, c, p)
    BY <1>6, <1>9
  <2>4. n \in Nat /\ n = Len(tarjan_stack) /\ L \in Nat \ {0} /\ L = Len(dfs_stack)
        /\ p \in 1..n /\ p = Top.stackidx /\ DOMAIN dfs_stack = 1..L
        /\ Top = dfs_stack[L] /\ L \in 1..L
    <3>1. L \in Nat \ {0} /\ n \in Nat /\ p \in 1..n
      BY <1>5
    <3> HIDE DEF L, n, p
    <3> QED BY <3>1, <1>5 DEF L, n, p
  <2> HIDE DEF c, h, p, n, L
  <2>5. low \in 1..Top.lowlink /\ low <= c
    <3>1. h.lowlink = Top.lowlink
      BY <1>6, <2>2
    <3>2. Top.lowlink \in Int /\ Top.lowlink >= 1 /\ c \in Int /\ c >= 1
      BY <1>5, <2>1, <2>4
    <3>3. low \in {Top.lowlink, c} /\ low <= Top.lowlink /\ low <= c
      BY <3>1, <3>2, OneOfTwo
    <3> QED BY <3>2, <3>3
  <2> HIDE DEF low
  <2>6. /\ g \in ExplorationInfos /\ SameTransition(h, g)
        /\ g.lowlink = low /\ g.q_value = h.q_value
    <3>1. low \in Nat \ {0}
      BY <1>5, <2>5
    <3> QED BY <2>2, <3>1 DEF ExplorationInfos, SameTransition
  <2> HIDE DEF g
  <2>7. g.state = Top.state /\ g.stackidx = Top.stackidx
        /\ g.aops \subseteq Top.aops /\ Exploring(g)
        /\ g.lowlink \in 1..Top.lowlink
        /\ SccSuccessors(g.q_value) = SccSuccessors(Top.q_value) \union {t}
    BY <1>6, <2>2, <2>5, <2>6, ExploringKept DEF SameTransition
  <2>8. /\ tarjan_stack' \in Seq(StackInfos) /\ Len(tarjan_stack') = n
        /\ \A i \in 1..n : tarjan_stack'[i].state = tarjan_stack[i].state
    BY <1>1, <2>1, <2>3, <2>4, LinkedFacts
  <2>9. /\ dfs_stack' \in Seq(ExplorationInfos)
        /\ Len(dfs_stack') = L
        /\ \A j \in 1..L : dfs_stack'[j] = IF j = L THEN g ELSE dfs_stack[j]
        /\ FramesOK'
        /\ \A i, k \in Nat : Near(i, k) => Near(i, k)'
    BY <1>1, <1>4, <2>3, <2>4, <2>6, <2>7, <2>8, TopReplaced
  <2>10. DOMAIN dfs_stack' = 1..L /\ dfs_stack'[L] = g
         /\ \A j \in 1..(L - 1) : dfs_stack'[j] = dfs_stack[j]
    BY <2>4, <2>9
  <2>11. \A i, k \in 1..n : Near(i, k) => Near(i, k)'
    BY <2>4, <2>9
  <2>12. \A j \in 1..L : SccSuccessors(dfs_stack[j].q_value) \subseteq State
    BY <1>5, <2>4, FrameParts, QValueInfoParts
  <2>13. /\ dfs_stack[L].stackidx = p /\ dfs_stack'[L].stackidx = p
         /\ dfs_stack'[L].lowlink \in Nat /\ dfs_stack'[L].lowlink <= c
         /\ SccSuccessors(dfs_stack'[L].q_value) =
              SccSuccessors(dfs_stack[L].q_value) \union {tarjan_stack[c].state}
    BY <2>1, <2>4, <2>5, <2>6, <2>7, <2>10
  <2>14. (L + 1)..L = {} /\ L \in Nat
    BY <2>4
  <2>15. StackPart'
    BY ONLY <1>1, <1>4, <2>1, <2>3, <2>4, <2>9, <2>10, <2>11, <2>12, <2>13, <2>14,
            LinkAdded
  <2>16. /\ pc \in {"transition", "successor"} /\ pc' \in {"transition", "successor"}
         /\ pc' # "transition"
         /\ UNCHANGED <<initial_state, explored, value, ecd_vars,
                        analysis_vars, sweep>>
    BY <1>2
  <2> QED BY <2>3, <2>4, <2>6, <2>7, <2>8, <2>15, <2>16, TopStepRest
<1> QED BY <1>7, <1>8, <1>9
-----------------------------------------------------------------------------
(* A transition that was explored.                                         *)

(* The transition of the frame on top is over, and recorded in its entry if*)
(* some of its successors are open.                                        *)
LEMMA TopClosed ==
  ASSUME StackPart, ~Stopped, StacksOK, dfs_stack # <<>>,
         NEW g \in ExplorationInfos, g.state = Top.state,
         g.stackidx = Top.stackidx, g.lowlink = Top.lowlink,
         g.aops \subseteq Top.aops, SccSuccessors(g.q_value) = {},
         dfs_stack' = WithTop(dfs_stack, g),
         NEW n \in Nat, n = Len(tarjan_stack),
         NEW p \in 1..n, p = Top.stackidx,
         tarjan_stack' \in Seq(StackInfos), Len(tarjan_stack') = n,
         \A i \in 1..n : /\ tarjan_stack'[i].state = tarjan_stack[i].state
                         /\ tarjan_stack'[i].parents = tarjan_stack[i].parents
                         /\ i # p => tarjan_stack'[i] = tarjan_stack[i],
         \A q \in Transitions(tarjan_stack'[p]) :
           /\ SccSuccessors(q) # {}
           /\ \A t \in SccSuccessors(q) : t \in State /\ IsNear(p, t),
         FlagCount(p)' \in Nat, FlagCount(p) \in Nat,
         FlagCount(p)' >= FlagCount(p),
         SccSuccessors(Top.q_value) # {} => FlagCount(p)' >= FlagCount(p) + 1
  PROVE  FramesOK' /\ SuccessorsOK' /\ LinksOK'
<1> DEFINE L == Len(dfs_stack)
<1>0. FramesOK /\ SuccessorsOK /\ LinksOK
  BY DEF StackPart
<1>1. /\ Top = dfs_stack[L] /\ L \in Nat \ {0}
      /\ DOMAIN dfs_stack = 1..L /\ DOMAIN tarjan_stack = 1..n
      /\ Top.lowlink \in 1..Top.stackidx
      /\ \A j \in 1..L : dfs_stack[j] \in ExplorationInfos
  BY <1>0, TopFacts
<1>2. /\ dfs_stack' \in Seq(ExplorationInfos) /\ Len(dfs_stack') = L
      /\ \A j \in 1..L : dfs_stack'[j] = IF j = L THEN g ELSE dfs_stack[j]
      /\ FramesOK'
      /\ \A i, k \in Nat : Near(i, k) => Near(i, k)'
      /\ \A i \in Nat, t \in State : IsNear(i, t) => IsNear(i, t)'
  <2>1. g.lowlink \in 1..Top.lowlink
    BY <1>1
  <2>2. /\ Len(tarjan_stack') = Len(tarjan_stack)
        /\ \A i \in 1..Len(tarjan_stack) :
             tarjan_stack'[i].state = tarjan_stack[i].state
    OBVIOUS
  <2>3. /\ g \in ExplorationInfos /\ g.state = Top.state
        /\ g.stackidx = Top.stackidx /\ g.aops \subseteq Top.aops
        /\ dfs_stack' = WithTop(dfs_stack, g) /\ tarjan_stack' \in Seq(StackInfos)
        /\ StacksOK /\ dfs_stack # <<>>
    OBVIOUS
  <2> QED BY ONLY <1>0, <2>1, <2>2, <2>3, TopReplaced
<1>3. DOMAIN dfs_stack' = 1..L /\ DOMAIN tarjan_stack' = 1..n
  BY <1>2
<1> HIDE DEF L
<1>4. L \in 1..L
  BY <1>1
<1>5. \A j \in 1..L : /\ dfs_stack'[j].stackidx = dfs_stack[j].stackidx
                      /\ dfs_stack[j].stackidx \in 1..n
                      /\ dfs_stack[j].stackidx = p => j = L
  <2> TAKE j \in 1..L
  <2>1. dfs_stack'[j].stackidx = dfs_stack[j].stackidx
    BY <1>1, <1>2
  <2>2. dfs_stack[j].stackidx \in 1..n
    BY <1>0, <1>1 DEF FramesOK
  <2>3. ASSUME j # L PROVE dfs_stack[j].stackidx < dfs_stack[L].stackidx
    <3>1. j < L
      BY <1>1, <2>3
    <3> QED BY <3>1, <1>0, <1>1, <1>4 DEF FramesOK
  <2> QED BY <2>1, <2>2, <2>3, <1>1
<1>6. SuccessorsOK'
  <2>1. ASSUME NEW i \in 1..n, NEW q \in Transitions(tarjan_stack'[i])
        PROVE  SccSuccessors(q) # {} /\ \A t \in SccSuccessors(q) : IsNear(i, t)'
    <3>1. CASE i = p
      <4>1. \A t \in SccSuccessors(q) : t \in State /\ IsNear(i, t)
        BY <3>1, <2>1
      <4> QED BY <3>1, <4>1, <2>1, <1>2
    <3>2. CASE i # p
      <4>1. q \in Transitions(tarjan_stack[i])
        BY <3>2, <2>1
      <4>2. SccSuccessors(q) # {} /\ \A t \in SccSuccessors(q) : IsNear(i, t)
        BY <4>1, <1>0, <1>1 DEF SuccessorsOK
      <4>3. SccSuccessors(q) \subseteq State
        <5>1. tarjan_stack[i] \in StackInfos
          BY <1>1 DEF StacksOK
        <5>2. q \in QValueInfos
          BY <4>1, <5>1, EntryParts DEF Transitions, TransitionSets
        <5> QED BY <5>2, QValueInfoParts
      <4> QED BY <4>2, <4>3, <1>2
    <3> QED BY <3>1, <3>2
  <2>2. ASSUME NEW j \in 1..L, NEW t \in SccSuccessors(dfs_stack'[j].q_value),
               NEW i, i = dfs_stack'[j].stackidx
        PROVE  IsNear(i, t)'
    <3>1. j # L
      BY <2>2, <1>2
    <3>2. dfs_stack'[j] = dfs_stack[j]
      BY <3>1, <1>2
    <3>3. IsNear(i, t) /\ t \in State /\ i \in Nat
      <4>1. dfs_stack[j].q_value \in QValueInfos
        BY <1>1, FrameParts
      <4>2. t \in SccSuccessors(dfs_stack[j].q_value) /\ i = dfs_stack[j].stackidx
        BY <2>2, <3>2
      <4>3. t \in State
        BY <4>1, <4>2, QValueInfoParts
      <4>4. IsNear(i, t)
        BY <4>2, <1>0, <1>1 DEF SuccessorsOK
      <4> QED BY <4>2, <4>3, <4>4, <1>5
    <3> QED BY <3>3, <1>2
  <2> QED BY <1>3, <2>1, <2>2 DEF SuccessorsOK, SccSuccessors, Transitions
<1>7. ASSUME NEW x, x \in ParentInfos, x.parent_idx \in 1..n,
             IsRecorded(x) \/ IsUnderWay(x)
      PROVE  IsRecorded(x)' \/ IsUnderWay(x)'
  <2>0. x.parent_transition_idx \in Nat
    BY <1>7 DEF ParentInfos
  <2>1. CASE x.parent_idx = p /\ IsRecorded(x)
    BY <2>0, <2>1 DEF IsRecorded
  <2>2. CASE x.parent_idx = p /\ IsUnderWay(x)
    <3>1. PICK j \in 1..L : /\ dfs_stack[j].stackidx = x.parent_idx
                            /\ SccSuccessors(dfs_stack[j].q_value) # {}
      BY <2>2, <1>1 DEF IsUnderWay
    <3>2. SccSuccessors(Top.q_value) # {}
      BY <3>1, <2>2, <1>1, <1>5
    <3>3. IsRecorded(x)'
      BY <2>0, <3>2, <2>2 DEF IsRecorded, IsUnderWay
    <3> QED BY <3>3
  <2>3. CASE x.parent_idx # p
    <3>1. FlagCount(x.parent_idx)' = FlagCount(x.parent_idx)
      BY <2>3, <1>7 DEF FlagCount
    <3>2. CASE IsRecorded(x)
      BY <3>1, <3>2 DEF IsRecorded
    <3>3. CASE IsUnderWay(x)
      <4>1. PICK j \in 1..L : /\ dfs_stack[j].stackidx = x.parent_idx
                              /\ SccSuccessors(dfs_stack[j].q_value) # {}
        BY <3>3, <1>1 DEF IsUnderWay
      <4>2. j # L
        BY <4>1, <2>3, <1>1
      <4>3. dfs_stack'[j] = dfs_stack[j]
        BY <4>2, <1>2
      <4> QED BY <3>1, <3>3, <4>1, <4>3, <1>3 DEF IsUnderWay, SccSuccessors
    <3> QED BY <1>7, <3>2, <3>3
  <2> QED BY <1>7, <2>1, <2>2, <2>3
<1>8. LinksOK'
  <2>1. ASSUME NEW k \in 1..n, NEW m \in DOMAIN tarjan_stack[k].parents,
               NEW x, x = tarjan_stack[k].parents[m]
        PROVE  /\ x.parent_idx \in 1..n /\ Near(x.parent_idx, k)'
               /\ IsRecorded(x)' \/ IsUnderWay(x)'
    <3>1. /\ x.parent_idx \in 1..n /\ Near(x.parent_idx, k)
          /\ IsRecorded(x) \/ IsUnderWay(x)
      BY <2>1, <1>0, <1>1 DEF LinksOK
    <3>2. x \in ParentInfos
      <4>1. tarjan_stack[k] \in StackInfos
        BY <1>1 DEF StacksOK
      <4>2. tarjan_stack[k].parents \in Seq(ParentInfos)
        BY <4>1, EntryParts
      <4> QED BY <2>1, <4>2
    <3> QED BY <3>1, <3>2, <1>2, <1>7
  <2> QED BY <1>3, <2>1 DEF LinksOK
<1> QED BY <1>2, <1>6, <1>8

-----------------------------------------------------------------------------
(* Counters.                                                               *)

CounterOK(e) ==
  LET base == e.active_transitions - Cardinality(ActiveFlags(e))
  IN  /\ ExitFlags(e) \subseteq ActiveFlags(e)
      /\ base >= 0
      /\ e.active_exit_transitions = base + Cardinality(ExitFlags(e))

(* The sets of active flags are finite sets of indices.                    *)
LEMMA FlagSets ==
  ASSUME NEW e \in StackInfos
  PROVE  /\ IsFiniteSet(ActiveFlags(e)) /\ IsFiniteSet(ExitFlags(e))
         /\ Cardinality(ActiveFlags(e)) \in Nat
         /\ Cardinality(ExitFlags(e)) \in Nat
         /\ ActiveFlags(e) \subseteq 1..Len(e.transition_flags)
         /\ ExitFlags(e) \subseteq 1..Len(e.transition_flags)
         /\ Len(e.transition_flags) \in Nat
         /\ DOMAIN e.transition_flags = 1..Len(e.transition_flags)
<1>1. e.transition_flags \in Seq(Flags)
  BY EntryParts
<1>2. /\ Len(e.transition_flags) \in Nat
      /\ DOMAIN e.transition_flags = 1..Len(e.transition_flags)
  BY <1>1
<1>3. IsFiniteSet(1..Len(e.transition_flags))
  BY <1>2, FS_Interval
<1>4. /\ ActiveFlags(e) \subseteq 1..Len(e.transition_flags)
      /\ ExitFlags(e) \subseteq 1..Len(e.transition_flags)
  BY <1>2 DEF ActiveFlags, ExitFlags
<1> QED BY <1>2, <1>3, <1>4, FS_Subset, FS_CardinalityType

(* One more transition.                                                    *)
LEMMA FlagAppended ==
  ASSUME NEW e \in StackInfos, CounterOK(e),
         NEW exits \in BOOLEAN, NEW active \in BOOLEAN, exits => active,
         NEW d \in StackInfos,
         d.transition_flags = Append(e.transition_flags,
             [is_active_exiting |-> exits, is_active |-> active]),
         d.active_transitions =
           IF active THEN e.active_transitions + 1 ELSE e.active_transitions,
         d.active_exit_transitions =
           IF exits THEN e.active_exit_transitions + 1
           ELSE e.active_exit_transitions
  PROVE  CounterOK(d) /\ Len(d.transition_flags) = Len(e.transition_flags) + 1
<1> DEFINE F == e.transition_flags
           G == d.transition_flags
           m == Len(F) + 1
<1>1. /\ IsFiniteSet(ActiveFlags(e)) /\ IsFiniteSet(ExitFlags(e))
      /\ Cardinality(ActiveFlags(e)) \in Nat
      /\ Cardinality(ExitFlags(e)) \in Nat
      /\ ActiveFlags(e) \subseteq 1..Len(F) /\ ExitFlags(e) \subseteq 1..Len(F)
      /\ Len(F) \in Nat
  BY FlagSets
<1>2. F \in Seq(Flags)
  BY EntryParts
<1>3. /\ DOMAIN G = 1..m /\ DOMAIN F = 1..Len(F) /\ Len(G) = m
      /\ G[m] = [is_active_exiting |-> exits, is_active |-> active]
      /\ \A i \in 1..Len(F) : G[i] = F[i]
  <2> DEFINE x == [is_active_exiting |-> exits, is_active |-> active]
  <2>1. G = Append(F, x)
    OBVIOUS
  <2> HIDE DEF F, G, x
  <2>2. Len(G) = Len(F) + 1 /\ G[Len(F) + 1] = x /\ DOMAIN G = 1..(Len(F) + 1)
        /\ DOMAIN F = 1..Len(F) /\ \A i \in 1..Len(F) : G[i] = F[i]
    BY <1>2, <2>1
  <2> QED BY <2>2 DEF x
<1>4. G[m].is_active = active /\ G[m].is_active_exiting = exits
  BY <1>3
<1> HIDE DEF F, G
<1>5. m \notin 1..Len(F) /\ m \in 1..m /\ \A i \in 1..m : i \in 1..Len(F) \/ i = m
  BY <1>1
<1>a. \A i \in 1..Len(F) : i \in 1..m
  BY <1>1
<1> HIDE DEF m
<1>6. ActiveFlags(d) = IF active THEN ActiveFlags(e) \union {m} ELSE ActiveFlags(e)
  BY <1>3, <1>4, <1>5, <1>a DEF ActiveFlags, F, G
<1>7. ExitFlags(d) = IF exits THEN ExitFlags(e) \union {m} ELSE ExitFlags(e)
  BY <1>3, <1>4, <1>5, <1>a DEF ExitFlags, F, G
<1>8. m \notin ActiveFlags(e) /\ m \notin ExitFlags(e)
  BY <1>1, <1>5
<1>9. /\ Cardinality(ActiveFlags(e) \union {m}) = Cardinality(ActiveFlags(e)) + 1
      /\ Cardinality(ExitFlags(e) \union {m}) = Cardinality(ExitFlags(e)) + 1
  BY <1>1, <1>8, FS_AddElement
<1>10. e.active_transitions \in Int /\ e.active_exit_transitions \in Int
  BY EntryParts
<1> DEFINE ca == Cardinality(ActiveFlags(e))
           ce == Cardinality(ExitFlags(e))
           da == Cardinality(ActiveFlags(d))
           de == Cardinality(ExitFlags(d))
<1>11. /\ da = IF active THEN ca + 1 ELSE ca
       /\ de = IF exits THEN ce + 1 ELSE ce
       /\ ca \in Nat /\ ce \in Nat
  BY <1>1, <1>6, <1>7, <1>9
<1>12. /\ e.active_transitions - ca >= 0
       /\ e.active_exit_transitions = e.active_transitions - ca + ce
       /\ ExitFlags(e) \subseteq ActiveFlags(e)
  BY DEF CounterOK
<1>13. ExitFlags(d) \subseteq ActiveFlags(d)
  BY <1>6, <1>7, <1>12
<1> HIDE DEF ca, ce, da, de
<1>14. /\ d.active_transitions - da >= 0
       /\ d.active_exit_transitions = d.active_transitions - da + de
  <2>1. CASE ~active
    BY <2>1, <1>10, <1>11, <1>12
  <2>2. CASE active /\ exits
    BY <2>2, <1>10, <1>11, <1>12
  <2>3. CASE active /\ ~exits
    BY <2>3, <1>10, <1>11, <1>12
  <2> QED BY <2>1, <2>2, <2>3
<1>15. CounterOK(d)
  BY <1>13, <1>14 DEF CounterOK, da, de
<1> QED BY <1>3, <1>15 DEF F, G, m

(* One transition is a finite set of them.                                 *)
LEMMA SingletonTransition ==
  ASSUME NEW q \in QValueInfos PROVE {q} \in TransitionSets
BY FS_Singleton DEF TransitionSets

(* The entry whose last transition is recorded.                            *)
LEMMA RecordFacts ==
  ASSUME NEW e \in StackInfos, CounterOK(e), NEW q \in QValueInfos,
         NEW leaves \in BOOLEAN
  PROVE  LET d == RecordTransition(e, q, leaves)
         IN  /\ d \in StackInfos /\ CounterOK(d)
             /\ Len(d.transition_flags) = Len(e.transition_flags) + 1
             /\ d.state = e.state /\ d.parents = e.parents
             /\ \A r \in Transitions(d) : \E u \in Transitions(e) \union {q} :
                  SccSuccessors(r) = SccSuccessors(u)
<1> DEFINE exits == IsActiveExit(q, leaves)
           active == q.conv_part # Infinite
           x == [is_active_exiting |-> exits, is_active |-> active]
           fl == Append(e.transition_flags, x)
           ec == IF IsCandidate(q, leaves) THEN e.ec_transitions \union {q}
                 ELSE e.ec_transitions
           nec == IF IsCandidate(q, leaves) THEN e.non_ec_transitions
                  ELSE MergedTransitions(e.non_ec_transitions, {q})
           ae == IF exits THEN e.active_exit_transitions + 1
                 ELSE e.active_exit_transitions
           at == IF active THEN e.active_transitions + 1
                 ELSE e.active_transitions
           d == [e EXCEPT !.active_exit_transitions = ae,
                          !.active_transitions = at, !.transition_flags = fl,
                          !.ec_transitions = ec, !.non_ec_transitions = nec]
<1>1. RecordTransition(e, q, leaves) = d
  BY DEF RecordTransition
<1>2. exits \in BOOLEAN /\ active \in BOOLEAN /\ (exits => active)
  BY DEF IsActiveExit
<1>3. /\ e.non_ec_transitions \in TransitionSets
      /\ e.ec_transitions \in TransitionSets /\ {q} \in TransitionSets
      /\ e.active_exit_transitions \in Int /\ e.active_transitions \in Int
      /\ e.transition_flags \in Seq(Flags)
  BY EntryParts, SingletonTransition
<1>4. /\ nec \in TransitionSets
      /\ \A r \in nec : \E u \in e.non_ec_transitions \union {q} :
           SccSuccessors(r) = SccSuccessors(u)
  BY <1>3, MergedFacts
<1>5. ec \in TransitionSets /\ ec \subseteq e.ec_transitions \union {q}
  <2>1. e.ec_transitions \union {q} \in TransitionSets
    BY <1>3, FS_Union DEF TransitionSets
  <2> QED BY <1>3, <2>1
<1>6. fl \in Seq(Flags)
  <2>1. x \in Flags
    BY <1>2 DEF Flags
  <2> HIDE DEF x
  <2> QED BY <1>3, <2>1
<1>7. ae \in Int /\ at \in Int
  BY <1>3
<1> HIDE DEF exits, active
<1>8. at = IF active THEN e.active_transitions + 1 ELSE e.active_transitions
  OBVIOUS
<1>9. ae = IF exits THEN e.active_exit_transitions + 1 ELSE e.active_exit_transitions
  OBVIOUS
<1>10. fl = Append(e.transition_flags, x)
  OBVIOUS
<1> HIDE DEF ec, nec, ae, at, fl
<1>11. /\ d \in StackInfos /\ d.state = e.state /\ d.parents = e.parents
       /\ d.active_exit_transitions = ae /\ d.active_transitions = at
       /\ d.transition_flags = fl /\ d.ec_transitions = ec
       /\ d.non_ec_transitions = nec
  BY <1>4, <1>5, <1>6, <1>7 DEF StackInfos
<1> HIDE DEF d
<1>12. CounterOK(d) /\ Len(d.transition_flags) = Len(e.transition_flags) + 1
  BY <1>2, <1>8, <1>9, <1>10, <1>11, FlagAppended
<1>13. \A r \in Transitions(d) : \E u \in Transitions(e) \union {q} :
         SccSuccessors(r) = SccSuccessors(u)
  BY <1>4, <1>5, <1>11 DEF Transitions
<1> QED BY <1>1, <1>11, <1>12, <1>13

(* next_successor: the transition is merged or recorded.                   *)
LEMMA EndTransitionStep == ASSUME IInv, EndTransition PROVE IInv'
<1>1. /\ ValuesOK /\ StacksOK /\ StackPart /\ FramesOK /\ ControlOK
      /\ SuccessorsOK /\ CountersOK
      /\ tarjan_stack \in Seq(StackInfos)
  BY DEF IInv, StackPart, StacksOK
<1>p. PICK p : p = Top.stackidx
  OBVIOUS
<1>n. PICK n : n = Len(tarjan_stack)
  OBVIOUS
<1> DEFINE q == Top.q_value
           e == tarjan_stack[p]
           leaves == SccSuccessors(q) # NonSource(Top.state, Top.action)
           d == IF SccSuccessors(q) = {} THEN MergeTransition(e, q)
                ELSE RecordTransition(e, q, leaves)
           g == [Top EXCEPT !.q_value = QValueInfo(0, 1), !.action = NoAction]
<1>2. /\ pc = "successor" /\ pc' = "transition"
      /\ dfs_stack' = WithTop(dfs_stack, g)
      /\ tarjan_stack' = [tarjan_stack EXCEPT ![p] = d]
      /\ UNCHANGED <<initial_state, explored, value, ecd_vars, analysis_vars,
                     sweep>>
  <2>1. tarjan_stack' = [tarjan_stack EXCEPT ![Top.stackidx] =
           IF SccSuccessors(q) = {} THEN MergeTransition(@, q)
           ELSE RecordTransition(@, q,
                  SccSuccessors(q) # NonSource(Top.state, Top.action))]
    BY DEF EndTransition
  <2>2. tarjan_stack' = [tarjan_stack EXCEPT ![p] = d]
    BY <2>1, <1>p
  <2>3. /\ pc = "successor" /\ pc' = "transition"
        /\ dfs_stack' = WithTop(dfs_stack, g)
    BY DEF EndTransition
  <2>4. UNCHANGED <<initial_state, explored, value, ecd_vars, analysis_vars,
                     sweep>>
    BY DEF EndTransition
  <2> QED BY <2>2, <2>3, <2>4
<1>3. ~Stopped /\ dfs_stack # <<>>
  BY <1>1, <1>2 DEF ControlOK, Stopped
<1>4. /\ Top \in ExplorationInfos /\ Top = dfs_stack[Len(dfs_stack)]
      /\ Len(dfs_stack) \in DOMAIN dfs_stack
      /\ n \in Nat /\ p \in 1..n /\ DOMAIN tarjan_stack = 1..n /\ e \in StackInfos
  BY <1>1, <1>3, <1>p, <1>n, TopFacts
<1>5. q \in QValueInfos /\ q.conv_part \in Int /\ q.norm \in Nat \ {0}
  BY <1>4, FrameParts, QValueInfoParts
<1>6. CounterOK(e)
  BY <1>1, <1>4 DEF CountersOK, CounterOK
<1>7. /\ g \in ExplorationInfos /\ g.state = Top.state
      /\ g.stackidx = Top.stackidx /\ g.lowlink = Top.lowlink
      /\ g.aops = Top.aops /\ SccSuccessors(g.q_value) = {}
  <2> DEFINE r == QValueInfo(0, 1)
  <2>1. r \in QValueInfos /\ SccSuccessors(r) = {}
    BY NewQValueInfo
  <2> HIDE DEF r, q, e
  <2>2. /\ g \in ExplorationInfos /\ g.state = Top.state
        /\ g.stackidx = Top.stackidx /\ g.lowlink = Top.lowlink
        /\ g.aops = Top.aops /\ g.q_value = r
    BY <1>4, <2>1 DEF ExplorationInfos, r
  <2> HIDE DEF g
  <2> QED BY <2>1, <2>2
<1> HIDE DEF g, q
<1>8. /\ d \in StackInfos /\ CounterOK(d)
      /\ Len(d.transition_flags) \in Nat /\ Len(e.transition_flags) \in Nat
      /\ Len(d.transition_flags) >= Len(e.transition_flags)
      /\ SccSuccessors(q) # {} =>
           Len(d.transition_flags) >= Len(e.transition_flags) + 1
      /\ d.state = e.state /\ d.parents = e.parents
      /\ \A r \in Transitions(d) :
           \/ r \in Transitions(e)
           \/ /\ SccSuccessors(q) # {}
              /\ \E u \in Transitions(e) \union {q} :
                   SccSuccessors(r) = SccSuccessors(u)
  <2> HIDE DEF e
  <2>0. Len(e.transition_flags) \in Nat
    BY <1>4, FlagSets
  <2>1. CASE SccSuccessors(q) = {}
    <3> DEFINE more == IF q.conv_part = Infinite THEN 0 ELSE 1
               cv == Min({e.conv_part, DividedUp(q.conv_part, q.norm)})
               ae == e.active_exit_transitions + more
               at == e.active_transitions + more
               c == [e EXCEPT !.conv_part = cv, !.active_exit_transitions = ae,
                              !.active_transitions = at]
    <3>1. e.conv_part \in Int /\ e.active_exit_transitions \in Int
          /\ e.active_transitions \in Int
      BY <1>4, EntryParts
    <3>2. cv \in Int
      <4>1. DividedUp(q.conv_part, q.norm) \in Int
        BY <1>5, DividedUpType
      <4> QED BY <3>1, <4>1, OneOfTwo
    <3>3. ae \in Int /\ at \in Int /\ ae - e.active_exit_transitions \in {0, 1}
          /\ at - e.active_transitions = ae - e.active_exit_transitions
      BY <3>1
    <3> HIDE DEF cv, ae, at
    <3>4. /\ c \in StackInfos /\ c.state = e.state /\ c.parents = e.parents
          /\ c.transition_flags = e.transition_flags
          /\ c.non_ec_transitions = e.non_ec_transitions
          /\ c.ec_transitions = e.ec_transitions
          /\ c.active_exit_transitions = ae /\ c.active_transitions = at
      BY <1>4, <3>2, <3>3 DEF StackInfos
    <3>5. d = c
      BY <2>1 DEF MergeTransition, cv, ae, at
    <3> HIDE DEF c, d
    <3>6. ActiveFlags(c) = ActiveFlags(e) /\ ExitFlags(c) = ExitFlags(e)
      BY <3>4 DEF ActiveFlags, ExitFlags
    <3>7. CounterOK(c)
      <4>1. Cardinality(ActiveFlags(e)) \in Nat /\ Cardinality(ExitFlags(e)) \in Nat
        BY <1>4, FlagSets
      <4> DEFINE ca == Cardinality(ActiveFlags(e))
                 ce == Cardinality(ExitFlags(e))
      <4>2. /\ e.active_transitions - ca >= 0
            /\ e.active_exit_transitions = e.active_transitions - ca + ce
            /\ ExitFlags(e) \subseteq ActiveFlags(e)
        BY <1>6 DEF CounterOK
      <4>3. ca \in Nat /\ ce \in Nat
        BY <4>1
      <4> HIDE DEF ca, ce
      <4>4. at - ca >= 0 /\ ae = at - ca + ce
        BY <3>1, <3>3, <4>2, <4>3
      <4> QED BY <3>4, <3>6, <4>2, <4>4 DEF CounterOK, ca, ce
    <3>8. Transitions(c) = Transitions(e)
      BY <3>4 DEF Transitions
    <3> QED BY <2>0, <2>1, <3>4, <3>5, <3>7, <3>8
  <2>2. CASE SccSuccessors(q) # {}
    <3>1. d = RecordTransition(e, q, leaves) /\ leaves \in BOOLEAN
      BY <2>2
    <3> HIDE DEF d, leaves
    <3>2. /\ d \in StackInfos /\ CounterOK(d)
          /\ Len(d.transition_flags) = Len(e.transition_flags) + 1
          /\ d.state = e.state /\ d.parents = e.parents
          /\ \A r \in Transitions(d) : \E u \in Transitions(e) \union {q} :
               SccSuccessors(r) = SccSuccessors(u)
      BY <1>4, <1>5, <1>6, <3>1, RecordFacts
    <3> QED BY <2>0, <2>2, <3>2
  <2> QED BY <2>1, <2>2
<1> HIDE DEF d
<1>9. /\ tarjan_stack' \in Seq(StackInfos) /\ Len(tarjan_stack') = n
      /\ \A i \in 1..n : tarjan_stack'[i] = IF i = p THEN d ELSE tarjan_stack[i]
  BY <1>1, <1>2, <1>4, <1>8, <1>n, ReplacedFacts
<1>10. /\ \A i \in 1..n : /\ tarjan_stack'[i].state = tarjan_stack[i].state
                          /\ tarjan_stack'[i].parents = tarjan_stack[i].parents
                          /\ i # p => tarjan_stack'[i] = tarjan_stack[i]
       /\ tarjan_stack'[p] = d
  BY <1>4, <1>8, <1>9
<1>11. ASSUME NEW r \in Transitions(d)
       PROVE  /\ SccSuccessors(r) # {}
              /\ \A t \in SccSuccessors(r) : t \in State /\ IsNear(p, t)
  <2>1. ASSUME NEW u \in Transitions(e)
        PROVE  SccSuccessors(u) # {} /\ \A t \in SccSuccessors(u) : IsNear(p, t)
    BY <1>1, <1>3, <1>4 DEF SuccessorsOK
  <2>2. \A t \in SccSuccessors(q) : IsNear(p, t)
    BY <1>1, <1>3, <1>4, <1>p DEF SuccessorsOK, q
  <2>3. r \in QValueInfos
    BY <1>8, EntryParts DEF Transitions, TransitionSets
  <2>4. SccSuccessors(r) \subseteq State
    BY <2>3, QValueInfoParts
  <2> QED BY <1>8, <2>1, <2>2, <2>4
<1>12. /\ FlagCount(p) = Len(e.transition_flags)
       /\ FlagCount(p)' = Len(d.transition_flags)
  <2>2. \A k : FlagCount(k)' = Len(tarjan_stack'[k].transition_flags)
    BY DEF FlagCount
  <2> QED BY <1>10, <2>2 DEF FlagCount
<1>13. FramesOK' /\ SuccessorsOK' /\ LinksOK'
  <2>1. /\ n = Len(tarjan_stack) /\ p = Top.stackidx
        /\ n \in Nat /\ p \in 1..n
    BY <1>4, <1>n, <1>p
  <2>2. g.aops \subseteq Top.aops
    BY <1>7
  <2>3. dfs_stack' = WithTop(dfs_stack, g)
    BY <1>2
  <2>4. /\ FlagCount(p) \in Nat
        /\ SccSuccessors(Top.q_value) # {} => Len(d.transition_flags) >= FlagCount(p) + 1
        /\ Len(d.transition_flags) >= FlagCount(p) /\ Len(d.transition_flags) \in Nat
    BY <1>8, <1>12 DEF q
  <2>5. /\ FlagCount(p)' \in Nat /\ FlagCount(p)' >= FlagCount(p)
        /\ SccSuccessors(Top.q_value) # {} => FlagCount(p)' >= FlagCount(p) + 1
    BY <1>12, <2>4
  <2>6. \A r \in Transitions(tarjan_stack'[p]) :
           /\ SccSuccessors(r) # {}
           /\ \A t \in SccSuccessors(r) : t \in State /\ IsNear(p, t)
    BY <1>10, <1>11
  <2> HIDE DEF d, e
  <2> QED BY ONLY <1>1, <1>3, <1>7, <1>9, <1>10, <2>1, <2>2, <2>3, <2>4, <2>5, <2>6,
            TopClosed
<1>14. CountersOK'
  <2>1. \A i \in 1..n : CounterOK(tarjan_stack'[i])
    BY <1>1, <1>4, <1>8, <1>9 DEF CountersOK, CounterOK
  <2>2. DOMAIN tarjan_stack' = 1..n
    BY <1>9
  <2> QED BY <2>1, <2>2 DEF CountersOK, CounterOK, ActiveFlags, ExitFlags
<1>15. StackPart'
  BY <1>13, <1>14 DEF StackPart
<1>16. /\ pc \in {"transition", "successor"} /\ pc' \in {"transition", "successor"}
       /\ pc' # "successor"
       /\ Len(tarjan_stack') = Len(tarjan_stack)
       /\ \A i \in 1..Len(tarjan_stack) :
            tarjan_stack'[i].state = tarjan_stack[i].state
  BY <1>2, <1>9, <1>10, <1>n
<1> QED BY <1>2, <1>7, <1>9, <1>15, <1>16, TopStepRest
-----------------------------------------------------------------------------
(* Returning to the frame below.                                           *)

(* What a return does not depend on: one or more of the frames and entries *)
(* on top are gone.                                                        *)
LEMMA PopRest ==
  ASSUME IInv, pc \in {"transition", "sweep"},
         pc' \in {"successor", "timeout", "done"}, StackPart',
         value' \in [State -> Int],
         NEW L \in Nat, L = Len(dfs_stack), dfs_stack # <<>>,
         NEW n \in Nat, n = Len(tarjan_stack),
         NEW M \in 0..L, dfs_stack' \in Seq(ExplorationInfos), Len(dfs_stack') = M,
         NEW m \in 0..n, tarjan_stack' \in Seq(StackInfos), Len(tarjan_stack') = m,
         \A i \in 1..m : tarjan_stack'[i].state = tarjan_stack[i].state,
         \A j \in 1..(M - 1) : dfs_stack'[j] = dfs_stack[j],
         M # 0 => /\ dfs_stack'[M].state = dfs_stack[M].state
                  /\ dfs_stack'[M].stackidx = dfs_stack[M].stackidx,
         pc' = "successor" => M # 0 /\ Exploring(dfs_stack'[M]),
         UNCHANGED <<initial_state, explored, ecd_vars, analysis_vars, sweep>>
  PROVE  IInv'
<1>1. /\ ValuesOK /\ StacksOK /\ StackPart /\ FramesOK /\ ControlOK /\ Indexed
      /\ SecondSearchOK /\ Chained
  BY DEF IInv, StackPart, ControlOK
<1>2. ~Stopped /\ pc \notin ECDPCs /\ pc' \notin ECDPCs
      /\ pc' \notin {"collect", "demote"} /\ pc' # "solve" /\ pc' # "transition"
      /\ pc' \in PCs /\ pc' \notin AnalysisPCs /\ pc' \notin SweepPCs
      /\ (~Stopped' => pc' = "successor")
  BY DEF Stopped, ECDPCs, PCs, AnalysisPCs, SweepPCs
<1>3. /\ DOMAIN dfs_stack = 1..L /\ DOMAIN tarjan_stack = 1..n
      /\ DOMAIN dfs_stack' = 1..M /\ DOMAIN tarjan_stack' = 1..m
      /\ M \in Nat /\ (M # 0 => M \in 1..L)
      /\ (M = 0 <=> dfs_stack' = <<>>)
  BY <1>1 DEF StacksOK
<1>4. Chained'
  <2>1. CASE M = 0
    BY <2>1, <1>3 DEF Chained
  <2>2. CASE M # 0
    <3>1. /\ M \in 1..L /\ L \in Nat /\ Chained
          /\ DOMAIN dfs_stack = 1..L /\ Len(dfs_stack) = L /\ dfs_stack # <<>>
          /\ DOMAIN dfs_stack' = 1..M /\ Len(dfs_stack') = M
          /\ \A j \in 1..(M - 1) : dfs_stack'[j] = dfs_stack[j]
          /\ dfs_stack'[M].state = dfs_stack[M].state
          /\ dfs_stack'[M].stackidx = dfs_stack[M].stackidx
      BY <2>2, <1>1, <1>3
    <3> QED BY ONLY <3>1, ChainKept
  <2> QED BY <2>1, <2>2
<1>5. Indexed'
  <2>1. UNCHANGED <<explored, scc>>
    BY DEF ecd_vars
  <2> QED BY <1>1, <1>2, <1>3, <2>1, SameIndex
<1>6. ControlOK'
  <2>1. pc' = "successor" => Exploring(Top)' /\ dfs_stack' # <<>>
    BY <1>3 DEF Exploring, Top, Last
  <2> QED BY ONLY <1>2, <1>4, <2>1 DEF ControlOK, ECDPCs, AnalysisPCs
<1>7. SecondSearchOK' /\ AnalysisOK'
  BY <1>1, <1>2, OtherPhases DEF Stopped
<1>8. ValuesOK' /\ StacksOK'
  BY <1>1, <1>2 DEF ValuesOK, StacksOK, ecd_vars
<1> QED BY <1>5, <1>6, <1>7, <1>8 DEF IInv, StackPart

(* Where the search ends there is less to keep.                            *)
LEMMA StoppedPart ==
  ASSUME StackPart, Stopped',
         NEW L \in Nat, DOMAIN dfs_stack = 1..L,
         NEW n \in Nat, DOMAIN tarjan_stack = 1..n,
         NEW M \in 0..L, DOMAIN dfs_stack' = 1..M,
         \A j \in 1..M : dfs_stack'[j] = dfs_stack[j],
         NEW m \in 0..n, DOMAIN tarjan_stack' = 1..m,
         \A j \in 1..M : dfs_stack[j].stackidx \in 1..m,
         \A i \in 1..m :
           /\ tarjan_stack'[i].state = tarjan_stack[i].state
           /\ Transitions(tarjan_stack'[i]) = Transitions(tarjan_stack[i])
           /\ CounterOK(tarjan_stack'[i])
           /\ \A k \in DOMAIN tarjan_stack'[i].parents :
                tarjan_stack'[i].parents[k].parent_idx \in 1..m
  PROVE  StackPart'
<1>0. 1..m \subseteq 1..n /\ 1..M \subseteq 1..L
  OBVIOUS
<1>1. FramesOK'
  <2>1. ASSUME NEW j \in 1..M
        PROVE  /\ dfs_stack'[j].stackidx \in 1..m
               /\ dfs_stack'[j].lowlink \in 1..dfs_stack'[j].stackidx
               /\ dfs_stack'[j].state = tarjan_stack'[dfs_stack'[j].stackidx].state
               /\ dfs_stack'[j].aops \subseteq TransitionTails(dfs_stack'[j].state)
    BY <1>0 DEF StackPart, FramesOK
  <2>2. \A j, k \in 1..M :
          j < k => dfs_stack'[j].stackidx < dfs_stack'[k].stackidx
    BY <1>0 DEF StackPart, FramesOK
  <2> QED BY <2>1, <2>2 DEF FramesOK
<1>2. SuccessorsOK'
  <2>1. ASSUME NEW i \in 1..m, NEW q \in Transitions(tarjan_stack'[i])
        PROVE  SccSuccessors(q) # {}
    BY <1>0 DEF StackPart, SuccessorsOK
  <2> QED BY <2>1 DEF SuccessorsOK, SccSuccessors, Transitions
<1>3. LinksOK'
  BY DEF LinksOK
<1>4. CountersOK'
  BY DEF CountersOK, CounterOK, ActiveFlags, ExitFlags
<1> QED BY <1>1, <1>2, <1>3, <1>4 DEF StackPart

(* The frames when the one on top is popped, and its successor perhaps     *)
(* replaced.                                                               *)
LEMMA PoppedFacts ==
  ASSUME dfs_stack \in Seq(ExplorationInfos), NEW L \in Nat, L = Len(dfs_stack),
         L > 1
  PROVE  /\ Front(dfs_stack) \in Seq(ExplorationInfos)
         /\ Len(Front(dfs_stack)) = L - 1 /\ Front(dfs_stack) # <<>>
         /\ \A j \in 1..(L - 1) : Front(dfs_stack)[j] = dfs_stack[j]
         /\ \A g \in ExplorationInfos :
              /\ WithTop(Front(dfs_stack), g) \in Seq(ExplorationInfos)
              /\ Len(WithTop(Front(dfs_stack), g)) = L - 1
              /\ \A j \in 1..(L - 1) :
                   WithTop(Front(dfs_stack), g)[j] =
                     IF j = L - 1 THEN g ELSE dfs_stack[j]
<1> DEFINE F == Front(dfs_stack)
<1>1. /\ F \in Seq(ExplorationInfos) /\ Len(F) = L - 1 /\ F # <<>>
      /\ \A j \in 1..(L - 1) : F[j] = dfs_stack[j]
  <2>1. dfs_stack # <<>>
    OBVIOUS
  <2> QED BY <2>1, FrontFacts
<1> HIDE DEF F
<1>2. ASSUME NEW g \in ExplorationInfos
      PROVE  /\ WithTop(F, g) \in Seq(ExplorationInfos)
             /\ Len(WithTop(F, g)) = L - 1
             /\ \A j \in 1..(L - 1) :
                  WithTop(F, g)[j] = IF j = L - 1 THEN g ELSE dfs_stack[j]
  <2>1. F \in Seq(ExplorationInfos) /\ F # <<>> /\ g \in ExplorationInfos
    BY <1>1
  <2>2. /\ WithTop(F, g) \in Seq(ExplorationInfos)
        /\ Len(WithTop(F, g)) = Len(F)
        /\ \A i \in 1..Len(F) :
             WithTop(F, g)[i] = IF i = Len(F) THEN g ELSE F[i]
    BY ONLY <2>1, WithTopFacts
  <2>3. Len(F) = L - 1 /\ \A j \in 1..(L - 1) : F[j] = dfs_stack[j]
    BY <1>1
  <2> QED BY ONLY <2>2, <2>3
<1> QED BY <1>1, <1>2 DEF F

(* The frame below takes over the unfinished component of f.               *)
LEMMA JoinedFacts ==
  ASSUME NEW f \in ExplorationInfos, NEW b \in ExplorationInfos, Exploring(b),
         f.state \in NonSource(b.state, b.action)
  PROVE  LET g == JoinedBelow(f, b)
         IN  /\ g \in ExplorationInfos /\ SameTransition(b, g)
             /\ g.lowlink \in {b.lowlink, f.lowlink}
             /\ g.lowlink <= b.lowlink /\ g.lowlink <= f.lowlink
             /\ SccSuccessors(g.q_value) = SccSuccessors(b.q_value) \union {f.state}
<1> DEFINE h == AddOpen(b, f.state)
           low == Min({h.lowlink, f.lowlink})
           int == Hull(h.exit_interval, f.exit_interval)
           zero == h.has_all_zero /\ f.has_all_zero
           g == [h EXCEPT !.lowlink = low, !.exit_interval = int,
                          !.has_all_zero = zero]
<1>1. JoinedBelow(f, b) = g
  BY DEF JoinedBelow
<1>2. /\ h \in ExplorationInfos /\ SameTransition(b, h) /\ h.lowlink = b.lowlink
      /\ SccSuccessors(h.q_value) = SccSuccessors(b.q_value) \union {f.state}
  BY FrameParts, AddOpenFacts
<1> HIDE DEF h
<1>3. /\ low \in {b.lowlink, f.lowlink} /\ low <= b.lowlink /\ low <= f.lowlink
      /\ low \in Nat \ {0}
  <2>1. b.lowlink \in Nat \ {0} /\ f.lowlink \in Nat \ {0}
    BY FrameParts
  <2>2. low \in {b.lowlink, f.lowlink} /\ low <= b.lowlink /\ low <= f.lowlink
    <3>1. h.lowlink = b.lowlink /\ b.lowlink \in Int /\ f.lowlink \in Int
      BY <1>2, <2>1
    <3>2. /\ Min({b.lowlink, f.lowlink}) \in {b.lowlink, f.lowlink}
          /\ Min({b.lowlink, f.lowlink}) <= b.lowlink
          /\ Min({b.lowlink, f.lowlink}) <= f.lowlink
      BY ONLY <3>1, OneOfTwo
    <3>3. low = Min({b.lowlink, f.lowlink})
      BY <3>1
    <3> HIDE DEF low
    <3> QED BY <3>2, <3>3
  <2> QED BY <2>1, <2>2
<1>4. int \in Bounds /\ zero \in BOOLEAN
  BY <1>2, FrameParts, HullType
<1> HIDE DEF low, int, zero
<1>5. /\ g \in ExplorationInfos /\ SameTransition(h, g) /\ g.lowlink = low
      /\ g.q_value = h.q_value
  BY <1>2, <1>3, <1>4 DEF ExplorationInfos, SameTransition
<1> HIDE DEF g
<1>6. SameTransition(b, g)
  BY <1>2, <1>5 DEF SameTransition
<1> QED BY <1>1, <1>2, <1>3, <1>5, <1>6
-----------------------------------------------------------------------------
(* The frame below takes over what the frame on top knew of.               *)
LEMMA NearPopped ==
  ASSUME FramesOK, NEW n \in Nat, DOMAIN tarjan_stack = 1..n,
         NEW L \in Nat, L > 1, DOMAIN dfs_stack = 1..L,
         NEW M, M = L - 1, DOMAIN dfs_stack' = 1..M,
         \A j \in 1..(M - 1) : dfs_stack'[j] = dfs_stack[j],
         dfs_stack'[M].stackidx = dfs_stack[M].stackidx,
         dfs_stack'[M].lowlink \in Nat,
         dfs_stack'[M].lowlink <= dfs_stack[M].lowlink,
         dfs_stack'[M].lowlink <= dfs_stack[L].lowlink
  PROVE  \A i, k \in 1..n : Near(i, k) => Near(i, k)'
<1>0. /\ M \in 1..L /\ L \in 1..L /\ M < L /\ M \in Nat
      /\ \A j \in 1..M : j = M \/ (j < M /\ j \in 1..(M - 1) /\ j \in 1..L)
      /\ \A j \in 1..L : j = L \/ j \in 1..M
  OBVIOUS
<1>1. \A j \in 1..L : /\ dfs_stack[j].stackidx \in 1..n
                      /\ dfs_stack[j].lowlink \in 1..dfs_stack[j].stackidx
  BY DEF FramesOK
<1>2. \A j, k \in 1..L : j < k => dfs_stack[j].stackidx < dfs_stack[k].stackidx
  BY DEF FramesOK
<1>3. \A j \in 1..M : dfs_stack'[j].stackidx = dfs_stack[j].stackidx
  BY <1>0
<1> TAKE i, k \in 1..n
<1> HAVE Near(i, k)
<1>4. ASSUME NEW j \in 1..M, i < dfs_stack'[j].stackidx
      PROVE  k < dfs_stack'[j].stackidx
  BY <1>0, <1>3, <1>4 DEF Near
<1>5. ASSUME NEW j \in 1..M, dfs_stack'[j].stackidx <= i,
             \A m \in 1..M : m > j => i < dfs_stack'[m].stackidx
      PROVE  dfs_stack'[j].lowlink <= k
  <2>1. \A m \in 1..M : m > j => i < dfs_stack[m].stackidx
    BY <1>3, <1>5
  <2>2. dfs_stack[j].stackidx <= i /\ j \in 1..L
    BY <1>0, <1>3, <1>5
  <2>3. CASE j # M
    <3>1. M > j /\ M \in 1..M
      BY <2>3, <1>0
    <3>2. i < dfs_stack[M].stackidx
      BY <2>1, <3>1
    <3>3. i < dfs_stack[L].stackidx
      <4>1. dfs_stack[M].stackidx < dfs_stack[L].stackidx
        BY <1>0, <1>2
      <4> QED BY <3>2, <4>1, <1>0, <1>1
    <3>4. \A m \in 1..L : m > j => i < dfs_stack[m].stackidx
      BY <1>0, <2>1, <3>3
    <3>5. dfs_stack[j].lowlink <= k
      BY <2>2, <3>4 DEF Near
    <3> QED BY <2>3, <3>5, <1>0
  <2>4. CASE j = M /\ i < dfs_stack[L].stackidx
    <3>1. \A m \in 1..L : m > j => m = L
      BY <2>4, <1>0
    <3>2. \A m \in 1..L : m > j => i < dfs_stack[m].stackidx
      BY <2>4, <3>1
    <3>3. dfs_stack[j].lowlink <= k
      BY <2>2, <3>2 DEF Near
    <3>4. dfs_stack[j].lowlink \in Nat
      BY <2>2, <1>1
    <3> QED BY <2>4, <3>3, <3>4
  <2>5. CASE j = M /\ ~(i < dfs_stack[L].stackidx)
    <3>1. dfs_stack[L].stackidx <= i
      BY <2>5, <1>0, <1>1
    <3>2. \A m \in 1..L : ~(m > L)
      OBVIOUS
    <3>3. dfs_stack[L].lowlink <= k
      BY <3>1, <3>2, <1>0 DEF Near
    <3>4. dfs_stack[L].lowlink \in Nat
      BY <1>0, <1>1
    <3> QED BY <2>5, <3>3, <3>4
  <2> QED BY <2>3, <2>4, <2>5
<1> QED BY <1>4, <1>5 DEF Near

(* Backtracking from a state that is no root.                              *)
LEMMA BacktrackStep == ASSUME IInv, Backtrack PROVE IInv'
<1>1. /\ ValuesOK /\ StacksOK /\ StackPart /\ FramesOK /\ ControlOK /\ Chained
      /\ LinksOK /\ CountersOK
      /\ tarjan_stack \in Seq(StackInfos) /\ dfs_stack \in Seq(ExplorationInfos)
  BY DEF IInv, StackPart, StacksOK, ControlOK
<1>c. PICK c : c = Top.stackidx
  OBVIOUS
<1>p. PICK p : p = Below.stackidx
  OBVIOUS
<1>n. PICK n : n = Len(tarjan_stack)
  OBVIOUS
<1>L. PICK L : L = Len(dfs_stack)
  OBVIOUS
<1>M. PICK M : M = L - 1
  OBVIOUS
<1>f. PICK f : f = Top
  OBVIOUS
<1>b. PICK b : b = Below
  OBVIOUS
<1>g. PICK g : g = JoinedBelow(f, b)
  OBVIOUS
<1>2. /\ pc = "transition" /\ ~IsRoot(Top)
      /\ Return(g)
      /\ tarjan_stack' = Linked(tarjan_stack, c, p)
      /\ UNCHANGED <<initial_state, explored, value, ecd_vars, analysis_vars,
                     sweep>>
  BY <1>c, <1>p, <1>f, <1>b, <1>g DEF Backtrack
<1>3. ~Stopped /\ dfs_stack # <<>> /\ SccSuccessors(f.q_value) = {}
  BY <1>1, <1>2, <1>f DEF ControlOK, Stopped
<1>4. /\ f \in ExplorationInfos /\ f = dfs_stack[L]
      /\ L \in Nat \ {0} /\ DOMAIN dfs_stack = 1..L
      /\ DOMAIN tarjan_stack = 1..n /\ n \in Nat
      /\ c \in 1..n /\ f.stackidx = c /\ f.lowlink \in 1..c
      /\ tarjan_stack[c].state = f.state
      /\ \A j \in 1..L : dfs_stack[j] \in ExplorationInfos
  BY <1>1, <1>3, <1>c, <1>n, <1>L, <1>f, TopFacts
<1>5. L > 1
  <2>1. f.lowlink # c
    BY <1>2, <1>4, <1>f DEF IsRoot
  <2>2. c # 1
    BY <2>1, <1>4
  <2>3. dfs_stack[1].stackidx = 1
    BY <1>1, <1>3 DEF Chained
  <2>4. L # 1
    BY <2>2, <2>3, <1>4
  <2> QED BY <2>4, <1>4
<1>6. M \in 1..L /\ M \in Nat \ {0} /\ M < L /\ M + 1 = L
  BY <1>4, <1>5, <1>M
<1>7. b = dfs_stack[M] /\ b \in ExplorationInfos /\ p = b.stackidx
  BY <1>4, <1>6, <1>b, <1>p, <1>L, <1>M DEF Below
<1>8. /\ Exploring(b) /\ f.state \in NonSource(b.state, b.action)
  <2>1. /\ Exploring(dfs_stack[M])
        /\ dfs_stack[M].successor = dfs_stack[M + 1].state
        /\ dfs_stack[M].successor \in
             NonSource(dfs_stack[M].state, dfs_stack[M].action)
    BY <1>1, <1>4, <1>6, <1>L DEF Chained
  <2> QED BY <2>1, <1>4, <1>6, <1>7
<1>9. p \in 1..n /\ b.lowlink \in 1..p
  BY <1>1, <1>4, <1>6, <1>7 DEF FramesOK
<1>10. /\ g \in ExplorationInfos /\ SameTransition(b, g)
       /\ g.lowlink \in {b.lowlink, f.lowlink}
       /\ g.lowlink <= b.lowlink /\ g.lowlink <= f.lowlink
       /\ SccSuccessors(g.q_value) = SccSuccessors(b.q_value) \union {f.state}
  BY <1>4, <1>7, <1>8, <1>g, JoinedFacts
<1>11. /\ tarjan_stack' \in Seq(StackInfos) /\ Len(tarjan_stack') = n
       /\ \A i \in 1..n :
            /\ tarjan_stack'[i].state = tarjan_stack[i].state
            /\ tarjan_stack'[i].transition_flags = tarjan_stack[i].transition_flags
            /\ tarjan_stack'[i].active_transitions = tarjan_stack[i].active_transitions
            /\ tarjan_stack'[i].active_exit_transitions =
                 tarjan_stack[i].active_exit_transitions
            /\ Transitions(tarjan_stack'[i]) = Transitions(tarjan_stack[i])
       /\ \A k \in 1..n : \A m \in DOMAIN tarjan_stack'[k].parents :
            \/ /\ m \in DOMAIN tarjan_stack[k].parents
               /\ tarjan_stack'[k].parents[m] = tarjan_stack[k].parents[m]
            \/ k = c /\ tarjan_stack'[k].parents[m] = NewLink(p)
  <2>1. /\ tarjan_stack \in Seq(StackInfos) /\ n \in Nat /\ n = Len(tarjan_stack)
        /\ c \in 1..n /\ p \in 1..n /\ tarjan_stack' = Linked(tarjan_stack, c, p)
    BY <1>1, <1>2, <1>4, <1>9, <1>n
  <2> QED BY ONLY <2>1, LinkedFacts
<1>12. DOMAIN tarjan_stack' = 1..n /\ n \in 0..n
  BY <1>4, <1>11
<1>13. /\ Front(dfs_stack) \in Seq(ExplorationInfos)
       /\ Len(Front(dfs_stack)) = M /\ Front(dfs_stack) # <<>>
       /\ \A j \in 1..M : Front(dfs_stack)[j] = dfs_stack[j]
       /\ WithTop(Front(dfs_stack), g) \in Seq(ExplorationInfos)
       /\ Len(WithTop(Front(dfs_stack), g)) = M
       /\ \A j \in 1..M : WithTop(Front(dfs_stack), g)[j] =
                            IF j = M THEN g ELSE dfs_stack[j]
  <2>1. /\ dfs_stack \in Seq(ExplorationInfos) /\ L \in Nat /\ L = Len(dfs_stack)
        /\ L > 1
    BY <1>1, <1>4, <1>5, <1>L
  <2>2. /\ Front(dfs_stack) \in Seq(ExplorationInfos)
        /\ Len(Front(dfs_stack)) = L - 1 /\ Front(dfs_stack) # <<>>
        /\ \A j \in 1..(L - 1) : Front(dfs_stack)[j] = dfs_stack[j]
        /\ \A h \in ExplorationInfos :
              /\ WithTop(Front(dfs_stack), h) \in Seq(ExplorationInfos)
              /\ Len(WithTop(Front(dfs_stack), h)) = L - 1
              /\ \A j \in 1..(L - 1) :
                   WithTop(Front(dfs_stack), h)[j] =
                     IF j = L - 1 THEN h ELSE dfs_stack[j]
    BY ONLY <2>1, PoppedFacts
  <2>3. g \in ExplorationInfos
    BY <1>10
  <2> QED BY ONLY <2>2, <2>3, <1>M
<1>14. \/ dfs_stack' = WithTop(Front(dfs_stack), g) /\ pc' = "successor"
       \/ dfs_stack' = Front(dfs_stack) /\ pc' = "timeout"
  BY <1>2, <1>13 DEF Return
<1>15. CASE dfs_stack' = WithTop(Front(dfs_stack), g) /\ pc' = "successor"
  <2>1. /\ dfs_stack' \in Seq(ExplorationInfos) /\ Len(dfs_stack') = M
        /\ DOMAIN dfs_stack' = 1..M /\ dfs_stack'[M] = g
        /\ \A j \in 1..(M - 1) : dfs_stack'[j] = dfs_stack[j]
    <3>1. /\ dfs_stack' \in Seq(ExplorationInfos) /\ Len(dfs_stack') = M
          /\ \A j \in 1..M : dfs_stack'[j] = IF j = M THEN g ELSE dfs_stack[j]
      BY <1>13, <1>15
    <3> QED BY <3>1, <1>6
  <2>2. /\ dfs_stack'[M].stackidx = p /\ dfs_stack[M].stackidx = p
        /\ dfs_stack'[M].state = dfs_stack[M].state
        /\ dfs_stack'[M].stackidx = dfs_stack[M].stackidx
        /\ dfs_stack'[M].lowlink \in Nat
        /\ dfs_stack'[M].lowlink <= dfs_stack[M].lowlink
        /\ dfs_stack'[M].lowlink <= dfs_stack[L].lowlink
        /\ dfs_stack'[M].lowlink \in 1..p
        /\ dfs_stack'[M].lowlink <= c
        /\ g.aops = b.aops
    <3>1. g.lowlink \in 1..p /\ g.lowlink <= c
      BY <1>4, <1>9, <1>10
    <3> QED BY <2>1, <3>1, <1>4, <1>7, <1>9, <1>10 DEF SameTransition
  <2>3. \A i, k \in 1..n : Near(i, k) => Near(i, k)'
    BY ONLY <1>1, <1>4, <1>5, <1>M, <2>1, <2>2, NearPopped
  <2>4. FramesOK'
    <3>1. \A j \in 1..M : /\ dfs_stack'[j].stackidx = dfs_stack[j].stackidx
                          /\ dfs_stack'[j].state = dfs_stack[j].state
                          /\ dfs_stack'[j].aops = dfs_stack[j].aops
                          /\ dfs_stack'[j].lowlink \in 1..dfs_stack[j].stackidx
      <4> TAKE j \in 1..M
      <4>1. CASE j = M
        BY <4>1, <2>1, <2>2, <1>7
      <4>2. CASE j # M
        <5>1. j \in 1..(M - 1) /\ j \in 1..L
          BY <4>2, <1>6
        <5> QED BY <5>1, <2>1, <1>1, <1>4 DEF FramesOK
      <4> QED BY <4>1, <4>2
    <3>2. ASSUME NEW j \in 1..M
          PROVE  /\ dfs_stack'[j].stackidx \in 1..n
                 /\ dfs_stack'[j].lowlink \in 1..dfs_stack'[j].stackidx
                 /\ dfs_stack'[j].state = tarjan_stack'[dfs_stack'[j].stackidx].state
                 /\ dfs_stack'[j].aops \subseteq TransitionTails(dfs_stack'[j].state)
      <4>1. j \in 1..L
        BY <1>6
      <4>2. /\ dfs_stack[j].stackidx \in 1..n
            /\ dfs_stack[j].state = tarjan_stack[dfs_stack[j].stackidx].state
            /\ dfs_stack[j].aops \subseteq TransitionTails(dfs_stack[j].state)
        BY <4>1, <1>1, <1>4 DEF FramesOK
      <4> QED BY <3>1, <4>2, <1>11
    <3>3. \A j, k \in 1..M :
            j < k => dfs_stack'[j].stackidx < dfs_stack'[k].stackidx
      <4>1. \A j, k \in 1..L :
              j < k => dfs_stack[j].stackidx < dfs_stack[k].stackidx
        BY <1>1, <1>4 DEF FramesOK
      <4> QED BY <3>1, <4>1, <1>6
    <3> QED BY <2>1, <3>2, <3>3, <1>12 DEF FramesOK
  <2>5. \A j \in 1..L : SccSuccessors(dfs_stack[j].q_value) \subseteq State
    BY <1>4, FrameParts, QValueInfoParts
  <2>6. /\ SccSuccessors(dfs_stack'[M].q_value) =
             SccSuccessors(dfs_stack[M].q_value) \union {tarjan_stack[c].state}
        /\ \A j \in (M + 1)..L : SccSuccessors(dfs_stack[j].q_value) = {}
    <3>1. \A j \in (M + 1)..L : j = L
      BY <1>6
    <3> QED BY <3>1, <2>1, <1>3, <1>4, <1>7, <1>10
  <2>7. StackPart'
    <3>1. L \in Nat
      BY <1>4
    <3> QED BY ONLY <1>1, <1>2, <1>3, <1>4, <1>6, <1>9, <1>n, <2>1, <2>2, <2>3,
               <2>4, <2>5, <2>6, <3>1, LinkAdded
  <2>8. Exploring(dfs_stack'[M])
    BY <2>1, <1>8, <1>10, ExploringKept
  <2>9. /\ pc \in {"transition", "sweep"} /\ pc' \in {"successor", "timeout", "done"}
        /\ value' \in [State -> Int]
        /\ M \in 0..L /\ L \in Nat /\ M # 0
        /\ UNCHANGED <<initial_state, explored, ecd_vars, analysis_vars, sweep>>
    BY <1>1, <1>2, <1>4, <1>6, <1>15 DEF ValuesOK
  <2>10. IInv
    OBVIOUS
  <2>11. \A i \in 1..n : tarjan_stack'[i].state = tarjan_stack[i].state
    BY <1>11
  <2>12. /\ L = Len(dfs_stack) /\ dfs_stack # <<>> /\ n \in Nat
         /\ n = Len(tarjan_stack) /\ n \in 0..n
         /\ tarjan_stack' \in Seq(StackInfos) /\ Len(tarjan_stack') = n
    BY <1>3, <1>4, <1>11, <1>12, <1>n, <1>L
  <2>13. /\ dfs_stack'[M].state = dfs_stack[M].state
         /\ dfs_stack'[M].stackidx = dfs_stack[M].stackidx
    BY <2>2
  <2> QED BY ONLY <2>1, <2>7, <2>8, <2>9, <2>10, <2>11, <2>12, <2>13, PopRest
<1>16. CASE dfs_stack' = Front(dfs_stack) /\ pc' = "timeout"
  <2>1. /\ dfs_stack' \in Seq(ExplorationInfos) /\ Len(dfs_stack') = M
        /\ DOMAIN dfs_stack' = 1..M
        /\ \A j \in 1..M : dfs_stack'[j] = dfs_stack[j]
    BY <1>13, <1>16
  <2>2. Stopped' /\ L \in Nat /\ M \in 0..L
    BY <1>4, <1>6, <1>16 DEF Stopped
  <2>3. \A j \in 1..M : dfs_stack[j].stackidx \in 1..n
    BY <1>1, <1>4, <1>6 DEF FramesOK
  <2>4. ASSUME NEW i \in 1..n
        PROVE  /\ tarjan_stack'[i].state = tarjan_stack[i].state
               /\ Transitions(tarjan_stack'[i]) = Transitions(tarjan_stack[i])
               /\ CounterOK(tarjan_stack'[i])
               /\ \A k \in DOMAIN tarjan_stack'[i].parents :
                    tarjan_stack'[i].parents[k].parent_idx \in 1..n
    <3>1. CounterOK(tarjan_stack[i])
      BY <1>1, <1>4 DEF CountersOK, CounterOK
    <3>2. CounterOK(tarjan_stack'[i])
      BY <3>1, <1>11 DEF CounterOK, ActiveFlags, ExitFlags
    <3>3. ASSUME NEW k \in DOMAIN tarjan_stack'[i].parents
          PROVE  tarjan_stack'[i].parents[k].parent_idx \in 1..n
      <4>1. NewLink(p).parent_idx = p
        BY DEF NewLink
      <4>2. \A m \in DOMAIN tarjan_stack[i].parents :
              tarjan_stack[i].parents[m].parent_idx \in 1..n
        BY <1>1, <1>4 DEF LinksOK
      <4> QED BY <3>3, <4>1, <4>2, <1>9, <1>11
    <3> QED BY <3>2, <3>3, <1>11
  <2>5. StackPart'
    BY ONLY <1>1, <1>4, <1>12, <2>1, <2>2, <2>3, <2>4, StoppedPart
  <2>6. /\ pc \in {"transition", "sweep"} /\ pc' \in {"successor", "timeout", "done"}
        /\ pc' # "successor" /\ value' \in [State -> Int]
        /\ UNCHANGED <<initial_state, explored, ecd_vars, analysis_vars, sweep>>
    BY <1>1, <1>2, <1>16 DEF ValuesOK
  <2>7. IInv
    OBVIOUS
  <2>8. /\ \A j \in 1..(M - 1) : dfs_stack'[j] = dfs_stack[j]
        /\ dfs_stack'[M].state = dfs_stack[M].state
        /\ dfs_stack'[M].stackidx = dfs_stack[M].stackidx
    BY <2>1, <1>6
  <2>9. \A i \in 1..n : tarjan_stack'[i].state = tarjan_stack[i].state
    BY <1>11
  <2>10. /\ L = Len(dfs_stack) /\ dfs_stack # <<>> /\ n \in Nat /\ L \in Nat
         /\ n = Len(tarjan_stack) /\ n \in 0..n /\ M \in 0..L
         /\ tarjan_stack' \in Seq(StackInfos) /\ Len(tarjan_stack') = n
         /\ dfs_stack' \in Seq(ExplorationInfos) /\ Len(dfs_stack') = M
    BY <1>3, <1>4, <1>11, <1>12, <1>n, <1>L, <2>1, <2>2
  <2> QED BY ONLY <2>5, <2>6, <2>7, <2>8, <2>9, <2>10, PopRest
<1> QED BY <1>14, <1>15, <1>16
-----------------------------------------------------------------------------
(* Closing a component: its root is the frame on top.                      *)

(* Below the root nothing is linked to what is above.                      *)
LEMMA RootedFacts ==
  ASSUME FramesOK, LinksOK, ~Stopped, NEW n \in Nat, DOMAIN tarjan_stack = 1..n,
         NEW L \in Nat, L > 0, DOMAIN dfs_stack = 1..L,
         NEW m, m + 1 = dfs_stack[L].stackidx, dfs_stack[L].lowlink = m + 1, m \in Nat
  PROVE  /\ m \in 0..n /\ m + 1 \in 1..n
         /\ \A j \in 1..(L - 1) : dfs_stack[j].stackidx \in 1..m
         /\ \A i \in 1..m : \A k \in 1..n : Near(i, k) => k \in 1..m
         /\ \A k \in 1..m : \A x \in DOMAIN tarjan_stack[k].parents :
              tarjan_stack[k].parents[x].parent_idx \in 1..m
<1>0. L \in 1..L
  OBVIOUS
<1>1. m + 1 \in 1..n
  BY <1>0 DEF FramesOK
<1>2. ASSUME NEW j \in 1..(L - 1) PROVE dfs_stack[j].stackidx \in 1..m
  <2>1. j \in 1..L /\ j < L
    OBVIOUS
  <2>2. dfs_stack[j].stackidx \in 1..n /\ dfs_stack[j].stackidx < dfs_stack[L].stackidx
    BY <2>1, <1>0 DEF FramesOK
  <2> QED BY <2>2
<1>3. ASSUME NEW i \in 1..m, NEW k \in 1..n, Near(i, k) PROVE k \in 1..m
  <2>1. i < dfs_stack[L].stackidx
    OBVIOUS
  <2>2. k < dfs_stack[L].stackidx
    BY <1>0, <1>3, <2>1 DEF Near
  <2> QED BY <2>2
<1>4. ASSUME NEW k \in 1..m, NEW x \in DOMAIN tarjan_stack[k].parents,
             NEW i, i = tarjan_stack[k].parents[x].parent_idx
      PROVE  i \in 1..m
  <2>1. k \in 1..n
    BY <1>1
  <2>2. i \in 1..n /\ Near(i, k)
    BY <1>4, <2>1 DEF LinksOK
  <2>3. ASSUME ~(i <= m) PROVE FALSE
    <3>1. dfs_stack[L].stackidx <= i
      BY <2>2, <2>3
    <3>2. \A j \in 1..L : ~(j > L)
      OBVIOUS
    <3>3. dfs_stack[L].lowlink <= k
      BY <1>0, <2>2, <3>1, <3>2 DEF Near
    <3> QED BY <3>3
  <2> QED BY <2>2, <2>3
<1> QED BY <1>1, <1>2, <1>3, <1>4

(* The entries of a component are removed with the frame of its root: no   *)
(* entry that is left knew of them.                                        *)
LEMMA ClosePart ==
  ASSUME StackPart, ~Stopped, NEW n \in Nat, DOMAIN tarjan_stack = 1..n,
         NEW L \in Nat, L > 1, DOMAIN dfs_stack = 1..L,
         NEW m \in Nat, m + 1 = dfs_stack[L].stackidx, dfs_stack[L].lowlink = m + 1,
         NEW M, M = L - 1, DOMAIN dfs_stack' = 1..M,
         \A j \in 1..M :
           /\ SameFrame(dfs_stack[j], dfs_stack'[j])
           /\ dfs_stack'[j].aops = dfs_stack[j].aops
           /\ SccSuccessors(dfs_stack'[j].q_value) = SccSuccessors(dfs_stack[j].q_value),
         DOMAIN tarjan_stack' = 1..m,
         \A i \in 1..m : tarjan_stack'[i] = tarjan_stack[i]
  PROVE  StackPart'
<1>a. FramesOK /\ LinksOK /\ SuccessorsOK /\ CountersOK
  BY DEF StackPart
<1>1. /\ m \in 0..n /\ m + 1 \in 1..n
      /\ \A j \in 1..(L - 1) : dfs_stack[j].stackidx \in 1..m
      /\ \A i \in 1..m : \A k \in 1..n : Near(i, k) => k \in 1..m
      /\ \A k \in 1..m : \A x \in DOMAIN tarjan_stack[k].parents :
           tarjan_stack[k].parents[x].parent_idx \in 1..m
  <2>1. L > 0
    OBVIOUS
  <2> QED BY <1>a, <2>1, RootedFacts
<1>0. /\ M \in Nat /\ L \in 1..L /\ 1..m \subseteq 1..n
      /\ \A j \in 1..M : j \in 1..L /\ j # L
      /\ \A j \in 1..L : j = L \/ j \in 1..M
      /\ \A j \in 1..M : dfs_stack[j].stackidx \in 1..m
  BY <1>1
<1>2. \A j \in 1..M : /\ dfs_stack'[j].stackidx = dfs_stack[j].stackidx
                      /\ dfs_stack'[j].lowlink = dfs_stack[j].lowlink
                      /\ dfs_stack'[j].state = dfs_stack[j].state
                      /\ dfs_stack'[j].aops = dfs_stack[j].aops
  BY DEF SameFrame
<1>3. FramesOK'
  <2>1. ASSUME NEW j \in 1..M
        PROVE  /\ dfs_stack'[j].stackidx \in 1..m
               /\ dfs_stack'[j].lowlink \in 1..dfs_stack'[j].stackidx
               /\ dfs_stack'[j].state = tarjan_stack'[dfs_stack'[j].stackidx].state
               /\ dfs_stack'[j].aops \subseteq TransitionTails(dfs_stack'[j].state)
    <3>1. dfs_stack[j].stackidx \in 1..m /\ j \in 1..L
      BY <1>0
    <3>2. /\ dfs_stack[j].lowlink \in 1..dfs_stack[j].stackidx
          /\ dfs_stack[j].state = tarjan_stack[dfs_stack[j].stackidx].state
          /\ dfs_stack[j].aops \subseteq TransitionTails(dfs_stack[j].state)
      BY <3>1, <1>a DEF FramesOK
    <3>3. tarjan_stack'[dfs_stack[j].stackidx] = tarjan_stack[dfs_stack[j].stackidx]
      BY <3>1
    <3> QED BY <3>1, <3>2, <3>3, <1>2
  <2>2. \A j, k \in 1..M :
          j < k => dfs_stack'[j].stackidx < dfs_stack'[k].stackidx
    BY <1>a, <1>0, <1>2 DEF FramesOK
  <2> QED BY <2>1, <2>2 DEF FramesOK
<1>4. ASSUME NEW i \in 1..m, NEW k \in 1..n, Near(i, k) PROVE Near(i, k)'
  <2>1. ASSUME NEW j \in 1..M, i < dfs_stack'[j].stackidx
        PROVE  k < dfs_stack'[j].stackidx
    BY <1>0, <1>2, <1>4, <2>1 DEF Near
  <2>2. ASSUME NEW j \in 1..M, dfs_stack'[j].stackidx <= i,
               \A l \in 1..M : l > j => i < dfs_stack'[l].stackidx
        PROVE  dfs_stack'[j].lowlink <= k
    <3>1. i < dfs_stack[L].stackidx
      OBVIOUS
    <3>2. \A l \in 1..L : l > j => i < dfs_stack[l].stackidx
      BY <2>2, <3>1, <1>0, <1>2
    <3>3. dfs_stack[j].stackidx <= i /\ j \in 1..L
      BY <2>2, <1>0, <1>2
    <3>4. dfs_stack[j].lowlink <= k
      BY <1>4, <3>2, <3>3 DEF Near
    <3> QED BY <3>4, <1>2
  <2> QED BY <2>1, <2>2 DEF Near
<1>5. ASSUME NEW i \in 1..m, NEW t, IsNear(i, t) PROVE IsNear(i, t)'
  <2>1. PICK k \in 1..n : tarjan_stack[k].state = t /\ Near(i, k)
    BY <1>5 DEF IsNear
  <2>2. k \in 1..m
    BY <2>1, <1>1
  <2>3. Near(i, k)' /\ tarjan_stack'[k].state = t
    BY <2>1, <2>2, <1>4
  <2> QED BY <2>2, <2>3 DEF IsNear
<1>6. SuccessorsOK'
  <2>1. ASSUME NEW i \in 1..m, NEW q \in Transitions(tarjan_stack'[i])
        PROVE  SccSuccessors(q) # {} /\ \A t \in SccSuccessors(q) : IsNear(i, t)'
    <3>1. q \in Transitions(tarjan_stack[i]) /\ i \in 1..n
      BY <2>1, <1>0
    <3> QED BY <3>1, <1>a, <1>5 DEF SuccessorsOK
  <2>2. ASSUME NEW j \in 1..M, NEW t \in SccSuccessors(dfs_stack'[j].q_value),
               NEW i, i = dfs_stack'[j].stackidx
        PROVE  IsNear(i, t)'
    <3>1. j \in 1..L /\ i = dfs_stack[j].stackidx /\ i \in 1..m
          /\ t \in SccSuccessors(dfs_stack[j].q_value)
      BY <2>2, <1>0, <1>2
    <3> QED BY <3>1, <1>a, <1>5 DEF SuccessorsOK
  <2> QED BY <2>1, <2>2 DEF SuccessorsOK, SccSuccessors, Transitions
<1>7. ASSUME NEW x, x.parent_idx \in 1..m, IsRecorded(x) \/ IsUnderWay(x)
      PROVE  IsRecorded(x)' \/ IsUnderWay(x)'
  <2>1. FlagCount(x.parent_idx)' = FlagCount(x.parent_idx)
    BY <1>7 DEF FlagCount
  <2>2. CASE IsRecorded(x)
    BY <2>1, <2>2 DEF IsRecorded
  <2>3. CASE IsUnderWay(x)
    <3>1. PICK j \in 1..L : /\ dfs_stack[j].stackidx = x.parent_idx
                            /\ SccSuccessors(dfs_stack[j].q_value) # {}
      BY <2>3 DEF IsUnderWay
    <3>2. j \in 1..M
      <4>1. j # L
        BY <3>1, <1>7
      <4> QED BY <4>1, <1>0
    <3>3. dfs_stack'[j].stackidx = x.parent_idx
          /\ SccSuccessors(dfs_stack'[j].q_value) # {}
      BY <3>1, <3>2, <1>2
    <3> QED BY <2>1, <2>3, <3>2, <3>3 DEF IsUnderWay, SccSuccessors
  <2> QED BY <1>7, <2>2, <2>3
<1>8. LinksOK'
  <2>1. ASSUME NEW k \in 1..m, NEW l \in DOMAIN tarjan_stack[k].parents,
               NEW x, x = tarjan_stack[k].parents[l]
        PROVE  /\ x.parent_idx \in 1..m /\ Near(x.parent_idx, k)'
               /\ IsRecorded(x)' \/ IsUnderWay(x)'
    <3>1. k \in 1..n
      BY <1>0
    <3>2. Near(x.parent_idx, k) /\ (IsRecorded(x) \/ IsUnderWay(x))
      BY <2>1, <3>1, <1>a DEF LinksOK
    <3>3. x.parent_idx \in 1..m
      BY <2>1, <1>1
    <3> QED BY <3>1, <3>2, <3>3, <1>4, <1>7
  <2> QED BY <2>1 DEF LinksOK
<1>9. CountersOK'
  BY <1>a, <1>0 DEF CountersOK, ActiveFlags, ExitFlags
<1> QED BY <1>3, <1>6, <1>8, <1>9 DEF StackPart

(* Closing a component keeps the invariant.                                *)
LEMMA CloseStep ==
  ASSUME IInv, pc \in {"transition", "sweep"}, IsRoot(Top),
         NEW v \in [State -> Int], Close(v),
         UNCHANGED <<initial_state, explored, ecd_vars, analysis_vars, sweep>>
  PROVE  IInv'
<1>1. /\ ValuesOK /\ StacksOK /\ StackPart /\ FramesOK /\ ControlOK /\ Chained
      /\ LinksOK /\ CountersOK
      /\ tarjan_stack \in Seq(StackInfos) /\ dfs_stack \in Seq(ExplorationInfos)
  BY DEF IInv, StackPart, StacksOK, ControlOK
<1>n. PICK n : n = Len(tarjan_stack)
  OBVIOUS
<1>L. PICK L : L = Len(dfs_stack)
  OBVIOUS
<1>M. PICK M : M = L - 1
  OBVIOUS
<1>f. PICK f : f = Top
  OBVIOUS
<1>m. PICK m : m = Top.stackidx - 1
  OBVIOUS
<1>b. PICK b : b = Below
  OBVIOUS
<1>g. PICK g : g = AddClosed(b, f.state, v[f.state])
  OBVIOUS
<1>2. /\ value' = v /\ tarjan_stack' = SubSeq(tarjan_stack, 1, m) /\ Return(g)
  BY <1>m, <1>f, <1>b, <1>g DEF Close
<1>3. ~Stopped /\ dfs_stack # <<>>
  BY <1>1 DEF ControlOK, Stopped
<1>4. /\ f \in ExplorationInfos /\ f = dfs_stack[L]
      /\ L \in Nat \ {0} /\ DOMAIN dfs_stack = 1..L
      /\ DOMAIN tarjan_stack = 1..n /\ n \in Nat
      /\ f.stackidx \in 1..n /\ f.lowlink = f.stackidx
      /\ \A j \in 1..L : dfs_stack[j] \in ExplorationInfos
  BY <1>1, <1>3, <1>n, <1>L, <1>f, TopFacts DEF IsRoot
<1>5. /\ m \in Nat /\ m + 1 = dfs_stack[L].stackidx
      /\ dfs_stack[L].lowlink = m + 1
  BY <1>4, <1>m, <1>f
<1>6. /\ m \in 0..n
      /\ \A j \in 1..(L - 1) : dfs_stack[j].stackidx \in 1..m
      /\ \A k \in 1..m : \A x \in DOMAIN tarjan_stack[k].parents :
           tarjan_stack[k].parents[x].parent_idx \in 1..m
  <2>1. L > 0 /\ L \in Nat
    BY <1>4
  <2> QED BY <1>1, <1>3, <1>4, <1>5, <2>1, RootedFacts
<1>7. /\ tarjan_stack' \in Seq(StackInfos) /\ Len(tarjan_stack') = m
      /\ DOMAIN tarjan_stack' = 1..m
      /\ \A i \in 1..m : tarjan_stack'[i] = tarjan_stack[i]
  <2>1. m \in 0..Len(tarjan_stack)
    BY <1>6, <1>n
  <2>2. /\ SubSeq(tarjan_stack, 1, m) \in Seq(StackInfos)
        /\ Len(SubSeq(tarjan_stack, 1, m)) = m
        /\ \A i \in 1..m : SubSeq(tarjan_stack, 1, m)[i] = tarjan_stack[i]
    BY ONLY <1>1, <2>1, PrefixFacts
  <2>3. tarjan_stack' \in Seq(StackInfos) /\ Len(tarjan_stack') = m
        /\ \A i \in 1..m : tarjan_stack'[i] = tarjan_stack[i]
    BY ONLY <1>2, <2>2
  <2> QED BY <2>3
<1>8. /\ Front(dfs_stack) \in Seq(ExplorationInfos)
      /\ Len(Front(dfs_stack)) = M
      /\ \A j \in 1..M : Front(dfs_stack)[j] = dfs_stack[j]
      /\ Front(dfs_stack) = <<>> <=> L = 1
  <2>1. /\ Front(dfs_stack) \in Seq(ExplorationInfos)
        /\ Len(Front(dfs_stack)) = Len(dfs_stack) - 1
        /\ \A j \in 1..(Len(dfs_stack) - 1) : Front(dfs_stack)[j] = dfs_stack[j]
        /\ Front(dfs_stack) = <<>> <=> Len(dfs_stack) = 1
    BY ONLY <1>1, <1>3, FrontFacts
  <2> QED BY ONLY <2>1, <1>L, <1>M
<1>9. M \in 0..L /\ L \in Nat /\ 1..M \subseteq 1..L
  BY <1>4, <1>M
<1>10. /\ L = Len(dfs_stack) /\ n = Len(tarjan_stack) /\ n \in Nat
       /\ value' \in [State -> Int] /\ IInv /\ dfs_stack # <<>>
       /\ pc \in {"transition", "sweep"}
       /\ UNCHANGED <<initial_state, explored, ecd_vars, analysis_vars, sweep>>
  BY <1>2, <1>3, <1>4, <1>n, <1>L
<1>11. CASE dfs_stack' = Front(dfs_stack) /\ pc' \in {"done", "timeout"}
  <2>1. /\ dfs_stack' \in Seq(ExplorationInfos) /\ Len(dfs_stack') = M
        /\ DOMAIN dfs_stack' = 1..M
        /\ \A j \in 1..M : dfs_stack'[j] = dfs_stack[j]
    BY <1>8, <1>11
  <2>2. Stopped'
    BY <1>11 DEF Stopped
  <2>3. \A j \in 1..M : dfs_stack[j].stackidx \in 1..m
    BY <1>6, <1>M
  <2>4. ASSUME NEW i \in 1..m
        PROVE  /\ tarjan_stack'[i].state = tarjan_stack[i].state
               /\ Transitions(tarjan_stack'[i]) = Transitions(tarjan_stack[i])
               /\ CounterOK(tarjan_stack'[i])
               /\ \A k \in DOMAIN tarjan_stack'[i].parents :
                    tarjan_stack'[i].parents[k].parent_idx \in 1..m
    <3>0. m \in 0..n /\ n \in Nat
      BY <1>4, <1>6
    <3>1. tarjan_stack'[i] = tarjan_stack[i] /\ i \in 1..n
      <4>1. i \in 1..n
        BY ONLY <2>4, <3>0
      <4> QED BY <4>1, <1>7
    <3>2. CounterOK(tarjan_stack[i])
      BY <3>1, <1>1, <1>4 DEF CountersOK, CounterOK
    <3> QED BY <3>1, <3>2, <1>6
  <2>5. StackPart'
    BY ONLY <1>1, <1>4, <1>6, <1>7, <1>9, <2>1, <2>2, <2>3, <2>4, StoppedPart
  <2>6. /\ pc' \in {"successor", "timeout", "done"} /\ pc' # "successor"
        /\ \A j \in 1..(M - 1) : dfs_stack'[j] = dfs_stack[j]
        /\ M # 0 => /\ dfs_stack'[M].state = dfs_stack[M].state
                    /\ dfs_stack'[M].stackidx = dfs_stack[M].stackidx
        /\ \A i \in 1..m : tarjan_stack'[i].state = tarjan_stack[i].state
        /\ m \in 0..n /\ tarjan_stack' \in Seq(StackInfos)
        /\ Len(tarjan_stack') = m
    BY <1>6, <1>7, <1>9, <1>11, <2>1
  <2> QED BY ONLY <1>9, <1>10, <2>1, <2>5, <2>6, PopRest
<1>12. CASE /\ L > 1 /\ dfs_stack' = WithTop(Front(dfs_stack), g)
            /\ pc' = "successor"
  <2>1. M \in 1..L /\ M \in Nat \ {0} /\ M < L /\ M + 1 = L /\ M = L - 1
    BY <1>4, <1>12, <1>M
  <2>2. b = dfs_stack[M] /\ b \in ExplorationInfos
    BY <1>4, <2>1, <1>b, <1>L DEF Below
  <2>3. /\ Exploring(b) /\ f.state \in NonSource(b.state, b.action)
    <3>1. /\ Exploring(dfs_stack[M])
          /\ dfs_stack[M].successor = dfs_stack[M + 1].state
          /\ dfs_stack[M].successor \in
               NonSource(dfs_stack[M].state, dfs_stack[M].action)
      BY <1>1, <1>4, <2>1, <1>L DEF Chained
    <3> QED BY <2>1, <2>2, <3>1, <1>4
  <2>4. /\ g \in ExplorationInfos /\ SameTransition(b, g)
        /\ g.lowlink = b.lowlink
        /\ SccSuccessors(g.q_value) = SccSuccessors(b.q_value)
    <3>1. f.state \in State
      BY <1>4, FrameParts
    <3>2. v[f.state] \in Int
      BY <3>1
    <3> QED BY <2>2, <2>3, <3>2, <1>g, AddClosedFacts
  <2>5. /\ dfs_stack' \in Seq(ExplorationInfos) /\ Len(dfs_stack') = M
        /\ \A j \in 1..M : dfs_stack'[j] = IF j = M THEN g ELSE dfs_stack[j]
    <3>1. /\ dfs_stack \in Seq(ExplorationInfos) /\ L \in Nat /\ L = Len(dfs_stack)
          /\ L > 1
      BY <1>1, <1>4, <1>12, <1>L
    <3>2. \A h \in ExplorationInfos :
              /\ WithTop(Front(dfs_stack), h) \in Seq(ExplorationInfos)
              /\ Len(WithTop(Front(dfs_stack), h)) = L - 1
              /\ \A j \in 1..(L - 1) :
                   WithTop(Front(dfs_stack), h)[j] =
                     IF j = L - 1 THEN h ELSE dfs_stack[j]
      BY ONLY <3>1, PoppedFacts
    <3>3. g \in ExplorationInfos
      BY <2>4
    <3>4. dfs_stack' = WithTop(Front(dfs_stack), g)
      BY <1>12
    <3> QED BY ONLY <3>2, <3>3, <3>4, <1>M
  <2>6. DOMAIN dfs_stack' = 1..M
    BY <2>5
  <2>7. \A j \in 1..M :
          /\ SameFrame(dfs_stack[j], dfs_stack'[j])
          /\ dfs_stack'[j].aops = dfs_stack[j].aops
          /\ SccSuccessors(dfs_stack'[j].q_value) = SccSuccessors(dfs_stack[j].q_value)
    BY <2>2, <2>4, <2>5 DEF SameFrame, SameTransition
  <2>8. StackPart'
    BY ONLY <1>1, <1>3, <1>4, <1>5, <1>7, <1>9, <1>10, <1>12, <2>1, <2>6, <2>7,
            ClosePart
  <2>9. /\ pc' \in {"successor", "timeout", "done"} /\ M # 0
        /\ \A j \in 1..(M - 1) : dfs_stack'[j] = dfs_stack[j]
        /\ dfs_stack'[M].state = dfs_stack[M].state
        /\ dfs_stack'[M].stackidx = dfs_stack[M].stackidx
        /\ Exploring(dfs_stack'[M])
        /\ \A i \in 1..m : tarjan_stack'[i].state = tarjan_stack[i].state
        /\ m \in 0..n /\ tarjan_stack' \in Seq(StackInfos)
        /\ Len(tarjan_stack') = m
    <3>1. dfs_stack'[M] = g /\ \A j \in 1..(M - 1) : dfs_stack'[j] = dfs_stack[j]
      BY <2>1, <2>5
    <3>2. Exploring(g) /\ g.state = b.state /\ g.stackidx = b.stackidx
      BY <2>3, <2>4, ExploringKept DEF SameTransition
    <3> QED BY <1>6, <1>7, <1>12, <2>1, <2>2, <3>1, <3>2
  <2> QED BY ONLY <1>9, <1>10, <2>5, <2>8, <2>9, PopRest
<1>13. \/ dfs_stack' = Front(dfs_stack) /\ pc' \in {"done", "timeout"}
       \/ /\ L > 1 /\ dfs_stack' = WithTop(Front(dfs_stack), g)
          /\ pc' = "successor"
  <2>1. L > 1 \/ L = 1
    BY <1>4
  <2> QED BY <1>2, <1>8, <2>1 DEF Return
<1> QED BY <1>11, <1>12, <1>13

(* scc_found where all values are known,                                   *)
LEMMA SccFoundUniformStep == ASSUME IInv, SccFoundUniform PROVE IInv'
<1> DEFINE v == [s \in State |-> IF s \in Members THEN Top.exit_interval.lower
                                 ELSE value[s]]
<1>1. /\ pc = "transition" /\ IsRoot(Top) /\ Close(v)
      /\ UNCHANGED <<initial_state, explored, ecd_vars, analysis_vars, sweep>>
  BY DEF SccFoundUniform
<1>2. ValuesOK /\ StacksOK /\ FramesOK /\ dfs_stack # <<>>
  BY <1>1 DEF IInv, ControlOK, Stopped
<1>3. Top.exit_interval.lower \in Int
  BY <1>2, TopFacts, FrameParts DEF Bounds
<1>4. v \in [State -> Int]
  BY <1>2, <1>3 DEF ValuesOK
<1> HIDE DEF v
<1> QED BY <1>1, <1>4, CloseStep

(* of a single state,                                                      *)
LEMMA SccFoundSingleStep == ASSUME IInv, SccFoundSingle PROVE IInv'
<1> DEFINE v == [value EXCEPT ![Top.state] = tarjan_stack[Top.stackidx].conv_part]
<1>1. /\ pc = "transition" /\ IsRoot(Top) /\ Close(v)
      /\ UNCHANGED <<initial_state, explored, ecd_vars, analysis_vars, sweep>>
  BY DEF SccFoundSingle
<1>2. ValuesOK /\ StacksOK /\ FramesOK /\ dfs_stack # <<>>
  BY <1>1 DEF IInv, ControlOK, Stopped
<1>3. tarjan_stack[Top.stackidx].conv_part \in Int
  BY <1>2, TopFacts, EntryParts
<1>4. v \in [State -> Int]
  BY <1>2, <1>3 DEF ValuesOK
<1> HIDE DEF v
<1> QED BY <1>1, <1>4, CloseStep

(* and after value iteration.                                              *)
LEMMA EndSweepsStep == ASSUME IInv, EndSweeps PROVE IInv'
<1>1. /\ pc = "sweep" /\ Close(value)
      /\ UNCHANGED <<initial_state, explored, ecd_vars, analysis_vars, sweep>>
  BY DEF EndSweeps
<1>2. value \in [State -> Int] /\ IsRoot(Top)
  BY <1>1 DEF IInv, ValuesOK, ControlOK, AnalysisPCs
<1> QED BY <1>1, <1>2, CloseStep
-----------------------------------------------------------------------------
(* Spider construction.                                                    *)

(* Entries that differ in the values of their states only.                 *)
Alike(d, e) ==
  /\ d.state = e.state /\ d.parents = e.parents
  /\ d.transition_flags = e.transition_flags
  /\ d.active_transitions = e.active_transitions
  /\ d.active_exit_transitions = e.active_exit_transitions
  /\ d.ec_transitions = e.ec_transitions

Leg(s) == [conv_part |-> 0, norm |-> Denominator,
           scc_successors |-> [t \in {s} |-> Denominator]]

(* The member at place i is attached to the hub.                           *)
Attached(st, hub, i, leg) ==
  [st EXCEPT ![hub].non_ec_transitions =
                 MergedTransitions(@, st[i].non_ec_transitions),
             ![hub].conv_part = Min({@, st[i].conv_part}),
             ![i].non_ec_transitions = {leg},
             ![i].conv_part = Infinite]

(* The transition of a leg leads to the hub alone.                         *)
LEMMA LegFacts ==
  ASSUME NEW s \in State
  PROVE  Leg(s) \in QValueInfos /\ SccSuccessors(Leg(s)) = {s}
<1> DEFINE w == [t \in {s} |-> Denominator]
<1>1. Denominator \in Nat \ {0} /\ {s} \in SUBSET State
  BY ConstantTypes
<1>2. w \in [{s} -> Nat] /\ 0 \in Int
  BY <1>1
<1>3. Leg(s) = [conv_part |-> 0, norm |-> Denominator, scc_successors |-> w]
  BY DEF Leg
<1> HIDE DEF w
<1> QED BY <1>1, <1>2, <1>3, QValueInfoBuilt

(* An entry with other transitions,                                        *)
LEMMA NonECReplaced ==
  ASSUME NEW e \in StackInfos, NEW ts \in TransitionSets
  PROVE  LET d == [e EXCEPT !.non_ec_transitions = ts]
         IN  /\ d \in StackInfos /\ Alike(d, e) /\ d.non_ec_transitions = ts
             /\ d.conv_part = e.conv_part
BY DEF StackInfos, Alike

(* or with another converged part.                                         *)
LEMMA ConvPartReplaced ==
  ASSUME NEW e \in StackInfos, NEW c \in Int
  PROVE  LET d == [e EXCEPT !.conv_part = c]
         IN  /\ d \in StackInfos /\ Alike(d, e) /\ d.conv_part = c
             /\ d.non_ec_transitions = e.non_ec_transitions
BY DEF StackInfos, Alike

IsAttached(T, st, n, hub, i, leg) ==
  /\ T \in Seq(StackInfos) /\ Len(T) = n
  /\ \A k \in 1..n : Alike(T[k], st[k])
  /\ \A k \in (1..n) \ {hub, i} : T[k] = st[k]
  /\ \A k \in {hub, i} : \A q \in T[k].non_ec_transitions :
       \E u \in st[hub].non_ec_transitions
                \union st[i].non_ec_transitions \union {leg} :
         SccSuccessors(q) = SccSuccessors(u)

(* One leg attached: the hub has the transitions of both.                  *)
LEMMA AttachedFacts ==
  ASSUME NEW st \in Seq(StackInfos), NEW n \in Nat, n = Len(st),
         NEW hub \in 1..n, NEW i \in 1..n, NEW leg \in QValueInfos,
         NEW T, T = Attached(st, hub, i, leg)
  PROVE  IsAttached(T, st, n, hub, i, leg)
<1> DEFINE A == MergedTransitions(st[hub].non_ec_transitions, st[i].non_ec_transitions)
           e1 == [st[hub] EXCEPT !.non_ec_transitions = A]
           S1 == [st EXCEPT ![hub] = e1]
           B == Min({S1[hub].conv_part, st[i].conv_part})
           e2 == [S1[hub] EXCEPT !.conv_part = B]
           S2 == [S1 EXCEPT ![hub] = e2]
           e3 == [S2[i] EXCEPT !.non_ec_transitions = {leg}]
           S3 == [S2 EXCEPT ![i] = e3]
           e4 == [S3[i] EXCEPT !.conv_part = Infinite]
           S4 == [S3 EXCEPT ![i] = e4]
<1>1. T = S4
  BY DEF Attached
<1>2. /\ \A k \in 1..n : st[k] \in StackInfos
      /\ DOMAIN st = 1..n
  OBVIOUS
<1>3. /\ A \in TransitionSets
      /\ \A q \in A : \E u \in st[hub].non_ec_transitions
                               \union st[i].non_ec_transitions :
           SccSuccessors(q) = SccSuccessors(u)
  BY <1>2, EntryParts, MergedFacts
<1> HIDE DEF A
<1>4. /\ e1 \in StackInfos /\ Alike(e1, st[hub]) /\ e1.non_ec_transitions = A
  BY <1>2, <1>3, NonECReplaced
<1> HIDE DEF e1
<1>5. /\ S1 \in Seq(StackInfos) /\ Len(S1) = n /\ DOMAIN S1 = 1..n
      /\ \A k \in 1..n : S1[k] = IF k = hub THEN e1 ELSE st[k]
  BY <1>2, <1>4, ReplacedFacts
<1> HIDE DEF S1
<1>6. B \in Int
  <2>1. S1[hub].conv_part \in Int /\ st[i].conv_part \in Int
    BY <1>2, <1>4, <1>5, EntryParts
  <2> QED BY <2>1, OneOfTwo
<1> HIDE DEF B
<1>7. /\ e2 \in StackInfos /\ Alike(e2, S1[hub]) /\ e2.non_ec_transitions = A
  <2>1. S1[hub] \in StackInfos /\ S1[hub] = e1
    BY <1>4, <1>5
  <2> QED BY <2>1, <1>4, <1>6, ConvPartReplaced
<1> HIDE DEF e2
<1>8. /\ S2 \in Seq(StackInfos) /\ Len(S2) = n /\ DOMAIN S2 = 1..n
      /\ \A k \in 1..n : S2[k] = IF k = hub THEN e2 ELSE S1[k]
  BY <1>5, <1>7, ReplacedFacts
<1> HIDE DEF S2
<1>9. /\ e3 \in StackInfos /\ Alike(e3, S2[i]) /\ e3.non_ec_transitions = {leg}
  <2>1. S2[i] \in StackInfos
    BY <1>8
  <2> QED BY <2>1, SingletonTransition, NonECReplaced
<1> HIDE DEF e3
<1>10. /\ S3 \in Seq(StackInfos) /\ Len(S3) = n /\ DOMAIN S3 = 1..n
       /\ \A k \in 1..n : S3[k] = IF k = i THEN e3 ELSE S2[k]
  BY <1>8, <1>9, ReplacedFacts
<1> HIDE DEF S3
<1>11. /\ e4 \in StackInfos /\ Alike(e4, S3[i]) /\ e4.non_ec_transitions = {leg}
  <2>1. S3[i] \in StackInfos /\ S3[i] = e3 /\ Infinite \in Int
    BY <1>9, <1>10, ConstantTypes
  <2> QED BY <2>1, <1>9, ConvPartReplaced
<1> HIDE DEF e4
<1>12. /\ S4 \in Seq(StackInfos) /\ Len(S4) = n
       /\ \A k \in 1..n : S4[k] = IF k = i THEN e4 ELSE S3[k]
  BY <1>10, <1>11, ReplacedFacts
<1> HIDE DEF S4
<1>13. \A k \in 1..n : Alike(S4[k], st[k])
  <2> TAKE k \in 1..n
  <2>1. Alike(S1[k], st[k])
    BY <1>4, <1>5 DEF Alike
  <2>2. Alike(S2[k], S1[k])
    BY <1>7, <1>8 DEF Alike
  <2>3. Alike(S3[k], S2[k])
    BY <1>9, <1>10 DEF Alike
  <2>4. Alike(S4[k], S3[k])
    BY <1>11, <1>12 DEF Alike
  <2> QED BY <2>1, <2>2, <2>3, <2>4 DEF Alike
<1>14. \A k \in (1..n) \ {hub, i} : S4[k] = st[k]
  BY <1>5, <1>8, <1>10, <1>12
<1>15. ASSUME NEW k \in {hub, i}, NEW q \in S4[k].non_ec_transitions
       PROVE  \E u \in st[hub].non_ec_transitions
                       \union st[i].non_ec_transitions \union {leg} :
                SccSuccessors(q) = SccSuccessors(u)
  <2>1. CASE k = i
    BY <2>1, <1>11, <1>12, <1>15
  <2>2. CASE k # i
    <3>1. S4[k] = e2
      BY <2>2, <1>8, <1>10, <1>12
    <3>2. q \in A
      BY <3>1, <1>7, <1>15
    <3> QED BY <3>2, <1>3
  <2> QED BY <2>1, <2>2
<1> HIDE DEF S4
<1> QED BY <1>1, <1>12, <1>13, <1>14, <1>15 DEF IsAttached

(* The stacks a spider construction may lead to: entries outside places    *)
(* stay, the others have transitions among the given states.               *)
SpiderStacks(stack, places, states) ==
  {T \in Seq(StackInfos) :
     /\ Len(T) = Len(stack)
     /\ \A k \in 1..Len(stack) :
          /\ Alike(T[k], stack[k])
          /\ k \notin places => T[k] = stack[k]
          /\ k \in places => \A q \in Transitions(T[k]) :
               SccSuccessors(q) # {} /\ SccSuccessors(q) \subseteq states}

(* The whole construction: entries stay what they are, and their           *)
(* transitions stay among the states they led to.                          *)
LEMMA SpiderFacts ==
  ASSUME NEW stack \in Seq(StackInfos), NEW where \in SUBSET (1..Len(stack)),
         NEW places \in Seq(where), places # <<>>, NEW states,
         \A k \in where :
           /\ stack[k].state \in states
           /\ \A q \in Transitions(stack[k]) :
                SccSuccessors(q) # {} /\ SccSuccessors(q) \subseteq states
  PROVE  Spider(stack, places) \in SpiderStacks(stack, where, states)
<1> DEFINE n == Len(stack)
           hub == Head(places)
           leg == Leg(stack[hub].state)
           seq == Tail(places)
           X == SpiderStacks(stack, where, states)
           run == CHOOSE f : f = [i \in 0..Len(seq) |->
                    IF i = 0 THEN stack
                    ELSE CHOOSE z \in {Attached(y, hub, seq[i], leg) :
                                         y \in {f[i - 1]}} : TRUE]
<1>1. n \in Nat /\ n = Len(stack)
  OBVIOUS
<1>2. /\ hub \in where /\ seq \in Seq(where) /\ Len(seq) \in Nat
      /\ \A i \in 1..Len(seq) : seq[i] \in where
  OBVIOUS
<1>4. Spider(stack, places) = run[Len(seq)]
  BY DEF Spider, Folded, Attached, Leg
<1> HIDE DEF hub, seq, n
<1>3. leg \in QValueInfos /\ SccSuccessors(leg) = {stack[hub].state}
  <2>1. hub \in 1..n
    BY <1>2 DEF n
  <2>2. stack[hub] \in StackInfos
    BY <2>1 DEF n
  <2> QED BY <2>2, EntryParts, LegFacts
<1> HIDE DEF leg

<1>5. stack \in X
  <2>1. \A k \in 1..n : Alike(stack[k], stack[k])
    BY DEF Alike
  <2> QED BY <2>1 DEF SpiderStacks, n
<1>6. ASSUME NEW y \in X, NEW i \in where PROVE Attached(y, hub, i, leg) \in X
  <2>1. /\ y \in Seq(StackInfos) /\ Len(y) = n
        /\ \A k \in 1..n :
             /\ Alike(y[k], stack[k])
             /\ k \notin where => y[k] = stack[k]
             /\ k \in where => \A q \in Transitions(y[k]) :
                  SccSuccessors(q) # {} /\ SccSuccessors(q) \subseteq states
    BY <1>6 DEF SpiderStacks, n
  <2>2. hub \in 1..n /\ i \in 1..n
    BY <1>1, <1>2
  <2>t. PICK T : T = Attached(y, hub, i, leg)
    OBVIOUS
  <2>3. /\ T \in Seq(StackInfos) /\ Len(T) = n
        /\ \A k \in 1..n : Alike(T[k], y[k])
        /\ \A k \in (1..n) \ {hub, i} : T[k] = y[k]
        /\ \A k \in {hub, i} : \A q \in T[k].non_ec_transitions :
             \E u \in y[hub].non_ec_transitions
                      \union y[i].non_ec_transitions \union {leg} :
               SccSuccessors(q) = SccSuccessors(u)
    <3>1. y \in Seq(StackInfos) /\ n \in Nat /\ n = Len(y) /\ leg \in QValueInfos
      BY <1>1, <1>3, <2>1
    <3>2. IsAttached(T, y, n, hub, i, leg)
      BY ONLY <2>2, <2>t, <3>1, AttachedFacts
    <3> QED BY ONLY <3>2 DEF IsAttached
  <2>4. ASSUME NEW k \in 1..n
        PROVE  /\ Alike(T[k], stack[k])
               /\ k \notin where => T[k] = stack[k]
               /\ k \in where => \A q \in Transitions(T[k]) :
                    SccSuccessors(q) # {} /\ SccSuccessors(q) \subseteq states
    <3>1. Alike(T[k], stack[k])
      BY <2>1, <2>3 DEF Alike
    <3>2. k \notin where => T[k] = stack[k]
      BY <1>2, <1>6, <2>1, <2>3
    <3>3. ASSUME k \in where, NEW q \in Transitions(T[k])
          PROVE  SccSuccessors(q) # {} /\ SccSuccessors(q) \subseteq states
      <4>1. CASE k \notin {hub, i} \/ q \in T[k].ec_transitions
        <5>1. q \in Transitions(y[k])
          BY <3>3, <4>1, <2>3 DEF Transitions, Alike
        <5> QED BY <3>3, <5>1, <2>1
      <4>2. CASE k \in {hub, i} /\ q \in T[k].non_ec_transitions
        <5>1. PICK u \in y[hub].non_ec_transitions
                      \union y[i].non_ec_transitions \union {leg} :
               SccSuccessors(q) = SccSuccessors(u)
          BY <4>2, <2>3
        <5>2. SccSuccessors(leg) # {} /\ SccSuccessors(leg) \subseteq states
          BY <1>2, <1>3
        <5>3. \A v \in Transitions(y[hub]) \union Transitions(y[i]) :
                SccSuccessors(v) # {} /\ SccSuccessors(v) \subseteq states
          BY <1>2, <1>6, <2>1, <2>2
        <5> QED BY <5>1, <5>2, <5>3 DEF Transitions
      <4> QED BY <3>3, <4>1, <4>2 DEF Transitions
    <3> QED BY <3>1, <3>2, <3>3
  <2> QED BY <2>t, <2>3, <2>4 DEF SpiderStacks, n
<1> HIDE DEF X, run
<1> DEFINE m == Len(seq)
           XX == [i \in 0..m |-> X]
           g == [p \in X \X (1..m) |-> Attached(p[1], hub, seq[p[2]], leg)]
<1>7. \A i \in 1..m : \A y \in X : g[<<y, i>>] = Attached(y, hub, seq[i], leg)
                                   /\ g[<<y, i>>] \in X
  BY <1>2, <1>6
<1>m. m \in Nat
  BY <1>2
<1>8. /\ \A i \in 0..m : XX[i] = X
      /\ \A i \in 1..m : XX[i - 1] = X /\ XX[i] = X
  OBVIOUS
<1> HIDE DEF g, XX, m
<1>9. PICK f : /\ f = [i \in 0..m |-> f[i]] /\ f[0] = stack
               /\ \A i \in 1..m : f[i] = g[<<f[i - 1], i>>]
               /\ \A i \in 0..m : f[i] \in X
  <2>1. stack \in XX[0]
    BY <1>5, <1>8, <1>m
  <2>2. \A i \in 1..m : \A x \in XX[i - 1] : g[<<x, i>>] \in XX[i]
    BY <1>7, <1>8
  <2>3. \E f : IsRun(f, m, XX, stack, g)
    BY ONLY <1>m, <2>1, <2>2, RunExists
  <2>4. PICK f : IsRun(f, m, XX, stack, g)
    BY <2>3
  <2>5. /\ f = [i \in 0..m |-> f[i]] /\ f[0] = stack
        /\ \A i \in 1..m : f[i] = g[<<f[i - 1], i>>]
        /\ \A i \in 0..m : f[i] \in XX[i]
    BY ONLY <2>4 DEF IsRun
  <2>6. \A i \in 0..m : f[i] \in X
    BY ONLY <2>5, <1>8
  <2> DEFINE IsIt(e) == /\ e = [i \in 0..m |-> e[i]] /\ e[0] = stack
                        /\ \A i \in 1..m : e[i] = g[<<e[i - 1], i>>]
                        /\ \A i \in 0..m : e[i] \in X
  <2>7. IsIt(f)
    BY <2>5, <2>6
  <2>8. \E e : IsIt(e)
    <3> HIDE DEF IsIt
    <3> QED BY <2>7
  <2> QED BY <2>8
<1>10. f = [i \in 0..m |-> IF i = 0 THEN stack
                    ELSE CHOOSE z \in {Attached(y, hub, seq[i], leg) :
                                         y \in {f[i - 1]}} : TRUE]
  <2>1. ASSUME NEW i \in 0..m
        PROVE  f[i] =
               (IF i = 0 THEN stack
                ELSE CHOOSE z \in {Attached(y, hub, seq[i], leg) :
                                         y \in {f[i - 1]}} : TRUE)
    <3>1. CASE i = 0
      BY <3>1, <1>9
    <3>2. CASE i # 0
      <4>1. i \in 1..m /\ i - 1 \in 0..m
        BY <3>2, <1>m
      <4>2. f[i] = Attached(f[i - 1], hub, seq[i], leg)
        BY <4>1, <1>7, <1>9
      <4> QED BY <3>2, <4>2
    <3> QED BY <3>1, <3>2
  <2>2. f = [i \in 0..m |-> f[i]]
    BY <1>9
  <2> QED BY <2>1, <2>2
<1>11. run = [i \in 0..m |-> IF i = 0 THEN stack
                    ELSE CHOOSE z \in {Attached(y, hub, seq[i], leg) :
                                         y \in {run[i - 1]}} : TRUE]
  BY <1>10 DEF run, m
<1>12. run[0] \in X
  <2>1. 0 \in 0..m
    BY <1>m
  <2> QED BY <2>1, <1>5, <1>11
<1>13. \A i \in 1..m : run[i - 1] \in X => run[i] \in X
  <2> TAKE i \in 1..m
  <2> HAVE run[i - 1] \in X
  <2>1. i \in 0..m /\ i # 0
    BY <1>m
  <2>2. run[i] = CHOOSE z \in {Attached(y, hub, seq[i], leg) :
                                 y \in {run[i - 1]}} : TRUE
    BY <2>1, <1>11
  <2>3. run[i] = Attached(run[i - 1], hub, seq[i], leg)
    BY <2>2
  <2> QED BY <2>3, <1>2, <1>6 DEF m
<1>14. \A i \in 0..m : run[i] \in XX[i]
  <2>1. run[0] \in XX[0]
    BY <1>8, <1>12, <1>m
  <2>2. \A i \in 1..m : run[i - 1] \in XX[i - 1] => run[i] \in XX[i]
    BY <1>8, <1>13
  <2> QED BY ONLY <1>m, <2>1, <2>2, RunIn
<1>15. m \in 0..m
  BY <1>m
<1> QED BY <1>4, <1>8, <1>14, <1>15 DEF m, X
-----------------------------------------------------------------------------
(* The component of a root.                                                *)

(* A root is as low as its entry: what is near is in its component.        *)
LEMMA RootNear ==
  ASSUME StacksOK, FramesOK, dfs_stack # <<>>, IsRoot(Top),
         NEW i \in Places, NEW t
  PROVE  IsNear(i, t) <=> t \in Members
<1>n. PICK n : n = Len(tarjan_stack)
  OBVIOUS
<1>L. PICK L : L = Len(dfs_stack)
  OBVIOUS
<1>b. PICK b : b = Top.stackidx
  OBVIOUS
<1>1. /\ Top = dfs_stack[L] /\ L \in Nat \ {0} /\ L \in 1..L
      /\ DOMAIN dfs_stack = 1..L
      /\ DOMAIN tarjan_stack = 1..n /\ n \in Nat /\ b \in 1..n
      /\ dfs_stack[L].stackidx = b /\ dfs_stack[L].lowlink = b
  BY <1>n, <1>L, <1>b, TopFacts DEF IsRoot
<1>2. Places = b..n /\ Members = {tarjan_stack[k].state : k \in b..n}
  BY <1>n, <1>b DEF Places, Members
<1>3. ASSUME NEW j \in 1..L
      PROVE  /\ dfs_stack[j].stackidx \in 1..n /\ ~(i < dfs_stack[j].stackidx)
             /\ (\A m \in 1..L : m > j => i < dfs_stack[m].stackidx) => j = L
  <2>0. i \in b..n
    BY <1>2
  <2>1. dfs_stack[j].stackidx \in 1..n
    BY <1>1 DEF FramesOK
  <2>2. j < L => dfs_stack[j].stackidx < b
    BY <1>1 DEF FramesOK
  <2>3. j = L \/ j < L
    BY <1>1
  <2>4. ~(i < dfs_stack[j].stackidx)
    BY <1>1, <2>0, <2>1, <2>2, <2>3
  <2>5. ~(i < dfs_stack[L].stackidx)
    BY <1>1, <2>0
  <2> QED BY <1>1, <2>1, <2>3, <2>4, <2>5
<1>4. \A k \in 1..n : Near(i, k) <=> b <= k
  <2> TAKE k \in 1..n
  <2>1. ASSUME Near(i, k) PROVE b <= k
    <3>1. dfs_stack[L].stackidx <= i
      BY <1>1, <1>2
    <3>2. \A m \in 1..L : ~(m > L)
      BY <1>1
    <3> QED BY <1>1, <2>1, <3>1, <3>2 DEF Near
  <2>2. ASSUME b <= k PROVE Near(i, k)
    BY <1>1, <1>3, <2>2 DEF Near
  <2> QED BY <2>1, <2>2
<1>5. \A k : k \in b..n <=> k \in 1..n /\ b <= k
  BY <1>1
<1> QED BY <1>1, <1>2, <1>4, <1>5 DEF IsNear

(* The component of a root, and the transitions in it.                     *)
LEMMA RootFacts ==
  ASSUME IInv, dfs_stack # <<>>, ~Stopped, IsRoot(Top)
  PROVE  /\ Len(tarjan_stack) \in Nat /\ Top.stackidx \in 1..Len(tarjan_stack)
         /\ Places \subseteq 1..Len(tarjan_stack)
         /\ DOMAIN tarjan_stack = 1..Len(tarjan_stack)
         /\ \A i \in Places :
              /\ tarjan_stack[i].state \in Members
              /\ tarjan_stack[i] \in StackInfos
              /\ \A q \in Transitions(tarjan_stack[i]) : IsAmong(q)
         /\ Members \subseteq State
<1>1. StacksOK /\ FramesOK /\ SuccessorsOK
  BY DEF IInv
<1>2. /\ Len(tarjan_stack) \in Nat /\ Top.stackidx \in 1..Len(tarjan_stack)
      /\ DOMAIN tarjan_stack = 1..Len(tarjan_stack)
  BY <1>1, TopFacts
<1>3. Places \subseteq 1..Len(tarjan_stack)
  BY <1>2 DEF Places
<1>4. \A i \in Places : tarjan_stack[i].state \in Members
                        /\ tarjan_stack[i] \in StackInfos
  BY <1>1, <1>2, <1>3 DEF Members, StacksOK
<1>5. ASSUME NEW i \in Places, NEW q \in Transitions(tarjan_stack[i])
      PROVE  IsAmong(q)
  <2>1. SccSuccessors(q) # {} /\ \A t \in SccSuccessors(q) : IsNear(i, t)
    BY <1>1, <1>2, <1>3, <1>5 DEF SuccessorsOK
  <2> QED BY <2>1, <1>1, RootNear DEF IsAmong
<1>6. Members \subseteq State
  BY <1>4, EntryParts DEF Members
<1> QED BY <1>2, <1>3, <1>4, <1>5, <1>6

(* It stays the same while states and links do.                            *)
LEMMA MembersKept ==
  ASSUME tarjan_stack \in Seq(StackInfos), FramesOK, dfs_stack # <<>>,
         Top.stackidx \in 1..Len(tarjan_stack), UNCHANGED dfs_stack,
         SameLinks(tarjan_stack, tarjan_stack')
  PROVE  Places' = Places /\ Members' = Members /\ Top' = Top
<1>1. Top' = Top
  BY DEF Top
<1>2. Places' = Places
  BY <1>1 DEF Places, SameLinks
<1>3. Places \subseteq 1..Len(tarjan_stack)
  BY DEF Places
<1>4. \A i \in Places : tarjan_stack'[i].state = tarjan_stack[i].state
  BY <1>3 DEF SameLinks
<1>5. Members' = {tarjan_stack'[i].state : i \in Places}
  BY <1>2 DEF Members
<1> QED BY <1>1, <1>2, <1>4, <1>5 DEF Members

(* Once a component is complete the frames stay until it is closed.        *)
RootedPCs == ECDPCs \union AnalysisPCs

(* A step at a root that keeps the stacks in order keeps the invariant.    *)
LEMMA RootedRest ==
  ASSUME IInv, pc \in {"transition"} \union RootedPCs, Top.aops = {}, IsRoot(Top),
         UNCHANGED <<initial_state, dfs_stack>>,
         pc' \in RootedPCs,
         explored' \subseteq State, value' \in [State -> Int],
         sweep' \in [next : Nat, converged : BOOLEAN],
         pc' \in SweepPCs => sweep'.next \in Top.stackidx..(Len(tarjan_stack') + 1),
         StacksOK', StackPart', Indexed', SecondSearchOK', AnalysisOK'
  PROVE  IInv'
<1>1. ValuesOK /\ ControlOK
  BY DEF IInv
<1>2. pc # "solve" /\ ~Stopped /\ pc' # "solve" /\ ~Stopped' /\ pc' \in PCs
      /\ pc' \notin {"transition", "successor"} /\ pc # "successor"
  BY DEF RootedPCs, ECDPCs, AnalysisPCs, Stopped, PCs
<1>3. dfs_stack # <<>> /\ Top' = Top /\ Chained /\ SccSuccessors(Top.q_value) = {}
  BY <1>1, <1>2 DEF ControlOK, Top, RootedPCs
<1>4. Chained'
  BY <1>3 DEF Chained, Exploring
<1>5. /\ dfs_stack' # <<>> /\ SccSuccessors(Top.q_value)' = {}
      /\ Top'.aops = {} /\ IsRoot(Top)'
      /\ pc' \in SweepPCs => sweep'.next \in Top'.stackidx..(Len(tarjan_stack') + 1)
  BY <1>3 DEF SccSuccessors, IsRoot
<1>6. ControlOK'
  BY ONLY <1>2, <1>4, <1>5 DEF ControlOK
<1>7. ValuesOK'
  BY <1>1, <1>2 DEF ValuesOK
<1> QED BY <1>6, <1>7 DEF IInv, StackPart

(* A spider construction among the members.                                *)
LEMMA SpiderStep ==
  ASSUME IInv, dfs_stack # <<>>, ~Stopped, IsRoot(Top), UNCHANGED dfs_stack,
         NEW places \in Seq(Places), places # <<>>,
         tarjan_stack' = Spider(tarjan_stack, places)
  PROVE  /\ tarjan_stack' \in Seq(StackInfos) /\ StackPart'
         /\ SameLinks(tarjan_stack, tarjan_stack')
<1>1. StacksOK /\ StackPart /\ FramesOK /\ LinksOK /\ SuccessorsOK /\ CountersOK
      /\ tarjan_stack \in Seq(StackInfos)
  BY DEF IInv, StackPart, StacksOK
<1>n. PICK n : n = Len(tarjan_stack)
  OBVIOUS
<1>P. PICK P : P = Places
  OBVIOUS
<1>S. PICK S : S = Members
  OBVIOUS
<1>T. PICK T : T = tarjan_stack'
  OBVIOUS
<1>2. /\ n \in Nat /\ P \subseteq 1..n /\ DOMAIN tarjan_stack = 1..n
      /\ \A i \in P :
           /\ tarjan_stack[i].state \in S
           /\ \A q \in Transitions(tarjan_stack[i]) :
                SccSuccessors(q) # {} /\ SccSuccessors(q) \subseteq S
  BY <1>n, <1>P, <1>S, RootFacts DEF IsAmong
<1>3. T \in SpiderStacks(tarjan_stack, P, S)
  <2>1. /\ P \in SUBSET (1..Len(tarjan_stack)) /\ places \in Seq(P) /\ places # <<>>
        /\ \A k \in P :
             /\ tarjan_stack[k].state \in S
             /\ \A q \in Transitions(tarjan_stack[k]) :
                  SccSuccessors(q) # {} /\ SccSuccessors(q) \subseteq S
    BY <1>2, <1>n, <1>P
  <2>2. Spider(tarjan_stack, places) \in SpiderStacks(tarjan_stack, P, S)
    BY ONLY <1>1, <2>1, SpiderFacts
  <2> QED BY <2>2, <1>T
<1>4. /\ T \in Seq(StackInfos) /\ Len(T) = n
      /\ \A k \in 1..n :
           /\ Alike(T[k], tarjan_stack[k])
           /\ k \notin P => T[k] = tarjan_stack[k]
           /\ k \in P => \A q \in Transitions(T[k]) :
                SccSuccessors(q) # {} /\ SccSuccessors(q) \subseteq S
  BY <1>3, <1>n DEF SpiderStacks
<1>5. SameLinks(tarjan_stack, T)
  <2>1. \A k \in 1..n : /\ T[k].state = tarjan_stack[k].state
                        /\ T[k].parents = tarjan_stack[k].parents
                        /\ T[k].transition_flags = tarjan_stack[k].transition_flags
    BY <1>4 DEF Alike
  <2> QED BY <2>1, <1>4, <1>n DEF SameLinks
<1>6. ASSUME NEW i \in 1..n, NEW q \in Transitions(T[i])
      PROVE  SccSuccessors(q) # {} /\ \A t \in SccSuccessors(q) : IsNear(i, t)
  <2>1. CASE i \in P
    <3>1. SccSuccessors(q) # {} /\ SccSuccessors(q) \subseteq Members
      BY <2>1, <1>4, <1>6, <1>S
    <3>2. i \in Places
      BY <2>1, <1>P
    <3> QED BY <3>1, <3>2, <1>1, RootNear
  <2>2. CASE i \notin P
    BY <2>2, <1>1, <1>2, <1>4, <1>6 DEF SuccessorsOK
  <2> QED BY <2>1, <2>2
<1>7. FramesOK' /\ SuccessorsOK' /\ LinksOK'
  <2>1. /\ tarjan_stack' \in Seq(StackInfos)
        /\ SameLinks(tarjan_stack, tarjan_stack')
        /\ \A i \in DOMAIN tarjan_stack : \A q \in Transitions(tarjan_stack'[i]) :
             /\ SccSuccessors(q) # {}
             /\ \A t \in SccSuccessors(q) : IsNear(i, t)
    BY <1>2, <1>4, <1>5, <1>6, <1>T
  <2> QED BY <1>1, <2>1, EntriesChanged
<1>8. CountersOK'
  <2>1. \A i \in 1..n : CounterOK(tarjan_stack[i])
    BY <1>1, <1>2 DEF CountersOK, CounterOK
  <2>2. ASSUME NEW i \in 1..n PROVE CounterOK(T[i])
    <3>d. PICK d : d = T[i]
      OBVIOUS
    <3>e. PICK e : e = tarjan_stack[i]
      OBVIOUS
    <3>1. /\ d.transition_flags = e.transition_flags
          /\ d.active_transitions = e.active_transitions
          /\ d.active_exit_transitions = e.active_exit_transitions
      BY <1>4, <3>d, <3>e DEF Alike
    <3>2. ActiveFlags(d) = ActiveFlags(e) /\ ExitFlags(d) = ExitFlags(e)
      BY <3>1 DEF ActiveFlags, ExitFlags
    <3>3. CounterOK(e)
      BY <2>1, <3>e
    <3>4. CounterOK(d)
      BY <3>1, <3>2, <3>3 DEF CounterOK
    <3> QED BY <3>4, <3>d
  <2>3. DOMAIN T = 1..n
    BY <1>4
  <2>4. ASSUME NEW i \in 1..n, NEW e, e = T[i]
        PROVE  /\ ExitFlags(e) \subseteq ActiveFlags(e)
               /\ e.active_transitions - Cardinality(ActiveFlags(e)) >= 0
               /\ e.active_exit_transitions =
                    e.active_transitions - Cardinality(ActiveFlags(e))
                    + Cardinality(ExitFlags(e))
    <3>1. CounterOK(e)
      BY <2>2, <2>4
    <3> QED BY ONLY <3>1 DEF CounterOK
  <2> QED BY <2>3, <2>4, <1>T DEF CountersOK, ActiveFlags, ExitFlags
<1> QED BY <1>4, <1>5, <1>7, <1>8, <1>T DEF StackPart

(* scc_found: the component is one trap,                                   *)
LEMMA SccFoundTrapStep == ASSUME IInv, SccFoundTrap PROVE IInv'
<1>1. /\ ValuesOK /\ StacksOK /\ StackPart /\ FramesOK /\ ControlOK /\ Indexed
      /\ SecondSearchOK /\ tarjan_stack \in Seq(StackInfos)
  BY DEF IInv, StackPart, StacksOK
<1>2. /\ pc = "transition" /\ Top.aops = {} /\ IsRoot(Top)
      /\ tarjan_stack' = Spider(tarjan_stack,
                     [i \in 1..Cardinality(Places) |-> Top.stackidx + i - 1])
      /\ pc' = "solvability"
      /\ UNCHANGED <<initial_state, explored, value, dfs_stack, ecd_vars,
                     analysis_vars, sweep>>
  BY DEF SccFoundTrap
<1>3. ~Stopped /\ dfs_stack # <<>>
  BY <1>1, <1>2 DEF ControlOK, Stopped
<1>n. PICK n : n = Len(tarjan_stack)
  OBVIOUS
<1>b. PICK b : b = Top.stackidx
  OBVIOUS
<1>s. PICK places : places = [i \in 1..Cardinality(Places) |-> Top.stackidx + i - 1]
  OBVIOUS
<1>4. n \in Nat /\ b \in 1..n /\ Places = b..n
      /\ DOMAIN tarjan_stack = 1..n
  BY <1>2, <1>3, <1>n, <1>b, RootFacts DEF Places
<1>5. Cardinality(Places) = n - b + 1
  <2>1. b \in Int /\ n \in Int /\ b <= n
    BY <1>4
  <2> QED BY <1>4, <2>1, FS_Interval
<1>6. places \in Seq(Places) /\ places # <<>>
  <2>1. places = [i \in 1..(n - b + 1) |-> b + i - 1]
    BY <1>5, <1>b, <1>s
  <2>m. PICK m : m = n - b + 1
    OBVIOUS
  <2>2. m \in Nat \ {0} /\ \A i \in 1..m : b + i - 1 \in b..n
    BY <1>4, <2>m
  <2>3. places \in [1..m -> Places]
    BY <1>4, <2>1, <2>2, <2>m
  <2> QED BY <2>2, <2>3
<1>7. /\ tarjan_stack' \in Seq(StackInfos) /\ StackPart'
      /\ SameLinks(tarjan_stack, tarjan_stack')
  <2>1. tarjan_stack' = Spider(tarjan_stack, places) /\ UNCHANGED dfs_stack
    BY <1>2, <1>s
  <2>2. IInv /\ IsRoot(Top)
    BY <1>2
  <2> QED BY ONLY <1>3, <1>6, <2>1, <2>2, SpiderStep
<1>8. Indexed'
  <2>1. pc \notin ECDPCs
    BY <1>2 DEF ECDPCs
  <2>2. DOMAIN tarjan_stack' = 1..n /\ n \in 0..n
    BY <1>4, <1>7, <1>n DEF SameLinks
  <2>3. \A i \in 1..n : tarjan_stack'[i].state = tarjan_stack[i].state
    BY <1>7, <1>n DEF SameLinks
  <2>4. UNCHANGED <<explored, scc>>
    BY <1>2 DEF ecd_vars
  <2> QED BY ONLY <1>1, <1>3, <1>4, <2>1, <2>2, <2>3, <2>4, SameIndex
<1>9. SecondSearchOK' /\ AnalysisOK'
  BY <1>1, <1>2, OtherPhases DEF ECDPCs
<1>10. StacksOK' /\ explored' \subseteq State /\ value' \in [State -> Int]
       /\ sweep' \in [next : Nat, converged : BOOLEAN]
  BY <1>1, <1>2, <1>7 DEF StacksOK, ValuesOK, ecd_vars
<1>11. pc \in {"transition"} \union RootedPCs /\ pc' \in RootedPCs /\ pc' \notin SweepPCs
  BY <1>2 DEF RootedPCs, AnalysisPCs, SweepPCs
<1> QED BY <1>2, <1>7, <1>8, <1>9, <1>10, <1>11, RootedRest

(* or is searched for traps.                                               *)
LEMMA SccFoundMixedStep == ASSUME IInv, SccFoundMixed PROVE IInv'
<1>1. /\ ValuesOK /\ StacksOK /\ StackPart /\ FramesOK /\ ControlOK /\ Indexed
      /\ SecondSearchOK /\ tarjan_stack \in Seq(StackInfos)
  BY DEF IInv, StackPart, StacksOK
<1>2. /\ pc = "transition" /\ Top.aops = {} /\ IsRoot(Top)
      /\ scc' = [i \in 1..Cardinality(Places) |->
                   tarjan_stack[Top.stackidx + i - 1].state]
      /\ explored' = explored \ Members
      /\ pc' = "ecd_root"
      /\ UNCHANGED <<initial_state, value, dfs_stack, tarjan_stack, scc_queue,
                 ecd_frames, ecd_stack, analysis_vars, sweep>>
  BY DEF SccFoundMixed
<1>3. ~Stopped /\ dfs_stack # <<>>
  BY <1>1, <1>2 DEF ControlOK, Stopped
<1>n. PICK n : n = Len(tarjan_stack)
  OBVIOUS
<1>b. PICK b : b = Top.stackidx
  OBVIOUS
<1>m. PICK m : m = n - b + 1
  OBVIOUS
<1>4. /\ n \in Nat /\ b \in 1..n /\ Places = b..n
      /\ DOMAIN tarjan_stack = 1..n /\ Members \subseteq State
      /\ \A i \in b..n : tarjan_stack[i].state \in Members
  BY <1>2, <1>3, <1>n, <1>b, RootFacts DEF Places
<1>5. Cardinality(Places) = m /\ m \in Nat
  <2>1. b \in Int /\ n \in Int /\ b <= n /\ m \in Nat
    BY <1>4, <1>m
  <2> QED BY <1>4, <1>m, <2>1, FS_Interval
<1>6. scc' = [i \in 1..m |-> tarjan_stack[b + i - 1].state]
  BY <1>2, <1>5, <1>b
<1>7. \A i \in 1..m : b + i - 1 \in b..n
  BY <1>4, <1>m
<1>8. /\ scc' \in [1..m -> Members] /\ scc' \in Seq(State) /\ DOMAIN scc' = 1..m
      /\ ToSet(scc') \subseteq Members
  <2>1. scc' \in [1..m -> Members]
    BY <1>4, <1>6, <1>7
  <2> QED BY <2>1, <1>4, <1>5 DEF ToSet
<1>9. Members \subseteq ToSet(scc')
  <2> SUFFICES ASSUME NEW k \in b..n PROVE tarjan_stack[k].state \in ToSet(scc')
    BY <1>4 DEF Members
  <2>1. k - b + 1 \in 1..m /\ b + (k - b + 1) - 1 = k
    BY <1>4, <1>m
  <2>2. scc'[k - b + 1] = tarjan_stack[k].state
    BY <1>6, <2>1
  <2> QED BY <1>8, <2>1, <2>2 DEF ToSet
<1>10. Indexed'
  <2>1. \A i, k \in DOMAIN tarjan_stack' :
          tarjan_stack'[i].state = tarjan_stack'[k].state => i = k
    BY <1>1, <1>2 DEF Indexed
  <2>2. ToSet(scc) = {}
    BY <1>1, <1>2 DEF Indexed, ECDPCs, ToSet
  <2>3. \A i \in DOMAIN tarjan_stack' :
          tarjan_stack'[i].state \in explored' \union ToSet(scc')
    BY <1>1, <1>2, <1>3, <1>9, <2>2 DEF Indexed
  <2> QED BY <1>2, <2>1, <2>3 DEF Indexed, ECDPCs
<1>11. Members' = Members
  BY <1>2 DEF Members, Places, Top
<1>12. SecondSearchOK'
  <2>1. ecd_frames = <<>> /\ ecd_stack = <<>> /\ scc_queue = <<>>
    BY <1>1, <1>2 DEF SecondSearchOK, ECDPCs
  <2>2. ecd_frames' = <<>> /\ ecd_stack' = <<>> /\ scc_queue' = <<>>
        /\ ToSet(ecd_stack') = {} /\ pc' = "ecd_root"
    BY <1>2, <2>1 DEF ToSet
  <2> QED BY <1>8, <1>11, <2>2 DEF SecondSearchOK, ECDPCs
<1>13. AnalysisOK'
  BY <1>2 DEF AnalysisOK, PartitionAgrees
<1>14. StackPart'
  <2>1. UNCHANGED <<dfs_stack, tarjan_stack>>
    BY <1>2
  <2> QED BY <1>1, <1>3, <2>1, SameStacks
<1>15. StacksOK' /\ explored' \subseteq State /\ value' \in [State -> Int]
       /\ sweep' \in [next : Nat, converged : BOOLEAN]
  BY <1>1, <1>2, <1>8 DEF StacksOK, ValuesOK
<1>16. pc \in {"transition"} \union RootedPCs /\ pc' \in RootedPCs /\ pc' \notin SweepPCs
  BY <1>2 DEF RootedPCs, ECDPCs, SweepPCs
<1> QED BY <1>2, <1>10, <1>12, <1>13, <1>14, <1>15, <1>16, RootedRest
-----------------------------------------------------------------------------
(* The second search.                                                      *)

(* The frames of the second search while its stack has m states; the last  *)
(* of them is in the middle of a transition, or is not.                    *)
FrameAmong(f) ==
  /\ f.place \in Places
  /\ f.successors \subseteq Members
  /\ \A q \in f.todo : IsAmong(q)

FramesAmong(frames, m, waiting) ==
  /\ frames \in Seq(ECDExplorationInfos)
  /\ \A i \in 1..Len(frames) :
       /\ frames[i].lowlink \in 1..frames[i].stackidx
       /\ frames[i].stackidx \in 1..m
       /\ FrameAmong(frames[i])
       /\ waiting \/ i < Len(frames) => IsAmong(frames[i].action)
  /\ \A i, k \in 1..Len(frames) :
       i < k => frames[i].stackidx < frames[k].stackidx
  /\ frames # <<>> => frames[1].stackidx = 1

(* Frames of the second search: one on top of them replaced,               *)
LEMMA FramesReplaced ==
  ASSUME NEW frames, NEW m \in Nat, NEW w, FramesAmong(frames, m, w),
         frames # <<>>, NEW g \in ECDExplorationInfos,
         g.stackidx = Last(frames).stackidx, g.lowlink \in 1..g.stackidx,
         FrameAmong(g), NEW v, v => IsAmong(g.action)
  PROVE  FramesAmong(WithTop(frames, g), m, v)
<1>L. PICK L : L = Len(frames)
  OBVIOUS
<1>G. PICK G : G = WithTop(frames, g)
  OBVIOUS
<1>1. frames \in Seq(ECDExplorationInfos)
  BY DEF FramesAmong
<1>2. /\ G \in Seq(ECDExplorationInfos) /\ Len(G) = L /\ L \in Nat \ {0}
      /\ Last(frames) = frames[L]
      /\ \A i \in 1..L : G[i] = IF i = L THEN g ELSE frames[i]
  <2>1. frames # <<>> /\ g \in ECDExplorationInfos
    OBVIOUS
  <2>2. /\ WithTop(frames, g) \in Seq(ECDExplorationInfos)
        /\ Len(WithTop(frames, g)) = Len(frames)
        /\ \A i \in 1..Len(frames) :
             WithTop(frames, g)[i] = IF i = Len(frames) THEN g ELSE frames[i]
    BY ONLY <1>1, <2>1, WithTopFacts
  <2>3. Len(frames) \in Nat \ {0} /\ Last(frames) = frames[Len(frames)]
    BY <1>1, <2>1 DEF Last
  <2> QED BY ONLY <2>2, <2>3, <1>L, <1>G
<1>3. /\ \A i \in 1..L :
           /\ frames[i].lowlink \in 1..frames[i].stackidx
           /\ frames[i].stackidx \in 1..m /\ FrameAmong(frames[i])
           /\ i < L => IsAmong(frames[i].action)
      /\ \A i, k \in 1..L : i < k => frames[i].stackidx < frames[k].stackidx
      /\ frames[1].stackidx = 1
  BY <1>L DEF FramesAmong
<1>4. \A i \in 1..L : G[i].stackidx = frames[i].stackidx
  BY <1>2
<1>5. \A i \in 1..L : /\ G[i].lowlink \in 1..G[i].stackidx
                      /\ G[i].stackidx \in 1..m /\ FrameAmong(G[i])
                      /\ v \/ i < L => IsAmong(G[i].action)
  <2> TAKE i \in 1..L
  <2>1. CASE i = L
    BY <2>1, <1>2, <1>3
  <2>2. CASE i # L
    BY <2>2, <1>2, <1>3
  <2> QED BY <2>1, <2>2
<1>6. /\ \A i, k \in 1..L : i < k => G[i].stackidx < G[k].stackidx
      /\ G[1].stackidx = 1
  BY <1>2, <1>3, <1>4
<1>7. FramesAmong(G, m, v)
  BY ONLY <1>2, <1>5, <1>6 DEF FramesAmong
<1> QED BY <1>7, <1>G

(* pushed,                                                                 *)
LEMMA FramesPushed ==
  ASSUME NEW frames, NEW m \in Nat, FramesAmong(frames, m, TRUE),
         frames = <<>> => m = 0, NEW g \in ECDExplorationInfos,
         g.stackidx = m + 1, g.lowlink = m + 1, FrameAmong(g)
  PROVE  FramesAmong(Append(frames, g), m + 1, FALSE)
<1>L. PICK L : L = Len(frames)
  OBVIOUS
<1>G. PICK G : G = Append(frames, g)
  OBVIOUS
<1>1. frames \in Seq(ECDExplorationInfos)
  BY DEF FramesAmong
<1>2. /\ G \in Seq(ECDExplorationInfos) /\ Len(G) = L + 1 /\ L \in Nat
      /\ \A i \in 1..(L + 1) : G[i] = IF i = L + 1 THEN g ELSE frames[i]
  BY <1>1, <1>L, <1>G, PushFacts
<1>3. /\ \A i \in 1..L :
           /\ frames[i].lowlink \in 1..frames[i].stackidx
           /\ frames[i].stackidx \in 1..m /\ FrameAmong(frames[i])
           /\ IsAmong(frames[i].action)
      /\ \A i, k \in 1..L : i < k => frames[i].stackidx < frames[k].stackidx
      /\ frames # <<>> => frames[1].stackidx = 1
  BY <1>L DEF FramesAmong
<1>4. /\ \A i \in 1..L : G[i] = frames[i]
      /\ G[L + 1] = g
      /\ \A i \in 1..(L + 1) : i \in 1..L \/ i = L + 1
  BY <1>2
<1>5. ASSUME NEW i \in 1..(L + 1)
      PROVE  /\ G[i].lowlink \in 1..G[i].stackidx
             /\ G[i].stackidx \in 1..(m + 1) /\ FrameAmong(G[i])
             /\ i < L + 1 => IsAmong(G[i].action)
  <2>1. CASE i = L + 1
    BY <2>1, <1>2, <1>4
  <2>2. CASE i \in 1..L
    <3>1. frames[i].stackidx \in 1..(m + 1)
      BY <2>2, <1>3
    <3> QED BY <3>1, <2>2, <1>3, <1>4
  <2> QED BY <1>4, <2>1, <2>2
<1>6. ASSUME NEW i \in 1..(L + 1), NEW k \in 1..(L + 1), i < k
      PROVE  G[i].stackidx < G[k].stackidx
  <2>1. i \in 1..L
    BY <1>2, <1>6
  <2>2. CASE k = L + 1
    BY <2>1, <2>2, <1>3, <1>4
  <2>3. CASE k \in 1..L
    BY <2>1, <2>3, <1>3, <1>4, <1>6
  <2> QED BY <1>4, <2>2, <2>3
<1>7. G[1].stackidx = 1
  <2>1. CASE L = 0
    <3>1. frames = <<>>
      BY <2>1, <1>1, <1>L
    <3> QED BY <2>1, <3>1, <1>4
  <2>2. CASE L # 0
    <3>1. 1 \in 1..L /\ frames # <<>>
      BY <2>2, <1>2, <1>L
    <3> QED BY <3>1, <1>3, <1>4
  <2> QED BY <2>1, <2>2
<1>8. FramesAmong(G, m + 1, FALSE)
  BY ONLY <1>2, <1>5, <1>6, <1>7 DEF FramesAmong
<1> QED BY <1>8, <1>G

(* or popped.                                                              *)
LEMMA FramesPopped ==
  ASSUME NEW frames, NEW m \in Nat, NEW w, FramesAmong(frames, m, w),
         NEW L, L = Len(frames), L > 1,
         NEW k \in (Last(frames).stackidx - 1)..m
  PROVE  /\ FramesAmong(Front(frames), k, TRUE) /\ Front(frames) # <<>>
         /\ Last(Front(frames)) = frames[L - 1] /\ L \in Nat
         /\ Last(frames) = frames[L]
<1>G. PICK G : G = Front(frames)
  OBVIOUS
<1>M. PICK M : M = L - 1
  OBVIOUS
<1>1. frames \in Seq(ECDExplorationInfos)
  BY DEF FramesAmong
<1>2. L \in Nat /\ frames # <<>> /\ M \in Nat \ {0} /\ M < L /\ 1..M \subseteq 1..L
  <2>1. L \in Nat
    BY <1>1
  <2> QED BY <1>M, <1>1, <2>1
<1>3. /\ G \in Seq(ECDExplorationInfos) /\ Len(G) = M
      /\ \A i \in 1..M : G[i] = frames[i]
      /\ G # <<>>
  BY <1>1, <1>2, <1>G, <1>M, FrontFacts
<1>4. Last(frames) = frames[L] /\ Last(G) = frames[M]
  <2>1. M \in 1..M
    BY <1>2
  <2> QED BY <1>3, <2>1 DEF Last
<1>5. /\ \A i \in 1..L :
           /\ frames[i].lowlink \in 1..frames[i].stackidx
           /\ frames[i].stackidx \in 1..m /\ FrameAmong(frames[i])
           /\ i < L => IsAmong(frames[i].action)
      /\ \A i, j \in 1..L : i < j => frames[i].stackidx < frames[j].stackidx
      /\ frames[1].stackidx = 1
  BY <1>2 DEF FramesAmong
<1>6. ASSUME NEW i \in 1..M
      PROVE  /\ G[i].lowlink \in 1..G[i].stackidx
             /\ G[i].stackidx \in 1..k /\ FrameAmong(G[i])
             /\ IsAmong(G[i].action)
  <2>1. i \in 1..L /\ L \in 1..L /\ i < L
    BY <1>2
  <2>2. frames[i].stackidx < frames[L].stackidx
    BY <1>5, <2>1
  <2>3. frames[i].stackidx \in 1..m /\ frames[L].stackidx \in 1..m
    BY <1>5, <2>1
  <2>4. k \in (frames[L].stackidx - 1)..m
    BY <1>4
  <2>5. frames[i].stackidx \in 1..k
    BY <2>2, <2>3, <2>4
  <2> QED BY <1>3, <1>5, <2>1, <2>5
<1>7. /\ \A i, j \in 1..M : i < j => G[i].stackidx < G[j].stackidx
      /\ G[1].stackidx = 1
  <2>1. 1 \in 1..M
    BY <1>2
  <2> QED BY <2>1, <1>2, <1>3, <1>5
<1>8. FramesAmong(G, k, TRUE)
  BY ONLY <1>3, <1>6, <1>7 DEF FramesAmong
<1> QED BY <1>2, <1>3, <1>4, <1>8, <1>G, <1>M

(* What holds during the second search, and what a step of it has to keep. *)
Waiting == pc = "ecd_successor"

(* What the invariant says of the second search.                           *)
LEMMA SecondSearchFacts ==
  ASSUME IInv, pc \in ECDPCs
  PROVE  /\ ~Stopped /\ dfs_stack # <<>> /\ IsRoot(Top) /\ Top.aops = {}
         /\ FramesAmong(ecd_frames, Len(ecd_stack), Waiting)
         /\ ecd_stack \in Seq(Members) /\ scc \in Seq(Members)
         /\ Len(ecd_stack) \in Nat
         /\ pc \in {"ecd_transition", "ecd_successor"} => ecd_frames # <<>>
         /\ \A k \in DOMAIN scc_queue : ToSet(scc_queue[k]) \subseteq Members
<1>1. ControlOK /\ StacksOK /\ SecondSearchOK
  BY DEF IInv
<1>2. ~Stopped /\ pc # "solve"
  BY DEF ECDPCs, Stopped
<1>3. dfs_stack # <<>> /\ IsRoot(Top) /\ Top.aops = {}
  BY <1>1, <1>2 DEF ControlOK
<1>4. FramesAmong(ecd_frames, Len(ecd_stack), Waiting)
  <2>1. /\ ecd_frames \in Seq(ECDExplorationInfos)
        /\ DOMAIN ecd_frames = 1..Len(ecd_frames)
    BY <1>1 DEF StacksOK
  <2>2. \A i \in 1..Len(ecd_frames) :
           /\ ecd_frames[i].lowlink \in 1..ecd_frames[i].stackidx
           /\ ecd_frames[i].stackidx \in 1..Len(ecd_stack)
           /\ FrameAmong(ecd_frames[i])
           /\ Waiting \/ i < Len(ecd_frames) => IsAmong(ecd_frames[i].action)
    BY <1>1, <2>1 DEF SecondSearchOK, FrameAmong, Waiting
  <2>3. /\ \A i, k \in 1..Len(ecd_frames) :
             i < k => ecd_frames[i].stackidx < ecd_frames[k].stackidx
        /\ ecd_frames # <<>> => ecd_frames[1].stackidx = 1
    BY <1>1, <2>1 DEF SecondSearchOK
  <2> QED BY ONLY <2>1, <2>2, <2>3 DEF FramesAmong
<1>5. ecd_stack \in Seq(Members) /\ scc \in Seq(Members) /\ Len(ecd_stack) \in Nat
  <2>1. /\ ecd_stack \in Seq(State) /\ scc \in Seq(State)
        /\ ToSet(ecd_stack) \subseteq Members /\ ToSet(scc) \subseteq Members
    BY <1>1 DEF StacksOK, SecondSearchOK
  <2>2. \A seq \in Seq(State) : ToSet(seq) \subseteq Members => seq \in Seq(Members)
    <3> TAKE seq \in Seq(State)
    <3> HAVE ToSet(seq) \subseteq Members
    <3>n. PICK n : n = Len(seq)
      OBVIOUS
    <3>1. n \in Nat /\ DOMAIN seq = 1..n /\ seq = [i \in 1..n |-> seq[i]]
      BY <3>n
    <3>2. \A i \in 1..n : seq[i] \in Members
      BY <3>1 DEF ToSet
    <3>3. seq \in [1..n -> Members]
      BY <3>1, <3>2
    <3> QED BY <3>1, <3>3
  <2> QED BY <2>1, <2>2
<1> QED BY <1>1, <1>2, <1>3, <1>4, <1>5 DEF SecondSearchOK

(* A step of it that keeps its frames in order keeps the invariant,        *)
LEMMA SecondSearchRest ==
  ASSUME IInv, pc \in ECDPCs, pc' \in ECDPCs,
         UNCHANGED <<initial_state, value, dfs_stack, sweep, scc>>,
         explored \subseteq explored', explored' \subseteq State,
         tarjan_stack' \in Seq(StackInfos), StackPart',
         SameLinks(tarjan_stack, tarjan_stack'),
         ecd_stack' \in Seq(Members), scc_queue' \in Seq(Seq(State)),
         \A k \in DOMAIN scc_queue' : ToSet(scc_queue'[k]) \subseteq Members,
         FramesAmong(ecd_frames', Len(ecd_stack'), Waiting'),
         pc' = "ecd_root" => ecd_frames' = <<>> /\ ecd_stack' = <<>>,
         pc' # "ecd_root" => ecd_frames' # <<>>
  PROVE  IInv'
<1>1. /\ ValuesOK /\ StacksOK /\ FramesOK /\ Indexed /\ SecondSearchOK
      /\ tarjan_stack \in Seq(StackInfos)
  BY DEF IInv, StacksOK
<1>2. ~Stopped /\ dfs_stack # <<>> /\ IsRoot(Top) /\ Top.aops = {}
      /\ scc \in Seq(Members)
  BY SecondSearchFacts
<1>3. Top.stackidx \in 1..Len(tarjan_stack) /\ Members \subseteq State
  BY <1>2, RootFacts
<1>4. Places' = Places /\ Members' = Members
  <2>1. UNCHANGED dfs_stack
    OBVIOUS
  <2> QED BY <1>1, <1>2, <1>3, <2>1, MembersKept
<1>5. StacksOK'
  <2>1. ecd_frames' \in Seq(ECDExplorationInfos)
    BY DEF FramesAmong
  <2>2. ecd_stack' \in Seq(State)
    BY <1>3
  <2>3. dfs_stack' \in Seq(ExplorationInfos) /\ scc' \in Seq(State)
    BY <1>1 DEF StacksOK
  <2> QED BY <2>1, <2>2, <2>3 DEF StacksOK
<1>6. Indexed'
  <2>1. /\ DOMAIN tarjan_stack = 1..Len(tarjan_stack)
        /\ DOMAIN tarjan_stack' = 1..Len(tarjan_stack)
        /\ \A i \in 1..Len(tarjan_stack) :
             tarjan_stack'[i].state = tarjan_stack[i].state
    BY <1>1 DEF SameLinks
  <2>2. /\ \A i, k \in 1..Len(tarjan_stack) :
             tarjan_stack[i].state = tarjan_stack[k].state => i = k
        /\ \A i \in 1..Len(tarjan_stack) :
             tarjan_stack[i].state \in explored \union ToSet(scc)
    BY <1>1, <1>2, <2>1 DEF Indexed
  <2> QED BY <2>1, <2>2 DEF Indexed
<1>7. SecondSearchOK'
  <2>1. ToSet(scc') \subseteq Members'
    BY <1>1, <1>4 DEF SecondSearchOK
  <2>2. ToSet(ecd_stack') \subseteq Members'
    BY <1>4 DEF ToSet
  <2>3. DOMAIN ecd_frames' = 1..Len(ecd_frames')
    BY DEF FramesAmong
  <2>4. \A q : IsAmong(q) <=> /\ SccSuccessors(q) # {}
                              /\ SccSuccessors(q) \subseteq Members'
    BY <1>4 DEF IsAmong
  <2>5. \A i \in DOMAIN ecd_frames' :
          /\ FrameAmong(ecd_frames'[i])
          /\ Waiting' \/ i < Len(ecd_frames') => IsAmong(ecd_frames'[i].action)
    BY <2>3 DEF FramesAmong
  <2>9. \A i \in DOMAIN ecd_frames' :
          /\ ecd_frames'[i].place \in Places'
          /\ ecd_frames'[i].successors \subseteq Members'
          /\ \A q \in ecd_frames'[i].todo :
               SccSuccessors(q) # {} /\ SccSuccessors(q) \subseteq Members'
          /\ pc' = "ecd_successor" \/ i < Len(ecd_frames') =>
               /\ SccSuccessors(ecd_frames'[i].action) # {}
               /\ SccSuccessors(ecd_frames'[i].action) \subseteq Members'
    BY <1>4, <2>4, <2>5 DEF FrameAmong, Waiting
  <2>6. /\ \A i \in DOMAIN ecd_frames' :
             /\ ecd_frames'[i].lowlink \in 1..ecd_frames'[i].stackidx
             /\ ecd_frames'[i].stackidx \in 1..Len(ecd_stack')
        /\ \A i, k \in DOMAIN ecd_frames' :
             i < k => ecd_frames'[i].stackidx < ecd_frames'[k].stackidx
        /\ ecd_frames' # <<>> => ecd_frames'[1].stackidx = 1
    BY <2>3 DEF FramesAmong
  <2>7. \A k \in DOMAIN scc_queue' : ToSet(scc_queue'[k]) \subseteq Members'
    BY <1>4
  <2>8. /\ pc' \in {"ecd_transition", "ecd_successor"} => ecd_frames' # <<>>
        /\ pc' \notin {"ecd_transition", "ecd_successor", "timeout"} =>
             ecd_frames' = <<>> /\ ecd_stack' = <<>>
        /\ pc' \notin ECDPCs \union {"timeout"} => scc_queue' = <<>>
    BY DEF ECDPCs
  <2> QED BY ONLY <2>1, <2>2, <2>6, <2>7, <2>8, <2>9
        DEF SecondSearchOK, IsAmong, SccSuccessors
<1>8. AnalysisOK'
  BY DEF AnalysisOK, PartitionAgrees, ECDPCs
<1>9. pc \in {"transition"} \union RootedPCs /\ pc' \in RootedPCs /\ pc' \notin SweepPCs
  BY DEF RootedPCs, ECDPCs, SweepPCs
<1>10. /\ UNCHANGED <<initial_state, dfs_stack>> /\ explored' \subseteq State
       /\ value' \in [State -> Int] /\ sweep' \in [next : Nat, converged : BOOLEAN]
  BY <1>1 DEF ValuesOK
<1> QED BY <1>2, <1>5, <1>6, <1>7, <1>8, <1>9, <1>10, RootedRest
-----------------------------------------------------------------------------
(* The steps of the second search.                                         *)

(* in particular one that leaves the stack alone.                          *)
LEMMA SecondSearchSame ==
  ASSUME IInv, pc \in ECDPCs, pc' \in ECDPCs,
         UNCHANGED <<initial_state, value, dfs_stack, tarjan_stack, sweep, scc,
                     scc_queue>>,
         explored \subseteq explored', explored' \subseteq State,
         ecd_stack' \in Seq(Members),
         FramesAmong(ecd_frames', Len(ecd_stack'), Waiting'),
         pc' = "ecd_root" => ecd_frames' = <<>> /\ ecd_stack' = <<>>,
         pc' # "ecd_root" => ecd_frames' # <<>>
  PROVE  IInv'
<1>1. tarjan_stack' \in Seq(StackInfos) /\ scc_queue' \in Seq(Seq(State))
  BY DEF IInv, StacksOK
<1>2. StackPart'
  <2>1. StackPart /\ ~Stopped /\ UNCHANGED <<dfs_stack, tarjan_stack>>
    BY SecondSearchFacts DEF IInv, StackPart
  <2> QED BY ONLY <2>1, SameStacks
<1>3. SameLinks(tarjan_stack, tarjan_stack')
  BY DEF SameLinks
<1>4. \A k \in DOMAIN scc_queue' : ToSet(scc_queue'[k]) \subseteq Members
  BY SecondSearchFacts
<1> QED BY <1>1, <1>2, <1>3, <1>4, SecondSearchRest

(* The fields of a frame of the second search.                             *)
LEMMA ECDFrameParts ==
  ASSUME NEW f \in ECDExplorationInfos
  PROVE  /\ f.place \in Nat \ {0} /\ f.stackidx \in Nat \ {0}
         /\ f.lowlink \in Nat \ {0} /\ f.todo \in TransitionSets
         /\ f.action \in QValueInfos /\ f.successors \subseteq State
         /\ f.recurse \in BOOLEAN /\ f.leaves_scc \in BOOLEAN
         /\ f.remains_scc \in BOOLEAN
BY DEF ECDExplorationInfos

(* A frame with what the second search changes in it.                      *)
LEMMA ECDFrameChanged ==
  ASSUME NEW f \in ECDExplorationInfos, NEW T \in SUBSET State,
         NEW l \in Nat \ {0}, NEW x \in BOOLEAN, NEW y \in BOOLEAN,
         NEW z \in BOOLEAN,
         NEW g, g = [f EXCEPT !.successors = T, !.lowlink = l, !.recurse = x,
                              !.leaves_scc = y, !.remains_scc = z]
  PROVE  /\ g \in ECDExplorationInfos /\ g.successors = T /\ g.lowlink = l
         /\ g.place = f.place /\ g.stackidx = f.stackidx /\ g.todo = f.todo
         /\ g.action = f.action
BY DEF ECDExplorationInfos

(* Its frame on top.                                                       *)
LEMMA TopECDFacts ==
  ASSUME IInv, pc \in {"ecd_transition", "ecd_successor"}
  PROVE  /\ pc \in ECDPCs /\ ecd_frames # <<>> /\ TopECD = Last(ecd_frames)
         /\ FramesAmong(ecd_frames, Len(ecd_stack), Waiting)
         /\ Len(ecd_frames) \in Nat \ {0} /\ TopECD = ecd_frames[Len(ecd_frames)]
         /\ TopECD \in ECDExplorationInfos /\ FrameAmong(TopECD)
         /\ TopECD.lowlink \in 1..TopECD.stackidx
         /\ TopECD.stackidx \in 1..Len(ecd_stack)
         /\ Waiting => IsAmong(TopECD.action)
         /\ ecd_stack \in Seq(Members) /\ Len(ecd_stack) \in Nat
         /\ Members \subseteq State /\ explored \subseteq State
<1>1. pc \in ECDPCs
  BY DEF ECDPCs
<1>2. /\ ecd_frames # <<>> /\ TopECD = Last(ecd_frames)
      /\ FramesAmong(ecd_frames, Len(ecd_stack), Waiting)
      /\ ecd_stack \in Seq(Members) /\ Len(ecd_stack) \in Nat
      /\ Members \subseteq State /\ explored \subseteq State
  BY <1>1, SecondSearchFacts, RootFacts DEF TopECD, IInv, ValuesOK
<1>L. PICK L : L = Len(ecd_frames)
  OBVIOUS
<1>3. ecd_frames \in Seq(ECDExplorationInfos)
  BY <1>2 DEF FramesAmong
<1>4. L \in Nat \ {0} /\ L \in 1..L
  BY <1>2, <1>3, <1>L
<1>5. TopECD = ecd_frames[L]
  BY <1>2, <1>L DEF Last
<1>6. TopECD \in ECDExplorationInfos
  BY <1>3, <1>4, <1>5, <1>L
<1>7. /\ FrameAmong(TopECD)
      /\ TopECD.lowlink \in 1..TopECD.stackidx
      /\ TopECD.stackidx \in 1..Len(ecd_stack)
      /\ Waiting => IsAmong(TopECD.action)
  BY <1>2, <1>4, <1>5, <1>L DEF FramesAmong
<1> QED BY <1>1, <1>2, <1>4, <1>5, <1>6, <1>7, <1>L

(* Entering a member.                                                      *)
LEMMA MemberEntry ==
  ASSUME IInv, pc \in ECDPCs, NEW s \in Members
  PROVE  /\ StackId(s) \in Places /\ StackId(s) \in Nat \ {0}
         /\ tarjan_stack[StackId(s)].ec_transitions \in TransitionSets
         /\ \A q \in tarjan_stack[StackId(s)].ec_transitions : IsAmong(q)
<1>1. /\ Places \subseteq 1..Len(tarjan_stack)
      /\ DOMAIN tarjan_stack = 1..Len(tarjan_stack)
      /\ \A i \in Places :
           /\ tarjan_stack[i] \in StackInfos
           /\ \A q \in Transitions(tarjan_stack[i]) : IsAmong(q)
  <2>1. ~Stopped /\ dfs_stack # <<>> /\ IsRoot(Top)
    BY SecondSearchFacts
  <2>2. IInv
    OBVIOUS
  <2>3. /\ Places \subseteq 1..Len(tarjan_stack)
        /\ DOMAIN tarjan_stack = 1..Len(tarjan_stack)
        /\ \A i \in Places :
             /\ tarjan_stack[i].state \in Members
             /\ tarjan_stack[i] \in StackInfos
             /\ \A q \in Transitions(tarjan_stack[i]) : IsAmong(q)
    BY ONLY <2>1, <2>2, RootFacts
  <2> QED BY <2>3
<1>2. PICK i \in Places : tarjan_stack[i].state = s
  BY DEF Members
<1>3. i \in DOMAIN tarjan_stack
  BY <1>1
<1>4. /\ StackId(s) \in DOMAIN tarjan_stack
      /\ tarjan_stack[StackId(s)].state = s
  BY <1>2, <1>3 DEF StackId
<1>5. StackId(s) = i
  BY <1>2, <1>3, <1>4 DEF IInv, Indexed
<1>6. i \in Nat \ {0}
  BY <1>1
<1> QED BY <1>1, <1>5, <1>6, EntryParts DEF Transitions

(* Entering a state of the component in the second search.                 *)
LEMMA EnterECDKeeps ==
  ASSUME IInv, pc \in ECDPCs, NEW s \in Members, NEW rest,
         FramesAmong(rest, Len(ecd_stack), TRUE),
         rest = <<>> => Len(ecd_stack) = 0,
         EnterECD(s, rest),
         UNCHANGED <<initial_state, value, dfs_stack, tarjan_stack, scc,
                     scc_queue, analysis_vars, sweep>>
  PROVE  IInv'
<1>m. PICK m : m = Len(ecd_stack)
  OBVIOUS
<1>f. PICK f : f = [place |-> StackId(s), stackidx |-> m + 1, lowlink |-> m + 1,
            todo |-> tarjan_stack[StackId(s)].ec_transitions,
            action |-> QValueInfo(0, 1), successors |-> {},
            recurse |-> FALSE, leaves_scc |-> FALSE, remains_scc |-> FALSE]
  OBVIOUS
<1>1. /\ explored' = explored \union {s} /\ ecd_stack' = Append(ecd_stack, s)
      /\ ecd_frames' = Append(rest, f) /\ pc' = "ecd_transition"
  BY <1>m, <1>f DEF EnterECD
<1>2. ecd_stack \in Seq(Members) /\ m \in Nat
  BY <1>m, SecondSearchFacts
<1>a. /\ StackId(s) \in Places /\ StackId(s) \in Nat \ {0}
      /\ tarjan_stack[StackId(s)].ec_transitions \in TransitionSets
      /\ \A q \in tarjan_stack[StackId(s)].ec_transitions : IsAmong(q)
  <2>1. IInv /\ pc \in ECDPCs
    OBVIOUS
  <2> QED BY ONLY <2>1, s \in Members, MemberEntry
<1>b. QValueInfo(0, 1) \in QValueInfos
  BY NewQValueInfo
<1>3. f \in ECDExplorationInfos
  BY <1>2, <1>f, <1>a, <1>b DEF ECDExplorationInfos
<1>4. FrameAmong(f)
  BY <1>f, <1>a DEF FrameAmong
<1>5. FramesAmong(Append(rest, f), m + 1, FALSE)
  <2>1. /\ FramesAmong(rest, m, TRUE) /\ (rest = <<>> => m = 0)
        /\ f.stackidx = m + 1 /\ f.lowlink = m + 1
    BY <1>m, <1>f
  <2> QED BY ONLY <1>2, <1>3, <1>4, <2>1, FramesPushed
<1>6. ecd_stack' \in Seq(Members) /\ Len(ecd_stack') = m + 1
  BY <1>1, <1>2, <1>m
<1>7. Waiting' <=> FALSE
  BY <1>1 DEF Waiting
<1>8. FramesAmong(ecd_frames', Len(ecd_stack'), Waiting')
  <2>1. Waiting' = FALSE
    BY <1>7 DEF Waiting
  <2> QED BY <1>1, <1>5, <1>6, <2>1
<1>9. ecd_frames' # <<>>
  <2>1. rest \in Seq(ECDExplorationInfos)
    BY DEF FramesAmong
  <2>2. Append(rest, f) # <<>>
    BY ONLY <2>1, <1>3, PushFacts
  <2> QED BY <1>1, <2>2
<1>10. explored \subseteq explored' /\ explored' \subseteq State
  BY <1>1, SecondSearchFacts, RootFacts DEF IInv, ValuesOK
<1>11. pc' \in ECDPCs /\ pc' # "ecd_root"
  BY <1>1 DEF ECDPCs
<1> QED BY <1>6, <1>8, <1>9, <1>10, <1>11, SecondSearchSame

(* A state that is not yet explored is a root of the second search.        *)
LEMMA EnterRootECDStep == ASSUME IInv, EnterRootECD PROVE IInv'
<1>1. PICK i \in DOMAIN scc : EnterECD(scc[i], <<>>)
  BY DEF EnterRootECD
<1>2. /\ pc = "ecd_root"
      /\ UNCHANGED <<initial_state, value, dfs_stack, tarjan_stack, scc,
                     scc_queue, analysis_vars, sweep>>
  BY DEF EnterRootECD
<1>3. pc \in ECDPCs
  BY <1>2 DEF ECDPCs
<1>4. scc[i] \in Members
  <2>1. scc \in Seq(Members)
    BY <1>3, SecondSearchFacts
  <2> QED BY <2>1
<1>5. Len(ecd_stack) = 0
  BY <1>2 DEF IInv, SecondSearchOK
<1>6. FramesAmong(<<>>, Len(ecd_stack), TRUE)
  <2>1. <<>> \in Seq(ECDExplorationInfos) /\ 1..Len(<<>>) = {}
    OBVIOUS
  <2> QED BY <2>1 DEF FramesAmong
<1> QED BY <1>1, <1>2, <1>3, <1>4, <1>5, <1>6, EnterECDKeeps

(* The next candidate transition of a state.                               *)
LEMMA BeginTransitionECDStep == ASSUME IInv, BeginTransitionECD PROVE IInv'
<1>1. PICK q \in TopECD.todo :
        ecd_frames' = WithTop(ecd_frames,
         [TopECD EXCEPT !.todo = @ \ {q}, !.action = q,
                        !.successors = SccSuccessors(q),
                        !.leaves_scc = FALSE, !.remains_scc = FALSE])
  BY DEF BeginTransitionECD
<1>2. /\ pc = "ecd_transition" /\ pc' = "ecd_successor"
      /\ UNCHANGED <<dfs_vars, explored, value, tarjan_stack, scc, scc_queue,
                     ecd_stack, analysis_vars, sweep>>
  BY DEF BeginTransitionECD
<1>f. PICK f : f = TopECD
  OBVIOUS
<1>g. PICK g : g = [f EXCEPT !.todo = @ \ {q}, !.action = q,
                        !.successors = SccSuccessors(q),
                        !.leaves_scc = FALSE, !.remains_scc = FALSE]
  OBVIOUS
<1>3. /\ pc \in ECDPCs /\ ecd_frames # <<>> /\ f = Last(ecd_frames)
      /\ FramesAmong(ecd_frames, Len(ecd_stack), Waiting)
      /\ f \in ECDExplorationInfos /\ FrameAmong(f)
      /\ f.lowlink \in 1..f.stackidx
      /\ ecd_stack \in Seq(Members) /\ Len(ecd_stack) \in Nat
      /\ explored \subseteq State
  BY <1>2, <1>f, TopECDFacts
<1>4. /\ f.todo \in TransitionSets /\ f.todo \ {q} \in TransitionSets
      /\ q \in QValueInfos /\ IsAmong(q) /\ SccSuccessors(q) \in SUBSET State
  <2>1. f.todo \in TransitionSets /\ q \in f.todo /\ IsAmong(q)
    BY <1>1, <1>3, <1>f, ECDFrameParts DEF FrameAmong
  <2>2. f.todo \ {q} \in TransitionSets
    BY <2>1, FS_Subset DEF TransitionSets
  <2>3. q \in QValueInfos
    BY <2>1 DEF TransitionSets
  <2> QED BY <2>1, <2>2, <2>3, QValueInfoParts
<1>5. /\ g \in ECDExplorationInfos /\ g.todo = f.todo \ {q} /\ g.action = q
      /\ g.successors = SccSuccessors(q) /\ g.place = f.place
      /\ g.stackidx = f.stackidx /\ g.lowlink = f.lowlink
  BY <1>3, <1>4, <1>g DEF ECDExplorationInfos
<1>6. FrameAmong(g) /\ IsAmong(g.action)
  BY <1>3, <1>4, <1>5 DEF FrameAmong, IsAmong
<1>7. FramesAmong(WithTop(ecd_frames, g), Len(ecd_stack), TRUE)
  <2>1. /\ g.stackidx = Last(ecd_frames).stackidx /\ g.lowlink \in 1..g.stackidx
        /\ (TRUE => IsAmong(g.action)) /\ g \in ECDExplorationInfos
    BY <1>3, <1>5, <1>6
  <2> QED BY <1>3, <1>6, <2>1, FramesReplaced
<1>8. WithTop(ecd_frames, g) # <<>>
  BY <1>3, <1>5, WithTopFacts DEF FramesAmong
<1>9. /\ ecd_frames' = WithTop(ecd_frames, g) /\ Waiting' = TRUE
      /\ ecd_stack' = ecd_stack /\ explored' = explored
  BY <1>1, <1>2, <1>f, <1>g DEF Waiting
<1>10. pc' \in ECDPCs /\ pc' # "ecd_root"
  BY <1>2 DEF ECDPCs
<1> QED BY <1>2, <1>3, <1>7, <1>8, <1>9, <1>10, SecondSearchSame DEF dfs_vars
-----------------------------------------------------------------------------
(* The top frame of the second search is replaced.                         *)
LEMMA TopECDReplaced ==
  ASSUME IInv, pc \in {"ecd_transition", "ecd_successor"},
         pc' \in {"ecd_transition", "ecd_successor"},
         UNCHANGED <<initial_state, value, dfs_stack, tarjan_stack, sweep, scc,
                     scc_queue, explored, ecd_stack>>,
         NEW f, f = TopECD, NEW g \in ECDExplorationInfos,
         g.successors \subseteq f.successors, g.lowlink \in 1..f.stackidx,
         g.place = f.place, g.stackidx = f.stackidx, g.todo = f.todo,
         g.action = f.action, Waiting' => Waiting,
         ecd_frames' = WithTop(ecd_frames, g)
  PROVE  IInv'
<1>1. /\ pc \in ECDPCs /\ ecd_frames # <<>> /\ f = Last(ecd_frames)
      /\ FramesAmong(ecd_frames, Len(ecd_stack), Waiting)
      /\ f \in ECDExplorationInfos /\ FrameAmong(f)
      /\ (Waiting => IsAmong(f.action))
      /\ ecd_stack \in Seq(Members) /\ Len(ecd_stack) \in Nat
      /\ explored \subseteq State
  BY TopECDFacts
<1>2. FrameAmong(g) /\ (Waiting' => IsAmong(g.action))
  BY <1>1 DEF FrameAmong
<1>3. FramesAmong(WithTop(ecd_frames, g), Len(ecd_stack), Waiting')
  <2>w. PICK v : v = Waiting'
    OBVIOUS
  <2>1. /\ g.stackidx = Last(ecd_frames).stackidx /\ g.lowlink \in 1..g.stackidx
        /\ (v => IsAmong(g.action)) /\ g \in ECDExplorationInfos
    BY <1>1, <1>2, <2>w
  <2>2. FramesAmong(WithTop(ecd_frames, g), Len(ecd_stack), v)
    BY ONLY <1>1, <1>2, <2>1, FramesReplaced
  <2> QED BY <2>2, <2>w
<1>4. WithTop(ecd_frames, g) # <<>>
  <2>1. ecd_frames \in Seq(ECDExplorationInfos) /\ g \in ECDExplorationInfos
    BY <1>1 DEF FramesAmong
  <2> QED BY ONLY <1>1, <2>1, WithTopFacts
<1>5. FramesAmong(ecd_frames', Len(ecd_stack'), Waiting')
  BY <1>3
<1>6. pc' \in ECDPCs /\ pc' # "ecd_root"
  BY DEF ECDPCs
<1> QED BY <1>1, <1>4, <1>5, <1>6, SecondSearchSame

(* push_successor_ecd, a successor that is new,                            *)
LEMMA NewSuccessorECDStep == ASSUME IInv, NewSuccessorECD PROVE IInv'
<1>f. PICK f : f = TopECD
  OBVIOUS
<1>1. PICK t \in f.successors :
        EnterECD(t, WithTop(ecd_frames, [f EXCEPT !.successors = @ \ {t}]))
  BY <1>f DEF NewSuccessorECD
<1>2. /\ pc = "ecd_successor"
      /\ UNCHANGED <<initial_state, value, dfs_stack, tarjan_stack, scc,
                     scc_queue, analysis_vars, sweep>>
  BY DEF NewSuccessorECD, dfs_vars
<1>g. PICK g : g = [f EXCEPT !.successors = @ \ {t}]
  OBVIOUS
<1>3. /\ pc \in ECDPCs /\ ecd_frames # <<>> /\ f = Last(ecd_frames)
      /\ FramesAmong(ecd_frames, Len(ecd_stack), Waiting)
      /\ f \in ECDExplorationInfos /\ FrameAmong(f)
      /\ f.lowlink \in 1..f.stackidx /\ (Waiting => IsAmong(f.action))
      /\ Len(ecd_stack) \in Nat
  BY <1>2, <1>f, TopECDFacts
<1>4. /\ g \in ECDExplorationInfos /\ g.todo = f.todo /\ g.action = f.action
      /\ g.successors = f.successors \ {t} /\ g.place = f.place
      /\ g.stackidx = f.stackidx /\ g.lowlink = f.lowlink
  BY <1>3, <1>g DEF ECDExplorationInfos
<1>5. t \in Members /\ FrameAmong(g) /\ IsAmong(g.action)
  BY <1>1, <1>2, <1>3, <1>4 DEF FrameAmong, Waiting
<1>6. FramesAmong(WithTop(ecd_frames, g), Len(ecd_stack), TRUE)
  <2>1. /\ g.stackidx = Last(ecd_frames).stackidx /\ g.lowlink \in 1..g.stackidx
        /\ (TRUE => IsAmong(g.action)) /\ g \in ECDExplorationInfos
    BY <1>3, <1>4, <1>5
  <2> QED BY ONLY <1>3, <1>5, <2>1, FramesReplaced
<1>7. WithTop(ecd_frames, g) # <<>>
  <2>1. ecd_frames \in Seq(ECDExplorationInfos)
    BY <1>3 DEF FramesAmong
  <2> QED BY ONLY <1>3, <1>4, <2>1, WithTopFacts
<1>8. EnterECD(t, WithTop(ecd_frames, g))
  BY <1>1, <1>g
<1>r. PICK rest : rest = WithTop(ecd_frames, g)
  OBVIOUS
<1>9. /\ FramesAmong(rest, Len(ecd_stack), TRUE) /\ EnterECD(t, rest)
      /\ (rest = <<>> => Len(ecd_stack) = 0) /\ IInv
  BY <1>6, <1>7, <1>8, <1>r
<1> QED BY ONLY <1>2, <1>3, <1>5, <1>9, EnterECDKeeps

(* or known.                                                               *)
LEMMA KnownSuccessorECDStep == ASSUME IInv, KnownSuccessorECD PROVE IInv'
<1>f. PICK f : f = TopECD
  OBVIOUS
<1>1. PICK t \in f.successors : LET h == [f EXCEPT !.successors = @ \ {t}]
       IN  ecd_frames' = WithTop(ecd_frames,
             IF IsOnStackECD(t)
             THEN [h EXCEPT !.lowlink = Min({@, StackIdECD(t)}),
                            !.remains_scc = TRUE]
             ELSE [h EXCEPT !.leaves_scc = TRUE])
  BY <1>f DEF KnownSuccessorECD
<1>2. /\ pc = "ecd_successor" /\ pc' = "ecd_successor"
      /\ UNCHANGED <<initial_state, value, dfs_stack, tarjan_stack, sweep, scc,
                     scc_queue, explored, ecd_stack>>
  BY DEF KnownSuccessorECD, dfs_vars
<1>3. /\ f \in ECDExplorationInfos
      /\ f.lowlink \in 1..f.stackidx /\ f.stackidx \in 1..Len(ecd_stack)
      /\ ecd_stack \in Seq(Members)
  BY <1>2, <1>f, TopECDFacts
<1>4. /\ f.successors \subseteq State /\ f.recurse \in BOOLEAN
      /\ f.leaves_scc \in BOOLEAN /\ f.remains_scc \in BOOLEAN
      /\ f.successors \ {t} \in SUBSET State
      /\ f.lowlink \in Nat \ {0} /\ f.stackidx \in Nat \ {0}
  BY <1>3, ECDFrameParts
<1>x. PICK x : x = Min({f.lowlink, StackIdECD(t)})
  OBVIOUS
<1>5. IsOnStackECD(t) => x \in 1..f.stackidx
  <2> SUFFICES ASSUME IsOnStackECD(t) PROVE x \in 1..f.stackidx
    OBVIOUS
  <2>1. StackIdECD(t) \in DOMAIN ecd_stack
    BY DEF IsOnStackECD, StackIdECD
  <2>i. PICK i : i = StackIdECD(t)
    OBVIOUS
  <2>2. i \in Nat \ {0}
    BY <1>3, <2>1, <2>i
  <2>3. x \in {f.lowlink, i} /\ x <= f.lowlink
    BY <1>4, <1>x, <2>2, <2>i, OneOfTwo
  <2> QED BY <1>3, <1>4, <2>2, <2>3
<1>6. \E g \in ECDExplorationInfos :
        /\ g.successors \subseteq f.successors /\ g.lowlink \in 1..f.stackidx
        /\ g.place = f.place /\ g.stackidx = f.stackidx /\ g.todo = f.todo
        /\ g.action = f.action
        /\ ecd_frames' = WithTop(ecd_frames, g)
  <2>1. CASE IsOnStackECD(t)
    <3>g. PICK g : g = [f EXCEPT !.successors = f.successors \ {t}, !.lowlink = x,
                                 !.remains_scc = TRUE]
      OBVIOUS
    <3>1. [[f EXCEPT !.successors = @ \ {t}]
             EXCEPT !.lowlink = Min({@, StackIdECD(t)}), !.remains_scc = TRUE] = g
      BY <3>g, <1>x, <1>3 DEF ECDExplorationInfos
    <3>2. ecd_frames' = WithTop(ecd_frames, g)
      BY <1>1, <2>1, <3>1
    <3>3. /\ g \in ECDExplorationInfos /\ g.successors = f.successors \ {t}
          /\ g.lowlink = x /\ g.place = f.place /\ g.stackidx = f.stackidx
          /\ g.todo = f.todo /\ g.action = f.action
      <4>1. x \in Nat \ {0}
        BY <1>4, <1>5, <2>1
      <4> QED BY <1>3, <1>4, <3>g, <4>1 DEF ECDExplorationInfos
    <3> QED BY <1>5, <2>1, <3>2, <3>3
  <2>2. CASE ~IsOnStackECD(t)
    <3>g. PICK g : g = [f EXCEPT !.successors = f.successors \ {t},
                                 !.leaves_scc = TRUE]
      OBVIOUS
    <3>1. [[f EXCEPT !.successors = @ \ {t}] EXCEPT !.leaves_scc = TRUE] = g
      BY <3>g, <1>3 DEF ECDExplorationInfos
    <3>2. ecd_frames' = WithTop(ecd_frames, g)
      BY <1>1, <2>2, <3>1
    <3>3. /\ g \in ECDExplorationInfos /\ g.successors = f.successors \ {t}
          /\ g.lowlink = f.lowlink /\ g.place = f.place /\ g.stackidx = f.stackidx
          /\ g.todo = f.todo /\ g.action = f.action
      BY <1>3, <1>4, <3>g DEF ECDExplorationInfos
    <3> QED BY <1>3, <3>2, <3>3
  <2> QED BY <2>1, <2>2
<1>7. PICK g \in ECDExplorationInfos :
        /\ g.successors \subseteq f.successors /\ g.lowlink \in 1..f.stackidx
        /\ g.place = f.place /\ g.stackidx = f.stackidx /\ g.todo = f.todo
        /\ g.action = f.action
        /\ ecd_frames' = WithTop(ecd_frames, g)
  BY <1>6
<1>8. /\ pc \in {"ecd_transition", "ecd_successor"} /\ (Waiting' => Waiting)
      /\ pc' \in {"ecd_transition", "ecd_successor"} /\ IInv
  BY <1>2 DEF Waiting
<1> QED BY ONLY <1>2, <1>7, <1>8, <1>f, TopECDReplaced

(* next_transition: a candidate that leaves is handed back.                *)
LEMMA EndTransitionECDStep == ASSUME IInv, EndTransitionECD PROVE IInv'
<1>f. PICK f : f = TopECD
  OBVIOUS
<1>1. /\ pc = "ecd_successor" /\ pc' = "ecd_transition"
      /\ UNCHANGED <<initial_state, value, dfs_stack, sweep, scc,
                     scc_queue, explored, ecd_stack>>
  BY DEF EndTransitionECD, dfs_vars
<1>2. /\ pc \in ECDPCs /\ ecd_frames # <<>> /\ f = Last(ecd_frames)
      /\ FramesAmong(ecd_frames, Len(ecd_stack), Waiting)
      /\ f \in ECDExplorationInfos /\ FrameAmong(f)
      /\ f.lowlink \in 1..f.stackidx /\ (Waiting => IsAmong(f.action))
      /\ Len(ecd_stack) \in Nat
      /\ f.stackidx \in 1..Len(ecd_stack) /\ ecd_stack \in Seq(Members)
      /\ Len(ecd_frames) \in Nat \ {0} /\ f = ecd_frames[Len(ecd_frames)]
      /\ explored \subseteq State
  BY <1>1, <1>f, TopECDFacts
<1>3. /\ f.action \in QValueInfos /\ f.recurse \in BOOLEAN
      /\ f.remains_scc \in BOOLEAN /\ IsAmong(f.action) /\ f.place \in Places
  BY <1>1, <1>2, ECDFrameParts DEF FrameAmong, Waiting
<1>w. Waiting' = FALSE
  BY <1>1 DEF Waiting
<1>p. pc' \in ECDPCs /\ pc' # "ecd_root"
  BY <1>1 DEF ECDPCs
<1>4. CASE ~f.leaves_scc
  <2>1. UNCHANGED <<tarjan_stack, ecd_frames>>
    BY <1>4, <1>f DEF EndTransitionECD
  <2>2. FramesAmong(ecd_frames, Len(ecd_stack), FALSE)
    BY <1>2 DEF FramesAmong
  <2>3. FramesAmong(ecd_frames', Len(ecd_stack'), Waiting')
    BY <1>1, <1>w, <2>1, <2>2
  <2>4. UNCHANGED <<initial_state, value, dfs_stack, tarjan_stack, sweep, scc,
                    scc_queue>>
    BY <1>1, <2>1
  <2>5. /\ explored \subseteq explored' /\ explored' \subseteq State
        /\ ecd_stack' \in Seq(Members) /\ ecd_frames' # <<>>
    BY <1>1, <1>2, <2>1
  <2> QED BY <1>2, <1>p, <2>3, <2>4, <2>5, SecondSearchSame
<1>5. CASE f.leaves_scc
  <2>p. PICK p : p = f.place
    OBVIOUS
  <2>q. PICK q : q = f.action
    OBVIOUS
  <2>e. PICK e : e = tarjan_stack[p]
    OBVIOUS
  <2>S. PICK S : S = tarjan_stack
    OBVIOUS
  <2>g. PICK g : g = [f EXCEPT !.recurse = @ \/ f.remains_scc]
    OBVIOUS
  <2>1. /\ tarjan_stack' = [S EXCEPT
             ![p].ec_transitions = @ \ {q},
             ![p].non_ec_transitions = MergedTransitions(@, {q})]
        /\ ecd_frames' = WithTop(ecd_frames, g)
    BY <1>5, <1>f, <2>p, <2>q, <2>g, <2>S DEF EndTransitionECD
  <2>2. /\ Places \subseteq 1..Len(S) /\ S \in Seq(StackInfos)
        /\ DOMAIN S = 1..Len(S) /\ Len(S) \in Nat
        /\ \A i \in Places :
             /\ S[i] \in StackInfos
             /\ \A u \in Transitions(S[i]) : IsAmong(u)
    <3>1. ~Stopped /\ dfs_stack # <<>> /\ IsRoot(Top)
      BY <1>2, SecondSearchFacts
    <3>2. IInv
      OBVIOUS
    <3>3. /\ Places \subseteq 1..Len(tarjan_stack)
          /\ DOMAIN tarjan_stack = 1..Len(tarjan_stack)
          /\ Len(tarjan_stack) \in Nat
          /\ \A i \in Places :
               /\ tarjan_stack[i].state \in Members
               /\ tarjan_stack[i] \in StackInfos
               /\ \A u \in Transitions(tarjan_stack[i]) : IsAmong(u)
      BY ONLY <3>1, <3>2, RootFacts
    <3> QED BY <3>3, <2>S DEF IInv, StacksOK
  <2>3. /\ e \in StackInfos /\ p \in 1..Len(S) /\ e = S[p] /\ p \in Places
        /\ \A u \in Transitions(e) : IsAmong(u)
        /\ e.ec_transitions \in TransitionSets
        /\ e.non_ec_transitions \in TransitionSets
    BY <1>3, <2>2, <2>p, <2>e, <2>S, EntryParts
  <2>A. PICK A : A = MergedTransitions(e.non_ec_transitions, {q})
    OBVIOUS
  <2>4. /\ A \in TransitionSets /\ \A u \in A : IsAmong(u)
        /\ e.ec_transitions \ {q} \in TransitionSets
        /\ \A u \in e.ec_transitions \ {q} : IsAmong(u)
    <3>1. {q} \in TransitionSets
      BY <1>3, <2>q, FS_Singleton DEF TransitionSets
    <3>2. /\ A \in TransitionSets
          /\ \A u \in A : \E v \in e.non_ec_transitions \union {q} :
               SccSuccessors(u) = SccSuccessors(v)
      BY <2>3, <2>A, <3>1, MergedFacts
    <3>3. \A v \in e.non_ec_transitions \union {q} : IsAmong(v)
      BY <1>3, <2>3, <2>q DEF Transitions
    <3>4. e.ec_transitions \ {q} \in TransitionSets
      BY <2>3, FS_Subset DEF TransitionSets
    <3>5. \A u \in A : IsAmong(u)
      BY <3>2, <3>3 DEF IsAmong
    <3> QED BY <2>3, <3>2, <3>4, <3>5 DEF Transitions
  <2>d. PICK d : d = [e EXCEPT !.ec_transitions = e.ec_transitions \ {q},
                               !.non_ec_transitions = A]
    OBVIOUS
  <2>5. /\ d \in StackInfos /\ d.ec_transitions = e.ec_transitions \ {q}
        /\ d.non_ec_transitions = A /\ d.state = e.state
        /\ d.parents = e.parents /\ d.transition_flags = e.transition_flags
        /\ d.active_transitions = e.active_transitions
        /\ d.active_exit_transitions = e.active_exit_transitions
    BY <2>3, <2>4, <2>d DEF StackInfos
  <2>6. tarjan_stack' = [S EXCEPT ![p] = d]
    BY <2>1, <2>3, <2>A, <2>d DEF StackInfos
  <2>n. PICK n : n = Len(S)
    OBVIOUS
  <2>T. PICK T : T = tarjan_stack'
    OBVIOUS
  <2>7. /\ T \in Seq(StackInfos) /\ Len(T) = n
        /\ \A i \in 1..n : T[i] = IF i = p THEN d ELSE S[i]
    <3>1. p \in DOMAIN S /\ S \in Seq(StackInfos) /\ d \in StackInfos
      BY <2>2, <2>3, <2>5
    <3>2. /\ [S EXCEPT ![p] = d] \in Seq(StackInfos)
          /\ Len([S EXCEPT ![p] = d]) = Len(S)
          /\ \A i \in 1..Len(S) : [S EXCEPT ![p] = d][i] = IF i = p THEN d ELSE S[i]
      BY ONLY <3>1, ReplacedFacts
    <3> QED BY <2>6, <3>2, <2>n, <2>T
  <2>8. SameLinks(S, T)
    BY <2>3, <2>5, <2>7, <2>n DEF SameLinks
  <2>9. \A i \in 1..n : \A u \in Transitions(T[i]) :
          SccSuccessors(u) # {} /\ \A t \in SccSuccessors(u) : IsNear(i, t)
    <3> TAKE i \in 1..n
    <3> TAKE u \in Transitions(T[i])
    <3>0. StacksOK /\ FramesOK /\ SuccessorsOK /\ dfs_stack # <<>> /\ IsRoot(Top)
          /\ ~Stopped
      BY <1>2, SecondSearchFacts DEF IInv
    <3>1. CASE i = p
      <4>1. IsAmong(u)
        BY <3>1, <2>4, <2>5, <2>7 DEF Transitions
      <4>2. i \in Places /\ SccSuccessors(u) # {} /\ SccSuccessors(u) \subseteq Members
        BY <3>1, <2>3, <4>1 DEF IsAmong
      <4>3. \A t : IsNear(i, t) <=> t \in Members
        BY <3>0, <4>2, RootNear
      <4> QED BY <4>2, <4>3
    <3>2. CASE i # p
      <4>1. u \in Transitions(tarjan_stack[i]) /\ i \in DOMAIN tarjan_stack
        BY <3>2, <2>2, <2>7, <2>n, <2>S
      <4> QED BY <3>0, <4>1 DEF SuccessorsOK
    <3> QED BY <3>1, <3>2
  <2>10. StackPart'
    <3>1. StacksOK /\ FramesOK /\ LinksOK /\ SuccessorsOK /\ ~Stopped
          /\ UNCHANGED dfs_stack /\ CountersOK
      BY <1>1, <1>2, SecondSearchFacts DEF IInv
    <3>2. /\ tarjan_stack' \in Seq(StackInfos)
          /\ SameLinks(tarjan_stack, tarjan_stack')
          /\ \A i \in DOMAIN tarjan_stack : \A u \in Transitions(tarjan_stack'[i]) :
               SccSuccessors(u) # {} /\ \A t \in SccSuccessors(u) : IsNear(i, t)
      BY <2>2, <2>7, <2>8, <2>9, <2>n, <2>S, <2>T
    <3>3. FramesOK' /\ SuccessorsOK' /\ LinksOK'
      BY ONLY <3>1, <3>2, EntriesChanged
    <3>4. CountersOK'
      <4>1. DOMAIN T = 1..n
        BY <2>7
      <4>2. ActiveFlags(d) = ActiveFlags(e) /\ ExitFlags(d) = ExitFlags(e)
        BY <2>5 DEF ActiveFlags, ExitFlags
      <4>3. \A i \in 1..n : CounterOK(S[i])
        BY <3>1, <2>2, <2>n, <2>S DEF CountersOK, CounterOK
      <4>4. CounterOK(d)
        <5>1. CounterOK(e)
          BY <4>3, <2>3, <2>n
        <5> QED BY ONLY <2>5, <4>2, <5>1 DEF CounterOK
      <4>5. \A i \in 1..n : CounterOK(T[i])
        BY <2>7, <4>3, <4>4
      <4>6. ASSUME NEW i \in 1..n, NEW c, c = T[i]
            PROVE  /\ ExitFlags(c) \subseteq ActiveFlags(c)
                   /\ c.active_transitions - Cardinality(ActiveFlags(c)) >= 0
                   /\ c.active_exit_transitions =
                        c.active_transitions - Cardinality(ActiveFlags(c))
                        + Cardinality(ExitFlags(c))
        <5>1. CounterOK(c)
          BY <4>5, <4>6
        <5> QED BY ONLY <5>1 DEF CounterOK
      <4> QED BY <4>1, <4>6, <2>T DEF CountersOK, ActiveFlags, ExitFlags
    <3> QED BY <3>3, <3>4 DEF StackPart
  <2>11. /\ g \in ECDExplorationInfos /\ g.todo = f.todo /\ g.action = f.action
         /\ g.successors = f.successors /\ g.place = f.place
         /\ g.stackidx = f.stackidx /\ g.lowlink = f.lowlink
    BY <1>2, <1>3, <2>g DEF ECDExplorationInfos
  <2>12. FrameAmong(g)
    BY <1>2, <2>11 DEF FrameAmong
  <2>13. FramesAmong(WithTop(ecd_frames, g), Len(ecd_stack), FALSE)
    <3>1. /\ g.stackidx = Last(ecd_frames).stackidx /\ g.lowlink \in 1..g.stackidx
          /\ (FALSE => IsAmong(g.action)) /\ g \in ECDExplorationInfos
      BY <1>2, <2>11
    <3> QED BY ONLY <1>2, <2>12, <3>1, FramesReplaced
  <2>14. WithTop(ecd_frames, g) # <<>>
    <3>1. ecd_frames \in Seq(ECDExplorationInfos)
      BY <1>2 DEF FramesAmong
    <3> QED BY ONLY <1>2, <2>11, <3>1, WithTopFacts
  <2>15. /\ FramesAmong(ecd_frames', Len(ecd_stack'), Waiting') /\ ecd_frames' # <<>>
         /\ explored \subseteq explored' /\ explored' \subseteq State
         /\ ecd_stack' \in Seq(Members)
    BY <1>1, <1>2, <1>w, <2>1, <2>13, <2>14
  <2>16. /\ scc_queue' \in Seq(Seq(State))
         /\ \A k \in DOMAIN scc_queue' : ToSet(scc_queue'[k]) \subseteq Members
    BY <1>1, <1>2, SecondSearchFacts DEF IInv, StacksOK
  <2>17. tarjan_stack' \in Seq(StackInfos) /\ SameLinks(tarjan_stack, tarjan_stack')
    BY <2>7, <2>8, <2>S, <2>T
  <2> QED BY <1>1, <1>2, <1>p, <2>10, <2>15, <2>16, <2>17, SecondSearchRest
<1> QED BY <1>4, <1>5
-----------------------------------------------------------------------------
(* The ends of a component of the second search.                           *)

(* The frame below the one on top.                                         *)
LEMMA BelowECDFacts ==
  ASSUME IInv, pc \in {"ecd_transition", "ecd_successor"}, Len(ecd_frames) > 1,
         NEW k \in (TopECD.stackidx - 1)..Len(ecd_stack)
  PROVE  /\ FramesAmong(Front(ecd_frames), k, TRUE) /\ Front(ecd_frames) # <<>>
         /\ BelowECD = Last(Front(ecd_frames)) /\ BelowECD \in ECDExplorationInfos
         /\ FrameAmong(BelowECD) /\ IsAmong(BelowECD.action)
         /\ BelowECD.lowlink \in 1..BelowECD.stackidx
         /\ Front(ecd_frames) \in Seq(ECDExplorationInfos) /\ k \in Nat
         /\ BelowECD.stackidx \in 1..k
<1>m. PICK m : m = Len(ecd_stack)
  OBVIOUS
<1>L. PICK L : L = Len(ecd_frames)
  OBVIOUS
<1>w. PICK w : w = Waiting
  OBVIOUS
<1>1. /\ TopECD = Last(ecd_frames) /\ FramesAmong(ecd_frames, m, w)
      /\ m \in Nat /\ L = Len(ecd_frames) /\ L > 1
      /\ k \in (Last(ecd_frames).stackidx - 1)..m
      /\ TopECD.stackidx \in 1..m /\ TopECD = Last(ecd_frames)
  BY <1>m, <1>L, <1>w, TopECDFacts
<1>2. /\ FramesAmong(Front(ecd_frames), k, TRUE) /\ Front(ecd_frames) # <<>>
      /\ Last(Front(ecd_frames)) = ecd_frames[L - 1]
  BY ONLY <1>1, FramesPopped
<1>3. BelowECD = Last(Front(ecd_frames))
  BY <1>2, <1>L DEF BelowECD
<1>4. Front(ecd_frames) \in Seq(ECDExplorationInfos)
  BY <1>2 DEF FramesAmong
<1>G. PICK G : G = Front(ecd_frames)
  OBVIOUS
<1>M. PICK M : M = Len(G)
  OBVIOUS
<1>5. M \in Nat \ {0} /\ M \in 1..M /\ Last(G) = G[M] /\ G[M] \in ECDExplorationInfos
  <2>1. G \in Seq(ECDExplorationInfos) /\ G # <<>>
    BY <1>2, <1>4, <1>G
  <2> QED BY <2>1, <1>M DEF Last
<1>6. /\ FrameAmong(G[M]) /\ IsAmong(G[M].action)
      /\ G[M].lowlink \in 1..G[M].stackidx /\ G[M].stackidx \in 1..k
  BY <1>2, <1>5, <1>G, <1>M DEF FramesAmong
<1>7. k \in Nat
  BY <1>1
<1> QED BY <1>2, <1>3, <1>4, <1>5, <1>6, <1>7, <1>G

(* Backtracking in the second search.                                      *)
LEMMA BacktrackECDStep == ASSUME IInv, BacktrackECD PROVE IInv'
<1>f. PICK f : f = TopECD
  OBVIOUS
<1>b. PICK b : b = BelowECD
  OBVIOUS
<1>g. PICK g : g = [b EXCEPT !.lowlink = Min({@, f.lowlink}),
                             !.recurse = RecursesBelow(f, b),
                             !.remains_scc = TRUE]
  OBVIOUS
<1>1. /\ pc = "ecd_transition" /\ pc' = "ecd_successor" /\ ~IsRoot(f)
      /\ ecd_frames' = WithTop(Front(ecd_frames), g)
      /\ UNCHANGED <<initial_state, value, dfs_stack, tarjan_stack, sweep, scc,
                     scc_queue, explored, ecd_stack>>
  BY <1>f, <1>b, <1>g DEF BacktrackECD, dfs_vars
<1>2. /\ pc \in ECDPCs /\ f \in ECDExplorationInfos
      /\ f.lowlink \in 1..f.stackidx /\ f.stackidx \in 1..Len(ecd_stack)
      /\ ecd_stack \in Seq(Members) /\ Len(ecd_stack) \in Nat
      /\ Len(ecd_frames) \in Nat \ {0} /\ f = ecd_frames[Len(ecd_frames)]
      /\ explored \subseteq State /\ ecd_frames # <<>>
  BY <1>1, <1>f, TopECDFacts
<1>3. Len(ecd_frames) > 1
  <2>1. ecd_frames[1].stackidx = 1
    BY <1>2 DEF IInv, SecondSearchOK
  <2>2. f.stackidx # f.lowlink
    BY <1>1 DEF IsRoot
  <2> QED BY <1>2, <2>1, <2>2
<1>m. PICK m : m = Len(ecd_stack)
  OBVIOUS
<1>4. m \in (TopECD.stackidx - 1)..Len(ecd_stack)
  BY <1>2, <1>f, <1>m
<1>5. /\ FramesAmong(Front(ecd_frames), m, TRUE) /\ Front(ecd_frames) # <<>>
      /\ b = Last(Front(ecd_frames)) /\ b \in ECDExplorationInfos
      /\ FrameAmong(b) /\ IsAmong(b.action) /\ b.lowlink \in 1..b.stackidx
      /\ Front(ecd_frames) \in Seq(ECDExplorationInfos) /\ m \in Nat
      /\ b.stackidx \in 1..m
  <2>1. IInv /\ pc \in {"ecd_transition", "ecd_successor"}
    BY <1>1
  <2>2. /\ FramesAmong(Front(ecd_frames), m, TRUE) /\ Front(ecd_frames) # <<>>
        /\ BelowECD = Last(Front(ecd_frames)) /\ BelowECD \in ECDExplorationInfos
        /\ FrameAmong(BelowECD) /\ IsAmong(BelowECD.action)
        /\ BelowECD.lowlink \in 1..BelowECD.stackidx
        /\ Front(ecd_frames) \in Seq(ECDExplorationInfos) /\ m \in Nat
        /\ BelowECD.stackidx \in 1..m
    BY ONLY <1>3, <1>4, <2>1, BelowECDFacts
  <2> QED BY <2>2, <1>b
<1>x. PICK x : x = Min({b.lowlink, f.lowlink})
  OBVIOUS
<1>6. x \in 1..b.stackidx /\ x \in Nat \ {0}
  <2>1. b.lowlink \in Nat \ {0} /\ f.lowlink \in Nat \ {0} /\ b.stackidx \in Nat
    BY <1>2, <1>5, ECDFrameParts
  <2>u. PICK u : u = b.lowlink
    OBVIOUS
  <2>v. PICK v : v = f.lowlink
    OBVIOUS
  <2>2. u \in Int /\ v \in Int /\ x = Min({u, v})
    BY <1>x, <2>1, <2>u, <2>v
  <2>3. x \in {u, v} /\ x <= u
    BY ONLY <2>2, OneOfTwo
  <2> QED BY <1>5, <2>1, <2>3, <2>u, <2>v
<1>7. /\ g \in ECDExplorationInfos /\ g.todo = b.todo /\ g.action = b.action
      /\ g.successors = b.successors /\ g.place = b.place
      /\ g.stackidx = b.stackidx /\ g.lowlink = x
  <2>1. RecursesBelow(f, b) \in BOOLEAN
    BY <1>2, <1>5, ECDFrameParts DEF RecursesBelow
  <2> QED BY <1>5, <1>6, <1>g, <1>x, <2>1 DEF ECDExplorationInfos
<1>8. FrameAmong(g) /\ IsAmong(g.action)
  BY <1>5, <1>7 DEF FrameAmong
<1>9. FramesAmong(WithTop(Front(ecd_frames), g), m, TRUE)
  <2>1. /\ g.stackidx = Last(Front(ecd_frames)).stackidx
        /\ g.lowlink \in 1..g.stackidx
        /\ (TRUE => IsAmong(g.action)) /\ g \in ECDExplorationInfos
    BY <1>5, <1>6, <1>7, <1>8
  <2> QED BY ONLY <1>5, <1>8, <2>1, FramesReplaced
<1>10. WithTop(Front(ecd_frames), g) # <<>>
  BY ONLY <1>5, <1>7, WithTopFacts
<1>11. Waiting' = TRUE
  BY <1>1 DEF Waiting
<1>12. /\ FramesAmong(ecd_frames', Len(ecd_stack'), Waiting') /\ ecd_frames' # <<>>
       /\ explored \subseteq explored' /\ explored' \subseteq State
       /\ ecd_stack' \in Seq(Members)
  BY <1>1, <1>2, <1>9, <1>10, <1>11, <1>m
<1>13. pc' \in ECDPCs /\ pc' # "ecd_root"
  BY <1>1 DEF ECDPCs
<1> QED BY <1>1, <1>2, <1>12, <1>13, SecondSearchSame

(* scc_found_ecd.                                                          *)
LEMMA SccFoundECDStep == ASSUME IInv, SccFoundECD PROVE IInv'
<1>f. PICK f : f = TopECD
  OBVIOUS
<1>m. PICK m : m = Len(ecd_stack)
  OBVIOUS
<1>a. PICK a : a = f.stackidx
  OBVIOUS
<1>F. PICK found : found = SubSeq(ecd_stack, a, m)
  OBVIOUS
<1>P. PICK places : places = [i \in DOMAIN found |-> StackId(found[i])]
  OBVIOUS
<1>1. /\ pc = "ecd_transition"
      /\ scc_queue' \in {scc_queue, Append(scc_queue, found)}
      /\ tarjan_stack' = tarjan_stack \/ tarjan_stack' = Spider(tarjan_stack, places)
      /\ ecd_stack' = SubSeq(ecd_stack, 1, a - 1)
      /\ UNCHANGED <<initial_state, value, dfs_stack, sweep, scc, explored>>
      /\ \/ Len(ecd_frames) = 1 /\ ecd_frames' = <<>> /\ pc' = "ecd_root"
         \/ /\ Len(ecd_frames) > 1
            /\ ecd_frames' = WithTop(Front(ecd_frames),
                                     [BelowECD EXCEPT !.leaves_scc = TRUE])
            /\ pc' = "ecd_successor"
  BY <1>f, <1>m, <1>a, <1>F, <1>P DEF SccFoundECD, dfs_vars
<1>2. /\ pc \in ECDPCs /\ f \in ECDExplorationInfos
      /\ a \in 1..m /\ m \in Nat
      /\ ecd_stack \in Seq(Members)
      /\ Len(ecd_frames) \in Nat \ {0} /\ f = ecd_frames[Len(ecd_frames)]
      /\ explored \subseteq State /\ ecd_frames # <<>> /\ Members \subseteq State
  BY <1>1, <1>f, <1>m, <1>a, TopECDFacts
<1>3. /\ ~Stopped /\ dfs_stack # <<>> /\ IsRoot(Top)
      /\ \A k \in DOMAIN scc_queue : ToSet(scc_queue[k]) \subseteq Members
  BY <1>2, SecondSearchFacts
<1>c. PICK c : c = m - a + 1
  OBVIOUS
<1>4. /\ found \in Seq(Members) /\ found # <<>> /\ DOMAIN found = 1..c
      /\ c \in Nat \ {0} /\ \A i \in 1..c : found[i] \in Members
  <2>1. c \in Nat \ {0} /\ \A i \in 1..c : a + i - 1 \in 1..m
    BY <1>2, <1>c
  <2>2. found = [i \in 1..c |-> ecd_stack[a + i - 1]]
    BY <1>2, <1>F, <1>c
  <2>3. \A i \in 1..m : ecd_stack[i] \in Members
    BY <1>2, <1>m
  <2>4. found \in [1..c -> Members]
    BY <2>1, <2>2, <2>3
  <2> QED BY <2>1, <2>4
<1>5. places \in Seq(Places) /\ places # <<>>
  <2>1. \A s \in Members : StackId(s) \in Places
    <3>1. IInv /\ pc \in ECDPCs
      BY <1>2
    <3> QED BY ONLY <3>1, MemberEntry
  <2>2. places \in [1..c -> Places]
    BY <1>4, <1>P, <2>1
  <2> QED BY <1>4, <2>2
<1>6. /\ tarjan_stack' \in Seq(StackInfos) /\ StackPart'
      /\ SameLinks(tarjan_stack, tarjan_stack')
  <2>1. IInv /\ UNCHANGED dfs_stack
    BY <1>1
  <2>2. CASE tarjan_stack' = Spider(tarjan_stack, places)
    BY ONLY <1>3, <1>5, <2>1, <2>2, SpiderStep
  <2>3. CASE tarjan_stack' = tarjan_stack
    <3>1. StackPart /\ UNCHANGED <<dfs_stack, tarjan_stack>>
      BY <2>1, <2>3 DEF IInv, StackPart
    <3>2. StackPart'
      BY ONLY <1>3, <3>1, SameStacks
    <3> QED BY <2>3, <3>2 DEF IInv, StacksOK, SameLinks
  <2> QED BY <1>1, <2>2, <2>3
<1>7. /\ scc_queue' \in Seq(Seq(State))
      /\ \A k \in DOMAIN scc_queue' : ToSet(scc_queue'[k]) \subseteq Members
  <2>1. found \in Seq(State) /\ ToSet(found) \subseteq Members
    BY <1>2, <1>4 DEF ToSet
  <2>2. scc_queue \in Seq(Seq(State))
    BY DEF IInv, StacksOK
  <2>3. CASE scc_queue' = scc_queue
    BY <1>3, <2>2, <2>3
  <2>4. CASE scc_queue' = Append(scc_queue, found)
    <3>n. PICK n : n = Len(scc_queue)
      OBVIOUS
    <3>Q. PICK Q : Q = scc_queue'
      OBVIOUS
    <3>S. PICK S : S = Seq(State)
      OBVIOUS
    <3>1. scc_queue \in Seq(S) /\ found \in S
      BY <2>1, <2>2, <3>S
    <3>2. /\ Append(scc_queue, found) \in Seq(S) /\ Len(scc_queue) \in Nat
          /\ Len(Append(scc_queue, found)) = Len(scc_queue) + 1
          /\ \A i \in 1..(Len(scc_queue) + 1) :
               Append(scc_queue, found)[i] = IF i = Len(scc_queue) + 1 THEN found
                                             ELSE scc_queue[i]
      BY ONLY <3>1, PushFacts
    <3>3. /\ Q \in Seq(S) /\ n \in Nat /\ Len(Q) = n + 1
          /\ \A i \in 1..(n + 1) : Q[i] = IF i = n + 1 THEN found ELSE scc_queue[i]
      BY ONLY <2>4, <3>2, <3>n, <3>Q
    <3>4. \A k \in 1..n : ToSet(scc_queue[k]) \subseteq Members
      BY <1>3, <2>2, <3>n
    <3>5. \A k \in 1..(n + 1) : ToSet(Q[k]) \subseteq Members
      <4> TAKE k \in 1..(n + 1)
      <4>1. CASE k = n + 1
        BY <4>1, <3>3, <2>1
      <4>2. CASE k # n + 1
        <5>1. k \in 1..n /\ Q[k] = scc_queue[k]
          BY <4>2, <3>3
        <5> QED BY <5>1, <3>4
      <4> QED BY <4>1, <4>2
    <3>6. DOMAIN Q = 1..(n + 1)
      BY <3>3
    <3> QED BY <3>3, <3>5, <3>6, <3>Q, <3>S
  <2> QED BY <1>1, <2>3, <2>4
<1>k. PICK k : k = a - 1
  OBVIOUS
<1>8. /\ k \in 0..m /\ k \in Nat /\ ecd_stack' \in Seq(Members)
      /\ Len(ecd_stack') = k /\ (k = 0 => ecd_stack' = <<>>)
  <2>1. k \in 0..Len(ecd_stack) /\ ecd_stack \in Seq(Members)
    BY <1>2, <1>k, <1>m
  <2>2. /\ SubSeq(ecd_stack, 1, k) \in Seq(Members)
        /\ Len(SubSeq(ecd_stack, 1, k)) = k
        /\ SubSeq(ecd_stack, 1, k) = <<>> <=> k = 0
    BY ONLY <2>1, PrefixFacts
  <2>3. k \in 0..m /\ k \in Nat
    BY <1>2, <1>k
  <2> QED BY <1>1, <1>k, <2>2, <2>3
<1>9. explored \subseteq explored' /\ explored' \subseteq State
  BY <1>1, <1>2
<1>10. CASE Len(ecd_frames) = 1 /\ ecd_frames' = <<>> /\ pc' = "ecd_root"
  <2>1. ecd_frames[1].stackidx = 1
    BY <1>2 DEF IInv, SecondSearchOK
  <2>a. f = ecd_frames[1]
    BY <1>2, <1>10
  <2>b. a = 1
    BY <1>a, <2>1, <2>a
  <2>2. k = 0
    BY <1>k, <2>b
  <2>3. FramesAmong(ecd_frames', Len(ecd_stack'), Waiting')
    <3>1. <<>> \in Seq(ECDExplorationInfos) /\ 1..Len(<<>>) = {}
      OBVIOUS
    <3> QED BY <1>10, <3>1 DEF FramesAmong
  <2>4. pc' \in ECDPCs /\ pc' = "ecd_root" /\ ecd_stack' = <<>> /\ ecd_frames' = <<>>
    BY <1>8, <1>10, <2>2 DEF ECDPCs
  <2> QED BY <1>1, <1>2, <1>6, <1>7, <1>8, <1>9, <2>3, <2>4, SecondSearchRest
<1>11. CASE /\ Len(ecd_frames) > 1
            /\ ecd_frames' = WithTop(Front(ecd_frames),
                                     [BelowECD EXCEPT !.leaves_scc = TRUE])
            /\ pc' = "ecd_successor"
  <2>b. PICK b : b = BelowECD
    OBVIOUS
  <2>g. PICK g : g = [b EXCEPT !.leaves_scc = TRUE]
    OBVIOUS
  <2>1. /\ FramesAmong(Front(ecd_frames), k, TRUE) /\ Front(ecd_frames) # <<>>
        /\ b = Last(Front(ecd_frames)) /\ b \in ECDExplorationInfos
        /\ FrameAmong(b) /\ IsAmong(b.action) /\ b.lowlink \in 1..b.stackidx
        /\ Front(ecd_frames) \in Seq(ECDExplorationInfos)
    <3>1. IInv /\ pc \in {"ecd_transition", "ecd_successor"} /\ Len(ecd_frames) > 1
          /\ k \in (TopECD.stackidx - 1)..Len(ecd_stack)
      <4>1. k \in (a - 1)..m
        BY <1>2, <1>8, <1>k
      <4>2. (TopECD.stackidx - 1)..Len(ecd_stack) = (a - 1)..m
        BY <1>a, <1>f, <1>m
      <4> QED BY <1>1, <1>11, <4>1, <4>2
    <3>2. /\ FramesAmong(Front(ecd_frames), k, TRUE) /\ Front(ecd_frames) # <<>>
          /\ BelowECD = Last(Front(ecd_frames)) /\ BelowECD \in ECDExplorationInfos
          /\ FrameAmong(BelowECD) /\ IsAmong(BelowECD.action)
          /\ BelowECD.lowlink \in 1..BelowECD.stackidx
          /\ Front(ecd_frames) \in Seq(ECDExplorationInfos)
      BY ONLY <3>1, BelowECDFacts
    <3> QED BY <3>2, <2>b
  <2>2. /\ g \in ECDExplorationInfos /\ g.todo = b.todo /\ g.action = b.action
        /\ g.successors = b.successors /\ g.place = b.place
        /\ g.stackidx = b.stackidx /\ g.lowlink = b.lowlink
    BY <2>1, <2>g DEF ECDExplorationInfos
  <2>3. FrameAmong(g) /\ IsAmong(g.action)
    BY <2>1, <2>2 DEF FrameAmong
  <2>4. FramesAmong(WithTop(Front(ecd_frames), g), k, TRUE)
    <3>1. /\ g.stackidx = Last(Front(ecd_frames)).stackidx
          /\ g.lowlink \in 1..g.stackidx
          /\ (TRUE => IsAmong(g.action)) /\ g \in ECDExplorationInfos
      BY <2>1, <2>2, <2>3
    <3> QED BY ONLY <1>8, <2>1, <2>3, <3>1, FramesReplaced
  <2>5. WithTop(Front(ecd_frames), g) # <<>>
    BY ONLY <2>1, <2>2, WithTopFacts
  <2>6. Waiting' = TRUE
    BY <1>11 DEF Waiting
  <2>7. FramesAmong(ecd_frames', Len(ecd_stack'), Waiting') /\ ecd_frames' # <<>>
    BY <1>8, <1>11, <2>4, <2>5, <2>6, <2>b, <2>g
  <2>8. pc' \in ECDPCs /\ pc' # "ecd_root"
    BY <1>11 DEF ECDPCs
  <2> QED BY <1>1, <1>2, <1>6, <1>7, <1>8, <1>9, <2>7, <2>8, SecondSearchRest
<1> QED BY <1>1, <1>10, <1>11

(* The next component that is to be searched, or the end of the search.    *)
LEMMA EndRootsECDStep == ASSUME IInv, EndRootsECD PROVE IInv'
<1>1. /\ pc = "ecd_root" /\ \A i \in DOMAIN scc : scc[i] \in explored
      /\ UNCHANGED <<initial_state, value, dfs_stack, tarjan_stack, ecd_frames,
                     ecd_stack, analysis_vars, sweep>>
  BY DEF EndRootsECD
<1>2. /\ ~Stopped /\ dfs_stack # <<>> /\ IsRoot(Top) /\ Top.aops = {}
      /\ \A k \in DOMAIN scc_queue : ToSet(scc_queue[k]) \subseteq Members
      /\ pc \in ECDPCs
  BY <1>1, SecondSearchFacts DEF ECDPCs
<1>3. /\ ValuesOK /\ StacksOK /\ Indexed /\ SecondSearchOK /\ StackPart
      /\ ecd_frames = <<>> /\ ecd_stack = <<>>
  BY <1>1 DEF IInv, StackPart, SecondSearchOK
<1>4. \A i \in DOMAIN tarjan_stack : tarjan_stack[i].state \in explored
  BY <1>1, <1>2, <1>3 DEF Indexed, ToSet
<1>5. StackPart'
  <2>1. UNCHANGED <<dfs_stack, tarjan_stack>>
    BY <1>1
  <2> QED BY <1>2, <1>3, <2>1, SameStacks
<1>6. Members' = Members
  BY <1>1 DEF Members, Places, Top
<1>7. /\ UNCHANGED <<initial_state, dfs_stack>>
      /\ value' \in [State -> Int] /\ sweep' \in [next : Nat, converged : BOOLEAN]
      /\ pc \in {"transition"} \union RootedPCs /\ ecd_frames' = <<>>
      /\ ecd_stack' = <<>>
  BY <1>1, <1>2, <1>3 DEF ValuesOK, RootedPCs
<1>8. CASE NextScc /\ pc' = pc /\ scc' = Last(scc_queue)
           /\ scc_queue' = Front(scc_queue)
           /\ explored' = explored \ ToSet(Last(scc_queue))
  <2>S. PICK S : S = Seq(State)
    OBVIOUS
  <2>n. PICK n : n = Len(scc_queue)
    OBVIOUS
  <2>Q. PICK Q : Q = scc_queue'
    OBVIOUS
  <2>1. scc_queue \in Seq(S) /\ scc_queue # <<>>
    BY <1>3, <1>8, <2>S DEF StacksOK, NextScc
  <2>2. /\ Front(scc_queue) \in Seq(S) /\ Len(Front(scc_queue)) = Len(scc_queue) - 1
        /\ Len(scc_queue) \in Nat \ {0}
        /\ \A i \in 1..(Len(scc_queue) - 1) : Front(scc_queue)[i] = scc_queue[i]
    BY ONLY <2>1, FrontFacts
  <2>3. /\ Q \in Seq(S) /\ Len(Q) = n - 1 /\ n \in Nat \ {0} /\ n \in 1..n
        /\ \A i \in 1..(n - 1) : Q[i] = scc_queue[i]
    BY ONLY <2>2, <1>8, <2>n, <2>Q
  <2>4. DOMAIN Q = 1..(n - 1) /\ DOMAIN scc_queue = 1..n
        /\ 1..(n - 1) \subseteq 1..n
    BY <2>1, <2>3, <2>n
  <2>5. scc' = scc_queue[n] /\ scc' \in S /\ ToSet(scc') \subseteq Members
    BY <1>2, <1>8, <2>1, <2>3, <2>4, <2>n DEF Last
  <2>6. \A k \in DOMAIN Q : ToSet(Q[k]) \subseteq Members
    BY <1>2, <2>3, <2>4
  <2>7. explored' \subseteq State
    BY <1>3, <1>8 DEF ValuesOK
  <2>8. Indexed'
    <3>1. explored' \union ToSet(scc') = explored \union ToSet(scc')
      BY <1>8
    <3>2. pc' \in ECDPCs
      BY <1>2, <1>8
    <3> QED BY <1>1, <1>3, <1>4, <3>1, <3>2 DEF Indexed
  <2>9. SecondSearchOK'
    <3>1. pc' = "ecd_root" /\ ToSet(ecd_stack') = {}
      BY <1>1, <1>7, <1>8 DEF ToSet
    <3> QED BY <1>6, <1>7, <2>5, <2>6, <2>Q, <3>1 DEF SecondSearchOK, ECDPCs
  <2>10. StacksOK'
    BY <1>1, <1>3, <2>3, <2>5, <2>Q, <2>S DEF StacksOK
  <2>11. pc' \in RootedPCs /\ pc' \notin SweepPCs /\ AnalysisOK'
    BY <1>1, <1>8 DEF RootedPCs, ECDPCs, SweepPCs, AnalysisOK, PartitionAgrees
  <2> QED BY <1>2, <1>5, <1>7, <2>7, <2>8, <2>9, <2>10, <2>11, RootedRest
<1>9. CASE ~NextScc /\ scc' = <<>> /\ pc' = "solvability"
           /\ UNCHANGED <<scc_queue, explored>>
  <2>1. scc_queue' = <<>>
    BY <1>9 DEF NextScc
  <2>2. Indexed'
    BY <1>1, <1>3, <1>4, <1>9 DEF Indexed
  <2>3. SecondSearchOK'
    BY <1>7, <1>9, <2>1 DEF SecondSearchOK, ECDPCs
  <2>4. StacksOK' /\ explored' \subseteq State
    BY <1>1, <1>3, <1>9 DEF StacksOK, ValuesOK
  <2>5. pc' \in RootedPCs /\ pc' \notin SweepPCs /\ AnalysisOK'
    BY <1>9 DEF RootedPCs, AnalysisPCs, SweepPCs, AnalysisOK,
       PartitionAgrees
  <2> QED BY <1>2, <1>5, <1>7, <2>2, <2>3, <2>4, <2>5, RootedRest
<1> QED BY <1>8, <1>9 DEF EndRootsECD
-----------------------------------------------------------------------------
(* Sweeps, the timer, and steps that change nothing.                       *)

(* Outside the second search its stacks are empty.                         *)
LEMMA SecondSearchIdle ==
  ASSUME SecondSearchOK, UNCHANGED ecd_vars,
         pc \notin ECDPCs \union {"timeout"}, pc' \notin ECDPCs
  PROVE  SecondSearchOK'
BY DEF SecondSearchOK, ecd_vars, ECDPCs

(* What the invariant says while solvability is analysed.                  *)
LEMMA AnalysisFacts ==
  ASSUME IInv, pc \in AnalysisPCs
  PROVE  /\ ~Stopped /\ dfs_stack # <<>> /\ IsRoot(Top) /\ Top.aops = {}
         /\ pc \notin ECDPCs \union {"timeout"} /\ pc \in RootedPCs
         /\ ValuesOK /\ StacksOK /\ StackPart /\ FramesOK /\ Indexed
         /\ ControlOK /\ SecondSearchOK
         /\ tarjan_stack \in Seq(StackInfos)
<1>1. ControlOK /\ ~Stopped /\ pc # "solve"
  BY DEF IInv, AnalysisPCs, Stopped
<1>2. dfs_stack # <<>> /\ IsRoot(Top) /\ Top.aops = {}
  BY <1>1 DEF ControlOK
<1>3. pc \notin ECDPCs \union {"timeout"} /\ pc \in RootedPCs
  BY DEF AnalysisPCs, ECDPCs, RootedPCs
<1> QED BY <1>1, <1>2, <1>3 DEF IInv, StackPart, StacksOK

(* Neither stack changes in a sweep.                                       *)
LEMMA SweepKeeps ==
  ASSUME IInv, pc = "sweep", pc' = "sweep",
         UNCHANGED <<dfs_vars, explored, tarjan_stack, ecd_vars>>,
         value' \in [State -> Int],
         sweep' \in [next : Nat, converged : BOOLEAN],
         sweep'.next \in Top.stackidx..(Len(tarjan_stack) + 1)
  PROVE  IInv'
<1>1. pc \in AnalysisPCs
  BY DEF AnalysisPCs
<1>2. /\ ~Stopped /\ dfs_stack # <<>> /\ IsRoot(Top) /\ Top.aops = {}
      /\ pc \notin ECDPCs \union {"timeout"} /\ pc \in RootedPCs
      /\ ValuesOK /\ StacksOK /\ StackPart /\ Indexed /\ SecondSearchOK
  BY <1>1, AnalysisFacts
<1>3. StackPart'
  <2>1. UNCHANGED <<dfs_stack, tarjan_stack>>
    BY DEF dfs_vars
  <2> QED BY ONLY <1>2, <2>1, SameStacks
<1>4. SecondSearchOK'
  BY <1>2, SecondSearchIdle DEF ECDPCs
<1>5. Indexed' /\ StacksOK'
  BY <1>2 DEF Indexed, StacksOK, dfs_vars, ecd_vars, ECDPCs, Stopped
<1>6. AnalysisOK'
  BY DEF AnalysisOK, PartitionAgrees
<1>7. /\ UNCHANGED <<initial_state, dfs_stack>> /\ explored' \subseteq State
      /\ pc' \in RootedPCs /\ Len(tarjan_stack') = Len(tarjan_stack)
  BY <1>2 DEF dfs_vars, ValuesOK
<1> QED BY <1>2, <1>3, <1>4, <1>5, <1>6, <1>7, RootedRest

(* One update of a sweep,                                                  *)
LEMMA UpdateValueStep == ASSUME IInv, UpdateValue PROVE IInv'
<1>1. /\ pc = "sweep" /\ sweep.next <= Len(tarjan_stack) /\ pc' = pc
      /\ value' = [value EXCEPT ![tarjan_stack[sweep.next].state] =
                     Updated(tarjan_stack[sweep.next])]
      /\ UNCHANGED <<dfs_vars, explored, tarjan_stack, ecd_vars>>
  BY DEF UpdateValue
<1>2. \E c \in BOOLEAN : sweep' = [next |-> sweep.next + 1, converged |-> c]
  <2>1. ValuesOK
    BY DEF IInv
  <2>2. sweep.converged \in BOOLEAN
    BY <2>1 DEF ValuesOK
  <2>3. \A x, y : SweepConverged(ApproxEqual(x, y)) \in BOOLEAN
    BY <2>2 DEF SweepConverged, ApproxEqual
  <2> QED BY <2>3 DEF UpdateValue
<1>3. pc \in AnalysisPCs
  BY <1>1 DEF AnalysisPCs
<1>4. /\ ~Stopped /\ dfs_stack # <<>> /\ IsRoot(Top)
      /\ ValuesOK /\ ControlOK /\ tarjan_stack \in Seq(StackInfos)
  BY <1>3, AnalysisFacts
<1>n. PICK n : n = Len(tarjan_stack)
  OBVIOUS
<1>k. PICK k : k = sweep.next
  OBVIOUS
<1>b. PICK b : b = Top.stackidx
  OBVIOUS
<1>5. n \in Nat /\ b \in 1..n /\ DOMAIN tarjan_stack = 1..n
  BY <1>4, <1>n, <1>b, RootFacts
<1>6. k \in b..(n + 1) /\ k <= n
  BY <1>1, <1>4, <1>n, <1>k, <1>b DEF ControlOK, SweepPCs
<1>7. k \in 1..n /\ k + 1 \in b..(n + 1) /\ k + 1 \in Nat
  BY <1>5, <1>6
<1>8. value' \in [State -> Int]
  <2>1. tarjan_stack[k] \in StackInfos /\ value \in [State -> Int]
    BY <1>4, <1>5, <1>7 DEF ValuesOK
  <2>2. Updated(tarjan_stack[k]) \in Int
    BY <2>1, UpdatedType
  <2> QED BY <1>1, <1>k, <2>1, <2>2
<1>9. /\ sweep' \in [next : Nat, converged : BOOLEAN]
      /\ sweep'.next \in Top.stackidx..(Len(tarjan_stack) + 1)
  BY <1>2, <1>7, <1>k, <1>n, <1>b
<1> QED BY <1>1, <1>8, <1>9, SweepKeeps

(* and the next sweep.                                                     *)
LEMMA SweepAgainStep == ASSUME IInv, SweepAgain PROVE IInv'
<1>1. /\ pc = "sweep" /\ pc' = "sweep"
      /\ sweep' = [next |-> Top.stackidx, converged |-> TRUE]
      /\ UNCHANGED <<dfs_vars, explored, value, tarjan_stack, ecd_vars>>
  BY DEF SweepAgain
<1>2. pc \in AnalysisPCs
  BY <1>1 DEF AnalysisPCs
<1>3. ~Stopped /\ dfs_stack # <<>> /\ IsRoot(Top) /\ ValuesOK
  BY <1>2, AnalysisFacts
<1>n. PICK n : n = Len(tarjan_stack)
  OBVIOUS
<1>b. PICK b : b = Top.stackidx
  OBVIOUS
<1>4. n \in Nat /\ b \in 1..n
  BY <1>3, <1>n, <1>b, RootFacts
<1>5. b \in b..(n + 1) /\ b \in Nat
  BY <1>4
<1>6. /\ sweep' \in [next : Nat, converged : BOOLEAN]
      /\ sweep'.next \in Top.stackidx..(Len(tarjan_stack) + 1)
      /\ value' \in [State -> Int]
  BY <1>1, <1>3, <1>5, <1>n, <1>b DEF ValuesOK
<1> QED BY <1>1, <1>6, SweepKeeps

(* The timer may expire anywhere.                                          *)
LEMMA TimeoutStep == ASSUME IInv, Timeout PROVE IInv'
<1>1. /\ pc \in {"successor", "ecd_successor", "collect", "demote", "sweep"}
      /\ pc' = "timeout"
      /\ UNCHANGED <<dfs_vars, explored, value, tarjan_stack, ecd_vars,
                     analysis_vars, sweep>>
  BY DEF Timeout
<1>2. ~Stopped /\ Stopped'
  BY <1>1 DEF Stopped
<1>3. ValuesOK /\ StacksOK /\ StackPart /\ ControlOK /\ Indexed /\ SecondSearchOK
  BY DEF IInv, StackPart
<1>4. StackPart'
  <2>1. UNCHANGED <<dfs_stack, tarjan_stack>>
    BY <1>1 DEF dfs_vars
  <2> QED BY ONLY <1>2, <1>3, <2>1, SameStacks
<1>5. ValuesOK' /\ StacksOK'
  BY <1>1, <1>3 DEF ValuesOK, StacksOK, dfs_vars, ecd_vars, PCs
<1>6. ControlOK'
  <2>1. Chained'
    BY <1>1, <1>3 DEF ControlOK, Chained, Exploring, dfs_vars
  <2>2. pc' \notin {"transition", "successor", "sweep", "solve"} \union ECDPCs
                   \union AnalysisPCs
    BY <1>1 DEF ECDPCs, AnalysisPCs
  <2> QED BY <1>2, <2>1, <2>2 DEF ControlOK, AnalysisPCs, SweepPCs
<1>7. Indexed'
  BY <1>1, <1>2, <1>3 DEF Indexed
<1>8. SecondSearchOK'
  BY <1>1, <1>3 DEF SecondSearchOK, ecd_vars, ECDPCs
<1>9. AnalysisOK'
  BY <1>1 DEF AnalysisOK, PartitionAgrees
<1> QED BY <1>4, <1>5, <1>6, <1>7, <1>8, <1>9 DEF IInv, StackPart

(* A step that changes nothing.                                            *)
LEMMA Stutter == ASSUME IInv, UNCHANGED vars PROVE IInv'
<1>1. UNCHANGED <<initial_state, pc, explored, value, dfs_stack, tarjan_stack,
                  scc, scc_queue, ecd_frames, ecd_stack, partition, unsolv_it,
                  sweep>>
  BY DEF vars, dfs_vars, ecd_vars, analysis_vars
<1>2. ValuesOK' /\ StacksOK' /\ FramesOK' /\ Indexed' /\ CountersOK'
  <2>1. ValuesOK'
    BY <1>1 DEF IInv, ValuesOK
  <2>2. StacksOK'
    BY <1>1 DEF IInv, StacksOK
  <2>3. FramesOK'
    BY <1>1 DEF IInv, FramesOK
  <2>4. Indexed'
    BY <1>1 DEF IInv, Indexed, Stopped
  <2>5. CountersOK'
    BY <1>1 DEF IInv, CountersOK
  <2> QED BY <2>1, <2>2, <2>3, <2>4, <2>5
<1>3. \A i, k : Near(i, k)' <=> Near(i, k)
  BY <1>1 DEF Near
<1>4. \A i, t : IsNear(i, t)' <=> IsNear(i, t)
  BY <1>1, <1>3 DEF IsNear
<1>5. SuccessorsOK'
  BY <1>1, <1>4 DEF IInv, SuccessorsOK, Transitions, Stopped
<1>6. \A x : (IsRecorded(x)' <=> IsRecorded(x)) /\ (IsUnderWay(x)' <=> IsUnderWay(x))
  BY <1>1 DEF IsRecorded, IsUnderWay, FlagCount
<1>7. LinksOK'
  BY <1>1, <1>3, <1>6 DEF IInv, LinksOK, Stopped
<1>8. Top' = Top /\ Places' = Places /\ Members' = Members /\ Size' = Size
  BY <1>1 DEF Top, Places, Members, Size
<1>9. ControlOK'
  BY <1>1, <1>8 DEF IInv, ControlOK, Chained, Exploring, Stopped, IsRoot,
     SccSuccessors
<1>10. SecondSearchOK'
  BY <1>1, <1>8 DEF IInv, SecondSearchOK, IsAmong, SccSuccessors
<1>11. AnalysisOK'
  BY <1>1, <1>8 DEF IInv, AnalysisOK, PartitionAgrees, Separated, IsSolvable,
     Entry, Local, FlagsOf, Consistent, IsUnsolvable
<1> QED BY <1>2, <1>5, <1>7, <1>9, <1>10, <1>11 DEF IInv
-----------------------------------------------------------------------------
(* The four folds of the analysis, step by step: what holds before them    *)
(* and is kept, or taken further, by each step, holds in the end.          *)

Sorted(p, i) ==
  LET e == Entry(tarjan_stack, i)
  IN  IF e.active_exit_transitions # 0 THEN p
      ELSE IF e.active_transitions > 0 THEN DemoteExitSolvable(p, i)
      ELSE DemoteExitUnsolvable(p, i)

Promoted(r, x) ==
  IF FlagsOf(tarjan_stack, x).is_active
  THEN PromoteSolvable(r, Local(x.parent_idx)) ELSE r

Visited(r, i) ==
  IF i < r.solvable_beg THEN r ELSE ParentsPromoted(r, r.order[i])

SortedRun(m, base) ==
  CHOOSE f : f = [i \in 0..m |->
    IF i = 0 THEN base
    ELSE CHOOSE z \in {Sorted(y, i) : y \in {f[i - 1]}} : TRUE]

(* InitialPartition.                                                       *)
LEMMA SortedFold ==
  ASSUME NEW m \in Nat, NEW XX, NEW base, base \in XX[0],
         \A i \in 1..m : \A y \in XX[i - 1] : Sorted(y, i) \in XX[i]
  PROVE  SortedRun(m, base)[m] \in XX[m]
<1> DEFINE run == CHOOSE f : f = [i \in 0..m |->
             IF i = 0 THEN base
             ELSE CHOOSE z \in {Sorted(y, i) : y \in {f[i - 1]}} : TRUE]
           Y == UNION {XX[i] : i \in 0..m}
           g == [p \in Y \X (1..m) |-> Sorted(p[1], p[2])]
<1>1. ASSUME NEW i \in 1..m, NEW y \in XX[i - 1]
      PROVE  g[<<y, i>>] = Sorted(y, i) /\ g[<<y, i>>] \in XX[i]
  <2>1. i - 1 \in 0..m /\ y \in Y
    BY <1>1
  <2>2. g[<<y, i>>] = Sorted(y, i)
    BY <2>1
  <2> QED BY <2>2
<1> HIDE DEF g, Y
<1>2. PICK f : IsRun(f, m, XX, base, g)
  <2>1. \A i \in 1..m : \A y \in XX[i - 1] : g[<<y, i>>] \in XX[i]
    BY <1>1
  <2> QED BY ONLY m \in Nat, base \in XX[0], <2>1, RunExists
<1>3. /\ f = [i \in 0..m |-> f[i]] /\ f[0] = base
      /\ \A i \in 1..m : f[i] = g[<<f[i - 1], i>>]
      /\ \A i \in 0..m : f[i] \in XX[i]
  BY ONLY <1>2 DEF IsRun
<1>4. ASSUME NEW i \in 0..m
      PROVE  f[i] = IF i = 0 THEN base
                    ELSE CHOOSE z \in {Sorted(y, i) : y \in {f[i - 1]}} : TRUE
  <2>1. CASE i = 0
    BY <1>3, <2>1
  <2>2. CASE i # 0
    <3>1. i \in 1..m /\ i - 1 \in 0..m
      BY <2>2
    <3>2. f[i - 1] \in XX[i - 1] /\ f[i] = g[<<f[i - 1], i>>]
      BY <3>1, <1>3
    <3>p. PICK u : u = f[i - 1]
      OBVIOUS
    <3>3. f[i] = Sorted(u, i)
      BY <3>1, <3>2, <3>p, <1>1
    <3>4. {Sorted(y, i) : y \in {u}} = {Sorted(u, i)}
      OBVIOUS
    <3> QED BY <2>2, <3>3, <3>4, <3>p
  <2> QED BY <2>1, <2>2
<1>5. f = [i \in 0..m |->
             IF i = 0 THEN base
             ELSE CHOOSE z \in {Sorted(y, i) : y \in {f[i - 1]}} : TRUE]
  BY <1>3, <1>4
<1>6. run = [i \in 0..m |->
             IF i = 0 THEN base
             ELSE CHOOSE z \in {Sorted(y, i) : y \in {run[i - 1]}} : TRUE]
  BY <1>5
<1> HIDE DEF run
<1>7. run[0] \in XX[0]
  <2>1. 0 \in 0..m
    OBVIOUS
  <2> QED BY <2>1, <1>6
<1>8. ASSUME NEW i \in 1..m, run[i - 1] \in XX[i - 1] PROVE run[i] \in XX[i]
  <2>1. i \in 0..m /\ i # 0
    OBVIOUS
  <2>p. PICK u : u = run[i - 1]
    OBVIOUS
  <2>2. {Sorted(y, i) : y \in {u}} = {Sorted(u, i)}
    OBVIOUS
  <2>3. run[i] = Sorted(u, i)
    BY <2>1, <2>2, <2>p, <1>6
  <2> QED BY <2>3, <2>p, <1>8
<1>9. \A i \in 0..m : run[i] \in XX[i]
  <2>1. \A i \in 1..m : run[i - 1] \in XX[i - 1] => run[i] \in XX[i]
    BY <1>8
  <2> QED BY ONLY m \in Nat, <1>7, <2>1, RunIn
<1>10. m \in 0..m
  OBVIOUS
<1> QED BY <1>9, <1>10 DEF run, SortedRun

PromotedRun(m, base, links) ==
  CHOOSE f : f = [i \in 0..m |->
    IF i = 0 THEN base
    ELSE CHOOSE z \in {Promoted(y, links[i]) : y \in {f[i - 1]}} : TRUE]

(* ParentsPromoted.                                                        *)
LEMMA PromotedFold ==
  ASSUME NEW links, NEW m \in Nat, NEW XX, NEW base, base \in XX[0],
         \A i \in 1..m : \A y \in XX[i - 1] : Promoted(y, links[i]) \in XX[i]
  PROVE  PromotedRun(m, base, links)[m] \in XX[m]
<1> DEFINE run == CHOOSE f : f = [i \in 0..m |->
             IF i = 0 THEN base
             ELSE CHOOSE z \in {Promoted(y, links[i]) : y \in {f[i - 1]}} : TRUE]
           Y == UNION {XX[i] : i \in 0..m}
           g == [p \in Y \X (1..m) |-> Promoted(p[1], links[p[2]])]
<1>1. ASSUME NEW i \in 1..m, NEW y \in XX[i - 1]
      PROVE  g[<<y, i>>] = Promoted(y, links[i]) /\ g[<<y, i>>] \in XX[i]
  <2>1. i - 1 \in 0..m /\ y \in Y
    BY <1>1
  <2>2. g[<<y, i>>] = Promoted(y, links[i])
    BY <2>1
  <2> QED BY <2>2
<1> HIDE DEF g, Y
<1>2. PICK f : IsRun(f, m, XX, base, g)
  <2>1. \A i \in 1..m : \A y \in XX[i - 1] : g[<<y, i>>] \in XX[i]
    BY <1>1
  <2> QED BY ONLY m \in Nat, base \in XX[0], <2>1, RunExists
<1>3. /\ f = [i \in 0..m |-> f[i]] /\ f[0] = base
      /\ \A i \in 1..m : f[i] = g[<<f[i - 1], i>>]
      /\ \A i \in 0..m : f[i] \in XX[i]
  BY ONLY <1>2 DEF IsRun
<1>4. ASSUME NEW i \in 0..m
      PROVE  f[i] = IF i = 0 THEN base
                    ELSE CHOOSE z \in {Promoted(y, links[i]) : y \in {f[i - 1]}} : TRUE
  <2>1. CASE i = 0
    BY <1>3, <2>1
  <2>2. CASE i # 0
    <3>1. i \in 1..m /\ i - 1 \in 0..m
      BY <2>2
    <3>2. f[i - 1] \in XX[i - 1] /\ f[i] = g[<<f[i - 1], i>>]
      BY <3>1, <1>3
    <3>p. PICK u : u = f[i - 1]
      OBVIOUS
    <3>3. f[i] = Promoted(u, links[i])
      BY <3>1, <3>2, <3>p, <1>1
    <3>4. {Promoted(y, links[i]) : y \in {u}} = {Promoted(u, links[i])}
      OBVIOUS
    <3> QED BY <2>2, <3>3, <3>4, <3>p
  <2> QED BY <2>1, <2>2
<1>5. f = [i \in 0..m |->
             IF i = 0 THEN base
             ELSE CHOOSE z \in {Promoted(y, links[i]) : y \in {f[i - 1]}} : TRUE]
  BY <1>3, <1>4
<1>6. run = [i \in 0..m |->
             IF i = 0 THEN base
             ELSE CHOOSE z \in {Promoted(y, links[i]) : y \in {run[i - 1]}} : TRUE]
  BY <1>5
<1> HIDE DEF run
<1>7. run[0] \in XX[0]
  <2>1. 0 \in 0..m
    OBVIOUS
  <2> QED BY <2>1, <1>6
<1>8. ASSUME NEW i \in 1..m, run[i - 1] \in XX[i - 1] PROVE run[i] \in XX[i]
  <2>1. i \in 0..m /\ i # 0
    OBVIOUS
  <2>p. PICK u : u = run[i - 1]
    OBVIOUS
  <2>2. {Promoted(y, links[i]) : y \in {u}} = {Promoted(u, links[i])}
    OBVIOUS
  <2>3. run[i] = Promoted(u, links[i])
    BY <2>1, <2>2, <2>p, <1>6
  <2> QED BY <2>3, <2>p, <1>8
<1>9. \A i \in 0..m : run[i] \in XX[i]
  <2>1. \A i \in 1..m : run[i - 1] \in XX[i - 1] => run[i] \in XX[i]
    BY <1>8
  <2> QED BY ONLY m \in Nat, <1>7, <2>1, RunIn
<1>10. m \in 0..m
  OBVIOUS
<1> QED BY <1>9, <1>10 DEF run, PromotedRun

VisitedRun(m, base, seq) ==
  CHOOSE f : f = [i \in 0..m |->
    IF i = 0 THEN base
    ELSE CHOOSE z \in {Visited(y, seq[i]) : y \in {f[i - 1]}} : TRUE]

(* Collected.                                                              *)
LEMMA VisitedFold ==
  ASSUME NEW seq, NEW m \in Nat, NEW XX, NEW base, base \in XX[0],
         \A i \in 1..m : \A y \in XX[i - 1] : Visited(y, seq[i]) \in XX[i]
  PROVE  VisitedRun(m, base, seq)[m] \in XX[m]
<1> DEFINE run == CHOOSE f : f = [i \in 0..m |->
             IF i = 0 THEN base
             ELSE CHOOSE z \in {Visited(y, seq[i]) : y \in {f[i - 1]}} : TRUE]
           Y == UNION {XX[i] : i \in 0..m}
           g == [p \in Y \X (1..m) |-> Visited(p[1], seq[p[2]])]
<1>1. ASSUME NEW i \in 1..m, NEW y \in XX[i - 1]
      PROVE  g[<<y, i>>] = Visited(y, seq[i]) /\ g[<<y, i>>] \in XX[i]
  <2>1. i - 1 \in 0..m /\ y \in Y
    BY <1>1
  <2>2. g[<<y, i>>] = Visited(y, seq[i])
    BY <2>1
  <2> QED BY <2>2
<1> HIDE DEF g, Y
<1>2. PICK f : IsRun(f, m, XX, base, g)
  <2>1. \A i \in 1..m : \A y \in XX[i - 1] : g[<<y, i>>] \in XX[i]
    BY <1>1
  <2> QED BY ONLY m \in Nat, base \in XX[0], <2>1, RunExists
<1>3. /\ f = [i \in 0..m |-> f[i]] /\ f[0] = base
      /\ \A i \in 1..m : f[i] = g[<<f[i - 1], i>>]
      /\ \A i \in 0..m : f[i] \in XX[i]
  BY ONLY <1>2 DEF IsRun
<1>4. ASSUME NEW i \in 0..m
      PROVE  f[i] = IF i = 0 THEN base
                    ELSE CHOOSE z \in {Visited(y, seq[i]) : y \in {f[i - 1]}} : TRUE
  <2>1. CASE i = 0
    BY <1>3, <2>1
  <2>2. CASE i # 0
    <3>1. i \in 1..m /\ i - 1 \in 0..m
      BY <2>2
    <3>2. f[i - 1] \in XX[i - 1] /\ f[i] = g[<<f[i - 1], i>>]
      BY <3>1, <1>3
    <3>p. PICK u : u = f[i - 1]
      OBVIOUS
    <3>3. f[i] = Visited(u, seq[i])
      BY <3>1, <3>2, <3>p, <1>1
    <3>4. {Visited(y, seq[i]) : y \in {u}} = {Visited(u, seq[i])}
      OBVIOUS
    <3> QED BY <2>2, <3>3, <3>4, <3>p
  <2> QED BY <2>1, <2>2
<1>5. f = [i \in 0..m |->
             IF i = 0 THEN base
             ELSE CHOOSE z \in {Visited(y, seq[i]) : y \in {f[i - 1]}} : TRUE]
  BY <1>3, <1>4
<1>6. run = [i \in 0..m |->
             IF i = 0 THEN base
             ELSE CHOOSE z \in {Visited(y, seq[i]) : y \in {run[i - 1]}} : TRUE]
  BY <1>5
<1> HIDE DEF run
<1>7. run[0] \in XX[0]
  <2>1. 0 \in 0..m
    OBVIOUS
  <2> QED BY <2>1, <1>6
<1>8. ASSUME NEW i \in 1..m, run[i - 1] \in XX[i - 1] PROVE run[i] \in XX[i]
  <2>1. i \in 0..m /\ i # 0
    OBVIOUS
  <2>p. PICK u : u = run[i - 1]
    OBVIOUS
  <2>2. {Visited(y, seq[i]) : y \in {u}} = {Visited(u, seq[i])}
    OBVIOUS
  <2>3. run[i] = Visited(u, seq[i])
    BY <2>1, <2>2, <2>p, <1>6
  <2> QED BY <2>3, <2>p, <1>8
<1>9. \A i \in 0..m : run[i] \in XX[i]
  <2>1. \A i \in 1..m : run[i - 1] \in XX[i - 1] => run[i] \in XX[i]
    BY <1>8
  <2> QED BY ONLY m \in Nat, <1>7, <2>1, RunIn
<1>10. m \in 0..m
  OBVIOUS
<1> QED BY <1>9, <1>10 DEF run, VisitedRun

DeactivatedRun(m, base, links) ==
  CHOOSE f : f = [i \in 0..m |->
    IF i = 0 THEN base
    ELSE CHOOSE z \in {Deactivated(y, links[i]) : y \in {f[i - 1]}} : TRUE]

(* DemoteParents.                                                          *)
LEMMA DeactivatedFold ==
  ASSUME NEW links, NEW m \in Nat, NEW XX, NEW base, base \in XX[0],
         \A i \in 1..m : \A y \in XX[i - 1] : Deactivated(y, links[i]) \in XX[i]
  PROVE  DeactivatedRun(m, base, links)[m] \in XX[m]
<1> DEFINE run == CHOOSE f : f = [i \in 0..m |->
             IF i = 0 THEN base
             ELSE CHOOSE z \in {Deactivated(y, links[i]) : y \in {f[i - 1]}} : TRUE]
           Y == UNION {XX[i] : i \in 0..m}
           g == [p \in Y \X (1..m) |-> Deactivated(p[1], links[p[2]])]
<1>1. ASSUME NEW i \in 1..m, NEW y \in XX[i - 1]
      PROVE  g[<<y, i>>] = Deactivated(y, links[i]) /\ g[<<y, i>>] \in XX[i]
  <2>1. i - 1 \in 0..m /\ y \in Y
    BY <1>1
  <2>2. g[<<y, i>>] = Deactivated(y, links[i])
    BY <2>1
  <2> QED BY <2>2
<1> HIDE DEF g, Y
<1>2. PICK f : IsRun(f, m, XX, base, g)
  <2>1. \A i \in 1..m : \A y \in XX[i - 1] : g[<<y, i>>] \in XX[i]
    BY <1>1
  <2> QED BY ONLY m \in Nat, base \in XX[0], <2>1, RunExists
<1>3. /\ f = [i \in 0..m |-> f[i]] /\ f[0] = base
      /\ \A i \in 1..m : f[i] = g[<<f[i - 1], i>>]
      /\ \A i \in 0..m : f[i] \in XX[i]
  BY ONLY <1>2 DEF IsRun
<1>4. ASSUME NEW i \in 0..m
      PROVE  f[i] = IF i = 0 THEN base
                    ELSE CHOOSE z \in {Deactivated(y, links[i]) : y \in {f[i - 1]}} : TRUE
  <2>1. CASE i = 0
    BY <1>3, <2>1
  <2>2. CASE i # 0
    <3>1. i \in 1..m /\ i - 1 \in 0..m
      BY <2>2
    <3>2. f[i - 1] \in XX[i - 1] /\ f[i] = g[<<f[i - 1], i>>]
      BY <3>1, <1>3
    <3>p. PICK u : u = f[i - 1]
      OBVIOUS
    <3>3. f[i] = Deactivated(u, links[i])
      BY <3>1, <3>2, <3>p, <1>1
    <3>4. {Deactivated(y, links[i]) : y \in {u}} = {Deactivated(u, links[i])}
      OBVIOUS
    <3> QED BY <2>2, <3>3, <3>4, <3>p
  <2> QED BY <2>1, <2>2
<1>5. f = [i \in 0..m |->
             IF i = 0 THEN base
             ELSE CHOOSE z \in {Deactivated(y, links[i]) : y \in {f[i - 1]}} : TRUE]
  BY <1>3, <1>4
<1>6. run = [i \in 0..m |->
             IF i = 0 THEN base
             ELSE CHOOSE z \in {Deactivated(y, links[i]) : y \in {run[i - 1]}} : TRUE]
  BY <1>5
<1> HIDE DEF run
<1>7. run[0] \in XX[0]
  <2>1. 0 \in 0..m
    OBVIOUS
  <2> QED BY <2>1, <1>6
<1>8. ASSUME NEW i \in 1..m, run[i - 1] \in XX[i - 1] PROVE run[i] \in XX[i]
  <2>1. i \in 0..m /\ i # 0
    OBVIOUS
  <2>p. PICK u : u = run[i - 1]
    OBVIOUS
  <2>2. {Deactivated(y, links[i]) : y \in {u}} = {Deactivated(u, links[i])}
    OBVIOUS
  <2>3. run[i] = Deactivated(u, links[i])
    BY <2>1, <2>2, <2>p, <1>6
  <2> QED BY <2>3, <2>p, <1>8
<1>9. \A i \in 0..m : run[i] \in XX[i]
  <2>1. \A i \in 1..m : run[i - 1] \in XX[i - 1] => run[i] \in XX[i]
    BY <1>8
  <2> QED BY ONLY m \in Nat, <1>7, <2>1, RunIn
<1>10. m \in 0..m
  OBVIOUS
<1> QED BY <1>9, <1>10 DEF run, DeactivatedRun
-----------------------------------------------------------------------------
(* What the operations do to the places and the boundaries.                *)

(* How far a demotion moves the first boundary.                            *)
LEMMA DemoteBoundaries ==
  ASSUME NEW n \in Nat, NEW p, Consistent(p, n), NEW s
  PROVE  /\ DemoteUnsolvable(p, s).solvable_beg = p.solvable_beg + 1
         /\ DemoteExitSolvable(p, s).solvable_beg = p.solvable_beg
         /\ DemoteExitUnsolvable(p, s).solvable_beg = p.solvable_beg + 1
<1> DEFINE Shaped(r) == r \in [order : {r.order}, place : {r.place},
                        solvable_beg : {r.solvable_beg}, exits_beg : {r.exits_beg}]
<1>1. Shaped(p)
  BY DEF Consistent
<1>2. ASSUME NEW r, Shaped(r), NEW i
      PROVE  /\ Shaped(BroughtTo(r, i, s))
             /\ BroughtTo(r, i, s).solvable_beg = r.solvable_beg
  BY <1>2 DEF BroughtTo
<1>3. ASSUME NEW r, Shaped(r)
      PROVE  DemoteUnsolvable(r, s).solvable_beg = r.solvable_beg + 1
  <2>1. /\ Shaped(BroughtTo(r, r.solvable_beg, s))
        /\ BroughtTo(r, r.solvable_beg, s).solvable_beg = r.solvable_beg
    BY <1>2, <1>3
  <2> QED BY <2>1 DEF DemoteUnsolvable
<1>4. /\ Shaped(DemoteExitSolvable(p, s))
      /\ DemoteExitSolvable(p, s).solvable_beg = p.solvable_beg
  <2>1. /\ Shaped(BroughtTo(p, p.exits_beg, s))
        /\ BroughtTo(p, p.exits_beg, s).solvable_beg = p.solvable_beg
    BY <1>1, <1>2
  <2> QED BY <2>1 DEF DemoteExitSolvable
<1> HIDE DEF Shaped
<1> QED BY <1>1, <1>3, <1>4 DEF DemoteExitUnsolvable

(* Promoting a member moves no solvable member, and none that is in front  *)
(* of it.                                                                  *)
LEMMA PromotePlaces ==
  ASSUME NEW n \in Nat, NEW p, Consistent(p, n), NEW s \in 1..n
  PROVE  LET q == PromoteSolvable(p, s)
         IN  /\ Consistent(q, n) /\ ~IsUnsolvable(q, s)
             /\ q.exits_beg = p.exits_beg
             /\ q.solvable_beg <= p.solvable_beg
             /\ q.solvable_beg = p.solvable_beg \/ q.solvable_beg >= p.place[s]
             /\ \A t \in 1..n :
                  p.place[t] >= p.solvable_beg \/ p.place[t] < p.place[s] =>
                    q.place[t] = p.place[t]
<1> DEFINE q == PromoteSolvable(p, s)
<1>1. Consistent(q, n) /\ ~IsUnsolvable(q, s)
  BY PromoteSolvableCorrect
<1>2. CASE ~IsUnsolvable(p, s)
  <2>1. q = p
    BY <1>2 DEF PromoteSolvable
  <2>2. p.solvable_beg \in Int
    BY FieldTypes
  <2> HIDE DEF q
  <2> QED BY <1>1, <2>1, <2>2 DEF q
<1>3. CASE IsUnsolvable(p, s)
  <2>b. PICK b : b = p.solvable_beg
    OBVIOUS
  <2>c. PICK c : c = b - 1
    OBVIOUS
  <2>s. PICK x : x = p.place[s]
    OBVIOUS
  <2>1. b \in 1..(n + 1) /\ x \in 1..n /\ x < b
    BY <1>3, <2>b, <2>s, FieldTypes DEF IsUnsolvable
  <2>2. c \in 1..n /\ c \in 1..(n + 1) /\ x <= c /\ c < b /\ b = c + 1 /\ b \in Nat
        /\ x \in Nat /\ c \in Nat /\ c <= b
    BY <2>1, <2>c
  <2>r. PICK r : r = BroughtTo(p, c, s)
    OBVIOUS
  <2>3. Consistent(r, n) /\ r.solvable_beg = b /\ r.exits_beg = p.exits_beg
    BY <2>2, <2>r, <2>b, BroughtToKeeps
  <2>4. /\ r.place \in [1..n -> 1..n]
        /\ \A t \in 1..n :
             \/ t = s /\ r.place[t] = c
             \/ t # s /\ p.place[t] = c /\ r.place[t] = p.place[s]
             \/ t # s /\ p.place[t] # c /\ r.place[t] = p.place[t]
                  /\ r.place[t] # c
    BY <2>2, <2>r, BroughtToPlaces, SMTT(30)
  <2>5. q = [r EXCEPT !.solvable_beg = c]
    <3>1. q = [r EXCEPT !.solvable_beg = @ - 1]
      BY <1>3, <2>r, <2>c, <2>b DEF PromoteSolvable
    <3> HIDE DEF q
    <3> QED BY <3>1, <2>3, <2>c
  <2> HIDE DEF q
  <2>6. /\ q.solvable_beg = c /\ q.exits_beg = p.exits_beg /\ q.place = r.place
    <3>1. c <= r.exits_beg
      <4>1. r.solvable_beg <= r.exits_beg /\ r.exits_beg \in 1..(n + 1)
        BY <2>3, FieldTypes
      <4> QED BY <4>1, <2>2, <2>3
    <3> QED BY <3>1, <2>2, <2>3, <2>5, SolvableBegMoved
  <2>7. ASSUME NEW t \in 1..n, p.place[t] >= b \/ p.place[t] < x
        PROVE  r.place[t] = p.place[t]
    <3>p. PICK y : y = p.place[t]
      OBVIOUS
    <3>1. y \in 1..n
      BY <3>p, FieldTypes
    <3>2. y # c
      BY <3>1, <2>2, <2>7, <3>p
    <3>3. t # s
      BY <3>1, <2>1, <2>7, <3>p, <2>s
    <3> QED BY <3>2, <3>3, <3>p, <2>4
  <2> QED BY <1>1, <2>2, <2>6, <2>7, <2>b, <2>s DEF q
<1> QED BY <1>2, <1>3

(* The partitions a round of the analysis goes through after p: what was   *)
(* unsolvable in p is in its place, the exits are the same.                *)
RoundFrom(p, n) ==
  {r \in Partitions(n) :
     /\ Consistent(r, n)
     /\ r.exits_beg = p.exits_beg
     /\ r.solvable_beg >= p.solvable_beg
     /\ \A t \in 1..n : p.place[t] >= p.exits_beg <=> r.place[t] >= p.exits_beg
     /\ \A t \in 1..n : p.place[t] < p.solvable_beg => r.place[t] = p.place[t]}

(* A solvable member of p stays behind the boundary of p.                  *)
LEMMA RoundPlaces ==
  ASSUME NEW n \in Nat, NEW p, Consistent(p, n), NEW r \in RoundFrom(p, n),
         NEW s \in 1..n
  PROVE  /\ p.place[s] >= p.solvable_beg => r.place[s] >= p.solvable_beg
         /\ ~IsUnsolvable(r, s) => ~IsUnsolvable(p, s)
<1>1. /\ p.place \in [1..n -> 1..n] /\ p.order \in [1..n -> 1..n]
      /\ p.solvable_beg \in 1..(n + 1)
  BY FieldTypes
<1>2. /\ Consistent(r, n) /\ r.solvable_beg >= p.solvable_beg
      /\ \A t \in 1..n : p.place[t] < p.solvable_beg => r.place[t] = p.place[t]
  BY DEF RoundFrom
<1>3. r.place \in [1..n -> 1..n] /\ r.solvable_beg \in 1..(n + 1)
  BY <1>2, FieldTypes
<1>4. ASSUME p.place[s] >= p.solvable_beg, ~(r.place[s] >= p.solvable_beg)
      PROVE  FALSE
  <2>b. PICK b : b = p.solvable_beg
    OBVIOUS
  <2>j. PICK j : j = r.place[s]
    OBVIOUS
  <2>1. j \in 1..n /\ b \in Int
    BY <2>j, <2>b, <1>1, <1>3
  <2>2. j < b
    BY <2>1, <2>j, <2>b, <1>4
  <2>t. PICK t : t = p.order[j]
    OBVIOUS
  <2>3. t \in 1..n /\ p.place[t] = j
    BY <2>1, <2>t, <1>1 DEF Consistent
  <2>4. r.place[t] = j
    BY <2>2, <2>3, <2>b, <1>2
  <2>5. t = s
    BY <2>3, <2>4, <2>j, <1>2, PlaceInjective
  <2> QED BY <2>2, <2>3, <2>5, <2>b, <1>4, <2>1
<1>5. ASSUME ~IsUnsolvable(r, s), IsUnsolvable(p, s) PROVE FALSE
  <2>p. PICK x : x = p.place[s]
    OBVIOUS
  <2>b. PICK b : b = p.solvable_beg
    OBVIOUS
  <2>c. PICK c : c = r.solvable_beg
    OBVIOUS
  <2>1. x < b /\ r.place[s] = x /\ ~(x < c) /\ c >= b
    BY <1>2, <1>5, <2>p, <2>b, <2>c DEF IsUnsolvable
  <2>2. x \in Int /\ b \in Int /\ c \in Int
    <3>1. p.place[s] \in 1..n
      BY <1>1
    <3>2. p.solvable_beg \in 1..(n + 1) /\ r.solvable_beg \in 1..(n + 1)
      BY <1>1, <1>3
    <3> QED BY ONLY n \in Nat, <3>1, <3>2, <2>p, <2>b, <2>c
  <2> QED BY <2>1, <2>2
<1> QED BY <1>4, <1>5

(* What was solvable in r stays so, in its place.                          *)
Grown(r, n) ==
  {u \in Partitions(n) :
     /\ u.solvable_beg <= r.solvable_beg
     /\ \A t \in 1..n : r.place[t] >= r.solvable_beg => u.place[t] = r.place[t]}

(* Who is solvable stays so, and where it is, while the region grows.      *)
LEMMA GrownSolvable ==
  ASSUME NEW n \in Nat, NEW r, Consistent(r, n), NEW u \in Grown(r, n),
         NEW t \in 1..n, ~IsUnsolvable(r, t)
  PROVE  ~IsUnsolvable(u, t) /\ u.place[t] = r.place[t]
<1>1. /\ r.place \in [1..n -> 1..n] /\ r.solvable_beg \in 1..(n + 1)
  BY FieldTypes
<1>2. u.solvable_beg \in 1..(n + 1) /\ u.solvable_beg <= r.solvable_beg
  BY DEF Grown, Partitions
<1>p. PICK x : x = r.place[t]
  OBVIOUS
<1>b. PICK b : b = r.solvable_beg
  OBVIOUS
<1>c. PICK c : c = u.solvable_beg
  OBVIOUS
<1>3. x \in Int /\ b \in Int /\ c \in Int /\ c <= b /\ ~(x < b)
  BY <1>1, <1>2, <1>p, <1>b, <1>c DEF IsUnsolvable
<1>4. x >= b /\ ~(x < c)
  BY <1>3
<1>5. u.place[t] = x
  BY <1>4, <1>p, <1>b DEF Grown
<1> QED BY <1>4, <1>5, <1>p, <1>c DEF IsUnsolvable

(* Promoting a member that was solvable in p.                              *)
LEMMA PromoteInRound ==
  ASSUME NEW n \in Nat, NEW p, Consistent(p, n), NEW r \in RoundFrom(p, n),
         NEW s \in 1..n, ~IsUnsolvable(p, s)
  PROVE  LET q == PromoteSolvable(r, s)
         IN  q \in RoundFrom(p, n) \intersect Grown(r, n) /\ ~IsUnsolvable(q, s)
<1> DEFINE q == PromoteSolvable(r, s)
<1>1. /\ Consistent(r, n) /\ r.exits_beg = p.exits_beg
      /\ r.solvable_beg >= p.solvable_beg
      /\ \A t \in 1..n : p.place[t] >= p.exits_beg <=> r.place[t] >= p.exits_beg
      /\ \A t \in 1..n : p.place[t] < p.solvable_beg => r.place[t] = p.place[t]
  BY DEF RoundFrom
<1>2. /\ Consistent(q, n) /\ ~IsUnsolvable(q, s)
      /\ q.exits_beg = r.exits_beg
      /\ q.solvable_beg <= r.solvable_beg
      /\ q.solvable_beg = r.solvable_beg \/ q.solvable_beg >= r.place[s]
      /\ \A t \in 1..n :
           r.place[t] >= r.solvable_beg \/ r.place[t] < r.place[s] =>
             q.place[t] = r.place[t]
  BY <1>1, PromotePlaces
<1>3. ExitMembers(q, n) = ExitMembers(r, n)
  BY <1>1, PromoteSolvableCorrect
<1> HIDE DEF q
<1>4. /\ p.place \in [1..n -> 1..n] /\ p.solvable_beg \in 1..(n + 1)
      /\ p.exits_beg \in 1..(n + 1)
  BY FieldTypes
<1>5. /\ r.place \in [1..n -> 1..n] /\ r.solvable_beg \in 1..(n + 1)
  BY <1>1, FieldTypes
<1>6. q.place \in [1..n -> 1..n] /\ q.solvable_beg \in 1..(n + 1)
  BY <1>2, FieldTypes
<1>7. r.place[s] >= p.solvable_beg
  <2>1. p.place[s] >= p.solvable_beg
    <3>1. p.place[s] \in 1..n
      BY <1>4
    <3> QED BY <3>1, <1>4 DEF IsUnsolvable
  <2> QED BY <2>1, RoundPlaces
<1>8. q.solvable_beg >= p.solvable_beg
  <2>1. r.place[s] \in 1..n
    BY <1>5
  <2>2. /\ q.solvable_beg \in Int /\ r.solvable_beg \in Int
        /\ r.place[s] \in Int /\ p.solvable_beg \in Int
    <3>1. /\ q.solvable_beg \in 1..(n + 1) /\ r.solvable_beg \in 1..(n + 1)
          /\ p.solvable_beg \in 1..(n + 1)
      BY <1>4, <1>5, <1>6
    <3> QED BY ONLY n \in Nat, <2>1, <3>1
  <2>3. r.solvable_beg >= p.solvable_beg
    BY <1>1
  <2>4. q.solvable_beg = r.solvable_beg \/ q.solvable_beg >= r.place[s]
    BY <1>2
  <2> QED BY ONLY <2>2, <2>3, <2>4, <1>7
<1>9. ASSUME NEW t \in 1..n, p.place[t] < p.solvable_beg
      PROVE  q.place[t] = p.place[t]
  <2>1. r.place[t] = p.place[t]
    BY <1>1, <1>9
  <2>2. r.place[t] < r.place[s]
    <3>1. r.place[t] \in 1..n /\ r.place[s] \in 1..n
      BY <1>5
    <3>2. r.place[t] < p.solvable_beg
      BY <2>1, <1>9
    <3>3. /\ r.place[t] \in Int /\ r.place[s] \in Int
          /\ p.solvable_beg \in Int
      <4>1. p.solvable_beg \in 1..(n + 1)
        BY <1>4
      <4> QED BY ONLY n \in Nat, <3>1, <4>1
    <3> QED BY ONLY <3>2, <3>3, <1>7
  <2> QED BY <2>1, <2>2, <1>2
<1>10. \A t \in 1..n : p.place[t] >= p.exits_beg <=> q.place[t] >= p.exits_beg
  <2> TAKE t \in 1..n
  <2>1. r.exits_beg <= q.place[t] <=> r.exits_beg <= r.place[t]
    BY <1>2, <1>3 DEF ExitMembers
  <2>2. r.exits_beg = p.exits_beg
        /\ (p.place[t] >= p.exits_beg <=> r.place[t] >= p.exits_beg)
    BY <1>1
  <2>3. r.place[t] \in 1..n /\ q.place[t] \in 1..n
    BY <1>5, <1>6
  <2> QED BY ONLY <2>1, <2>2, <2>3, <1>4
<1>11. q \in Partitions(n)
  BY <1>2 DEF Consistent, Partitions
<1>12. q \in RoundFrom(p, n)
  BY <1>1, <1>2, <1>8, <1>9, <1>10, <1>11 DEF RoundFrom
<1>13. q \in Grown(r, n)
  BY <1>2, <1>11 DEF Grown
<1> QED BY <1>2, <1>12, <1>13 DEF q
-----------------------------------------------------------------------------
(* The members of the component that is analysed, and the links to them.   *)

(* Members are numbered from 1 to Size along the stack.                    *)
LEMMA SizeFacts ==
  ASSUME IInv, pc \in AnalysisPCs
  PROVE  /\ Size \in Nat \ {0} /\ Top.stackidx \in Nat \ {0}
         /\ Len(tarjan_stack) = Top.stackidx + Size - 1
         /\ Len(tarjan_stack) \in Nat
         /\ DOMAIN tarjan_stack = 1..Len(tarjan_stack)
         /\ Places = Top.stackidx..Len(tarjan_stack)
         /\ \A i \in 1..Size :
              /\ Top.stackidx + i - 1 \in Places
              /\ Top.stackidx + i - 1 \in 1..Len(tarjan_stack)
         /\ \A k \in Places :
              /\ Local(k) \in 1..Size /\ k = Top.stackidx + Local(k) - 1
              /\ k \in 1..Len(tarjan_stack)
<1>1. /\ ~Stopped /\ dfs_stack # <<>> /\ IsRoot(Top)
  BY AnalysisFacts
<1>n. PICK n : n = Len(tarjan_stack)
  OBVIOUS
<1>b. PICK b : b = Top.stackidx
  OBVIOUS
<1>s. PICK s : s = Size
  OBVIOUS
<1>2. n \in Nat /\ b \in 1..n /\ DOMAIN tarjan_stack = 1..n
  BY <1>1, <1>n, <1>b, RootFacts
<1>3. s = n - b + 1
  <2>1. Places = b..n
    BY <1>n, <1>b DEF Places
  <2>2. Cardinality(b..n) = IF b > n THEN 0 ELSE n - b + 1
    BY <1>2, FS_Interval
  <2> QED BY <2>1, <2>2, <1>2, <1>s DEF Size
<1>4. /\ s \in Nat \ {0} /\ b \in Nat \ {0} /\ n = b + s - 1
      /\ \A i \in 1..s : b + i - 1 \in b..n /\ b + i - 1 \in 1..n
      /\ \A k \in b..n : /\ k - b + 1 \in 1..s /\ k = b + (k - b + 1) - 1
                         /\ k \in 1..n
  BY <1>2, <1>3
<1> QED BY <1>2, <1>4, <1>n, <1>b, <1>s DEF Places, Local

(* Their entries count what they should.                                   *)
LEMMA EntryFacts ==
  ASSUME IInv, pc \in AnalysisPCs, NEW i \in 1..Size
  PROVE  /\ Entry(tarjan_stack, i) \in StackInfos
         /\ CounterOK(Entry(tarjan_stack, i))
         /\ Entry(tarjan_stack, i).state \in State
<1>1. PICK k : k = Top.stackidx + i - 1
  OBVIOUS
<1>2. k \in DOMAIN tarjan_stack
  BY <1>1, SizeFacts
<1>3. tarjan_stack \in Seq(StackInfos) /\ CountersOK
  BY AnalysisFacts DEF StackPart
<1>4. Entry(tarjan_stack, i) = tarjan_stack[k]
  BY <1>1 DEF Entry
<1>5. tarjan_stack[k] \in StackInfos
  BY <1>2, <1>3
<1>6. CounterOK(tarjan_stack[k])
  BY <1>2, <1>3 DEF CountersOK, CounterOK
<1> QED BY <1>4, <1>5, <1>6, EntryParts

(* A link to a member, from a transition that is recorded.                 *)
IsInside(x) ==
  /\ x.parent_idx \in Places /\ Local(x.parent_idx) \in 1..Size
  /\ x.parent_transition_idx \in 1..FlagCount(x.parent_idx)

(* A parent link of a member leads to a member, and to a transition that   *)
(* was recorded.                                                           *)
LEMMA LinkInside ==
  ASSUME IInv, pc \in AnalysisPCs, NEW i \in 1..Size,
         NEW m \in DOMAIN Entry(tarjan_stack, i).parents
  PROVE  IsInside(Entry(tarjan_stack, i).parents[m])
<1>1. /\ ~Stopped /\ dfs_stack # <<>> /\ IsRoot(Top) /\ StacksOK /\ FramesOK
      /\ LinksOK /\ ControlOK
  BY AnalysisFacts DEF StackPart
<1>k. PICK k : k = Top.stackidx + i - 1
  OBVIOUS
<1>2. k \in DOMAIN tarjan_stack /\ k \in Places /\ k \in 1..Len(tarjan_stack)
  BY <1>k, SizeFacts
<1>3. Entry(tarjan_stack, i) = tarjan_stack[k]
  BY <1>k DEF Entry
<1>x. PICK x : x = tarjan_stack[k].parents[m]
  OBVIOUS
<1>4. /\ x.parent_idx \in DOMAIN tarjan_stack /\ Near(x.parent_idx, k)
      /\ IsRecorded(x) \/ IsUnderWay(x)
  BY <1>1, <1>2, <1>3, <1>x DEF LinksOK
<1>5. x \in ParentInfos /\ tarjan_stack[k].parents \in Seq(ParentInfos)
  <2>1. tarjan_stack[k] \in StackInfos
    BY <1>1, <1>2 DEF StacksOK
  <2>2. tarjan_stack[k].parents \in Seq(ParentInfos)
    BY <2>1, EntryParts
  <2>3. m \in DOMAIN tarjan_stack[k].parents
    BY <1>3
  <2> QED BY <2>2, <2>3, <1>x
<1>6. /\ Top = dfs_stack[Len(dfs_stack)] /\ Len(dfs_stack) \in DOMAIN dfs_stack
      /\ DOMAIN dfs_stack = 1..Len(dfs_stack) /\ Len(dfs_stack) \in Nat
      /\ Len(tarjan_stack) \in Nat /\ DOMAIN tarjan_stack = 1..Len(tarjan_stack)
      /\ Top.stackidx \in 1..Len(tarjan_stack)
  BY <1>1, TopFacts
<1>7. x.parent_idx \in Places
  <2>1. Places = Top.stackidx..Len(tarjan_stack)
    BY DEF Places
  <2>2. x.parent_idx < Top.stackidx => k < Top.stackidx
    BY <1>4, <1>6 DEF Near
  <2>i. PICK y : y = x.parent_idx
    OBVIOUS
  <2>b. PICK b : b = Top.stackidx
    OBVIOUS
  <2>n. PICK n : n = Len(tarjan_stack)
    OBVIOUS
  <2>3. y \in 1..n /\ b \in 1..n /\ n \in Nat /\ k \in b..n /\ (y < b => k < b)
    BY <2>1, <2>2, <2>i, <2>b, <2>n, <1>2, <1>4, <1>6
  <2>4. y \in b..n
    BY ONLY <2>3
  <2> QED BY <2>1, <2>4, <2>i, <2>b, <2>n
<1>8. ~IsUnderWay(x)
  <2>1. SUFFICES ASSUME NEW j \in DOMAIN dfs_stack,
                        dfs_stack[j].stackidx = x.parent_idx,
                        SccSuccessors(dfs_stack[j].q_value) # {}
                 PROVE  FALSE
    BY DEF IsUnderWay
  <2>n. PICK l : l = Len(dfs_stack)
    OBVIOUS
  <2>2. j \in 1..l /\ l \in Nat
    BY <1>6, <2>n
  <2>3. CASE j = l
    <3>1. SccSuccessors(Top.q_value) = {}
      BY <1>1 DEF ControlOK
    <3> QED BY <2>1, <2>3, <2>n, <3>1, <1>6
  <2>4. CASE j # l
    <3>1. j < l
      BY <2>2, <2>4
    <3>2. dfs_stack[j].stackidx < Top.stackidx
      BY <3>1, <2>1, <2>n, <1>1, <1>6 DEF FramesOK
    <3>3. x.parent_idx \in Int /\ Top.stackidx \in Int /\ x.parent_idx >= Top.stackidx
      BY <1>6, <1>7 DEF Places
    <3> QED BY ONLY <3>2, <3>3, <2>1
  <2> QED BY <2>3, <2>4
<1>9. x.parent_transition_idx \in 1..FlagCount(x.parent_idx)
  <2>1. x.parent_transition_idx \in Nat \ {0}
    BY <1>5 DEF ParentInfos
  <2>2. x.parent_transition_idx <= FlagCount(x.parent_idx)
    BY <1>4, <1>8 DEF IsRecorded
  <2>3. FlagCount(x.parent_idx) \in Nat
    <3>1. tarjan_stack[x.parent_idx] \in StackInfos
      BY <1>1, <1>4 DEF StacksOK
    <3> QED BY <3>1, FlagSets DEF FlagCount
  <2> QED BY ONLY <2>1, <2>2, <2>3
<1>10. Local(x.parent_idx) \in 1..Size
  BY <1>7, SizeFacts
<1> QED BY <1>3, <1>x, <1>7, <1>9, <1>10 DEF IsInside

(* The flags a parent link leads to.                                       *)
LEMMA FlagFacts ==
  ASSUME IInv, pc \in AnalysisPCs, NEW x, IsInside(x)
  PROVE  /\ tarjan_stack[x.parent_idx] = Entry(tarjan_stack, Local(x.parent_idx))
         /\ FlagsOf(tarjan_stack, x) \in Flags
         /\ FlagsOf(tarjan_stack, x).is_active \in BOOLEAN
         /\ FlagsOf(tarjan_stack, x).is_active_exiting \in BOOLEAN
<1>1. /\ x.parent_idx \in Places
      /\ x.parent_idx = Top.stackidx + Local(x.parent_idx) - 1
      /\ x.parent_idx \in DOMAIN tarjan_stack
  BY SizeFacts DEF IsInside
<1>2. tarjan_stack[x.parent_idx] = Entry(tarjan_stack, Local(x.parent_idx))
  BY <1>1 DEF Entry
<1>3. tarjan_stack[x.parent_idx] \in StackInfos
  <2>1. tarjan_stack \in Seq(StackInfos)
    BY AnalysisFacts
  <2> QED BY <2>1, <1>1
<1>4. FlagsOf(tarjan_stack, x) \in Flags
  <2> DEFINE F == tarjan_stack[x.parent_idx].transition_flags
  <2>1. F \in Seq(Flags)
    BY <1>3, EntryParts
  <2>2. x.parent_transition_idx \in DOMAIN F
    BY <1>3, FlagSets DEF IsInside, FlagCount
  <2>3. FlagsOf(tarjan_stack, x) = F[x.parent_transition_idx]
    BY DEF FlagsOf
  <2> HIDE DEF F
  <2> QED BY <2>1, <2>2, <2>3
<1>5. \A f \in Flags : f.is_active \in BOOLEAN /\ f.is_active_exiting \in BOOLEAN
  BY DEF Flags
<1> QED BY <1>2, <1>4, <1>5
-----------------------------------------------------------------------------
(* PartitionMembers.                                                       *)

(* The counters bound each other, and count at least the flags.            *)
LEMMA CounterBounds ==
  ASSUME NEW e \in StackInfos, CounterOK(e)
  PROVE  /\ e.active_exit_transitions \in 0..e.active_transitions
         /\ e.active_transitions \in Nat
         /\ \A i \in ActiveFlags(e) : e.active_transitions > 0
         /\ \A i \in ExitFlags(e) : e.active_exit_transitions > 0
<1>1. /\ IsFiniteSet(ActiveFlags(e)) /\ IsFiniteSet(ExitFlags(e))
      /\ Cardinality(ActiveFlags(e)) \in Nat /\ Cardinality(ExitFlags(e)) \in Nat
  BY FlagSets
<1>2. /\ ExitFlags(e) \subseteq ActiveFlags(e)
      /\ e.active_transitions - Cardinality(ActiveFlags(e)) >= 0
      /\ e.active_exit_transitions =
           e.active_transitions - Cardinality(ActiveFlags(e))
           + Cardinality(ExitFlags(e))
  BY DEF CounterOK
<1>3. Cardinality(ExitFlags(e)) <= Cardinality(ActiveFlags(e))
  BY <1>1, <1>2, FS_Subset
<1>4. \A S : IsFiniteSet(S) => (Cardinality(S) = 0 <=> S = {})
  BY FS_EmptySet
<1>5. /\ \A i \in ActiveFlags(e) : Cardinality(ActiveFlags(e)) # 0
      /\ \A i \in ExitFlags(e) : Cardinality(ExitFlags(e)) # 0
  BY <1>1, <1>4
<1>a. PICK a : a = Cardinality(ActiveFlags(e))
  OBVIOUS
<1>x. PICK x : x = Cardinality(ExitFlags(e))
  OBVIOUS
<1>6. e.active_transitions \in Int
  BY EntryParts
<1>7. /\ a \in Nat /\ x \in Nat /\ x <= a /\ e.active_transitions - a >= 0
      /\ e.active_exit_transitions = e.active_transitions - a + x
      /\ \A i \in ActiveFlags(e) : a # 0
      /\ \A i \in ExitFlags(e) : x # 0
  BY <1>1, <1>2, <1>3, <1>5, <1>a, <1>x
<1> QED BY ONLY <1>6, <1>7

(* What AnalysisOK says of a stack and a partition.                        *)
AgreesWith(st, p, b, n) ==
  /\ Consistent(p, n)
  /\ \A i \in 1..n :
       /\ p.place[i] >= p.exits_beg <=> st[b + i - 1].active_exit_transitions > 0
       /\ ~IsUnsolvable(p, i) => st[b + i - 1].active_transitions > 0

SeparatedIn(st, p, b, n) ==
  \A i \in 1..n : ~IsUnsolvable(p, i) =>
    \A m \in DOMAIN st[b + i - 1].parents :
      LET x == st[b + i - 1].parents[m]
      IN  FlagsOf(st, x).is_active =>
            /\ x.parent_idx - b + 1 \in 1..n
            /\ ~IsUnsolvable(p, x.parent_idx - b + 1)

(* The part of the invariant about the analysis, unfolded,                 *)
LEMMA AnalysisNow ==
  ASSUME IInv, pc \in {"collect", "demote"}
  PROVE  /\ AgreesWith(tarjan_stack, partition, Top.stackidx, Size)
         /\ SeparatedIn(tarjan_stack, partition, Top.stackidx, Size)
         /\ pc = "demote" => unsolv_it \in 1..(partition.solvable_beg - 1)
<1>1. AnalysisOK
  BY DEF IInv
<1>2. PartitionAgrees /\ Separated
  BY <1>1 DEF AnalysisOK
<1>3. AgreesWith(tarjan_stack, partition, Top.stackidx, Size)
  BY <1>2 DEF PartitionAgrees, AgreesWith, Entry
<1>4. SeparatedIn(tarjan_stack, partition, Top.stackidx, Size)
  BY <1>2 DEF Separated, SeparatedIn, Entry, IsSolvable, Local
<1> QED BY <1>1, <1>3, <1>4 DEF AnalysisOK

(* and folded.                                                             *)
LEMMA AnalysisThen ==
  ASSUME UNCHANGED dfs_stack, Len(tarjan_stack') = Len(tarjan_stack),
         pc' \in {"collect", "demote"} =>
           /\ AgreesWith(tarjan_stack', partition', Top.stackidx, Size)
           /\ SeparatedIn(tarjan_stack', partition', Top.stackidx, Size),
         pc' = "demote" => unsolv_it' \in 1..(partition'.solvable_beg - 1)
  PROVE  AnalysisOK'
<1>1. Top' = Top
  BY DEF Top
<1>2. Places' = Places
  BY <1>1 DEF Places
<1>3. Size' = Size
  BY <1>2 DEF Size
<1>4. \A st, i : Entry(st, i)' = st[Top.stackidx + i - 1]
  BY <1>1 DEF Entry
<1>5. PartitionAgrees'
  <2> SUFFICES ASSUME pc' \in {"collect", "demote"} PROVE PartitionAgrees'
    BY DEF PartitionAgrees
  <2>1. AgreesWith(tarjan_stack', partition', Top.stackidx, Size)
    OBVIOUS
  <2> QED BY <2>1, <1>1, <1>3 DEF PartitionAgrees, AgreesWith, Entry
<1>6. pc' \in {"collect", "demote"} => Separated'
  <2> SUFFICES ASSUME pc' \in {"collect", "demote"} PROVE Separated'
    OBVIOUS
  <2>1. SeparatedIn(tarjan_stack', partition', Top.stackidx, Size)
    OBVIOUS
  <2> QED BY <2>1, <1>1, <1>3 DEF Separated, SeparatedIn, Entry, IsSolvable, Local
<1> QED BY <1>5, <1>6 DEF AnalysisOK

(* The analysis changes neither the frames nor what links them to the      *)
(* entries.                                                                *)
LEMMA AnalysisKeeps ==
  ASSUME IInv, pc \in AnalysisPCs, pc' \in AnalysisPCs,
         UNCHANGED <<dfs_vars, explored, ecd_vars>>,
         tarjan_stack' \in Seq(StackInfos),
         SameLinks(tarjan_stack, tarjan_stack'),
         StackPart', AnalysisOK',
         value' \in [State -> Int],
         sweep' \in [next : Nat, converged : BOOLEAN],
         pc' \in SweepPCs => sweep'.next \in Top.stackidx..(Len(tarjan_stack') + 1)
  PROVE  IInv'
<1>1. /\ ~Stopped /\ dfs_stack # <<>> /\ IsRoot(Top) /\ Top.aops = {}
      /\ pc \notin ECDPCs \union {"timeout"} /\ pc \in RootedPCs
      /\ ValuesOK /\ StacksOK /\ StackPart /\ Indexed /\ SecondSearchOK
  BY AnalysisFacts
<1>2. SecondSearchOK'
  <2>1. pc' \notin ECDPCs
    BY DEF ECDPCs, AnalysisPCs
  <2> QED BY <1>1, <2>1, SecondSearchIdle
<1>3. StacksOK'
  BY <1>1 DEF StacksOK, dfs_vars, ecd_vars
<1>4. /\ DOMAIN tarjan_stack = 1..Len(tarjan_stack)
      /\ DOMAIN tarjan_stack' = 1..Len(tarjan_stack)
      /\ Len(tarjan_stack') = Len(tarjan_stack)
      /\ \A i \in 1..Len(tarjan_stack) :
           tarjan_stack'[i].state = tarjan_stack[i].state
  <2>1. Len(tarjan_stack') = Len(tarjan_stack)
        /\ \A i \in 1..Len(tarjan_stack) :
             tarjan_stack'[i].state = tarjan_stack[i].state
    BY DEF SameLinks
  <2>2. tarjan_stack \in Seq(StackInfos)
    BY AnalysisFacts
  <2>3. DOMAIN tarjan_stack = 1..Len(tarjan_stack)
    BY <2>2
  <2>4. DOMAIN tarjan_stack' = 1..Len(tarjan_stack')
    OBVIOUS
  <2> QED BY <2>1, <2>3, <2>4
<1>5. Indexed'
  <2>1. scc = <<>> /\ scc' = scc /\ explored' = explored
    BY <1>1 DEF Indexed, ecd_vars
  <2>2. pc \notin {"done", "timeout"}
    BY <1>1 DEF Stopped
  <2> QED BY <1>1, <1>4, <2>1 DEF Indexed
<1>6. /\ UNCHANGED <<initial_state, dfs_stack>> /\ explored' \subseteq State
      /\ pc' \in RootedPCs
  BY <1>1 DEF dfs_vars, ValuesOK, RootedPCs
<1> QED BY <1>1, <1>2, <1>3, <1>4, <1>5, <1>6, RootedRest

SortedUpTo(n, i) ==
  {p \in Partitions(n) :
     /\ Consistent(p, n)
     /\ \A t \in 1..n :
          LET e == Entry(tarjan_stack, t)
          IN  /\ t \in ExitMembers(p, n) <=>
                   (t > i \/ e.active_exit_transitions # 0)
              /\ t \in InnerMembers(p, n) <=>
                   /\ t <= i
                   /\ e.active_exit_transitions = 0
                   /\ e.active_transitions > 0}

(* One more member sorted into its region.                                 *)
LEMMA SortedStep ==
  ASSUME NEW n \in Nat, NEW i \in 1..n, NEW p \in SortedUpTo(n, i - 1)
  PROVE  Sorted(p, i) \in SortedUpTo(n, i)
<1> DEFINE Out(t) == Entry(tarjan_stack, t).active_exit_transitions # 0
           Act(t) == Entry(tarjan_stack, t).active_transitions > 0
<1>1. /\ Consistent(p, n)
      /\ \A t \in 1..n :
           /\ t \in ExitMembers(p, n) <=> (t > i - 1 \/ Out(t))
           /\ t \in InnerMembers(p, n) <=> (t <= i - 1 /\ ~Out(t) /\ Act(t))
  BY DEF SortedUpTo
<1>2. Sorted(p, i) = IF Out(i) THEN p
                     ELSE IF Act(i) THEN DemoteExitSolvable(p, i)
                     ELSE DemoteExitUnsolvable(p, i)
  BY DEF Sorted
<1>3. ASSUME NEW q, Consistent(q, n),
             \A t \in 1..n :
               /\ t \in ExitMembers(q, n) <=> (t > i \/ Out(t))
               /\ t \in InnerMembers(q, n) <=> (t <= i /\ ~Out(t) /\ Act(t))
      PROVE  q \in SortedUpTo(n, i)
  <2>1. q \in Partitions(n)
    BY <1>3 DEF Consistent, Partitions
  <2> QED BY <1>3, <2>1 DEF SortedUpTo
<1> HIDE DEF Out, Act
<1>4. i \in ExitMembers(p, n)
  <2>1. i > i - 1
    OBVIOUS
  <2> QED BY <1>1, <2>1
<1>5. \A t \in 1..n : /\ t > i - 1 <=> (t > i \/ t = i)
                      /\ t <= i <=> (t <= i - 1 \/ t = i)
                      /\ ~(t > i /\ t = i) /\ ~(t <= i - 1 /\ t = i)
  OBVIOUS
<1>6. CASE Out(i)
  <2>1. \A t \in 1..n :
               /\ t \in ExitMembers(p, n) <=> (t > i \/ Out(t))
               /\ t \in InnerMembers(p, n) <=> (t <= i /\ ~Out(t) /\ Act(t))
    BY <1>1, <1>5, <1>6
  <2> QED BY <1>1, <1>2, <1>3, <1>6, <2>1
<1>7. CASE ~Out(i) /\ Act(i)
  <2>q. PICK q : q = DemoteExitSolvable(p, i)
    OBVIOUS
  <2>1. /\ Consistent(q, n)
        /\ InnerMembers(q, n) = InnerMembers(p, n) \union {i}
        /\ ExitMembers(q, n) = ExitMembers(p, n) \ {i}
    BY <2>q, <1>1, <1>4, DemoteExitSolvableCorrect
  <2>2. \A t \in 1..n :
               /\ t \in ExitMembers(q, n) <=> (t > i \/ Out(t))
               /\ t \in InnerMembers(q, n) <=> (t <= i /\ ~Out(t) /\ Act(t))
    BY <1>1, <1>5, <1>7, <2>1
  <2>3. q \in SortedUpTo(n, i)
    BY <1>3, <2>1, <2>2
  <2> QED BY <1>2, <1>7, <2>q, <2>3
<1>8. CASE ~Out(i) /\ ~Act(i)
  <2>q. PICK q : q = DemoteExitUnsolvable(p, i)
    OBVIOUS
  <2>1. /\ Consistent(q, n)
        /\ InnerMembers(q, n) = InnerMembers(p, n)
        /\ ExitMembers(q, n) = ExitMembers(p, n) \ {i}
    BY <2>q, <1>1, <1>4, DemoteExitUnsolvableCorrect
  <2>2. \A t \in 1..n :
               /\ t \in ExitMembers(q, n) <=> (t > i \/ Out(t))
               /\ t \in InnerMembers(q, n) <=> (t <= i /\ ~Out(t) /\ Act(t))
    BY <1>1, <1>5, <1>8, <2>1
  <2>3. q \in SortedUpTo(n, i)
    BY <1>3, <2>1, <2>2
  <2> QED BY <1>2, <1>8, <2>q, <2>3
<1> QED BY <1>6, <1>7, <1>8

(* All members sorted.                                                     *)
LEMMA InitialPartitionFacts ==
  ASSUME NEW n \in Nat
  PROVE  InitialPartition(n) \in SortedUpTo(n, n)
<1> DEFINE XX == [i \in 0..n |-> SortedUpTo(n, i)]
           base == NewPartition(n)
           seq == [i \in 1..n |-> i]
<1>1. NewPartition(n) \in SortedUpTo(n, 0)
  <2>1. Consistent(base, n) /\ ExitMembers(base, n) = 1..n
    BY NewPartitionCorrect
  <2>2. base \in Partitions(n)
    BY <2>1 DEF Consistent, Partitions
  <2> HIDE DEF base
  <2>3. \A t \in 1..n : t \in ExitMembers(base, n) /\ t > 0 /\ ~(t <= 0)
    BY <2>1
  <2>4. \A t \in 1..n : t \notin InnerMembers(base, n)
    <3>1. /\ \A t \in 1..n : base.place[t] \in Int
          /\ base.exits_beg \in Int
      BY <2>1, FieldTypes
    <3> QED BY <3>1, <2>3 DEF InnerMembers, ExitMembers
  <2>5. base \in SortedUpTo(n, 0)
    BY <2>1, <2>2, <2>3, <2>4 DEF SortedUpTo
  <2> QED BY <2>5 DEF base
<1>2. XX[0] = SortedUpTo(n, 0) /\ XX[n] = SortedUpTo(n, n)
      /\ \A i \in 1..n : XX[i - 1] = SortedUpTo(n, i - 1)
                         /\ XX[i] = SortedUpTo(n, i)
  OBVIOUS
<1> HIDE DEF XX
<1>3. \A i \in 1..n : \A y \in XX[i - 1] : Sorted(y, i) \in XX[i]
  BY <1>2, SortedStep
<1>4. NewPartition(n) \in XX[0]
  BY <1>1, <1>2
<1>5. SortedRun(n, NewPartition(n))[n] \in XX[n]
  BY ONLY n \in Nat, <1>3, <1>4, SortedFold
<1>6. Len(seq) = n /\ \A i \in 0..n : i # 0 => seq[i] = i
  <2>1. seq \in [1..n -> Int]
    OBVIOUS
  <2>2. Len(seq) = n
    OBVIOUS
  <2> QED BY <2>2
<1>7. InitialPartition(n) = (CHOOSE f : f = [i \in 0..Len(seq) |->
            IF i = 0 THEN NewPartition(n)
            ELSE CHOOSE z \in {Sorted(y, seq[i]) : y \in {f[i - 1]}} : TRUE])[Len(seq)]
  BY DEF InitialPartition, Folded, Sorted
<1> HIDE DEF seq
<1>8. \A f : [i \in 0..n |->
            IF i = 0 THEN NewPartition(n)
            ELSE CHOOSE z \in {Sorted(y, seq[i]) : y \in {f[i - 1]}} : TRUE]
          = [i \in 0..n |->
            IF i = 0 THEN NewPartition(n)
            ELSE CHOOSE z \in {Sorted(y, i) : y \in {f[i - 1]}} : TRUE]
  <2> TAKE f
  <2>1. ASSUME NEW i \in 0..n
        PROVE  (IF i = 0 THEN NewPartition(n)
                ELSE CHOOSE z \in {Sorted(y, seq[i]) : y \in {f[i - 1]}} : TRUE)
               = (IF i = 0 THEN NewPartition(n)
                  ELSE CHOOSE z \in {Sorted(y, i) : y \in {f[i - 1]}} : TRUE)
    <3>1. CASE i = 0
      BY <3>1
    <3>2. CASE i # 0
      <4>1. seq[i] = i
        BY <3>2, <1>6
      <4> QED BY <4>1, Zenon
    <3> QED BY <3>1, <3>2
  <2> QED BY <2>1
<1>9. InitialPartition(n) = SortedRun(n, NewPartition(n))[n]
  <2> DEFINE F(f) == [i \in 0..n |->
            IF i = 0 THEN NewPartition(n)
            ELSE CHOOSE z \in {Sorted(y, seq[i]) : y \in {f[i - 1]}} : TRUE]
             G(f) == [i \in 0..n |->
            IF i = 0 THEN NewPartition(n)
            ELSE CHOOSE z \in {Sorted(y, i) : y \in {f[i - 1]}} : TRUE]
  <2>1. Len(seq) = n
    BY <1>6
  <2>2. InitialPartition(n) = (CHOOSE f : f = F(f))[n]
    BY ONLY <1>7, <2>1
  <2>3. \A f : F(f) = G(f)
    BY <1>8
  <2> HIDE DEF F, G
  <2>4. InitialPartition(n) = (CHOOSE f : f = G(f))[n]
    BY ONLY <2>2, <2>3
  <2> QED BY <2>4 DEF G, SortedRun
<1> QED BY <1>2, <1>5, <1>9

(* The analysis begins.                                                    *)
LEMMA PartitionMembersStep == ASSUME IInv, PartitionMembers PROVE IInv'
<1>p. PICK p : p = InitialPartition(Size)
  OBVIOUS
<1>1. /\ pc = "solvability" /\ partition' = p
      /\ value' = WithUnsolvable({i \in 1..Size : IsUnsolvable(p, i)})
      /\ pc' \in {"collect", "sweep"}
      /\ sweep' = [next |-> Top.stackidx, converged |-> TRUE]
      /\ UNCHANGED <<dfs_vars, explored, tarjan_stack, ecd_vars, unsolv_it>>
  BY <1>p DEF PartitionMembers
<1>2. pc \in AnalysisPCs /\ pc' \in AnalysisPCs
  BY <1>1 DEF AnalysisPCs
<1>3. /\ ~Stopped /\ ValuesOK /\ StackPart /\ tarjan_stack \in Seq(StackInfos)
  BY <1>2, AnalysisFacts
<1>n. PICK n : n = Size
  OBVIOUS
<1>b. PICK b : b = Top.stackidx
  OBVIOUS
<1>4. /\ n \in Nat \ {0} /\ b \in Nat \ {0} /\ Len(tarjan_stack) = b + n - 1
      /\ Len(tarjan_stack) \in Nat
  BY <1>2, <1>n, <1>b, SizeFacts
<1>5. p \in SortedUpTo(n, n)
  BY <1>4, <1>n, <1>p, InitialPartitionFacts
<1>6. Consistent(p, n)
  BY <1>5 DEF SortedUpTo
<1>7. /\ \A t \in 1..n : p.place[t] \in 1..n
      /\ p.solvable_beg \in 1..(n + 1) /\ p.exits_beg \in 1..(n + 1)
      /\ p.solvable_beg <= p.exits_beg
  BY <1>4, <1>6, FieldTypes
<1>8. ASSUME NEW t \in 1..n
      PROVE  LET e == tarjan_stack[b + t - 1]
             IN  /\ p.place[t] >= p.exits_beg <=> e.active_exit_transitions > 0
                 /\ ~IsUnsolvable(p, t) <=> e.active_transitions > 0
  <2>e. PICK e : e = tarjan_stack[b + t - 1]
    OBVIOUS
  <2>1. Entry(tarjan_stack, t) = e
    BY <1>b, <2>e DEF Entry
  <2>2. e \in StackInfos /\ CounterOK(e)
    BY <2>1, <1>2, <1>n, EntryFacts
  <2>3. /\ e.active_transitions \in Nat
        /\ e.active_exit_transitions \in 0..e.active_transitions
    BY <2>2, CounterBounds
  <2>4. /\ t \in ExitMembers(p, n) <=> (t > n \/ e.active_exit_transitions # 0)
        /\ t \in InnerMembers(p, n) <=> (/\ t <= n
                                         /\ e.active_exit_transitions = 0
                                         /\ e.active_transitions > 0)
    BY <2>1, <1>5 DEF SortedUpTo
  <2>5. ~(t > n) /\ t <= n
    BY <1>4
  <2>x. PICK x : x = p.place[t]
    OBVIOUS
  <2>6. /\ t \in ExitMembers(p, n) <=> p.exits_beg <= x
        /\ t \in InnerMembers(p, n) <=> (p.solvable_beg <= x /\ x < p.exits_beg)
        /\ IsUnsolvable(p, t) <=> x < p.solvable_beg
    BY <2>x DEF ExitMembers, InnerMembers, IsUnsolvable
  <2>s. PICK s : s = p.solvable_beg
    OBVIOUS
  <2>y. PICK y : y = p.exits_beg
    OBVIOUS
  <2>7. x \in Int /\ s \in Int /\ y \in Int /\ s <= y
    <3>1. x \in 1..n /\ s \in 1..(n + 1) /\ y \in 1..(n + 1) /\ s <= y
      BY <1>7, <2>x, <2>s, <2>y
    <3> QED BY ONLY <3>1, <1>4
  <2>8. x >= y <=> y <= x
    BY <2>7
  <2>9. e.active_exit_transitions # 0 => e.active_exit_transitions > 0
                                         /\ e.active_transitions > 0
    BY ONLY <2>3
  <2>10. p.place[t] >= p.exits_beg <=> e.active_exit_transitions > 0
    BY ONLY <2>3, <2>4, <2>5, <2>6, <2>7, <2>8, <2>9, <2>x, <2>y
  <2>11. ~IsUnsolvable(p, t) <=> (t \in ExitMembers(p, n) \/ t \in InnerMembers(p, n))
    BY ONLY <2>6, <2>7, <2>s, <2>y
  <2>12. ~IsUnsolvable(p, t) <=> e.active_transitions > 0
    BY ONLY <2>3, <2>4, <2>5, <2>9, <2>11
  <2> QED BY <2>10, <2>12, <2>e
<1>9. AgreesWith(tarjan_stack, p, b, n)
  BY <1>6, <1>8 DEF AgreesWith
<1>10. SeparatedIn(tarjan_stack, p, b, n)
  <2> SUFFICES ASSUME NEW t \in 1..n, NEW m \in DOMAIN tarjan_stack[b + t - 1].parents,
                      NEW x, x = tarjan_stack[b + t - 1].parents[m],
                      FlagsOf(tarjan_stack, x).is_active
               PROVE  /\ x.parent_idx - b + 1 \in 1..n
                      /\ ~IsUnsolvable(p, x.parent_idx - b + 1)
    BY DEF SeparatedIn
  <2>1. IsInside(x)
    <3>1. Entry(tarjan_stack, t) = tarjan_stack[b + t - 1]
      BY <1>b DEF Entry
    <3> QED BY <3>1, <1>2, <1>n, LinkInside
  <2>i. PICK i : i = Local(x.parent_idx)
    OBVIOUS
  <2>2. i \in 1..n /\ i = x.parent_idx - b + 1
    BY <2>1, <2>i, <1>n, <1>b DEF IsInside, Local
  <2>e. PICK e : e = tarjan_stack[x.parent_idx]
    OBVIOUS
  <2>3. e = Entry(tarjan_stack, i)
    BY <2>e, <2>i, <2>1, <1>2, FlagFacts
  <2>4. e \in StackInfos /\ CounterOK(e)
    BY <2>3, <2>2, <1>2, <1>n, EntryFacts
  <2>5. x.parent_transition_idx \in ActiveFlags(e)
    <3>1. x.parent_transition_idx \in DOMAIN e.transition_flags
      BY <2>1, <2>4, <2>e, FlagSets DEF IsInside, FlagCount
    <3>2. FlagsOf(tarjan_stack, x) = e.transition_flags[x.parent_transition_idx]
      BY <2>e DEF FlagsOf
    <3> QED BY <3>1, <3>2 DEF ActiveFlags
  <2>6. e.active_transitions > 0
    BY <2>4, <2>5, CounterBounds
  <2>7. e = tarjan_stack[b + i - 1]
    BY <2>3, <1>b DEF Entry
  <2>8. ~IsUnsolvable(p, i)
    BY <2>2, <2>6, <2>7, <1>8
  <2> QED BY <2>2, <2>8
<1>11. AnalysisOK'
  <2>1. pc' # "demote"
    BY <1>1
  <2>2. UNCHANGED dfs_stack /\ Len(tarjan_stack') = Len(tarjan_stack)
    BY <1>1 DEF dfs_vars
  <2>3. /\ AgreesWith(tarjan_stack', partition', Top.stackidx, Size)
        /\ SeparatedIn(tarjan_stack', partition', Top.stackidx, Size)
    BY <1>1, <1>9, <1>10, <1>n, <1>b
  <2> QED BY ONLY <2>1, <2>2, <2>3, AnalysisThen
<1>12. value' \in [State -> Int]
  <2>1. Infinite \in Int /\ value \in [State -> Int]
    BY <1>3, ConstantTypes DEF ValuesOK
  <2> QED BY <1>1, <2>1 DEF WithUnsolvable
<1>13. /\ sweep' \in [next : Nat, converged : BOOLEAN]
       /\ sweep'.next \in Top.stackidx..(Len(tarjan_stack') + 1)
  <2>1. b \in b..(b + n - 1 + 1) /\ b \in Nat
    BY <1>4
  <2>2. tarjan_stack' = tarjan_stack
    BY <1>1
  <2> QED BY <1>1, <1>4, <1>b, <2>1, <2>2
<1>14. StackPart'
  <2>1. UNCHANGED <<dfs_stack, tarjan_stack>>
    BY <1>1 DEF dfs_vars
  <2> QED BY ONLY <1>3, <2>1, SameStacks
<1>15. SameLinks(tarjan_stack, tarjan_stack') /\ tarjan_stack' \in Seq(StackInfos)
  BY <1>1, <1>3 DEF SameLinks
<1> QED BY <1>1, <1>2, <1>11, <1>12, <1>13, <1>14, <1>15, AnalysisKeeps
-----------------------------------------------------------------------------
(* CollectSolvable.                                                        *)

(* Growth is transitive.                                                   *)
LEMMA GrownTransitive ==
  ASSUME NEW n \in Nat, NEW r, Consistent(r, n), NEW u, u \in Grown(r, n),
         NEW q, q \in Grown(u, n)
  PROVE  q \in Grown(r, n)
<1>1. r.place \in [1..n -> 1..n] /\ r.solvable_beg \in 1..(n + 1)
  BY FieldTypes
<1>2. /\ u.solvable_beg \in 1..(n + 1) /\ u.solvable_beg <= r.solvable_beg
      /\ \A t \in 1..n : r.place[t] >= r.solvable_beg => u.place[t] = r.place[t]
  BY DEF Grown, Partitions
<1>3. /\ q.solvable_beg \in 1..(n + 1) /\ q.solvable_beg <= u.solvable_beg
      /\ q \in Partitions(n)
      /\ \A t \in 1..n : u.place[t] >= u.solvable_beg => q.place[t] = u.place[t]
  BY DEF Grown, Partitions
<1>4. q.solvable_beg <= r.solvable_beg
  BY <1>1, <1>2, <1>3
<1>5. ASSUME NEW t \in 1..n, r.place[t] >= r.solvable_beg
      PROVE  q.place[t] = r.place[t]
  <2>1. u.place[t] = r.place[t] /\ r.place[t] \in 1..n
    BY <1>1, <1>2, <1>5
  <2>2. u.place[t] >= u.solvable_beg
    <3>1. r.solvable_beg \in Int /\ u.solvable_beg \in Int /\ r.place[t] \in Int
      BY <1>1, <1>2, <2>1
    <3>2. u.solvable_beg <= r.solvable_beg /\ r.place[t] >= r.solvable_beg
      BY <1>2, <1>5
    <3> QED BY ONLY <3>1, <3>2, <2>1
  <2> QED BY <2>1, <2>2, <1>3
<1> QED BY <1>3, <1>4, <1>5 DEF Grown

(* Link x of an unfinished round: if it is active, its parent is solvable. *)
IsFollowed(x, r) ==
  FlagsOf(tarjan_stack, x).is_active => ~IsUnsolvable(r, Local(x.parent_idx))

(* All of the first k links of member s are.                               *)
FollowedUpTo(s, k, p, r, n) ==
  {u \in RoundFrom(p, n) \intersect Grown(r, n) :
     \A m \in 1..k : IsFollowed(Entry(tarjan_stack, s).parents[m], u)}

(* An active link from a solvable member leads to a solvable one.          *)
LEMMA SeparatedLink ==
  ASSUME IInv, pc = "collect", NEW s \in 1..Size, ~IsUnsolvable(partition, s),
         NEW m \in DOMAIN Entry(tarjan_stack, s).parents,
         FlagsOf(tarjan_stack, Entry(tarjan_stack, s).parents[m]).is_active
  PROVE  LET i == Local(Entry(tarjan_stack, s).parents[m].parent_idx)
         IN  i \in 1..Size /\ ~IsUnsolvable(partition, i)
<1>1. SeparatedIn(tarjan_stack, partition, Top.stackidx, Size)
  BY AnalysisNow
<1> QED BY <1>1 DEF SeparatedIn, Entry, Local

(* One more parent link followed.                                          *)
LEMMA FollowedStep ==
  ASSUME IInv, pc = "collect", NEW n, n = Size, NEW p, p = partition,
         NEW r \in RoundFrom(p, n), NEW s \in 1..n, ~IsUnsolvable(p, s),
         NEW k \in DOMAIN Entry(tarjan_stack, s).parents, k - 1 \in Nat,
         NEW u \in FollowedUpTo(s, k - 1, p, r, n)
  PROVE  Promoted(u, Entry(tarjan_stack, s).parents[k])
           \in FollowedUpTo(s, k, p, r, n)
<1>0. pc \in AnalysisPCs
  BY DEF AnalysisPCs
<1>1. n \in Nat /\ Consistent(p, n) /\ k \in Int
  <2>1. AgreesWith(tarjan_stack, partition, Top.stackidx, Size)
    BY AnalysisNow
  <2>2. Entry(tarjan_stack, s).parents \in Seq(ParentInfos)
    BY <1>0, EntryFacts, EntryParts
  <2>3. k \in 1..Len(Entry(tarjan_stack, s).parents)
    BY <2>2
  <2> QED BY <2>1, <2>3, <1>0, SizeFacts DEF AgreesWith
<1>x. PICK x : x = Entry(tarjan_stack, s).parents[k]
  OBVIOUS
<1>i. PICK i : i = Local(x.parent_idx)
  OBVIOUS
<1>2. IsInside(x)
  BY <1>0, <1>x, LinkInside
<1>3. i \in 1..n
  BY <1>2, <1>i DEF IsInside
<1>4. /\ u \in RoundFrom(p, n) /\ u \in Grown(r, n)
      /\ \A m \in 1..(k - 1) : IsFollowed(Entry(tarjan_stack, s).parents[m], u)
  BY DEF FollowedUpTo
<1>5. CASE ~FlagsOf(tarjan_stack, x).is_active
  <2>1. Promoted(u, x) = u
    BY <1>5 DEF Promoted
  <2>2. \A m \in 1..k : m \in 1..(k - 1) \/ m = k
    BY <1>1
  <2>3. IsFollowed(x, u)
    BY <1>5 DEF IsFollowed
  <2>4. u \in FollowedUpTo(s, k, p, r, n)
    BY <1>4, <1>x, <2>2, <2>3 DEF FollowedUpTo
  <2> QED BY <2>1, <2>4, <1>x
<1>6. CASE FlagsOf(tarjan_stack, x).is_active
  <2>1. ~IsUnsolvable(p, i)
    BY <1>6, <1>x, <1>i, SeparatedLink
  <2>q. PICK q : q = PromoteSolvable(u, i)
    OBVIOUS
  <2>2. Promoted(u, x) = q
    BY <1>6, <1>i, <2>q DEF Promoted
  <2>3. q \in RoundFrom(p, n) \intersect Grown(u, n) /\ ~IsUnsolvable(q, i)
    BY ONLY <1>1, <1>3, <1>4, <2>1, <2>q, PromoteInRound
  <2>4. Consistent(r, n) /\ Consistent(u, n)
    BY <1>4 DEF RoundFrom
  <2>5. q \in Grown(r, n)
    BY ONLY <1>1, <1>4, <2>3, <2>4, GrownTransitive
  <2>6. ASSUME NEW m \in 1..k
        PROVE  IsFollowed(Entry(tarjan_stack, s).parents[m], q)
    <3>1. CASE m = k
      BY <3>1, <1>x, <1>i, <2>3 DEF IsFollowed
    <3>2. CASE m # k
      <4>y. PICK y : y = Entry(tarjan_stack, s).parents[m]
        OBVIOUS
      <4>1. m \in 1..(k - 1)
        BY <3>2, <1>1
      <4>2. m \in DOMAIN Entry(tarjan_stack, s).parents
        <5>1. Entry(tarjan_stack, s).parents \in Seq(ParentInfos)
          BY <1>0, EntryFacts, EntryParts
        <5>2. k \in 1..Len(Entry(tarjan_stack, s).parents)
          BY <5>1
        <5> QED BY <5>1, <5>2, <4>1
      <4>3. Local(y.parent_idx) \in 1..n
        <5>1. IsInside(y)
          BY <1>0, <4>2, <4>y, LinkInside
        <5> QED BY <5>1 DEF IsInside
      <4>4. IsFollowed(y, u)
        BY <4>1, <4>y, <1>4
      <4>5. ~IsUnsolvable(u, Local(y.parent_idx)) =>
              ~IsUnsolvable(q, Local(y.parent_idx))
        <5>1. q \in Grown(u, n)
          BY <2>3
        <5> QED BY ONLY <5>1, <1>1, <2>4, <4>3, GrownSolvable
      <4> QED BY <4>4, <4>5, <4>y DEF IsFollowed
    <3> QED BY <3>1, <3>2
  <2>7. q \in FollowedUpTo(s, k, p, r, n)
    BY <2>3, <2>5, <2>6 DEF FollowedUpTo
  <2> QED BY <2>2, <2>7, <1>x
<1> QED BY <1>5, <1>6

(* All parents of a member that is solvable are promoted.                  *)
LEMMA ParentsPromotedFacts ==
  ASSUME IInv, pc = "collect", NEW n, n = Size, NEW p, p = partition,
         NEW r \in RoundFrom(p, n), NEW s \in 1..n, ~IsUnsolvable(p, s)
  PROVE  ParentsPromoted(r, s)
           \in FollowedUpTo(s, Len(Entry(tarjan_stack, s).parents), p, r, n)
<1>0. pc \in AnalysisPCs
  BY DEF AnalysisPCs
<1>l. PICK links : links = Entry(tarjan_stack, s).parents
  OBVIOUS
<1>m. PICK l : l = Len(links)
  OBVIOUS
<1>1. links \in Seq(ParentInfos) /\ l \in Nat /\ DOMAIN links = 1..l
  BY <1>0, <1>l, <1>m, EntryFacts, EntryParts
<1>2. /\ n \in Nat /\ r \in Partitions(n) /\ Consistent(r, n)
  BY <1>0, SizeFacts DEF RoundFrom
<1> DEFINE XX == [k \in 0..l |-> FollowedUpTo(s, k, p, r, n)]
<1>3. XX[0] = FollowedUpTo(s, 0, p, r, n) /\ XX[l] = FollowedUpTo(s, l, p, r, n)
      /\ \A k \in 1..l : XX[k - 1] = FollowedUpTo(s, k - 1, p, r, n)
                         /\ XX[k] = FollowedUpTo(s, k, p, r, n)
  BY <1>1
<1> HIDE DEF XX
<1>4. r \in XX[0]
  <2>1. r \in Grown(r, n)
    <3>1. r.solvable_beg <= r.solvable_beg
      <4>1. r.solvable_beg \in 1..(n + 1)
        BY <1>2, FieldTypes
      <4> QED BY <4>1, <1>2
    <3> QED BY <1>2, <3>1 DEF Grown
  <2>2. \A k \in 1..0 : FALSE
    OBVIOUS
  <2> QED BY <2>1, <2>2, <1>3 DEF FollowedUpTo
<1>5. \A k \in 1..l : \A y \in XX[k - 1] : Promoted(y, links[k]) \in XX[k]
  <2> TAKE k \in 1..l
  <2> TAKE y \in XX[k - 1]
  <2>1. y \in FollowedUpTo(s, k - 1, p, r, n)
    BY <1>3
  <2>2. k \in DOMAIN Entry(tarjan_stack, s).parents /\ k - 1 \in Nat
    BY <1>1, <1>l
  <2>3. Promoted(y, Entry(tarjan_stack, s).parents[k])
          \in FollowedUpTo(s, k, p, r, n)
    BY <2>1, <2>2, FollowedStep
  <2> QED BY <2>3, <1>3, <1>l
<1>6. PromotedRun(l, r, links)[l] \in XX[l]
  <2>1. l \in Nat
    BY <1>1
  <2> QED BY ONLY <2>1, <1>4, <1>5, PromotedFold
<1>7. ParentsPromoted(r, s) = PromotedRun(l, r, links)[l]
  BY <1>l, <1>m DEF ParentsPromoted, Folded, Promoted, PromotedRun
<1> QED BY <1>3, <1>6, <1>7, <1>l, <1>m
-----------------------------------------------------------------------------
(* The whole round: members are visited from the end of the array.         *)

IsDone(s, r) ==
  \A m \in DOMAIN Entry(tarjan_stack, s).parents :
    IsFollowed(Entry(tarjan_stack, s).parents[m], r)

VisitedDownTo(i, p, n) ==
  {r \in RoundFrom(p, n) :
     \A s \in 1..n : r.place[s] >= i /\ ~IsUnsolvable(r, s) => IsDone(s, r)}

(* Links that were followed stay so while the region grows.                *)
LEMMA DoneKept ==
  ASSUME IInv, pc = "collect", NEW n, n = Size, NEW r, Consistent(r, n),
         NEW u, u \in Grown(r, n), NEW s \in 1..n, IsDone(s, r)
  PROVE  IsDone(s, u)
<1>0. pc \in AnalysisPCs
  BY DEF AnalysisPCs
<1>1. SUFFICES ASSUME NEW m \in DOMAIN Entry(tarjan_stack, s).parents
               PROVE  IsFollowed(Entry(tarjan_stack, s).parents[m], u)
  BY DEF IsDone
<1>x. PICK x : x = Entry(tarjan_stack, s).parents[m]
  OBVIOUS
<1>2. IsFollowed(x, r)
  BY <1>x DEF IsDone
<1>3. Local(x.parent_idx) \in 1..n
  <2>1. IsInside(x)
    BY <1>0, <1>x, LinkInside
  <2> QED BY <2>1 DEF IsInside
<1>4. n \in Nat
  BY <1>0, SizeFacts
<1>5. ~IsUnsolvable(r, Local(x.parent_idx)) => ~IsUnsolvable(u, Local(x.parent_idx))
  BY ONLY <1>3, <1>4, Consistent(r, n), u \in Grown(r, n), GrownSolvable
<1> QED BY <1>2, <1>5, <1>x DEF IsFollowed

(* One more member visited; those that come below the boundary are visited *)
(* later.                                                                  *)
LEMMA VisitedStep ==
  ASSUME IInv, pc = "collect", NEW n, n = Size, NEW p, p = partition,
         NEW i \in 1..n, NEW r \in VisitedDownTo(i + 1, p, n)
  PROVE  Visited(r, i) \in VisitedDownTo(i, p, n)
<1>0. pc \in AnalysisPCs
  BY DEF AnalysisPCs
<1>1. n \in Nat /\ Consistent(p, n)
  <2>1. AgreesWith(tarjan_stack, partition, Top.stackidx, Size)
    BY AnalysisNow
  <2> QED BY <2>1, <1>0, SizeFacts DEF AgreesWith
<1>2. /\ r \in RoundFrom(p, n) /\ Consistent(r, n)
      /\ \A s \in 1..n : r.place[s] >= i + 1 /\ ~IsUnsolvable(r, s) => IsDone(s, r)
  BY DEF VisitedDownTo, RoundFrom
<1>3. /\ r.place \in [1..n -> 1..n] /\ r.order \in [1..n -> 1..n]
      /\ r.solvable_beg \in 1..(n + 1)
  BY <1>1, <1>2, FieldTypes
<1>4. CASE i < r.solvable_beg
  <2>1. Visited(r, i) = r
    BY <1>4 DEF Visited
  <2>2. ASSUME NEW s \in 1..n, r.place[s] >= i, ~IsUnsolvable(r, s)
        PROVE  IsDone(s, r)
    <3>x. PICK x : x = r.place[s]
      OBVIOUS
    <3>b. PICK b : b = r.solvable_beg
      OBVIOUS
    <3>1. x \in 1..n /\ b \in 1..(n + 1) /\ ~(x < b) /\ i < b
      BY <1>3, <1>4, <2>2, <3>x, <3>b DEF IsUnsolvable
    <3>2. x >= i + 1
      BY <3>1, <1>1
    <3> QED BY <3>2, <3>x, <2>2, <1>2
  <2> QED BY <1>2, <2>1, <2>2 DEF VisitedDownTo
<1>5. CASE ~(i < r.solvable_beg)
  <2>s. PICK s : s = r.order[i]
    OBVIOUS
  <2>u. PICK u : u = ParentsPromoted(r, s)
    OBVIOUS
  <2>1. Visited(r, i) = u
    BY <1>5, <2>s, <2>u DEF Visited
  <2>2. s \in 1..n /\ r.place[s] = i
    BY <1>2, <1>3, <2>s DEF Consistent
  <2>3. ~IsUnsolvable(r, s)
    BY <1>5, <2>2 DEF IsUnsolvable
  <2>4. ~IsUnsolvable(p, s)
    BY <1>1, <1>2, <2>2, <2>3, RoundPlaces
  <2>5. u \in FollowedUpTo(s, Len(Entry(tarjan_stack, s).parents), p, r, n)
    BY <1>2, <2>2, <2>4, <2>u, ParentsPromotedFacts
  <2>6. /\ u \in RoundFrom(p, n) /\ u \in Grown(r, n) /\ Consistent(u, n)
        /\ \A m \in 1..Len(Entry(tarjan_stack, s).parents) :
             IsFollowed(Entry(tarjan_stack, s).parents[m], u)
    BY <2>5 DEF FollowedUpTo, RoundFrom
  <2>7. IsDone(s, u)
    <3>1. Entry(tarjan_stack, s).parents \in Seq(ParentInfos)
      BY <1>0, <2>2, EntryFacts, EntryParts
    <3>2. DOMAIN Entry(tarjan_stack, s).parents
            = 1..Len(Entry(tarjan_stack, s).parents)
      BY <3>1
    <3> QED BY <3>2, <2>6 DEF IsDone
  <2>8. ASSUME NEW t \in 1..n, u.place[t] >= i, ~IsUnsolvable(u, t)
        PROVE  IsDone(t, u)
    <3>j. PICK j : j = u.place[t]
      OBVIOUS
    <3>b. PICK b : b = r.solvable_beg
      OBVIOUS
    <3>1. j \in 1..n
      BY <1>1, <2>6, <3>j, FieldTypes
    <3>2. b \in 1..(n + 1) /\ ~(i < b) /\ j >= i
      BY <1>3, <1>5, <2>8, <3>b, <3>j
    <3>3. j >= b
      BY <3>1, <3>2, <1>1
    <3>w. PICK w : w = r.order[j]
      OBVIOUS
    <3>4. w \in 1..n /\ r.place[w] = j
      BY <1>2, <1>3, <3>1, <3>w DEF Consistent
    <3>5. u.place[w] = j
      BY <2>6, <3>3, <3>4, <3>b DEF Grown
    <3>6. w = t
      BY <1>1, <2>6, <3>4, <3>5, <3>j, PlaceInjective
    <3>7. CASE j = i
      BY <2>7, <2>s, <3>6, <3>7, <3>w
    <3>8. CASE j # i
      <4>1. j >= i + 1 /\ ~(j < b)
        BY <3>1, <3>2, <3>3, <3>8, <1>1
      <4>2. IsDone(t, r)
        BY <1>2, <3>4, <3>6, <4>1, <3>b DEF IsUnsolvable
      <4> QED BY <4>2, <1>2, <2>6, DoneKept
    <3> QED BY <3>7, <3>8
  <2> QED BY <2>1, <2>6, <2>8 DEF VisitedDownTo
<1> QED BY <1>4, <1>5

(* In the end each solvable member was visited.                            *)
LEMMA CollectedFacts ==
  ASSUME IInv, pc = "collect", NEW n, n = Size, NEW p, p = partition
  PROVE  Collected(MarkNonExitStatesUnsolvable(p)) \in VisitedDownTo(1, p, n)
<1>0. pc \in AnalysisPCs
  BY DEF AnalysisPCs
<1>1. n \in Nat \ {0} /\ Consistent(p, n) /\ n \in Nat
  <2>1. AgreesWith(tarjan_stack, partition, Top.stackidx, Size)
    BY AnalysisNow
  <2> QED BY <2>1, <1>0, SizeFacts DEF AgreesWith
<1>q. PICK q : q = MarkNonExitStatesUnsolvable(p)
  OBVIOUS
<1>2. q \in VisitedDownTo(n + 1, p, n)
  <2>1. /\ p.place \in [1..n -> 1..n] /\ p.solvable_beg \in 1..(n + 1)
        /\ p.exits_beg \in 1..(n + 1) /\ p.solvable_beg <= p.exits_beg
    BY <1>1, FieldTypes
  <2>2. /\ Consistent(q, n) /\ q.place = p.place
        /\ q.solvable_beg = p.exits_beg /\ q.exits_beg = p.exits_beg
    <3>e. PICK e : e = p.exits_beg
      OBVIOUS
    <3>1. e \in 1..(n + 1) /\ e <= p.exits_beg
      BY <2>1, <3>e
    <3>2. q = [p EXCEPT !.solvable_beg = e]
      BY <1>q, <3>e DEF MarkNonExitStatesUnsolvable
    <3>3. /\ Consistent(q, n) /\ q.solvable_beg = e
          /\ q.exits_beg = p.exits_beg /\ q.place = p.place
      BY ONLY <1>1, <3>1, <3>2, SolvableBegMoved
    <3> QED BY <3>3, <3>e
  <2>3. q.solvable_beg >= p.solvable_beg
    <3>1. p.solvable_beg \in Int /\ p.exits_beg \in Int
      BY <1>1, <2>1
    <3> QED BY ONLY <3>1, <2>1, <2>2
  <2>4. q \in RoundFrom(p, n)
    <3>1. q \in Partitions(n)
      BY <2>2 DEF Consistent, Partitions
    <3> QED BY <2>2, <2>3, <3>1 DEF RoundFrom
  <2>5. \A s \in 1..n : ~(q.place[s] >= n + 1)
    <3> TAKE s \in 1..n
    <3>1. q.place[s] \in 1..n
      BY <2>1, <2>2
    <3> QED BY <3>1, <1>1
  <2> QED BY <2>4, <2>5 DEF VisitedDownTo
<1>s. PICK seq : seq = Descending(n)
  OBVIOUS
<1>3. /\ Len(seq) = n
      /\ \A k \in 1..n : seq[k] = n + 1 - k
  <2>1. seq \in [1..n -> Int]
    BY <1>1, <1>s DEF Descending
  <2>2. seq \in Seq(Int) /\ Len(seq) = n
    BY <1>1, <2>1
  <2> QED BY <2>2, <1>s DEF Descending
<1> DEFINE XX == [k \in 0..n |-> VisitedDownTo(n + 1 - k, p, n)]
<1>4. /\ XX[0] = VisitedDownTo(n + 1, p, n) /\ XX[n] = VisitedDownTo(1, p, n)
  <2>1. 0 \in 0..n /\ n \in 0..n /\ n + 1 - 0 = n + 1 /\ n + 1 - n = 1
    BY <1>1
  <2> QED BY <2>1
<1>5. \A k \in 1..n : /\ XX[k - 1] = VisitedDownTo(seq[k] + 1, p, n)
                      /\ XX[k] = VisitedDownTo(seq[k], p, n)
                      /\ seq[k] \in 1..n
  <2> TAKE k \in 1..n
  <2>1. /\ k \in 0..n /\ k - 1 \in 0..n /\ n + 1 - (k - 1) = n + 1 - k + 1
        /\ n + 1 - k \in 1..n
    BY <1>1
  <2>2. seq[k] = n + 1 - k
    BY <1>3
  <2> QED BY <2>1, <2>2
<1> HIDE DEF XX
<1>6. \A k \in 1..n : \A y \in XX[k - 1] : Visited(y, seq[k]) \in XX[k]
  BY <1>5, VisitedStep
<1>7. q \in XX[0]
  BY <1>2, <1>4
<1>8. VisitedRun(n, q, seq)[n] \in XX[n]
  <2>1. n \in Nat
    BY <1>1
  <2> QED BY ONLY <2>1, <1>6, <1>7, VisitedFold
<1>9. Collected(q) = VisitedRun(n, q, seq)[n]
  <2>1. Collected(q) = VisitedRun(Len(seq), q, seq)[Len(seq)]
    BY <1>s DEF Collected, Folded, Visited, VisitedRun
  <2> QED BY <2>1, <1>3
<1> QED BY <1>4, <1>8, <1>9, <1>q

(* The first loop of the fixpoint.                                         *)
LEMMA CollectSolvableStep == ASSUME IInv, CollectSolvable PROVE IInv'
<1>p. PICK p : p = partition
  OBVIOUS
<1>q. PICK q : q = Collected(MarkNonExitStatesUnsolvable(partition))
  OBVIOUS
<1>1. /\ pc = "collect" /\ partition' = q
      /\ pc' = IF q.solvable_beg = partition.solvable_beg THEN "sweep" ELSE "demote"
      /\ unsolv_it' = partition.solvable_beg
      /\ UNCHANGED <<dfs_vars, explored, value, tarjan_stack, ecd_vars, sweep>>
  BY <1>q DEF CollectSolvable
<1>2. pc \in AnalysisPCs /\ pc' \in AnalysisPCs
  BY <1>1 DEF AnalysisPCs
<1>3. /\ ~Stopped /\ ValuesOK /\ StackPart /\ tarjan_stack \in Seq(StackInfos)
  BY <1>2, AnalysisFacts
<1>n. PICK n : n = Size
  OBVIOUS
<1>b. PICK b : b = Top.stackidx
  OBVIOUS
<1>4. /\ n \in Nat \ {0} /\ b \in Nat \ {0} /\ Len(tarjan_stack) = b + n - 1
  BY <1>2, <1>n, <1>b, SizeFacts
<1>5. AgreesWith(tarjan_stack, p, b, n)
  BY <1>1, <1>n, <1>b, <1>p, AnalysisNow
<1>6. q \in VisitedDownTo(1, p, n)
  BY <1>1, <1>n, <1>p, <1>q, CollectedFacts
<1>7. /\ q \in RoundFrom(p, n) /\ Consistent(q, n) /\ Consistent(p, n)
      /\ q.exits_beg = p.exits_beg /\ q.solvable_beg >= p.solvable_beg
      /\ \A t \in 1..n : p.place[t] >= p.exits_beg <=> q.place[t] >= p.exits_beg
  BY <1>5, <1>6 DEF VisitedDownTo, RoundFrom, AgreesWith
<1>8. AgreesWith(tarjan_stack, q, b, n)
  <2>1. ASSUME NEW i \in 1..n
        PROVE  /\ q.place[i] >= q.exits_beg <=>
                    tarjan_stack[b + i - 1].active_exit_transitions > 0
               /\ ~IsUnsolvable(q, i) =>
                    tarjan_stack[b + i - 1].active_transitions > 0
    <3>1. /\ p.place[i] >= p.exits_beg <=>
               tarjan_stack[b + i - 1].active_exit_transitions > 0
          /\ ~IsUnsolvable(p, i) => tarjan_stack[b + i - 1].active_transitions > 0
      BY <1>5 DEF AgreesWith
    <3>2. ~IsUnsolvable(q, i) => ~IsUnsolvable(p, i)
      <4>1. n \in Nat
        BY <1>4
      <4> QED BY <4>1, <1>7, RoundPlaces
    <3>3. q.exits_beg = p.exits_beg
          /\ (p.place[i] >= p.exits_beg <=> q.place[i] >= p.exits_beg)
      BY <1>7
    <3> QED BY ONLY <3>1, <3>2, <3>3
  <2> QED BY <1>7, <2>1 DEF AgreesWith
<1>9. SeparatedIn(tarjan_stack, q, b, n)
  <2> SUFFICES ASSUME NEW i \in 1..n, ~IsUnsolvable(q, i),
                      NEW m \in DOMAIN tarjan_stack[b + i - 1].parents,
                      NEW x, x = tarjan_stack[b + i - 1].parents[m],
                      FlagsOf(tarjan_stack, x).is_active
               PROVE  /\ x.parent_idx - b + 1 \in 1..n
                      /\ ~IsUnsolvable(q, x.parent_idx - b + 1)
    BY DEF SeparatedIn
  <2>1. Entry(tarjan_stack, i) = tarjan_stack[b + i - 1]
    BY <1>b DEF Entry
  <2>2. IsInside(x)
    BY <2>1, <1>2, <1>n, LinkInside
  <2>3. IsDone(i, q)
    <3>1. q.place[i] \in 1..n
      <4>1. n \in Nat
        BY <1>4
      <4> QED BY <4>1, <1>7, FieldTypes
    <3>2. q.place[i] >= 1
      BY <3>1, <1>4
    <3> QED BY <3>2, <1>6 DEF VisitedDownTo
  <2>4. IsFollowed(x, q)
    BY <2>1, <2>3 DEF IsDone
  <2> QED BY <2>2, <2>4, <1>n, <1>b DEF IsFollowed, IsInside, Local
<1>10. pc' = "demote" => unsolv_it' \in 1..(partition'.solvable_beg - 1)
  <2>c. PICK c : c = p.solvable_beg
    OBVIOUS
  <2>d. PICK d : d = q.solvable_beg
    OBVIOUS
  <2>1. c \in 1..(n + 1) /\ d \in 1..(n + 1) /\ d >= c
    <3>1. n \in Nat
      BY <1>4
    <3> QED BY <3>1, <1>7, <2>c, <2>d, FieldTypes
  <2>2. c # d => c \in 1..(d - 1)
    BY <2>1, <1>4
  <2> QED BY <2>2, <1>1, <1>p, <2>c, <2>d
<1>11. AnalysisOK'
  <2>1. UNCHANGED dfs_stack /\ Len(tarjan_stack') = Len(tarjan_stack)
    BY <1>1 DEF dfs_vars
  <2>2. /\ AgreesWith(tarjan_stack', partition', Top.stackidx, Size)
        /\ SeparatedIn(tarjan_stack', partition', Top.stackidx, Size)
    BY <1>1, <1>8, <1>9, <1>n, <1>b
  <2> QED BY ONLY <1>10, <2>1, <2>2, AnalysisThen
<1>12. /\ value' \in [State -> Int]
       /\ sweep' \in [next : Nat, converged : BOOLEAN]
  BY <1>1, <1>3 DEF ValuesOK
<1>13. pc' \in SweepPCs => sweep'.next \in Top.stackidx..(Len(tarjan_stack') + 1)
  <2>1. ControlOK /\ pc \in SweepPCs
    BY <1>1 DEF IInv, SweepPCs
  <2>2. sweep.next \in Top.stackidx..(Len(tarjan_stack) + 1)
    BY <2>1 DEF ControlOK
  <2> QED BY <2>2, <1>1
<1>14. StackPart'
  <2>1. UNCHANGED <<dfs_stack, tarjan_stack>>
    BY <1>1 DEF dfs_vars
  <2> QED BY ONLY <1>3, <2>1, SameStacks
<1>15. SameLinks(tarjan_stack, tarjan_stack') /\ tarjan_stack' \in Seq(StackInfos)
  BY <1>1, <1>3 DEF SameLinks
<1> QED BY <1>1, <1>2, <1>11, <1>12, <1>13, <1>14, <1>15, AnalysisKeeps
-----------------------------------------------------------------------------
(* DemoteParents: the entry of a state that loses a transition.            *)

Lost(e, i) ==
  [e EXCEPT !.transition_flags = [e.transition_flags EXCEPT ![i] = Inactive],
            !.active_transitions = e.active_transitions - 1,
            !.active_exit_transitions =
              IF e.transition_flags[i].is_active_exiting
              THEN e.active_exit_transitions - 1 ELSE e.active_exit_transitions]

(* Counters and flags go on agreeing when a transition is lost.            *)
LEMMA LostFacts ==
  ASSUME NEW e \in StackInfos, CounterOK(e), NEW i \in ActiveFlags(e)
  PROVE  /\ Lost(e, i) \in StackInfos /\ CounterOK(Lost(e, i))
         /\ Lost(e, i).state = e.state /\ Lost(e, i).parents = e.parents
         /\ Transitions(Lost(e, i)) = Transitions(e)
         /\ Len(Lost(e, i).transition_flags) = Len(e.transition_flags)
         /\ ActiveFlags(Lost(e, i)) = ActiveFlags(e) \ {i}
         /\ Lost(e, i).active_transitions = e.active_transitions - 1
         /\ Lost(e, i).active_exit_transitions =
              IF i \in ExitFlags(e) THEN e.active_exit_transitions - 1
              ELSE e.active_exit_transitions
<1>f. PICK F : F = e.transition_flags
  OBVIOUS
<1>g. PICK G : G = [F EXCEPT ![i] = Inactive]
  OBVIOUS
<1>x. PICK ae : ae = IF e.transition_flags[i].is_active_exiting
                     THEN e.active_exit_transitions - 1
                     ELSE e.active_exit_transitions
  OBVIOUS
<1>y. PICK at : at = e.active_transitions - 1
  OBVIOUS
<1>d. PICK d : d = Lost(e, i)
  OBVIOUS
<1>l. PICK l : l = Len(F)
  OBVIOUS
<1>1. /\ F \in Seq(Flags) /\ l \in Nat /\ DOMAIN F = 1..l /\ i \in 1..l
      /\ e.active_transitions \in Int /\ e.active_exit_transitions \in Int
  BY <1>f, <1>l, EntryParts, FlagSets
<1>2. Inactive \in Flags /\ Inactive.is_active = FALSE
      /\ Inactive.is_active_exiting = FALSE
  BY DEF Inactive, Flags
<1>3. /\ G \in Seq(Flags) /\ Len(G) = l /\ DOMAIN G = 1..l
      /\ G[i] = Inactive /\ \A k \in 1..l : k # i => G[k] = F[k]
  <2> HIDE DEF Inactive
  <2> QED BY <1>1, <1>2, <1>g, <1>l
<1>4. ae \in Int /\ at \in Int
  BY <1>1, <1>x, <1>y
<1>5. d = [e EXCEPT !.transition_flags = G, !.active_transitions = at,
                    !.active_exit_transitions = ae]
  BY <1>d, <1>f, <1>g, <1>x, <1>y DEF Lost
<1>6. /\ d \in StackInfos /\ d.state = e.state /\ d.parents = e.parents
      /\ d.transition_flags = G /\ d.active_transitions = at
      /\ d.active_exit_transitions = ae
      /\ d.ec_transitions = e.ec_transitions
      /\ d.non_ec_transitions = e.non_ec_transitions
  BY <1>3, <1>4, <1>5 DEF StackInfos
<1>7. Transitions(d) = Transitions(e)
  BY <1>6 DEF Transitions
<1>8. ActiveFlags(d) = ActiveFlags(e) \ {i}
  <2>1. \A k \in 1..l : G[k].is_active <=> (F[k].is_active /\ k # i)
    BY <1>2, <1>3
  <2> QED BY <2>1, <1>1, <1>3, <1>6, <1>f DEF ActiveFlags
<1>9. ExitFlags(d) = ExitFlags(e) \ {i}
  <2>1. \A k \in 1..l : G[k].is_active_exiting <=> (F[k].is_active_exiting /\ k # i)
    BY <1>2, <1>3
  <2> QED BY <2>1, <1>1, <1>3, <1>6, <1>f DEF ExitFlags
<1>10. i \in ExitFlags(e) <=> e.transition_flags[i].is_active_exiting
  BY <1>1, <1>f DEF ExitFlags
<1>11. ae = IF i \in ExitFlags(e) THEN e.active_exit_transitions - 1
            ELSE e.active_exit_transitions
  BY <1>x, <1>10
<1>12. CounterOK(d)
  <2>1. /\ IsFiniteSet(ActiveFlags(e)) /\ IsFiniteSet(ExitFlags(e))
        /\ Cardinality(ActiveFlags(e)) \in Nat
        /\ Cardinality(ExitFlags(e)) \in Nat
    BY FlagSets
  <2>2. Cardinality(ActiveFlags(d)) = Cardinality(ActiveFlags(e)) - 1
    BY <2>1, <1>8, FS_RemoveElement
  <2>3. Cardinality(ExitFlags(d)) = IF i \in ExitFlags(e)
                                    THEN Cardinality(ExitFlags(e)) - 1
                                    ELSE Cardinality(ExitFlags(e))
    <3>1. CASE i \in ExitFlags(e)
      BY <3>1, <2>1, <1>9, FS_RemoveElement
    <3>2. CASE i \notin ExitFlags(e)
      <4>1. ExitFlags(d) = ExitFlags(e)
        BY <3>2, <1>9
      <4> QED BY <3>2, <4>1
    <3> QED BY <3>1, <3>2
  <2>a. PICK ca : ca = Cardinality(ActiveFlags(e))
    OBVIOUS
  <2>c. PICK ce : ce = Cardinality(ExitFlags(e))
    OBVIOUS
  <2>4. /\ ExitFlags(e) \subseteq ActiveFlags(e)
        /\ e.active_transitions - ca >= 0
        /\ e.active_exit_transitions = e.active_transitions - ca + ce
    BY <2>a, <2>c DEF CounterOK
  <2>5. ExitFlags(d) \subseteq ActiveFlags(d)
    BY <2>4, <1>8, <1>9
  <2>6. ca \in Nat /\ ce \in Nat
    BY <2>1, <2>a, <2>c
  <2>7. /\ Cardinality(ActiveFlags(d)) = ca - 1
        /\ Cardinality(ExitFlags(d)) = IF i \in ExitFlags(e) THEN ce - 1 ELSE ce
    BY <2>2, <2>3, <2>a, <2>c
  <2>8. at - (ca - 1) >= 0
    BY <2>4, <2>6, <1>1, <1>y
  <2>9. ae = at - (ca - 1) + (IF i \in ExitFlags(e) THEN ce - 1 ELSE ce)
    <3>u. PICK u : u = e.active_transitions
      OBVIOUS
    <3>v. PICK v : v = e.active_exit_transitions
      OBVIOUS
    <3>1. u \in Int /\ v \in Int /\ v = u - ca + ce /\ at = u - 1
      BY <2>4, <1>1, <1>y, <3>u, <3>v
    <3>2. CASE i \in ExitFlags(e)
      <4>1. ae = v - 1
        BY <3>2, <3>v, <1>11
      <4>2. ae = at - (ca - 1) + (ce - 1)
        BY ONLY <4>1, <3>1, <2>6
      <4> QED BY <4>2, <3>2
    <3>3. CASE i \notin ExitFlags(e)
      <4>1. ae = v
        BY <3>3, <3>v, <1>11
      <4>2. ae = at - (ca - 1) + ce
        BY ONLY <4>1, <3>1, <2>6
      <4> QED BY <4>2, <3>3
    <3> QED BY <3>2, <3>3
  <2> QED BY <2>5, <2>7, <2>8, <2>9, <1>6 DEF CounterOK
<1>13. Len(d.transition_flags) = Len(e.transition_flags)
  BY <1>3, <1>6, <1>f, <1>l
<1> QED BY <1>d, <1>6, <1>7, <1>8, <1>11, <1>12, <1>13, <1>y

(* A solvable member is in one of two regions.                             *)
LEMMA Regions ==
  ASSUME NEW n \in Nat, NEW p, Consistent(p, n), NEW t \in 1..n
  PROVE  /\ ~IsUnsolvable(p, t) <=> (t \in InnerMembers(p, n)
                                     \/ t \in ExitMembers(p, n))
         /\ ~(t \in InnerMembers(p, n) /\ t \in ExitMembers(p, n))
         /\ p.place[t] >= p.exits_beg <=> t \in ExitMembers(p, n)
<1>x. PICK x : x = p.place[t]
  OBVIOUS
<1>s. PICK s : s = p.solvable_beg
  OBVIOUS
<1>y. PICK y : y = p.exits_beg
  OBVIOUS
<1>1. x \in 1..n /\ s \in 1..(n + 1) /\ y \in 1..(n + 1) /\ s <= y
  BY <1>x, <1>s, <1>y, FieldTypes
<1>2. /\ t \in ExitMembers(p, n) <=> y <= x
      /\ t \in InnerMembers(p, n) <=> (s <= x /\ x < y)
      /\ IsUnsolvable(p, t) <=> x < s
  BY <1>x, <1>s, <1>y DEF ExitMembers, InnerMembers, IsUnsolvable
<1>3. x >= y <=> y <= x
  BY <1>1
<1>4. ~(x < s) <=> ((s <= x /\ x < y) \/ y <= x)
  BY <1>1
<1>5. ~(x < y /\ y <= x)
  BY <1>1
<1> QED BY ONLY <1>2, <1>3, <1>4, <1>5, <1>x, <1>y

(* Member i alone has changed its region, to the one that out (it has an   *)
(* active exit) and act (it has an active transition) tell.                *)
IsMoved(q1, q, i, n, out, act) ==
  /\ Consistent(q1, n)
  /\ q1.solvable_beg >= q.solvable_beg
  /\ \A t \in 1..n : t # i =>
       /\ t \in ExitMembers(q1, n) <=> t \in ExitMembers(q, n)
       /\ t \in InnerMembers(q1, n) <=> t \in InnerMembers(q, n)
  /\ i \in ExitMembers(q1, n) <=> out
  /\ i \in InnerMembers(q1, n) <=> (act /\ ~out)

(* The demotion that the counters ask for moves the member to the region   *)
(* that fits them.                                                         *)
LEMMA MovedFacts ==
  ASSUME NEW n \in Nat, NEW q, Consistent(q, n), NEW i \in 1..n,
         ~IsUnsolvable(q, i), NEW exits \in BOOLEAN, NEW ax \in Nat, NEW at \in Nat,
         ax <= at, exits => i \in ExitMembers(q, n),
         ~exits => (i \in ExitMembers(q, n) <=> ax > 0)
  PROVE  LET q1 == IF exits
                   THEN CASE at = 0 -> DemoteExitUnsolvable(q, i)
                          [] at # 0 /\ ax = 0 -> DemoteExitSolvable(q, i)
                          [] OTHER -> q
                   ELSE IF at = 0 THEN DemoteUnsolvable(q, i) ELSE q
         IN  IsMoved(q1, q, i, n, ax > 0, at > 0)
<1> DEFINE q1 == IF exits
                 THEN CASE at = 0 -> DemoteExitUnsolvable(q, i)
                        [] at # 0 /\ ax = 0 -> DemoteExitSolvable(q, i)
                        [] OTHER -> q
                 ELSE IF at = 0 THEN DemoteUnsolvable(q, i) ELSE q
<1>b. PICK b : b = q.solvable_beg
  OBVIOUS
<1>0. b \in Int
  <2>1. b \in 1..(n + 1)
    BY <1>b, FieldTypes
  <2> QED BY <2>1
<1>1. /\ i \in InnerMembers(q, n) \/ i \in ExitMembers(q, n)
      /\ ~(i \in InnerMembers(q, n) /\ i \in ExitMembers(q, n))
  BY Regions
<1>2. CASE exits /\ at = 0
  <2>1. q1 = DemoteExitUnsolvable(q, i)
    BY <1>2
  <2> HIDE DEF q1
  <2>2. i \in ExitMembers(q, n)
    BY <1>2
  <2>3. /\ Consistent(q1, n)
        /\ InnerMembers(q1, n) = InnerMembers(q, n)
        /\ ExitMembers(q1, n) = ExitMembers(q, n) \ {i}
    BY <2>1, <2>2, DemoteExitUnsolvableCorrect
  <2>4. q1.solvable_beg = b + 1
    BY <2>1, <1>b, DemoteBoundaries
  <2>5. b + 1 >= b /\ ~(ax > 0) /\ ~(at > 0)
    BY <1>0, <1>2
  <2>6. IsMoved(q1, q, i, n, ax > 0, at > 0)
    BY ONLY <1>1, <1>b, <2>2, <2>3, <2>4, <2>5 DEF IsMoved
  <2> QED BY <2>6 DEF q1
<1>3. CASE exits /\ at # 0 /\ ax = 0
  <2>1. q1 = DemoteExitSolvable(q, i)
    BY <1>3
  <2> HIDE DEF q1
  <2>2. i \in ExitMembers(q, n)
    BY <1>3
  <2>3. /\ Consistent(q1, n)
        /\ InnerMembers(q1, n) = InnerMembers(q, n) \union {i}
        /\ ExitMembers(q1, n) = ExitMembers(q, n) \ {i}
    BY <2>1, <2>2, DemoteExitSolvableCorrect
  <2>4. q1.solvable_beg = b
    BY <2>1, <1>b, DemoteBoundaries
  <2>5. b >= b /\ ~(ax > 0) /\ at > 0
    BY <1>0, <1>3
  <2>6. IsMoved(q1, q, i, n, ax > 0, at > 0)
    BY ONLY <1>1, <1>b, <2>2, <2>3, <2>4, <2>5 DEF IsMoved
  <2> QED BY <2>6 DEF q1
<1>4. CASE exits /\ at # 0 /\ ax # 0
  <2>1. q1 = q
    BY <1>4
  <2> HIDE DEF q1
  <2>2. i \in ExitMembers(q, n)
    BY <1>4
  <2>5. b >= b /\ ax > 0 /\ at > 0
    BY <1>0, <1>4
  <2>6. IsMoved(q1, q, i, n, ax > 0, at > 0)
    BY ONLY Consistent(q, n), <1>1, <1>b, <2>1, <2>2, <2>5 DEF IsMoved
  <2> QED BY <2>6 DEF q1
<1>5. CASE ~exits /\ at = 0
  <2>1. q1 = DemoteUnsolvable(q, i)
    BY <1>5
  <2> HIDE DEF q1
  <2>5. b + 1 >= b /\ ~(ax > 0) /\ ~(at > 0)
    BY <1>0, <1>5
  <2>2. i \in InnerMembers(q, n) /\ i \notin ExitMembers(q, n)
    BY <1>1, <1>5, <2>5
  <2>3. /\ Consistent(q1, n)
        /\ InnerMembers(q1, n) = InnerMembers(q, n) \ {i}
        /\ ExitMembers(q1, n) = ExitMembers(q, n)
    BY <2>1, <2>2, DemoteUnsolvableCorrect
  <2>4. q1.solvable_beg = b + 1
    BY <2>1, <1>b, DemoteBoundaries
  <2>6. IsMoved(q1, q, i, n, ax > 0, at > 0)
    BY ONLY <1>1, <1>b, <2>2, <2>3, <2>4, <2>5 DEF IsMoved
  <2> QED BY <2>6 DEF q1
<1>6. CASE ~exits /\ at # 0
  <2>1. q1 = q
    BY <1>6
  <2> HIDE DEF q1
  <2>5. b >= b /\ at > 0
    BY <1>0, <1>6
  <2>2. i \in ExitMembers(q, n) <=> ax > 0
    BY <1>6
  <2>6. IsMoved(q1, q, i, n, ax > 0, at > 0)
    BY ONLY Consistent(q, n), <1>1, <1>b, <2>1, <2>2, <2>5 DEF IsMoved
  <2> QED BY <2>6 DEF q1
<1> QED BY <1>2, <1>3, <1>4, <1>5, <1>6
-----------------------------------------------------------------------------
(* The pairs of a stack and a partition that come about while a member is  *)
(* propagated to its parents.                                              *)
Spread(S, p, b, n) ==
  {pair \in Seq(StackInfos) \X Partitions(n) :
     /\ SameLinks(S, pair[1])
     /\ \A k \in 1..Len(S) : /\ Transitions(pair[1][k]) = Transitions(S[k])
                             /\ CounterOK(pair[1][k])
     /\ AgreesWith(pair[1], pair[2], b, n)
     /\ SeparatedIn(pair[1], pair[2], b, n)
     /\ pair[2].solvable_beg >= p.solvable_beg}

(* The definition, for a pair that is given by its parts.                  *)
LEMMA SpreadParts ==
  ASSUME NEW S, NEW p, NEW b, NEW n, NEW st, NEW q
  PROVE  <<st, q>> \in Spread(S, p, b, n) <=>
           /\ st \in Seq(StackInfos) /\ q \in Partitions(n)
           /\ SameLinks(S, st)
           /\ \A k \in 1..Len(S) : /\ Transitions(st[k]) = Transitions(S[k])
                                   /\ CounterOK(st[k])
           /\ AgreesWith(st, q, b, n)
           /\ SeparatedIn(st, q, b, n)
           /\ q.solvable_beg >= p.solvable_beg
<1> DEFINE pair == <<st, q>>
<1>1. pair[1] = st /\ pair[2] = q
  OBVIOUS
<1>2. pair \in Seq(StackInfos) \X Partitions(n) <=>
        st \in Seq(StackInfos) /\ q \in Partitions(n)
  OBVIOUS
<1> HIDE DEF pair
<1> QED BY <1>1, <1>2 DEF Spread, pair

(* One link.                                                               *)
LEMMA SpreadLink ==
  ASSUME IInv, pc = "demote", NEW n, n = Size, NEW b, b = Top.stackidx,
         NEW p, NEW st, NEW q, p.solvable_beg \in Int,
         <<st, q>> \in Spread(tarjan_stack, p, b, n),
         NEW x, IsInside(x), NEW k, k = x.parent_idx, NEW i, i = Local(k),
         NEW c, c = x.parent_transition_idx,
         ~IsUnsolvable(q, i), c \in ActiveFlags(st[k]),
         NEW q1, IsMoved(q1, q, i, n, Lost(st[k], c).active_exit_transitions > 0,
                                      Lost(st[k], c).active_transitions > 0)
  PROVE  <<[st EXCEPT ![k] = Lost(st[k], c)], q1>>
           \in Spread(tarjan_stack, p, b, n)
<1>0. pc \in AnalysisPCs
  BY DEF AnalysisPCs
<1>s. PICK S : S = tarjan_stack
  OBVIOUS
<1>l. PICK l : l = Len(S)
  OBVIOUS
<1>1. /\ st \in Seq(StackInfos) /\ SameLinks(S, st)
      /\ \A m \in 1..l : /\ Transitions(st[m]) = Transitions(S[m])
                         /\ CounterOK(st[m])
      /\ AgreesWith(st, q, b, n) /\ SeparatedIn(st, q, b, n)
      /\ q.solvable_beg >= p.solvable_beg /\ Consistent(q, n)
  BY <1>s, <1>l, SpreadParts DEF AgreesWith
<1>2. /\ n \in Nat \ {0} /\ n \in Nat /\ b \in Nat \ {0} /\ l = b + n - 1 /\ l \in Nat
      /\ k \in 1..l /\ k = b + i - 1 /\ i \in 1..n
      /\ \A t \in 1..n : b + t - 1 \in 1..l
  BY <1>0, <1>s, <1>l, SizeFacts DEF IsInside
<1>3. /\ Len(st) = l /\ DOMAIN st = 1..l
      /\ \A m \in 1..l : /\ st[m] \in StackInfos
                         /\ st[m].state = S[m].state
                         /\ st[m].parents = S[m].parents
                         /\ Len(st[m].transition_flags) = Len(S[m].transition_flags)
  BY <1>1, <1>l DEF SameLinks
<1>d. PICK d : d = Lost(st[k], c)
  OBVIOUS
<1>4. /\ d \in StackInfos /\ CounterOK(d)
      /\ d.state = st[k].state /\ d.parents = st[k].parents
      /\ Transitions(d) = Transitions(st[k])
      /\ Len(d.transition_flags) = Len(st[k].transition_flags)
      /\ ActiveFlags(d) = ActiveFlags(st[k]) \ {c}
  BY <1>1, <1>2, <1>3, <1>d, LostFacts
<1>t. PICK T : T = [st EXCEPT ![k] = d]
  OBVIOUS
<1>5. /\ T \in Seq(StackInfos) /\ Len(T) = l /\ T[k] = d
      /\ \A m \in 1..l : m # k => T[m] = st[m]
  BY <1>1, <1>2, <1>3, <1>4, <1>t
<1>6. SameLinks(S, T)
  <2>1. \A m \in 1..l : /\ T[m].state = S[m].state
                        /\ T[m].parents = S[m].parents
                        /\ Len(T[m].transition_flags) = Len(S[m].transition_flags)
    BY <1>2, <1>3, <1>4, <1>5
  <2> QED BY <2>1, <1>5, <1>l DEF SameLinks
<1>7. \A m \in 1..l : Transitions(T[m]) = Transitions(S[m]) /\ CounterOK(T[m])
  BY <1>1, <1>2, <1>4, <1>5
<1>8. /\ Consistent(q1, n) /\ q1.solvable_beg >= q.solvable_beg
      /\ \A t \in 1..n : t # i =>
           /\ t \in ExitMembers(q1, n) <=> t \in ExitMembers(q, n)
           /\ t \in InnerMembers(q1, n) <=> t \in InnerMembers(q, n)
      /\ i \in ExitMembers(q1, n) <=> d.active_exit_transitions > 0
      /\ i \in InnerMembers(q1, n) <=> /\ d.active_transitions > 0
                                       /\ ~(d.active_exit_transitions > 0)
  BY <1>d DEF IsMoved
<1>9. \A t \in 1..n : t # i => (IsUnsolvable(q1, t) <=> IsUnsolvable(q, t))
  BY <1>1, <1>2, <1>8, Regions
<1>10. ~IsUnsolvable(q1, i) <=> d.active_transitions > 0
  <2>1. d.active_exit_transitions > 0 => d.active_transitions > 0
    <3>1. /\ d.active_exit_transitions \in 0..d.active_transitions
          /\ d.active_transitions \in Nat
      BY <1>4, CounterBounds
    <3> QED BY <3>1
  <2>2. ~IsUnsolvable(q1, i) <=> (i \in InnerMembers(q1, n)
                                  \/ i \in ExitMembers(q1, n))
    BY <1>2, <1>8, Regions
  <2> QED BY <2>1, <2>2, <1>8
<1>11. AgreesWith(T, q1, b, n)
  <2>1. ASSUME NEW t \in 1..n
        PROVE  /\ q1.place[t] >= q1.exits_beg <=>
                    T[b + t - 1].active_exit_transitions > 0
               /\ ~IsUnsolvable(q1, t) => T[b + t - 1].active_transitions > 0
    <3>1. q1.place[t] >= q1.exits_beg <=> t \in ExitMembers(q1, n)
      BY <1>2, <1>8, Regions
    <3>2. CASE t = i
      BY <3>1, <3>2, <1>2, <1>5, <1>8, <1>10
    <3>3. CASE t # i
      <4>1. b + t - 1 \in 1..l /\ b + t - 1 # k
        BY <3>3, <1>2
      <4>2. T[b + t - 1] = st[b + t - 1]
        BY <4>1, <1>5
      <4>3. /\ q.place[t] >= q.exits_beg <=> t \in ExitMembers(q, n)
            /\ q.place[t] >= q.exits_beg <=>
                 st[b + t - 1].active_exit_transitions > 0
            /\ ~IsUnsolvable(q, t) => st[b + t - 1].active_transitions > 0
        <5>1. q.place[t] >= q.exits_beg <=> t \in ExitMembers(q, n)
          BY <1>1, <1>2, Regions
        <5> QED BY <5>1, <1>1 DEF AgreesWith
      <4>4. /\ t \in ExitMembers(q1, n) <=> t \in ExitMembers(q, n)
            /\ IsUnsolvable(q1, t) <=> IsUnsolvable(q, t)
        BY <3>3, <1>8, <1>9
      <4> QED BY <3>1, <4>2, <4>3, <4>4
    <3> QED BY <3>2, <3>3
  <2> QED BY <2>1, <1>8 DEF AgreesWith
<1>12. SeparatedIn(T, q1, b, n)
  <2> SUFFICES ASSUME NEW t \in 1..n, ~IsUnsolvable(q1, t),
                      NEW m \in DOMAIN T[b + t - 1].parents,
                      NEW y, y = T[b + t - 1].parents[m],
                      FlagsOf(T, y).is_active
               PROVE  /\ y.parent_idx - b + 1 \in 1..n
                      /\ ~IsUnsolvable(q1, y.parent_idx - b + 1)
    BY DEF SeparatedIn
  <2>h. PICK h : h = b + t - 1
    OBVIOUS
  <2>1. h \in 1..l
    BY <1>2, <2>h
  <2>2. T[h].parents = S[h].parents /\ st[h].parents = S[h].parents
    BY <2>1, <1>3, <1>6, <1>l DEF SameLinks
  <2>3. y = S[h].parents[m] /\ m \in DOMAIN S[h].parents /\ y = st[h].parents[m]
        /\ m \in DOMAIN st[h].parents
    BY <2>2, <2>h
  <2>4. IsInside(y)
    <3>1. Entry(tarjan_stack, t) = S[h]
      BY <1>s, <2>h DEF Entry
    <3> QED BY <3>1, <2>3, <1>0, LinkInside
  <2>j. PICK j : j = y.parent_idx - b + 1
    OBVIOUS
  <2>z. PICK z : z = y.parent_idx
    OBVIOUS
  <2>5. j \in 1..n /\ z \in 1..l /\ z = b + j - 1
    <3>1. j = Local(z)
      BY <2>j, <2>z DEF Local
    <3> QED BY <3>1, <2>4, <2>z, <1>0, <1>s, <1>l, SizeFacts DEF IsInside
  <2>6. ASSUME z = k
        PROVE  y.parent_transition_idx \in ActiveFlags(d)
    <3>1. y.parent_transition_idx \in 1..Len(S[k].transition_flags)
      BY <2>4, <2>6, <2>z, <1>s DEF IsInside, FlagCount
    <3>2. Len(S[k].transition_flags) = Len(d.transition_flags)
      BY <1>2, <1>3, <1>4
    <3>3. DOMAIN d.transition_flags = 1..Len(d.transition_flags)
      BY <1>4, FlagSets
    <3>4. FlagsOf(T, y) = d.transition_flags[y.parent_transition_idx]
      BY <2>6, <2>z, <1>5 DEF FlagsOf
    <3> QED BY <3>1, <3>2, <3>3, <3>4 DEF ActiveFlags
  <2>7. FlagsOf(st, y).is_active
    <3>1. CASE z = k
      <4>1. y.parent_transition_idx \in ActiveFlags(st[k])
        BY <3>1, <2>6, <1>4
      <4> QED BY <3>1, <4>1, <2>z DEF ActiveFlags, FlagsOf
    <3>2. CASE z # k
      <4>1. T[z] = st[z]
        BY <3>2, <2>5, <1>5
      <4> QED BY <4>1, <2>z DEF FlagsOf
    <3> QED BY <3>1, <3>2
  <2>8. ~IsUnsolvable(q, t)
    BY <1>9
  <2>9. ~IsUnsolvable(q, j)
    <3>1. \A m1 \in DOMAIN st[h].parents :
            LET w == st[h].parents[m1]
            IN  FlagsOf(st, w).is_active =>
                  /\ w.parent_idx - b + 1 \in 1..n
                  /\ ~IsUnsolvable(q, w.parent_idx - b + 1)
      BY <2>8, <2>h, <1>1 DEF SeparatedIn
    <3> QED BY <3>1, <2>3, <2>7, <2>j
  <2>10. CASE j = i
    <3>1. z = k
      BY <2>10, <2>5, <1>2
    <3>2. d.active_transitions > 0
      BY <3>1, <2>6, <1>4, CounterBounds
    <3> QED BY <3>2, <2>10, <2>5, <2>j, <1>10
  <2>11. CASE j # i
    BY <2>11, <2>5, <2>9, <2>j, <1>9
  <2> QED BY <2>10, <2>11
<1>13. q1.solvable_beg >= p.solvable_beg /\ q1 \in Partitions(n)
  <2>u. PICK u : u = q.solvable_beg
    OBVIOUS
  <2>v. PICK v : v = q1.solvable_beg
    OBVIOUS
  <2>w. PICK w : w = p.solvable_beg
    OBVIOUS
  <2>1. u \in 1..(n + 1) /\ v \in 1..(n + 1)
    BY <1>1, <1>2, <1>8, <2>u, <2>v, FieldTypes
  <2>2. w \in Int /\ v >= u /\ u >= w
    BY <1>1, <1>8, <2>u, <2>v, <2>w
  <2>3. v >= w
    BY ONLY <2>1, <2>2, <1>2
  <2> QED BY <2>3, <2>v, <2>w, <1>8 DEF Consistent, Partitions
<1>14. <<T, q1>> \in Spread(S, p, b, n)
  BY <1>5, <1>6, <1>7, <1>11, <1>12, <1>13, <1>l, SpreadParts
<1> QED BY <1>14, <1>s, <1>t, <1>d
-----------------------------------------------------------------------------
(* A parent link is followed from an unsolvable member.                    *)
RegionAfter(q, i, exits, ax, at) ==
  IF exits
  THEN CASE at = 0 -> DemoteExitUnsolvable(q, i)
         [] at # 0 /\ ax = 0 -> DemoteExitSolvable(q, i)
         [] OTHER -> q
  ELSE IF at = 0 THEN DemoteUnsolvable(q, i) ELSE q

(* The two outcomes of a link.                                             *)
LEMMA DeactivatedForm ==
  ASSUME NEW st, NEW q, NEW x, NEW k, k = x.parent_idx, NEW i, i = Local(k),
         NEW c, c = x.parent_transition_idx, NEW F, F = st[k].transition_flags[c]
  PROVE  Deactivated(<<st, q>>, x) =
           IF IsUnsolvable(q, i) \/ ~F.is_active THEN <<st, q>>
           ELSE << [st EXCEPT ![k] = Lost(st[k], c)],
                   RegionAfter(q, i, F.is_active_exiting,
                               Lost(st[k], c).active_exit_transitions,
                               Lost(st[k], c).active_transitions) >>
<1>p. PICK pair : pair = <<st, q>>
  OBVIOUS
<1>1. pair[1] = st /\ pair[2] = q
  BY <1>p
<1>2. FlagsOf(st, x) = F
  BY DEF FlagsOf
<1>3. Deactivated(pair, x) =
           IF IsUnsolvable(q, i) \/ ~F.is_active THEN pair
           ELSE << [st EXCEPT ![k] = Lost(st[k], c)],
                   RegionAfter(q, i, F.is_active_exiting,
                               Lost(st[k], c).active_exit_transitions,
                               Lost(st[k], c).active_transitions) >>
  BY <1>1, <1>2 DEF Deactivated, Lost, RegionAfter
<1> QED BY <1>3, <1>p

(* One link keeps the pair in agreement.                                   *)
LEMMA SpreadStep ==
  ASSUME IInv, pc = "demote", NEW n, n = Size, NEW b, b = Top.stackidx,
         NEW p, p.solvable_beg \in Int,
         NEW pair \in Spread(tarjan_stack, p, b, n), NEW x, IsInside(x)
  PROVE  Deactivated(pair, x) \in Spread(tarjan_stack, p, b, n)
<1>0. pc \in AnalysisPCs
  BY DEF AnalysisPCs
<1>s. PICK st : st = pair[1]
  OBVIOUS
<1>q. PICK q : q = pair[2]
  OBVIOUS
<1>1. pair = <<st, q>> /\ <<st, q>> \in Spread(tarjan_stack, p, b, n)
  <2>1. pair \in Seq(StackInfos) \X Partitions(n)
    BY DEF Spread
  <2>2. pair = <<pair[1], pair[2]>>
    BY <2>1
  <2> QED BY <2>2, <1>s, <1>q
<1>2. /\ st \in Seq(StackInfos) /\ SameLinks(tarjan_stack, st)
      /\ \A m \in 1..Len(tarjan_stack) : CounterOK(st[m])
      /\ AgreesWith(st, q, b, n) /\ Consistent(q, n)
  BY <1>1, SpreadParts DEF AgreesWith
<1>k. PICK k : k = x.parent_idx
  OBVIOUS
<1>i. PICK i : i = Local(k)
  OBVIOUS
<1>c. PICK c : c = x.parent_transition_idx
  OBVIOUS
<1>3. /\ n \in Nat /\ b \in Nat \ {0} /\ k \in 1..Len(tarjan_stack)
      /\ k = b + i - 1 /\ i \in 1..n
      /\ c \in 1..Len(tarjan_stack[k].transition_flags)
  BY <1>0, <1>k, <1>i, <1>c, SizeFacts DEF IsInside, FlagCount
<1>e. PICK e : e = st[k]
  OBVIOUS
<1>4. /\ e \in StackInfos /\ CounterOK(e)
      /\ Len(e.transition_flags) = Len(tarjan_stack[k].transition_flags)
  BY <1>2, <1>3, <1>e DEF SameLinks
<1>5. /\ c \in DOMAIN e.transition_flags
      /\ c \in ActiveFlags(e) <=> e.transition_flags[c].is_active
      /\ c \in ExitFlags(e) <=> e.transition_flags[c].is_active_exiting
  BY <1>3, <1>4, FlagSets DEF ActiveFlags, ExitFlags
<1>d. PICK d : d = Lost(e, c)
  OBVIOUS
<1>g. PICK exits : exits = e.transition_flags[c].is_active_exiting
  OBVIOUS
<1>6. exits \in BOOLEAN
  <2>1. e.transition_flags \in Seq(Flags)
    BY <1>4, EntryParts
  <2>2. e.transition_flags[c] \in Flags
    BY <2>1, <1>5
  <2> QED BY <2>2, <1>g DEF Flags
<1>7. Deactivated(pair, x) =
        IF IsUnsolvable(q, i) \/ ~e.transition_flags[c].is_active THEN <<st, q>>
        ELSE << [st EXCEPT ![k] = d],
                RegionAfter(q, i, exits, d.active_exit_transitions,
                            d.active_transitions) >>
  BY <1>1, <1>k, <1>i, <1>c, <1>e, <1>d, <1>g, DeactivatedForm
<1>8. CASE IsUnsolvable(q, i) \/ ~e.transition_flags[c].is_active
  BY <1>1, <1>7, <1>8
<1>9. CASE ~IsUnsolvable(q, i) /\ e.transition_flags[c].is_active
  <2>1. c \in ActiveFlags(e)
    BY <1>5, <1>9
  <2>2. /\ d \in StackInfos /\ CounterOK(d)
        /\ d.active_exit_transitions =
             IF c \in ExitFlags(e) THEN e.active_exit_transitions - 1
             ELSE e.active_exit_transitions
    BY <2>1, <1>4, <1>d, LostFacts
  <2>x. PICK ax : ax = d.active_exit_transitions
    OBVIOUS
  <2>t. PICK at : at = d.active_transitions
    OBVIOUS
  <2>3. ax \in Nat /\ at \in Nat /\ ax <= at
    <3>1. ax \in 0..at /\ at \in Nat
      BY <2>2, <2>x, <2>t, CounterBounds
    <3> QED BY <3>1
  <2>4. i \in ExitMembers(q, n) <=> e.active_exit_transitions > 0
    <3>1. q.place[i] >= q.exits_beg <=> st[b + i - 1].active_exit_transitions > 0
      BY <1>2, <1>3 DEF AgreesWith
    <3>2. q.place[i] >= q.exits_beg <=> i \in ExitMembers(q, n)
      BY <1>2, <1>3, Regions
    <3>3. b + i - 1 = k
      BY <1>3
    <3> QED BY <3>1, <3>2, <3>3, <1>e
  <2>5. exits => i \in ExitMembers(q, n)
    <3>1. ASSUME exits PROVE e.active_exit_transitions > 0
      BY <3>1, <1>4, <1>5, <1>g, CounterBounds
    <3> QED BY <3>1, <2>4
  <2>6. ~exits => (i \in ExitMembers(q, n) <=> ax > 0)
    BY <2>2, <2>4, <2>x, <1>5, <1>g
  <2>r. PICK q1 : q1 = RegionAfter(q, i, exits, ax, at)
    OBVIOUS
  <2>7. IsMoved(q1, q, i, n, ax > 0, at > 0)
    <3>1. n \in Nat /\ Consistent(q, n) /\ i \in 1..n /\ ~IsUnsolvable(q, i)
      BY <1>2, <1>3, <1>9
    <3> QED BY ONLY <3>1, <1>6, <2>3, <2>5, <2>6, <2>r, MovedFacts DEF RegionAfter
  <2>8. <<[st EXCEPT ![k] = d], q1>> \in Spread(tarjan_stack, p, b, n)
    BY <1>1, <1>k, <1>i, <1>c, <1>d, <1>e, <1>9, <2>1, <2>7, <2>x, <2>t, SpreadLink
  <2>9. Deactivated(pair, x) = <<[st EXCEPT ![k] = d], q1>>
    BY <1>7, <1>9, <2>x, <2>t, <2>r
  <2> QED BY <2>8, <2>9
<1> QED BY <1>8, <1>9

(* The pair before the first link.                                         *)
LEMMA SpreadFirst ==
  ASSUME IInv, pc = "demote", NEW n, n = Size, NEW b, b = Top.stackidx
  PROVE  /\ <<tarjan_stack, partition>> \in Spread(tarjan_stack, partition, b, n)
         /\ partition.solvable_beg \in Int /\ Consistent(partition, n)
<1>0. pc \in AnalysisPCs
  BY DEF AnalysisPCs
<1>p. PICK p : p = partition
  OBVIOUS
<1>1. AgreesWith(tarjan_stack, p, b, n) /\ SeparatedIn(tarjan_stack, p, b, n)
  BY <1>p, AnalysisNow
<1>2. Consistent(p, n) /\ n \in Nat
  BY <1>0, <1>1, SizeFacts DEF AgreesWith
<1>3. p.solvable_beg \in Int
  <2>1. p.solvable_beg \in 1..(n + 1)
    BY <1>2, FieldTypes
  <2> QED BY <2>1, <1>2
<1>4. p.solvable_beg >= p.solvable_beg
  BY <1>3
<1>5. p \in Partitions(n)
  BY <1>2 DEF Consistent, Partitions
<1>6. tarjan_stack \in Seq(StackInfos) /\ SameLinks(tarjan_stack, tarjan_stack)
  BY <1>0, AnalysisFacts DEF SameLinks
<1>7. \A k \in 1..Len(tarjan_stack) : CounterOK(tarjan_stack[k])
  <2>1. CountersOK
    BY DEF IInv
  <2>2. DOMAIN tarjan_stack = 1..Len(tarjan_stack)
    BY <1>6
  <2> QED BY <2>1, <2>2 DEF CountersOK, CounterOK
<1>8. <<tarjan_stack, p>> \in Spread(tarjan_stack, p, b, n)
  BY <1>1, <1>4, <1>5, <1>6, <1>7, SpreadParts
<1> QED BY <1>2, <1>3, <1>8, <1>p

(* The pair after the last.                                                *)
LEMMA SpreadRound ==
  ASSUME IInv, pc = "demote", NEW n, n = Size, NEW b, b = Top.stackidx,
         NEW i \in 1..n, NEW links, links = Entry(tarjan_stack, i).parents
  PROVE  Folded(Deactivated, <<tarjan_stack, partition>>, links)
           \in Spread(tarjan_stack, partition, b, n)
<1>0. pc \in AnalysisPCs
  BY DEF AnalysisPCs
<1>l. PICK l : l = Len(links)
  OBVIOUS
<1>x. PICK X : X = Spread(tarjan_stack, partition, b, n)
  OBVIOUS
<1>y. PICK base : base = <<tarjan_stack, partition>>
  OBVIOUS
<1>1. l \in Nat /\ DOMAIN links = 1..l
  <2>1. links \in Seq(ParentInfos)
    BY <1>0, EntryFacts, EntryParts
  <2> QED BY <2>1, <1>l
<1>2. \A m \in 1..l : IsInside(links[m])
  BY <1>0, <1>1, LinkInside
<1>3. base \in X
  BY <1>x, <1>y, SpreadFirst
<1>4. \A m \in 1..l : \A pair \in X : Deactivated(pair, links[m]) \in X
  <2>p. PICK p : p = partition
    OBVIOUS
  <2>1. p.solvable_beg \in Int /\ X = Spread(tarjan_stack, p, b, n)
    BY <1>x, <2>p, SpreadFirst
  <2> TAKE m \in 1..l
  <2> TAKE pair \in X
  <2>z. PICK z : z = links[m]
    OBVIOUS
  <2>2. IsInside(z)
    BY <1>2, <2>z
  <2>3. Deactivated(pair, z) \in X
    BY <2>1, <2>2, SpreadStep
  <2> QED BY <2>3, <2>z
<1> DEFINE XX == [k \in 0..l |-> X]
<1>5. /\ XX[0] = X /\ XX[l] = X
      /\ \A m \in 1..l : XX[m] = X /\ XX[m - 1] = X
  <2>1. 0 \in 0..l /\ l \in 0..l /\ \A m \in 1..l : m \in 0..l /\ m - 1 \in 0..l
    BY <1>1
  <2> QED BY <2>1
<1> HIDE DEF XX
<1>6. \A m \in 1..l : \A y \in XX[m - 1] : Deactivated(y, links[m]) \in XX[m]
  BY <1>4, <1>5
<1>7. DeactivatedRun(l, base, links)[l] \in XX[l]
  <2>1. l \in Nat /\ base \in XX[0]
    BY <1>1, <1>3, <1>5
  <2> QED BY ONLY <2>1, <1>6, DeactivatedFold
<1>8. Folded(Deactivated, base, links) = DeactivatedRun(l, base, links)[l]
  BY <1>l DEF Folded, DeactivatedRun
<1> QED BY <1>5, <1>7, <1>8, <1>x, <1>y

(* The second loop of the fixpoint.                                        *)
LEMMA DemoteParentsStep == ASSUME IInv, DemoteParents PROVE IInv'
<1>p. PICK p : p = partition
  OBVIOUS
<1>i. PICK i : i = p.order[unsolv_it]
  OBVIOUS
<1>e. PICK e : e = Entry(tarjan_stack, i)
  OBVIOUS
<1>a. PICK after : after = Folded(Deactivated, <<tarjan_stack, p>>, e.parents)
  OBVIOUS
<1>1. /\ pc = "demote" /\ value' = [value EXCEPT ![e.state] = Infinite]
      /\ tarjan_stack' = after[1] /\ partition' = after[2]
      /\ pc' = IF unsolv_it + 1 = after[2].solvable_beg THEN "collect" ELSE "demote"
      /\ unsolv_it' = unsolv_it + 1
      /\ UNCHANGED <<dfs_vars, explored, ecd_vars, sweep>>
  BY <1>p, <1>i, <1>e, <1>a DEF DemoteParents
<1>2. pc \in AnalysisPCs /\ pc' \in AnalysisPCs
  BY <1>1 DEF AnalysisPCs
<1>3. /\ ~Stopped /\ ValuesOK /\ StacksOK /\ StackPart
      /\ tarjan_stack \in Seq(StackInfos)
  BY <1>2, AnalysisFacts
<1>n. PICK n : n = Size
  OBVIOUS
<1>b. PICK b : b = Top.stackidx
  OBVIOUS
<1>4. /\ n \in Nat \ {0} /\ n \in Nat /\ b \in Nat \ {0}
      /\ DOMAIN tarjan_stack = 1..Len(tarjan_stack)
  BY <1>2, <1>n, <1>b, SizeFacts
<1>u. PICK u : u = unsolv_it
  OBVIOUS
<1>c. PICK c : c = p.solvable_beg
  OBVIOUS
<1>5. u \in 1..(c - 1) /\ c \in 1..(n + 1) /\ i \in 1..n
  <2>1. u \in 1..(c - 1)
    BY <1>1, <1>p, <1>u, <1>c, AnalysisNow
  <2>2. Consistent(p, n)
    BY <1>1, <1>p, <1>n, SpreadFirst
  <2>3. c \in 1..(n + 1) /\ p.order \in [1..n -> 1..n]
    BY <1>4, <2>2, <1>c, FieldTypes
  <2>4. u \in 1..n
    BY <1>4, <2>1, <2>3
  <2> QED BY <2>1, <2>3, <2>4, <1>i, <1>u
<1>6. after \in Spread(tarjan_stack, p, b, n)
  BY <1>1, <1>5, <1>a, <1>b, <1>e, <1>n, <1>p, SpreadRound
<1>s. PICK st : st = after[1]
  OBVIOUS
<1>q. PICK q : q = after[2]
  OBVIOUS
<1>7. <<st, q>> \in Spread(tarjan_stack, p, b, n)
  <2>1. after \in Seq(StackInfos) \X Partitions(n)
    BY <1>6 DEF Spread
  <2>2. after = <<after[1], after[2]>>
    BY <2>1
  <2> QED BY <2>2, <1>6, <1>s, <1>q
<1>8. /\ st \in Seq(StackInfos) /\ SameLinks(tarjan_stack, st)
      /\ \A k \in 1..Len(tarjan_stack) :
           Transitions(st[k]) = Transitions(tarjan_stack[k]) /\ CounterOK(st[k])
      /\ AgreesWith(st, q, b, n) /\ SeparatedIn(st, q, b, n)
      /\ Consistent(q, n) /\ q.solvable_beg >= c
  BY <1>7, <1>c, SpreadParts DEF AgreesWith
<1>9. tarjan_stack' = st /\ partition' = q
  BY <1>1, <1>s, <1>q
<1>10. pc' = "demote" => unsolv_it' \in 1..(partition'.solvable_beg - 1)
  <2>d. PICK d : d = q.solvable_beg
    OBVIOUS
  <2>1. d \in 1..(n + 1)
    BY <1>4, <1>8, <2>d, FieldTypes
  <2>2. d >= c
    BY <1>8, <2>d
  <2>3. u + 1 # d => u + 1 \in 1..(d - 1)
    BY ONLY <2>1, <2>2, <1>4, <1>5
  <2> QED BY <2>3, <2>d, <1>1, <1>9, <1>u
<1>11. AnalysisOK'
  <2>1. UNCHANGED dfs_stack /\ Len(tarjan_stack') = Len(tarjan_stack)
    BY <1>1, <1>8, <1>9 DEF dfs_vars, SameLinks
  <2>2. /\ AgreesWith(tarjan_stack', partition', Top.stackidx, Size)
        /\ SeparatedIn(tarjan_stack', partition', Top.stackidx, Size)
    BY <1>8, <1>9, <1>n, <1>b
  <2> QED BY ONLY <1>10, <2>1, <2>2, AnalysisThen
<1>12. /\ value' \in [State -> Int]
       /\ sweep' \in [next : Nat, converged : BOOLEAN]
  <2>1. Infinite \in Int
    BY ConstantTypes
  <2> QED BY <2>1, <1>1, <1>3 DEF ValuesOK
<1>13. pc' \in SweepPCs => sweep'.next \in Top.stackidx..(Len(tarjan_stack') + 1)
  <2>1. ControlOK /\ pc \in SweepPCs
    BY <1>1 DEF IInv, SweepPCs
  <2>2. sweep.next \in Top.stackidx..(Len(tarjan_stack) + 1)
    BY <2>1 DEF ControlOK
  <2>3. Len(tarjan_stack') = Len(tarjan_stack)
    BY <1>8, <1>9 DEF SameLinks
  <2> QED BY <2>2, <2>3, <1>1
<1>14. StackPart'
  <2>1. FramesOK' /\ SuccessorsOK' /\ LinksOK'
    <3>1. \A k \in DOMAIN tarjan_stack : \A r \in Transitions(tarjan_stack'[k]) :
            /\ SccSuccessors(r) # {}
            /\ \A t \in SccSuccessors(r) : IsNear(k, t)
      <4>1. SuccessorsOK
        BY <1>3 DEF StackPart
      <4>2. \A k \in DOMAIN tarjan_stack :
              Transitions(tarjan_stack'[k]) = Transitions(tarjan_stack[k])
        BY <1>4, <1>8, <1>9
      <4> QED BY <4>1, <4>2, <1>3 DEF SuccessorsOK
    <3>2. /\ FramesOK /\ LinksOK /\ SuccessorsOK /\ UNCHANGED dfs_stack
          /\ tarjan_stack' \in Seq(StackInfos)
          /\ SameLinks(tarjan_stack, tarjan_stack')
      BY <1>1, <1>3, <1>8, <1>9 DEF StackPart, dfs_vars
    <3> QED BY ONLY <3>1, <3>2, <1>3, EntriesChanged
  <2>2. CountersOK'
    <3>1. DOMAIN tarjan_stack' = 1..Len(tarjan_stack)
      BY <1>8, <1>9 DEF SameLinks
    <3>2. \A k \in DOMAIN tarjan_stack' : CounterOK(tarjan_stack'[k])
      BY <3>1, <1>8, <1>9
    <3>3. CountersOK' <=> \A k \in DOMAIN tarjan_stack' : CounterOK(tarjan_stack'[k])
      BY DEF CountersOK, CounterOK, ActiveFlags, ExitFlags
    <3> QED BY <3>2, <3>3
  <2> QED BY <2>1, <2>2 DEF StackPart
<1>15. SameLinks(tarjan_stack, tarjan_stack') /\ tarjan_stack' \in Seq(StackInfos)
  BY <1>8, <1>9
<1> QED BY <1>1, <1>2, <1>11, <1>12, <1>13, <1>14, <1>15, AnalysisKeeps
-----------------------------------------------------------------------------
(* The invariant.                                                          *)

(* Init establishes the invariant.                                         *)
LEMMA InitIInv == ASSUME Init PROVE IInv
<1>1. /\ pc = "solve" /\ explored = {} /\ initial_state \in InitialStates
      /\ dfs_stack = <<>> /\ tarjan_stack = <<>> /\ scc = <<>> /\ scc_queue = <<>>
      /\ ecd_frames = <<>> /\ ecd_stack = <<>>
      /\ value = [s \in State |-> 0] /\ sweep = [next |-> 0, converged |-> TRUE]
  BY DEF Init
<1>2. DOMAIN <<>> = {}
  OBVIOUS
<1>3. ValuesOK
  BY <1>1 DEF ValuesOK, PCs
<1>4. StacksOK
  BY <1>1 DEF StacksOK
<1>5. FramesOK
  BY <1>1, <1>2 DEF FramesOK
<1>6. ControlOK
  BY <1>1, <1>2 DEF ControlOK, Chained, ECDPCs, AnalysisPCs, SweepPCs
<1>7. Indexed
  BY <1>1, <1>2 DEF Indexed
<1>8. SuccessorsOK
  BY <1>1, <1>2 DEF SuccessorsOK
<1>9. LinksOK
  BY <1>1, <1>2 DEF LinksOK
<1>10. CountersOK
  BY <1>1, <1>2 DEF CountersOK
<1>11. SecondSearchOK
  BY <1>1, <1>2 DEF SecondSearchOK, ECDPCs
<1>12. AnalysisOK
  BY <1>1 DEF AnalysisOK, PartitionAgrees
<1> QED
  BY <1>3, <1>4, <1>5, <1>6, <1>7, <1>8, <1>9, <1>10, <1>11, <1>12 DEF IInv

(* Every step preserves it.                                                *)
LEMMA NextIInv == ASSUME IInv, [Next]_vars PROVE IInv'
<1>1. CASE Solve
  BY <1>1, SolveStep
<1>2. CASE BeginTransition
  BY <1>2, BeginTransitionStep
<1>3. CASE NewSuccessor
  BY <1>3, NewSuccessorStep
<1>4. CASE KnownSuccessor
  BY <1>4, KnownSuccessorStep
<1>5. CASE EndTransition
  BY <1>5, EndTransitionStep
<1>6. CASE Backtrack
  BY <1>6, BacktrackStep
<1>7. CASE SccFoundUniform
  BY <1>7, SccFoundUniformStep
<1>8. CASE SccFoundSingle
  BY <1>8, SccFoundSingleStep
<1>9. CASE SccFoundTrap
  BY <1>9, SccFoundTrapStep
<1>10. CASE SccFoundMixed
  BY <1>10, SccFoundMixedStep
<1>11. CASE EnterRootECD
  BY <1>11, EnterRootECDStep
<1>12. CASE EndRootsECD
  BY <1>12, EndRootsECDStep
<1>13. CASE BeginTransitionECD
  BY <1>13, BeginTransitionECDStep
<1>14. CASE NewSuccessorECD
  BY <1>14, NewSuccessorECDStep
<1>15. CASE KnownSuccessorECD
  BY <1>15, KnownSuccessorECDStep
<1>16. CASE EndTransitionECD
  BY <1>16, EndTransitionECDStep
<1>17. CASE BacktrackECD
  BY <1>17, BacktrackECDStep
<1>18. CASE SccFoundECD
  BY <1>18, SccFoundECDStep
<1>19. CASE PartitionMembers
  BY <1>19, PartitionMembersStep
<1>20. CASE CollectSolvable
  BY <1>20, CollectSolvableStep
<1>21. CASE DemoteParents
  BY <1>21, DemoteParentsStep
<1>22. CASE UpdateValue
  BY <1>22, UpdateValueStep
<1>23. CASE SweepAgain
  BY <1>23, SweepAgainStep
<1>24. CASE EndSweeps
  BY <1>24, EndSweepsStep
<1>25. CASE Timeout
  BY <1>25, TimeoutStep
<1>26. CASE UNCHANGED vars
  BY <1>26, Stutter
<1>27. Stop => UNCHANGED vars
  BY DEF Stop
<1> QED
  BY <1>1, <1>2, <1>3, <1>4, <1>5, <1>6, <1>7, <1>8, <1>9, <1>10, <1>11, <1>12,
     <1>13, <1>14, <1>15, <1>16, <1>17, <1>18, <1>19, <1>20, <1>21, <1>22,
     <1>23, <1>24, <1>25, <1>26, <1>27 DEF Next, Step

(* The inductive invariant of the algorithm holds in every reachable state.*)
THEOREM TATVIInvariant == Spec => []IInv
<1>1. Init => IInv
  BY InitIInv
<1>2. IInv /\ [Next]_vars => IInv'
  BY NextIInv
<1> QED BY <1>1, <1>2, PTL DEF Spec

(* It contains the types.                                                  *)
LEMMA InvariantTypes == ASSUME IInv PROVE TypeOK
<1>1. /\ ValuesOK /\ StacksOK /\ FramesOK /\ SuccessorsOK /\ LinksOK
      /\ CountersOK /\ SecondSearchOK
  BY DEF IInv
<1>2. ASSUME NEW i \in DOMAIN dfs_stack
      PROVE  /\ dfs_stack[i].lowlink \in 1..dfs_stack[i].stackidx
             /\ dfs_stack[i].stackidx \in 1..Len(tarjan_stack)
             /\ dfs_stack[i].state = tarjan_stack[dfs_stack[i].stackidx].state
             /\ dfs_stack[i].successors \subseteq State
  <2>1. tarjan_stack \in Seq(StackInfos)
    BY <1>1 DEF StacksOK
  <2>2. DOMAIN tarjan_stack = 1..Len(tarjan_stack)
    BY <2>1
  <2>3. dfs_stack[i] \in ExplorationInfos
    <3>1. dfs_stack \in Seq(ExplorationInfos)
      BY <1>1 DEF StacksOK
    <3> QED BY <3>1
  <2>4. dfs_stack[i].successors \subseteq State
    BY <2>3 DEF ExplorationInfos
  <2> QED BY <1>1, <2>2, <2>4 DEF FramesOK
<1>3. ASSUME NEW i \in DOMAIN tarjan_stack, NEW e, e = tarjan_stack[i]
      PROVE  /\ \A q \in e.non_ec_transitions \union e.ec_transitions :
                  SccSuccessors(q) \in (SUBSET State) \ {{}}
             /\ \A x \in ToSet(e.parents) : x.parent_idx \in DOMAIN tarjan_stack
             /\ e.active_exit_transitions \in 0..e.active_transitions
  <2>1. e \in StackInfos
    <3>1. tarjan_stack \in Seq(StackInfos)
      BY <1>1 DEF StacksOK
    <3> QED BY <3>1, <1>3
  <2>2. ASSUME NEW q \in e.non_ec_transitions \union e.ec_transitions
        PROVE  SccSuccessors(q) \in (SUBSET State) \ {{}}
    <3>1. q \in QValueInfos
      BY <2>1, EntryParts DEF TransitionSets
    <3>2. SccSuccessors(q) \subseteq State
      BY <3>1, QValueInfoParts
    <3>3. SccSuccessors(q) # {}
      BY <1>1, <1>3 DEF SuccessorsOK, Transitions
    <3> QED BY <3>2, <3>3
  <2>3. \A x \in ToSet(e.parents) : x.parent_idx \in DOMAIN tarjan_stack
    BY <1>1, <1>3 DEF LinksOK, ToSet
  <2>4. CounterOK(e)
    BY <1>1, <1>3 DEF CountersOK, CounterOK
  <2>5. e.active_exit_transitions \in 0..e.active_transitions
    BY <2>1, <2>4, CounterBounds
  <2> QED BY <2>2, <2>3, <2>5
<1>4. \A i \in DOMAIN ecd_frames :
        /\ ecd_frames[i].lowlink \in 1..ecd_frames[i].stackidx
        /\ ecd_frames[i].stackidx \in 1..Len(ecd_stack)
  BY <1>1 DEF SecondSearchOK
<1> QED BY <1>1, <1>2, <1>3, <1>4 DEF TypeOK, ValuesOK

(* The variables of the algorithm keep their types, and its stacks fit     *)
(* together: a frame and its entry are of the same state, no parent link   *)
(* points off the stack, no transition is without open successors, and no  *)
(* entry counts more exits than transitions (TATopologicalValueIteration). *)
THEOREM TATVITypes == Spec => []TypeOK
<1>1. IInv => TypeOK
  BY InvariantTypes
<1> QED BY <1>1, TATVIInvariant, PTL

(* While solvability is analysed the regions of the partition agree with   *)
(* the counters of the entries, through all swaps: the exits are the       *)
(* members with active exit transitions, and every other solvable member   *)
(* has an active transition (push_successor and the propagation loops of   *)
(* ta_topological_value_iteration_impl.h).                                 *)
THEOREM TATVIPartition == Spec => []PartitionAgrees
<1>1. IInv => PartitionAgrees
  BY DEF IInv, AnalysisOK
<1> QED BY <1>1, TATVIInvariant, PTL
=============================================================================
