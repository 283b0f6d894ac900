------------------------ MODULE SolvabilityPartition ------------------------
(***************************************************************************)
(* The class Partition in scc_found of trap-aware topological value        *)
(* iteration.  The members 1..n of a component are kept in one array,      *)
(* sorted into three regions by two boundaries, together with the inverse  *)
(* of the array:                                                           *)
(*                                                                         *)
(*    unsolvable  | solvable, no exit  | solvable, with an exit            *)
(*              solvable_beg        exits_beg                              *)
(*                                                                         *)
(* A member changes its region by being swapped to the boundary, which is  *)
(* then moved past it.  Iterators are positions from 1 to n + 1.           *)
(***************************************************************************)
EXTENDS Integers

(* Partition(size): every member is an exit.                               *)
NewPartition(n) ==
  [order |-> [i \in 1..n |-> i],         \* partition
   place |-> [i \in 1..n |-> i],         \* scc_index_to_local
   solvable_beg |-> 1,
   exits_beg |-> 1]

(* std::swap of two entries of an array.                                   *)
Swapped(array, x, y) == [array EXCEPT ![x] = array[y], ![y] = array[x]]

(* Exchange s with the member at position i, in both arrays.               *)
BroughtTo(p, i, s) ==
  [p EXCEPT !.place = Swapped(p.place, p.order[i], s),
            !.order = Swapped(p.order, i, p.place[s])]

(* From the second region to the first, and from the third to the second.  *)
DemoteUnsolvable(p, s) ==
  [BroughtTo(p, p.solvable_beg, s) EXCEPT !.solvable_beg = @ + 1]

DemoteExitSolvable(p, s) ==
  [BroughtTo(p, p.exits_beg, s) EXCEPT !.exits_beg = @ + 1]

(* Mutant of DemoteExitUnsolvable: both boundaries are passed with one     *)
(* exchange of the array and two of its inverse.                           *)
DemoteExitAtOnce(p, s) ==
  LET x == p.order[p.exits_beg]
      y == p.order[p.solvable_beg]
  IN  [order |-> Swapped(Swapped(p.order, p.exits_beg, p.place[s]),
                         p.solvable_beg, p.exits_beg),
       place |-> Swapped(Swapped(p.place, x, s), y, x),
       solvable_beg |-> p.solvable_beg + 1,
       exits_beg |-> p.exits_beg + 1]

(* From the third region to the first.                                     *)
DemoteExitUnsolvable(p, s) == DemoteUnsolvable(DemoteExitSolvable(p, s), s)

IsUnsolvable(p, s) == p.place[s] < p.solvable_beg

(* Back from the first region to the second.                               *)
PromoteSolvable(p, s) ==
  IF IsUnsolvable(p, s)
  THEN [BroughtTo(p, p.solvable_beg - 1, s) EXCEPT !.solvable_beg = @ - 1]
  ELSE p

MarkNonExitStatesUnsolvable(p) == [p EXCEPT !.solvable_beg = p.exits_beg]

HasSolvable(p, n) == p.solvable_beg <= n

-----------------------------------------------------------------------------

(* What the operations rely on: a permutation of the members, its inverse, *)
(* and boundaries in order.                                                *)
Consistent(p, n) ==
  /\ p \in [order : [1..n -> 1..n], place : [1..n -> 1..n],
            solvable_beg : 1..(n + 1), exits_beg : 1..(n + 1)]
  /\ \A i \in 1..n : p.place[p.order[i]] = i
  /\ \A s \in 1..n : p.order[p.place[s]] = s
  /\ p.solvable_beg <= p.exits_beg

(* The members in the second and in the third region.                      *)
InnerMembers(p, n) ==
  {s \in 1..n : p.solvable_beg <= p.place[s] /\ p.place[s] < p.exits_beg}
ExitMembers(p, n) == {s \in 1..n : p.exits_beg <= p.place[s]}
=============================================================================
