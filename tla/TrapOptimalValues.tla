-------------------------- MODULE TrapOptimalValues --------------------------
(***************************************************************************)
(* The optimal values of a decision process with traps: end components in  *)
(* which one can stay for ever at no cost.  The Bellman equations have     *)
(* other solutions there, with lower values inside of a trap than all the  *)
(* ways to leave it have.  The optimal values are the solution that is     *)
(* attained by a policy that ends.                                         *)
(***************************************************************************)
EXTENDS OptimalValues

OptimalBounds == [s \in State |-> Point(OptimalValue[s])]

(* The states with a greedy action that may lead to t.                     *)
GreedyParents ==
  [t \in State |-> {s \in State : \E a \in Greedy(OptimalBounds, s) :
                                  t \in NonSource(s, a)}]

(* Ends[n]: from these states some greedy actions lead to termination in n *)
(* steps with positive probability.                                        *)
Ends[n \in Nat] ==
  {s \in State : OptimalValue[s] = TerminationCost[s]} \union
  (IF n = 0 THEN {}
   ELSE UNION {GreedyParents[t] : t \in Ends[n - 1]})

(* Then those actions lead there for certain.                              *)
ASSUME AttainedAssumption ==
  {s \in State : OptimalValue[s] # Infinite} \subseteq Ends[Cardinality(State)]
=============================================================================
