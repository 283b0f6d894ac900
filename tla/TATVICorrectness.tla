-------------------------- MODULE TATVICorrectness --------------------------
(***************************************************************************)
(* What trap-aware topological value iteration achieves, stated against    *)
(* the optimal values.                                                     *)
(***************************************************************************)
EXTENDS TATopologicalValueIteration, TrapOptimalValues

(* "Computes the full optimal value function": a closed state has its      *)
(* optimal value for good, traps or not.                                   *)
ClosedOptimal ==
  \A s \in explored : ~OnStack(s) => value[s] = OptimalValue[s]
=============================================================================
