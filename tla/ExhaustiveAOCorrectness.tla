---------------------- MODULE ExhaustiveAOCorrectness ----------------------
(***************************************************************************)
(* What the exhaustive AO* search achieves, stated against the reference   *)
(* values.                                                                 *)
(***************************************************************************)
EXTENDS ExhaustiveAO, ReferenceValues

(* A solved state has its optimal value for good, whatever the order of    *)
(* expansions and updates: "computes an optimal value function for every   *)
(* state reachable from the initial state".                                *)
SolvedOptimal ==
  \A s \in State : flag[s] # "uninitialized" /\ IsSolved(s) =>
     ~Changed(value[s], Point(OptimalValue[s]))
=============================================================================
