-------------------------- MODULE ReferenceValues --------------------------
(***************************************************************************)
(* What the optimal values mean for the values that a heuristic search     *)
(* stores.                                                                 *)
(***************************************************************************)
EXTENDS HeuristicSearchBase, OptimalValues

(* The bounds that each initialised state stores enclose its optimal value.*)
BoundsAdmissible ==
  \A s \in State : flag[s] # "uninitialized" =>
     /\ value[s].lower <= OptimalValue[s]
     /\ config.use_interval => OptimalValue[s] <= value[s].upper

(* Values only improve: the bounds of an initialised state never widen.    *)
BoundsTighten ==
  \A s \in State : flag[s] # "uninitialized" =>
     /\ value[s].lower <= value'[s].lower
     /\ config.use_interval => value'[s].upper <= value[s].upper
=============================================================================
