--------------------------- MODULE TVICorrectness ---------------------------
(***************************************************************************)
(* What topological value iteration achieves, stated against the optimal   *)
(* values.                                                                 *)
(***************************************************************************)
EXTENDS TopologicalValueIteration, OptimalValues

(* "Computes a full optimal state value table": a closed state has its     *)
(* optimal value for good; and with single values the action that the      *)
(* policy keeps for it is one that this value belongs to.                  *)
ClosedOptimal ==
  /\ \A s \in State : status[s] = "closed" =>
       ~Changed(value[s], Point(OptimalValue[s]))
  /\ ~config.use_interval => PolicyGreedy
=============================================================================
