-------------------------- MODULE DFHSCorrectness --------------------------
(***************************************************************************)
(* What DepthFirstHeuristicSearch achieves, stated against the reference   *)
(* values and the abstract search.                                         *)
(***************************************************************************)
EXTENDS DepthFirstHeuristicSearch, ReferenceValues

(* At any time, also after a timeout, the stored bounds enclose the        *)
(* optimal values: the bound printed as progress is a bound.               *)
Admissible == BoundsAdmissible

(* With a consistent heuristic no backup, in whatever order the            *)
(* exploration and value iteration perform them, loses precision.          *)
Monotone == [][BoundsTighten]_vars

(* The result: when the search ends the initial state has its optimal      *)
(* value.                                                                  *)
Optimal ==
  pc = "done" =>
    ApproxEqual(value[initial_state].lower, OptimalValue[initial_state])

Phase == CASE pc = "solve"   -> "start"
           [] pc = "done"    -> "solved"
           [] pc = "timeout" -> "stopped"
           [] OTHER          -> "search"

FR == INSTANCE FindAndRevise WITH phase <- Phase

(* The search is an instance of Find-and-Revise: it changes values and the *)
(* policy by Bellman backups only, and stops only when the greedy policy   *)
(* graph of the initial state is consistent.                               *)
ImplementsFindAndRevise == FR!FRSpec
=============================================================================
