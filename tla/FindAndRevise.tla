--------------------------- MODULE FindAndRevise ---------------------------
(***************************************************************************)
(* The scheme all heuristic search algorithms of the planner follow: keep  *)
(* values and a greedy policy, revise states by Bellman backups one at a   *)
(* time, in any order, and stop only when the greedy policy graph of the   *)
(* initial state is complete and consistent, or when out of time.          *)
(***************************************************************************)
EXTENDS HeuristicSearchBase

VARIABLES
  initial_state,     \* the state to solve
  phase              \* where the search is

fr_vars == <<base_vars, initial_state, phase>>

Phases == {"start", "search", "solved", "stopped"}

FRInit ==
  /\ BaseInit
  /\ initial_state \in State
  /\ phase = "start"

Start ==
  /\ phase = "start"
  /\ InitializeInitialState(initial_state)
  /\ phase' = "search"
  /\ UNCHANGED initial_state

Revise(s) ==
  /\ phase = "search"
  /\ flag[s] \in {"fringe", "initialized"}
  /\ Backup(s)
  /\ UNCHANGED <<config, initial_state, phase>>

Finish ==
  /\ phase = "search"
  /\ phase' = "solved"
  /\ HasSolution(initial_state)
  /\ UNCHANGED <<base_vars, initial_state>>

GiveUp ==
  /\ phase = "search"
  /\ phase' = "stopped"
  /\ UNCHANGED <<base_vars, initial_state>>

FRNext ==
  \/ Start
  \/ \E s \in State : Revise(s)
  \/ Finish
  \/ GiveUp

FRSpec == FRInit /\ [][FRNext]_fr_vars
=============================================================================
