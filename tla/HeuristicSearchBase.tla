------------------------ MODULE HeuristicSearchBase ------------------------
(***************************************************************************)
(* What all heuristic search algorithms of the planner share: the          *)
(* information stored per state (StateInfo), the lazy initialisation of    *)
(* states by the heuristic, the expansion of a fringe state and the        *)
(* Bellman backup with the choice of a greedy action.                      *)
(***************************************************************************)
EXTENDS BellmanEquations, Sequences

CONSTANT
  Configs            \* the parameters an algorithm may be constructed with

VARIABLES
  config,            \* the parameters of this algorithm object
  flag,              \* StateFlags: how far each state is initialised
  value,             \* the value bounds of each state
  policy             \* the stored greedy action of each state

base_vars == <<config, flag, value, policy>>

Flags == {"uninitialized", "initialized", "terminal", "goal", "fringe"}

IsGoalOrTerminal(s) == flag[s] \in {"goal", "terminal"}

-----------------------------------------------------------------------------
(* Initialisation and expansion.                                           *)

(* Mutant of InitialValue: the second bound is forgotten.                  *)
InitialValueHalf(s) ==
  IF s \in Goal THEN Point(TerminationCost[s])
  ELSE [lower |-> Estimate[s]]

(* Mutant of InitialValue: both bounds start as the heuristic value.       *)
InitialValuePoint(s) ==
  IF s \in Goal THEN Point(TerminationCost[s]) ELSE Point(Estimate[s])

(* The value and the flag that initialize gives a new state.               *)
InitialValue(s) ==
  IF s \in Goal THEN Point(TerminationCost[s])
  ELSE IF config.use_interval
       THEN [lower |-> Estimate[s], upper |-> TerminationCost[s]]
       ELSE Point(Estimate[s])

InitialFlag(s) ==
  IF s \in Goal THEN "goal"
  ELSE IF Estimate[s] = TerminationCost[s] THEN "terminal" ELSE "fringe"

(* Mutant of Evaluated: states that are known already are evaluated again. *)
EvaluatedAgain(s) == IF flag[s] = "fringe" THEN Neighbours(s) ELSE {}

(* The states that expanding s initialises: none if s is not on the fringe *)
(* (generate_non_tip_transitions initialises nothing).                     *)
Evaluated(s) ==
  IF flag[s] = "fringe"
  THEN {t \in Neighbours(s) : flag[t] = "uninitialized"}
  ELSE {}

(* flag and value after expand_and_initialize (s on the fringe) or after   *)
(* generate_non_tip_transitions (s expanded before).                       *)
ExpandedFlag(s) ==
  [t \in State |->
     IF t \in Evaluated(s) THEN InitialFlag(t)
     ELSE IF t = s /\ flag[s] = "fringe"
     THEN IF TransitionTails(s) = {} THEN "terminal" ELSE "initialized"
     ELSE flag[t]]

ExpandedValue(s) ==
  IF Evaluated(s) = {} THEN value
  ELSE [t \in State |-> IF t \in Evaluated(s) THEN InitialValue(t)
                        ELSE value[t]]

-----------------------------------------------------------------------------
(* Bellman backups.                                                        *)

(* select_greedy_transition with a StablePolicyPicker: a stable policy     *)
(* keeps the previous action while it is greedy; any other tie may be      *)
(* broken in any way.                                                      *)
GreedyChoices(v, s) ==
  IF Terminates(v, s) THEN {NoAction}
  ELSE IF config.stable_policy /\ policy[s] \in Greedy(v, s)
  THEN {policy[s]}
  ELSE Greedy(v, s)

Converged(old, new) ==
  IF config.use_interval
  THEN ApproxEqual(new.lower, new.upper)
  ELSE ~Changed(old, new)

(* One Bellman backup of s: expand s if it is on the fringe, then update   *)
(* its value and its policy.  The result of the update is read off the     *)
(* values before and after.                                                *)
Backup(s) ==
  \E v \in {ExpandedValue(s)} :
      /\ flag' = ExpandedFlag(s)
      /\ value' = [v EXCEPT ![s] = Bellman(v, s)]
      /\ \E a \in GreedyChoices(v, s) : policy' = [policy EXCEPT ![s] = a]

ValueConverged(s) == Converged(value[s], value'[s])
PolicyChanged(s) == policy[s] # policy'[s]

-----------------------------------------------------------------------------

BaseInit ==
  /\ config \in Configs
  /\ flag = [s \in State |-> "uninitialized"]
  /\ value = [s \in State |-> Point(0)]
  /\ policy = [s \in State |-> NoAction]

(* initialize_initial_state, at the start of every call of solve.          *)
InitializeInitialState(s) ==
  IF flag[s] = "uninitialized"
  THEN /\ flag' = [flag EXCEPT ![s] = InitialFlag(s)]
       /\ value' = [value EXCEPT ![s] = InitialValue(s)]
       /\ UNCHANGED <<config, policy>>
  ELSE UNCHANGED base_vars

BaseTypeOK ==
  /\ config \in Configs
  /\ flag \in [State -> Flags]
  /\ value \in [State -> Bounds]
  /\ policy \in [State -> Action \union {NoAction}]

-----------------------------------------------------------------------------
(* What it means for the stored values and policy to solve the MDP.        *)

(* The convergence criterion for a single state: a value and an action that*)
(* agree with the values of the successors, or bounds that meet.           *)
IsConverged(s) ==
  IF config.use_interval
  THEN ApproxEqual(value[s].lower, value[s].upper)
  ELSE /\ ApproxEqual(value[s].lower, Bellman(value, s).lower)
       /\ \/ policy[s] = NoAction /\ Greedy(value, s) = {}
          \/ policy[s] \in Greedy(value, s)

PolicySuccessors(s) ==
  IF policy[s] = NoAction THEN {} ELSE NonSource(s, policy[s])

(* States is a part of the greedy policy graph that the policy does not    *)
(* leave, where each state is final or has converged.                      *)
IsSolution(states) ==
  \A s \in states :
     \/ IsGoalOrTerminal(s)
     \/ IsConverged(s) /\ PolicySuccessors(s) \subseteq states

(* The initial state has a solution: its greedy policy graph has converged.*)
HasSolution(s) ==
  \E states \in SUBSET {t \in State : flag[t] # "uninitialized"} :
     s \in states /\ IsSolution(states)

=============================================================================
