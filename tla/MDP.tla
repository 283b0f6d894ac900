-------------------------------- MODULE MDP --------------------------------
(***************************************************************************)
(* The decision process the search algorithms are run on: the interfaces   *)
(* StateSpace and CostFunction that every MDP of the planner implements.   *)
(*                                                                         *)
(* A successor distribution is given by positive integer weights: the      *)
(* probability of t after a in s is Transition[s][a][t] divided by the sum *)
(* of the weights of Transition[s][a].  A state value (value_t, a double)  *)
(* is an integer number of grains: the instances scale costs so that the   *)
(* divisions that matter are exact, and rounding is towards minus          *)
(* infinity.  Infinite is INFINITE_VALUE.                                  *)
(***************************************************************************)
EXTENDS Integers, FiniteSets, Functions

CONSTANTS
  State,             \* the states (state IDs)
  Action,            \* the actions
  Transition,        \* Transition[s][a][t]: weight of t when a is taken in s
  Goal,              \* the goal states
  ActionCost,        \* get_action_cost
  TerminationCost,   \* the cost part of get_termination_info
  Infinite           \* INFINITE_VALUE

(* The actions applicable in s.                                            *)
Applicable(s) == DOMAIN Transition[s]

(* The states a step with a may lead to from s, s itself included.         *)
Successors(s, a) == DOMAIN Transition[s][a]

ASSUME MDPAssumption ==
  /\ IsFiniteSet(State)
  /\ IsFiniteSet(Action)
  /\ Goal \subseteq State
  /\ Infinite \in Nat
  /\ ActionCost \in [Action -> Int]
  /\ TerminationCost \in [State -> Int]
  /\ \A s \in State :
       /\ TerminationCost[s] <= Infinite
       /\ Applicable(s) \subseteq Action
       /\ \A a \in Applicable(s) :
            /\ Successors(s, a) \in (SUBSET State) \ {{}}
            /\ Transition[s][a] \in [Successors(s, a) -> Nat \ {0}]

-----------------------------------------------------------------------------

(* SuccessorDistribution keeps the distribution over the other states only *)
(* and divides by its total probability: a self-loop is never a successor. *)
NonSource(s, a) == Successors(s, a) \ {s}

(* The transitions a search algorithm looks at: those that leave s.        *)
TransitionTails(s) == {a \in Applicable(s) : NonSource(s, a) # {}}

(* The states that the search can move to from s with some action.         *)
Neighbours(s) == UNION {NonSource(s, a) : a \in TransitionTails(s)}

(* The weight of all successors, and of those that leave s: their quotient *)
(* is non_source_probability.                                              *)
TotalWeight ==
  [s \in State |-> [a \in Applicable(s) |-> SumFunction(Transition[s][a])]]

NonSourceWeight ==
  [s \in State |-> [a \in TransitionTails(s) |->
     SumFunction([t \in NonSource(s, a) |-> Transition[s][a][t]])]]


=============================================================================
