-------------------------- MODULE BellmanEquations --------------------------
(***************************************************************************)
(* The arithmetic that the algorithms share: values, Q-values, the Bellman *)
(* operator and the comparison of values up to the tolerance.              *)
(*                                                                         *)
(* A value is a pair of bounds.  With intervals it is the Interval of the  *)
(* code; without, the single value_t is stored as both bounds.             *)
(***************************************************************************)
EXTENDS MDP, FiniteSetsExt

CONSTANTS
  Estimate,          \* h.evaluate: the heuristic value of each state
  Epsilon,           \* the convergence tolerance of the algorithm
  NoAction           \* std::nullopt of std::optional<Action>

ASSUME HeuristicAssumption ==
  /\ Estimate \in [State -> Int]
  /\ \A s \in State : Estimate[s] <= Infinite
  /\ Epsilon \in Nat
  /\ NoAction \notin Action

Bounds == [lower : Int, upper : Int]

Point(x) == [lower |-> x, upper |-> x]

-----------------------------------------------------------------------------
(* Bellman backups on values v.                                            *)

(* What leaves the range of value_t is infinite.                           *)
Saturated(x) == IF x > Infinite THEN Infinite ELSE x

(* compute_qvalue for one of the bounds: the cost of a plus the expected   *)
(* value of the other states, divided by the probability of leaving s.     *)
QValue(v, bound, s, a) ==
  IF \E t \in NonSource(s, a) : v[t][bound] = Infinite
  THEN Infinite
  ELSE Saturated(
         ( TotalWeight[s][a] * ActionCost[a]
           + SumFunction([t \in NonSource(s, a) |->
                            Transition[s][a][t] * v[t][bound]]) )
         \div NonSourceWeight[s][a] )

(* compute_q_values: the component-wise minimum over the transitions.      *)
Best(v, bound, s) == Min({QValue(v, bound, s, a) : a \in TransitionTails(s)})

(* compute_bellman, for algorithms that store no policy: terminating is    *)
(* one more candidate for each of the bounds.                              *)
BellmanValue(v, s) ==
  LET best(bound) == Min({TerminationCost[s]} \union
                         {QValue(v, bound, s, a) : a \in TransitionTails(s)})
  IN  [lower |-> best("lower"), upper |-> best("upper")]

(* Terminating in s is at least as good as every transition of s.          *)
Terminates(v, s) ==
  \/ TransitionTails(s) = {}
  \/ Best(v, "lower", s) >= TerminationCost[s]

(* compute_bellman_and_greedy: the new value of s ...                      *)
Bellman(v, s) ==
  IF Terminates(v, s) THEN Point(TerminationCost[s])
  ELSE [lower |-> Best(v, "lower", s), upper |-> Best(v, "upper", s)]

(* ... and the greedy actions; empty if terminating is best.               *)
Greedy(v, s) ==
  IF Terminates(v, s) THEN {}
  ELSE LET best == Best(v, "lower", s)
       IN  {a \in TransitionTails(s) : QValue(v, "lower", s, a) = best}

-----------------------------------------------------------------------------
(* Comparison of values.                                                   *)

(* Mutant of ApproxEqual: a strict comparison without the test for         *)
(* equality, which is there for infinite values.                           *)
ApproxEqualStrict(x, y) == x - y < Epsilon /\ y - x < Epsilon

(* is_approx_equal.                                                        *)
ApproxEqual(x, y) == x = y \/ (x - y <= Epsilon /\ y - x <= Epsilon)

(* Mutant of Changed: a value that rises is taken for unchanged.           *)
ChangedOneSided(old, new) ==
  \/ old.lower - new.lower > Epsilon
  \/ old.upper - new.upper > Epsilon

(* The result of update(lhs, rhs, epsilon), which assigns rhs in any case. *)
Changed(old, new) ==
  \/ ~ApproxEqual(old.lower, new.lower)
  \/ ~ApproxEqual(old.upper, new.upper)
=============================================================================
