--------------------------- MODULE OptimalValues ---------------------------
(***************************************************************************)
(* What the searches are to compute, by definition: a solution of the      *)
(* Bellman optimality equations over the whole state space, which is       *)
(* unique where every cycle costs something or may be left by chance.      *)
(***************************************************************************)
EXTENDS BellmanEquations

CONSTANT OptimalValue      \* V*

ASSUME ReferenceAssumption ==
  /\ OptimalValue \in [State -> Int]
  /\ LET v == [s \in State |-> Point(OptimalValue[s])]
     IN  \A s \in State :
           OptimalValue[s] = IF s \in Goal THEN TerminationCost[s]
                             ELSE Bellman(v, s).lower
  /\ \A s \in State : Estimate[s] <= OptimalValue[s]
=============================================================================
