-------------------------- MODULE AcyclicInstances --------------------------
(***************************************************************************)
(* An acyclic MDP for the model checking of the algorithms that need one.  *)
(* The number in the name of an action is its cost.                        *)
(*                                                                         *)
(*  t0 .. t5   states shared by several paths of different lengths; the    *)
(*             cheaper action of t5 leads to the dead end td that the      *)
(*             heuristic does not see, the cheaper action of t1 looks      *)
(*             better than it is;                                          *)
(*  q0 .. q3   MaxProb: action costs are 0, goal mg is worth -8, qd is a   *)
(*             dead end; q1 is reached on paths of different lengths.      *)
(***************************************************************************)
EXTENDS Integers, TLC

CONSTANTS t0, t1, t2, t3, t4, t5, td, q0, q1, q2, q3, qd, g, mg
CONSTANTS a4, a8, a12, y0, z0, none

TheAction == {a4, a8, a12, y0, z0}
TheActionCost == (a4 :> 4) @@ (a8 :> 8) @@ (a12 :> 12) @@ (y0 :> 0) @@ (z0 :> 0)

TheGoal == {g, mg}

Even(s, t) == (s :> 1) @@ (t :> 1)
Sure(s) == s :> 1
DeadEnd == [x \in {} |-> {}]

TheTransition ==
     (t0 :> ((a4 :> Even(t1, t2)) @@ (a12 :> Sure(t3))))
  @@ (t1 :> ((a4 :> Sure(t3)) @@ (a8 :> Even(t4, g))))
  @@ (t2 :> (a4 :> Even(t3, t4)))
  @@ (t3 :> (a8 :> Sure(t5)))
  @@ (t4 :> ((a4 :> Sure(t5)) @@ (a12 :> Sure(g))))
  @@ (t5 :> ((a4 :> Even(td, g)) @@ (a8 :> Sure(g))))
  @@ (td :> DeadEnd)
  @@ (q0 :> ((y0 :> Even(q1, q2)) @@ (z0 :> Even(q3, mg))))
  @@ (q1 :> (z0 :> Even(mg, qd)))
  @@ (q2 :> (z0 :> Sure(q1)))
  @@ (q3 :> (y0 :> Even(q1, qd)))
  @@ (qd :> DeadEnd)
  @@ (g :> DeadEnd)
  @@ (mg :> DeadEnd)

TheState == DOMAIN TheTransition
MaxProbState == {q0, q1, q2, q3, qd, mg}

INFINITE_VALUE == 1000

TheTerminationCost ==
  [s \in TheState |-> CASE s = g -> 0
                        [] s = mg -> -8
                        [] s \in MaxProbState -> 0
                        [] OTHER -> INFINITE_VALUE]

TheEstimate ==
  [s \in TheState |-> CASE s \in MaxProbState -> -8
                        [] s = t4 -> 4
                        [] OTHER -> 0]

TheOptimalValue ==
     (t0 :> 20) @@ (t1 :> 14) @@ (t2 :> 18) @@ (t3 :> 16) @@ (t4 :> 12)
  @@ (t5 :> 8) @@ (td :> INFINITE_VALUE)
  @@ (q0 :> -5) @@ (q1 :> -4) @@ (q2 :> -4) @@ (q3 :> -2) @@ (qd :> 0)
  @@ (g :> 0) @@ (mg :> -8)
=============================================================================
