------------------------------- MODULE MCFRET -------------------------------
(* Instances of FRET for TLC.                                              *)
EXTENDS FRET, QuotientCorrectness, TrapInstances

MCState == {x0, x1, j0, s0, s1, s2, c0, d0, d1, f0, f1, f2, q0, q1, q2, u0, u1,
            p0, p1, p2, g, mg}
MCTransition == Restrict(TheTransition, MCState)
MCTerminationCost == Restrict(TheTerminationCost, MCState)
MCEstimate == Restrict(TheEstimate, MCState)
MCOptimalValue == Restrict(TheOptimalValue, MCState)

MCInitialStates == {x0, j0, s0, s2, c0, f0, q0, u0, mg}
MCValueGraphStates == {p0}

(* "This guarantees that an optimal policy is returned": after any number  *)
(* of rounds of search and collapsing, the value and the policy that is    *)
(* put together from the policy of the quotient and the inner actions of   *)
(* the traps are optimal.                                                  *)
PolicyOptimal == pc = "done" => PolicyOptimalFrom(initial_state)
=============================================================================
