----------------------------- MODULE MCTALRTDP ------------------------------
(* Instances of TALRTDP for TLC.                                           *)
EXTENDS TALRTDP, QuotientCorrectness, TrapInstances

MCState == {x0, x1, j0, s0, s1, s2, f0, f1, f2, h0, h1, q0, q1, q2, r0, r1,
            l0, l1, g, mg}
MCTransition == Restrict(TheTransition, MCState)
MCTerminationCost == Restrict(TheTerminationCost, MCState)
(* The heuristic is almost perfect for h0 and h1, whose values it takes    *)
(* long to approximate, and it knows that q2 is a dead end.  If it did     *)
(* not, a check that comes to q2 would find it out without failing, and    *)
(* label q1 with a value that was computed before.                         *)
MCEstimate == [Restrict(TheEstimate, MCState) EXCEPT ![q2] = 0,
                                                     ![h0] = 8, ![h1] = 16]
MCOptimalValue == Restrict(TheOptimalValue, MCState)

(* From mg, where nothing is to be done, the first trial is empty.         *)
MCInitialStates == {x0, j0, s0, f0, q0, h0, l0, l1, mg}

(* Where a cycle that costs something is mistaken for a trap.              *)
MCTrapFlagStates == {r0}

(* A state is labelled solved with its optimal value, although its traps   *)
(* are collapsed, its successors replaced and its component backed up in   *)
(* the middle of the check that labels it.                                 *)
SolvedOptimal ==
  \A s \in solved \intersect Representatives : value[s] = OptimalValue[s]

(* The policy that compute_policy puts together is optimal.                *)
PolicyOptimal == pc = "done" => PolicyOptimalFrom(initial_state)

(* The initial state is labelled solved, or time runs out, under the       *)
(* conditions that bound every single trial.  This need not be the end:    *)
(* if the trial had come back to the initial state (as from l0), a state   *)
(* before that may fail its check, and the next trial is empty, of which   *)
(* the last state is read.                                                 *)
InitialSolved ==
  config.stop_at_consistent \in {"CONSISTENT", "REVISITED"}
  => <>(IsSolved(initial_state) \/ pc = "timeout")
=============================================================================
