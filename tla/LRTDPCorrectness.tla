-------------------------- MODULE LRTDPCorrectness -------------------------
(***************************************************************************)
(* What LRTDP achieves, stated against the reference values.               *)
(***************************************************************************)
EXTENDS LRTDP, ReferenceValues

(* At any time, also after a timeout, the stored bounds enclose the        *)
(* optimal values: the bound printed as progress is a bound, although the  *)
(* trials and checks back up states in an order that the sampler decides.  *)
Admissible == BoundsAdmissible

(* The result: when the search ends the initial state has its optimal      *)
(* value.                                                                  *)
Optimal ==
  pc = "done" =>
    ApproxEqual(value[initial_state].lower, OptimalValue[initial_state])

(* The initial state is labelled solved, or time runs out, under the       *)
(* conditions that bound every single trial whatever the sampler does.     *)
(* This need not be the end: if the trial had come back to the initial     *)
(* state, a state before that may fail its check, and the next trial is    *)
(* empty, of which the last state is read.                                 *)
InitialSolved ==
  ( /\ config.stable_policy
    /\ config.stop_consistent \in {"CONSISTENT", "REVISITED"} )
  => <>(IsSolved(initial_state) \/ pc = "timeout")
=============================================================================
