------------------------------ MODULE MCLRTDP ------------------------------
(* Instances of LRTDP for TLC.                                             *)
EXTENDS LRTDPCorrectness, SearchInstances

(* The parts without a dead end that the heuristic does not see; and e0,   *)
(* which is one: its first trial is empty.  From t0, a trial may return to *)
(* t0, which its check labels; that of t1 fails, and the next trial is     *)
(* empty.                                                                  *)
InformedStates == {r0, k0, p0, e0, t0, g}

(* Intervals need finite upper bounds to converge; ties that a stable      *)
(* policy would break arise in the MaxProb part.                           *)
MCInit ==
  /\ Init
  /\ config.use_interval \/ ~config.stable_policy =>
       initial_state \in MaxProbState
MCSpec == MCInit /\ [][Next]_vars /\ WF_vars(Step)
=============================================================================
