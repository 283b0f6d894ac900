-------------------- MODULE MCDepthFirstHeuristicSearch --------------------
(* Instances of DepthFirstHeuristicSearch for TLC.                         *)
EXTENDS DFHSCorrectness, SearchInstances

(* All configurations but the labelling ones without a backtracking update *)
(* of every state.                                                         *)
SoundConfigs ==
  {k \in LegalConfigs :
     /\ k.label_solved => k.backtrack_update_type = "SINGLE"
     /\ k.use_interval => ~k.cutoff_inconsistent}

(* One that forward updates alone have to keep informed.                   *)
OnDemandConfigs ==
  {k \in LegalConfigs : /\ k.label_solved
                        /\ k.backtrack_update_type = "ON_DEMAND"
                        /\ ~k.use_interval
                        /\ k.stable_policy}

(* The parts with a consistent heuristic.                                  *)
ConsistentStates == {r0, d0, e0, m0, g}

(* Intervals need finite upper bounds to converge; ties that a stable      *)
(* policy would break arise in the MaxProb part.                           *)
MCInit ==
  /\ Init
  /\ config.use_interval \/ ~config.stable_policy =>
       initial_state \in MaxProbState
MCSpec == MCInit /\ [][Next]_vars /\ WF_vars(Step)
=============================================================================
