------------------------------ MODULE MCAOStar ------------------------------
(* Instances of AOStar for TLC.                                            *)
EXTENDS AOStar, ReferenceValues, AcyclicInstances

MCConfigs == {k \in LegalConfigs : k.stable_policy /\ ~k.use_interval}

(* A choice between a short and a long way.                                *)
ChoiceStates == {t0, t4}

(* The result: when the search ends the initial state has its optimal      *)
(* value.                                                                  *)
Optimal ==
  pc = "done" =>
    ApproxEqual(value[initial_state].lower, OptimalValue[initial_state])
=============================================================================
