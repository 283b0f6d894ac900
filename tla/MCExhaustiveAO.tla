--------------------------- MODULE MCExhaustiveAO ---------------------------
(* Instances of ExhaustiveAO for TLC.                                      *)
EXTENDS ExhaustiveAOCorrectness, AcyclicInstances

(* No policy is stored, so the policy picker makes no difference.          *)
MCConfigs == {k \in LegalConfigs : k.stable_policy}

MCInitialStates == {t0, q0, td, g}
=============================================================================
