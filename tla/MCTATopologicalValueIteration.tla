------------------- MODULE MCTATopologicalValueIteration -------------------
(* Instances of TATopologicalValueIteration for TLC.                       *)
EXTENDS TATVICorrectness, TrapInstances

MCInitialStates == {j0, v0, v1, w0, w2, i0, q0, u0, b0, mg}
MCMergedStates == {h0}
=============================================================================
