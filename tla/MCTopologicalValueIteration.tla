-------------------- MODULE MCTopologicalValueIteration --------------------
(* Instances of TopologicalValueIteration for TLC.                         *)
EXTENDS TVICorrectness, SearchInstances

MCInitialStates == {r0, d0, c0, n0, m0, k0, p0, e0, g}
=============================================================================
