------------------------- MODULE MCNodeMaintenance -------------------------
(* NodeMaintenance for TLC.                                                 *)
EXTENDS NodeMaintenance, TLC

WorkSymmetry == Permutations(Works)
=============================================================================
