------------------------- MODULE MCServerLifecycle -------------------------
(* ServerLifecycle for TLC: small sets of tasks and watches, and the         *)
(* symmetry of both where only safety is checked.                            *)
EXTENDS ServerLifecycle, TLC

TaskSymmetry == Permutations(Tasks) \cup Permutations(Watches)
=============================================================================
