-------------------------- MODULE TaskLifecycleMC --------------------------
(* Small instances of TaskLifecycle for TLC.                                *)
EXTENDS TaskLifecycle, TLC

Symmetry == Permutations(Procs)
=============================================================================
