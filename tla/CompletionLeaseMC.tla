------------------------- MODULE CompletionLeaseMC -------------------------
(* Small instances of CompletionLease for TLC.                              *)
EXTENDS CompletionLease, TLC

Symmetry == Permutations(Procs) \cup Permutations(Inodes)
=============================================================================
