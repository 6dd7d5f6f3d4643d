--------------------------- MODULE SessionLockMC ---------------------------
(* Small instances of SessionLock for TLC.                                  *)
EXTENDS SessionLock, TLC

Symmetry == Permutations(Procs) \cup Permutations(Inodes)
=============================================================================
