--------------------------- MODULE ExclusiveLock ---------------------------
(* What withSessionLock promises to its callers: their actions are run one  *)
(* at a time.  A holder gives the lock up when its action ends or it dies.   *)
CONSTANT Procs
VARIABLE holders   \* the processes that are inside their action

Init == holders = {}

Acquire(p) == holders = {} /\ holders' = {p}
Release(p) == p \in holders /\ holders' = holders \ {p}

Next == \E p \in Procs : Acquire(p) \/ Release(p)

Spec == Init /\ [][Next]_holders
=============================================================================
