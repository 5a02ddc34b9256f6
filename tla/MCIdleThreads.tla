---------------------------- MODULE MCIdleThreads ----------------------------
(* Instances of IdleThreads for TLC: processes are interchangeable, and the   *)
(* threads of the pool are; scheduler threads are not (bsf picks the first).   *)
EXTENDS IdleThreads, TLC

Perms == Permutations(Procs) \cup Permutations(Workers)
==============================================================================
