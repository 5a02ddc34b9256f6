----------------------------- MODULE MCMigration -----------------------------
(* Migration for TLC: all processes start on one thread.                   *)
EXTENDS Migration, TLC

CONSTANT Starter    \* the thread that starts the program
HomeFirst == [p \in Procs |-> Starter]
WakersFirst == [p \in Procs |-> {Starter}]
Alike == {f @@ g : f \in Permutations(Batches), g \in Permutations(Procs \ Affine)}
=============================================================================
