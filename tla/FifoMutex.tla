------------------------------ MODULE FifoMutex ------------------------------
(***************************************************************************)
(* What a CCSP semaphore promises the processes that claim it: one process *)
(* at a time holds it, and the processes that had to wait are granted it   *)
(* in the order in which they were queued.  Nothing of the lock-free       *)
(* representation (sched.c, sem_claim and sem_release) is visible here.    *)
(***************************************************************************)
EXTENDS Sequences, FiniteSets

CONSTANT Procs          \* the processes (workspaces)

VARIABLES holders,      \* the processes that hold the semaphore
          queue         \* the processes waiting for it, oldest first

FMInit == holders = {} /\ queue = << >>

\* An uncontended claim: allowed only when nobody holds it and nobody waits.
Take(p) == /\ holders = {} /\ queue = << >>
           /\ holders' = {p}
           /\ UNCHANGED queue

\* A contended claim.
Queue(p) == /\ p \notin holders
            /\ \A i \in DOMAIN queue : queue[i] # p
            /\ queue' = Append(queue, p)
            /\ UNCHANGED holders

\* The free semaphore passes to the process that has waited longest.
Grant == /\ holders = {} /\ queue # << >>
         /\ holders' = {Head(queue)}
         /\ queue' = Tail(queue)

Release(p) == /\ holders = {p}
              /\ holders' = {}
              /\ UNCHANGED queue

FMNext == Grant \/ \E p \in Procs : Take(p) \/ Queue(p) \/ Release(p)

FMSpec == FMInit /\ [][FMNext]_<<holders, queue>>
==============================================================================
