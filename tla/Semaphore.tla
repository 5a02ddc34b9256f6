------------------------------ MODULE Semaphore ------------------------------
(***************************************************************************)
(* The CCSP semaphore (runtime/ccsp/kernel/sched.c, "semaphore             *)
(* operations"): a mutual-exclusion lock with a lock-free FIFO of waiting  *)
(* processes.  sem.bptr is one word: the last process of the queue, and in *)
(* bit 0 the lock itself ("nobody holds the semaphore, and nobody is       *)
(* dequeuing").  sem.fptr is the first process and Wptr[Link] chains the   *)
(* others; an enqueuer swings bptr first and writes the chain afterwards,  *)
(* so a dequeuer can meet a half-made queue.                               *)
(*                                                                         *)
(* A kernel call runs on a run-time thread.  Once it has published its     *)
(* workspace the process can be resumed by another thread, while the first *)
(* one is still in the rest of the call: hence threads and processes.      *)
(* Each read, write or atomic operation on shared memory is one step;      *)
(* memory is sequentially consistent.                                      *)
(***************************************************************************)
EXTENDS Naturals, Sequences, FiniteSets

CONSTANTS Procs,        \* processes, named by their workspace pointers
          Threads,      \* run-time threads (sched_t)
          NotProcess    \* the null workspace pointer

ASSUME SemAssumption == NotProcess \notin Procs

VARIABLES bptr,         \* sem.bptr: [ptr |-> last process, free |-> bit 0]
          fptr,         \* sem.fptr
          link,         \* Wptr[Link] of every process
          ready,        \* processes on some run queue
          pc,           \* where each thread is
          wptr,         \* the process whose kernel call (or code) it runs
          val,          \* sem_claim's local val, a value of bptr
          dq,           \* sem_dequeue's local fptr
          dl,           \* sem_dequeue's local link
          pst,          \* "out", "wait" (queued) or "in" (holds), per process
          order         \* history: the queued processes, oldest first

semVars == <<bptr, fptr, link>>
locals  == <<pc, wptr, val, dq, dl>>
vars    == <<semVars, ready, locals, pst, order>>

Ptr     == Procs \cup {NotProcess}
Word    == [ptr : Ptr, free : BOOLEAN]
Bare(p)   == [ptr |-> p, free |-> FALSE]     \* p, bit 0 clear
Tagged(p) == [ptr |-> p, free |-> TRUE]      \* p | 1

ClaimPC   == {"c_fast", "c_read", "c_cas"}
DequeuePC == {"d_load", "d_bptr", "d_link", "d_next", "d_clear", "d_cas",
              "d_restore", "d_set"}
PC == ClaimPC \cup DequeuePC \cup
      {"sched", "run", "c_link", "c_bit", "d_test", "d_regain", "enq", "r_cas"}

TypeOK == /\ bptr  \in Word
          /\ fptr  \in Ptr
          /\ link  \in [Procs -> Ptr]
          /\ ready \in SUBSET Procs
          /\ pc    \in [Threads -> PC]
          /\ wptr  \in [Threads -> Ptr]
          /\ val   \in [Threads -> Word]
          /\ dq    \in [Threads -> Ptr]
          /\ dl    \in [Threads -> Ptr]
          /\ pst   \in [Procs -> {"out", "wait", "in"}]

Goto(t, l) == pc' = [pc EXCEPT ![t] = l]

\* A C local that is dead (out of scope, or overwritten before it is read) has
\* its initial value: this keeps the state space small.
NoVal == Bare(NotProcess)
ForgetVal(t) == val' = [val EXCEPT ![t] = NoVal]
ForgetDq(t)  == dq' = [dq EXCEPT ![t] = NotProcess]

\* The label after a call's last step: back to the process when the thread
\* still runs one (sem_release), else to kernel_scheduler (sem_claim).
Continue(t) == IF wptr[t] = NotProcess THEN "sched" ELSE "run"

\* sem_init, with every process ready to run.
Init == /\ bptr  = Tagged(NotProcess)
        /\ fptr  = NotProcess
        /\ link  = [p \in Procs |-> NotProcess]
        /\ ready = Procs
        /\ pc    = [t \in Threads |-> "sched"]
        /\ wptr  = [t \in Threads |-> NotProcess]
        /\ val   = [t \in Threads |-> NoVal]
        /\ dq    = [t \in Threads |-> NotProcess]
        /\ dl    = [t \in Threads |-> NotProcess]
        /\ pst   = [p \in Procs |-> "out"]
        /\ order = << >>

-----------------------------------------------------------------------------
(* The scheduler, reduced to a set of runnable processes.                  *)

\* kernel_scheduler resumes some runnable process.
Schedule(t, p) ==
  /\ pc[t] = "sched" /\ p \in ready
  /\ ready' = ready \ {p}
  /\ wptr' = [wptr EXCEPT ![t] = p]
  /\ Goto(t, "run")
  /\ UNCHANGED <<semVars, val, dq, dl, pst, order>>

\* Y_pause: the running process goes back to a run queue.
Pause(t) ==
  /\ pc[t] = "run"
  /\ ready' = ready \cup {wptr[t]}
  /\ wptr' = [wptr EXCEPT ![t] = NotProcess]
  /\ Goto(t, "sched")
  /\ UNCHANGED <<semVars, val, dq, dl, pst, order>>

-----------------------------------------------------------------------------
(* sem_claim                                                               *)

\* Mutant of Claim: the fast path is taken whenever bit 0 is set.
ClaimBarging(t) ==
  /\ pc[t] = "run" /\ pst[wptr[t]] = "out"
  /\ val' = [val EXCEPT ![t] = bptr]
  /\ IF bptr.free
       THEN Goto(t, "c_fast") /\ UNCHANGED link
       ELSE Goto(t, "c_cas") /\ link' = [link EXCEPT ![wptr[t]] = NotProcess]
  /\ UNCHANGED <<bptr, fptr, ready, wptr, dq, dl, pst, order>>

\* val = bptr; the fast path is tried when it is exactly NotProcess|1.
Claim(t) ==
  /\ pc[t] = "run" /\ pst[wptr[t]] = "out"
  /\ val' = [val EXCEPT ![t] = bptr]
  /\ IF bptr = Tagged(NotProcess)
       THEN Goto(t, "c_fast") /\ UNCHANGED link
       ELSE Goto(t, "c_cas") /\ link' = [link EXCEPT ![wptr[t]] = NotProcess]
  /\ UNCHANGED <<bptr, fptr, ready, wptr, dq, dl, pst, order>>

\* The CAS to NotProcess: the claim returns and its process holds.
ClaimFast(t) ==
  /\ pc[t] = "c_fast"
  /\ IF bptr = val[t]
       THEN /\ bptr' = Bare(NotProcess)
            /\ pst' = [pst EXCEPT ![wptr[t]] = "in"]
            /\ Goto(t, "run")
       ELSE Goto(t, "c_read") /\ UNCHANGED <<bptr, pst>>
  /\ ForgetVal(t)
  /\ UNCHANGED <<fptr, link, ready, wptr, dq, dl, order>>

\* val is read again after a failed CAS.  Wptr[Link] is cleared before the
\* CAS loop; the workspace is private until then, so doing it here is the same.
ClaimRead(t) ==
  /\ pc[t] = "c_read"
  /\ val' = [val EXCEPT ![t] = bptr]
  /\ link' = [link EXCEPT ![wptr[t]] = NotProcess]
  /\ Goto(t, "c_cas")
  /\ UNCHANGED <<bptr, fptr, ready, wptr, dq, dl, pst, order>>

\* The CAS that publishes the workspace as the queue's new tail.  It clears
\* bit 0: when val had it set, this thread has also taken the lock.
ClaimPublish(t) ==
  /\ pc[t] = "c_cas"
  /\ IF bptr = val[t]
       THEN /\ bptr' = Bare(wptr[t])
            /\ pst' = [pst EXCEPT ![wptr[t]] = "wait"]
            /\ order' = Append(order, wptr[t])
            /\ Goto(t, "c_link")
            /\ UNCHANGED val
       ELSE Goto(t, "c_read") /\ ForgetVal(t) /\ UNCHANGED <<bptr, pst, order>>
  /\ UNCHANGED <<fptr, link, ready, wptr, dq, dl>>

\* Mutant of ClaimLink: bit 0 of bptr is not tested afterwards.
ClaimLinkNoTest(t) ==
  /\ pc[t] = "c_link"
  /\ IF val[t].ptr = NotProcess
       THEN fptr' = wptr[t] /\ UNCHANGED link
       ELSE link' = [link EXCEPT ![val[t].ptr] = wptr[t]] /\ UNCHANGED fptr
  /\ wptr' = [wptr EXCEPT ![t] = NotProcess]
  /\ Goto(t, IF val[t].free THEN "d_load" ELSE "sched")
  /\ ForgetVal(t)
  /\ UNCHANGED <<bptr, ready, dq, dl, pst, order>>

\* The chain is completed: from the old tail, or from fptr for the first.
ClaimLink(t) ==
  /\ pc[t] = "c_link"
  /\ IF val[t].ptr = NotProcess
       THEN fptr' = wptr[t] /\ UNCHANGED link
       ELSE link' = [link EXCEPT ![val[t].ptr] = wptr[t]] /\ UNCHANGED fptr
  /\ wptr' = [wptr EXCEPT ![t] = NotProcess]
  /\ Goto(t, IF val[t].free THEN "d_load" ELSE "c_bit")
  /\ ForgetVal(t)
  /\ UNCHANGED <<bptr, ready, dq, dl, pst, order>>

\* Mutant of ClaimBit: the result of test_clear_bit is ignored.
ClaimBitUntested(t) ==
  /\ pc[t] = "c_bit"
  /\ bptr' = Bare(bptr.ptr)
  /\ Goto(t, "d_load")
  /\ UNCHANGED <<fptr, link, ready, wptr, val, dq, dl, pst, order>>

\* atw_test_clear_bit (&sem->bptr, 0)
ClaimBit(t) ==
  /\ pc[t] = "c_bit"
  /\ bptr' = Bare(bptr.ptr)
  /\ Goto(t, IF bptr.free THEN "d_load" ELSE "sched")
  /\ UNCHANGED <<fptr, link, ready, wptr, val, dq, dl, pst, order>>

-----------------------------------------------------------------------------
(* sem_dequeue                                                             *)

\* fptr = sem->fptr
DequeueLoad(t) ==
  /\ pc[t] = "d_load"
  /\ dq' = [dq EXCEPT ![t] = fptr]
  /\ Goto(t, IF fptr = NotProcess THEN "d_set" ELSE "d_bptr")
  /\ UNCHANGED <<semVars, ready, wptr, val, dl, pst, order>>

\* bptr is read; is the first process also the last?
DequeueBptr(t) ==
  /\ pc[t] = "d_bptr"
  /\ Goto(t, IF bptr = Bare(dq[t]) THEN "d_clear" ELSE "d_link")
  /\ UNCHANGED <<semVars, ready, wptr, val, dq, dl, pst, order>>

\* link = fptr[Link]
DequeueLink(t) ==
  /\ pc[t] = "d_link"
  /\ dl' = [dl EXCEPT ![t] = link[dq[t]]]
  /\ Goto(t, IF link[dq[t]] = NotProcess THEN "d_set" ELSE "d_next")
  /\ UNCHANGED <<semVars, ready, wptr, val, dq, pst, order>>

\* sem_dequeue returns fptr: that process now holds the semaphore.
Granted(t) ==
  /\ pst' = [pst EXCEPT ![dq[t]] = "in"]
  /\ order' = Tail(order)
  /\ Goto(t, "enq")

\* sem->fptr = link; return fptr
DequeueNext(t) ==
  /\ pc[t] = "d_next"
  /\ fptr' = dl[t]
  /\ Granted(t)
  /\ dl' = [dl EXCEPT ![t] = NotProcess]
  /\ UNCHANGED <<bptr, link, ready, wptr, val, dq>>

\* sem->fptr = NotProcess, before the CAS that empties the queue
DequeueClear(t) ==
  /\ pc[t] = "d_clear"
  /\ fptr' = NotProcess
  /\ Goto(t, "d_cas")
  /\ UNCHANGED <<bptr, link, ready, wptr, val, dq, dl, pst, order>>

DequeueCas(t) ==
  /\ pc[t] = "d_cas"
  /\ IF bptr = Bare(dq[t])
       THEN bptr' = Bare(NotProcess) /\ Granted(t)
       ELSE Goto(t, "d_restore") /\ UNCHANGED <<bptr, pst, order>>
  /\ UNCHANGED <<fptr, link, ready, wptr, val, dq, dl>>

\* Mutant of DequeueRestore: fptr is taken from bptr, tag bit and all.
DequeueRestoreTagged(t) ==
  /\ pc[t] = "d_restore"
  /\ fptr' = bptr
  /\ Goto(t, "d_bptr")
  /\ UNCHANGED <<bptr, link, ready, wptr, val, dq, dl, pst, order>>

\* Someone enqueued: fptr is put back and the loop starts again.
DequeueRestore(t) ==
  /\ pc[t] = "d_restore"
  /\ fptr' = dq[t]
  /\ Goto(t, "d_bptr")
  /\ UNCHANGED <<bptr, link, ready, wptr, val, dq, dl, pst, order>>

\* Mutant of DequeueSet: no retry after the lock is released.
DequeueSetNoRetry(t) ==
  /\ pc[t] = "d_set"
  /\ bptr' = Tagged(bptr.ptr)
  /\ Goto(t, Continue(t))
  /\ UNCHANGED <<fptr, link, ready, wptr, val, dq, dl, pst, order>>

\* A half-made queue: the lock is released by setting bit 0.
DequeueSet(t) ==
  /\ pc[t] = "d_set"
  /\ bptr' = Tagged(bptr.ptr)
  /\ Goto(t, "d_test")
  /\ UNCHANGED <<fptr, link, ready, wptr, val, dq, dl, pst, order>>

\* The values *to_test may have.  Without the lock fptr[Link] may belong to a
\* process that has left the queue, whose Link slot a run queue reuses.
TestOutcomes(t) ==
  IF dq[t] = NotProcess THEN {fptr # NotProcess}
  ELSE IF pst[dq[t]] = "wait" THEN {link[dq[t]] # NotProcess}
  ELSE BOOLEAN

DequeueTest(t) ==
  /\ pc[t] = "d_test"
  /\ \E nonNull \in TestOutcomes(t) :
       Goto(t, IF nonNull THEN "d_regain" ELSE Continue(t))
  /\ ForgetDq(t)
  /\ UNCHANGED <<semVars, ready, wptr, val, dl, pst, order>>

\* The enqueue has completed since: try once to get the lock back.
DequeueRegain(t) ==
  /\ pc[t] = "d_regain"
  /\ bptr' = Bare(bptr.ptr)
  /\ Goto(t, IF bptr.free THEN "d_load" ELSE Continue(t))
  /\ UNCHANGED <<fptr, link, ready, wptr, val, dq, dl, pst, order>>

\* enqueue_process (sched, ptr) by the caller of sem_dequeue
EnqueueGranted(t) ==
  /\ pc[t] = "enq"
  /\ ready' = ready \cup {dq[t]}
  /\ Goto(t, Continue(t))
  /\ ForgetDq(t)
  /\ UNCHANGED <<semVars, wptr, val, dl, pst, order>>

-----------------------------------------------------------------------------
(* sem_release                                                             *)

Release(t) ==
  /\ pc[t] = "run" /\ pst[wptr[t]] = "in"
  /\ pst' = [pst EXCEPT ![wptr[t]] = "out"]
  /\ Goto(t, IF bptr = Bare(NotProcess)
               THEN "r_cas" ELSE "d_load")
  /\ UNCHANGED <<semVars, ready, wptr, val, dq, dl, order>>

ReleaseCas(t) ==
  /\ pc[t] = "r_cas"
  /\ IF bptr = Bare(NotProcess)
       THEN bptr' = Tagged(NotProcess) /\ Goto(t, "run")
       ELSE Goto(t, "d_load") /\ UNCHANGED bptr
  /\ UNCHANGED <<fptr, link, ready, wptr, val, dq, dl, pst, order>>

-----------------------------------------------------------------------------
ClaimStep(t) == \/ ClaimFast(t) \/ ClaimRead(t) \/ ClaimPublish(t)
                \/ ClaimLink(t) \/ ClaimBit(t)

DequeueStep(t) == \/ DequeueLoad(t) \/ DequeueBptr(t) \/ DequeueLink(t)
                  \/ DequeueNext(t) \/ DequeueClear(t) \/ DequeueCas(t)
                  \/ DequeueRestore(t) \/ DequeueSet(t) \/ DequeueTest(t)
                  \/ DequeueRegain(t) \/ EnqueueGranted(t)

\* A step inside a kernel call that has begun.
KernelStep(t) == ClaimStep(t) \/ DequeueStep(t) \/ ReleaseCas(t)

\* The running process makes a kernel call.
UserStep(t) == Claim(t) \/ Release(t) \/ Pause(t)

Next == \E t \in Threads :
          \/ KernelStep(t)
          \/ UserStep(t)
          \/ \E p \in Procs : Schedule(t, p)

Spec == Init /\ [][Next]_vars

-----------------------------------------------------------------------------
(* Properties                                                              *)

\* The lock is in the hands of this thread: it dequeues, or it is about to.
HasLock(t) == \/ pc[t] \in DequeuePC \cup {"r_cas"}
              \/ pc[t] = "c_link" /\ val[t].free

Holders == {p \in Procs : pst[p] = "in"}

\* Thread t executes for process p, which no other thread may then do.
Runs(t, p) == wptr[t] = p /\ pc[t] # "c_link"

\* sem_claim returns to at most one process at a time, and nobody holds the
\* semaphore while bit 0 of bptr says it is free or a thread is dequeuing.
MutualExclusion ==
  /\ \A p, q \in Holders : p = q
  /\ bptr.free => Holders = {}
  /\ \A t \in Threads : HasLock(t) => Holders = {} /\ ~bptr.free
  /\ \A t, u \in Threads : HasLock(t) /\ HasLock(u) => t = u

\* The lock is never lost: bit 0, a holder or a dequeuing thread has it.  The
\* "release the lock and retry once" of sem_dequeue is what could drop it.
LockConserved == bptr.free \/ Holders # {} \/ \E t \in Threads : HasLock(t)

\* enqueue_process is given a process only when it is on no run queue, run by
\* no thread and no longer chained in the semaphore; two threads never run one
\* process, and a process that waits is nowhere else.
ScheduledOnce ==
  /\ \A t \in Threads : pc[t] = "enq" =>
       /\ dq[t] \notin ready
       /\ \A u \in Threads : wptr[u] # dq[t] /\ (u # t /\ pc[u] = "enq" => dq[u] # dq[t])
  /\ \A t, u \in Threads : wptr[t] = wptr[u] /\ wptr[t] # NotProcess => t = u
  /\ \A p \in Procs : pst[p] = "wait" =>
       p \notin ready /\ \A t \in Threads : ~Runs(t, p)

\* A waiting process is not forgotten: while the semaphore is free and
\* somebody waits, some thread has still to test bit 0 (sem_claim's
\* test_clear_bit or sem_dequeue's retry) and will pass the lock on.
WaiterCovered ==
  bptr.free /\ order # << >> =>
    \E t \in Threads : pc[t] \in {"c_link", "c_bit", "d_test", "d_regain"}

\* Neither the lock, nor a process, nor the wake-up of a waiter is lost or
\* doubled by sem_claim, sem_dequeue and sem_release.
NothingLost == LockConserved /\ ScheduledOnce /\ WaiterCovered

\* The semaphore implements a FIFO mutual-exclusion lock.
Abstract == INSTANCE FifoMutex WITH holders <- Holders, queue <- order
IsFifoMutex == Abstract!FMSpec

-----------------------------------------------------------------------------
(* Liveness.  A thread in a kernel call keeps running, and processes being  *)
(* scheduled without preemption, none computes for ever without a kernel    *)
(* call; kernel_scheduler gets round to each runnable process; a process    *)
(* that holds the semaphore releases it in the end, though it may pause any *)
(* number of times first.                                                   *)
Fairness ==
  /\ \A t \in Threads : WF_vars(KernelStep(t)) /\ WF_vars(UserStep(t))
  /\ \A p \in Procs : /\ SF_vars(\E t \in Threads : Schedule(t, p))
                      /\ SF_vars(\E t \in Threads : wptr[t] = p /\ Release(t))

FairSpec == Spec /\ Fairness

\* A process queued on the semaphore is granted it, and then runs.
WaiterServed == \A p \in Procs : pst[p] = "wait" ~>
                  pst[p] = "in" /\ \E t \in Threads : Runs(t, p)
==============================================================================
