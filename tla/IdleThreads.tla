----------------------------- MODULE IdleThreads -----------------------------
(***************************************************************************)
(* How the scheduler threads of CCSP go idle, wake one another and notice  *)
(* that the program has stopped (sched.c: kernel_scheduler; userproc.c:    *)
(* ccsp_wake_thread, ccsp_safe_pause; bsyscalls.c; deadlock.c).  A program *)
(* that has ended is recognised in the same way: after Y_shutdown the      *)
(* last idle thread exits where it would otherwise report deadlock.        *)
(*                                                                         *)
(* The words that the threads share are read and written in single steps:  *)
(* sync and the signalling pipe of each thread, sleeping_threads,          *)
(* idle_threads and the count of blocking system calls.  A mail queue is a *)
(* set here (MailQueue has its protocol), a steal from another thread's    *)
(* migration window is one step, and no process waits for a timeout        *)
(* (tq_fptr is NULL), nor is there an external event handler.              *)
(***************************************************************************)
EXTENDS Naturals, FiniteSets, FiniteSetsExt

CONSTANTS NThreads,  \* scheduler threads, all in enabled_threads
          Procs,     \* processes of the program
          Workers,   \* the pool's threads for blocking system calls
          Affinities,\* the affinities that processes may have ({}: none)
          PipeCap    \* bytes that a signalling pipe holds

ASSUME IdleAssumption == /\ NThreads \in Nat \ {0} /\ Procs # {}
                         /\ IsFiniteSet(Procs) /\ IsFiniteSet(Workers)
                         /\ Workers \cap Nat = {}
                         /\ Affinities # {} /\ Affinities \subseteq SUBSET (0..NThreads-1)
                         /\ PipeCap \in Nat \ {0}

Threads == 0..NThreads-1
Actors  == Threads \cup Workers

VARIABLES ps,        \* what each process is doing
          th,        \* the scheduler it runs on, is queued on or is mailed to
          aff,       \* the affinity in Wptr[Priofinity], which does not change
          pc,        \* where each actor is
          sync,      \* sched->sync
          pipe,      \* bytes in the signalling pipe of each thread
          sleeping,  \* sleeping_threads
          idle,      \* idle_threads
          seen,      \* a thread's copy of idle_threads
          pending,   \* system calls under way
          tgt, bit,  \* thread to be woken by an actor, and the bit it sets
          shutdown,  \* ccsp_shutdown
          exit       \* "no", or how the program was ended

prog   == <<ps, th, aff>>
signal == <<sync, pipe, sleeping>>
wake   == <<tgt, bit>>
rest   == <<pending, shutdown, exit>>
vars   == <<prog, pc, signal, idle, seen, wake, rest>>

Wakes == {"m_sync", "m_test", "k_clear", "k_sync", "k_pipe"}   \* by any actor

TypeOK ==
  /\ ps \in [Procs -> {"on", "queued", "mail", "call", "blocked", "done"}]
  /\ th \in [Procs -> Threads] /\ aff \in [Procs -> SUBSET Threads]
  /\ \A t \in Threads : pc[t] \in Wakes \cup {"top", "pick", "run", "check", "idle",
        "pend", "look", "decide", "pause", "read", "unidle"}
  /\ \A w \in Workers : pc[w] \in Wakes \cup {"none", "dec", "mitigate"}
  /\ sync \in [Threads -> SUBSET {"mail", "work"}] /\ pipe \in [Threads -> 0..PipeCap]
  /\ sleeping \subseteq Threads /\ idle \subseteq Threads
  /\ seen \in [Threads -> SUBSET Threads]
  /\ pending \in 0..(Cardinality(Procs) + Cardinality(Workers))
  /\ tgt \in [Actors -> Threads] /\ bit \in [Actors -> {"mail", "work"}]
  /\ shutdown \in BOOLEAN /\ exit \in {"no", "exit", "dead"}

\* The threads that may run a process of affinity a.
Targets(a) == IF a = {} THEN Threads ELSE a

\* Each process has made its Y_setaff, and one of them can run.
Init ==
  \E root \in Procs :
  /\ aff \in [Procs -> Affinities]
  /\ ps = [p \in Procs |-> IF p = root THEN "queued" ELSE "blocked"]
  /\ th = [p \in Procs |-> IF p = root THEN Min(Targets(aff[p])) ELSE 0]
  /\ pc = [a \in Actors |-> IF a \in Threads THEN "top" ELSE "none"]
  /\ sync = [t \in Threads |-> {}] /\ pipe = [t \in Threads |-> 0]
  /\ sleeping = {} /\ idle = {} /\ seen = [t \in Threads |-> {}]
  /\ tgt = [a \in Actors |-> 0] /\ bit = [a \in Actors |-> "work"]
  /\ pending = 0 /\ shutdown = FALSE /\ exit = "no"

At(a, l)   == exit = "no" /\ pc[a] = l
Goto(a, l) == pc' = [pc EXCEPT ![a] = l]
Aim(a, t, b) == tgt' = [tgt EXCEPT ![a] = t] /\ bit' = [bit EXCEPT ![a] = b]
NoAim(a)   == Aim(a, 0, "work")

-----------------------------------------------------------------------------
(* The end of mail_batch and mail_process, and ccsp_wake_thread, by a      *)
(* scheduler thread or by a thread of the pool.                            *)

\* Where an actor goes on: a scheduler in the process it dispatches or runs, a
\* thread of the pool behind schedule_batch, or at the end of bsc_cleanup_job.
After(a) == IF a \in Threads THEN "run" ELSE IF bit[a] = "mail" THEN "dec" ELSE "none"

\* Mutant of MailSync: the wrong bit is set.
MailSyncOtherBit(a) ==
  /\ At(a, "m_sync")
  /\ sync' = [sync EXCEPT ![tgt[a]] = @ \cup {"work"}]
  /\ Goto(a, "m_test")
  /\ UNCHANGED <<prog, pipe, sleeping, idle, seen, wake, rest>>

MailSync(a) ==
  /\ At(a, "m_sync")
  /\ sync' = [sync EXCEPT ![tgt[a]] = @ \cup {"mail"}]
  /\ Goto(a, "m_test")
  /\ UNCHANGED <<prog, pipe, sleeping, idle, seen, wake, rest>>

MailTest(a) ==
  /\ At(a, "m_test")
  /\ IF tgt[a] \in sleeping THEN Goto(a, "k_clear") /\ UNCHANGED wake
     ELSE Goto(a, After(a)) /\ NoAim(a)
  /\ UNCHANGED <<prog, signal, idle, seen, rest>>

\* Mutant of WakeClear: the woken thread stays marked as sleeping.
WakeClearNot(a) ==
  /\ At(a, "k_clear")
  /\ Goto(a, "k_sync")
  /\ UNCHANGED <<prog, signal, idle, seen, wake, rest>>

WakeClear(a) ==
  /\ At(a, "k_clear")
  /\ sleeping' = sleeping \ {tgt[a]}
  /\ Goto(a, "k_sync")
  /\ UNCHANGED <<prog, sync, pipe, idle, seen, wake, rest>>

WakeSync(a) ==
  /\ At(a, "k_sync")
  /\ sync' = [sync EXCEPT ![tgt[a]] = @ \cup {bit[a]}]
  /\ Goto(a, "k_pipe")
  /\ UNCHANGED <<prog, pipe, sleeping, idle, seen, wake, rest>>

\* signal_in does not block: a byte for which there is no room is dropped.
WakePipe(a) ==
  /\ At(a, "k_pipe")
  /\ pipe' = [pipe EXCEPT ![tgt[a]] = IF @ < PipeCap THEN @ + 1 ELSE @]
  /\ Goto(a, After(a)) /\ NoAim(a)
  /\ UNCHANGED <<prog, sync, sleeping, idle, seen, rest>>

-----------------------------------------------------------------------------
(* What a running process does                                             *)

Set(p, s, t) == /\ ps' = [ps EXCEPT ![p] = s] /\ th' = [th EXCEPT ![p] = t]
                /\ UNCHANGED aff
On(t, p)     == At(t, "run") /\ ps[p] = "on" /\ th[p] = t

\* It blocks, or is descheduled and stays ready.
Block(t, p) ==
  /\ On(t, p)
  /\ Set(p, "blocked", 0)
  /\ Goto(t, "top")
  /\ UNCHANGED <<signal, idle, seen, wake, rest>>

Yield(t, p) ==
  /\ On(t, p)
  /\ Set(p, "queued", t)
  /\ Goto(t, "top")
  /\ UNCHANGED <<signal, idle, seen, wake, rest>>

\* enqueue_process: to its own queue, or by mail when its affinity forbids that.
Ready(t, q) ==
  /\ At(t, "run") /\ ps[q] = "blocked" /\ t \in Targets(aff[q])
  /\ Set(q, "queued", t)
  /\ UNCHANGED <<pc, signal, idle, seen, wake, rest>>

\* Mutant of Mail: the bit of the affinity is counted from one.
MailNextThread(t, q, u) ==
  /\ At(t, "run") /\ ps[q] = "blocked"
  /\ t \notin Targets(aff[q]) /\ u \in Targets(aff[q])
  /\ Set(q, "mail", u + 1)
  /\ Aim(t, u + 1, "mail")
  /\ Goto(t, "m_sync")
  /\ UNCHANGED <<signal, idle, seen, rest>>

Mail(t, q, u) ==
  /\ At(t, "run") /\ ps[q] = "blocked"
  /\ t \notin Targets(aff[q]) /\ u \in Targets(aff[q])
  /\ Set(q, "mail", u)
  /\ Aim(t, u, "mail")
  /\ Goto(t, "m_sync")
  /\ UNCHANGED <<signal, idle, seen, rest>>

\* kernel_bsc_dispatch: the call is counted, and queued for a thread of the
\* pool, under the pool's lock; then kernel_scheduler.
Call(t, p) ==
  /\ On(t, p) /\ Workers # {}
  /\ Set(p, "call", 0)
  /\ pending' = pending + 1
  /\ Goto(t, "top")
  /\ UNCHANGED <<signal, idle, seen, wake, shutdown, exit>>

\* Y_shutdown, when the top-level process has ended.
Shutdown(t, p) ==
  /\ On(t, p) /\ ~shutdown
  /\ shutdown' = TRUE
  /\ Set(p, "done", 0)
  /\ Goto(t, "top")
  /\ UNCHANGED <<signal, idle, seen, wake, pending, exit>>

-----------------------------------------------------------------------------
(* bsc_thread: a call has returned, and then bsc_cleanup_job               *)

\* schedule_batch: the process is mailed to some thread of its affinity.
Return(w, p, u) ==
  /\ At(w, "none") /\ ps[p] = "call" /\ u \in Targets(aff[p])
  /\ Set(p, "mail", u)
  /\ Aim(w, u, "mail")
  /\ Goto(w, "m_sync")
  /\ UNCHANGED <<signal, idle, seen, rest>>

Uncount(w) ==
  /\ At(w, "dec")
  /\ pending' = pending - 1
  /\ Goto(w, IF pending = 1 THEN "mitigate" ELSE "none")
  /\ UNCHANGED <<prog, signal, idle, seen, wake, shutdown, exit>>

\* Mutant of Mitigate: no thread is made to look again.
MitigateNot(w) ==
  /\ At(w, "mitigate")
  /\ Goto(w, "none")
  /\ UNCHANGED <<prog, signal, idle, seen, wake, rest>>

\* After the last call of a program that has ended a thread looks again.
Mitigate(w) ==
  /\ At(w, "mitigate")
  /\ IF shutdown THEN Goto(w, "k_clear") /\ Aim(w, 0, "work")
     ELSE Goto(w, "none") /\ UNCHANGED wake
  /\ UNCHANGED <<prog, signal, idle, seen, rest>>

-----------------------------------------------------------------------------
(* kernel_scheduler                                                        *)

\* sync = att_swap (&(sched->sync), 0); mail is moved to the run queue.
Top(t) ==
  /\ At(t, "top")
  /\ sync' = [sync EXCEPT ![t] = {}]
  /\ ps' = [p \in Procs |-> IF ps[p] = "mail" /\ th[p] = t /\ "mail" \in sync[t]
                              THEN "queued" ELSE ps[p]]
  /\ Goto(t, "pick")
  /\ UNCHANGED <<th, aff, pipe, sleeping, idle, seen, wake, rest>>

Mine(t) == {p \in Procs : ps[p] = "queued" /\ th[p] = t}

\* A process of its own queue; if its migration window says that there is work
\* (the bit may be out of date) a sleeper is woken.
Dispatch(t, p) ==
  /\ At(t, "pick") /\ p \in Mine(t)
  /\ Set(p, "on", t)
  /\ \/ Goto(t, "run") /\ UNCHANGED wake
     \/ /\ sleeping # {} /\ \E q \in Procs : aff[q] = {}
        /\ Goto(t, "k_clear") /\ Aim(t, Min(sleeping), "work")
  /\ UNCHANGED <<signal, idle, seen, rest>>

\* migrate_some_work: a process without affinity that an active thread has queued.
Steal(t, p) ==
  /\ At(t, "pick") /\ Mine(t) = {}
  /\ ps[p] = "queued" /\ aff[p] = {} /\ th[p] \notin sleeping
  /\ Set(p, "on", t)
  /\ Goto(t, "run")
  /\ UNCHANGED <<signal, idle, seen, wake, rest>>

\* Nothing found, and no more spinning: att_set_bit (&sleeping_threads, ...)
Sleep(t) ==
  /\ At(t, "pick") /\ Mine(t) = {}
  /\ sleeping' = sleeping \cup {t}
  /\ Goto(t, "check")
  /\ UNCHANGED <<prog, sync, pipe, idle, seen, wake, rest>>

Check(t) ==
  /\ At(t, "check")
  /\ IF sync[t] = {} THEN Goto(t, "idle") /\ UNCHANGED sleeping
     ELSE Goto(t, "top") /\ sleeping' = sleeping \ {t}
  /\ UNCHANGED <<prog, sync, pipe, idle, seen, wake, rest>>

\* Mutant of SetIdle: the bit is set only when the thread waits for calls.
SetIdleForCalls(t) ==
  /\ At(t, "idle")
  /\ idle' = IF pending > 0 THEN idle \cup {t} ELSE idle
  /\ Goto(t, "pend")
  /\ UNCHANGED <<prog, signal, seen, wake, rest>>

SetIdle(t) ==
  /\ At(t, "idle")
  /\ idle' = idle \cup {t}
  /\ Goto(t, "pend")
  /\ UNCHANGED <<prog, signal, seen, wake, rest>>

\* bsyscalls_pending () > 0
TestPending(t) ==
  /\ At(t, "pend")
  /\ Goto(t, IF pending > 0 THEN "pause" ELSE "look")
  /\ UNCHANGED <<prog, signal, idle, seen, wake, rest>>

Look(t) ==
  /\ At(t, "look")
  /\ seen' = [seen EXCEPT ![t] = idle]
  /\ Goto(t, "decide")
  /\ UNCHANGED <<prog, signal, idle, wake, rest>>

\* idle_threads & sleeping_threads == enabled_threads: ccsp_kernel_deadlock
Decide(t) ==
  /\ At(t, "decide")
  /\ IF seen[t] \cap sleeping = Threads
       THEN exit' = (IF shutdown THEN "exit" ELSE "dead") /\ UNCHANGED pc
       ELSE Goto(t, "pause") /\ UNCHANGED exit
  /\ seen' = [seen EXCEPT ![t] = {}]
  /\ UNCHANGED <<prog, signal, idle, wake, pending, shutdown>>

Pause(t) ==
  /\ At(t, "pause")
  /\ Goto(t, IF sync[t] = {} THEN "read" ELSE "unidle")
  /\ UNCHANGED <<prog, signal, idle, seen, wake, rest>>

Read(t) ==
  /\ At(t, "read") /\ pipe[t] > 0
  /\ pipe' = [pipe EXCEPT ![t] = @ - 1]
  /\ Goto(t, "pause")
  /\ UNCHANGED <<prog, sync, sleeping, idle, seen, wake, rest>>

ClearIdle(t) ==
  /\ At(t, "unidle")
  /\ idle' = idle \ {t}
  /\ Goto(t, "top")
  /\ UNCHANGED <<prog, signal, seen, wake, rest>>

-----------------------------------------------------------------------------
WakeStep(a) == MailSync(a) \/ MailTest(a) \/ WakeClear(a) \/ WakeSync(a) \/ WakePipe(a)

SchedStep(t) == \/ Top(t) \/ Sleep(t) \/ Check(t) \/ SetIdle(t) \/ TestPending(t)
                \/ Look(t) \/ Decide(t) \/ Pause(t) \/ Read(t) \/ ClearIdle(t)
                \/ \E p \in Procs : Dispatch(t, p) \/ Steal(t, p)

Leave(t) == \E p \in Procs : Block(t, p) \/ Yield(t, p) \/ Call(t, p) \/ Shutdown(t, p)

PoolStep(w) == \/ Uncount(w) \/ Mitigate(w)
               \/ \E p \in Procs, u \in Threads : Return(w, p, u)

ProgramStep(t) == \/ Leave(t)
                  \/ \E q \in Procs : Ready(t, q) \/ \E u \in Threads : Mail(t, q, u)

Ended == exit # "no" /\ UNCHANGED vars

Next == \/ \E a \in Actors : WakeStep(a)
        \/ \E t \in Threads : SchedStep(t) \/ ProgramStep(t)
        \/ \E w \in Workers : PoolStep(w)
        \/ Ended

Spec == Init /\ [][Next]_vars

\* Threads run; a process does not keep its thread for ever (it is descheduled
\* when the batch's dispatches are used up); system calls return.
FairSpec == /\ Spec
            /\ \A a \in Actors : WF_vars(WakeStep(a))
            /\ \A t \in Threads : WF_vars(SchedStep(t)) /\ SF_vars(Leave(t))
            /\ \A w \in Workers : WF_vars(PoolStep(w))

-----------------------------------------------------------------------------
(* Properties                                                              *)

Stopped == \A p \in Procs : ps[p] \in {"blocked", "done"}

\* The program is ended, with a deadlock report or after Y_shutdown, only when
\* there are no processes to run: none ready, in the mail or in a system call.
EndSound == exit # "no" => Stopped

\* A program that has stopped is ended: the deadlock is reported.
DeadlockReported == Stopped ~> exit # "no"

\* A program that has shut down and stopped does not hang: it is not the case
\* that all threads sit in read() on empty pipes with nobody about to write
\* one.  The wake in bsc_cleanup_job is there for this.
ShutdownNotStalled ==
  shutdown /\ Stopped /\ exit = "no" =>
    \/ \E t \in Threads : pc[t] # "read" \/ pipe[t] > 0
    \/ \E w \in Workers : pc[w] # "none"

\* A process in the mail of a thread runs, or the program is ended first.
MailRuns == \A p \in Procs : ps[p] = "mail" ~> (ps[p] # "mail" \/ exit # "no")
==============================================================================
