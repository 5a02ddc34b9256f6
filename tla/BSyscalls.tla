------------------------------ MODULE BSyscalls ------------------------------
(***************************************************************************)
(* Blocking system calls (bsyscalls.c): a pool of worker threads executes  *)
(* the calls that processes dispatch, and a call made through the killable *)
(* interface can be terminated by another process.                         *)
(*                                                                         *)
(* A critical section of the pool's mutex is one step.  The word through   *)
(* which a call is killed, and the counters changed outside the mutex, are *)
(* accessed in steps of their own; memory is sequentially consistent.  A   *)
(* kill cancels the thread that it finds through the call's batch; what it *)
(* finds may be out of date (Prompt, below).                               *)
(* bsyscalls_destroy_clones and bsyscalls_recover_dead_threads are never   *)
(* called in the builds that have this file, so a worker ends only when it *)
(* is cancelled.                                                           *)
(***************************************************************************)
EXTENDS Naturals, Sequences, FiniteSets, SequencesExt

CONSTANTS Jobs,          \* processes, each with at most one call at a time
          Killable,      \* those that use the killable interface
          Batches,       \* batches of the schedulers, for killable calls
          Workers,       \* thread identifiers
          Single,        \* the pool serves one affinity (number # 0)
          MaxThreads,    \* MAX_BSC_THREADS (1024)
          MaxKills,      \* bound: kills of one call
          MaxFaults,     \* bound: timed waits that run out, and failures of pthread_create
          None           \* no job, no thread

ASSUME BscAssumption ==
  /\ Killable \subseteq Jobs /\ Single \in BOOLEAN /\ IsFiniteSet(Workers) /\ IsFiniteSet(Jobs)
  /\ MaxThreads \in Nat \ {0} /\ MaxKills \in Nat \ {0} /\ MaxFaults \in Nat
  /\ None \notin Jobs \cup Workers \cup Batches /\ Jobs \cap {0, 1, 2} = {}

VARIABLES
  queue,      \* fptr: calls to be executed
  waiting,    \* threads that are thought to wait
  running,    \* threads that are thought to exist
  toReap,     \* dead and to_reap: a thread that ended and is not joined
  pending,    \* calls under way
  pc,         \* where each thread is
  job,        \* the call it executes
  dying,      \* it was cancelled, or has called pthread_exit
  joins,      \* the thread it has to join
  word,       \* the word through which each call is killed; j: its batch
  killer,     \* where bsyscall_kill is, for each call
  batch,      \* the batch of the last call of each process: job
  target,     \* job->bsc.thread, of each batch
  kills,      \* how often a kill of this call was tried
  early,      \* history: ... before its thread had looked at the word
  ran,        \* history: the function of this call was called
  resumed,    \* times that the process was scheduled since its last call
  minutes,    \* timed waits that have run out so far
  failures    \* failures of pthread_create so far

pool   == <<queue, waiting, running, toReap>>
thread == <<pc, job, dying, joins>>
kill   == <<word, killer, batch, target, kills>>
past   == <<early, ran, resumed>>
faults == <<minutes, failures>>
vars   == <<pool, pending, thread, kill, past, faults>>

Unused == {w \in Workers : pc[w] = "none"}
Limit == IF Single THEN 1 ELSE MaxThreads
Live  == {w \in Workers : pc[w] \notin {"none", "join", "ended"}}

TypeOK ==
  /\ queue \in Seq(Jobs) /\ waiting \in 0 .. Cardinality(Workers) + MaxFaults
  /\ running \in 0..Limit /\ toReap \in Workers \cup {None}
  /\ pending \in 0 .. Cardinality(Jobs) + Cardinality(Workers)
  /\ pc \in [Workers -> {"none", "lock", "wait", "take", "call", "cas", "skip", "lost", "done",
                         "resume", "count", "leave", "dec", "join", "ended"}]
  /\ job \in [Workers -> Jobs \cup {None}] /\ dying \in [Workers -> BOOLEAN]
  /\ joins \in [Workers -> Workers \cup {None}]
  /\ word \in [Jobs -> Jobs \cup {0, 1, 2}] /\ killer \in [Jobs -> {"off", "reset", "cancel"}]
  /\ batch \in [Jobs -> Batches \cup {None}] /\ target \in [Batches -> Workers \cup {None}]
  /\ kills \in [Jobs -> 0..MaxKills]
  /\ early \subseteq Jobs /\ ran \subseteq Jobs /\ resumed \in [Jobs -> 0..2]
  /\ minutes \in 0..MaxFaults /\ failures \in 0..MaxFaults

\* bsyscalls_create_clones; no process is in a call.
Init ==
  /\ queue = <<>> /\ waiting = 0 /\ running = 0 /\ toReap = None /\ pending = 0
  /\ pc = [w \in Workers |-> "none"] /\ job = [w \in Workers |-> None]
  /\ dying = [w \in Workers |-> FALSE] /\ joins = [w \in Workers |-> None]
  /\ word = [j \in Jobs |-> 0] /\ killer = [j \in Jobs |-> "off"]
  /\ batch = [j \in Jobs |-> None] /\ target = [b \in Batches |-> None]
  /\ kills = [j \in Jobs |-> 0]
  /\ early = {} /\ ran = {} /\ resumed = [j \in Jobs |-> 1]
  /\ minutes = 0 /\ failures = 0

Set(f, x, v) == f' = [f EXCEPT ![x] = v]
To(w, l)     == Set(pc, w, l)

-----------------------------------------------------------------------------
(* kernel_bsc_dispatch and bsyscall_dispatch, by the thread that runs the  *)
(* process.  A batch is allocated for the call; which one matters only to  *)
(* killable calls, as only these write bsc.thread.  The occam              *)
(* libraries give every killable call a channel word of its own (0); a     *)
(* kill of it may come before, during or after the call, and returns       *)
(* before the process goes on to the next one.                             *)

\* Mutant: no thread is signalled.
WakeNobody == waiting > 0 /\ waiting' = waiting - 1 /\ UNCHANGED <<pc, running, failures>>

\* A waiting thread is woken, or a new one is created while there may be
\* more; else the call waits for a thread that has finished another one.
Wake ==
  /\ waiting > 0 /\ waiting' = waiting - 1
  /\ \/ \E w \in Workers : pc[w] = "wait" /\ To(w, "lock")
     \/ (\A w \in Workers : pc[w] # "wait") /\ UNCHANGED pc
  /\ UNCHANGED <<running, failures>>
\* Mutant: the limit is not tested.
CreateMore ==
  /\ waiting = 0 /\ \E w \in Unused : To(w, "lock")
  /\ running' = running + 1 /\ UNCHANGED <<waiting, failures>>

Create ==
  /\ waiting = 0 /\ running < Limit
  /\ \/ /\ \E w \in Unused : To(w, "lock")
        /\ running' = running + 1 /\ UNCHANGED failures
     \/ /\ running > 0 /\ minutes + failures < MaxFaults   \* else the program ends
        /\ failures' = failures + 1 /\ UNCHANGED <<running, pc>>
  /\ UNCHANGED waiting
Full == waiting = 0 /\ running >= Limit /\ UNCHANGED <<waiting, running, pc, failures>>

\* allocate_batch: any batch but those of calls in progress; bsc_cleanup_job
\* has handed back (schedule_batch) those of earlier calls.
Allocate(j) ==
  \/ /\ j \in Killable
     /\ \E b \in Batches : /\ \A k \in Killable : resumed[k] = 0 => batch[k] # b
                          /\ Set(batch, j, b)
  \/ j \notin Killable /\ UNCHANGED batch

Dispatch(j) ==
  /\ resumed[j] = 1 /\ killer[j] = "off"
  /\ pending' = pending + 1 /\ queue' = Append(queue, j)
  /\ Allocate(j) /\ (Wake \/ Create \/ Full)
  /\ \E k \in (IF j \in Killable THEN BOOLEAN ELSE {FALSE}) :   \* killed before it began
       /\ Set(word, j, IF k THEN 1 ELSE 0) /\ Set(kills, j, IF k THEN 1 ELSE 0)
       /\ early' = IF k THEN early \cup {j} ELSE early
  /\ Set(resumed, j, 0) /\ UNCHANGED ran
  /\ UNCHANGED <<toReap, job, dying, joins, killer, target, minutes>>

-----------------------------------------------------------------------------
(* bsc_thread                                                              *)

\* With the mutex: the next call is taken, or the thread waits.
Lock(w) ==
  /\ pc[w] = "lock"
  /\ \/ /\ queue # <<>> /\ queue' = Tail(queue) /\ Set(job, w, Head(queue))
        /\ To(w, IF Head(queue) \in Killable THEN "take" ELSE "call")
        /\ ran' = IF Head(queue) \in Killable THEN ran ELSE ran \cup {Head(queue)}
        /\ UNCHANGED waiting
     \/ /\ queue = <<>> /\ waiting' = waiting + 1 /\ To(w, "wait")
        /\ UNCHANGED <<queue, job, ran>>
  /\ UNCHANGED <<running, toReap, pending, dying, joins, kill, early, resumed, faults>>

\* pthread_cond_timedwait of pool 0 returns ETIMEDOUT.  The code tests for a
\* negative result, and goes on as if it had been signalled.
Timeout(w) ==
  /\ pc[w] = "wait" /\ ~Single /\ minutes + failures < MaxFaults
  /\ minutes' = minutes + 1
  /\ To(w, "lock") /\ UNCHANGED <<pool, pending, job, dying, joins, kill, past, failures>>

\* A killable call: the job goes into its word.  If a kill came first (1) the
\* function is not called.
Take(w) ==
  /\ pc[w] = "take"
  /\ LET j == job[w] IN
     /\ Set(target, batch[j], w) /\ Set(word, j, j)
     /\ IF word[j] \in {0, 2} THEN To(w, "call") /\ ran' = ran \cup {j}
                              ELSE To(w, "skip") /\ UNCHANGED ran
  /\ UNCHANGED <<pool, pending, job, dying, joins, killer, batch, kills, early, resumed, faults>>

\* The function returns.
Return(w) ==
  /\ pc[w] = "call"
  /\ To(w, IF job[w] \in Killable THEN "cas" ELSE "resume")
  /\ UNCHANGED <<pool, pending, job, dying, joins, kill, past, faults>>

\* Mutant: the word is reset without a look at it.
FinishBlind(w) ==
  /\ pc[w] \in {"cas", "skip"} /\ To(w, "done") /\ Set(word, job[w], 0)
  /\ UNCHANGED <<pool, pending, job, dying, joins, killer, batch, target, kills, past, faults>>

\* The end of the cancellable region: a CAS, or a swap if nothing was called.
Finish(w) ==
  /\ pc[w] \in {"cas", "skip"}
  /\ LET j == job[w] IN
     /\ To(w, IF word[j] = j THEN "done" ELSE "lost")
     /\ Set(word, j, IF pc[w] = "skip" THEN 2 ELSE IF word[j] = j THEN 0 ELSE word[j])
  /\ UNCHANGED <<pool, pending, job, dying, joins, killer, batch, target, kills, past, faults>>

\* Somebody is about to cancel this thread, but has not done so: "killable
\* bsyscall reached bad place", and pthread_exit.
ExitSelf(w) ==
  /\ pc[w] = "lost"
  /\ Set(dying, w, TRUE)
  /\ To(w, "done") /\ UNCHANGED <<pool, pending, job, joins, kill, past, faults>>

\* bsc_cleanup_job: the word of a killable call is reset, the process is
\* scheduled, and the call is no longer counted.
ResetWord(w) ==
  /\ pc[w] = "done"
  /\ Set(word, job[w], 0)
  /\ To(w, "resume")
  /\ UNCHANGED <<pool, pending, job, dying, joins, killer, batch, target, kills, past, faults>>

Resume(w) ==
  /\ pc[w] = "resume"
  /\ resumed' = [resumed EXCEPT ![job[w]] = IF @ = 2 THEN 2 ELSE @ + 1]
  /\ early' = early \ {job[w]} /\ ran' = ran \ {job[w]}
  /\ Set(job, w, None)
  /\ To(w, "count") /\ UNCHANGED <<pool, pending, dying, joins, kill, faults>>

\* Mutant: the handler of a cancelled thread does not count.
UncountLiving(w) ==
  /\ pc[w] = "count" /\ pending' = IF dying[w] THEN pending ELSE pending - 1
  /\ To(w, IF dying[w] THEN "leave" ELSE "lock")
  /\ UNCHANGED <<pool, job, dying, joins, kill, past, faults>>

Uncount(w) ==
  /\ pc[w] = "count"
  /\ pending' = pending - 1
  /\ To(w, IF dying[w] THEN "leave" ELSE "lock")
  /\ UNCHANGED <<pool, job, dying, joins, kill, past, faults>>

\* Mutant: the thread before it is forgotten.
LeaveAlone(w) ==
  /\ pc[w] = "leave" /\ toReap' = w /\ To(w, "dec")
  /\ UNCHANGED <<queue, waiting, running, pending, job, dying, joins, kill, past, faults>>

\* bsc_cleanup_prepool and bsc_cleanup_pool: with the mutex, the thread
\* leaves itself to be joined and takes over the one before it.
Leave(w) ==
  /\ pc[w] = "leave"
  /\ Set(joins, w, toReap) /\ toReap' = w
  /\ To(w, "dec")
  /\ UNCHANGED <<queue, waiting, running, pending, job, dying, kill, past, faults>>

Dec(w) ==
  /\ pc[w] = "dec"
  /\ running' = running - 1
  /\ To(w, IF joins[w] = None THEN "ended" ELSE "join")
  /\ UNCHANGED <<queue, waiting, toReap, pending, job, dying, joins, kill, past, faults>>

\* pthread_join returns when the other thread has ended; its identifier may
\* be used again.
Join(w) ==
  /\ pc[w] = "join" /\ pc[joins[w]] = "ended"
  /\ pc' = [pc EXCEPT ![w] = "ended", ![joins[w]] = "none"]
  /\ dying' = [dying EXCEPT ![joins[w]] = FALSE]
  /\ Set(joins, w, None)
  /\ UNCHANGED <<pool, pending, job, kill, past, faults>>

-----------------------------------------------------------------------------
(* bsyscall_kill, by a process that shares the word                        *)

NotStarted(j) == j \in ToSet(queue) \/ \E w \in Workers : job[w] = j /\ pc[w] = "take"

KillSwap(j) ==
  /\ j \in Killable /\ killer[j] = "off" /\ kills[j] < MaxKills
  /\ Set(word, j, 1) /\ Set(kills, j, kills[j] + 1)
  /\ Set(killer, j, IF word[j] = j THEN "cancel" ELSE IF word[j] = 2 THEN "reset" ELSE "off")
  /\ early' = IF NotStarted(j) THEN early \cup {j} ELSE early
  /\ UNCHANGED <<pool, pending, thread, batch, target, ran, resumed, faults>>

\* The thread has already terminated the call: the word is free again.
KillReset(j) ==
  /\ killer[j] = "reset"
  /\ Set(word, j, 0) /\ Set(killer, j, "off")
  /\ UNCHANGED <<pool, pending, thread, batch, target, kills, past, faults>>

\* The cancellable region, in which both handlers of the call are pushed.
Region == {"call", "cas", "skip", "lost"}
InRegion(w, j) == job[w] = j /\ pc[w] \in Region
Guarded(w)     == \E j \in Killable : InRegion(w, j)

\* An asynchronous cancellation: the handlers run, from bsc_cleanup_job if it is
\* pushed (just before the region and just after it, it may be), else only
\* bsc_cleanup_pool, and what the thread was doing is left undone.  A thread
\* that is exiting takes no notice.
Cancel(w) ==
  /\ Set(dying, w, TRUE)
  /\ \/ /\ Guarded(w) \/ (job[w] \in Killable /\ pc[w] \in {"take", "done"})
        /\ To(w, "done") /\ UNCHANGED job
     \/ /\ ~Guarded(w)
        /\ To(w, "leave") /\ Set(job, w, None)

\* pthread_cancel, of the thread that bsc.thread of the call's batch names by
\* then.  Nothing keeps the batch for the killer: it may have been handed back
\* and be in use by another call, and an identifier that was joined may be that
\* of a new thread.
KillCancel(j) ==
  /\ killer[j] = "cancel"
  /\ Set(killer, j, "off")
  /\ LET w == target[batch[j]] IN
     IF dying[w] \/ pc[w] = "none" THEN UNCHANGED <<pc, job, dying>> ELSE Cancel(w)
  /\ UNCHANGED <<pool, pending, joins, word, batch, target, kills, past, faults>>

Step(w) == Lock(w) \/ Take(w) \/ Finish(w) \/ ExitSelf(w) \/ ResetWord(w) \/ Resume(w)
           \/ Uncount(w) \/ Leave(w) \/ Dec(w) \/ Join(w)

Next == \/ \E w \in Workers : Step(w) \/ Return(w) \/ Timeout(w)
        \/ \E j \in Jobs : Dispatch(j) \/ KillSwap(j) \/ KillReset(j) \/ KillCancel(j)

Spec == Init /\ [][Next]_vars

\* A kill is prompt if, before its pthread_cancel, the batch it has read from the
\* word is not given to another killable call, nor the identifier of a thread
\* that was joined to a new one.  The code does not see to it: it is what a
\* scheduler thread that is not held up between two instructions achieves.
Prompt ==
  \A j \in Killable : killer[j] = "cancel" =>
    /\ \A k \in Killable : resumed[k] = 1 /\ resumed'[k] = 0 => batch'[k] # batch[j]
    /\ pc[target[batch[j]]] = "none" => pc'[target[batch[j]]] = "none"

PromptSpec == Init /\ [][Next /\ Prompt]_vars

\* A thread runs when it can, and system calls return.
FairSpec == PromptSpec /\ \A w \in Workers : WF_vars(Step(w) \/ Return(w))

-----------------------------------------------------------------------------
(* Properties                                                              *)

Count(S) == Cardinality(S)
Places(j) == Count({i \in DOMAIN queue : queue[i] = j}) + Count({w \in Workers : job[w] = j})

\* A process in a blocking call is queued or held by one thread, and is
\* scheduled exactly once, however its call ends: the function returns, the
\* thread is cancelled, or it finds that it has been killed (bsc_cleanup_job
\* runs as a cleanup handler or in line, never both).
ResumedOnce == \A j \in Jobs : resumed[j] <= 1 /\ Places(j) = 1 - resumed[j]

\* The count of pending calls, by which the kernel decides between sleep and
\* deadlock (bsyscalls_pending), is exact: nothing is lost when a thread is
\* cancelled.
PendingExact ==
  pending = Len(queue) + Count({w \in Workers : job[w] # None \/ pc[w] = "count"})

\* Each call ends once, and is counted until then.
CallOnce == ResumedOnce /\ PendingExact

\* A call that was killed before its thread looked at the word never calls
\* its function (the swap of bsc_thread sees the 1 left by bsyscall_kill).
KilledNotRun == early \cap ran = {}

\* While bsyscall_kill is between its swap and pthread_cancel, the thread that it
\* will cancel is in the cancellable region of the call that was killed, or is
\* exiting, or has ended: it does not go on to another call, and no other thread
\* takes its place.
CancelsOwn ==
  \A j \in Jobs : killer[j] = "cancel" =>
    LET w == target[batch[j]] IN InRegion(w, j) \/ dying[w] \/ pc[w] = "none"

\* What a kill may and may not do, whenever it comes, if it is prompt.
KillSound == KilledNotRun /\ CancelsOwn

\* The pool's count of threads is exact, and each thread that ends is joined
\* once: it is the one left in to_reap, or exactly one other thread will join it.
ReapedOnce ==
  /\ running = Count(Live)
  /\ \A w \in Workers :
       Count({x \in Workers : joins[x] = w}) + (IF toReap = w THEN 1 ELSE 0)
         = IF pc[w] \in {"dec", "join", "ended"} THEN 1 ELSE 0

\* Each queued call has a thread on its way to it, or all threads that the
\* pool may have are busy: no call waits behind one that never returns while
\* another thread could be created (bsyscall_dispatch).
Covered ==
  Len(queue) <= Count({w \in Workers : pc[w] = "lock"}) \/ running >= Limit

\* It is so until a thread's timed wait runs out, pthread_create fails, or a
\* thread is killed.
CoveredAtFirst ==
  minutes = 0 /\ failures = 0 /\ (\A w \in Workers : ~dying[w]) => Covered

\* If functions return, each call is answered, also when waits run out and
\* threads cannot be created; a killed thread takes no further part.
Answered ==
  \A j \in Jobs : resumed[j] = 0 ~> (resumed[j] = 1 \/ \E w \in Workers : dying[w])
=============================================================================
