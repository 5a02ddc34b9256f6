# A TLA+ model of the CCSP run-time kernel

KRoC is an occam-pi tool chain: a compiler (`tools/occ21`), a translator to
native code (`tools/tranx86`), linkers and library tools, two run-time systems
(`runtime/ccsp` for native code, `runtime/libtvm` for interpreted bytecode),
occam libraries (`modules/`), tests and demonstrations. The part in which the
hard behaviour lives is **CCSP**, the multiprocessor scheduler and
synchronisation kernel: `runtime/ccsp/kernel/sched.c` and the few files around
it. A program consists of thousands of cooperatively scheduled *processes*,
each a workspace pointer (`Wptr`); a handful of POSIX threads, each with a
`sched_t`, run them; and all communication between processes goes through
kernel calls that manipulate single shared words with atomic instructions and
no locks. This project models that kernel.

Paths below are relative to the repository; `sched.c`, `bsyscalls.c` and
`deadlock.c` are under `runtime/ccsp/kernel/`, `userproc.c` under
`runtime/ccsp/common/`.

## 1. Inventory

### CCSP, the kernel

| part (lines of `sched.c` unless said otherwise) | state | operations | what makes it hard | what makes it correct |
|---|---|---|---|---|
| Semaphores (2428-2566) | `fptr`, `bptr` with the lock in bit 0, `Wptr[Link]` | `sem_init`, `sem_claim`, `sem_release`, `sem_dequeue` | lock-free queue that can be seen half made; lock given away and taken back by whoever notices | one holder; lock never lost; no waiter forgotten; FIFO; no process run twice |
| Channels (4680-5100) | one word per channel, `Wptr[Pointer]` | input, output, extended input (`Y_xable`, `Y_xin`, `X_xend`) | both ends arrive together; a channel may hold an ALT | each output is received once and both ends resume |
| ALT (5100-5760, `trigger_alt_guard`) | `Wptr[State]` (count and flags, *the same word* as Pointer), `Wptr[Temp]` | `alt`, `enbc`, `altwt`, `disc`, `altend`, timer and skip guards | a writer triggers at any point of enable/wait/disable; late triggers after the end | the count is exact; the process is resumed once; a ready guard is selected |
| Run queues, batches, migration (380-560, 700-820, 890-1180) | `curb`, `rq` with its pending batch, `mw` (migration window), `mwstate`, the state word of a batch, `free`/`laundry` | push, pull, migrate, dirty/clean hand-over | thief and owner race for a batch; memory may be reused only when both are done | each batch is run by one thread; no reuse too early |
| Mail (560-720, 840-930) | `bmail`, `pmail` (lock-free queues), `sync` | `mail_batch`, `mail_process`, `schedule_batch` | half-made queue; wakeup racing with going to sleep | FIFO, nothing lost, no lost wakeup |
| Idling, deadlock detection, exit (1820-2020, `userproc.c`, `deadlock.c`) | `sleeping_threads`, `idle_threads`, signalling pipes, `ccsp_shutdown` | `kernel_scheduler`, `ccsp_wake_thread`, `ccsp_safe_pause`, `ccsp_kernel_deadlock` | a global predicate computed from several words that others change | the program is ended if and only if it has stopped |
| Timers (1181-1389, 5054-5110, 5249-5300, 5560-5680, 5862-5975) | per-thread list `tq_fptr`..`tq_bptr` of nodes | delay, timer guards, walk, remote removal | removal by another thread races with expiry; wrapping time | a guard fires or is removed, once; nodes freed once; order |
| Barriers (2568-2895), fork and mobile-process barriers (2899-3083) | `state` = count, tag, syncing flag; a head per thread | enroll, resign, sync, complete | next phase starts while the last one is still being released | all enrolled or nobody; no process left behind |
| Mobile types (3098-3600) | reference counts, two semaphores per channel bundle | alloc, clone, release, channel-end claim | sharing | freed once |
| Processes (startp, endp, ...) | count in the parent's workspace | start, end, pause | one atomic counter | the parent resumes after the last child |
| Blocking calls (`bsyscalls.c`) | pools: job queue, `waiting`, `running`, `dead`; `pending` | dispatch, run, clean up, kill | pool threads against schedulers; cancellation; time-outs | each call's process is rescheduled once; the count is exact |
| Dynamic and mobile processes, allocators, start-up, statistics, debug output | loader and allocator structures | | sequential, or I/O | not modelled |

The parts interact through three things: *run queues* (every operation that
resumes a process ends in `enqueue_process` or `mail_process`), the *sync word
and sleeping mask* of each thread (every hand-over to another thread ends in a
wakeup), and workspace slots that are used in turn by the queue of a semaphore,
a channel, an ALT and a run queue, so that a late access by one of them is an
access to another's data.

### Around the kernel

`libkrocif` joins the top-level channels to the terminal. `libtvm` interprets
the same instructions in one thread, so it has none of the interleavings.
`occ21`, `tranx86` and the linkers are sequential translators; they matter here
because they fix the order in which kernel calls are made (an ALT enables its
guards in order and disables them in reverse: `tools/occ21`, gen10.c).
`modules/cif` gives C programs the same kernel calls in other orders, which is
modelled because the kernel distinguishes them. `PROJECT.json` lists every
component with the reason where it is left out.

## 2. Modules

| module | what it is |
|---|---|
| `FifoMutex` | abstract: what a semaphore promises (one holder, FIFO) |
| `Semaphore` | `sem_*`, one step per access to shared memory; implements `FifoMutex` |
| `SemaphoreProof` | theorems about `Semaphore`, and that it implements `FifoMutex` |
| `ChanAlt` | channels, extended input and ALT, with three orders of calls (`Style`) |
| `ChanAltProof` | theorems about `ChanAlt` with the calls of compiled occam |
| `MailQueue`, `MCMailQueue` | one thread's mail queue with sleeping and waking |
| `MailQueueProof` | theorems about `MailQueue` |
| `IdleThreads`, `MCIdleThreads` | all threads: going idle, waking, deadlock detection, shutdown, pending calls |
| `IdleThreadsProof` | theorems about `IdleThreads` |
| `Migration`, `MCMigration` | batches, run queues, the migration window, batch memory |
| `MigrationProof` | theorems about `Migration` |
| `PhaseBarrier` | abstract: what a barrier promises (all enrolled or nobody) |
| `Barrier` | `bar_*`, one step per access to shared memory; implements `PhaseBarrier` |
| `BarrierProof` | theorems about `Barrier`, and that it implements `PhaseBarrier` |
| `MprocBarrier` | the barrier of a mobile process, `mproc_bar_*` |
| `BSyscalls` | a pool of threads for blocking calls, with kill and cancellation |
| `BSyscallsProof` | theorems about `BSyscalls` |
| `TimerQueue`, `MCTimerQueue` | timer queues, timer inputs and timer guards of ALTs |
| `TimerQueueProof` | theorems about `TimerQueue` |

The modules cut the kernel where one part uses no more of another than it
promises. `IdleThreads` takes a thread's mail as a set and a steal as one step,
which `MailQueue` (in order, none lost, no wakeup lost) and `Migration` (each
batch run by one thread) justify, and ends calls in the order that `BSyscalls`
has in detail (process made ready, then uncounted, then the wake for shutdown).
`TimerQueue` has the enabling of a channel guard as one step, which `ChanAlt` has
in detail, and adds to it the guard that can be taken away by two threads.

All modules treat one read, write or atomic operation on a shared word as a step
and memory as sequentially consistent: the code places barriers around these
accesses, and on the x86 targets only a store followed by a load of another
word can be reordered, which the locked operations prevent where it matters.
C locals that are dead have a fixed value, to keep the state space small.
Operators that a comment calls *mutant* are deliberately wrong variants of the
action that follows them; no specification uses them. Each shows that some
property depends on the detail the variant leaves out.

### Semaphore

`bptr` is a record of the pointer and bit 0; `fptr`, `link` are the words of the
same names. A *thread* executes a kernel call for the process `wptr[t]`; as soon
as the CAS in `sem_claim` has published the workspace, another thread may resume
that process while the first finishes the call, so `wptr` is dropped at
`ClaimLink` and the process belongs to the queue. `Claim .. ClaimBit` are
`sem_claim`, `Dequeue*` and `EnqueueGranted` `sem_dequeue` and its caller,
`Release`, `ReleaseCas` `sem_release`. The scheduler is a set `ready`.
`TestOutcomes` deserves a word: after giving the lock away `sem_dequeue` reads a
link again that may meanwhile belong to a process that has left the queue; what
it reads then is arbitrary, and the model lets it be anything. `order` and `pst`
are history: the queued processes in the order of the successful CASes, and who
holds.

### ChanAlt

One inputting process (`Reader`), and a writer per channel. The channel word is
"none", "writer", "reader" or "alt" (the tagged workspace); `slot` is the word
that is Pointer during an input and State during an ALT, with the count and the
flags ENABLING, WAITING, NOT_READY as fields. Processes run in parallel: the
number of threads would only restrict the interleavings. `Style = "enbc3"` is
compiled occam, `"procalt"` and `"raw"` the two ways in which C programs drive
the same kernel calls. Payloads are one bit that alternates with each output,
enough to tell a lost or a doubled communication.

### MailQueue

`Send .. LinkIn` are `mail_process` with `atomic_enqueue_to_runqueue`, `SetSync`,
`TestSleeping` its end, `Wake*` `ccsp_wake_thread`; `Top .. Advance` the owner's
loop with `atomic_dequeue_from_runqueue`, `Sleep .. Read` its way into
`ccsp_safe_pause`. The pipe is non-blocking and bounded (`PipeCap`); a byte that
does not fit is dropped, as in the code. `sent` is history.

### IdleThreads

`kernel_scheduler` from an empty run queue on: `Sleep`, `Check`, `SetIdle`,
`TestPending`, `Look` and `Decide` (two reads of one expression), `Pause`, `Read`,
`ClearIdle`. What processes do is arbitrary: block, yield, ready or mail another
process, make a system call, shut down. Affinities are chosen at the start from
`Affinities` and kept: a process is mailed only when its affinity excludes the
thread that readies it, and stolen only when it has none, so that mail and
migration do not mix in ways the code cannot. Pool threads (`Workers`) end calls:
`Return` (`schedule_batch`), `Uncount`, `Mitigate` (`bsc_cleanup_job`). The mail
queue is a set here, which `MailQueue` justifies (the pipes are as there: bounded,
each byte counted, and one that does not fit is dropped): mail stays in order, none is
lost, and no wakeup is lost. A steal is one step. A thread visits
`kernel_scheduler` after each process; the code may first run others of the same
batch, which here is one process that runs longer. No process waits for a timer
and there is no external event handler (with either, the code does not come to
the deadlock check). In `Decide` the C expression leaves the order of its two
reads open; the model reads `idle_threads` first, as the code is written and
as compilers order these volatile accesses.

### Migration

`curb`, `rq`, `pend`, `free`, `laundry` are a thread's own; `data` and `mw` are the
slots and the state word of its migration window, `mwstate` its bit in the word
that tells thieves where to look, `dirty`, `win`, `procs` the fields of a batch.
The *owner* makes batches (`EndOfCurb`, `PushCurb`, `Wake`, `QueueFar`), shows them
in four steps (`ReadState`, `Show`, `WriteState`, `MarkWork`: the state word is
written from a copy that thieves may have overtaken) and takes them back (`Pull`,
`ClearRead`, `ClearWrite`, `PullPending`). The *thief* goes `Choose`, `Look`,
`ClearBit`, `Take`, `Gone`, `Hide`, `LoadRemote`. `Allocate` and `NoWork` are the
batch memory: free list, laundry, allocator. The size of the window is a
compile-time constant of the code; here it is a variable that never changes, so
that one run looks at several sizes. Which process of a batch runs, for how many
dispatches, and whether a batch is split, is left open.

### PhaseBarrier and Barrier

`state` is the record of the three fields that the code packs into one word;
`heads` and `head` are the words of the same names, a head being the set of its
processes and its tag. `Sync .. Count` are `bar_sync`, `Resign .. ResignCas`
`bar_resign`, `AddCount`, `Release` `bar_complete_head`, `TakeHeads .. End`
`bar_complete`. `enrolled` and `synced` are what `PhaseBarrier` sees: a phase ends
with the CAS that sets the syncing flag. Processes are enrolled only by a process
that has not come, as the compiler has it.

### MprocBarrier

`enrolled`, `state`, `fptr`, `bptr` are the words of `mproc_bar_t`, `link` and `temp` the
workspace words it uses. `Sync .. Cas` are `mproc_bar_sync`, `Reset` and `Enqueue`
`mproc_bar_complete`, `Resign .. ResignLast` `mproc_bar_resign`; each process runs on a
thread of its own. The calls come in the order of `MPBARSYNC` and `MPBARRESIGN`
(`occampi.occ`): the process that is told that it is the last (`temp`) is suspended
with the mobile process and synchronises again when that is activated.

### BSyscalls

`queue`, `waiting`, `running`, `toReap` are the pool, changed in critical sections
of its mutex that are one step each (`Dispatch` with `Wake`, `Create` or `Full`;
`Lock`; `Leave`). A thread of the pool goes `Lock`, `Take`, `Return`, `Finish`, and
through `ResetWord`, `Resume`, `Uncount` back to `Lock`; when it was cancelled
(`dying`) it runs the cleanup handlers instead and ends in `Leave`, `Dec`, `Join`.
`word` is the channel word by which a call is killed, which the thread swaps and
CASes and `bsyscall_kill` swaps (`KillSwap`, `KillReset`, `KillCancel`).

The job in that word is a scheduler's batch. `batch` is the one that each call has,
which is free again when its process is scheduled (`Allocate`), and `target` its
`bsc.thread`, which the thread of the next killable call on it overwrites (`Take`).
`KillCancel` cancels the thread that `target` names by then, whatever that thread is
doing: with both handlers pushed (`Guarded`) the process is resumed by them; just
before and after the cancellable region it may or may not be; anywhere else the
thread leaves the pool and what it was doing is left undone (`Cancel`). Nothing
happens if it is exiting already or no thread has the identifier.

There are two specifications. `Spec` lets a kill be held up between its swap and its
`pthread_cancel` for as long as it takes. In `PromptSpec` kills are *prompt*
(`Prompt`): until a kill has cancelled, no killable call begins on the batch it has
read, and no new thread has the identifier of the one it is for. Everything else is
still possible in between; in particular the function may return, the thread may
find itself killed, and the process may be scheduled. The code does not ensure
`Prompt`. A scheduler thread that is not held up between these instructions achieves
it. One process with killable calls is enough to need it: its batch cannot be taken,
but the identifier of its thread can be joined and given to a new one. The
invariants hold under `PromptSpec`; without it they do not (finding 3).

Two facts that the properties do not show: the branch with the comment "we got
cancelled - shouldn't be here" is reached when a kill comes between the function's
return and the CAS; and when the only thread of a full pool is killed, calls in
the queue wait for the next dispatch to create a thread, which is why
`CoveredAtFirst` and `Answered` except killed threads.

### TimerQueue

Each thread's `queue` is the list of its nodes; a node has `wptr` (who waits; taken
by a swap), `time` and the dirty bit. `Add` is the search from both ends and the
insertion, as one step, since only the thread itself sees the links; that the
search finds the place a plain search would find is an assumption that TLC
evaluates over all short queues (`SearchAssumption`); for a queue of any length
whose times are in order, `SearchFacts` in `TimerQueueProof` proves that the new
time is put between those before and those after it. `Check` and the `Walk*` steps
are the thread's look at its queue, `RemoveNode`, `DistSet`, `DistArmed`,
`DistFired` the removal of a guard, on the same thread or on another one. `Keep` is
what is left of a list when nodes are unlinked. Times are
modulo `Period` and compared as the code does. The order is right as long as no
two times in a queue are half the range apart, which `TimerAssumption` states of the
longest delay and of how late a timer is seen; in the code that is 35 minutes
with a microsecond clock of 32 bits, and nothing checks it.

`MCTimerQueue` takes states as one that differ in the origin of time or in values
nobody reads again (`VIEW`). No action or property looks at either: times occur
only in `After` and `Minus` of one another, and what is in a free node, an idle
process or an ended walk is written before it is read.

## 3. Runs

| run | instance | checks | result |
|---|---|---|---|
| `sem` | 3 processes, 2 threads, fair | `TypeOK`, `MutualExclusion`, `NothingLost`, `IsFifoMutex` (refinement), `WaiterServed` | holds |
| `alt` | 3 channels, compiled occam, fair | `TypeOK`, `EnqueueBlocked`, `StateSound`, `DeliveredOnce`, `SelectionSound`, `AltCompletes`, `InputCompletes` | holds |
| `procalt` | 2 channels, `ProcAlt`, fair | `AltCompletes` | violated: finding 1 |
| `mail_safety` | 3 senders, 3 processes, pipe of 2 | `QueueSound`, `AsleepCovered` | holds |
| `idle_pair` | 2 threads, 2 processes (any affinities), no calls, fair | `TypeOK`, `EndSound`, `DeadlockReported`, `MailRuns` | holds |
| `idle_exit` | 2 threads, 2 processes without affinity, 1 pool thread | `ShutdownNotStalled` | holds |
| `migration` | 2 threads, 3 processes (1 affine), 4 batches, window of 1 or 2 | `TypeOK`, `ScheduledOnce`, `BatchesKept`, `Findable`, `AffineStays` | holds |
| `barrier` | 2 threads, 3 processes (2 at first), fair | `NoEarlyPass`, `CompletionSound`, `NoneForgotten`, `IsBarrier` (refinement), `MadeReady` | holds |
| `mproc` | 3 parts of a mobile process | `ScheduledOnce` | violated: finding 2 |
| `calls` | 3 processes (2 with killable calls, 1 batch), 3 pool threads of which 2 may exist, a kill per call, a timed wait that runs out or a failure of `pthread_create`, prompt kills, fair | `TypeOK`, `CallOnce`, `KillSound`, `ReapedOnce`, `CoveredAtFirst`, `Answered` | holds |
| `kills_late` | 3 processes (2 with killable calls, 2 batches), kills that may be late | `ResumedOnce` | violated: finding 3 |
| `timer` | 2 threads, a process with timer inputs, an ALT of a channel and 2 timers, 2 nodes, clock modulo 8 | `TypeOK`, `Ordered`, `NodeReuse`, `TriggeredOnce`, `GuardSelected` | holds |

Some properties join statements that belong together; the parts keep their names
in the modules: `NothingLost` is `LockConserved`, `ScheduledOnce`, `WaiterCovered`;
`StateSound` is `AltCount`, `AltResumable`; `SelectionSound` is `InputFindsWriter`,
`PriorityKept`; `QueueSound` is `TypeOK`, `QueueShape`, `Fifo`; `BatchesKept` is
`BatchState`, `OnePlace`; `CompletionSound` is `TypeOK`, `CountExact`,
`OneCompleter`; `NoneForgotten` is `OnePlace`, `HeadFound`; `CallOnce` is
`ResumedOnce`, `PendingExact`; `KillSound` is `KilledNotRun`, `CancelsOwn`;
`TriggeredOnce` is `CountExact`, `EnqueueBlocked`.

**Why these bounds.**

* Semaphore: a half-made queue needs an enqueuer between its two stores and a
  dequeuer that meets it. Three processes give a holder and a queue of two, with
  every process in every role; the safety properties also hold for four processes
  on three threads without fairness, an instance that takes longer.
* ALT: two guards are enough for trigger against enable and disable of another
  guard; the third gives a guard that is neither first nor last for
  `PriorityKept`, and two late triggers at once.
* Mail: three senders can be in the three windows (swap, link, signal) at once,
  and a queue of three has a middle.
* Idle: two processes suffice for one to ready or mail the other. *Two threads is
  not a bound of convenience*: `EndSound` fails for three (finding 5). Nor is it one
  that `idle_pair` has no pool threads: with calls `EndSound` and `DeadlockReported`
  fail (findings 6 and 8). So `idle_pair` says nothing about a count of calls that is
  stale when it is used; `IdleOneEndsStopped` does, for one scheduler. The order in
  which a call ends (made ready, uncounted, wake) is exercised in `idle_exit`.
* Migration: with one slot every second batch that is shown replaces one that may
  just be stolen, and free batches are returned to the allocator (`KeepFree` = 1);
  with two slots the state word has a bit that belongs to another slot, which
  replacing needs a fourth process for. Four batches are one pending for each
  thread and two that move.
* Barrier: two threads give a head that belongs to the completing thread and one
  that does not; the third process comes and goes, so that a phase can be
  completed by a sync or by a resignation, and the next one can begin and end
  inside a completion. Tags go round (four phases) as behaviours are not bounded.
* Blocking calls: three calls for two threads, so that one waits in a full pool,
  and a third identifier for the thread that replaces one that was killed; one
  that has been joined is used again. Two killable calls take turns with one batch,
  so that each comes to the batch that the other has left and somebody may still
  hold for a kill, and a third call cannot be killed, for a cancelled thread to be in.
  With two batches and no faults, so that killable calls overlap too, the safety
  properties hold as well (two million states), and in general by proof.
* Timer: two nodes for a sleeping process and an ALT make both the reuse of a
  node and the laundry happen; a clock modulo 8 wraps in every long behaviour. No
  queue has more than two nodes here: for longer ones there is `SearchAssumption`,
  which TLC evaluates over queues of up to five, and the proof (`SearchFacts`,
  `TimerOrdered`).

**Fairness.** Threads are POSIX threads: an enabled step inside a kernel call is
eventually taken (weak fairness per thread). Processes are scheduled without
preemption, so that a process leaves its thread is an assumption on the program:
that it makes kernel calls (`UserStep`, `Leave`). That a runnable process is
scheduled (strong fairness of `Schedule`) is what the FIFO run queues give; that
a holder releases is an assumption on the program. ChanAlt and Barrier assume only
that a kernel call once begun goes on; nobody is obliged to communicate or to
synchronise again. BSyscalls assumes in addition that the functions that are
called return and that kills are prompt. No process is obliged to make another call, to kill one, or to let
time pass.

**Deadlock** is not checked where the system may stop: IdleThreads after its exit,
Barrier when everybody has resigned, BSyscalls when its thread identifiers and its
kills are used up.

## 4. Findings

1. `ProcAlt` may hang (`procalt`). `kernel_enbc` without a jump clears ENABLING only
   while NOT_READY is set. A writer that triggers an earlier guard clears NOT_READY,
   and the enable of a second, ready guard then returns with ENABLING set. `ProcAlt`
   goes straight to the disable calls, and `altend` never sees State as zero.
2. The barrier of a mobile process with three parts or more may lose a process or
   run it twice (`mproc`). `mproc_bar_sync` queues the caller before its CAS; when the
   CAS fails because another part came meanwhile and the caller is still not the
   last, it is queued again. With two parts the retry always makes the caller the
   last, for which the code provides, and `ScheduledOnce` holds.
3. A kill that is held up can cancel another call (`kills_late`). `bsyscall_kill`
   looks up the thread (`job->bsc.thread`) after the swap that announces the kill.
   If the function returns in between, its thread exits by itself and hands the
   batch back; a killable call of another process gets the batch and writes its own
   thread there; that thread has left its cancellable region and is about to
   schedule its process when the kill cancels it. The process is never scheduled
   and its call stays counted. In the occam libraries (`proc.altable.run`) the process
   whose call is killed makes no other one before the kill returns, but its batch
   can go to a process that has nothing to do with it.

More are found by the same modules with other constants:

4. `BSyscalls`, no killable calls: `failures = 0 => Covered` fails. After a thread
   of a pool has waited for a minute, a call may be left in the queue although a
   thread could be created: `pthread_cond_timedwait` (bsyscalls.c:321) reports a
   time-out by a positive number and the code tests for a negative one, so that the
   thread counts itself as waiting twice.
5. `IdleThreads`, `NThreads = 3`, no workers, processes bound to threads 1 and 2:
   `EndSound` fails. The two masks are read one after the other, and with a third
   thread a process can be in the mail when both have been read.
6. `IdleThreads`, `NThreads = 1`, one worker, `FairSpec`: `DeadlockReported` fails. A
   call is uncounted after its process has been made ready, and the wake that
   follows is for shutdown only.
7. `ChanAlt`, `Style = "raw"`, `N = 2`: `EnqueueBlocked` fails. With the raw C interface
   ENABLING is cleared at the first ready guard while others are still being
   enabled. A guard is visible before it is counted, so a writer can take State to
   zero and enqueue a running process.
8. `IdleThreads`, `NThreads = 2`, one worker, no affinities: `EndSound` fails. A deadlock
   may be reported while a process is in a call, since the count of calls is read
   before the masks.
9. `MprocBarrier`, two parts of which one resigns: `ScheduledOnce` fails. When the last
   to come resigns, `mproc_bar_resign` resumes the first of the queue and leaves it
   there; when it resets the barrier it enqueues itself.

Findings 3, 5, 6 and 8 need a thread to be held up for a long time between two
instructions. The quotations the first three are held against are in
`PROJECT.json`.

## 5. Proofs

Eight modules hold theorems. In seven of the parts every invariant that the runs
check is a theorem, for every value of the constants that the assumption of the
module admits (for `ChanAlt`, with the calls of compiled occam); in `IdleThreads`
one of the three is a theorem only for the instances where it is true (below).

| module | theorems (`Spec =>` ...) | from |
|---|---|---|
| `SemaphoreProof` | `TypeCorrect` (`[]TypeOK`), `Exclusion` (`[]MutualExclusion`), `SemaphoreLosesNothing` (`[]NothingLost`), `SemaphoreRefines` (`IsFifoMutex`) | `SemAssumption`: the null pointer is not a process |
| `MailQueueProof` | `QueueCorrect` (`[]QueueSound`), `NoLostWakeup` (`[]AsleepCovered`) | `MailAssumption`: there are processes and senders, the pipe holds a byte |
| `BarrierProof` | `BarrierNoEarlyPass`, `BarrierCompletion`, `BarrierNoneForgotten`, `BarrierRefines` (the initial states and steps of `PhaseBarrier`) | `BarrierAssumption`: finitely many processes, some of them enrolled |
| `ChanAltProof` | `ChanAltTypes`, `ChanAltEnqueues`, `ChanAltState`, `ChanAltDelivers`, `ChanAltSelects` | `ChanAltAssumption`, and `Style = "enbc3"` |
| `BSyscallsProof` | `BscTypes`, `BscCallsEndOnce`, `BscKills`, `BscReaps`, `BscCovers`, of `PromptSpec` | `BscAssumption`: finitely many calls and threads; kills are prompt |
| `MigrationProof` | `MigrationTypes`, `MigrationSchedulesOnce`, `MigrationKeepsBatches`, `MigrationFindable`, `MigrationAffine` | `MigrationAssumption`: finitely many threads and batches, an initial batch for each thread; a bound process is woken where it is bound |
| `IdleThreadsProof` | `IdleTypes`, `IdleNotStalled` (`[]ShutdownNotStalled`); `IdleEndsStopped`, `IdleOneEndsStopped` (`[]EndSound`) | `IdleAssumption`: finitely many processes and pool threads; for the last two also `Small`, or `NThreads = 1` |
| `TimerQueueProof` | `TimerInvariant` (`[]IInv`), `TimerTypes`, `TimerOrdered`, `TimerReuse`, `TimerTriggers`, `TimerSelects` | `TimerAssumption`: an even period; the longest delay and the slack together are less than half of it; there is a thread |

The sets are finite because memory is; where a module does not say so, the proof
does not need it. In each module the argument is one inductive invariant, shown to
hold at first, to be kept by every action (a lemma per conjunct, a step per
action), and to imply the properties. None of the properties is inductive: each is
about words that several threads change, and whether it survives a step depends on
where all of them are. The invariants were checked by TLC on small instances
before they were proved.

**Semaphore.** For `MutualExclusion`, `IInv == TypeOK /\ LocalsOK /\ MutualExclusion`.
`MutualExclusion` says that bit 0 of `bptr`, the holder and the thread that dequeues
are never two at a time, i.e. they pass one token around. What it lacks is
`LocalsOK`: at the labels where a thread acts for a process `wptr[t]` is one, where
`sem_dequeue` has a first process `dq[t]` is one, and on the fast path the copy of
`bptr` has bit 0 set, so that a successful CAS took the token. Mutual exclusion holds
whatever the links say. That nothing is lost, and that the semaphore is a
`FifoMutex`, does need the queue: `QInv` says how the half-made queue reads (`bptr`,
`fptr` and the links are those of `order` but for the writes that some thread has
still to make), and `SInv` adds where every process is. The refinement maps the
publishing CAS of `sem_claim` to joining the queue and the steps that let go of the
token to the hand-over; all others stutter.

**MailQueue.** `QInv` adds to `QueueShape` whom each sender is about to link and what the
owner knows of the front of the queue at each label. `AsleepCovered` rests on it: the
owner gives up on a queue that is not linked yet, and only the shape of the queue
says that a sender is then still to set the sync bit (`WInv`).

**Barrier.** `BInv`: a process that has called and is not counted holds the phase open,
so that the tag it read stays right (`PhaseOK`); when a completion starts every head
is of the old phase with its bit set, and from there on a head of the old phase is on
the list of the completing thread and one of the new phase has its bit again
(`HeadsOK`); each enrolled process is in one place (`PlacesOK`), those that have come
are in the heads of the current phase (`SyncedOK`), and the count is that of the others
(`CountOK`).

**ChanAlt.** `CInv`, one conjunct per word: what a channel word holds given where its
writer and the reader are (`WordOK`); the count in State as one for the ALT, one for
every installed guard and one for every trigger under way (`CountOK`); the flags
(`FlagsOK`, `ReadyOK`); what will be selected (`SelectOK`); the values in transit
(`ValueOK`). The hypothesis `Style = "enbc3"` is the order of calls that `occ21` and
`tranx86` produce. With the others the theorems are false: findings 1 and 7.

**BSyscalls.** `BscInv` says where each call and each thread is: a call is once in the
queue or with one thread (`QueueOK`, `HeldOK`, `CalledOK`), what its word holds given its
killer and its thread (`KillOK`), who joins an ended thread (`ReapOK`), and that the
counters are the sizes of those sets (`CountOK`), where the threads thought to wait
exceed those that do by at most the timed waits that have run out (finding 4). For
the kills, `BatchOK`: the batch of a call in progress is no other one's, and nobody
holds it for the kill of another one; and `AimOK`: the thread that a kill will find
through the batch is in the cancellable region of the call killed, or exits, or is
gone. `Prompt` is needed for the steps that begin a call, and only there: that one
gets a batch nobody holds (`BatchStep`), and that a created thread is not the one
that was to be cancelled (`AimStep`). That the thread stays where it can be cancelled,
and that its call ends once when it is, is proved.

**Migration.** `MInv`: batches are apart (`ApartOK`, `ListsOK`); a thief never owns the
record that it has taken out of a window, and the victim may not use it again before
the thief has copied it and has said so by cleaning it (`TookOK`, `BlankOK`, `Lent`); a
queued batch with a slot number is in that slot, or one thief has it, or it is
blank (`QueueOK`, `DataOK`, `TookOnce`). That processes are in one place follows because
batches are disjoint (`PartOK`), that bound ones stay because none is in a batch in a
window (`KindOK`), and that a filled slot is found because the owner drops bits only of
slots it has emptied (`BitsOK`). The actions are first split by their outcomes
(`Event`) and summed up by what they do to lists and batches (`Effect`); every conjunct
is proved from these.

**IdleThreads.** The shared words are inexact: a thread that runs may be marked as
sleeping, and one on its way to sleep may not be. `IInv` says how far they can be
trusted: a thread that is not marked has a sync bit or a byte in its pipe by the time
it waits (`AwakeOK`); while all are idle and marked after `Y_shutdown`, somebody still
looks at the masks, or will (`WatchOK`); mail is signalled to whoever could sleep
through it (`MailOK`). `IdleNotStalled` follows for all constants. `EndSound` is false in
general (findings 5 and 8: with three schedulers and bound processes, with two
schedulers and one call), so its theorems are for the instances in which it is true.
`IdleEndsStopped` has the hypothesis `Small`: no pool of threads for calls, and either
at most two schedulers or no process that is bound to some. `EInv` adds that a thread
that has seen all threads idle before the program has stopped is not marked itself, or
that the other one is not and will see its mail before it could be (`SeenOK`).
`IdleOneEndsStopped` is for one scheduler, whatever calls are made: the count that it
has read as zero is still zero when it decides (`ZeroOK`), and mail that it would not
see comes from a pool thread that has still to uncount a call (`SureOK`).

**TimerQueue.** `IInv` has three parts. The first is about memory and triggers
(`MemInv`): a node in a queue belongs to the thread of the queue and is in use
(`LinkOK`); the node an ALT refers to is its own, and cannot be allocated (`RefOK`);
the walk that challenges an ALT holds the first node of its queue, and one that has
won the swap will trigger an ALT that has not ended (`WalkOK`). So the count of an
ALT can be given exactly (`CountExact`): itself, its channel, and its timer as long as
the node is armed or one walk is about to trigger it, never both. `NodeReuse` and
`TriggeredOnce` follow. The second part is about time. `Rel(now, x)` is how far `x` lies
after the clock, and `After` is the order of these offsets for times that are less
than half a period apart (`AfterRel`, arithmetic modulo `Period`). `TimeOK` says how far
apart the times that the code compares can be: those in queues and guards from
`-Slack` to `MaxDelay`, the time at which an ALT fired not after the clock and no more
than `MaxDelay` before any of its guards. With it `SearchFacts` gives the place at
which the search from both ends stops, in a queue of any length, and `OrderOK` that
queues stay in order, but for the first node while it is in the hands of a walk. The
last part, `SelOK`, is why an ALT ends with a guard selected: until it has, there
is a writer, or a guard that it has still to disable is due by the very comparison
`kernel_dist` will make (`Due`). The step of the node that has fired needs it most:
`walk_timer_queue` has written its own time into the node, later than the guard's, and
`kernel_dist`, which begins with the last guard, must reach it for one of them.

The proof first gives each action in the form of what it adds to a queue or takes
from it (`Form`, `Grown`, `Shrunk`), then has one lemma per conjunct. `AddFacts` shows
on the way that the branch of `insert_tqnode` which uses a dead node again is never
taken: a node in a queue with no process is dirty until the step that unlinks it.

**Only model-checked**, and why:

* liveness (`WaiterServed`, `AltCompletes`, `InputCompletes`, `DeadlockReported`,
  `MailRuns`, `MadeReady`, `Answered`) and the fairness that `IsBarrier` has in
  `PhaseBarrier`: fairness is defined by ENABLED, which the prover does not handle.
  `BarrierRefines` is the safety part of `IsBarrier`;
* `SearchAssumption` of `TimerQueue` gives the place by a count, over short queues. What
  `add_to_timer_queue` needs of it is proved for all queues (`SearchFacts`);
* `MprocBarrier`: what its run checks is violated.

## 6. Plan

All parts of the kernel in which threads meet are modelled, and every invariant that
holds of them is proved, but for one:

1. `MprocBarrier` with two parts that synchronise: there the retry makes the caller the
   last, and `ScheduledOnce` holds.
2. Parts that the modules leave out and that could be added to them: external events
   and timers in `IdleThreads` (with the alarm), output and skip guards in `ChanAlt`.
3. Liveness and the fairness of `IsBarrier` stay with TLC, as above.

## 7. Not modelled

*Within the modelled parts*: what a late kill (finding 3) can do besides leaving a
call undone: `bsc_cleanup_pool` unlocks a mutex that a thread cancelled out of turn
does not hold, a thread can be cancelled before it has pushed that handler, the
batch can have become one of processes or of a barrier, whose words are no thread,
and the stack on which the identifier lies can be gone; external events, several
priority levels, changes of affinity (`Y_setaff`) after the start; output and skip
guards; timer guards whose precondition is FALSE (the kernel passes over them, as
if the ALT had fewer guards); weak memory; the
payload of communications; overflow of the 24-bit count in State (it would need
2^24 guards in one ALT); error exits for inconsistent data. The alarm that makes a
sleeping thread look at its timer queue (`ccsp_set_next_alarm` and its signal
handler): `TimerQueue` lets a thread look at any time and bounds how late it may be,
so it says nothing about an alarm that is lost.

*Of the kernel*: the fork barrier (2899-2938: one store and a reference count), the
mobile types (reference counts and
copies that belong to one process at a time, and channel bundles whose claims are
the semaphores modelled here), `startp`/`endp` (one atomic counter), dynamic loading,
the allocators, start-up, statistics and debug output.

*Around the kernel*: the compiler, the translator, the linkers, the interpreter and
the libraries. They are nine tenths and more of the repository's lines, sequential
and about text, code or files: what would make them correct is a semantics of occam,
of ETC or of the x86, not an order of steps, and no small instance of a compiler pass
says much about it. Most of the C in `modules/` is generated by SWIG. The share of
the repository's lines that the model covers is therefore small, and stays small
when every line of the scheduler is covered.
