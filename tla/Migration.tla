------------------------------ MODULE Migration ------------------------------
(***************************************************************************)
(* Batches of processes, the run queue of each scheduler thread and the    *)
(* migration of batches between threads (sched.c).                         *)
(*                                                                         *)
(* A thread runs the processes of its current batch (curb).  Batches that  *)
(* wait are linked in its own run queue; those without affinity are also   *)
(* shown in a small migration window, from which a thread that has nothing *)
(* to do takes them.  A batch that was taken stays linked in its owner's   *)
(* queue: when the owner meets it there, its CAS on the window fails and   *)
(* the batch goes to the laundry, where it waits until the thread that     *)
(* took it has copied it and has cleared its dirty bit.                    *)
(*                                                                         *)
(* Accesses to shared words (window slots, window state, mwstate, the      *)
(* dirty bit) are steps of their own; private work joins the next of them. *)
(* The bit operations without a lock prefix are a read and a write.        *)
(* Memory is sequentially consistent.  One priority level is modelled.     *)
(* The order of the processes within a batch, the number of dispatches     *)
(* left and the BATCH_EMPTIED flag are abstracted: a thread may end its    *)
(* turn with any contents of its batch, and may split it or not.           *)
(***************************************************************************)
EXTENDS Naturals, Sequences, FiniteSets, SequencesExt

CONSTANTS Threads,     \* scheduler threads
          Procs,       \* processes
          Affine,      \* the processes with an affinity, each for one thread
          Home,        \* where each process starts; an affine one stays there
          Wakers,      \* the threads on which something makes a process ready
          Batches,     \* bound: batches that the allocator can provide
          WindowSizes, \* the sizes of the window that are looked at
          KeepFree,    \* free batches an idle thread keeps (33)
          None         \* NULL

ASSUME MigrationAssumption ==
  /\ Affine \subseteq Procs /\ Home \in [Procs -> Threads]
  /\ Wakers \in [Procs -> SUBSET Threads] /\ \A p \in Affine : Wakers[p] = {Home[p]}
  /\ IsFiniteSet(Threads) /\ Threads # {}
  /\ IsFiniteSet(Batches) /\ Cardinality(Threads) <= Cardinality(Batches)
  /\ WindowSizes \subseteq Nat \ {0} /\ KeepFree \in Nat
  /\ None \notin Procs \cup Threads \cup Batches

VARIABLES
  size,      \* MWINDOW_SIZE (15): one of WindowSizes, the same throughout
  curb,      \* processes of the current batch
  prio,      \* sched->priofinity: the kind of process that curb holds
  rq,        \* the linked batches of the run queue
  pend,      \* rq->pending
  pprio,     \* rq->priofinity: "none" when pending is empty
  free,      \* sched->free
  laundry,   \* sched->laundry
  mem,       \* batches that are with the allocator
  dirty,     \* BATCH_DIRTY of each batch
  win,       \* window number in the state of each batch
  procs,     \* processes linked in each batch
  data,      \* mw->data: the window slots of each thread
  mw,        \* mw->data[MWINDOW_STATE]: head and bit map
  mwstate,   \* sched->mwstate
  blocked,   \* processes that are not ready
  pc,        \* where each thread is
  cont,      \* where it continues after a batch is made visible
  hand,      \* the batch it works on
  far,       \* the process that enqueue_far_process has still to queue
  seen,      \* its copy of a window state
  slot,      \* the window slot it works on
  vic        \* the thread it tries to take a batch from

batch  == <<mem, dirty, win, procs>>
window == <<data, mw, mwstate>>
queues == <<curb, prio, rq, pend, pprio, free, laundry, blocked>>
locals == <<cont, hand, far, seen, slot, vic>>
vars   == <<size, batch, window, queues, pc, locals>>

Slots == 1..size

Kind(p) == IF p \in Affine THEN "affine" ELSE "any"
WState  == [head : 0..size, bm : SUBSET Slots]
NoState == [head |-> 0, bm |-> {}]

TypeOK ==
  /\ size \in WindowSizes
  /\ curb \in [Threads -> SUBSET Procs] /\ prio \in [Threads -> {"any", "affine"}]
  /\ rq \in [Threads -> Seq(Batches)] /\ pend \in [Threads -> Batches]
  /\ pprio \in [Threads -> {"none", "any", "affine"}]
  /\ free \in [Threads -> SUBSET Batches] /\ laundry \in [Threads -> SUBSET Batches]
  /\ mem \subseteq Batches /\ dirty \in [Batches -> BOOLEAN]
  /\ win \in [Batches -> 0..size] /\ procs \in [Batches -> SUBSET Procs]
  /\ data \in [Threads -> [Slots -> Batches \cup {None}]] /\ mw \in [Threads -> WState]
  /\ mwstate \in [Threads -> BOOLEAN] /\ blocked \subseteq Procs
  /\ pc \in [Threads -> {"run", "read", "show", "state", "mark", "save", "queue", "pick",
                         "clear", "unset", "steal", "look", "bit", "take", "gone",
                         "hide", "load"}]
  /\ cont \in [Threads -> {"run", "save", "queue", "pick"}]
  /\ hand \in [Threads -> Batches \cup {None}] /\ far \in [Threads -> Procs \cup {None}]
  /\ seen \in [Threads -> WState] /\ slot \in [Threads -> 0..size]
  /\ vic \in [Threads -> Threads \cup {None}]

Init ==
  /\ size \in WindowSizes
  /\ pend \in [Threads -> Batches] /\ IsInjective(pend)
  /\ mem = Batches \ {pend[t] : t \in Threads}
  /\ curb = [t \in Threads |-> {p \in Procs \ Affine : Home[p] = t}]
  /\ prio = [t \in Threads |-> "any"] /\ pprio = [t \in Threads |-> "none"]
  /\ rq = [t \in Threads |-> <<>>]
  /\ free = [t \in Threads |-> {}] /\ laundry = [t \in Threads |-> {}]
  /\ dirty = [c \in Batches |-> FALSE] /\ win = [c \in Batches |-> 0]
  /\ procs = [c \in Batches |-> {}]
  /\ data = [t \in Threads |-> [w \in Slots |-> None]]
  /\ mw = [t \in Threads |-> NoState] /\ mwstate = [t \in Threads |-> FALSE]
  /\ blocked = Affine
  /\ pc = [t \in Threads |-> "run"] /\ cont = [t \in Threads |-> "run"]
  /\ hand = [t \in Threads |-> None] /\ far = [t \in Threads |-> None]
  /\ seen = [t \in Threads |-> NoState] /\ slot = [t \in Threads |-> 0]
  /\ vic = [t \in Threads |-> None]

Set(f, t, v) == f' = [f EXCEPT ![t] = v]
To(t, l)     == Set(pc, t, l)

-----------------------------------------------------------------------------
(* Batch memory                                                            *)

\* do_laundry: the clean batches become free.
Washed(t) == {b \in laundry[t] : ~dirty[b]}

\* allocate_batch: a free batch.  When there is none the code washes and gets
\* 16 new batches; here the new ones stay with the allocator until one is
\* needed.  Free batches are alike: the order of the list is abstracted.
Allocatable(t) == IF free[t] # {} THEN free[t] ELSE IF Washed(t) # {} THEN Washed(t) ELSE mem
\* The free list, after b was taken from it.
Left(t, b) == (IF free[t] # {} THEN free[t] ELSE Washed(t)) \ {b}
Allocate(t, b) ==
  /\ b \in Allocatable(t)
  /\ mem' = mem \ {b}
  /\ Set(laundry, t, IF free[t] # {} THEN laundry[t] ELSE laundry[t] \ Washed(t))

-----------------------------------------------------------------------------
(* The owner: making batches                                               *)

\* (mutant: batches of affine processes are shown in the window too)
PushShown(t, ps, next) ==
  \E b \in Allocatable(t) :
    /\ Allocate(t, b)
    /\ Set(procs, b, ps) /\ Set(pend, t, b) /\ Set(pprio, t, prio[t])
    /\ Set(free, t, IF pprio[t] = "none" THEN Left(t, b) \cup {pend[t]} ELSE Left(t, b))
    /\ IF pprio[t] # "none"
       THEN To(t, "read") /\ Set(hand, t, pend[t]) /\ Set(cont, t, next)
       ELSE To(t, next) /\ UNCHANGED <<hand, cont>>
    /\ UNCHANGED <<rq, win, dirty, window, prio, blocked, far, seen, slot, vic>>

\* push_batch of the new batch b with contents ps, and add_to_runqueue of the
\* batch that was pending: with affinity it is only linked in the queue,
\* without it is shown in the window as well.
PushBatch(t, ps, next) ==
  \E b \in Allocatable(t) :
    /\ Allocate(t, b)
    /\ Set(procs, b, ps) /\ Set(pend, t, b) /\ Set(pprio, t, prio[t])
    /\ Set(free, t, IF pprio[t] = "none" THEN Left(t, b) \cup {pend[t]} ELSE Left(t, b))
    /\ IF pprio[t] = "affine"
       THEN /\ Set(rq, t, Append(rq[t], pend[t])) 
            /\ Set(win, pend[t], 0) /\ Set(dirty, pend[t], FALSE)
       ELSE UNCHANGED <<rq, win, dirty>>
    /\ IF pprio[t] = "any"
       THEN To(t, "read") /\ Set(hand, t, pend[t]) /\ Set(cont, t, next)
       ELSE To(t, next) /\ UNCHANGED <<hand, cont>>
    /\ UNCHANGED <<window, prio, blocked, far, seen, slot, vic>>

\* The turn of the current batch ends (kernel_scheduler, push_curb): an
\* unsplit batch is saved and pushed; of a split one, one process is pushed
\* in a batch of its own, the others follow.
EndOfCurb(t) ==
  /\ pc[t] = "run" /\ curb[t] # {}
  /\ \/ /\ PushBatch(t, curb[t], "pick") /\ Set(curb, t, {})
     \/ \E p \in curb[t] :
          /\ curb[t] # {p}
          /\ PushBatch(t, {p}, "save") /\ Set(curb, t, curb[t] \ {p})

\* The second half of push_curb after a split.
PushCurb(t) ==
  /\ pc[t] = "save"
  /\ PushBatch(t, curb[t], "pick") /\ Set(curb, t, {})

\* (mutant: the head does not wrap at the end of the window)
HeadRunsOn(h) == h + 1

\* add_to_visible_runqueue: the window state is read, and the batch gets the
\* number of the next slot.
NextHead(h) == IF h = size THEN 1 ELSE h + 1
ReadState(t) ==
  /\ pc[t] = "read"
  /\ LET w == NextHead(mw[t].head) IN
     /\ Set(seen, t, mw[t]) /\ Set(slot, t, w)
     /\ Set(win, hand[t], w) /\ Set(dirty, hand[t], TRUE)
  /\ To(t, "show") /\ UNCHANGED <<mem, procs, window, queues, cont, hand, far, vic>>

\* The batch goes into the slot; one that was still there (att_swap) can no
\* longer migrate.  The test for NULL before the swap only saves the swap: no
\* other thread fills a slot.
Show(t) ==
  /\ pc[t] = "show"
  /\ LET old == data[t][slot[t]] IN
     /\ data' = [data EXCEPT ![t][slot[t]] = hand[t]]
     /\ IF old # None THEN Set(win, old, 0) /\ Set(dirty, old, FALSE)
                      ELSE UNCHANGED <<win, dirty>>
  /\ To(t, "state") /\ UNCHANGED <<mem, procs, mw, mwstate, queues, locals>>

\* (mutant: the other bits of the window state are not kept)
WriteStateOnly(t) ==
  /\ pc[t] = "state"
  /\ Set(mw, t, [head |-> slot[t], bm |-> {slot[t]}])
  /\ Set(rq, t, Append(rq[t], hand[t]))
  /\ Set(seen, t, NoState) /\ Set(slot, t, 0) /\ Set(hand, t, None)
  /\ To(t, "mark")
  /\ UNCHANGED <<batch, data, mwstate, curb, prio, pend, pprio, free, laundry, blocked, cont, far, vic>>

\* The window state is written from the copy, over bits that others cleared
\* meanwhile; the batch is linked in the queue.
WriteState(t) ==
  /\ pc[t] = "state"
  /\ Set(mw, t, [head |-> slot[t], bm |-> seen[t].bm \cup {slot[t]}])
  /\ Set(rq, t, Append(rq[t], hand[t]))
  /\ Set(seen, t, NoState) /\ Set(slot, t, 0) /\ Set(hand, t, None)
  /\ To(t, "mark")
  /\ UNCHANGED <<batch, data, mwstate, curb, prio, pend, pprio, free, laundry, blocked, cont, far, vic>>

MarkWork(t) ==
  /\ pc[t] = "mark"
  /\ Set(mwstate, t, TRUE)
  /\ To(t, cont[t]) /\ Set(cont, t, "run")
  /\ UNCHANGED <<batch, data, mw, queues, hand, far, seen, slot, vic>>

-----------------------------------------------------------------------------
(* The owner: processes that become ready or block                         *)

\* A process of the current batch blocks.
Block(t) ==
  /\ pc[t] = "run"
  /\ \E p \in curb[t] : Set(curb, t, curb[t] \ {p}) /\ blocked' = blocked \cup {p}
  /\ UNCHANGED <<batch, window, prio, rq, pend, pprio, free, laundry, pc, locals>>

\* enqueue_process: a process of the kind that runs joins the current batch,
\* another one the pending batch (enqueue_far_process), after a batch of the
\* other kind has left that place.  An affine process is mailed to its thread
\* first.
NewPending(t, p) ==
  \E b \in Allocatable(t) :
    /\ Allocate(t, b) /\ Set(free, t, Left(t, b))
    /\ Set(pend, t, b) /\ Set(pprio, t, Kind(p)) /\ Set(procs, b, {p})

Wake(t) ==
  \E p \in blocked :
    /\ pc[t] = "run" /\ t \in Wakers[p]
    /\ blocked' = blocked \ {p}
    /\ \/ /\ prio[t] = Kind(p)
          /\ Set(curb, t, curb[t] \cup {p})
          /\ UNCHANGED <<batch, rq, pend, pprio, free, laundry, pc, cont, hand, far>>
       \/ /\ prio[t] # Kind(p) /\ pprio[t] \in {"none", Kind(p)}
          /\ Set(pprio, t, Kind(p)) /\ Set(procs, pend[t], procs[pend[t]] \cup {p})
          /\ UNCHANGED <<mem, dirty, win, curb, rq, pend, free, laundry, pc, cont, hand, far>>
       \/ /\ prio[t] # Kind(p) /\ Kind(p) = "any" /\ pprio[t] = "affine"
          /\ Set(rq, t, Append(rq[t], pend[t]))     \* add_affine_batch_to_runqueue
          /\ Set(win, pend[t], 0) /\ Set(dirty, pend[t], FALSE)
          /\ NewPending(t, p) /\ UNCHANGED <<curb, pc, cont, hand, far>>
       \/ /\ prio[t] # Kind(p) /\ Kind(p) = "affine" /\ pprio[t] = "any"
          /\ Set(hand, t, pend[t]) /\ Set(far, t, p)
          /\ To(t, "read") /\ Set(cont, t, "queue")
          /\ UNCHANGED <<batch, curb, rq, pend, pprio, free, laundry>>
    /\ UNCHANGED <<window, prio, seen, slot, vic>>

\* ... and enqueue_far_process goes on once the pending batch is visible.
QueueFar(t) ==
  /\ pc[t] = "queue"
  /\ NewPending(t, far[t])
  /\ Set(far, t, None)
  /\ To(t, "run")
  /\ UNCHANGED <<dirty, win, window, curb, prio, rq, blocked, cont, hand, seen, slot, vic>>

-----------------------------------------------------------------------------
(* The owner: taking a batch of its own                                    *)

\* The thread needs a batch: it has pushed its curb, or all of it is blocked.
Picking(t) == pc[t] = "pick" \/ (pc[t] = "run" /\ curb[t] = {})

\* load_curb of the thread's own batch b: it is free again.
LoadOwn(t, b, fr) ==
  /\ Set(curb, t, procs[b])
  /\ Set(prio, t, IF \E p \in procs[b] : Kind(p) = "affine" THEN "affine" ELSE "any")
  /\ Set(free, t, fr \cup {b})

\* (mutant: a batch of the queue is loaded although its slot is empty)
PullAny(t) ==
  /\ Picking(t) /\ rq[t] # <<>>
  /\ LET b == Head(rq[t]) IN
     /\ Set(rq, t, Tail(rq[t]))
     /\ IF win[b] # 0 /\ data[t][win[b]] = b
        THEN data' = [data EXCEPT ![t][win[b]] = None] ELSE UNCHANGED data
     /\ LoadOwn(t, b, free[t]) /\ Set(procs, b, {}) /\ To(t, "run")
  /\ UNCHANGED <<mem, dirty, win, mw, mwstate, pend, pprio, laundry, blocked, locals>>

\* try_pull_from_runqueue with a batch in the queue.  One that has a window
\* number is the owner's only if the CAS on its slot succeeds.
Pull(t) ==
  /\ Picking(t) /\ rq[t] # <<>>
  /\ LET b == Head(rq[t]) IN
     /\ Set(rq, t, Tail(rq[t]))
     /\ \/ /\ win[b] = 0
           /\ LoadOwn(t, b, free[t]) /\ Set(procs, b, {}) /\ To(t, "run")
           /\ UNCHANGED <<data, laundry, hand, slot>>
        \/ /\ win[b] # 0 /\ data[t][win[b]] = b
           /\ data' = [data EXCEPT ![t][win[b]] = None]
           /\ Set(hand, t, b) /\ Set(slot, t, win[b]) /\ To(t, "clear")
           /\ UNCHANGED <<procs, curb, prio, free, laundry>>
        \/ /\ win[b] # 0 /\ data[t][win[b]] # b
           /\ Set(laundry, t, laundry[t] \cup {b})
           /\ To(t, "pick") /\ UNCHANGED <<procs, data, curb, prio, free, hand, slot>>
  /\ UNCHANGED <<mem, dirty, win, mw, mwstate, pend, pprio, blocked, cont, far, seen, vic>>

\* att_unsafe_clear_bit on the window state: a read, then a write.
ClearRead(t) ==
  /\ pc[t] = "clear"
  /\ Set(seen, t, mw[t])
  /\ To(t, "unset") /\ UNCHANGED <<batch, window, queues, cont, hand, far, slot, vic>>

ClearWrite(t) ==
  /\ pc[t] = "unset"
  /\ Set(mw, t, [seen[t] EXCEPT !.bm = @ \ {slot[t]}])
  /\ Set(win, hand[t], 0) /\ Set(dirty, hand[t], FALSE)
  /\ LoadOwn(t, hand[t], free[t]) /\ Set(procs, hand[t], {})
  /\ Set(hand, t, None) /\ Set(seen, t, NoState) /\ Set(slot, t, 0)
  /\ To(t, "run")
  /\ UNCHANGED <<mem, data, mwstate, rq, pend, pprio, laundry, blocked, cont, far, vic>>

\* The queue is empty: the pending batch is taken, if it has processes.
PullPending(t) ==
  /\ Picking(t) /\ rq[t] = <<>> /\ pprio[t] # "none"
  /\ \E b \in Allocatable(t) :
       /\ Allocate(t, b) /\ Set(pend, t, b) /\ Set(pprio, t, "none")
       /\ LoadOwn(t, pend[t], Left(t, b)) /\ Set(procs, pend[t], {})
  /\ To(t, "run")
  /\ UNCHANGED <<dirty, win, window, rq, blocked, locals>>

\* pick_batch finds nothing.
PickNothing(t) ==
  /\ Picking(t) /\ rq[t] = <<>> /\ pprio[t] = "none"
  /\ Set(mwstate, t, FALSE)
  /\ To(t, "steal") /\ UNCHANGED <<batch, data, mw, queues, locals>>

-----------------------------------------------------------------------------
(* Taking a batch from another thread                                      *)

\* migrate_some_work: a thread that shows work is chosen.
Choose(t) ==
  /\ pc[t] = "steal"
  /\ \E v \in Threads : mwstate[v] /\ Set(vic, t, v)
  /\ To(t, "look") /\ UNCHANGED <<batch, window, queues, cont, hand, far, seen, slot>>

\* Nobody shows work.  Every sixteenth time round the idle thread washes and
\* returns the free batches beyond KeepFree to the allocator.
NoWork(t) ==
  /\ pc[t] = "steal" /\ \A v \in Threads : ~mwstate[v]
  /\ To(t, "run")
  /\ \/ UNCHANGED <<batch, free, laundry>>
     \/ \E keep \in SUBSET (free[t] \cup Washed(t)) :
          LET all == free[t] \cup Washed(t) IN
          /\ Cardinality(keep) = IF Cardinality(all) < KeepFree THEN Cardinality(all) ELSE KeepFree
          /\ Set(laundry, t, laundry[t] \ Washed(t))
          /\ Set(free, t, keep) /\ mem' = mem \cup (all \ keep)
          /\ UNCHANGED <<dirty, win, procs>>
  /\ UNCHANGED <<window, curb, prio, rq, pend, pprio, blocked, locals>>

\* try_migrate_from_scheduler: the window state is read.
Look(t) ==
  /\ pc[t] = "look"
  /\ Set(seen, t, mw[vic[t]])
  /\ To(t, IF mw[vic[t]].bm = {} THEN "gone" ELSE "bit")
  /\ UNCHANGED <<batch, window, queues, cont, hand, far, slot, vic>>

\* The highest slot at or above the head, or else the highest below it.
Preferred(s) ==
  LET top == {w \in s.bm : w >= s.head}
      set == IF top # {} THEN top ELSE s.bm
  IN  CHOOSE w \in set : \A v \in set : v <= w
ClearBit(t) ==
  /\ pc[t] = "bit"
  /\ LET w == Preferred(seen[t]) IN
     /\ Set(slot, t, w)
     /\ mw' = [mw EXCEPT ![vic[t]].bm = @ \ {w}]
  /\ To(t, "take") /\ UNCHANGED <<batch, data, mwstate, queues, cont, hand, far, seen, vic>>

\* att_swap of the slot with NULL.
Take(t) ==
  /\ pc[t] = "take"
  /\ LET got == data[vic[t]][slot[t]]
         bm  == seen[t].bm \ {slot[t]} IN
     /\ Set(hand, t, got)
     /\ data' = [data EXCEPT ![vic[t]][slot[t]] = None]
     /\ seen' = [seen EXCEPT ![t].bm = bm]
     /\ To(t, IF got = None /\ bm # {} THEN "bit" ELSE "gone")
  /\ Set(slot, t, 0)
  /\ UNCHANGED <<batch, mw, mwstate, queues, cont, far, vic>>

\* A thread whose window looks empty no longer shows work.
Found(t) ==
  IF hand[t] = None THEN To(t, "steal") /\ Set(vic, t, None)
                    ELSE To(t, "load") /\ UNCHANGED vic
Gone(t) ==
  /\ pc[t] = "gone"
  /\ IF seen[t].bm = {} /\ mw[vic[t]] = [head |-> seen[t].head, bm |-> {}]
     THEN To(t, "hide") /\ UNCHANGED vic
     ELSE Found(t)
  /\ Set(seen, t, NoState)
  /\ UNCHANGED <<batch, window, queues, cont, hand, far, slot>>

Hide(t) ==
  /\ pc[t] = "hide"
  /\ Set(mwstate, vic[t], FALSE)
  /\ Found(t)
  /\ UNCHANGED <<batch, data, mw, queues, cont, hand, far, seen, slot>>

\* (mutant: the batch is freed by the thread that took it)
LoadFrees(t) ==
  /\ pc[t] = "load"
  /\ LoadOwn(t, hand[t], free[t])
  /\ Set(dirty, hand[t], FALSE) /\ Set(procs, hand[t], {})
  /\ Set(hand, t, None) /\ Set(vic, t, None)
  /\ To(t, "run")
  /\ UNCHANGED <<mem, win, window, rq, pend, pprio, laundry, blocked, cont, far, seen, slot>>

\* load_curb of a batch of another thread: its fields are copied, then it is
\* marked clean for its owner.  The window number stays.
LoadRemote(t) ==
  /\ pc[t] = "load"
  /\ Set(curb, t, procs[hand[t]])
  /\ Set(prio, t, IF \E p \in procs[hand[t]] : Kind(p) = "affine" THEN "affine" ELSE "any")
  /\ Set(dirty, hand[t], FALSE)
  /\ Set(procs, hand[t], {})        \* no longer of use to anyone
  /\ Set(hand, t, None) /\ Set(vic, t, None)
  /\ To(t, "run")
  /\ UNCHANGED <<mem, win, window, rq, pend, pprio, free, laundry, blocked, cont, far, seen, slot>>

Owner(t) == EndOfCurb(t) \/ PushCurb(t) \/ ReadState(t) \/ Show(t)
            \/ WriteState(t) \/ MarkWork(t) \/ QueueFar(t) \/ Pull(t) \/ ClearRead(t)
            \/ ClearWrite(t) \/ PullPending(t) \/ PickNothing(t)
Thief(t) == Choose(t) \/ NoWork(t) \/ Look(t) \/ ClearBit(t) \/ Take(t) \/ Gone(t)
            \/ Hide(t) \/ LoadRemote(t)

Next ==
  /\ \E t \in Threads : Owner(t) \/ Thief(t) \/ Block(t) \/ Wake(t)
  /\ UNCHANGED size

Spec == Init /\ [][Next]_vars

-----------------------------------------------------------------------------
(* Properties                                                              *)

\* The owner of rq[t] would run the queued batch b: it is not in a window, or
\* its slot still holds it.
Kept(t, b) == win[b] = 0 \/ data[t][win[b]] = b

\* The places from which process p will be run, or has to be made ready.
Claims(p) ==
  {<<"curb", t>>  : t \in {u \in Threads : p \in curb[u]}}
  \cup {<<"pending", t>> : t \in {u \in Threads :
           pprio[u] # "none" /\ cont[u] # "queue" /\ pc[u] # "queue" /\ p \in procs[pend[u]]}}
  \cup (UNION {{<<"queue", t, b>> : b \in {c \in ToSet(rq[t]) : p \in procs[c] /\ Kept(t, c)}}
                 : t \in Threads})
  \cup {<<"hand", t>> : t \in {u \in Threads :
           /\ hand[u] # None /\ p \in procs[hand[u]]
           /\ pc[u] = "state" => data[u][slot[u]] = hand[u]}}
  \cup {<<"far", t>> : t \in {u \in Threads : far[u] = p}}
  \cup (IF p \in blocked THEN {<<"blocked">>} ELSE {})

\* A process is in one place only, and is never lost, while batches move
\* between threads (try_pull_from_runqueue against try_migrate_from_scheduler).
ScheduledOnce == \A p \in Procs : Cardinality(Claims(p)) = 1

\* The assertions of kernel_scheduler and release_clean_batch: a batch of its
\* own that a thread picks is clean, one that it takes from another thread is
\* dirty, neither is empty, and only clean batches are free.
BatchState ==
  \A t \in Threads :
    /\ \A b \in free[t] \cup {pend[t]} : ~dirty[b] \/ hand[t] = b
                                              \/ (pc[t] \in {"mark", "queue"} /\ b = pend[t])
    /\ \A b \in ToSet(rq[t]) : win[b] = 0 => ~dirty[b] /\ procs[b] # {}
    /\ pc[t] = "load" => dirty[hand[t]] /\ procs[hand[t]] # {}

\* Each batch is in one list of one thread or with the allocator, so that it
\* is not used again while a thread still works on it or a queue holds it.
BatchPlaces(b) ==
  (IF b \in mem THEN {<<"mem">>} ELSE {})
  \cup UNION {(IF b \in free[t] THEN {<<"free", t>>} ELSE {})
         \cup (IF b \in laundry[t] THEN {<<"laundry", t>>} ELSE {})
         \cup {<<"queue", t, i>> : i \in {j \in DOMAIN rq[t] : rq[t][j] = b}}
         \cup (IF pend[t] = b /\ cont[t] # "queue" /\ pc[t] # "queue" THEN {<<"pending", t>>} ELSE {})
         \cup (IF hand[t] = b /\ pc[t] \in {"read", "show", "state", "clear", "unset"}
                THEN {<<"hand", t>>} ELSE {})
         : t \in Threads}
OnePlace ==
  /\ \A b \in Batches : Cardinality(BatchPlaces(b)) = 1
  /\ \A t \in Threads : pc[t] \in {"gone", "hide", "load"} /\ hand[t] # None =>
       hand[t] \in ToSet(rq[vic[t]]) \cup laundry[vic[t]] \cup {hand[vic[t]]}

\* A batch is in the state that its place calls for, and in one place: its
\* memory is not used again before the other thread is done with it.
BatchesKept == BatchState /\ OnePlace

\* A batch in the window can be found: its bit is set in the window state, or
\* the thread that is about to set the bit, or to take the batch, is under way.
Findable ==
  \A t \in Threads, w \in Slots :
    data[t][w] # None =>
      \/ w \in mw[t].bm
      \/ pc[t] = "state" /\ w \in seen[t].bm \cup {slot[t]}
      \/ \E u \in Threads : pc[u] = "take" /\ vic[u] = t /\ slot[u] = w

\* A process with an affinity runs only on its own thread, and no batch of
\* such processes is in a window.
AffineStays ==
  \A p \in Affine :
    /\ \A t \in Threads : p \in curb[t] => t = Home[p]
    /\ \A t \in Threads, w \in Slots : data[t][w] # None => p \notin procs[data[t][w]]
=============================================================================
