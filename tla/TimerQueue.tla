----------------------------- MODULE TimerQueue -----------------------------
(***************************************************************************)
(* The timer queues of the CCSP kernel (sched.c: timer queue, Y_tin,       *)
(* Y_fasttin, timer guards of ALTs).  Each thread keeps the processes that *)
(* wait for a time in a list of nodes ordered by time.  A process that     *)
(* alternates may be woken by a channel and run on another thread while    *)
(* its node is still in the list of the first: the two threads compete for *)
(* the node with a swap of its wptr, and the node may be reused only when  *)
(* its thread has unlinked it and marked it clean.                         *)
(*                                                                         *)
(* Each process in Alts repeats an ALT of a channel and Guards timers, in  *)
(* the code of occ21: Y_enbc3, Y_enbt3, Y_taltwt, then X_ndist and X_ndisc *)
(* in reverse order.  Each access to a word that two threads share is one  *)
(* step; a loop around a CAS is the step in which it succeeds, and a list  *)
(* is cleaned in one step (only its thread sees the links).  The enabling  *)
(* of a channel, in detail in ChanAlt, is one step, and so the flag        *)
(* ALT_ENABLING, which covers its two halves, is left out.                 *)
(*                                                                         *)
(* Times are integers modulo Period (2^32).  When a thread looks at its    *)
(* queue is up to its alarm (ccsp_set_next_alarm, not modelled): here it   *)
(* is at any time, but no timer is overdue by more than Slack.             *)
(***************************************************************************)
EXTENDS Integers, Sequences, FiniteSets, SequencesExt

CONSTANTS Threads,
          Sleepers,    \* processes that use timer inputs
          Alts,        \* processes that use ALTs
          Guards,      \* timer guards of an ALT
          Nodes,       \* memory for nodes
          Period,      \* times are modulo this
          MaxDelay,    \* bound: how far ahead a process waits
          Slack,       \* how late a timer may be seen
          None

Procs == Sleepers \cup Alts
Half  == Period \div 2

ASSUME TimerAssumption ==
  /\ Sleepers \cap Alts = {} /\ None \notin Procs \cup Nodes /\ Threads # {}
  /\ "set" \notin Nodes /\ "notset" \notin Nodes
  /\ Guards \in Nat \ {0} /\ Period \in Nat /\ Period = 2 * Half
  /\ MaxDelay \in Nat \ {0} /\ Slack \in Nat \ {0} /\ MaxDelay + Slack < Half

VARIABLES
  now,       \* the clock
  queue,     \* tq_fptr .. tq_bptr of each thread
  node,      \* the nodes: wptr, time, dirty (BATCH_DIRTY), scheduler
  free,      \* memory on the threads' lists of free batches, or not yet allocated
  laundry,   \* nodes released while they were dirty
  sync,      \* SYNC_TQ of each thread
  walk,      \* walk_timer_queue: where it is, its now, the ALT it triggers
  pc, on,    \* where each process is, and on which thread
  state,     \* Wptr[State] of an ALT: its count, ALT_WAITING, ALT_NOT_READY
  tlink,     \* Wptr[TLink]: "notset" (TimeNotSet_p), "set" (TimeSet_p), or a node
  field,     \* Wptr[Time_f]
  guards,    \* the times of the timer guards
  held,      \* the node that kernel_dist is about to release
  k,         \* the guard being enabled or disabled
  temp,      \* Wptr[Temp]: the guard selected (0: NoneSelected_o)
  chan,      \* the channel word of the ALT
  trig       \* a writer has taken the ALT's word and is to trigger it

mem   == <<queue, node, free, laundry>>
where == <<pc, on>>
alt   == <<state, tlink, field, guards, held, k, temp>>
vars  == <<now, mem, sync, walk, where, alt, chan, trig>>

Times   == 0 .. Period - 1
Channel == Guards + 1                 \* temp, when the channel is selected
Wptr    == Procs \cup {None}

TypeOK ==
  /\ now \in Times /\ queue \in [Threads -> Seq(Nodes)]
  /\ node \in [Nodes -> [wptr : Wptr, time : Times, dirty : BOOLEAN, owner : Threads]]
  /\ free \subseteq Nodes /\ laundry \subseteq Nodes /\ sync \in [Threads -> BOOLEAN]
  /\ walk \in [Threads -> [pc : {"off", "look", "swap", "trigger", "clean"}, now : Times, ptr : Wptr]]
  /\ pc \in [Procs -> {"idle", "b_tin", "enbt", "taltwt", "cas", "b_altwt", "dist",
                       "release", "disc", "altend", "b_altend", "select"}]
  /\ on \in [Procs -> Threads]
  /\ state \in [Alts -> [n : 0 .. 3, waiting : BOOLEAN, notReady : BOOLEAN]]
  /\ tlink \in [Alts -> Nodes \cup {"notset", "set"}] /\ field \in [Alts -> Times]
  /\ held \in [Alts -> Nodes \cup {None}]
  /\ guards \in [Alts -> [1..Guards -> Times]] /\ k \in [Alts -> 1..Guards]
  /\ temp \in [Alts -> 0..Channel] /\ chan \in [Alts -> {"none", "alt", "writer"}]
  /\ trig \subseteq Alts

AnyThread == CHOOSE t \in Threads : TRUE
Init ==
  /\ now = 0 /\ queue = [t \in Threads |-> <<>>]
  /\ node = [n \in Nodes |-> [wptr |-> None, time |-> 0, dirty |-> FALSE, owner |-> AnyThread]]
  /\ free = Nodes /\ laundry = {}
  /\ sync = [t \in Threads |-> FALSE]
  /\ walk = [t \in Threads |-> [pc |-> "off", now |-> 0, ptr |-> None]]
  /\ pc = [p \in Procs |-> "idle"] /\ on = [p \in Procs |-> AnyThread]
  /\ state = [p \in Alts |-> [n |-> 0, waiting |-> FALSE, notReady |-> FALSE]]
  /\ tlink = [p \in Alts |-> "notset"] /\ field = [p \in Alts |-> 0]
  /\ held = [p \in Alts |-> None]
  /\ guards = [p \in Alts |-> [g \in 1..Guards |-> 0]] /\ k = [p \in Alts |-> 1]
  /\ temp = [p \in Alts |-> 0] /\ chan = [p \in Alts |-> "none"] /\ trig = {}

Set(f, x, v) == f' = [f EXCEPT ![x] = v]

\* Time_MINUS, Time_AFTER: the sign bit of t2 - t1.
Minus(t1, t2) == (t1 - t2) % Period
After(t1, t2) == Minus(t2, t1) >= Half

\* A thread runs one process, or walks its queue; a process that is in the
\* middle of a kernel call keeps its thread.
InCall == {"cas", "release"}
Free(t) == walk[t].pc = "off" /\ \A p \in Procs : on[p] = t => pc[p] \notin InCall
Runs(p, l) == pc[p] = l /\ (l \in InCall \/ Free(on[p]))

\* enqueue_process: a blocked process goes on, on any thread that takes it.
Blocked == {"b_tin", "b_altwt", "b_altend"}
Goes(l) == CASE l = "b_altwt" -> "dist" [] l = "b_altend" -> "select" [] OTHER -> "idle"
Enqueue(p) == Set(pc, p, Goes(pc[p])) /\ \E t \in Threads : Set(on, p, t)

-----------------------------------------------------------------------------
(* The queue                                                               *)

\* allocate_batch and release_batch.  The lists of all threads are taken
\* together (Migration has them apart), and nodes washed when they are needed.
Washed == {n \in laundry : ~node[n].dirty}
Allocate(n) == n \in free \cup Washed /\ free' = free \ {n} /\ laundry' = laundry \ {n}
Release(n, dirty) ==
  IF dirty THEN laundry' = laundry \cup {n} /\ UNCHANGED free
           ELSE free' = free \cup {n} /\ UNCHANGED laundry

\* The search of add_to_timer_queue among nodes with the times ts, from both
\* ends at once: the step at which it stops, and the node that it stops at.
Stops(ts, x, i) == After(ts[i], x) \/ ~After(ts[Len(ts) + 1 - i], x)
Step(ts, x) == CHOOSE i \in DOMAIN ts : Stops(ts, x, i) /\ \A j \in 1 .. i - 1 : ~Stops(ts, x, j)
AtFront(ts, x) == After(ts[Step(ts, x)], x)
Stop(ts, x) == IF AtFront(ts, x) THEN Step(ts, x) ELSE Len(ts) + 1 - Step(ts, x)

\* The place of the new node: before or after that one.
Place(ts, x) == IF ts = <<>> THEN 1 ELSE IF AtFront(ts, x) THEN Stop(ts, x) ELSE Stop(ts, x) + 1

\* insert_tqnode uses the node at which the search stopped if that is unused;
\* else a new one is linked.
TimesOf(q) == [i \in DOMAIN q |-> node[q[i]].time]
Unused(n) == node[n].wptr = None /\ ~node[n].dirty
AddLast(t, p, x, n) ==                   \* mutant: there is no search
  /\ Allocate(n) /\ Set(queue, t, Append(queue[t], n))
  /\ Set(node, n, [wptr |-> p, time |-> x, dirty |-> p \in Alts, owner |-> t])
Add(t, p, x, n) ==
  LET q == queue[t]  ts == TimesOf(q) IN
  /\ IF q # <<>> /\ Unused(q[Stop(ts, x)])
     THEN n = q[Stop(ts, x)] /\ UNCHANGED <<queue, free, laundry>>
     ELSE Allocate(n) /\ Set(queue, t, InsertAt(q, Place(ts, x), n))
  /\ Set(node, n, [wptr |-> p, time |-> x, dirty |-> p \in Alts, owner |-> t])

\* Those of the nodes s that are in A, in their order.
Keep(s, A) ==
  LET kept[i \in 0 .. Len(s)] ==
        IF i = 0 THEN <<>> ELSE IF s[i] \in A THEN Append(kept[i-1], s[i]) ELSE kept[i-1]
  IN  kept[Len(s)]

\* delete_tqnode
Unlinked(t, n) == Keep(queue[t], Nodes \ {n})

-----------------------------------------------------------------------------
(* Timer inputs, by a process on thread t                                  *)

\* Time_PLUS
Future(d) == (now + d) % Period

\* Y_tin: wait until after a time, if that has not come.
Tin(p, t, x) ==
  /\ pc[p] = "idle" /\ Free(t)
  /\ ~After(now, x)
  /\ \E n \in Nodes : Add(t, p, (x + 1) % Period, n)
  /\ Set(pc, p, "b_tin") /\ Set(on, p, t)
  /\ UNCHANGED <<now, sync, walk, alt, chan, trig>>

\* Y_fasttin: the compiler has made the test.
FastTin(p, t, x) ==
  /\ pc[p] = "idle" /\ Free(t)
  /\ \E n \in Nodes : Add(t, p, x, n)
  /\ Set(pc, p, "b_tin") /\ Set(on, p, t)
  /\ UNCHANGED <<now, sync, walk, alt, chan, trig>>

-----------------------------------------------------------------------------
(* An ALT with timer guards                                                *)

AltStep == UNCHANGED <<now, sync, walk, trig>>

\* X_talt, and kernel_enbc of the first guard: if a writer waits, the ALT
\* jumps to the disabling sequence, else its word goes into the channel.
Talt(p, t, g) ==
  /\ pc[p] = "idle" /\ Free(t)
  /\ \/ /\ chan[p] = "none" /\ Set(chan, p, "alt")
        /\ Set(state, p, [n |-> 2, waiting |-> FALSE, notReady |-> TRUE]) /\ Set(pc, p, "enbt")
     \/ /\ chan[p] = "writer" /\ UNCHANGED chan
        /\ Set(state, p, [n |-> 1, waiting |-> FALSE, notReady |-> FALSE]) /\ Set(pc, p, "disc")
  /\ Set(tlink, p, "notset") /\ Set(guards, p, g) /\ Set(k, p, 1) /\ Set(temp, p, 0)
  /\ Set(on, p, t)
  /\ AltStep /\ UNCHANGED <<mem, field, held>>

\* kernel_enbt: if the time has come, jump to the disabling sequence; else
\* the earliest time is kept.
EnbT(p) ==
  LET x == guards[p][k[p]] IN
  /\ Runs(p, "enbt")
  /\ Set(tlink, p, "set")
  /\ IF ~After(x, now)
     THEN /\ Set(field, p, now) /\ Set(state, p, [state[p] EXCEPT !.notReady = FALSE])
          /\ Set(pc, p, "dist") /\ UNCHANGED k
     ELSE /\ Set(field, p, IF tlink[p] = "notset" \/ After(field[p], x) THEN x ELSE field[p])
          /\ IF k[p] < Guards THEN Set(k, p, k[p] + 1) /\ UNCHANGED pc
                              ELSE Set(pc, p, "taltwt") /\ UNCHANGED k
          /\ UNCHANGED state
  /\ AltStep /\ UNCHANGED <<mem, on, guards, held, temp, chan>>

\* Y_taltwt: no wait when a guard is ready or the time has come; else a node
\* is queued (and the time of this call kept, for GoesOn).
GoesOn(p, x) ==
  /\ Set(field, p, x) /\ Set(state, p, [state[p] EXCEPT !.notReady = FALSE])
  /\ Set(pc, p, "dist")
Taltwt(p) ==
  /\ Runs(p, "taltwt") /\ Set(temp, p, 0)
  /\ IF state[p].notReady /\ After(field[p], now)
     THEN /\ \E n \in Nodes : Add(on[p], p, field[p], n) /\ Set(tlink, p, n)
          /\ Set(field, p, now) /\ Set(pc, p, "cas") /\ UNCHANGED state
     ELSE GoesOn(p, now) /\ UNCHANGED <<mem, tlink>>
  /\ AltStep /\ UNCHANGED <<on, guards, held, k, chan>>

\* The CAS of Y_taltwt fails when the ALT has been triggered since the state
\* was read (that clears ALT_NOT_READY): the node is taken out again.
TaltwtCas(p) ==
  LET t == on[p]  n == tlink[p] IN
  /\ Runs(p, "cas")
  /\ \/ /\ state[p].notReady
        /\ Set(state, p, [n |-> state[p].n + 1, waiting |-> TRUE, notReady |-> FALSE])
        /\ Set(pc, p, "b_altwt") /\ UNCHANGED <<mem, tlink, field>>
     \/ /\ ~state[p].notReady
        /\ Set(tlink, p, "set") /\ Set(queue, t, Unlinked(t, n))
        /\ Set(node, n, [node[n] EXCEPT !.dirty = FALSE]) /\ Release(n, FALSE)
        /\ GoesOn(p, field[p])
  /\ AltStep /\ UNCHANGED <<on, guards, held, k, temp, chan>>

\* trigger_alt_guard
Wakes(p) == state[p].waiting \/ state[p].n = 1
TriggerAlt(p) ==
  /\ Set(state, p, [n |-> state[p].n - 1, waiting |-> FALSE, notReady |-> FALSE])
  /\ IF Wakes(p) THEN Enqueue(p) ELSE UNCHANGED where

\* kernel_dist of guard k, the last one first.  remove_from_timer_queue: on
\* the node's own thread it is unlinked; on another its wptr is swapped, and
\* the node's thread told to clean its queue.
LaterStill(p) == IF k[p] > 0 THEN k' = [k EXCEPT ![p] = @ - 1] /\ Set(pc, p, "dist")   \* mutant
                             ELSE UNCHANGED k /\ Set(pc, p, "disc")
Later(p) == IF k[p] > 1 THEN k' = [k EXCEPT ![p] = @ - 1] /\ Set(pc, p, "dist")
                        ELSE UNCHANGED k /\ Set(pc, p, "disc")
RemoveClean(p, n) ==                     \* mutant: the node is marked clean by either
  /\ Set(node, n, [node[n] EXCEPT !.wptr = None, !.dirty = FALSE])
  /\ Set(queue, on[p], Unlinked(on[p], n)) /\ Set(sync, node[n].owner, node[n].owner # on[p])
RemoveNode(p, n) ==
  IF node[n].owner = on[p]
  THEN /\ Set(queue, on[p], Unlinked(on[p], n))
       /\ Set(node, n, [node[n] EXCEPT !.dirty = FALSE]) /\ UNCHANGED sync
  ELSE /\ Set(node, n, [node[n] EXCEPT !.wptr = None])
       /\ Set(sync, node[n].owner, TRUE) /\ UNCHANGED queue

\* No node is queued: if a time is set it is compared.
DistSet(p) ==
  /\ Runs(p, "dist") /\ tlink[p] \in {"set", "notset"}
  /\ Set(temp, p, IF tlink[p] = "set" /\ ~After(guards[p][k[p]], field[p]) THEN k[p] ELSE temp[p])
  /\ Later(p)
  /\ AltStep /\ UNCHANGED <<mem, on, state, tlink, field, guards, held, chan>>

\* The node is still armed: it is removed, and no longer counted.
DistArmed(p) ==
  /\ Runs(p, "dist") /\ tlink[p] \in Nodes /\ node[tlink[p]].wptr = p
  /\ RemoveNode(p, tlink[p]) /\ Set(state, p, [state[p] EXCEPT !.n = @ - 1])
  /\ Set(held, p, tlink[p]) /\ Set(tlink, p, "notset") /\ Set(pc, p, "release")
  /\ UNCHANGED <<now, walk, trig, free, laundry, on, field, guards, k, temp, chan>>

\* Mutant: no other guard is considered.
DistFiredOnce(p) ==
  LET x == node[tlink[p]].time IN
  /\ Runs(p, "dist") /\ tlink[p] \in Nodes /\ node[tlink[p]].wptr = None
  /\ Set(field, p, x) /\ Set(temp, p, IF ~After(guards[p][k[p]], x) THEN k[p] ELSE temp[p])
  /\ Set(held, p, tlink[p]) /\ Set(tlink, p, "notset") /\ Set(pc, p, "release")
  /\ AltStep /\ UNCHANGED <<mem, on, state, guards, k, chan>>

\* The node has fired, for this guard or an earlier one.
DistFired(p) ==
  LET x == node[tlink[p]].time  reached == ~After(guards[p][k[p]], x) IN
  /\ Runs(p, "dist") /\ tlink[p] \in Nodes /\ node[tlink[p]].wptr = None
  /\ Set(field, p, x) /\ Set(temp, p, IF reached THEN k[p] ELSE temp[p])
  /\ Set(held, p, tlink[p]) /\ Set(tlink, p, IF reached THEN "notset" ELSE "set")
  /\ Set(pc, p, "release")
  /\ AltStep /\ UNCHANGED <<mem, on, state, guards, k, chan>>

ReleaseHeld(p) ==
  /\ Runs(p, "release")
  /\ Release(held[p], node[held[p]].dirty) /\ Set(held, p, None)
  /\ Later(p)
  /\ AltStep /\ UNCHANGED <<queue, node, on, state, tlink, field, guards, temp, chan>>

\* kernel_disc
Disc(p) ==
  /\ Runs(p, "disc") /\ Set(pc, p, "altend")
  /\ \/ /\ chan[p] = "alt" /\ Set(chan, p, "none")
        /\ Set(state, p, [state[p] EXCEPT !.n = @ - 1]) /\ UNCHANGED temp
     \/ chan[p] = "writer" /\ Set(temp, p, Channel) /\ UNCHANGED <<chan, state>>
  /\ AltStep /\ UNCHANGED <<mem, on, tlink, field, guards, held, k>>

\* kernel_altend: triggers that are still to come are waited for.
AltEnd(p) ==
  /\ Runs(p, "altend")
  /\ IF state[p].n = 1
     THEN Set(pc, p, "select") /\ UNCHANGED state
     ELSE /\ Set(state, p, [state[p] EXCEPT !.n = @ - 1])
          /\ Set(pc, p, "b_altend")
  /\ AltStep /\ UNCHANGED <<mem, on, tlink, field, guards, held, k, temp, chan>>

\* The process of the selected guard: an input takes the waiting writer.
Select(p) ==
  /\ Runs(p, "select") /\ Set(pc, p, "idle")
  /\ Set(chan, p, IF temp[p] = Channel THEN "none" ELSE chan[p])
  /\ AltStep /\ UNCHANGED <<mem, on, alt>>

\* A process that outputs on the channel, on some thread.
Write(p) ==
  /\ chan[p] # "writer" /\ p \notin trig
  /\ Set(chan, p, "writer")
  /\ trig' = IF chan[p] = "alt" THEN trig \cup {p} ELSE trig
  /\ UNCHANGED <<now, mem, sync, walk, where, alt>>
WriteTrigger(p) ==
  /\ p \in trig /\ trig' = trig \ {p} /\ TriggerAlt(p)
  /\ UNCHANGED <<now, mem, sync, walk, tlink, field, guards, held, k, temp, chan>>

-----------------------------------------------------------------------------
(* walk_timer_queue, by thread t                                           *)

Walk(t, l) == Set(walk, t, [walk[t] EXCEPT !.pc = l])
Started(t) == Set(walk, t, [walk[t] EXCEPT !.pc = "look", !.now = now])

\* check_timer_queue
Check(t) ==
  /\ Free(t) /\ queue[t] # <<>> /\ Started(t)
  /\ UNCHANGED <<now, mem, sync, where, alt, chan, trig>>

Expired(t) ==
  /\ walk[t].pc = "look" /\ queue[t] # <<>>
  /\ LET m == node[Head(queue[t])] IN m.wptr = None \/ ~After(m.time, walk[t].now)
EndWalk(t) ==
  /\ walk[t].pc = "look" /\ ~Expired(t) /\ Walk(t, "off")
  /\ UNCHANGED <<now, mem, sync, where, alt, chan, trig>>

\* A process that waits for nothing else.
WalkWake(t) ==
  LET n == Head(queue[t]) IN
  /\ Expired(t) /\ node[n].wptr \in Sleepers
  /\ Enqueue(node[n].wptr) /\ Release(n, node[n].dirty)
  /\ Set(queue, t, Tail(queue[t]))
  /\ UNCHANGED <<now, node, sync, walk, alt, chan, trig>>

\* A node whose ALT has removed it.
WalkDead(t) ==
  LET n == Head(queue[t]) IN
  /\ Expired(t) /\ node[n].wptr = None
  /\ Set(node, n, [node[n] EXCEPT !.dirty = FALSE]) /\ Set(queue, t, Tail(queue[t]))
  /\ UNCHANGED <<now, free, laundry, sync, walk, where, alt, chan, trig>>

\* Mutant: the ALT is triggered without a swap.
WalkAltRead(t) ==
  LET n == Head(queue[t]) IN
  /\ Expired(t) /\ node[n].wptr \in Alts
  /\ Set(node, n, [node[n] EXCEPT !.time = walk[t].now])
  /\ Set(walk, t, [walk[t] EXCEPT !.pc = "trigger", !.ptr = node[n].wptr])
  /\ UNCHANGED <<now, queue, free, laundry, sync, where, alt, chan, trig>>

\* An ALT is challenged: the time is written, wptr swapped, the ALT triggered
\* if it was still there, and the node marked clean.
WalkAlt(t) ==
  LET n == Head(queue[t]) IN
  /\ Expired(t) /\ node[n].wptr \in Alts
  /\ Set(node, n, [node[n] EXCEPT !.time = walk[t].now]) /\ Walk(t, "swap")
  /\ UNCHANGED <<now, queue, free, laundry, sync, where, alt, chan, trig>>

WalkSwap(t) ==
  LET n == Head(queue[t]) IN
  /\ walk[t].pc = "swap"
  /\ Set(node, n, [node[n] EXCEPT !.wptr = None])
  /\ Set(walk, t, [walk[t] EXCEPT !.pc = IF node[n].wptr = None THEN "clean" ELSE "trigger",
                                  !.ptr = node[n].wptr])
  /\ UNCHANGED <<now, queue, free, laundry, sync, where, alt, chan, trig>>

WalkTrigger(t) ==
  /\ walk[t].pc = "trigger" /\ TriggerAlt(walk[t].ptr)
  /\ Set(walk, t, [walk[t] EXCEPT !.pc = "clean", !.ptr = None])
  /\ UNCHANGED <<now, mem, sync, tlink, field, guards, held, k, temp, chan, trig>>

WalkClean(t) ==
  LET n == Head(queue[t]) IN
  /\ walk[t].pc = "clean" /\ Walk(t, "look")
  /\ Set(node, n, [node[n] EXCEPT !.dirty = FALSE]) /\ Set(queue, t, Tail(queue[t]))
  /\ UNCHANGED <<now, free, laundry, sync, where, alt, chan, trig>>

-----------------------------------------------------------------------------
(* clean_timer_queue, in kernel_scheduler: when SYNC_TQ is set, before the *)
(* queue is checked, and when the thread has nothing to do.                *)

DeadIn(t) == {n \in ToSet(queue[t]) : node[n].wptr = None}
Live(t) == Keep(queue[t], {n \in Nodes : node[n].wptr # None})
Clean(t) == /\ Set(queue, t, Live(t))
            /\ node' = [n \in Nodes |-> IF n \in DeadIn(t) THEN [node[n] EXCEPT !.dirty = FALSE] ELSE node[n]]
SyncTq(t) ==
  /\ Free(t) /\ sync[t] /\ Set(sync, t, FALSE) /\ Clean(t)
  /\ IF Live(t) # <<>> THEN Started(t) ELSE UNCHANGED walk
  /\ UNCHANGED <<now, free, laundry, where, alt, chan, trig>>
Idle(t) ==
  /\ Free(t) /\ DeadIn(t) # {} /\ Clean(t)
  /\ UNCHANGED <<now, free, laundry, sync, walk, where, alt, chan, trig>>

\* The clock.  Threads look at their queues, and an ALT or a walk under way
\* goes on, before a time they use is overdue by Slack.
Overdue(x) == Minus(now, x) \in Slack .. Half - 1
Uses(p) == {guards[p][g] : g \in 1..Guards} \cup (IF tlink[p] = "set" THEN {field[p]} ELSE {})
Tick ==
  /\ \A t \in Threads : /\ \A n \in ToSet(queue[t]) : ~Overdue(node[n].time)
                        /\ walk[t].pc # "off" => ~Overdue(walk[t].now)
  /\ \A p \in Alts : pc[p] # "idle" => \A x \in Uses(p) : ~Overdue(x)
  /\ now' = Future(1)
  /\ UNCHANGED <<mem, sync, walk, where, alt, chan, trig>>

AltAction(p) == EnbT(p) \/ Taltwt(p) \/ TaltwtCas(p) \/ DistSet(p) \/ DistArmed(p)
                \/ DistFired(p) \/ ReleaseHeld(p) \/ Disc(p) \/ AltEnd(p) \/ Select(p)
WalkStep(t) == EndWalk(t) \/ WalkWake(t) \/ WalkDead(t) \/ WalkAlt(t) \/ WalkSwap(t)
               \/ WalkTrigger(t) \/ WalkClean(t)

Next ==
  \/ Tick
  \/ \E p \in Sleepers, t \in Threads, d \in 1..MaxDelay : Tin(p, t, Future(d - 1)) \/ FastTin(p, t, Future(d))
  \/ \E p \in Alts, t \in Threads, g \in [1..Guards -> {Future(d) : d \in 1..MaxDelay}] : Talt(p, t, g)
  \/ \E p \in Alts : AltAction(p) \/ Write(p) \/ WriteTrigger(p)
  \/ \E t \in Threads : Check(t) \/ WalkStep(t) \/ SyncTq(t) \/ Idle(t)

Spec == Init /\ [][Next]_vars

-----------------------------------------------------------------------------
(* Properties                                                              *)

\* Each queue is ordered, so that a walk which stops at the first time that
\* has not come leaves no expired timer behind (add_to_timer_queue searches
\* from both ends, and nodes come and go at any place).  The node in the
\* hands of a walk is already out of the order.
Ordered ==
  \A t \in Threads : \A i, j \in DOMAIN queue[t] :
    i < j /\ (i = 1 => walk[t].pc \in {"off", "look"})
      => ~After(node[queue[t][i]].time, node[queue[t][j]].time)

\* Memory of a node is reused only when no queue links it and no ALT refers
\* to it, and no node is released twice, however the walk of its thread and
\* the removal by another thread interleave.
Linked(n)   == \E t \in Threads : n \in ToSet(queue[t])
Referred(n) == \E p \in Alts : held[p] = n \/ (tlink[p] = n /\ pc[p] # "idle")
NodeReuse ==
  /\ \A n \in free \cup Washed : ~Linked(n)
  /\ \A n \in free \cup laundry : ~Referred(n)
  /\ \A t \in Threads : \A i, j \in DOMAIN queue[t] : i # j => queue[t][i] # queue[t][j]

\* The count in an ALT's State is exact: itself, until it has ended, the
\* channel and the timer while either is enabled or about to trigger it.  The
\* thread that walks and the one that disables never both count the timer.
Armed(p) == \/ pc[p] \in {"b_altwt", "dist"} /\ tlink[p] \in Nodes /\ node[tlink[p]].wptr = p
            \/ \E t \in Threads : walk[t].pc = "trigger" /\ walk[t].ptr = p
Bit(b) == IF b THEN 1 ELSE 0
CountExact ==
  \A p \in Alts : pc[p] \notin {"idle", "select"} =>
    state[p].n = Bit(pc[p] # "b_altend") + Bit(chan[p] = "alt" \/ p \in trig) + Bit(Armed(p))

\* An ALT is scheduled only while it is blocked: by its timer or its channel,
\* not by both.
EnqueueBlocked ==
  \A p \in Alts :
    (p \in trig \/ \E t \in Threads : walk[t].pc = "trigger" /\ walk[t].ptr = p) /\ Wakes(p)
      => pc[p] \in {"b_altwt", "b_altend"}

\* A timer guard triggers its ALT once, or is taken out, never both.
TriggeredOnce == CountExact /\ EnqueueBlocked

\* An ALT that ends has selected a guard, and a selected timer guard's time
\* has come: whether the node fired, was removed, or was never queued.
GuardSelected ==
  \A p \in Alts : pc[p] = "select" =>
    temp[p] # 0 /\ (temp[p] # Channel => ~After(guards[p][temp[p]], now))
=============================================================================
