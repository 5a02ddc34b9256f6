------------------------------- MODULE Barrier -------------------------------
(***************************************************************************)
(* The lock-free barrier of CCSP (sched.c: bar_init, bar_sync, bar_enroll, *)
(* bar_resign, bar_complete, bar_complete_head).                           *)
(*                                                                         *)
(* One word holds the number of processes that have still to come, a two   *)
(* bit phase tag and a flag that the barrier is being completed.  Each     *)
(* thread collects the processes that synchronise on it in a head of its   *)
(* own, found in head[thread] and announced by a bit of heads.  The thread *)
(* that brings the count to zero completes the barrier: it takes the heads *)
(* and makes their processes ready, while processes that are ready again   *)
(* may already synchronise in the next phase.                              *)
(*                                                                         *)
(* Every access to a shared word is a step; memory is sequentially         *)
(* consistent.  How a head sorts its processes into batches by priority,   *)
(* affinity and size is abstracted: a head is a set of processes.  A freed *)
(* head can be allocated again at the same address, so a CAS on head[t]    *)
(* compares only the tags.                                                 *)
(***************************************************************************)
EXTENDS Naturals, FiniteSets

CONSTANTS NThreads,   \* scheduler threads
          Procs,      \* processes that use the barrier
          Initial,    \* those that it is created for (initial_count)
          None        \* NULL

Threads == 0 .. NThreads - 1
Tags    == 0..3
NextTag(g) == (g + 1) % 4
NoState == [count |-> 0, tag |-> 0, syncing |-> FALSE]

ASSUME BarrierAssumption ==
  /\ NThreads \in Nat \ {0} /\ IsFiniteSet(Procs)
  /\ Initial \subseteq Procs /\ Initial # {}
  /\ None \notin Procs \cup Nat \cup [tag : Tags, ps : SUBSET Procs]

VARIABLES
  state,      \* bar->state
  heads,      \* bar->heads
  head,       \* bar->head
  pc,         \* where each thread is
  cur,        \* the process that calls bar_sync or bar_resign
  st,         \* the thread's copy of bar->state
  hd,         \* tag of its copy of a head pointer
  taken,      \* processes of the head that the thread completes
  snap,       \* bar_complete: heads still to be looked at
  tag,        \* bar_complete: tag
  idx,        \* bar_complete: thread whose head is looked at
  ready,      \* enrolled processes that run or are queued to run
  enrolled,   \* processes that are enrolled
  synced      \* history: those that have come in this phase

shared == <<state, heads, head>>
member == <<ready, enrolled, synced>>
local  == <<cur, st, hd, taken, snap, tag, idx>>
vars   == <<shared, member, pc, local>>

States == [count : 0 .. Cardinality(Procs) + 1, tag : Tags, syncing : BOOLEAN]
HeadPtrs == [tag : Tags, ps : SUBSET Procs] \cup {None}
Labels == {"idle", "head", "swap", "bit", "set", "join", "count", "own", "other",
           "add", "release", "clear", "test", "next", "end", "resign", "rheads", "rlast", "rnone",
           "heads", "cas"}

TypeOK ==
  /\ state \in States /\ heads \subseteq Threads /\ head \in [Threads -> HeadPtrs]
  /\ pc \in [Threads -> Labels] /\ cur \in [Threads -> Procs \cup {None}]
  /\ st \in [Threads -> States] /\ hd \in [Threads -> Tags \cup {None}]
  /\ taken \in [Threads -> SUBSET Procs] /\ snap \in [Threads -> SUBSET Threads]
  /\ tag \in [Threads -> Tags \cup {None}] /\ idx \in [Threads -> Threads \cup {None}]
  /\ ready \subseteq enrolled /\ synced \subseteq enrolled /\ enrolled \subseteq Procs

\* bar_init
Init ==
  /\ state = [count |-> Cardinality(Initial), tag |-> 0, syncing |-> FALSE]
  /\ heads = {} /\ head = [t \in Threads |-> None]
  /\ pc = [t \in Threads |-> "idle"] /\ cur = [t \in Threads |-> None]
  /\ st = [t \in Threads |-> NoState] /\ hd = [t \in Threads |-> None]
  /\ taken = [t \in Threads |-> {}] /\ snap = [t \in Threads |-> {}]
  /\ tag = [t \in Threads |-> None] /\ idx = [t \in Threads |-> None]
  /\ ready = Initial /\ enrolled = Initial /\ synced = {}

Set(f, t, v) == f' = [f EXCEPT ![t] = v]
To(t, l)     == Set(pc, t, l)

-----------------------------------------------------------------------------
(* bar_enroll: a process that is enrolled brings in another one            *)
Enroll ==
  /\ ready # {}
  /\ \E p \in Procs \ enrolled :
       /\ state' = [state EXCEPT !.count = @ + 1]
       /\ enrolled' = enrolled \cup {p} /\ ready' = ready \cup {p}
  /\ UNCHANGED <<heads, head, synced, pc, local>>

-----------------------------------------------------------------------------
(* bar_sync                                                                *)

\* A ready process, run by any thread, calls bar_sync: state is read.
Sync(t) ==
  /\ pc[t] = "idle"
  /\ \E p \in ready : Set(cur, t, p) /\ ready' = ready \ {p}
  /\ Set(st, t, state)
  /\ To(t, "head") /\ UNCHANGED <<shared, enrolled, synced, hd, taken, snap, tag, idx>>

\* The head of this thread is read.  It can be used when no completion is
\* going on, or when it belongs to the new phase.
ReadHead(t) ==
  /\ pc[t] = "head"
  /\ LET h == head[t] IN
     To(t, IF h = None THEN "bit"
           ELSE IF st[t].syncing /\ h.tag # st[t].tag THEN "swap" ELSE "join")
  /\ UNCHANGED <<shared, member, local>>

\* A head of the old phase: it is completed here, unless the completing
\* thread has just taken it.
SwapOld(t) ==
  /\ pc[t] = "swap"
  /\ Set(head, t, None)
  /\ IF head[t] = None THEN To(t, "bit") /\ UNCHANGED taken
                       ELSE To(t, "add") /\ Set(taken, t, head[t].ps)
  /\ UNCHANGED <<state, heads, member, cur, st, hd, snap, tag, idx>>

\* (mutant: during a completion the bit of a new head is not set)
SetBitQuiet(t) ==
  /\ pc[t] = "bit"
  /\ heads' = IF st[t].syncing THEN heads ELSE heads \cup {t}
  /\ To(t, "set") /\ UNCHANGED <<state, head, member, local>>

\* A new head: its bit is set, then its pointer.
SetBit(t) ==
  /\ pc[t] = "bit"
  /\ heads' = heads \cup {t}
  /\ To(t, "set") /\ UNCHANGED <<state, head, member, local>>

SetHead(t) ==
  /\ pc[t] = "set"
  /\ Set(head, t, [tag |-> st[t].tag, ps |-> {}])
  /\ To(t, "join") /\ UNCHANGED <<state, heads, member, local>>

\* head->count is incremented and the process joins a batch of the head.
Join(t) ==
  /\ pc[t] = "join" /\ head[t] # None
  /\ head' = [head EXCEPT ![t].ps = @ \cup {cur[t]}]
  /\ To(t, "count") /\ UNCHANGED <<state, heads, member, local>>

\* The count is decremented, by the last process with the start of the
\* completion; when the CAS fails the state is read again.
Last(s, n) == s.count = n /\ ~s.syncing
Completing(g) == [count |-> 1, tag |-> g, syncing |-> TRUE]
Count(t) ==
  /\ pc[t] = "count"
  /\ \/ /\ state = st[t] /\ Last(st[t], 1)
        /\ state' = Completing(NextTag(st[t].tag))
        /\ Set(tag, t, NextTag(st[t].tag)) /\ synced' = {}
        /\ To(t, "heads") /\ Set(cur, t, None) /\ Set(st, t, NoState)
     \/ /\ state = st[t] /\ ~Last(st[t], 1)
        /\ state' = [state EXCEPT !.count = @ - 1]
        /\ synced' = synced \cup {cur[t]}
        /\ To(t, "idle") /\ Set(cur, t, None) /\ Set(st, t, NoState) /\ UNCHANGED tag
     \/ /\ state # st[t] /\ Set(st, t, state)
        /\ UNCHANGED <<state, synced, pc, cur, tag>>
  /\ UNCHANGED <<heads, head, ready, enrolled, hd, taken, snap, idx>>

-----------------------------------------------------------------------------
(* bar_resign, with a count of one                                         *)

Resign(t) ==
  /\ pc[t] = "idle"
  /\ \E p \in ready : Set(cur, t, p) /\ ready' = ready \ {p}
  /\ Set(st, t, state)
  /\ To(t, IF Last(state, 1) THEN "rheads" ELSE "resign")
  /\ UNCHANGED <<shared, enrolled, synced, hd, taken, snap, tag, idx>>

\* (mutant: nobody is thought to wait)
ResignAlone(t) ==
  /\ pc[t] = "rheads"
  /\ To(t, "rnone") /\ UNCHANGED <<shared, member, local>>

\* The only process that the barrier waits for resigns: is anyone waiting?
ResignHeads(t) ==
  /\ pc[t] = "rheads"
  /\ To(t, IF heads # {} THEN "rlast" ELSE "rnone")
  /\ UNCHANGED <<shared, member, local>>

\* The CAS of each of the three cases; when it fails, all begins again.
Resigned(t) == enrolled' = enrolled \ {cur[t]} /\ Set(cur, t, None) /\ Set(st, t, NoState)
ResignCas(t) ==
  /\ pc[t] \in {"resign", "rlast", "rnone"}
  /\ IF state = st[t]
     THEN /\ Resigned(t)
          /\ \/ /\ pc[t] = "rlast"
                /\ state' = Completing(NextTag(st[t].tag))
                /\ Set(tag, t, NextTag(st[t].tag)) /\ synced' = {} /\ To(t, "heads")
             \/ /\ pc[t] = "rnone"
                /\ state' = [state EXCEPT !.count = 0]
                /\ To(t, "idle") /\ UNCHANGED <<synced, tag>>
             \/ /\ pc[t] = "resign"
                /\ state' = [state EXCEPT !.count = @ - 1]
                /\ To(t, "idle") /\ UNCHANGED <<synced, tag>>
     ELSE /\ Set(st, t, state)
          /\ To(t, IF Last(state, 1) THEN "rheads" ELSE "resign")
          /\ UNCHANGED <<state, enrolled, synced, cur, tag>>
  /\ UNCHANGED <<heads, head, ready, hd, taken, snap, idx>>

-----------------------------------------------------------------------------
(* bar_complete_head: the processes are counted in for the next phase and  *)
(* then made ready                                                         *)

\* (mutant: a head counts as one process)
AddOne(t) ==
  /\ pc[t] = "add"
  /\ state' = [state EXCEPT !.count = @ + 1]
  /\ To(t, "release") /\ UNCHANGED <<heads, head, member, local>>

AddCount(t) ==
  /\ pc[t] = "add"
  /\ state' = [state EXCEPT !.count = @ + Cardinality(taken[t])]
  /\ To(t, "release") /\ UNCHANGED <<heads, head, member, local>>

\* bar_complete_head is called from bar_sync, or by the completing thread for
\* its own head, or for that of another thread.
Release(t) ==
  /\ pc[t] = "release"
  /\ ready' = ready \cup taken[t] /\ Set(taken, t, {})
  /\ To(t, IF tag[t] = None THEN "bit" ELSE IF idx[t] = None THEN "clear" ELSE "other")
  /\ UNCHANGED <<shared, enrolled, synced, cur, st, hd, snap, tag, idx>>

-----------------------------------------------------------------------------
(* bar_complete                                                            *)

\* (mutant: the thread's own head is passed over)
TakeOthers(t) ==
  /\ pc[t] = "heads"
  /\ heads' = {} /\ Set(snap, t, heads \ {t})
  /\ To(t, "other") /\ UNCHANGED <<state, head, member, cur, st, hd, taken, tag, idx>>

TakeHeads(t) ==
  /\ pc[t] = "heads"
  /\ heads' = {} /\ Set(snap, t, heads \ {t})
  /\ IF t \in heads THEN Set(taken, t, head[t].ps) /\ To(t, "add")
                    ELSE UNCHANGED taken /\ To(t, "other")
  /\ UNCHANGED <<state, head, member, cur, st, hd, tag, idx>>

\* The thread's own head is completed first, then its pointer is cleared.
ClearOwn(t) ==
  /\ pc[t] = "clear"
  /\ Set(head, t, None)
  /\ To(t, "other") /\ UNCHANGED <<state, heads, member, local>>

\* (mutant: heads of the new phase are taken as well)
OtherAny(t) ==
  /\ pc[t] = "other" /\ snap[t] # {}
  /\ LET i == CHOOSE u \in snap[t] : \A v \in snap[t] : u <= v
         h == head[i]
     IN /\ Set(snap, t, snap[t] \ {i})
        /\ IF h # None THEN To(t, "cas") /\ Set(idx, t, i) /\ Set(hd, t, h.tag)
                       ELSE To(t, "other") /\ Set(idx, t, None) /\ UNCHANGED hd
  /\ UNCHANGED <<shared, member, cur, st, taken, tag>>

\* The next head of the snapshot is read; one of the new phase stays.
Other(t) ==
  /\ pc[t] = "other" /\ snap[t] # {}
  /\ LET i == CHOOSE u \in snap[t] : \A v \in snap[t] : u <= v
         h == head[i]
     IN /\ Set(snap, t, snap[t] \ {i})
        /\ IF h # None /\ h.tag # tag[t]
           THEN To(t, "cas") /\ Set(idx, t, i) /\ Set(hd, t, h.tag)
           ELSE To(t, IF h # None THEN "own" ELSE "other")
                /\ Set(idx, t, IF h # None THEN i ELSE None) /\ UNCHANGED hd
  /\ UNCHANGED <<shared, member, cur, st, taken, tag>>

KeepBit(t) ==
  /\ pc[t] = "own"
  /\ heads' = heads \cup {idx[t]}
  /\ Set(idx, t, None)
  /\ To(t, "other") /\ UNCHANGED <<state, head, member, cur, st, hd, taken, snap, tag>>

CasHead(t) ==
  /\ pc[t] = "cas"
  /\ LET h == head[idx[t]] IN
     IF h # None /\ h.tag = hd[t]
     THEN /\ Set(head, idx[t], None) /\ Set(taken, t, h.ps) /\ To(t, "add") /\ UNCHANGED idx
     ELSE /\ To(t, "other") /\ Set(idx, t, None) /\ UNCHANGED <<head, taken>>
  /\ Set(hd, t, None)
  /\ UNCHANGED <<state, heads, member, cur, st, snap, tag>>

\* All heads are done: the state is read ...
Done(t) ==
  /\ pc[t] = "other" /\ snap[t] = {}
  /\ Set(st, t, state) /\ Set(idx, t, None)
  /\ To(t, IF state = Completing(tag[t]) THEN "test" ELSE "end")
  /\ UNCHANGED <<shared, member, cur, hd, taken, snap, tag>>

\* ... and heads, when nobody is left who could come ...
Test(t) ==
  /\ pc[t] = "test"
  /\ To(t, IF heads # {} THEN "next" ELSE "end")
  /\ UNCHANGED <<shared, member, local>>

\* ... to complete the next phase at once, or to end.
NextPhase(t) ==
  /\ pc[t] = "next"
  /\ IF state = st[t]
     THEN /\ state' = Completing(NextTag(tag[t])) /\ Set(tag, t, NextTag(tag[t]))
          /\ synced' = {} /\ Set(st, t, NoState) /\ To(t, "heads")
     ELSE To(t, "other") /\ UNCHANGED <<state, tag, synced, st>>
  /\ UNCHANGED <<heads, head, ready, enrolled, cur, hd, taken, snap, idx>>

End(t) ==
  /\ pc[t] = "end"
  /\ IF state = st[t]
     THEN /\ state' = [count |-> state.count - 1, tag |-> tag[t], syncing |-> FALSE]
          /\ Set(st, t, NoState) /\ Set(tag, t, None) /\ To(t, "idle")
     ELSE To(t, "other") /\ UNCHANGED <<state, st, tag>>
  /\ UNCHANGED <<heads, head, member, cur, hd, taken, snap, idx>>

Step(t) == ReadHead(t) \/ SwapOld(t) \/ SetBit(t) \/ SetHead(t) \/ Join(t) \/ Count(t)
           \/ ResignHeads(t) \/ ResignCas(t) \/ AddCount(t) \/ Release(t) \/ TakeHeads(t)
           \/ ClearOwn(t) \/ Other(t) \/ KeepBit(t) \/ CasHead(t) \/ Done(t) \/ Test(t)
           \/ NextPhase(t) \/ End(t)

Next == Enroll \/ \E t \in Threads : Sync(t) \/ Resign(t) \/ Step(t)

Spec == Init /\ [][Next]_vars
FairSpec == Spec /\ \A t \in Threads : WF_vars(Step(t))

-----------------------------------------------------------------------------
(* Properties                                                              *)

\* Nobody passes early: a process that has come in the current phase is
\* neither made ready nor on the way to it while a completion of the phase
\* before goes on (the tag test of bar_complete).
NoEarlyPass == /\ ready \cap synced = {}
               /\ \A t \in Threads : cur[t] \notin synced /\ taken[t] \cap synced = {}

\* The count is the number of processes that have still to come, counting
\* those on the way to be ready once they are added, and the one that keeps a
\* completion from being overtaken (atw_add in bar_complete_head before the
\* batches are pushed).
Calling == {t \in Threads : cur[t] # None}
CountExact ==
  state.count = (IF state.syncing THEN 1 ELSE 0) + Cardinality(ready) + Cardinality(Calling)
                + Cardinality(UNION {taken[t] : t \in {u \in Threads : pc[u] = "release"}})

\* Every enrolled process is in one place: ready, calling, in one head, or in
\* a head that one thread has taken.
Places(p) ==
  (IF p \in ready THEN {<<"ready">>} ELSE {})
  \cup {<<"calling", t>> : t \in {u \in Calling : cur[u] = p /\ pc[u] # "count"}}
  \cup {<<"head", t>> : t \in {u \in Threads : /\ head[u] # None /\ p \in head[u].ps
                             /\ ~(tag[u] # None /\ idx[u] = None /\ pc[u] \in {"add", "release", "clear"})}}
  \cup {<<"taken", t>> : t \in {u \in Threads : p \in taken[u]}}
OnePlace == \A p \in enrolled : Cardinality(Places(p)) = 1

\* A head that holds processes will be found: its bit is set, or a completing
\* thread still has it on its list.
HeadFound ==
  \A t \in Threads : head[t] # None =>
    \/ t \in heads
    \/ \E c \in Threads : t \in snap[c] \/ idx[c] = t
    \/ tag[t] # None /\ pc[t] \in {"add", "release", "clear"}

\* At most one thread completes the barrier, and only while the state says so.
OneCompleter ==
  /\ \A t, u \in Threads : tag[t] # None /\ tag[u] # None => t = u
  /\ state.syncing <=> \E t \in Threads : tag[t] # None

\* A completion is one thread's, and leaves the count right: bar_complete
\* starts the next phase only when everybody is counted in.
CompletionSound == TypeOK /\ CountExact /\ OneCompleter

\* No process is forgotten in a head, or released from two.
NoneForgotten == OnePlace /\ HeadFound

\* The barrier keeps the promise of PhaseBarrier.
Abstract == INSTANCE PhaseBarrier WITH Members <- Procs, waiting <- synced
IsBarrier == Abstract!Spec

\* A process that the barrier lets pass becomes ready: its head is never
\* forgotten by bar_complete and bar_sync.
Passed(p)   == p \in enrolled \ synced
MadeReady   == \A p \in Procs : Passed(p) ~> (p \in ready \/ ~Passed(p) \/ \E t \in Threads : cur[t] = p)
=============================================================================
