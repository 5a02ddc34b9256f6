---------------------------- MODULE MprocBarrier ----------------------------
(***************************************************************************)
(* The barrier of a mobile process (sched.c: mproc_bar_init, _enroll,      *)
(* _resign, _sync, _complete), as MPBARSYNC and MPBARRESIGN of occampi.occ *)
(* use it.  The parallel parts of a mobile process synchronise to suspend  *)
(* it.  All but the last wait in a queue; the last one finds Temp set,     *)
(* returns to the process that activated the mobile process, and when it   *)
(* is activated again synchronises a second time, which completes the      *)
(* barrier: the queue is made ready.  The last to come may also be one     *)
(* that resigns: then the first of the queue takes its place.              *)
(*                                                                         *)
(* Each access to a shared word is a step; memory is sequentially          *)
(* consistent.  Processes run in parallel.                                 *)
(***************************************************************************)
EXTENDS Naturals, FiniteSets

CONSTANTS Procs,       \* parts of the mobile process
          Initial,     \* those that it starts with: at least one
          Resigners,   \* those that may end before it does: not all of Initial
          None         \* NotProcess_p

VARIABLES
  enrolled,    \* bar->enrolled
  state,       \* bar->state: the count, and MPROC_BAR_PHASE
  fptr, bptr,  \* bar->fptr, bar->bptr
  link, temp,  \* Wptr[Link] and Wptr[Temp] of each process
  pc,          \* where each process is
  st,          \* its copy of bar->state
  old,         \* what its swap of bar->bptr returned
  retry,       \* its CAS has failed before
  ws           \* mproc_bar_complete, mproc_bar_resign: process to enqueue

bar   == <<enrolled, state, fptr, bptr>>
local == <<st, old, retry, ws>>
vars  == <<bar, link, temp, pc, local>>

Ptr    == Procs \cup {None}
States == [count : 0 .. Cardinality(Procs), phase : 0..1]
NoState == [count |-> 0, phase |-> 0]

TypeOK ==
  /\ enrolled \in 0 .. Cardinality(Procs) /\ state \in States /\ fptr \in Ptr /\ bptr \in Ptr
  /\ link \in [Procs -> Ptr] /\ temp \in [Procs -> 0..1]
  /\ pc \in [Procs -> {"off", "run", "read", "last", "clear", "swap", "link", "cas", "wait", "first",
                       "suspended", "enqueue", "resign", "rcas", "rlast", "crash", "exit"}]
  /\ st \in [Procs -> States] /\ old \in [Procs -> Ptr]
  /\ retry \in [Procs -> BOOLEAN] /\ ws \in [Procs -> Ptr]

\* mproc_bar_init, with the parts of the first PAR enrolled.
Init ==
  /\ enrolled = Cardinality(Initial)
  /\ state = [count |-> Cardinality(Initial) - 1, phase |-> 0]
  /\ fptr = None /\ bptr = None
  /\ link = [p \in Procs |-> None] /\ temp = [p \in Procs |-> 0]
  /\ pc = [p \in Procs |-> IF p \in Initial THEN "run" ELSE "off"]
  /\ st = [p \in Procs |-> NoState] /\ old = [p \in Procs |-> None]
  /\ retry = [p \in Procs |-> FALSE] /\ ws = [p \in Procs |-> None]

Set(f, x, v) == f' = [f EXCEPT ![x] = v]
To(p, l)     == Set(pc, p, l)

\* mproc_bar_enroll, by p for a part q that it starts.  The barrier cannot be
\* completed before p comes, so the two additions are one step.
Enroll(p, q) ==
  /\ pc[p] = "run" /\ pc[q] = "off"
  /\ enrolled' = enrolled + 1 /\ state' = [state EXCEPT !.count = @ + 1]
  /\ To(q, "run") /\ UNCHANGED <<fptr, bptr, link, temp, local>>

-----------------------------------------------------------------------------
(* mproc_bar_sync                                                          *)

\* The call, made a second time by the process that was activated again.
Sync(p) ==
  /\ pc[p] \in {"run", "suspended"}
  /\ To(p, "read") /\ UNCHANGED <<bar, link, temp, local>>

Read(p) ==
  /\ pc[p] = "read"
  /\ Set(st, p, state)
  /\ To(p, IF state.count = 0 THEN "last" ELSE "clear")
  /\ UNCHANGED <<bar, link, temp, old, retry, ws>>

\* The search of the queue for p, from fptr along the links: the place of p.
\* One that does not meet p ends in NULL, or never.
Chain == LET at[i \in 0 .. Cardinality(Procs)] ==
               IF i = 0 THEN fptr ELSE IF at[i - 1] = None THEN None ELSE link[at[i - 1]]
         IN  at
Place(p) == {i \in DOMAIN Chain : Chain[i] = p /\ \A j \in 0 .. i - 1 : Chain[j] # p}

\* The last process takes itself out of the queue, if it was put there ...
Last(p) ==
  /\ pc[p] = "last"
  /\ \/ ~retry[p] /\ To(p, "first") /\ UNCHANGED <<fptr, bptr, link>>
     \/ \E i \in Place(p) :
          LET prev == IF i = 0 THEN None ELSE Chain[i - 1] IN
          /\ retry[p]
          /\ IF i = 0 THEN fptr' = link[p] /\ UNCHANGED link
                      ELSE Set(link, prev, link[p]) /\ UNCHANGED fptr
          /\ bptr' = IF link[p] = None THEN prev ELSE bptr
          /\ To(p, "first")
     \/ retry[p] /\ Place(p) = {} /\ To(p, "crash") /\ UNCHANGED <<fptr, bptr, link>>
  /\ Set(retry, p, FALSE)
  /\ UNCHANGED <<enrolled, state, temp, st, old, ws>>

\* mproc_bar_complete: everything is reset before anybody is made ready.
Reset(p) ==
  /\ state' = [count |-> enrolled - 1, phase |-> 0]
  /\ Set(ws, p, fptr) /\ fptr' = None /\ bptr' = None
  /\ To(p, "enqueue") /\ UNCHANGED temp

\* ... and in phase 0 goes on alone, with Temp set; in phase 1 it completes.
First(p) ==
  /\ pc[p] = "first"
  /\ \/ /\ st[p].phase = 0
        /\ state' = [count |-> 0, phase |-> 1] /\ Set(temp, p, 1)
        /\ To(p, "suspended") /\ UNCHANGED <<fptr, bptr, ws>>
     \/ st[p].phase = 1 /\ Reset(p)
  /\ Set(st, p, NoState) /\ UNCHANGED <<enrolled, link, old, retry>>

\* mproc_bar_complete: the link of a process is read before it is enqueued,
\* which uses the word again.
Enqueue(p) ==
  /\ pc[p] = "enqueue"
  /\ IF ws[p] = None THEN To(p, "run") /\ UNCHANGED <<ws, link>>
     ELSE To(ws[p], "run") /\ Set(ws, p, link[ws[p]]) /\ Set(link, ws[p], None)
  /\ UNCHANGED <<bar, temp, st, old, retry>>

\* Not the last: the process is queued ...
Clear(p) ==
  /\ pc[p] = "clear"
  /\ Set(link, p, None) /\ Set(temp, p, 0)
  /\ To(p, "swap") /\ UNCHANGED <<bar, local>>

Swap(p) ==
  /\ pc[p] = "swap"
  /\ bptr' = p /\ Set(old, p, bptr)
  /\ To(p, "link") /\ UNCHANGED <<enrolled, state, fptr, link, temp, st, retry, ws>>

LinkIn(p) ==
  /\ pc[p] = "link"
  /\ IF old[p] = None THEN fptr' = p /\ UNCHANGED link
                      ELSE Set(link, old[p], p) /\ UNCHANGED fptr
  /\ Set(old, p, None)
  /\ To(p, "cas") /\ UNCHANGED <<enrolled, state, bptr, temp, st, retry, ws>>

\* ... and counted.  When the CAS fails all begins again, from the queueing.
Cas(p) ==
  /\ pc[p] = "cas"
  /\ IF state = st[p]
     THEN /\ state' = [state EXCEPT !.count = @ - 1]
          /\ To(p, "wait") /\ Set(retry, p, FALSE)
     ELSE To(p, "read") /\ Set(retry, p, TRUE) /\ UNCHANGED state
  /\ Set(st, p, NoState)
  /\ UNCHANGED <<enrolled, fptr, bptr, link, temp, old, ws>>

-----------------------------------------------------------------------------
(* mproc_bar_resign, with a count of one                                   *)

Resign(p) ==
  /\ pc[p] = "run" /\ p \in Resigners
  /\ enrolled' = enrolled - 1
  /\ To(p, "resign") /\ UNCHANGED <<state, fptr, bptr, link, temp, local>>

ResignRead(p) ==
  /\ pc[p] = "resign"
  /\ Set(st, p, state)
  /\ IF state.count = 0 THEN To(p, "rlast") ELSE To(p, "rcas")
  /\ UNCHANGED <<bar, link, temp, old, retry, ws>>

ResignCas(p) ==
  /\ pc[p] = "rcas"
  /\ IF state = st[p] THEN state' = [state EXCEPT !.count = @ - 1] /\ To(p, "off")
                      ELSE To(p, "resign") /\ UNCHANGED state
  /\ Set(st, p, NoState)
  /\ UNCHANGED <<enrolled, fptr, bptr, link, temp, old, retry, ws>>

\* Everybody else waits: the first of the queue suspends the mobile process.
\* It stays in the queue.
ResignLast(p) ==
  /\ pc[p] = "rlast"
  /\ IF st[p].phase = 1 \/ fptr = None THEN To(p, "exit") /\ UNCHANGED <<state, temp>>
     ELSE /\ state' = [count |-> 0, phase |-> 1] /\ Set(temp, fptr, 1)
          /\ pc' = [pc EXCEPT ![p] = "off", ![fptr] = "suspended"]
  /\ Set(st, p, NoState)
  /\ UNCHANGED <<enrolled, fptr, bptr, link, old, retry, ws>>

Step(p) == Read(p) \/ Last(p) \/ First(p) \/ Enqueue(p) \/ Clear(p) \/ Swap(p) \/ LinkIn(p)
           \/ Cas(p) \/ ResignRead(p) \/ ResignCas(p) \/ ResignLast(p)

Next == \E p \in Procs : Sync(p) \/ Resign(p) \/ Step(p) \/ \E q \in Procs : Enroll(p, q)

Spec == Init /\ [][Next]_vars

-----------------------------------------------------------------------------
(* Properties                                                              *)

\* The barrier makes ready only processes that wait in it, each once
\* ("re-schedule all processes, reset barrier"), and the mobile process is
\* suspended only while all its other parts wait.
ScheduledOnce ==
  /\ \A p \in Procs : ws[p] # None => pc[ws[p]] = "wait"
  /\ \A p \in Procs : pc[p] = "suspended" =>
        \A q \in Procs \ {p} : pc[q] \in {"wait", "off"}
  /\ \A p \in Procs : pc[p] \notin {"crash", "exit"}
=============================================================================
