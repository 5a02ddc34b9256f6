---------------------------- MODULE MCTimerQueue ----------------------------
(***************************************************************************)
(* TimerQueue for model checking.  Nodes and threads are interchangeable.  *)
(* The specification compares times only with each other, and never looks  *)
(* at what is left in a node that is free, in the workspace of a process   *)
(* that is idle or in a walk that has ended; states that differ only in    *)
(* the origin of time and in such remains are taken as one.                *)
(***************************************************************************)
EXTENDS TimerQueue, TLC

Alike == Permutations(Nodes) \cup Permutations(Threads)

\* The search from both ends finds the place that a search from the front
\* would: after every time that is not after x.
Sorted(ts) == \A i, j \in DOMAIN ts : i < j => ~After(ts[i], ts[j])
ASSUME SearchAssumption ==
  \A ts \in BoundedSeq(0..3, 5), x \in 0..3 :
    Sorted(ts) => Place(ts, x) = 1 + Cardinality({i \in DOMAIN ts : ~After(ts[i], x)})

Ago(x)  == Minus(now, x)
Active(p) == pc[p] # "idle"
Canonical ==
  << queue, free, laundry, sync, pc, chan, trig,
     [n \in Nodes |-> IF n \notin free \cup Washed THEN [node[n] EXCEPT !.time = Ago(@)] ELSE None],
     [t \in Threads |-> IF walk[t].pc = "off" THEN None ELSE [walk[t] EXCEPT !.now = Ago(@)]],
     [p \in Procs |-> IF pc[p] = "idle" \/ pc[p] \in Blocked THEN None ELSE on[p]],
     [p \in Alts |-> IF ~Active(p) THEN <<>>
        ELSE << state[p], tlink[p], IF tlink[p] = "set" \/ pc[p] = "cas" THEN Ago(field[p]) ELSE 0,
                [g \in 1..Guards |-> Ago(guards[p][g])], held[p], k[p], temp[p] >>] >>
=============================================================================
