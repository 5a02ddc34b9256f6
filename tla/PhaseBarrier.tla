---------------------------- MODULE PhaseBarrier ----------------------------
(***************************************************************************)
(* What a barrier promises: nobody passes it before every process that is  *)
(* enrolled on it has come, and once all have come it lets all of them     *)
(* pass.  Processes enrol and resign meanwhile.                            *)
(***************************************************************************)
CONSTANT Members            \* processes that may be enrolled

VARIABLES enrolled,         \* processes that the barrier waits for
          waiting           \* those of them that have come in this phase

vars == <<enrolled, waiting>>

TypeOK == waiting \subseteq enrolled /\ enrolled \subseteq Members

Init == enrolled \subseteq Members /\ waiting = {}

Enroll == \E p \in Members \ enrolled :
            /\ enrolled \ waiting # {}           \* somebody who has not come enrols p
            /\ enrolled' = enrolled \cup {p} /\ UNCHANGED waiting

Come(p) == p \in enrolled \ waiting /\ waiting' = waiting \cup {p} /\ UNCHANGED enrolled

Leave(p) == p \in enrolled \ waiting /\ enrolled' = enrolled \ {p} /\ UNCHANGED waiting

\* The phase ends: with a step of its own, or with the last arrival or the
\* resignation of the only process that had not come.
Pass == enrolled # {} /\ waiting = enrolled /\ waiting' = {} /\ UNCHANGED enrolled

ComeLast(p)  == enrolled \ waiting = {p} /\ waiting' = {} /\ UNCHANGED enrolled

LeaveLast(p) == /\ enrolled \ waiting = {p} /\ waiting # {}
                /\ waiting' = {} /\ enrolled' = enrolled \ {p}

Next == Enroll \/ Pass \/ \E p \in Members : Come(p) \/ Leave(p) \/ ComeLast(p) \/ LeaveLast(p)

Spec == Init /\ [][Next]_vars /\ WF_vars(Pass)
=============================================================================
