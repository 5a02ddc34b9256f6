--------------------------- MODULE BSyscallsProof ---------------------------
(***************************************************************************)
(* Proofs about BSyscalls: all of its invariants, for any finite sets of   *)
(* processes and threads, any batches and limit, and any number of kills,  *)
(* timeouts and failures, if kills are prompt (PromptSpec).  Without that  *)
(* a cancellation can hit another call, and the theorems do not hold       *)
(* (finding 3 of the README).                                              *)
(*                                                                         *)
(* The properties count calls and threads; the invariant BscInv says where *)
(* each of them is:                                                        *)
(*   QueueOK, HeldOK, CalledOK  a call is once in the queue or with one    *)
(*             thread, and its process is resumed exactly when it is not;  *)
(*   DyingOK   a thread that was cancelled or ends itself is in the        *)
(*             handlers, and only such a thread leaves the pool;           *)
(*   KillOK    what the word of a call holds, given its killer and its     *)
(*             thread: it is the job only while the thread is in the       *)
(*             cancellable region, and a call not yet started has the 1    *)
(*             of whoever killed it early;                                 *)
(*   BatchOK   a batch is that of one call in progress at most, and of     *)
(*             none while somebody holds it to kill another call;          *)
(*   AimOK     the thread that a kill finds through the batch is in the    *)
(*             cancellable region of the call, or exits, or is gone;       *)
(*   ReapOK    a thread that ends is in to_reap or to be joined by one     *)
(*             other;                                                      *)
(*   CountOK   the counters are the sizes of these sets; the threads       *)
(*             thought to wait exceed those that do by at most the timed   *)
(*             waits that have run out.                                    *)
(***************************************************************************)
EXTENDS BSyscalls, FiniteSetTheorems, TLAPS

\* A thread with a call, and a thread that has ended or is about to.
HoldPC == {"take", "call", "cas", "skip", "lost", "done", "resume"}
EndPC  == {"dec", "join", "ended"}

\* The threads that wait, that are on their way to a call, and that have one or
\* have just finished one.
WaitSet == {w \in Workers : pc[w] = "wait"}
LockSet == {w \in Workers : pc[w] = "lock"}
Calling == {w \in Workers : job[w] # None \/ pc[w] = "count"}

\* The types, without the bounds of the counters.
FunOK ==
  /\ queue \in Seq(Jobs) /\ waiting \in Nat
  /\ running \in Nat /\ running <= Limit /\ toReap \in Workers \cup {None} /\ pending \in Nat
  /\ pc \in [Workers -> {"none", "lock", "wait", "take", "call", "cas", "skip", "lost", "done",
                         "resume", "count", "leave", "dec", "join", "ended"}]
  /\ job \in [Workers -> Jobs \cup {None}] /\ dying \in [Workers -> BOOLEAN]
  /\ joins \in [Workers -> Workers \cup {None}]
  /\ word \in [Jobs -> Jobs \cup {0, 1, 2}] /\ killer \in [Jobs -> {"off", "reset", "cancel"}]
  /\ batch \in [Jobs -> Batches \cup {None}] /\ target \in [Batches -> Workers \cup {None}]
  /\ kills \in [Jobs -> 0..MaxKills]
  /\ early \subseteq Jobs /\ ran \subseteq Jobs /\ resumed \in [Jobs -> 0..2]
  /\ minutes \in 0..MaxFaults /\ failures \in 0..MaxFaults

\* A call is in one place: once in the queue, or with one thread.
Distinct(q) == \A a, b \in 1..Len(q) : q[a] = q[b] => a = b
QueueOK == Distinct(queue) /\ \A w \in Workers : job[w] \notin ToSet(queue)
HeldOK == /\ \A w \in Workers : job[w] # None <=> pc[w] \in HoldPC
          /\ \A v, w \in Workers : job[v] = job[w] /\ job[w] # None => v = w
CalledOK == \A j \in Jobs :
              /\ resumed[j] \in {0, 1}
              /\ resumed[j] = 0 <=> j \in ToSet(queue) \/ \E w \in Workers : job[w] = j

\* A thread that was cancelled, or ends itself, goes through the handlers.
DyingOK == \A w \in Workers :
             /\ pc[w] \in {"leave"} \cup EndPC => dying[w]
             /\ dying[w] => pc[w] \in {"done", "resume", "count", "leave"} \cup EndPC

\* In the cancellable region, and its job in the word unless it was killed.
WordPC == {"call", "cas", "skip"}

\* The word of call j, its killer and its thread.
KillOK(j) ==
  /\ killer[j] # "off" => j \in Killable
  /\ word[j] = j \/ (\E w \in Workers : job[w] = j /\ pc[w] = "take") => j \in Killable
  /\ word[j] = j => \E w \in Workers : job[w] = j /\ pc[w] \in WordPC
  /\ killer[j] = "cancel" => word[j] # j
  /\ NotStarted(j) => word[j] \in {0, 1} /\ killer[j] = "off" /\ (j \in early => word[j] = 1)
  /\ j \in early => j \in Killable /\ j \notin ran /\ resumed[j] = 0
  /\ j \in ran => \E w \in Workers : job[w] = j /\ pc[w] # "take"

\* The batch of call j is that of no other one in progress, and nobody holds it
\* to kill another one.
BatchOK(j) ==
  j \in Killable /\ resumed[j] = 0 =>
    /\ batch[j] \in Batches
    /\ \A k \in Killable \ {j} :
         resumed[k] = 0 \/ killer[k] = "cancel" => batch[k] # batch[j]

\* The thread that a kill of call j finds through its batch.
Aim(j) == target[batch[j]]
AimOK(j) ==
  /\ word[j] = j \/ killer[j] = "cancel" => batch[j] \in Batches /\ Aim(j) \in Workers
  /\ word[j] = j => job[Aim(j)] = j /\ pc[Aim(j)] \in WordPC
  /\ killer[j] = "cancel" => InRegion(Aim(j), j) \/ dying[Aim(j)] \/ pc[Aim(j)] = "none"

\* A thread that ends is in to_reap, or one other thread will join it.
ReapOK ==
  /\ toReap # None => pc[toReap] \in EndPC
  /\ \A v \in Workers : joins[v] # None =>
       /\ pc[joins[v]] \in EndPC /\ toReap # joins[v] /\ pc[v] \in {"dec", "join"}
  /\ \A u, v \in Workers : joins[u] = joins[v] /\ joins[v] # None => u = v
  /\ \A w \in Workers : pc[w] \in EndPC => toReap = w \/ \E v \in Workers : joins[v] = w
  /\ \A w \in Workers : pc[w] = "join" => joins[w] # None

\* The counters.
CountOK == /\ running = Cardinality(Live)
           /\ pending = Len(queue) + Cardinality(Calling)
           /\ Cardinality(WaitSet) <= waiting
           /\ waiting <= Cardinality(WaitSet) + minutes

\* The inductive invariant.
BscInv == /\ FunOK /\ QueueOK /\ HeldOK /\ CalledOK /\ DyingOK
          /\ (\A j \in Jobs : KillOK(j) /\ BatchOK(j) /\ AimOK(j))
          /\ ReapOK /\ CountOK /\ CoveredAtFirst

-----------------------------------------------------------------------------
\* The disjuncts of Next by thread or process.
WorkerAct(w) == Step(w) \/ Return(w) \/ Timeout(w)
CallAct(j)   == Dispatch(j) \/ KillSwap(j) \/ KillReset(j) \/ KillCancel(j)

\* A call that is not queued is appended.
LEMMA AppendSet ==
  ASSUME NEW q \in Seq(Jobs), Distinct(q), NEW j \in Jobs, j \notin ToSet(q)
  PROVE  /\ Append(q, j) \in Seq(Jobs) /\ Distinct(Append(q, j))
         /\ ToSet(Append(q, j)) = ToSet(q) \cup {j}
         /\ Len(Append(q, j)) = Len(q) + 1
<1> DEFINE r == Append(q, j)
<1>1. /\ r \in Seq(Jobs) /\ Len(r) = Len(q) + 1 /\ r[Len(q) + 1] = j /\ Len(q) \in Nat
      /\ \A a \in 1..Len(q) : r[a] = q[a]
  OBVIOUS
<1>2. DOMAIN q = 1..Len(q) /\ DOMAIN r = 1..Len(r)
  BY <1>1
<1> HIDE DEF r
<1>3. \A a \in 1..Len(r) : a \in 1..Len(q) \/ a = Len(q) + 1
  BY <1>1
<1>4. \A a \in 1..Len(q) : q[a] # j
  BY <1>2 DEF ToSet
<1>5. Distinct(r)
  BY <1>1, <1>3, <1>4 DEF Distinct
<1>6. ToSet(r) = ToSet(q) \cup {j}
  <2>1. \A x : x \in ToSet(r) <=> \E a \in 1..Len(r) : r[a] = x
    BY <1>2 DEF ToSet
  <2>2. \A x : x \in ToSet(q) <=> \E a \in 1..Len(q) : q[a] = x
    BY <1>2 DEF ToSet
  <2>3. Len(q) + 1 \in 1..Len(r) /\ \A a \in 1..Len(q) : a \in 1..Len(r)
    BY <1>1
  <2> QED BY <1>1, <1>3, <2>1, <2>2, <2>3
<1> QED BY <1>1, <1>5, <1>6 DEF r

\* The first call of a queue without duplicates is not in its tail.
LEMMA TailSet ==
  ASSUME NEW q \in Seq(Jobs), Distinct(q), q # <<>>
  PROVE  /\ Tail(q) \in Seq(Jobs) /\ Distinct(Tail(q)) /\ Head(q) \in Jobs
         /\ Head(q) \in ToSet(q) /\ ToSet(Tail(q)) = ToSet(q) \ {Head(q)}
         /\ Len(q) \in Nat /\ Len(Tail(q)) = Len(q) - 1
<1> DEFINE r == Tail(q)
<1> DEFINE h == Head(q)
<1>1. /\ r \in Seq(Jobs) /\ Len(q) \in Nat /\ Len(q) >= 1 /\ Len(r) = Len(q) - 1
      /\ h = q[1] /\ h \in Jobs /\ \A a \in 1..Len(r) : r[a] = q[a + 1]
  OBVIOUS
<1>2. DOMAIN q = 1..Len(q) /\ DOMAIN r = 1..Len(r)
  BY <1>1
<1> HIDE DEF r, h
<1>3. \A a \in 1..Len(r) : a \in Int /\ a + 1 \in 1..Len(q) /\ a + 1 # 1
  BY <1>1
<1>4. \A a \in 1..Len(q) : a = 1 \/ (a - 1 \in 1..Len(r) /\ (a - 1) + 1 = a)
  BY <1>1
<1>5. Distinct(r)
  <2> SUFFICES ASSUME NEW a \in 1..Len(r), NEW b \in 1..Len(r), r[a] = r[b] PROVE a = b
    BY DEF Distinct
  <2>1. a + 1 = b + 1
    BY <1>1, <1>3 DEF Distinct
  <2> QED BY <1>3, <2>1
<1>6. ToSet(r) = ToSet(q) \ {h}
  <2>1. \A x : x \in ToSet(r) <=> \E a \in 1..Len(r) : r[a] = x
    BY <1>2 DEF ToSet
  <2>2. \A x : x \in ToSet(q) <=> \E a \in 1..Len(q) : q[a] = x
    BY <1>2 DEF ToSet
  <2>3. 1 \in 1..Len(q)
    BY <1>1
  <2>4. ASSUME NEW x \in ToSet(r) PROVE x \in ToSet(q) \ {h}
    <3>1. PICK a \in 1..Len(r) : r[a] = x
      BY <2>1
    <3>2. q[a + 1] = x /\ a + 1 \in 1..Len(q) /\ a + 1 # 1
      BY <1>1, <1>3, <3>1
    <3> QED BY <1>1, <2>2, <2>3, <3>2 DEF Distinct
  <2>5. ASSUME NEW x \in ToSet(q) \ {h} PROVE x \in ToSet(r)
    <3>1. PICK a \in 1..Len(q) : q[a] = x
      BY <2>2
    <3>2. a # 1
      BY <1>1, <3>1
    <3>3. r[a - 1] = q[(a - 1) + 1]
      BY <1>1, <1>4, <3>2
    <3> QED BY <1>4, <2>1, <3>1, <3>2, <3>3
  <2> QED BY <2>4, <2>5
<1>7. h \in ToSet(q)
  BY <1>1, <1>2 DEF ToSet
<1> QED BY <1>1, <1>5, <1>6, <1>7 DEF r, h

-----------------------------------------------------------------------------
(* What the steps with several outcomes do, in a reachable state.          *)

\* A process that is not in a call is in no queue and with no thread.
LEMMA DispatchFacts ==
  ASSUME BscInv, NEW j \in Jobs, Dispatch(j)
  PROVE  /\ resumed[j] = 1 /\ killer[j] = "off" /\ j \notin ToSet(queue) /\ j \notin early
         /\ \A w \in Workers : job[w] # j
         /\ queue' \in Seq(Jobs) /\ Distinct(queue') /\ ToSet(queue') = ToSet(queue) \cup {j}
         /\ Len(queue') = Len(queue) + 1 /\ Len(queue) \in Nat
         /\ pending' = pending + 1 /\ resumed' = [resumed EXCEPT ![j] = 0]
         /\ UNCHANGED <<ran, toReap, job, dying, joins, killer, target, minutes>>
<1>1. FunOK /\ QueueOK /\ CalledOK /\ KillOK(j) /\ resumed[j] = 1 /\ killer[j] = "off"
  BY DEF BscInv, Dispatch
<1>2. j \notin ToSet(queue) /\ (\A w \in Workers : job[w] # j) /\ j \notin early
  BY <1>1 DEF CalledOK, KillOK
<1>3. queue \in Seq(Jobs) /\ Distinct(queue) /\ queue' = Append(queue, j) /\ Len(queue) \in Nat
  BY <1>1 DEF FunOK, QueueOK, Dispatch
<1>4. /\ queue' \in Seq(Jobs) /\ Distinct(queue') /\ ToSet(queue') = ToSet(queue) \cup {j}
      /\ Len(queue') = Len(queue) + 1
  BY <1>2, <1>3, AppendSet
<1> QED BY <1>1, <1>2, <1>3, <1>4 DEF Dispatch, Set

\* A killable call may be killed before it begins.
LEMMA DispatchWord ==
  ASSUME NEW j \in Jobs, Dispatch(j)
  PROVE  \/ /\ word' = [word EXCEPT ![j] = 0] /\ kills' = [kills EXCEPT ![j] = 0]
            /\ early' = early
         \/ /\ word' = [word EXCEPT ![j] = 1] /\ kills' = [kills EXCEPT ![j] = 1]
            /\ early' = early \cup {j} /\ j \in Killable
<1>1. PICK k \in (IF j \in Killable THEN BOOLEAN ELSE {FALSE}) :
        /\ word' = [word EXCEPT ![j] = IF k THEN 1 ELSE 0]
        /\ kills' = [kills EXCEPT ![j] = IF k THEN 1 ELSE 0]
        /\ early' = IF k THEN early \cup {j} ELSE early
  BY DEF Dispatch, Set
<1>2. CASE k = TRUE
  BY <1>1, <1>2
<1>3. CASE k = FALSE
  BY <1>1, <1>3
<1> QED BY <1>2, <1>3

\* A killable call gets a batch that no other one has.
LEMMA DispatchBatch ==
  ASSUME NEW j \in Jobs, Dispatch(j)
  PROVE  \/ /\ j \in Killable
            /\ \E b \in Batches : /\ \A k \in Killable : resumed[k] = 0 => batch[k] # b
                                 /\ batch' = [batch EXCEPT ![j] = b]
         \/ j \notin Killable /\ batch' = batch
  BY DEF Dispatch, Allocate, Set

\* Some thread is woken, or created, or nothing can be done for the call.
LEMMA DispatchPool ==
  ASSUME NEW j \in Jobs, Dispatch(j)
  PROVE  \/ /\ \E w \in Workers : pc[w] = "wait" /\ pc' = [pc EXCEPT ![w] = "lock"]
            /\ waiting > 0 /\ waiting' = waiting - 1 /\ UNCHANGED <<running, failures>>
         \/ /\ WaitSet = {} /\ waiting > 0 /\ waiting' = waiting - 1
            /\ UNCHANGED <<pc, running, failures>>
         \/ /\ \E w \in Workers : pc[w] = "none" /\ pc' = [pc EXCEPT ![w] = "lock"]
            /\ running < Limit /\ running' = running + 1 /\ UNCHANGED <<waiting, failures>>
         \/ /\ minutes + failures < MaxFaults /\ failures' = failures + 1
            /\ UNCHANGED <<pc, waiting, running>>
         \/ running >= Limit /\ UNCHANGED <<pc, waiting, running, failures>>
<1>1. CASE Wake
  BY <1>1 DEF Wake, To, Set, WaitSet
<1>2. CASE Create
  BY <1>2 DEF Create, To, Set, Unused
<1>3. CASE Full
  BY <1>3 DEF Full
<1> QED BY <1>1, <1>2, <1>3 DEF Dispatch

\* A thread with the mutex takes a call that no other thread has, or waits.
LEMMA LockFacts ==
  ASSUME BscInv, NEW w \in Workers, Lock(w)
  PROVE  /\ pc[w] = "lock" /\ job[w] = None /\ Len(queue) \in Nat
         /\ UNCHANGED <<running, toReap, pending, dying, joins, word, killer, batch, target, kills,
                        early, resumed, minutes, failures>>
<1>1. FunOK /\ HeldOK /\ pc[w] = "lock"
  BY DEF BscInv, Lock
<1>2. job[w] = None
  BY <1>1 DEF HeldOK, HoldPC
<1> QED BY <1>1, <1>2 DEF Lock, kill, faults, FunOK

\* It takes the first call, which no other thread has.
LEMMA LockTakes ==
  ASSUME BscInv, NEW w \in Workers, Lock(w), queue # <<>>
  PROVE  /\ queue' \in Seq(Jobs) /\ Distinct(queue') /\ Len(queue') = Len(queue) - 1
         /\ waiting' = waiting
         /\ \E h \in ToSet(queue) \cap Jobs :
              /\ ToSet(queue') = ToSet(queue) \ {h} /\ job' = [job EXCEPT ![w] = h]
              /\ \/ h \in Killable /\ pc' = [pc EXCEPT ![w] = "take"] /\ ran' = ran
                 \/ /\ h \notin Killable
                    /\ pc' = [pc EXCEPT ![w] = "call"] /\ ran' = ran \cup {h}
<1>1. queue \in Seq(Jobs) /\ Distinct(queue)
  BY DEF BscInv, FunOK, QueueOK
<1>2. /\ Tail(queue) \in Seq(Jobs) /\ Distinct(Tail(queue)) /\ Head(queue) \in Jobs
      /\ Head(queue) \in ToSet(queue) /\ ToSet(Tail(queue)) = ToSet(queue) \ {Head(queue)}
      /\ Len(Tail(queue)) = Len(queue) - 1
  BY <1>1, TailSet
<1> QED BY <1>2 DEF Lock, To, Set

\* Or it waits.
LEMMA LockWaits ==
  ASSUME NEW w \in Workers, Lock(w), queue = <<>>
  PROVE  /\ waiting' = waiting + 1 /\ pc' = [pc EXCEPT ![w] = "wait"] /\ Len(queue) = 0
         /\ UNCHANGED <<queue, job, ran>>
  BY DEF Lock, To, Set

\* A cancelled thread is in the call that was killed.
LEMMA KillCancelFacts ==
  ASSUME BscInv, NEW j \in Jobs, KillCancel(j)
  PROVE  /\ killer[j] = "cancel" /\ killer' = [killer EXCEPT ![j] = "off"] /\ word[j] # j
         /\ UNCHANGED <<pool, pending, job, joins, word, batch, target, kills, past, faults>>
         /\ Aim(j) \in Workers
         /\ \/ /\ job[Aim(j)] = j /\ pc[Aim(j)] \in Region
               /\ pc' = [pc EXCEPT ![Aim(j)] = "done"]
               /\ dying' = [dying EXCEPT ![Aim(j)] = TRUE]
            \/ UNCHANGED <<pc, dying>>
<1>1. KillOK(j) /\ AimOK(j) /\ killer[j] = "cancel" /\ j \in Killable
  BY DEF BscInv, KillCancel, KillOK
<1>2. Aim(j) \in Workers /\ word[j] # j
  BY <1>1 DEF KillOK, AimOK
<1>3. CASE dying[Aim(j)] \/ pc[Aim(j)] = "none"
  BY <1>1, <1>2, <1>3 DEF KillCancel, Aim, Set
<1>4. CASE ~(dying[Aim(j)] \/ pc[Aim(j)] = "none")
  <2>1. InRegion(Aim(j), j)
    BY <1>1, <1>4 DEF AimOK
  <2>2. Guarded(Aim(j))
    BY <1>1, <2>1 DEF Guarded
  <2>3. Cancel(Aim(j))
    BY <1>4 DEF KillCancel, Aim
  <2>4. /\ pc' = [pc EXCEPT ![Aim(j)] = "done"] /\ dying' = [dying EXCEPT ![Aim(j)] = TRUE]
        /\ UNCHANGED job
    BY <2>2, <2>3 DEF Cancel, To, Set
  <2> QED BY <1>1, <1>2, <2>1, <2>4 DEF KillCancel, InRegion, Set
<1> QED BY <1>3, <1>4

\* The sets that are counted are finite.
LEMMA SetFacts ==
  /\ IsFiniteSet(Live) /\ IsFiniteSet(WaitSet) /\ IsFiniteSet(LockSet) /\ IsFiniteSet(Calling)
  /\ Cardinality(Live) \in Nat /\ Cardinality(WaitSet) \in Nat /\ Cardinality(LockSet) \in Nat
  /\ Cardinality(Calling) \in Nat
  /\ \A S : IsFiniteSet(S) =>
       \A x : /\ x \in S => Cardinality(S \ {x}) = Cardinality(S) - 1 /\ Cardinality(S) >= 1
              /\ x \notin S => Cardinality(S \cup {x}) = Cardinality(S) + 1
<1>1. /\ Live \subseteq Workers /\ WaitSet \subseteq Workers /\ LockSet \subseteq Workers
      /\ Calling \subseteq Workers /\ IsFiniteSet(Workers)
  BY BscAssumption DEF Live, WaitSet, LockSet, Calling
<1>2. IsFiniteSet(Live) /\ IsFiniteSet(WaitSet) /\ IsFiniteSet(LockSet) /\ IsFiniteSet(Calling)
  BY <1>1, FS_Subset
<1>3. /\ Cardinality(Live) \in Nat /\ Cardinality(WaitSet) \in Nat
      /\ Cardinality(LockSet) \in Nat /\ Cardinality(Calling) \in Nat
  BY <1>2, FS_CardinalityType
<1>4. ASSUME NEW S, IsFiniteSet(S), NEW x
      PROVE  /\ x \in S => Cardinality(S \ {x}) = Cardinality(S) - 1 /\ Cardinality(S) >= 1
             /\ x \notin S => Cardinality(S \cup {x}) = Cardinality(S) + 1
  <2>1. Cardinality(S) \in Nat /\ (Cardinality(S) = 0 => S = {})
    BY <1>4, FS_CardinalityType, FS_EmptySet
  <2>2. x \in S => Cardinality(S \ {x}) = Cardinality(S) - 1
    BY <1>4, FS_RemoveElement
  <2>3. x \notin S => Cardinality(S \cup {x}) = Cardinality(S) + 1
    BY <1>4, FS_AddElement
  <2> QED BY <2>1, <2>2, <2>3
<1> QED BY <1>2, <1>3, <1>4

\* A thread that leaves is counted, and so is a call that ends.
LEMMA CountedFacts ==
  ASSUME BscInv, NEW w \in Workers
  PROVE  /\ pc[w] = "dec" => running >= 1
         /\ pc[w] = "count" => pending >= 1
<1>1. /\ running = Cardinality(Live) /\ pending = Len(queue) + Cardinality(Calling)
      /\ Len(queue) \in Nat
  BY DEF BscInv, CountOK, FunOK
<1>2. /\ pc[w] = "dec" => w \in Live
      /\ pc[w] = "count" => w \in Calling
  BY DEF Live, Calling
<1>3. ASSUME pc[w] = "dec" PROVE running >= 1
  BY <1>1, <1>2, <1>3, SetFacts
<1>4. ASSUME pc[w] = "count" PROVE pending >= 1
  <2>1. Cardinality(Calling) >= 1 /\ Cardinality(Calling) \in Nat
    BY <1>2, <1>4, SetFacts
  <2> QED BY <1>1, <2>1
<1> QED BY <1>3, <1>4

\* Every step keeps the types.
LEMMA FunStep ==
  ASSUME BscInv, Next PROVE FunOK'
<1>1. FunOK /\ HeldOK
  BY DEF BscInv
<1>2. Limit \in Nat
  BY BscAssumption DEF Limit
<1>3. \A w \in Workers : pc[w] \in HoldPC => job[w] \in Jobs
  BY <1>1 DEF FunOK, HeldOK
<1>4. Killable \subseteq Jobs /\ Jobs \cap {0, 1, 2} = {}
  BY BscAssumption
<1>8. ASSUME NEW w \in Workers, WorkerAct(w) PROVE FunOK'
  <2> USE DEF FunOK, Set, To, pool, thread, kill, past, faults
  <2>1. CASE Lock(w)
    <3>1. CASE queue # <<>>
      <4>1. PICK h \in ToSet(queue) \cap Jobs :
              /\ ToSet(queue') = ToSet(queue) \ {h} /\ job' = [job EXCEPT ![w] = h]
              /\ \/ h \in Killable /\ pc' = [pc EXCEPT ![w] = "take"] /\ ran' = ran
                 \/ /\ h \notin Killable
                    /\ pc' = [pc EXCEPT ![w] = "call"] /\ ran' = ran \cup {h}
        BY <2>1, <3>1, LockTakes
      <4>0. queue' \in Seq(Jobs) /\ Distinct(queue') /\ waiting' = waiting
        BY <2>1, <3>1, LockTakes
      <4>2. UNCHANGED <<running, toReap, pending, dying, joins, word, killer, batch, target, kills,
                        early, resumed, minutes, failures>>
        BY <2>1, LockFacts
      <4> QED BY ONLY <1>1, <1>8, <4>0, <4>1, <4>2 DEF FunOK
    <3>2. CASE queue = <<>>
      <4>1. waiting' = waiting + 1 /\ pc' = [pc EXCEPT ![w] = "wait"] /\ UNCHANGED <<queue, job, ran>>
        BY <2>1, <3>2, LockWaits
      <4>2. /\ pc[w] = "lock" /\ job[w] = None
            /\ UNCHANGED <<running, toReap, pending, dying, joins, word, killer, batch, target, kills,
                           early, resumed, minutes, failures>>
        BY <2>1, LockFacts
      <4> QED BY <1>1, <1>2, <4>1, <4>2
    <3> QED BY <3>1, <3>2
  <2>2. CASE Take(w)
    <3>1. job[w] \in Jobs
      BY <1>3, <2>2 DEF Take, HoldPC
    <3>2. /\ UNCHANGED <<queue, waiting, running, toReap, pending, job, dying, joins, killer, batch, kills>>
          /\ UNCHANGED <<early, resumed, minutes, failures>>
      BY <2>2 DEF Take
    <3>3. /\ target' = [target EXCEPT ![batch[job[w]]] = w] /\ word' = [word EXCEPT ![job[w]] = job[w]]
          /\ pc' = [pc EXCEPT ![w] = "call"] \/ pc' = [pc EXCEPT ![w] = "skip"]
          /\ ran' = ran \/ ran' = ran \cup {job[w]}
      BY <2>2 DEF Take
    <3> QED BY <1>1, <3>1, <3>2, <3>3
  <2>3. CASE Finish(w)
    BY <1>1, <1>2, BscAssumption, <2>3 DEF Finish
  <2>4. CASE ExitSelf(w)
    BY <1>1, <1>2, BscAssumption, <2>4 DEF ExitSelf
  <2>5. CASE ResetWord(w)
    BY <1>1, <1>2, BscAssumption, <2>5 DEF ResetWord
  <2>6. CASE Resume(w)
    <3>1. job[w] \in Jobs
      BY <1>3, <2>6 DEF Resume, HoldPC
    <3>2. resumed' \in [Jobs -> 0..2]
      <4>1. resumed[job[w]] \in 0..2
        BY <1>1, <3>1
      <4>2. (IF resumed[job[w]] = 2 THEN 2 ELSE resumed[job[w]] + 1) \in 0..2
        BY <4>1
      <4> QED BY <1>1, <2>6, <3>1, <4>2 DEF Resume
    <3> QED BY <1>1, <2>6, <3>2 DEF Resume
  <2>7. CASE Uncount(w)
    BY <1>1, <1>2, BscAssumption, <2>7, CountedFacts DEF Uncount
  <2>8. CASE Leave(w)
    BY <1>1, <1>2, BscAssumption, <2>8 DEF Leave
  <2>9. CASE Dec(w)
    BY <1>1, <1>2, BscAssumption, <2>9, CountedFacts DEF Dec
  <2>10. CASE Join(w)
    BY <1>1, <1>2, BscAssumption, <2>10 DEF Join
  <2>11. CASE Return(w)
    BY <1>1, <1>2, BscAssumption, <2>11 DEF Return
  <2>12. CASE Timeout(w)
    BY <1>1, <1>2, BscAssumption, <2>12 DEF Timeout
  <2> QED BY <1>8, <2>1, <2>2, <2>3, <2>4, <2>5, <2>6, <2>7, <2>8, <2>9, <2>10, <2>11, <2>12
      DEF WorkerAct, Step
<1>9. ASSUME NEW j \in Jobs, CallAct(j) PROVE FunOK'
  <2> USE DEF FunOK, Set, To, pool, thread, kill, past, faults
  <2>1. CASE Dispatch(j)
    <3>1. pc' \in [Workers -> {"none", "lock", "wait", "take", "call", "cas", "skip", "lost", "done",
                         "resume", "count", "leave", "dec", "join", "ended"}]
      BY <1>1, <2>1, DispatchPool
    <3>2. waiting' \in Nat /\ running' \in Nat /\ running' <= Limit /\ failures' \in 0..MaxFaults
      <4>1. /\ waiting \in Nat /\ running \in Nat /\ running <= Limit
            /\ minutes \in 0..MaxFaults /\ failures \in 0..MaxFaults /\ MaxFaults \in Nat
        BY <1>1, BscAssumption
      <4>2. /\ waiting' = waiting \/ (waiting > 0 /\ waiting' = waiting - 1)
            /\ running' = running \/ (running < Limit /\ running' = running + 1)
            /\ failures' = failures \/ (minutes + failures < MaxFaults /\ failures' = failures + 1)
        BY <2>1, DispatchPool
      <4> QED BY <1>2, <4>1, <4>2, BscAssumption
    <3>3. /\ word' \in [Jobs -> Jobs \cup {0, 1, 2}] /\ kills' \in [Jobs -> 0..MaxKills]
          /\ early' \subseteq Jobs
      <4>1. 0 \in 0..MaxKills /\ 1 \in 0..MaxKills
        BY BscAssumption
      <4>2. \/ /\ word' = [word EXCEPT ![j] = 0] /\ kills' = [kills EXCEPT ![j] = 0]
               /\ early' = early
            \/ /\ word' = [word EXCEPT ![j] = 1] /\ kills' = [kills EXCEPT ![j] = 1]
               /\ early' = early \cup {j}
        BY <2>1, DispatchWord
      <4>3. word \in [Jobs -> Jobs \cup {0, 1, 2}] /\ kills \in [Jobs -> 0..MaxKills] /\ early \subseteq Jobs
        BY <1>1
      <4>4. word' \in [Jobs -> Jobs \cup {0, 1, 2}]
        BY <4>2, <4>3
      <4>5. kills' \in [Jobs -> 0..MaxKills]
        BY ONLY <4>1, <4>2, <4>3
      <4> QED BY <4>2, <4>3, <4>4, <4>5
    <3>4. pending' \in Nat /\ resumed' \in [Jobs -> 0..2]
      <4>1. pending' = pending + 1 /\ resumed' = [resumed EXCEPT ![j] = 0]
        BY <2>1, DispatchFacts
      <4> QED BY <1>1, <4>1
    <3>5. /\ queue' \in Seq(Jobs)
          /\ UNCHANGED <<ran, toReap, job, dying, joins, killer, target, minutes>>
      BY <2>1, DispatchFacts
    <3>6. batch' \in [Jobs -> Batches \cup {None}]
      <4>1. batch' = batch \/ \E b \in Batches : batch' = [batch EXCEPT ![j] = b]
        BY <2>1, DispatchBatch
      <4> QED BY <1>1, <4>1
    <3> QED BY ONLY <1>1, <3>1, <3>2, <3>3, <3>4, <3>5, <3>6 DEF FunOK
  <2>2. CASE KillSwap(j)
    BY <1>1, <1>2, BscAssumption, <2>2 DEF KillSwap
  <2>3. CASE KillReset(j)
    BY <1>1, <1>2, BscAssumption, <2>3 DEF KillReset
  <2>4. CASE KillCancel(j)
    <3>1. /\ UNCHANGED <<queue, waiting, running, toReap, pending, job, joins, word, batch>>
          /\ UNCHANGED <<target, kills, early, ran, resumed, minutes, failures>>
          /\ killer' = [killer EXCEPT ![j] = "off"]
      BY <2>4, KillCancelFacts
    <3>2. Aim(j) \in Workers
      BY <2>4, KillCancelFacts
    <3>3. /\ pc' = [pc EXCEPT ![Aim(j)] = "done"] \/ pc' = pc
          /\ dying' = [dying EXCEPT ![Aim(j)] = TRUE] \/ dying' = dying
      BY <2>4, KillCancelFacts
    <3> QED BY <1>1, <3>1, <3>2, <3>3
  <2> QED BY <1>9, <2>1, <2>2, <2>3, <2>4 DEF CallAct, Step
<1> QED BY <1>8, <1>9 DEF Next, WorkerAct, CallAct

\* A call stays in one place.
LEMMA PlaceStep ==
  ASSUME BscInv, Next PROVE (QueueOK /\ HeldOK /\ CalledOK)'
<1>1. FunOK /\ QueueOK /\ HeldOK /\ CalledOK
  BY DEF BscInv
<1>2. /\ pc \in [Workers -> {"none", "lock", "wait", "take", "call", "cas", "skip", "lost", "done",
                         "resume", "count", "leave", "dec", "join", "ended"}]
      /\ job \in [Workers -> Jobs \cup {None}] /\ dying \in [Workers -> BOOLEAN]
      /\ joins \in [Workers -> Workers \cup {None}]
      /\ word \in [Jobs -> Jobs \cup {0, 1, 2}] /\ killer \in [Jobs -> {"off", "reset", "cancel"}]
      /\ batch \in [Jobs -> Batches \cup {None}] /\ target \in [Batches -> Workers \cup {None}]
      /\ resumed \in [Jobs -> 0..2]
      /\ toReap \in Workers \cup {None} /\ early \subseteq Jobs /\ ran \subseteq Jobs
      /\ None \notin Jobs \cup Workers /\ Jobs \cap {0, 1, 2} = {} /\ Killable \subseteq Jobs
  BY <1>1, BscAssumption DEF FunOK
<1>8. ASSUME NEW w \in Workers, WorkerAct(w) PROVE (QueueOK /\ HeldOK /\ CalledOK)'
  <2> USE DEF QueueOK, HeldOK, CalledOK, HoldPC, Set, To, pool, thread, kill, past, faults
  <2>1. CASE Lock(w)
    <3>1. CASE queue # <<>>
      <4>1. PICK h \in ToSet(queue) \cap Jobs :
              /\ ToSet(queue') = ToSet(queue) \ {h} /\ job' = [job EXCEPT ![w] = h]
              /\ \/ h \in Killable /\ pc' = [pc EXCEPT ![w] = "take"] /\ ran' = ran
                 \/ /\ h \notin Killable
                    /\ pc' = [pc EXCEPT ![w] = "call"] /\ ran' = ran \cup {h}
        BY <2>1, <3>1, LockTakes
      <4>0. queue' \in Seq(Jobs) /\ Distinct(queue') /\ waiting' = waiting
        BY <2>1, <3>1, LockTakes
      <4>2. \A v \in Workers : job[v] # h
        BY <1>1
      <4>3. job'[w] = h /\ \A v \in Workers \ {w} : job'[v] = job[v]
        BY <1>2, <4>1
      <4>4. pc'[w] \in {"take", "call"} /\ \A v \in Workers \ {w} : pc'[v] = pc[v]
        BY <1>2, <4>1
      <4>5. QueueOK'
        BY <1>1, <2>1, <4>0, <4>1, <4>3
      <4>6. HeldOK'
        BY <1>1, <1>2, <4>2, <4>3, <4>4
      <4>7. CalledOK'
        <5>1. UNCHANGED resumed /\ job[w] = None
          BY <2>1, LockFacts
        <5>2. ASSUME NEW j \in Jobs
              PROVE  /\ resumed'[j] \in {0, 1}
                     /\ resumed'[j] = 0 <=> j \in ToSet(queue') \/ \E v \in Workers : job'[v] = j
          <6>1. /\ resumed[j] \in {0, 1}
                /\ resumed[j] = 0 <=> j \in ToSet(queue) \/ \E v \in Workers : job[v] = j
            BY <1>1
          <6>2. CASE j = h
            BY <4>1, <4>3, <5>1, <6>1, <6>2
          <6>3. CASE j # h
            BY <1>2, <4>1, <4>3, <5>1, <6>1, <6>3
          <6> QED BY <6>2, <6>3
        <5> QED BY <5>2
      <4> QED BY <4>5, <4>6, <4>7
    <3>2. CASE queue = <<>>
      <4>1. waiting' = waiting + 1 /\ pc' = [pc EXCEPT ![w] = "wait"] /\ UNCHANGED <<queue, job, ran>>
        BY <2>1, <3>2, LockWaits
      <4>2. /\ pc[w] = "lock" /\ job[w] = None
            /\ UNCHANGED <<running, toReap, pending, dying, joins, word, killer, batch, target, kills,
                           early, resumed, minutes, failures>>
        BY <2>1, LockFacts
      <4> QED BY <1>1, <1>2, <4>1, <4>2
    <3> QED BY <3>1, <3>2
  <2>2. CASE Take(w)
    BY <1>1, <1>2, <2>2 DEF Take
  <2>3. CASE Finish(w)
    BY <1>1, <1>2, <2>3 DEF Finish
  <2>4. CASE ExitSelf(w)
    BY <1>1, <1>2, <2>4 DEF ExitSelf
  <2>5. CASE ResetWord(w)
    BY <1>1, <1>2, <2>5 DEF ResetWord
  <2>6. CASE Resume(w)
    <3>1. job[w] \in Jobs /\ pc[w] = "resume"
      BY <1>1, <1>2, <2>6 DEF Resume
    <3>2. /\ job'[w] = None /\ \A v \in Workers \ {w} : job'[v] = job[v]
      BY <1>2, <2>6 DEF Resume
    <3>3. /\ pc'[w] = "count" /\ \A v \in Workers \ {w} : pc'[v] = pc[v]
      BY <1>2, <2>6 DEF Resume
    <3>4. /\ resumed[job[w]] = 0 /\ resumed'[job[w]] = 1
          /\ \A j \in Jobs \ {job[w]} : resumed'[j] = resumed[j]
      BY <1>1, <1>2, <3>1, <2>6 DEF Resume
    <3>5. UNCHANGED queue
      BY <2>6 DEF Resume
    <3>6. QueueOK'
      <4>1. None \notin ToSet(queue)
        BY <1>1, <1>2 DEF ToSet, FunOK
      <4> QED BY <1>1, <3>2, <3>5, <4>1
    <3>7. HeldOK'
      BY <1>1, <3>2, <3>3
    <3>8. CalledOK'
      <4>1. \A v \in Workers \ {w} : job[v] # job[w]
        BY <1>1, <1>2, <3>1
      <4>2. job[w] \notin ToSet(queue)
        BY <1>1
      <4>3. ASSUME NEW j \in Jobs
            PROVE  /\ resumed'[j] \in {0, 1}
                   /\ resumed'[j] = 0 <=> j \in ToSet(queue') \/ \E v \in Workers : job'[v] = j
        <5>1. /\ resumed[j] \in {0, 1}
              /\ resumed[j] = 0 <=> j \in ToSet(queue) \/ \E v \in Workers : job[v] = j
          BY <1>1
        <5>2. CASE j = job[w]
          BY <1>2, <3>1, <3>2, <3>4, <3>5, <4>1, <4>2, <5>2
        <5>3. CASE j # job[w]
          BY <1>2, <3>1, <3>2, <3>4, <3>5, <5>1, <5>3
        <5> QED BY <5>2, <5>3
      <4> QED BY <4>3
    <3> QED BY <3>6, <3>7, <3>8
  <2>7. CASE Uncount(w)
    BY <1>1, <1>2, <2>7 DEF Uncount
  <2>8. CASE Leave(w)
    BY <1>1, <1>2, <2>8 DEF Leave
  <2>9. CASE Dec(w)
    BY <1>1, <1>2, <2>9 DEF Dec
  <2>10. CASE Join(w)
    BY <1>1, <1>2, <2>10 DEF Join
  <2>11. CASE Return(w)
    BY <1>1, <1>2, <2>11 DEF Return
  <2>12. CASE Timeout(w)
    BY <1>1, <1>2, <2>12 DEF Timeout
  <2> QED BY <1>8, <2>1, <2>2, <2>3, <2>4, <2>5, <2>6, <2>7, <2>8, <2>9, <2>10, <2>11, <2>12
      DEF WorkerAct, Step
<1>9. ASSUME NEW j \in Jobs, CallAct(j) PROVE (QueueOK /\ HeldOK /\ CalledOK)'
  <2> USE DEF QueueOK, HeldOK, CalledOK, HoldPC, Set, To, pool, thread, kill, past, faults
  <2>1. CASE Dispatch(j)
    <3>1. \A w \in Workers : pc'[w] \in HoldPC <=> pc[w] \in HoldPC
      BY <1>2, <2>1, DispatchPool
    <3>2. /\ UNCHANGED job /\ resumed' = [resumed EXCEPT ![j] = 0]
          /\ j \notin ToSet(queue) /\ ToSet(queue') = ToSet(queue) \cup {j} /\ Distinct(queue')
          /\ \A w \in Workers : job[w] # j
      BY <2>1, DispatchFacts
    <3>3. QueueOK' /\ HeldOK'
      BY <1>1, <3>1, <3>2
    <3>4. CalledOK'
      BY <1>1, <1>2, <3>2
    <3> QED BY <3>3, <3>4
  <2>2. CASE KillSwap(j)
    BY <1>1, <1>2, <2>2 DEF KillSwap
  <2>3. CASE KillReset(j)
    BY <1>1, <1>2, <2>3 DEF KillReset
  <2>4. CASE KillCancel(j)
    BY <1>1, <1>2, <2>4, KillCancelFacts DEF Region
  <2> QED BY <1>9, <2>1, <2>2, <2>3, <2>4 DEF CallAct, Step
<1> QED BY <1>8, <1>9 DEF Next, WorkerAct, CallAct

\* The handlers run for the threads that end, and for no other.
LEMMA DyingStep ==
  ASSUME BscInv, Next PROVE DyingOK'
<1>1. FunOK /\ HeldOK /\ DyingOK /\ ReapOK
  BY DEF BscInv
<1>2. /\ pc \in [Workers -> {"none", "lock", "wait", "take", "call", "cas", "skip", "lost", "done",
                         "resume", "count", "leave", "dec", "join", "ended"}]
      /\ job \in [Workers -> Jobs \cup {None}] /\ dying \in [Workers -> BOOLEAN]
      /\ joins \in [Workers -> Workers \cup {None}]
      /\ word \in [Jobs -> Jobs \cup {0, 1, 2}] /\ killer \in [Jobs -> {"off", "reset", "cancel"}]
      /\ batch \in [Jobs -> Batches \cup {None}] /\ target \in [Batches -> Workers \cup {None}]
      /\ resumed \in [Jobs -> 0..2]
      /\ toReap \in Workers \cup {None} /\ early \subseteq Jobs /\ ran \subseteq Jobs
      /\ None \notin Jobs \cup Workers /\ Jobs \cap {0, 1, 2} = {} /\ Killable \subseteq Jobs
  BY <1>1, BscAssumption DEF FunOK
<1>8. ASSUME NEW w \in Workers, WorkerAct(w) PROVE DyingOK'
  <2> USE DEF DyingOK, EndPC, Set, To, pool, thread, kill, past, faults
  <2>1. CASE Lock(w)
    <3>1. UNCHANGED dying /\ pc[w] = "lock"
      BY <2>1, LockFacts
    <3>2. pc'[w] \in {"take", "call", "wait"} /\ \A v \in Workers \ {w} : pc'[v] = pc[v]
      BY <1>2, <2>1, LockTakes, LockWaits
    <3> QED BY <1>1, <3>1, <3>2
  <2>2. CASE Take(w)
    BY <1>1, <1>2, <2>2 DEF Take
  <2>3. CASE Finish(w)
    BY <1>1, <1>2, <2>3 DEF Finish
  <2>4. CASE ExitSelf(w)
    BY <1>1, <1>2, <2>4 DEF ExitSelf
  <2>5. CASE ResetWord(w)
    BY <1>1, <1>2, <2>5 DEF ResetWord
  <2>6. CASE Resume(w)
    BY <1>1, <1>2, <2>6 DEF Resume
  <2>7. CASE Uncount(w)
    BY <1>1, <1>2, <2>7 DEF Uncount
  <2>8. CASE Leave(w)
    BY <1>1, <1>2, <2>8 DEF Leave
  <2>9. CASE Dec(w)
    BY <1>1, <1>2, <2>9 DEF Dec
  <2>10. CASE Join(w)
    BY <1>1, <1>2, <2>10 DEF Join
  <2>11. CASE Return(w)
    BY <1>1, <1>2, <2>11 DEF Return
  <2>12. CASE Timeout(w)
    BY <1>1, <1>2, <2>12 DEF Timeout
  <2> QED BY <1>8, <2>1, <2>2, <2>3, <2>4, <2>5, <2>6, <2>7, <2>8, <2>9, <2>10, <2>11, <2>12
      DEF WorkerAct, Step
<1>9. ASSUME NEW j \in Jobs, CallAct(j) PROVE DyingOK'
  <2> USE DEF DyingOK, EndPC, Set, To, pool, thread, kill, past, faults
  <2>1. CASE Dispatch(j)
    <3>1. UNCHANGED dying
      BY <2>1, DispatchFacts
    <3>2. pc' = pc \/ \E w \in Workers : pc[w] \in {"wait", "none"} /\ pc' = [pc EXCEPT ![w] = "lock"]
      BY <2>1, DispatchPool
    <3> QED BY <1>1, <1>2, <3>1, <3>2
  <2>2. CASE KillSwap(j)
    BY <1>1, <1>2, <2>2 DEF KillSwap
  <2>3. CASE KillReset(j)
    BY <1>1, <1>2, <2>3 DEF KillReset
  <2>4. CASE KillCancel(j)
    BY <1>1, <1>2, <2>4, KillCancelFacts DEF Region
  <2> QED BY <1>9, <2>1, <2>2, <2>3, <2>4 DEF CallAct, Step
<1> QED BY <1>8, <1>9 DEF Next, WorkerAct, CallAct

\* A thread that ends is left to be joined, or joined, once.
LEMMA ReapStep ==
  ASSUME BscInv, Next PROVE ReapOK'
<1>1. FunOK /\ HeldOK /\ ReapOK
  BY DEF BscInv
<1>2. /\ pc \in [Workers -> {"none", "lock", "wait", "take", "call", "cas", "skip", "lost", "done",
                         "resume", "count", "leave", "dec", "join", "ended"}]
      /\ job \in [Workers -> Jobs \cup {None}] /\ dying \in [Workers -> BOOLEAN]
      /\ joins \in [Workers -> Workers \cup {None}]
      /\ word \in [Jobs -> Jobs \cup {0, 1, 2}] /\ killer \in [Jobs -> {"off", "reset", "cancel"}]
      /\ batch \in [Jobs -> Batches \cup {None}] /\ target \in [Batches -> Workers \cup {None}]
      /\ resumed \in [Jobs -> 0..2]
      /\ toReap \in Workers \cup {None} /\ early \subseteq Jobs /\ ran \subseteq Jobs
      /\ None \notin Jobs \cup Workers /\ Jobs \cap {0, 1, 2} = {} /\ Killable \subseteq Jobs
  BY <1>1, BscAssumption DEF FunOK
<1>8. ASSUME NEW w \in Workers, WorkerAct(w) PROVE ReapOK'
  <2> USE DEF ReapOK, EndPC, Set, To, pool, thread, kill, past, faults
  <2>1. CASE Lock(w)
    <3>1. UNCHANGED <<toReap, joins>> /\ pc[w] = "lock"
      BY <2>1, LockFacts
    <3>2. pc'[w] \in {"take", "call", "wait"} /\ \A v \in Workers \ {w} : pc'[v] = pc[v]
      BY <1>2, <2>1, LockTakes, LockWaits
    <3> QED BY <1>1, <1>2, <3>1, <3>2
  <2>2. CASE Take(w)
    BY <1>1, <1>2, <2>2 DEF Take
  <2>3. CASE Finish(w)
    BY <1>1, <1>2, <2>3 DEF Finish
  <2>4. CASE ExitSelf(w)
    BY <1>1, <1>2, <2>4 DEF ExitSelf
  <2>5. CASE ResetWord(w)
    BY <1>1, <1>2, <2>5 DEF ResetWord
  <2>6. CASE Resume(w)
    BY <1>1, <1>2, <2>6 DEF Resume
  <2>7. CASE Uncount(w)
    BY <1>1, <1>2, <2>7 DEF Uncount
  <2>8. CASE Leave(w)
    BY <1>1, <1>2, <2>8 DEF Leave
  <2>9. CASE Dec(w)
    BY <1>1, <1>2, <2>9 DEF Dec
  <2>10. CASE Join(w)
    BY <1>1, <1>2, <2>10 DEF Join
  <2>11. CASE Return(w)
    BY <1>1, <1>2, <2>11 DEF Return
  <2>12. CASE Timeout(w)
    BY <1>1, <1>2, <2>12 DEF Timeout
  <2> QED BY <1>8, <2>1, <2>2, <2>3, <2>4, <2>5, <2>6, <2>7, <2>8, <2>9, <2>10, <2>11, <2>12
      DEF WorkerAct, Step
<1>9. ASSUME NEW j \in Jobs, CallAct(j) PROVE ReapOK'
  <2> USE DEF ReapOK, EndPC, Set, To, pool, thread, kill, past, faults
  <2>1. CASE Dispatch(j)
    <3>1. UNCHANGED <<toReap, joins>>
      BY <2>1, DispatchFacts
    <3>2. pc' = pc \/ \E w \in Workers : pc[w] \in {"wait", "none"} /\ pc' = [pc EXCEPT ![w] = "lock"]
      BY <2>1, DispatchPool
    <3> QED BY <1>1, <1>2, <3>1, <3>2
  <2>2. CASE KillSwap(j)
    BY <1>1, <1>2, <2>2 DEF KillSwap
  <2>3. CASE KillReset(j)
    BY <1>1, <1>2, <2>3 DEF KillReset
  <2>4. CASE KillCancel(j)
    BY <1>1, <1>2, <2>4, KillCancelFacts DEF Region
  <2> QED BY <1>9, <2>1, <2>2, <2>3, <2>4 DEF CallAct, Step
<1> QED BY <1>8, <1>9 DEF Next, WorkerAct, CallAct

\* A step that leaves call k, its word and its thread alone.
LEMMA KillFrame ==
  ASSUME BscInv, NEW k \in Jobs,
         word'[k] = word[k], killer'[k] = killer[k],
         resumed'[k] = resumed[k], k \in early' <=> k \in early, k \in ran' <=> k \in ran,
         k \in ToSet(queue') <=> k \in ToSet(queue),
         \A v \in Workers : /\ job'[v] = k <=> job[v] = k
                            /\ job[v] = k => pc'[v] = pc[v] /\ dying'[v] = dying[v]
  PROVE  KillOK(k)'
<1>1. KillOK(k)
  BY DEF BscInv
<1>2. NotStarted(k)' <=> NotStarted(k)
  BY DEF NotStarted
<1> HIDE DEF NotStarted
<1> QED BY <1>1, <1>2 DEF KillOK

\* The word of a call tells what became of it.
LEMMA KillStep ==
  ASSUME BscInv, Next, NEW k \in Jobs PROVE KillOK(k)'
<1>1. FunOK /\ HeldOK /\ QueueOK /\ CalledOK /\ DyingOK /\ KillOK(k)
  BY DEF BscInv
<1>2. /\ pc \in [Workers -> {"none", "lock", "wait", "take", "call", "cas", "skip", "lost", "done",
                         "resume", "count", "leave", "dec", "join", "ended"}]
      /\ job \in [Workers -> Jobs \cup {None}] /\ dying \in [Workers -> BOOLEAN]
      /\ joins \in [Workers -> Workers \cup {None}]
      /\ word \in [Jobs -> Jobs \cup {0, 1, 2}] /\ killer \in [Jobs -> {"off", "reset", "cancel"}]
      /\ batch \in [Jobs -> Batches \cup {None}] /\ target \in [Batches -> Workers \cup {None}]
      /\ resumed \in [Jobs -> 0..2]
      /\ toReap \in Workers \cup {None} /\ early \subseteq Jobs /\ ran \subseteq Jobs
      /\ None \notin Jobs \cup Workers /\ Jobs \cap {0, 1, 2} = {} /\ Killable \subseteq Jobs
  BY <1>1, BscAssumption DEF FunOK
<1>3. /\ \A w \in Workers : job[w] # None <=> pc[w] \in HoldPC
      /\ \A v, w \in Workers : job[v] = job[w] /\ job[w] # None => v = w
      /\ \A w \in Workers : job[w] \notin ToSet(queue)
      /\ resumed[k] = 0 <=> k \in ToSet(queue) \/ \E w \in Workers : job[w] = k
  BY <1>1 DEF HeldOK, QueueOK, CalledOK
<1>8. ASSUME NEW w \in Workers, WorkerAct(w) PROVE KillOK(k)'
  <2> USE DEF KillOK, NotStarted, WordPC, HoldPC, Set, To, pool, thread, kill, past,
      faults
  <2>1. CASE Lock(w)
    <3>1. job[w] = None /\ UNCHANGED <<dying, word, killer, early, resumed>>
      BY <2>1, LockFacts
    <3>2. CASE queue = <<>>
      <4>1. pc' = [pc EXCEPT ![w] = "wait"] /\ UNCHANGED <<queue, job, ran>>
        BY <2>1, <3>2, LockWaits
      <4> QED BY <1>2, <3>1, <4>1, KillFrame
    <3>3. CASE queue # <<>>
      <4>1. PICK h \in ToSet(queue) \cap Jobs :
              /\ ToSet(queue') = ToSet(queue) \ {h} /\ job' = [job EXCEPT ![w] = h]
              /\ \/ h \in Killable /\ pc' = [pc EXCEPT ![w] = "take"] /\ ran' = ran
                 \/ /\ h \notin Killable
                    /\ pc' = [pc EXCEPT ![w] = "call"] /\ ran' = ran \cup {h}
        BY <2>1, <3>3, LockTakes
      <4>2. job'[w] = h /\ \A v \in Workers \ {w} : job'[v] = job[v] /\ pc'[v] = pc[v]
        BY <1>2, <4>1
      <4>3. CASE k # h
        <5>1. /\ (k \in ran' <=> k \in ran) /\ (k \in ToSet(queue') <=> k \in ToSet(queue))
          BY <4>1, <4>3
        <5>2. \A v \in Workers : /\ job'[v] = k <=> job[v] = k
                                 /\ job[v] = k => pc'[v] = pc[v]
          BY <1>2, <3>1, <4>2, <4>3
        <5> QED BY <3>1, <5>1, <5>2, KillFrame
      <4>4. CASE k = h
        <5>1. /\ word[k] \in {0, 1} /\ killer[k] = "off" /\ (k \in early => word[k] = 1)
              /\ word[k] # k /\ \A v \in Workers : job[v] # k
          BY <1>1, <1>2, <1>3, <4>1, <4>4
        <5>2. k \notin ran /\ (k \in early => k \in Killable /\ resumed[k] = 0)
          BY <1>1, <1>3, <5>1
        <5>3. k \notin ToSet(queue') /\ job'[w] = k /\ \A v \in Workers \ {w} : job'[v] # k
          BY <4>1, <4>2, <4>4, <5>1
        <5>4. CASE k \in Killable /\ pc'[w] = "take" /\ ran' = ran
          BY <3>1, <5>1, <5>2, <5>3, <5>4
        <5>5. CASE k \notin Killable /\ pc'[w] = "call" /\ ran' = ran \cup {k}
          BY <3>1, <5>1, <5>2, <5>3, <5>5
        <5> QED BY <1>2, <4>1, <4>4, <5>4, <5>5
      <4> QED BY <4>3, <4>4
    <3> QED BY <3>2, <3>3
  <2>2. CASE Take(w)
    <3>1. job[w] \in Jobs
      BY <1>1, <1>2, <1>3, <2>2 DEF Take
    <3>2. CASE k # job[w]
      <4>1. /\ word'[k] = word[k] /\ killer'[k] = killer[k]
            /\ resumed'[k] = resumed[k] /\ (k \in early' <=> k \in early)
            /\ (k \in ran' <=> k \in ran) /\ UNCHANGED queue
        BY <1>2, <2>2, <3>1, <3>2 DEF Take
      <4>2. \A v \in Workers : /\ job'[v] = k <=> job[v] = k
                               /\ job[v] = k => pc'[v] = pc[v] /\ dying'[v] = dying[v]
        BY <1>2, <2>2, <3>2 DEF Take
      <4> QED BY <4>1, <4>2, KillFrame
    <3>3. CASE k = job[w]
      <4>1. k \notin ToSet(queue) /\ \A v \in Workers : job[v] = k => v = w
        BY <1>1, <1>2, <1>3, <3>1, <3>3
      <4> QED BY <1>1, <1>2, <1>3, <2>2, <3>3, <4>1 DEF Take
    <3> QED BY <3>2, <3>3
  <2>3. CASE Finish(w)
    <3>1. job[w] \in Jobs
      BY <1>1, <1>2, <1>3, <2>3 DEF Finish
    <3>2. CASE k # job[w]
      <4>1. /\ word'[k] = word[k] /\ killer'[k] = killer[k]
            /\ resumed'[k] = resumed[k] /\ (k \in early' <=> k \in early)
            /\ (k \in ran' <=> k \in ran) /\ UNCHANGED queue
        BY <1>2, <2>3, <3>1, <3>2 DEF Finish
      <4>2. \A v \in Workers : /\ job'[v] = k <=> job[v] = k
                               /\ job[v] = k => pc'[v] = pc[v] /\ dying'[v] = dying[v]
        BY <1>2, <2>3, <3>2 DEF Finish
      <4> QED BY <4>1, <4>2, KillFrame
    <3>3. CASE k = job[w]
      <4>1. k \notin ToSet(queue) /\ \A v \in Workers : job[v] = k => v = w
        BY <1>1, <1>2, <1>3, <3>1, <3>3
      <4> QED BY <1>1, <1>2, <1>3, <2>3, <3>3, <4>1 DEF Finish
    <3> QED BY <3>2, <3>3
  <2>4. CASE ExitSelf(w)
    BY <1>1, <1>2, <1>3, <2>4 DEF ExitSelf
  <2>5. CASE ResetWord(w)
    <3>1. job[w] \in Jobs
      BY <1>1, <1>2, <1>3, <2>5 DEF ResetWord
    <3>2. CASE k # job[w]
      <4>1. /\ word'[k] = word[k] /\ killer'[k] = killer[k]
            /\ resumed'[k] = resumed[k] /\ (k \in early' <=> k \in early)
            /\ (k \in ran' <=> k \in ran) /\ UNCHANGED queue
        BY <1>2, <2>5, <3>1, <3>2 DEF ResetWord
      <4>2. \A v \in Workers : /\ job'[v] = k <=> job[v] = k
                               /\ job[v] = k => pc'[v] = pc[v] /\ dying'[v] = dying[v]
        BY <1>2, <2>5, <3>2 DEF ResetWord
      <4> QED BY <4>1, <4>2, KillFrame
    <3>3. CASE k = job[w]
      <4>1. k \notin ToSet(queue) /\ \A v \in Workers : job[v] = k => v = w
        BY <1>1, <1>2, <1>3, <3>1, <3>3
      <4> QED BY <1>1, <1>2, <1>3, <2>5, <3>3, <4>1 DEF ResetWord
    <3> QED BY <3>2, <3>3
  <2>6. CASE Resume(w)
    BY <1>1, <1>2, <1>3, <2>6 DEF Resume
  <2>7. CASE Uncount(w)
    BY <1>1, <1>2, <1>3, <2>7 DEF Uncount
  <2>8. CASE Leave(w)
    BY <1>1, <1>2, <1>3, <2>8 DEF Leave
  <2>9. CASE Dec(w)
    BY <1>1, <1>2, <1>3, <2>9 DEF Dec
  <2>10. CASE Join(w)
    <3>1. /\ word'[k] = word[k] /\ killer'[k] = killer[k]
          /\ resumed'[k] = resumed[k] /\ (k \in early' <=> k \in early)
          /\ (k \in ran' <=> k \in ran) /\ UNCHANGED queue
      BY <2>10 DEF Join
    <3>2. \A v \in Workers : job[v] = k => pc[v] \notin {"join", "ended"}
      BY <1>1, <1>2, <1>3
    <3>3. \A v \in Workers : /\ job'[v] = k <=> job[v] = k
                             /\ job[v] = k => pc'[v] = pc[v] /\ dying'[v] = dying[v]
      BY <1>2, <3>2, <2>10 DEF Join
    <3> QED BY <3>1, <3>3, KillFrame
  <2>11. CASE Return(w)
    <3>1. job[w] \in Jobs
      BY <1>1, <1>2, <1>3, <2>11 DEF Return
    <3>2. CASE k # job[w]
      <4>1. /\ word'[k] = word[k] /\ killer'[k] = killer[k]
            /\ resumed'[k] = resumed[k] /\ (k \in early' <=> k \in early)
            /\ (k \in ran' <=> k \in ran) /\ UNCHANGED queue
        BY <1>2, <2>11, <3>1, <3>2 DEF Return
      <4>2. \A v \in Workers : /\ job'[v] = k <=> job[v] = k
                               /\ job[v] = k => pc'[v] = pc[v] /\ dying'[v] = dying[v]
        BY <1>2, <2>11, <3>2 DEF Return
      <4> QED BY <4>1, <4>2, KillFrame
    <3>3. CASE k = job[w]
      <4>1. k \notin ToSet(queue) /\ \A v \in Workers : job[v] = k => v = w
        BY <1>1, <1>2, <1>3, <3>1, <3>3
      <4> QED BY <1>1, <1>2, <1>3, <2>11, <3>3, <4>1 DEF Return
    <3> QED BY <3>2, <3>3
  <2>12. CASE Timeout(w)
    BY <1>1, <1>2, <1>3, <2>12 DEF Timeout
  <2> QED BY <1>8, <2>1, <2>2, <2>3, <2>4, <2>5, <2>6, <2>7, <2>8, <2>9, <2>10, <2>11, <2>12
      DEF WorkerAct, Step
<1>9. ASSUME NEW j \in Jobs, CallAct(j) PROVE KillOK(k)'
  <2> USE DEF KillOK, NotStarted, WordPC, HoldPC, Set, To, pool, thread, kill, past,
      faults
  <2>1. CASE Dispatch(j)
    <3>1. UNCHANGED <<job, dying, ran, killer>>
      BY <2>1, DispatchFacts
    <3>2. \A v \in Workers : pc[v] \in HoldPC => pc'[v] = pc[v]
      BY <1>2, <2>1, DispatchPool
    <3>3. ToSet(queue') = ToSet(queue) \cup {j} /\ resumed' = [resumed EXCEPT ![j] = 0]
      BY <2>1, DispatchFacts
    <3>4. CASE k # j
      <4>1. word'[k] = word[k] /\ (k \in early' <=> k \in early)
        BY <1>2, <2>1, <3>4, DispatchWord
      <4>2. resumed'[k] = resumed[k] /\ (k \in ToSet(queue') <=> k \in ToSet(queue))
        BY <1>2, <3>3, <3>4
      <4>3. \A v \in Workers : job[v] = k => pc'[v] = pc[v]
        BY <1>1, <1>2, <1>3, <3>2
      <4> QED BY <3>1, <4>1, <4>2, <4>3, KillFrame
    <3>5. CASE k = j
      <4>1. /\ killer[k] = "off" /\ (\A v \in Workers : job[v] # k) /\ k \notin early
        BY <2>1, <3>5, DispatchFacts
      <4>2. word'[k] \in {0, 1} /\ word'[k] # k /\ (k \in early' => word'[k] = 1 /\ k \in Killable)
        BY <1>2, <2>1, <3>5, <4>1, DispatchWord
      <4>3. resumed'[k] = 0 /\ k \notin ran
        BY <1>1, <1>2, <1>3, <3>3, <3>5, <4>1
      <4> QED BY <3>1, <4>1, <4>2, <4>3
    <3> QED BY <3>4, <3>5
  <2>2. CASE KillSwap(j)
    <3>1. UNCHANGED <<queue, pc, job, dying, ran, resumed>>
      BY <2>2 DEF KillSwap
    <3>2. CASE k # j
      <4>1. word'[k] = word[k] /\ killer'[k] = killer[k] /\ (k \in early' <=> k \in early)
        BY <1>2, <2>2, <3>2 DEF KillSwap
      <4> QED BY <3>1, <4>1, KillFrame
    <3>3. CASE k = j
      <4>1. /\ k \in Killable /\ word'[k] = 1 /\ word'[k] # k
            /\ killer'[k] = (IF word[k] = k THEN "cancel" ELSE IF word[k] = 2 THEN "reset" ELSE "off")
            /\ early' = IF NotStarted(k) THEN early \cup {k} ELSE early
        BY <1>2, <2>2, <3>3 DEF KillSwap
      <4>2. CASE NotStarted(k)
        <5>1. word[k] \in {0, 1} /\ killer'[k] = "off" /\ k \in early' /\ word[k] # k
          BY <1>1, <1>2, <1>3, <4>1, <4>2
        <5>2. k \notin ran /\ resumed[k] = 0
          BY <1>1, <1>2, <1>3, <4>2
        <5> QED BY <1>1, <3>1, <4>1, <5>1, <5>2
      <4>3. CASE ~NotStarted(k)
        <5>1. ~NotStarted(k)'
          BY <3>1, <4>3
        <5> QED BY <1>1, <3>1, <4>1, <4>3, <5>1
      <4> QED BY <4>2, <4>3
    <3> QED BY <3>2, <3>3
  <2>3. CASE KillReset(j)
    BY <1>1, <1>2, <1>3, <2>3 DEF KillReset
  <2>4. CASE KillCancel(j)
    BY <1>1, <1>2, <1>3, <2>4, KillCancelFacts DEF Region
  <2> QED BY <1>9, <2>1, <2>2, <2>3, <2>4 DEF CallAct, Step
<1> QED BY <1>8, <1>9 DEF Next, WorkerAct, CallAct

\* A step in which no call begins and no kill takes hold of a batch.
LEMMA BatchFrame ==
  ASSUME BscInv, NEW k \in Jobs, batch' = batch,
         \A j \in Jobs : /\ resumed'[j] = 0 => resumed[j] = 0
                         /\ killer'[j] = "cancel" => killer[j] = "cancel" \/ resumed[j] = 0
  PROVE  BatchOK(k)'
<1>1. BatchOK(k) /\ Killable \subseteq Jobs
  BY BscAssumption DEF BscInv
<1> QED BY <1>1 DEF BatchOK

\* A call that begins gets a batch that no other one has, and that nobody holds
\* to kill another one.
LEMMA BatchStep ==
  ASSUME BscInv, Next, Prompt, NEW k \in Jobs PROVE BatchOK(k)'
<1>1. FunOK /\ CalledOK /\ BatchOK(k) /\ Killable \subseteq Jobs
  BY BscAssumption DEF BscInv
<1>2. /\ killer \in [Jobs -> {"off", "reset", "cancel"}] /\ resumed \in [Jobs -> 0..2]
      /\ batch \in [Jobs -> Batches \cup {None}]
  BY <1>1 DEF FunOK
<1>3. ASSUME NEW w \in Workers, WorkerAct(w) PROVE BatchOK(k)'
  <2>1. UNCHANGED <<batch, killer>>
    BY <1>3 DEF WorkerAct, Step, Lock, Take, Finish, ExitSelf, ResetWord, Resume, Uncount, Leave,
       Dec, Join, Return, Timeout, kill
  <2>2. UNCHANGED resumed \/ resumed' = [resumed EXCEPT ![job[w]] = IF @ = 2 THEN 2 ELSE @ + 1]
    BY <1>3 DEF WorkerAct, Step, Lock, Take, Finish, ExitSelf, ResetWord, Resume, Uncount, Leave,
       Dec, Join, Return, Timeout, past
  <2>3. \A j \in Jobs : resumed'[j] = 0 => resumed[j] = 0
    BY <1>2, <2>2
  <2> QED BY <2>1, <2>3, BatchFrame
<1>4. ASSUME NEW j \in Jobs, CallAct(j) PROVE BatchOK(k)'
  <2>1. CASE Dispatch(j)
    <3>1. /\ resumed[j] = 1 /\ killer[j] = "off" /\ killer' = killer
          /\ resumed' = [resumed EXCEPT ![j] = 0]
      BY <2>1, DispatchFacts
    <3>2. CASE j \notin Killable /\ batch' = batch
      BY <1>1, <1>2, <3>1, <3>2 DEF BatchOK
    <3>3. CASE j \in Killable
      <4>1. PICK b \in Batches : /\ \A l \in Killable : resumed[l] = 0 => batch[l] # b
                                /\ batch' = [batch EXCEPT ![j] = b]
        BY <2>1, <3>3, DispatchBatch
      <4>2. batch'[j] = b /\ \A l \in Jobs \ {j} : batch'[l] = batch[l] /\ resumed'[l] = resumed[l]
        BY <1>2, <3>1, <4>1
      <4>3. \A l \in Killable : killer[l] = "cancel" => batch[l] # b
        BY <1>2, <3>1, <3>3, <4>2 DEF Prompt
      <4>4. CASE k = j
        BY <1>1, <3>1, <4>1, <4>2, <4>3, <4>4 DEF BatchOK
      <4>5. CASE k # j
        <5>1. ASSUME k \in Killable, resumed'[k] = 0 PROVE batch'[k] \in Batches /\ batch'[k] # b
          BY <1>1, <4>1, <4>2, <4>5, <5>1 DEF BatchOK
        <5> QED BY <1>1, <3>1, <4>2, <4>5, <5>1 DEF BatchOK
      <4> QED BY <4>4, <4>5
    <3> QED BY <2>1, <3>2, <3>3, DispatchBatch
  <2>2. CASE KillSwap(j)
    <3>1. UNCHANGED <<batch, resumed>>
      BY <2>2 DEF KillSwap
    <3>2. word[j] = j => resumed[j] = 0
      BY <1>1 DEF BscInv, KillOK, CalledOK
    <3>3. \A l \in Jobs : killer'[l] = "cancel" => killer[l] = "cancel" \/ resumed[l] = 0
      BY <1>2, <2>2, <3>2 DEF KillSwap, Set
    <3> QED BY <3>1, <3>3, BatchFrame
  <2>3. CASE KillReset(j)
    <3>1. UNCHANGED <<batch, resumed>> /\ killer' = [killer EXCEPT ![j] = "off"]
      BY <2>3 DEF KillReset, Set, past
    <3> QED BY <1>2, <3>1, BatchFrame
  <2>4. CASE KillCancel(j)
    <3>1. UNCHANGED <<batch, resumed>> /\ killer' = [killer EXCEPT ![j] = "off"]
      BY <2>4, KillCancelFacts DEF past
    <3> QED BY <1>2, <3>1, BatchFrame
  <2> QED BY <1>4, <2>1, <2>2, <2>3, <2>4 DEF CallAct
<1> QED BY <1>3, <1>4 DEF Next, WorkerAct, CallAct

\* A step that leaves the batch of call k, and what it names, as they are.
LEMMA AimFrame ==
  ASSUME BscInv, NEW k \in Jobs, batch'[k] = batch[k],
         batch[k] \in Batches => target'[batch[k]] = target[batch[k]],
         word'[k] = k => word[k] = k, killer'[k] = "cancel" => killer[k] = "cancel",
         \A v \in Workers :
           /\ word'[k] = k /\ job[v] = k /\ pc[v] \in WordPC => job'[v] = k /\ pc'[v] \in WordPC
           /\ killer'[k] = "cancel" /\ InRegion(v, k) => InRegion(v, k)' \/ dying'[v]
           /\ dying[v] => dying'[v] \/ pc'[v] = "none"
           /\ killer'[k] = "cancel" /\ v = Aim(k) /\ pc[v] = "none" => pc'[v] = "none"
  PROVE  AimOK(k)'
<1>1. AimOK(k)
  BY DEF BscInv
<1>2. PICK t : Aim(k) = t /\ (batch[k] \in Batches => Aim(k)' = t)
  BY DEF Aim
<1>3. ASSUME word'[k] = k PROVE batch[k] \in Batches /\ t \in Workers /\ job'[t] = k /\ pc'[t] \in WordPC
  BY <1>1, <1>2, <1>3 DEF AimOK
<1>4. ASSUME killer'[k] = "cancel"
      PROVE  /\ batch[k] \in Batches /\ t \in Workers
             /\ InRegion(t, k)' \/ dying'[t] \/ pc'[t] = "none"
  <2>1. /\ batch[k] \in Batches /\ t \in Workers
        /\ InRegion(t, k) \/ dying[t] \/ pc[t] = "none"
    BY <1>1, <1>2, <1>4 DEF AimOK
  <2> QED BY <1>2, <1>4, <2>1
<1>5. (word'[k] = k \/ killer'[k] = "cancel") => Aim(k)' = t /\ batch'[k] \in Batches /\ t \in Workers
  BY <1>2, <1>3, <1>4
<1>6. killer'[k] = "cancel" => InRegion(Aim(k), k)' \/ dying'[Aim(k)'] \/ pc'[Aim(k)'] = "none"
  BY <1>4, <1>5 DEF InRegion
<1> QED BY <1>3, <1>5, <1>6 DEF AimOK

\* The thread that a kill of call k will cancel goes on to no other call, and no
\* other thread takes its place.
LEMMA AimStep ==
  ASSUME BscInv, Next, Prompt, NEW k \in Jobs PROVE AimOK(k)'
<1>1. FunOK /\ HeldOK /\ CalledOK /\ DyingOK /\ ReapOK /\ KillOK(k) /\ BatchOK(k) /\ AimOK(k)
  BY DEF BscInv
<1>2. /\ pc \in [Workers -> {"none", "lock", "wait", "take", "call", "cas", "skip", "lost", "done",
                         "resume", "count", "leave", "dec", "join", "ended"}]
      /\ job \in [Workers -> Jobs \cup {None}] /\ dying \in [Workers -> BOOLEAN]
      /\ joins \in [Workers -> Workers \cup {None}]
      /\ word \in [Jobs -> Jobs \cup {0, 1, 2}] /\ killer \in [Jobs -> {"off", "reset", "cancel"}]
      /\ batch \in [Jobs -> Batches \cup {None}] /\ target \in [Batches -> Workers \cup {None}]
      /\ None \notin Jobs \cup Workers \cup Batches /\ Jobs \cap {0, 1, 2} = {} /\ Killable \subseteq Jobs
  BY <1>1, BscAssumption DEF FunOK
<1>3. /\ \A w \in Workers : job[w] # None <=> pc[w] \in HoldPC
      /\ \A v, w \in Workers : job[v] = job[w] /\ job[w] # None => v = w
  BY <1>1 DEF HeldOK
<1>4. /\ killer[k] = "cancel" => k \in Killable /\ word[k] # k
      /\ word[k] = k => k \in Killable
  BY <1>1 DEF KillOK
<1>5. ASSUME NEW w \in Workers, WorkerAct(w) PROVE AimOK(k)'
  <2>0. UNCHANGED <<batch, killer>>
    BY <1>5 DEF WorkerAct, Step, Lock, Take, Finish, ExitSelf, ResetWord, Resume, Uncount, Leave,
       Dec, Join, Return, Timeout, kill
  <2> USE DEF WordPC, Region, InRegion, HoldPC, EndPC, Set, To, pool, thread, kill
  <2>1. CASE Take(w) /\ job[w] = k
    <3>1. k \in Killable /\ killer[k] = "off" /\ resumed[k] = 0
      BY <1>1, <2>1 DEF Take, KillOK, NotStarted, CalledOK
    <3>2. batch[k] \in Batches
      BY <1>1, <3>1 DEF BatchOK
    <3>3. /\ target'[batch[k]] = w /\ pc'[w] \in WordPC /\ job'[w] = k /\ killer'[k] = "off"
          /\ batch'[k] = batch[k]
      BY <1>2, <2>0, <2>1, <3>1, <3>2 DEF Take
    <3>4. Aim(k)' = w
      BY <3>3 DEF Aim
    <3> HIDE DEF WordPC
    <3> QED BY <3>2, <3>3, <3>4 DEF AimOK
  <2>2. CASE Take(w) /\ job[w] # k
    <3>1. job[w] \in Killable /\ resumed[job[w]] = 0
      BY <1>1, <1>2, <1>3, <2>2 DEF BscInv, Take, KillOK, CalledOK
    <3>2. word[k] = k => resumed[k] = 0
      BY <1>1 DEF KillOK, CalledOK
    <3>3. word[k] = k \/ killer[k] = "cancel" => batch[k] # batch[job[w]]
      BY <1>2, <1>4, <2>2, <3>1, <3>2 DEF BscInv, BatchOK
    <3>4. ASSUME word[k] = k \/ killer[k] = "cancel" PROVE AimOK(k)'
      <4>1. /\ target' = [target EXCEPT ![batch[job[w]]] = w]
            /\ word' = [word EXCEPT ![job[w]] = job[w]]
            /\ pc' = [pc EXCEPT ![w] = "call"] \/ pc' = [pc EXCEPT ![w] = "skip"]
            /\ UNCHANGED <<job, dying>> /\ pc[w] = "take"
        BY <2>2 DEF Take
      <4>2. target'[batch[k]] = target[batch[k]] \/ batch[k] \notin Batches
        BY <1>2, <3>3, <3>4, <4>1
      <4>3. \A v \in Workers : job[v] = k \/ pc[v] = "none" => pc'[v] = pc[v]
        BY <1>2, <2>2, <4>1
      <4>4. word'[k] = word[k]
        BY <1>2, <2>2, <3>1, <4>1
      <4> QED BY <2>0, <4>1, <4>2, <4>3, <4>4, AimFrame
    <3>5. ASSUME word[k] # k, killer[k] # "cancel" PROVE AimOK(k)'
      <4>1. word'[k] = word[k]
        BY <1>2, <2>2, <3>1 DEF Take
      <4> QED BY <2>0, <3>5, <4>1 DEF AimOK
    <3> QED BY <3>4, <3>5
  <2>3. CASE ~Take(w)
    <3>1. UNCHANGED target
      BY <1>5, <2>3 DEF WorkerAct, Step, Lock, Finish, ExitSelf, ResetWord, Resume, Uncount,
         Leave, Dec, Join, Return, Timeout
    <3>2. word'[k] = k => word[k] = k
      BY <1>2, <1>5, <2>3 DEF WorkerAct, Step, Lock, Finish, ExitSelf, ResetWord, Resume, Uncount,
         Leave, Dec, Join, Return, Timeout
    <3>3. ASSUME NEW v \in Workers
          PROVE  /\ dying[v] => dying'[v] \/ pc'[v] = "none"
                 /\ pc[v] = "none" => pc'[v] = "none"
      BY <1>2, <1>5, <2>3 DEF WorkerAct, Step, Lock, Finish, ExitSelf, ResetWord, Resume, Uncount,
         Leave, Dec, Join, Return, Timeout
    <3>4. ASSUME NEW v \in Workers, killer[k] = "cancel", InRegion(v, k)
          PROVE  InRegion(v, k)' \/ dying'[v]
      BY <1>2, <1>3, <1>4, <1>5, <2>3, <3>4 DEF WorkerAct, Step, Lock, Finish, ExitSelf, ResetWord,
         Resume, Uncount, Leave, Dec, Join, Return, Timeout
    <3>5. ASSUME NEW v \in Workers, word'[k] = k, job[v] = k, pc[v] \in WordPC
          PROVE  job'[v] = k /\ pc'[v] \in WordPC
      BY <1>2, <1>3, <1>4, <1>5, <2>3, <3>2, <3>5 DEF WorkerAct, Step, Lock, Finish, ExitSelf,
         ResetWord, Resume, Uncount, Leave, Dec, Join, Return, Timeout
    <3> HIDE DEF WordPC, InRegion
    <3> QED BY <2>0, <3>1, <3>2, <3>3, <3>4, <3>5, AimFrame
  <2> QED BY <2>1, <2>2, <2>3
<1>6. ASSUME NEW j \in Jobs, CallAct(j) PROVE AimOK(k)'
  <2>1. CASE Dispatch(j) /\ j = k
    <3>1. killer'[k] = "off"
      BY <2>1, DispatchFacts
    <3>2. word'[k] # k
      BY <1>2, <2>1, DispatchWord
    <3> QED BY <3>1, <3>2 DEF AimOK
  <2>2. CASE Dispatch(j) /\ j # k
    <3>1. UNCHANGED <<job, dying, target, killer>>
      BY <2>2, DispatchFacts
    <3>2. batch'[k] = batch[k] /\ word'[k] = word[k]
      BY <1>2, <2>2, DispatchBatch, DispatchWord
    <3>3. \A v \in Workers : pc[v] \in HoldPC => pc'[v] = pc[v]
      BY <1>2, <2>2, DispatchPool DEF HoldPC
    <3>4. killer[k] = "cancel" /\ pc[Aim(k)] = "none" => pc'[Aim(k)] = "none"
      BY <1>4 DEF Prompt, Aim
    <3>5. \A v \in Workers : job[v] = k => pc'[v] = pc[v]
      BY <1>2, <1>3, <3>3
    <3> QED BY <3>1, <3>2, <3>4, <3>5, AimFrame DEF InRegion
  <2>3. CASE KillSwap(j) /\ j = k
    <3>1. /\ UNCHANGED <<batch, target, pc, job, dying>> /\ word'[k] = 1
          /\ killer'[k] = "cancel" => word[k] = k
      BY <1>2, <2>3 DEF KillSwap, Set, thread
    <3>2. word'[k] # k
      BY <1>2, <3>1
    <3> QED BY <1>1, <3>1, <3>2 DEF AimOK, Aim, InRegion, WordPC, Region
  <2>4. CASE (KillSwap(j) /\ j # k) \/ KillReset(j)
    <3>1. UNCHANGED <<batch, target, pc, job, dying>>
      BY <2>4 DEF KillSwap, KillReset, thread
    <3>2. (word'[k] = k => word[k] = k) /\ (killer'[k] = "cancel" => killer[k] = "cancel")
      BY <1>2, <2>4 DEF KillSwap, KillReset, Set
    <3> QED BY <3>1, <3>2, AimFrame DEF InRegion
  <2>5. CASE KillCancel(j)
    <3>1. UNCHANGED <<batch, target, word, job>> /\ Aim(j) \in Workers
      BY <2>5, KillCancelFacts
    <3>2. killer'[k] = "cancel" => killer[k] = "cancel" /\ k # j
      BY <1>2, <2>5, KillCancelFacts
    <3>3. word[k] = k => k # j
      BY <2>5, KillCancelFacts
    <3>4. \/ /\ job[Aim(j)] = j /\ pc[Aim(j)] \in Region
             /\ pc' = [pc EXCEPT ![Aim(j)] = "done"] /\ dying' = [dying EXCEPT ![Aim(j)] = TRUE]
          \/ UNCHANGED <<pc, dying>>
      BY <2>5, KillCancelFacts
    <3>5. ASSUME NEW v \in Workers
          PROVE  /\ job[v] = k /\ k # j => pc'[v] = pc[v]
                 /\ dying[v] => dying'[v]
                 /\ pc[v] = "none" => pc'[v] = "none"
      BY <1>2, <3>1, <3>4 DEF Region
    <3> QED BY <3>1, <3>2, <3>3, <3>5, AimFrame DEF InRegion
  <2> QED BY <1>6, <2>1, <2>2, <2>3, <2>4, <2>5 DEF CallAct
<1> QED BY <1>5, <1>6 DEF Next, WorkerAct, CallAct

-----------------------------------------------------------------------------
(* The counters.                                                           *)

\* What a thread's step does to the sets that are counted.
LEMMA WorkerSets ==
  ASSUME BscInv, NEW w \in Workers, WorkerAct(w)
  PROVE  /\ UNCHANGED failures
         /\ \/ UNCHANGED <<Live, WaitSet, LockSet, Calling, queue, waiting, running, pending, minutes>>
            \/ /\ Len(queue') = Len(queue) - 1 /\ w \in LockSet /\ LockSet' = LockSet \ {w}
               /\ w \notin Calling /\ Calling' = Calling \cup {w}
               /\ UNCHANGED <<Live, WaitSet, waiting, running, pending, minutes>>
            \/ /\ Len(queue) = 0 /\ w \in LockSet /\ LockSet' = LockSet \ {w}
               /\ w \notin WaitSet /\ WaitSet' = WaitSet \cup {w} /\ waiting' = waiting + 1
               /\ UNCHANGED <<Live, Calling, queue, running, pending, minutes>>
            \/ /\ w \in WaitSet /\ WaitSet' = WaitSet \ {w} /\ minutes' = minutes + 1
               /\ UNCHANGED <<Live, Calling, queue, waiting, running, pending>>
            \/ /\ w \in Calling /\ Calling' = Calling \ {w} /\ pending' = pending - 1
               /\ \/ w \notin LockSet /\ LockSet' = LockSet \cup {w}
                  \/ LockSet' = LockSet /\ dying'[w]
               /\ UNCHANGED <<Live, WaitSet, queue, waiting, running, minutes>>
            \/ /\ w \in Live /\ Live' = Live \ {w} /\ running' = running - 1 /\ dying'[w]
               /\ UNCHANGED <<WaitSet, LockSet, Calling, queue, waiting, pending, minutes>>
<1>1. FunOK /\ HeldOK /\ DyingOK /\ ReapOK
  BY DEF BscInv
<1>2. /\ pc \in [Workers -> {"none", "lock", "wait", "take", "call", "cas", "skip", "lost", "done",
                         "resume", "count", "leave", "dec", "join", "ended"}]
      /\ job \in [Workers -> Jobs \cup {None}] /\ dying \in [Workers -> BOOLEAN]
      /\ joins \in [Workers -> Workers \cup {None}]
      /\ word \in [Jobs -> Jobs \cup {0, 1, 2}] /\ killer \in [Jobs -> {"off", "reset", "cancel"}]
      /\ batch \in [Jobs -> Batches \cup {None}] /\ target \in [Batches -> Workers \cup {None}]
      /\ resumed \in [Jobs -> 0..2]
      /\ toReap \in Workers \cup {None} /\ early \subseteq Jobs /\ ran \subseteq Jobs
      /\ None \notin Jobs \cup Workers /\ Jobs \cap {0, 1, 2} = {} /\ Killable \subseteq Jobs
  BY <1>1, BscAssumption DEF FunOK
<1>3. /\ \A v \in Workers : job[v] # None <=> pc[v] \in HoldPC
  BY <1>1 DEF HeldOK
<1> USE DEF HoldPC, Live, WaitSet, LockSet, Calling, Set, To, pool, thread, kill, past,
    faults
<1>10. CASE Lock(w)
  <2>1. pc[w] = "lock" /\ job[w] = None /\ UNCHANGED <<running, pending, minutes, failures>>
    BY <1>10, LockFacts
  <2>2. CASE queue = <<>>
    BY <1>2, <1>10, <2>1, <2>2, LockWaits
  <2>3. CASE queue # <<>>
    <3>1. Len(queue') = Len(queue) - 1 /\ UNCHANGED waiting
      BY <1>10, <2>3, LockTakes
    <3>2. \E h \in Jobs : job' = [job EXCEPT ![w] = h]
      BY <1>10, <2>3, LockTakes
    <3>3. pc' = [pc EXCEPT ![w] = "take"] \/ pc' = [pc EXCEPT ![w] = "call"]
      BY <1>10, <2>3, LockTakes
    <3>4. /\ job'[w] # None /\ pc'[w] \in {"take", "call"}
          /\ \A v \in Workers \ {w} : job'[v] = job[v] /\ pc'[v] = pc[v]
      BY <1>2, <3>2, <3>3
    <3>5. w \in LockSet /\ LockSet' = LockSet \ {w} /\ w \notin Calling /\ Calling' = Calling \cup {w}
      BY <2>1, <3>4
    <3>6. UNCHANGED <<Live, WaitSet>>
      BY <2>1, <3>4
    <3> QED BY <2>1, <3>1, <3>5, <3>6
  <2> QED BY <2>2, <2>3
<1>11. CASE Take(w)
  <2>1. UNCHANGED <<queue, waiting, running, pending, minutes, failures>>
    BY <1>11 DEF Take
  <2>2. UNCHANGED <<Live, WaitSet, LockSet, Calling>>
    BY <1>1, <1>2, <1>3, <1>11 DEF Take
  <2> QED BY <2>1, <2>2
<1>12. CASE Finish(w)
  <2>1. UNCHANGED <<queue, waiting, running, pending, minutes, failures>>
    BY <1>12 DEF Finish
  <2>2. UNCHANGED <<Live, WaitSet, LockSet, Calling>>
    BY <1>1, <1>2, <1>3, <1>12 DEF Finish
  <2> QED BY <2>1, <2>2
<1>13. CASE ExitSelf(w)
  <2>1. UNCHANGED <<queue, waiting, running, pending, minutes, failures>>
    BY <1>13 DEF ExitSelf
  <2>2. UNCHANGED <<Live, WaitSet, LockSet, Calling>>
    BY <1>1, <1>2, <1>3, <1>13 DEF ExitSelf
  <2> QED BY <2>1, <2>2
<1>14. CASE ResetWord(w)
  <2>1. UNCHANGED <<queue, waiting, running, pending, minutes, failures>>
    BY <1>14 DEF ResetWord
  <2>2. UNCHANGED <<Live, WaitSet, LockSet, Calling>>
    BY <1>1, <1>2, <1>3, <1>14 DEF ResetWord
  <2> QED BY <2>1, <2>2
<1>15. CASE Resume(w)
  <2>1. UNCHANGED <<queue, waiting, running, pending, minutes, failures>>
    BY <1>15 DEF Resume
  <2>2. UNCHANGED <<Live, WaitSet, LockSet, Calling>>
    BY <1>1, <1>2, <1>3, <1>15 DEF Resume
  <2> QED BY <2>1, <2>2
<1>16. CASE Uncount(w)
  <2>1. pc[w] = "count" /\ job[w] = None
    BY <1>2, <1>3, <1>16 DEF Uncount
  <2> QED BY <1>2, <1>16, <2>1 DEF Uncount
<1>17. CASE Leave(w)
  <2>1. UNCHANGED <<queue, waiting, running, pending, minutes, failures>>
    BY <1>17 DEF Leave
  <2>2. UNCHANGED <<Live, WaitSet, LockSet, Calling>>
    BY <1>1, <1>2, <1>3, <1>17 DEF Leave
  <2> QED BY <2>1, <2>2
<1>18. CASE Dec(w)
  <2>1. pc[w] = "dec" /\ job[w] = None /\ dying'[w] = TRUE
    BY <1>1, <1>2, <1>3, <1>18 DEF Dec, DyingOK, EndPC
  <2> QED BY <1>2, <1>18, <2>1 DEF Dec
<1>19. CASE Join(w)
  <2>1. UNCHANGED <<queue, waiting, running, pending, minutes, failures>>
    BY <1>19 DEF Join
  <2>2. UNCHANGED <<Live, WaitSet, LockSet, Calling>>
    BY <1>1, <1>2, <1>3, <1>19 DEF Join
  <2> QED BY <2>1, <2>2
<1>20. CASE Return(w)
  <2>1. UNCHANGED <<queue, waiting, running, pending, minutes, failures>>
    BY <1>20 DEF Return
  <2>2. UNCHANGED <<Live, WaitSet, LockSet, Calling>>
    BY <1>1, <1>2, <1>3, <1>20 DEF Return
  <2> QED BY <2>1, <2>2
<1>21. CASE Timeout(w)
  BY <1>2, <1>3, <1>21 DEF Timeout
<1> QED BY <1>10, <1>11, <1>12, <1>13, <1>14, <1>15, <1>16, <1>17, <1>18, <1>19, <1>20,
    <1>21 DEF WorkerAct, Step

\* What the step of a process does to them.
LEMMA CallSets ==
  ASSUME BscInv, NEW j \in Jobs, CallAct(j)
  PROVE  /\ UNCHANGED <<Calling, minutes>>
         /\ \/ UNCHANGED <<Live, WaitSet, LockSet, queue, waiting, running, pending, failures>>
            \/ /\ Len(queue') = Len(queue) + 1 /\ pending' = pending + 1
               /\ \/ \E w \in WaitSet :
                       /\ WaitSet' = WaitSet \ {w} /\ w \notin LockSet /\ LockSet' = LockSet \cup {w}
                       /\ waiting' = waiting - 1 /\ UNCHANGED <<Live, running, failures>>
                  \/ /\ WaitSet = {} /\ waiting > 0 /\ waiting' = waiting - 1
                     /\ UNCHANGED <<Live, WaitSet, LockSet, running, failures>>
                  \/ \E w \in Workers \ Live :
                       /\ Live' = Live \cup {w} /\ w \notin LockSet /\ LockSet' = LockSet \cup {w}
                       /\ running' = running + 1 /\ UNCHANGED <<WaitSet, waiting, failures>>
                  \/ /\ failures' = failures + 1
                     /\ UNCHANGED <<Live, WaitSet, LockSet, waiting, running>>
                  \/ /\ running >= Limit
                     /\ UNCHANGED <<Live, WaitSet, LockSet, waiting, running, failures>>
<1>1. FunOK /\ HeldOK
  BY DEF BscInv
<1>2. /\ pc \in [Workers -> {"none", "lock", "wait", "take", "call", "cas", "skip", "lost", "done",
                         "resume", "count", "leave", "dec", "join", "ended"}]
      /\ job \in [Workers -> Jobs \cup {None}] /\ dying \in [Workers -> BOOLEAN]
      /\ joins \in [Workers -> Workers \cup {None}]
      /\ word \in [Jobs -> Jobs \cup {0, 1, 2}] /\ killer \in [Jobs -> {"off", "reset", "cancel"}]
      /\ batch \in [Jobs -> Batches \cup {None}] /\ target \in [Batches -> Workers \cup {None}]
      /\ resumed \in [Jobs -> 0..2]
      /\ toReap \in Workers \cup {None} /\ early \subseteq Jobs /\ ran \subseteq Jobs
      /\ None \notin Jobs \cup Workers /\ Jobs \cap {0, 1, 2} = {} /\ Killable \subseteq Jobs
  BY <1>1, BscAssumption DEF FunOK
<1>3. /\ \A v \in Workers : job[v] # None <=> pc[v] \in HoldPC
  BY <1>1 DEF HeldOK
<1>4. CASE KillSwap(j) \/ KillReset(j)
  BY <1>4 DEF KillSwap, KillReset, pool, thread, past, faults, Live, WaitSet, LockSet,
     Calling
<1>5. CASE KillCancel(j)
  <2>1. UNCHANGED <<queue, waiting, running, pending, minutes, failures, job>>
    BY <1>5, KillCancelFacts DEF pool, faults
  <2>2. \/ pc' = pc
        \/ \E w \in Workers : /\ pc[w] \in {"call", "cas", "skip", "lost"}
                              /\ pc' = [pc EXCEPT ![w] = "done"]
    BY <1>5, KillCancelFacts DEF Region
  <2>3. UNCHANGED <<Live, WaitSet, LockSet, Calling>>
    BY <1>2, <2>1, <2>2 DEF Live, WaitSet, LockSet, Calling
  <2> QED BY <2>1, <2>3
<1>6. CASE Dispatch(j)
  <2>1. UNCHANGED <<job, minutes>> /\ Len(queue') = Len(queue) + 1 /\ pending' = pending + 1
    BY <1>6, DispatchFacts
  <2>2. ASSUME NEW w \in Workers, pc[w] \in {"wait", "none"}, pc' = [pc EXCEPT ![w] = "lock"]
        PROVE  /\ UNCHANGED Calling /\ w \notin LockSet /\ LockSet' = LockSet \cup {w}
               /\ pc[w] = "wait" => w \in WaitSet /\ WaitSet' = WaitSet \ {w} /\ UNCHANGED Live
               /\ pc[w] = "none" => w \notin Live /\ Live' = Live \cup {w} /\ UNCHANGED WaitSet
    BY <1>2, <1>3, <2>1, <2>2 DEF Live, WaitSet, LockSet, Calling, HoldPC
  <2>3. ASSUME pc' = pc PROVE UNCHANGED <<Live, WaitSet, LockSet, Calling>>
    BY <2>1, <2>3 DEF Live, WaitSet, LockSet, Calling
  <2>4. CASE /\ \E w \in Workers : pc[w] = "wait" /\ pc' = [pc EXCEPT ![w] = "lock"]
             /\ waiting > 0 /\ waiting' = waiting - 1 /\ UNCHANGED <<running, failures>>
    BY <2>1, <2>2, <2>4
  <2>5. CASE /\ WaitSet = {} /\ waiting > 0 /\ waiting' = waiting - 1
             /\ UNCHANGED <<pc, running, failures>>
    BY <2>1, <2>3, <2>5
  <2>6. CASE /\ \E w \in Workers : pc[w] = "none" /\ pc' = [pc EXCEPT ![w] = "lock"]
             /\ running < Limit /\ running' = running + 1 /\ UNCHANGED <<waiting, failures>>
    BY <2>1, <2>2, <2>6
  <2>7. CASE failures' = failures + 1 /\ UNCHANGED <<pc, waiting, running>>
    BY <2>1, <2>3, <2>7
  <2>8. CASE running >= Limit /\ UNCHANGED <<pc, waiting, running, failures>>
    BY <2>1, <2>3, <2>8
  <2> QED BY <1>6, <2>4, <2>5, <2>6, <2>7, <2>8, DispatchPool
<1> QED BY <1>4, <1>5, <1>6 DEF CallAct

\* The counters agree with the sets after every step.
LEMMA CountStep ==
  ASSUME BscInv, Next PROVE CountOK'
<1>1. /\ running = Cardinality(Live) /\ pending = Len(queue) + Cardinality(Calling)
      /\ Cardinality(WaitSet) <= waiting /\ waiting <= Cardinality(WaitSet) + minutes
      /\ Len(queue) \in Nat /\ waiting \in Nat /\ running \in Nat /\ pending \in Nat /\ minutes \in Nat
  BY BscAssumption DEF BscInv, CountOK, FunOK
<1>2. ASSUME NEW w \in Workers, WorkerAct(w) PROVE CountOK'
  <2>1. CASE UNCHANGED <<Live, WaitSet, LockSet, Calling, queue, waiting, running, pending, minutes>>
    BY <1>1, <2>1 DEF CountOK
  <2>2. CASE /\ Len(queue') = Len(queue) - 1 /\ w \notin Calling /\ Calling' = Calling \cup {w}
             /\ UNCHANGED <<Live, WaitSet, waiting, running, pending, minutes>>
    <3>1. Cardinality(Calling') = Cardinality(Calling) + 1 /\ Cardinality(Calling) \in Nat
      BY <2>2, SetFacts
    <3> QED BY <1>1, <2>2, <3>1 DEF CountOK
  <2>3. CASE /\ w \notin WaitSet /\ WaitSet' = WaitSet \cup {w} /\ waiting' = waiting + 1
             /\ UNCHANGED <<Live, Calling, queue, running, pending, minutes>>
    <3>1. Cardinality(WaitSet') = Cardinality(WaitSet) + 1 /\ Cardinality(WaitSet) \in Nat
      BY <2>3, SetFacts
    <3> QED BY <1>1, <2>3, <3>1 DEF CountOK
  <2>4. CASE /\ w \in WaitSet /\ WaitSet' = WaitSet \ {w} /\ minutes' = minutes + 1
             /\ UNCHANGED <<Live, Calling, queue, waiting, running, pending>>
    <3>1. Cardinality(WaitSet') = Cardinality(WaitSet) - 1 /\ Cardinality(WaitSet) \in Nat
      BY <2>4, SetFacts
    <3> QED BY <1>1, <2>4, <3>1 DEF CountOK
  <2>5. CASE /\ w \in Calling /\ Calling' = Calling \ {w} /\ pending' = pending - 1
             /\ UNCHANGED <<Live, WaitSet, queue, waiting, running, minutes>>
    <3>1. Cardinality(Calling') = Cardinality(Calling) - 1 /\ Cardinality(Calling) \in Nat
      BY <2>5, SetFacts
    <3> QED BY <1>1, <2>5, <3>1 DEF CountOK
  <2>6. CASE /\ w \in Live /\ Live' = Live \ {w} /\ running' = running - 1
             /\ UNCHANGED <<WaitSet, Calling, queue, waiting, pending, minutes>>
    <3>1. Cardinality(Live') = Cardinality(Live) - 1
      BY <2>6, SetFacts
    <3> QED BY <1>1, <2>6, <3>1 DEF CountOK
  <2> QED BY <1>2, <2>1, <2>2, <2>3, <2>4, <2>5, <2>6, WorkerSets
<1>3. ASSUME NEW j \in Jobs, CallAct(j) PROVE CountOK'
  <2>1. UNCHANGED <<Calling, minutes>>
    BY <1>3, CallSets
  <2>2. CASE UNCHANGED <<Live, WaitSet, LockSet, queue, waiting, running, pending, failures>>
    BY <1>1, <2>1, <2>2 DEF CountOK
  <2>3. CASE Len(queue') = Len(queue) + 1 /\ pending' = pending + 1
    <3>1. pending' = Len(queue') + Cardinality(Calling')
      BY <1>1, <2>1, <2>3, SetFacts
    <3>2. CASE \E w \in WaitSet : WaitSet' = WaitSet \ {w} /\ waiting' = waiting - 1 /\ UNCHANGED <<Live, running>>
      <4>1. Cardinality(WaitSet') = Cardinality(WaitSet) - 1 /\ Cardinality(WaitSet) \in Nat
        BY <3>2, SetFacts
      <4> QED BY <1>1, <2>1, <3>1, <3>2, <4>1 DEF CountOK
    <3>3. CASE WaitSet = {} /\ waiting > 0 /\ waiting' = waiting - 1 /\ UNCHANGED <<Live, WaitSet, running>>
      <4>1. Cardinality(WaitSet) = 0
        BY <3>3, FS_EmptySet
      <4> QED BY <1>1, <2>1, <3>1, <3>3, <4>1 DEF CountOK
    <3>4. CASE \E w \in Workers \ Live : Live' = Live \cup {w} /\ running' = running + 1 /\ UNCHANGED <<WaitSet, waiting>>
      <4>1. Cardinality(Live') = Cardinality(Live) + 1
        BY <3>4, SetFacts
      <4> QED BY <1>1, <2>1, <3>1, <3>4, <4>1 DEF CountOK
    <3>5. CASE UNCHANGED <<Live, WaitSet, waiting, running>>
      BY <1>1, <2>1, <3>1, <3>5 DEF CountOK
    <3> QED BY <1>3, <2>3, <3>2, <3>3, <3>4, <3>5, CallSets
  <2> QED BY <1>3, <2>2, <2>3, CallSets
<1> QED BY <1>2, <1>3 DEF Next, WorkerAct, CallAct

\* Once a thread has been killed there is always one that was.
LEMMA StillDying ==
  ASSUME BscInv, Next, NEW v \in Workers, dying[v] PROVE \E u \in Workers : dying'[u]
<1>1. FunOK /\ DyingOK
  BY DEF BscInv
<1>2. dying \in [Workers -> BOOLEAN]
  BY <1>1 DEF FunOK
<1>3. ASSUME NEW w \in Workers, WorkerAct(w) PROVE \E u \in Workers : dying'[u]
  <2>1. CASE Join(w)
    <3>1. dying[w] /\ joins[w] # w
      BY <1>1, <2>1 DEF Join, DyingOK, EndPC
    <3> QED BY <1>2, <2>1, <3>1 DEF Join
  <2>2. CASE ExitSelf(w)
    BY <1>2, <2>2 DEF ExitSelf, Set
  <2>3. CASE ~Join(w) /\ ~ExitSelf(w)
    <3>1. UNCHANGED dying
      BY <1>3, <2>3 DEF WorkerAct, Step, Lock, Take, Finish, ResetWord, Resume, Uncount,
         Leave, Dec,
           Return, Timeout
    <3> QED BY <3>1
  <2> QED BY <2>1, <2>2, <2>3
<1>4. ASSUME NEW j \in Jobs, CallAct(j) PROVE \E u \in Workers : dying'[u]
  <2>1. CASE KillCancel(j)
    <3>1. UNCHANGED dying \/ (Aim(j) \in Workers /\ dying' = [dying EXCEPT ![Aim(j)] = TRUE])
      BY <2>1, KillCancelFacts
    <3> QED BY <1>2, <3>1
  <2>2. CASE Dispatch(j) \/ KillSwap(j) \/ KillReset(j)
    <3>1. UNCHANGED dying
      BY <2>2 DEF Dispatch, KillSwap, KillReset, thread
    <3> QED BY <3>1
  <2> QED BY <1>4, <2>1, <2>2 DEF CallAct
<1> QED BY <1>3, <1>4 DEF Next, WorkerAct, CallAct

\* A queued call is covered as long as no wait ran out, no creation failed and
\* no thread was killed.
LEMMA CoverStep ==
  ASSUME BscInv, Next PROVE CoveredAtFirst'
<1> SUFFICES ASSUME minutes' = 0, failures' = 0, \A u \in Workers : ~dying'[u]
             PROVE  Len(queue') <= Cardinality(LockSet') \/ running' >= Limit
  BY DEF CoveredAtFirst, Covered, Count, LockSet, Limit
<1>1. /\ Len(queue) \in Nat /\ running \in Nat /\ minutes \in Nat /\ failures \in Nat /\ Limit \in Nat
      /\ waiting \in Nat /\ waiting <= Cardinality(WaitSet) + minutes
  BY BscAssumption DEF BscInv, CountOK, FunOK, Limit
<1>2. \A u \in Workers : ~dying[u]
  BY StillDying
<1>3. minutes = 0 /\ failures = 0 => Len(queue) <= Cardinality(LockSet) \/ running >= Limit
  BY <1>2 DEF BscInv, CoveredAtFirst, Covered, Count, LockSet
<1>4. Cardinality(LockSet) \in Nat /\ IsFiniteSet(LockSet)
  BY SetFacts
<1>5. ASSUME NEW w \in Workers, WorkerAct(w)
      PROVE  Len(queue') <= Cardinality(LockSet') \/ running' >= Limit
  <2>1. failures = 0
    BY <1>5, WorkerSets
  <2>2. CASE UNCHANGED <<LockSet, queue, running, minutes>>
    BY <1>3, <2>1, <2>2
  <2>3. CASE /\ Len(queue') = Len(queue) - 1 /\ w \in LockSet /\ LockSet' = LockSet \ {w}
             /\ UNCHANGED <<running, minutes>>
    <3>1. Cardinality(LockSet') = Cardinality(LockSet) - 1
      BY <2>3, SetFacts
    <3> QED BY <1>1, <1>3, <1>4, <2>1, <2>3, <3>1
  <2>4. CASE Len(queue) = 0 /\ w \in LockSet /\ LockSet' = LockSet \ {w} /\ UNCHANGED queue
    <3>1. Cardinality(LockSet') = Cardinality(LockSet) - 1 /\ Cardinality(LockSet) >= 1
      BY <2>4, SetFacts
    <3> QED BY <1>4, <2>4, <3>1
  <2>5. CASE minutes' = minutes + 1
    BY <1>1, <2>5
  <2>6. CASE w \notin LockSet /\ LockSet' = LockSet \cup {w} /\ UNCHANGED <<queue, running, minutes>>
    <3>1. Cardinality(LockSet') = Cardinality(LockSet) + 1
      BY <2>6, SetFacts
    <3> QED BY <1>1, <1>3, <1>4, <2>1, <2>6, <3>1
  <2> QED BY <1>5, <2>2, <2>3, <2>4, <2>5, <2>6, WorkerSets
<1>6. ASSUME NEW j \in Jobs, CallAct(j)
      PROVE  Len(queue') <= Cardinality(LockSet') \/ running' >= Limit
  <2>1. minutes = 0
    BY <1>6, CallSets
  <2>2. CASE UNCHANGED <<LockSet, queue, running, failures>>
    BY <1>3, <2>1, <2>2
  <2>3. CASE Len(queue') = Len(queue) + 1 /\ pending' = pending + 1
    <3>1. ASSUME NEW w, w \notin LockSet, LockSet' = LockSet \cup {w}, UNCHANGED failures,
                 running' = running \/ running' = running + 1
          PROVE  Len(queue') <= Cardinality(LockSet') \/ running' >= Limit
      <4>1. Cardinality(LockSet') = Cardinality(LockSet) + 1
        BY <3>1, SetFacts
      <4> QED BY <1>1, <1>3, <1>4, <2>1, <2>3, <3>1, <4>1
    <3>2. CASE WaitSet = {} /\ waiting > 0
      <4>1. Cardinality(WaitSet) = 0
        BY <3>2, FS_EmptySet
      <4> QED BY <1>1, <2>1, <3>2, <4>1
    <3>3. CASE failures' = failures + 1
      BY <1>1, <3>3
    <3>4. CASE running >= Limit /\ UNCHANGED running
      BY <3>4
    <3> QED BY <1>6, <2>3, <3>1, <3>2, <3>3, <3>4, CallSets
  <2> QED BY <1>6, <2>2, <2>3, CallSets
<1> QED BY <1>5, <1>6 DEF Next, WorkerAct, CallAct

-----------------------------------------------------------------------------
(* The invariant, and what follows from it.                                *)

\* The invariant holds at the start: no thread, no call.
LEMMA InitBsc == Init => BscInv
<1> SUFFICES ASSUME Init PROVE BscInv
  OBVIOUS
<1> USE DEF Init
<1>1. /\ \A w \in Workers : pc[w] = "none" /\ job[w] = None /\ joins[w] = None /\ dying[w] = FALSE
      /\ \A j \in Jobs : word[j] = 0 /\ killer[j] = "off" /\ resumed[j] = 1
  OBVIOUS
<1>2. Len(queue) = 0 /\ ToSet(queue) = {} /\ queue \in Seq(Jobs)
  BY DEF ToSet
<1>3. FunOK
  <2>1. 0 \in 0..MaxKills /\ 0 \in 0..MaxFaults /\ 1 \in 0..2 /\ 0 <= Limit
    BY BscAssumption DEF Limit
  <2> QED BY <1>2, <2>1 DEF FunOK
<1>4. QueueOK /\ HeldOK /\ CalledOK
  <2>1. Distinct(queue)
    BY <1>2 DEF Distinct
  <2>2. \A j \in Jobs : j # None
    BY BscAssumption
  <2> QED BY <1>1, <1>2, <2>1, <2>2 DEF QueueOK, HeldOK, CalledOK, HoldPC
<1>5. DyingOK /\ ReapOK
  BY <1>1 DEF DyingOK, ReapOK, EndPC
<1>6. ASSUME NEW j \in Jobs PROVE KillOK(j) /\ BatchOK(j) /\ AimOK(j)
  <2>1. j # 0
    BY BscAssumption
  <2>2. ~NotStarted(j)
    BY <1>1, <1>2 DEF NotStarted
  <2> QED BY <1>1, <2>1, <2>2 DEF KillOK, BatchOK, AimOK
<1>7. CountOK
  <2>1. Live = {} /\ WaitSet = {} /\ Calling = {}
    BY <1>1 DEF Live, WaitSet, Calling
  <2> QED BY <1>2, <2>1, FS_EmptySet DEF CountOK
<1>8. CoveredAtFirst
  <2>1. Cardinality(LockSet) \in Nat
    BY SetFacts
  <2> QED BY <1>2, <2>1 DEF CoveredAtFirst, Covered, Count, LockSet
<1> QED BY <1>3, <1>4, <1>5, <1>6, <1>7, <1>8 DEF BscInv

\* Every step, and stuttering, keeps the invariant.
LEMMA BscStep ==
  ASSUME BscInv, [Next /\ Prompt]_vars PROVE BscInv'
<1>1. CASE Next /\ Prompt
  BY <1>1, FunStep, PlaceStep, DyingStep, KillStep, BatchStep, AimStep, ReapStep, CountStep,
     CoverStep DEF BscInv
<1>2. CASE UNCHANGED vars
  <2>1. /\ UNCHANGED <<queue, waiting, running, toReap, pending, pc, job, dying, joins, word>>
        /\ UNCHANGED <<killer, batch, target, kills, early, ran, resumed, minutes, failures>>
    BY <1>2 DEF vars, pool, thread, kill, past, faults
  <2>2. FunOK' /\ QueueOK' /\ HeldOK' /\ CalledOK' /\ DyingOK' /\ ReapOK'
    BY <2>1 DEF BscInv, FunOK, QueueOK, HeldOK, CalledOK, DyingOK, ReapOK
  <2>3. ASSUME NEW k \in Jobs PROVE KillOK(k)' /\ BatchOK(k)' /\ AimOK(k)'
    <3>1. KillOK(k)'
      BY <2>1, KillFrame
    <3>2. BatchOK(k)'
      BY <2>1 DEF BscInv, BatchOK
    <3>3. AimOK(k)'
      BY <2>1 DEF BscInv, AimOK, Aim, InRegion
    <3> QED BY <3>1, <3>2, <3>3
  <2>4. CountOK'
    BY <2>1 DEF BscInv, CountOK, Live, WaitSet, Calling
  <2>5. CoveredAtFirst'
    BY <2>1 DEF BscInv, CoveredAtFirst, Covered, Count
  <2> QED BY <2>2, <2>3, <2>4, <2>5 DEF BscInv
<1> QED BY <1>1, <1>2

\* The invariant holds throughout, for any processes, threads, batches and
\* limits, if kills are prompt.
THEOREM BscInvariant == PromptSpec => []BscInv
<1>1. Init => BscInv
  BY InitBsc
<1>2. BscInv /\ [Next /\ Prompt]_vars => BscInv'
  BY BscStep
<1> QED BY <1>1, <1>2, PTL DEF PromptSpec

\* If kills are prompt, the pool's counters stay within their bounds: pending
\* calls, threads that wait and threads that exist (at most MAX_BSC_THREADS, or
\* one).
THEOREM BscTypes == PromptSpec => []TypeOK
<1>1. ASSUME BscInv PROVE TypeOK
  <2>1. FunOK /\ QueueOK /\ CountOK
    BY <1>1 DEF BscInv
  <2>2. /\ IsFiniteSet(Workers) /\ IsFiniteSet(Jobs) /\ MaxFaults \in Nat
        /\ Cardinality(Workers) \in Nat /\ Cardinality(Jobs) \in Nat
    BY BscAssumption, FS_CardinalityType
  <2>3. Cardinality(WaitSet) <= Cardinality(Workers) /\ Cardinality(Calling) <= Cardinality(Workers)
    <3>1. WaitSet \in SUBSET Workers /\ Calling \in SUBSET Workers
      BY DEF WaitSet, Calling
    <3> QED BY <2>2, <3>1, FS_Subset
  <2>4. Len(queue) <= Cardinality(Jobs) /\ Len(queue) \in Nat
    <3>1. queue \in [1..Len(queue) -> Jobs] /\ Len(queue) \in Nat
      BY <2>1 DEF FunOK
    <3>2. IsFiniteSet(1..Len(queue)) /\ Cardinality(1..Len(queue)) = Len(queue)
      <4>1. /\ IsFiniteSet(1..Len(queue))
            /\ Cardinality(1..Len(queue)) = IF 1 > Len(queue) THEN 0 ELSE Len(queue) - 1 + 1
        BY <3>1, FS_Interval
      <4> QED BY <3>1, <4>1
    <3>3. \A a, b \in 1..Len(queue) : queue[a] = queue[b] => a = b
      BY <2>1 DEF QueueOK, Distinct
    <3>4. ~(Cardinality(Jobs) < Cardinality(1..Len(queue)))
      <4>1. SUFFICES ASSUME Cardinality(Jobs) < Cardinality(1..Len(queue)) PROVE FALSE
        OBVIOUS
      <4>2. \E x, y \in 1..Len(queue) : x # y /\ queue[x] = queue[y]
        BY <2>2, <3>1, <3>2, <4>1, FS_PigeonHole
      <4> QED BY <3>3, <4>2
    <3> QED BY <2>2, <3>1, <3>2, <3>4
  <2>8. /\ Cardinality(WaitSet) \in Nat /\ Cardinality(Calling) \in Nat
        /\ waiting \in Nat /\ waiting <= Cardinality(WaitSet) + minutes /\ minutes \in 0..MaxFaults
        /\ pending = Len(queue) + Cardinality(Calling)
    BY <2>1, SetFacts DEF FunOK, CountOK
  <2>5. waiting \in 0 .. Cardinality(Workers) + MaxFaults
    BY ONLY <2>2, <2>3, <2>8
  <2>6. pending \in 0 .. Cardinality(Jobs) + Cardinality(Workers)
    BY ONLY <2>2, <2>3, <2>4, <2>8
  <2>7. running \in 0..Limit
    BY <2>1, BscAssumption DEF FunOK, Limit
  <2> QED BY <2>1, <2>5, <2>6, <2>7 DEF TypeOK, FunOK
<1> QED BY <1>1, BscInvariant, PTL

\* If kills are prompt, with any number of killable calls that share any number
\* of batches, each call dispatched is held in one place and ends once, however
\* it ends, and bsyscalls_pending is exact throughout.  In particular no
\* cancellation hits a thread that executes another call.
THEOREM BscCallsEndOnce == PromptSpec => []CallOnce
<1>1. ASSUME BscInv PROVE CallOnce
  <2>1. FunOK /\ QueueOK /\ HeldOK /\ CalledOK /\ CountOK
    BY <1>1 DEF BscInv
  <2>2. PendingExact
    BY <2>1 DEF CountOK, PendingExact, Count, Calling
  <2>3. ASSUME NEW j \in Jobs PROVE resumed[j] <= 1 /\ Places(j) = 1 - resumed[j]
    <3> DEFINE Q == {a \in DOMAIN queue : queue[a] = j}
    <3> DEFINE H == {w \in Workers : job[w] = j}
    <3>1. j # None /\ DOMAIN queue = 1..Len(queue)
      BY <2>1, BscAssumption DEF FunOK
    <3>2. /\ resumed[j] \in {0, 1}
          /\ resumed[j] = 0 <=> j \in ToSet(queue) \/ \E w \in Workers : job[w] = j
      BY <2>1 DEF CalledOK
    <3>3. j \in ToSet(queue) <=> Q # {}
      BY DEF ToSet
    <3>4. H # {} <=> \E w \in Workers : job[w] = j
      OBVIOUS
    <3>5. \A a, b \in Q : a = b
      BY <2>1, <3>1 DEF QueueOK, Distinct
    <3>6. \A v, w \in H : v = w
      BY <2>1, <3>1 DEF HeldOK
    <3>7. Q = {} \/ H = {}
      BY <2>1, <3>3 DEF QueueOK
    <3>8. /\ Cardinality(Q) = IF Q = {} THEN 0 ELSE 1
          /\ Cardinality(H) = IF H = {} THEN 0 ELSE 1
      <4>1. ASSUME NEW S, \A x, y \in S : x = y PROVE Cardinality(S) = IF S = {} THEN 0 ELSE 1
        <5>1. CASE S = {}
          BY <5>1, FS_EmptySet
        <5>2. CASE S # {}
          <6>1. PICK x : S = {x}
            BY <4>1, <5>2
          <6> QED BY <6>1, FS_Singleton
        <5> QED BY <5>1, <5>2
      <4> HIDE DEF Q, H
      <4> QED BY <3>5, <3>6, <4>1
    <3>9. Places(j) = Cardinality(Q) + Cardinality(H)
      BY DEF Places, Count
    <3> HIDE DEF Q, H
    <3> QED BY <3>2, <3>3, <3>4, <3>7, <3>8, <3>9
  <2>4. ResumedOnce
    BY <2>3 DEF ResumedOnce
  <2> QED BY <2>2, <2>4 DEF CallOnce
<1> QED BY <1>1, BscInvariant, PTL

\* If a kill is prompt, whenever it comes: a call killed before its thread looked
\* at the word is never made, and the thread that the kill will find through the
\* batch is in the cancellable region of the call killed, or exits, or has ended.
\* That the thread waits for its cancellation (it is on its way to pthread_exit)
\* is what the protocol of the word achieves; that the batch still names it is
\* the hypothesis.
THEOREM BscKills == PromptSpec => []KillSound
<1>1. ASSUME BscInv PROVE KillSound
  <2>1. early \subseteq Jobs /\ \A j \in Jobs : KillOK(j) /\ AimOK(j)
    BY <1>1 DEF BscInv, FunOK
  <2>2. KilledNotRun
    BY <2>1 DEF KillOK, KilledNotRun
  <2>3. CancelsOwn
    BY <2>1 DEF AimOK, Aim, CancelsOwn
  <2> QED BY <2>2, <2>3 DEF KillSound
<1> QED BY <1>1, BscInvariant, PTL

\* If kills are prompt, the pool's count of threads is exact, and a thread that
\* ends is joined once, through to_reap or by the thread that ends after it.
THEOREM BscReaps == PromptSpec => []ReapedOnce
<1>1. ASSUME BscInv PROVE ReapedOnce
  <2>1. FunOK /\ ReapOK /\ CountOK
    BY <1>1 DEF BscInv
  <2>2. running = Count(Live)
    BY <2>1 DEF CountOK, Count
  <2>3. ASSUME NEW w \in Workers
        PROVE  Count({x \in Workers : joins[x] = w}) + (IF toReap = w THEN 1 ELSE 0)
                 = IF pc[w] \in {"dec", "join", "ended"} THEN 1 ELSE 0
    <3> DEFINE J == {x \in Workers : joins[x] = w}
    <3>1. w # None
      BY BscAssumption
    <3>2. \A x, y \in J : x = y
      BY <2>1, <3>1 DEF ReapOK
    <3>3. CASE J = {}
      <4>1. Cardinality(J) = 0
        BY <3>3, FS_EmptySet
      <4>2. pc[w] \in EndPC <=> toReap = w
        BY <2>1, <3>1, <3>3 DEF ReapOK
      <4> QED BY <4>1, <4>2 DEF Count, EndPC
    <3>4. CASE J # {}
      <4>1. PICK x : J = {x}
        BY <3>2, <3>4
      <4>2. Cardinality(J) = 1
        BY <4>1, FS_Singleton
      <4>3. pc[w] \in EndPC /\ toReap # w
        BY <2>1, <3>1, <4>1 DEF ReapOK
      <4> QED BY <4>2, <4>3 DEF Count, EndPC
    <3> QED BY <3>3, <3>4
  <2> QED BY <2>2, <2>3 DEF ReapedOnce
<1> QED BY <1>1, BscInvariant, PTL

\* If kills are prompt: until a timed wait has run out, a creation has failed or
\* a thread has been killed, each queued call has a thread on its way or all threads are busy.
THEOREM BscCovers == PromptSpec => []CoveredAtFirst
<1>1. BscInv => CoveredAtFirst
  BY DEF BscInv
<1> QED BY <1>1, BscInvariant, PTL
=============================================================================
