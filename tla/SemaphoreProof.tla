--------------------------- MODULE SemaphoreProof ---------------------------
(***************************************************************************)
(* Proofs about Semaphore, for any sets of processes and threads.          *)
(*                                                                         *)
(* MutualExclusion is almost inductive by itself: bit 0 of bptr, the       *)
(* holders and the dequeuing threads hand one token to one another, and    *)
(* every step that takes the token from bptr does so with an atomic        *)
(* operation that saw the bit set.  What has to be added is which locals   *)
(* are meaningful at which label (LocalsOK).                               *)
(*                                                                         *)
(* The rest needs the shape of the half-made queue (QInv): bptr, fptr and  *)
(* the Link words are those of the queue's order but for the writes that   *)
(* some thread has still to make, and what a thread has read of them is    *)
(* still so while it has the lock.  From it follow that nothing is lost    *)
(* (NothingLost) and that the semaphore implements FifoMutex.              *)
(***************************************************************************)
EXTENDS Semaphore, TLAPS

\* The labels at which the thread executes on behalf of a process.
ForProcess == {"run", "c_fast", "c_read", "c_cas", "c_link", "r_cas"}

\* The labels at which sem_dequeue's fptr is a process.
HasFirst == {"d_bptr", "d_link", "d_next", "d_clear", "d_cas", "d_restore", "enq"}

LocalsOK ==
  \A t \in Threads : /\ pc[t] \in ForProcess => wptr[t] \in Procs
                     /\ pc[t] \in HasFirst => dq[t] \in Procs
                     /\ pc[t] = "c_fast" => val[t].free

IInv == TypeOK /\ LocalsOK /\ MutualExclusion

-----------------------------------------------------------------------------
\* All that the proofs use of the words kept in bptr: Word, Bare and Tagged stay
\* folded below.
LEMMA WordFacts ==
  /\ \A p \in Ptr : Bare(p) \in Word /\ Bare(p).ptr = p /\ Bare(p).free = FALSE
  /\ \A p \in Ptr : Tagged(p) \in Word /\ Tagged(p).ptr = p /\ Tagged(p).free = TRUE
  /\ \A w \in Word : w.ptr \in Ptr /\ w.free \in BOOLEAN
  BY DEF Word, Bare, Tagged

LEMMA InitEstablishes == Init => IInv
  BY SemAssumption, WordFacts
  DEF Init, IInv, TypeOK, LocalsOK, MutualExclusion, Ptr, PC,
      ClaimPC, DequeuePC, HasLock, Holders, NoVal, ForProcess, HasFirst

LEMMA TypeStep == TypeOK /\ LocalsOK /\ [Next]_vars => TypeOK' /\ LocalsOK'
<1> SUFFICES ASSUME TypeOK, LocalsOK, [Next]_vars PROVE TypeOK' /\ LocalsOK'
  OBVIOUS
<1> USE SemAssumption, WordFacts
    DEF TypeOK, LocalsOK, Ptr, PC, ClaimPC, DequeuePC, ForProcess, HasFirst,
        Goto, Continue, NoVal, ForgetVal, ForgetDq, semVars
<1>1. CASE UNCHANGED vars
  BY <1>1 DEF vars, locals
<1>2. CASE Next
  <2> PICK t \in Threads : \/ KernelStep(t) \/ UserStep(t)
                           \/ \E p \in Procs : Schedule(t, p)
    BY <1>2 DEF Next
  <2>1. CASE ClaimFast(t) BY <2>1 DEF ClaimFast
  <2>2. CASE ClaimRead(t)   BY <2>2 DEF ClaimRead
  <2>3. CASE ClaimPublish(t)
    <3>1. CASE bptr = val[t]
      <4>1. /\ pc[t] = "c_cas"
            /\ bptr' = Bare(wptr[t])
            /\ pst' = [pst EXCEPT ![wptr[t]] = "wait"]
            /\ pc' = [pc EXCEPT ![t] = "c_link"]
            /\ UNCHANGED <<fptr, link, ready, wptr, val, dq, dl>>
        BY <2>3, <3>1, Zenon DEF ClaimPublish
      <4> QED BY <4>1
    <3>2. CASE bptr # val[t]
      BY <2>3, <3>2 DEF ClaimPublish
    <3> QED BY <3>1, <3>2
  <2>4. CASE ClaimLink(t)   BY <2>4 DEF ClaimLink
  <2>5. CASE ClaimBit(t)    BY <2>5 DEF ClaimBit
  <2>6. CASE DequeueLoad(t) BY <2>6 DEF DequeueLoad
  <2>7. CASE DequeueBptr(t) BY <2>7 DEF DequeueBptr
  <2>8. CASE DequeueLink(t) BY <2>8 DEF DequeueLink
  <2>9. CASE DequeueNext(t) BY <2>9 DEF DequeueNext, Granted
  <2>10. CASE DequeueClear(t) BY <2>10 DEF DequeueClear
  <2>11. CASE DequeueCas(t)
    <3>1. CASE bptr = Bare(dq[t])
      <4>1. /\ pc[t] = "d_cas"
            /\ bptr' = Bare(NotProcess)
            /\ pst' = [pst EXCEPT ![dq[t]] = "in"]
            /\ pc' = [pc EXCEPT ![t] = "enq"]
            /\ UNCHANGED <<fptr, link, ready, wptr, val, dq, dl>>
        BY <2>11, <3>1, Zenon DEF DequeueCas, Granted
      <4> QED BY <4>1
    <3>2. CASE bptr # Bare(dq[t])
      BY <2>11, <3>2 DEF DequeueCas, Granted
    <3> QED BY <3>1, <3>2
  <2>12. CASE DequeueRestore(t) BY <2>12 DEF DequeueRestore
  <2>13. CASE DequeueSet(t) BY <2>13 DEF DequeueSet
  <2>14. CASE DequeueTest(t) BY <2>14 DEF DequeueTest
  <2>15. CASE DequeueRegain(t) BY <2>15 DEF DequeueRegain
  <2>16. CASE EnqueueGranted(t) BY <2>16 DEF EnqueueGranted
  <2>17. CASE ReleaseCas(t) BY <2>17 DEF ReleaseCas
  <2>18. CASE Claim(t) BY <2>18 DEF Claim
  <2>19. CASE Release(t) BY <2>19 DEF Release
  <2>20. CASE Pause(t) BY <2>20 DEF Pause
  <2>21. CASE \E p \in Procs : Schedule(t, p) BY <2>21 DEF Schedule
  <2> QED
    BY <2>1, <2>2, <2>3, <2>4, <2>5, <2>6, <2>7, <2>8, <2>9, <2>10, <2>11, <2>12,
       <2>13, <2>14, <2>15, <2>16, <2>17, <2>18, <2>19, <2>20, <2>21
    DEF KernelStep, ClaimStep, DequeueStep, UserStep
<1> QED BY <1>1, <1>2

\* One step hands the token on; it is never copied.
LEMMA LockStep == IInv /\ [Next]_vars => MutualExclusion'
<1> SUFFICES ASSUME IInv, [Next]_vars PROVE MutualExclusion'
  OBVIOUS
<1> USE SemAssumption, WordFacts
    DEF IInv, TypeOK, LocalsOK, MutualExclusion, Ptr, HasLock, Holders,
        DequeuePC, ForProcess, HasFirst, Goto, Continue, NoVal, ForgetVal,
        ForgetDq, semVars
<1>1. CASE UNCHANGED vars
  BY <1>1 DEF vars, locals
<1>2. CASE Next
  <2> PICK t \in Threads : \/ KernelStep(t) \/ UserStep(t)
                           \/ \E p \in Procs : Schedule(t, p)
    BY <1>2 DEF Next
  <2>1. CASE ClaimFast(t) BY <2>1 DEF ClaimFast
  <2>2. CASE ClaimRead(t) BY <2>2 DEF ClaimRead
  <2>3. CASE ClaimPublish(t)
    <3>1. CASE bptr = val[t]
      <4>1. /\ pc[t] = "c_cas"
            /\ bptr' = Bare(wptr[t])
            /\ pst' = [pst EXCEPT ![wptr[t]] = "wait"]
            /\ pc' = [pc EXCEPT ![t] = "c_link"]
            /\ UNCHANGED val
        BY <2>3, <3>1, Zenon DEF ClaimPublish
      <4>2. HasLock(t)' => bptr.free
        BY <3>1, <4>1
      <4>3. \A u \in Threads \ {t} : HasLock(u)' <=> HasLock(u)
        BY <4>1
      <4>4. Holders' \subseteq Holders
        BY <4>1
      <4> QED BY <3>1, <4>1, <4>2, <4>3, <4>4
    <3>2. CASE bptr # val[t]
      BY <2>3, <3>2 DEF ClaimPublish
    <3> QED BY <3>1, <3>2
  <2>4. CASE ClaimLink(t) BY <2>4 DEF ClaimLink
  <2>5. CASE ClaimBit(t) BY <2>5 DEF ClaimBit
  <2>6. CASE DequeueLoad(t) BY <2>6 DEF DequeueLoad
  <2>7. CASE DequeueBptr(t) BY <2>7 DEF DequeueBptr
  <2>8. CASE DequeueLink(t) BY <2>8 DEF DequeueLink
  <2>9. CASE DequeueNext(t) BY <2>9 DEF DequeueNext, Granted
  <2>10. CASE DequeueClear(t) BY <2>10 DEF DequeueClear
  <2>11. CASE DequeueCas(t) BY <2>11 DEF DequeueCas, Granted
  <2>12. CASE DequeueRestore(t) BY <2>12 DEF DequeueRestore
  <2>13. CASE DequeueSet(t) BY <2>13 DEF DequeueSet
  <2>14. CASE DequeueTest(t) BY <2>14 DEF DequeueTest
  <2>15. CASE DequeueRegain(t) BY <2>15 DEF DequeueRegain
  <2>16. CASE EnqueueGranted(t) BY <2>16 DEF EnqueueGranted
  <2>17. CASE ReleaseCas(t) BY <2>17 DEF ReleaseCas
  <2>18. CASE Claim(t) BY <2>18 DEF Claim
  <2>19. CASE Release(t) BY <2>19 DEF Release
  <2>20. CASE Pause(t) BY <2>20 DEF Pause
  <2>21. CASE \E p \in Procs : Schedule(t, p) BY <2>21 DEF Schedule
  <2> QED
    BY <2>1, <2>2, <2>3, <2>4, <2>5, <2>6, <2>7, <2>8, <2>9, <2>10, <2>11, <2>12,
       <2>13, <2>14, <2>15, <2>16, <2>17, <2>18, <2>19, <2>20, <2>21
    DEF KernelStep, ClaimStep, DequeueStep, UserStep
<1> QED BY <1>1, <1>2

-----------------------------------------------------------------------------
LEMMA Invariance == Spec => []IInv
<1>1. IInv /\ [Next]_vars => IInv'
  BY TypeStep, LockStep DEF IInv
<1> QED BY InitEstablishes, <1>1, PTL DEF Spec

\* Every value kept in the semaphore's words, in the chain of workspaces and
\* in the locals of sem_claim and sem_dequeue has its type, for any number of
\* processes and threads.
THEOREM TypeCorrect == Spec => []TypeOK
  BY Invariance, PTL DEF IInv

\* sem_claim and sem_release give mutual exclusion, for any number of
\* processes and threads.
THEOREM Exclusion == Spec => []MutualExclusion
  BY Invariance, PTL DEF IInv

-----------------------------------------------------------------------------
(* The queue.  bptr, fptr and the chain of Link words are determined by    *)
(* the processes that wait (order) and by what the threads inside          *)
(* sem_claim and sem_dequeue have still to write.                          *)

\* Thread t has published p behind q and has still to write the link.
Linker(t, q, p) == pc[t] = "c_link" /\ val[t].ptr = q /\ wptr[t] = p
Linking(q, p)   == \E t \in Threads : Linker(t, q, p)

\* The processes that wait are those of the queue, each once.
OrderOK ==
  /\ order \in Seq(Procs)
  /\ \A j, k \in 1..Len(order) : order[j] = order[k] => j = k
  /\ \A p \in Procs : pst[p] = "wait" <=> \E k \in 1..Len(order) : order[k] = p

\* bptr is the last of them, fptr the first and Link chains them, but for what
\* the enqueuers and a dequeuer have still to write.
ChainOK ==
  /\ bptr.ptr = IF order = << >> THEN NotProcess ELSE order[Len(order)]
  /\ \A k \in 1..Len(order) :
       link[order[k]] = IF k = Len(order) \/ Linking(order[k], order[k+1])
                          THEN NotProcess ELSE order[k+1]
  /\ fptr = IF \/ order = << >> \/ Linking(NotProcess, order[1])
               \/ \E t \in Threads : pc[t] \in {"d_cas", "d_restore"}
              THEN NotProcess ELSE order[1]

\* What thread t has read of the queue, or has still to write, at each label.
ThreadOK(t) ==
  /\ pc[t] = "c_link" => \E k \in 1..Len(order) :
       wptr[t] = order[k] /\ val[t].ptr = IF k = 1 THEN NotProcess ELSE order[k-1]
  /\ pc[t] \in HasFirst \ {"enq"} =>
       order # << >> /\ dq[t] = order[1] /\ ~Linking(NotProcess, order[1])
  /\ pc[t] = "d_link" => Len(order) > 1
  /\ pc[t] = "d_next" => Len(order) > 1 /\ dl[t] = order[2] /\ ~Linking(order[1], order[2])
  /\ pc[t] = "d_set" => \/ dq[t] = NotProcess
                        \/ Len(order) > 1 /\ dq[t] = order[1]
  /\ pc[t] = "c_fast" => val[t] = Tagged(NotProcess)
  /\ pc[t] = "c_cas" => link[wptr[t]] = NotProcess
  /\ pc[t] \in ClaimPC => pst[wptr[t]] = "out"
  /\ pc[t] \in {"sched", "c_bit"} => wptr[t] = NotProcess

\* A process is run by a thread, on a run queue, granted or queued.
PlaceOK ==
  /\ \A t, u \in Threads : wptr[t] = wptr[u] /\ wptr[t] # NotProcess => t = u
  /\ \A t \in Threads : wptr[t] # NotProcess =>
       wptr[t] \notin ready /\ (pst[wptr[t]] = "wait" <=> pc[t] = "c_link")
  /\ \A t \in Threads : pc[t] = "enq" =>
       /\ dq[t] \notin ready /\ pst[dq[t]] # "wait"
       /\ \A u \in Threads : wptr[u] # dq[t] /\ (u # t /\ pc[u] = "enq" => dq[u] # dq[t])
  /\ \A p \in ready : pst[p] # "wait"

\* Thread t will try to take the lock for those that wait.
Cover(t) ==
  \/ pc[t] \in {"c_link", "c_bit", "d_regain"}
  \/ /\ pc[t] = "d_test"
     /\ IF dq[t] = NotProcess THEN fptr # NotProcess
        ELSE pst[dq[t]] = "wait" /\ link[dq[t]] # NotProcess
CoverOK == bptr.free /\ order # << >> => \E t \in Threads : Cover(t)

QInv == IInv /\ OrderOK /\ ChainOK /\ (\A t \in Threads : ThreadOK(t)) /\ PlaceOK
SInv == QInv /\ LockConserved /\ CoverOK

\* Sequences, and the queue as a sequence.
LEMMA TailFacts ==
  ASSUME NEW S, NEW q \in Seq(S), q # << >>
  PROVE  /\ Tail(q) \in Seq(S) /\ Len(Tail(q)) = Len(q) - 1 /\ Len(q) \in Nat /\ Len(q) > 0
         /\ \A k \in 1..Len(q)-1 : Tail(q)[k] = q[k+1]
  OBVIOUS

LEMMA AppendFacts ==
  ASSUME NEW S, NEW q \in Seq(S), NEW e \in S
  PROVE  /\ Append(q, e) \in Seq(S) /\ Len(Append(q, e)) = Len(q) + 1 /\ Len(q) \in Nat
         /\ Append(q, e) # << >>
         /\ \A k \in 1..Len(q) : Append(q, e)[k] = q[k]
         /\ Append(q, e)[Len(q)+1] = e
  OBVIOUS

LEMMA OrderFacts ==
  ASSUME OrderOK
  PROVE  /\ Len(order) \in Nat /\ (order = << >> <=> Len(order) = 0)
         /\ \A k \in 1..Len(order) : order[k] \in Procs /\ order[k] # NotProcess
                                     /\ pst[order[k]] = "wait"
<1>1. order \in Seq(Procs)
  BY DEF OrderOK
<1>2. Len(order) \in Nat /\ (order = << >> <=> Len(order) = 0)
      /\ \A k \in 1..Len(order) : order[k] \in Procs
  BY <1>1
<1> QED BY <1>2, SemAssumption DEF OrderOK

-----------------------------------------------------------------------------
(* Steps that leave the queue alone                                        *)

QuietAction(t) ==
  \/ ClaimFast(t) \/ ClaimRead(t) \/ (ClaimPublish(t) /\ bptr # val[t]) \/ ClaimBit(t)
  \/ DequeueLoad(t) \/ DequeueBptr(t) \/ DequeueLink(t) \/ DequeueSet(t) \/ DequeueTest(t)
  \/ DequeueRegain(t) \/ EnqueueGranted(t) \/ ReleaseCas(t) \/ Claim(t) \/ Release(t)
  \/ Pause(t) \/ \E p \in Procs : Schedule(t, p)

\* Such a step changes no word of the queue and no local of another thread.
LEMMA QuietEffect ==
  ASSUME QInv, NEW t \in Threads, QuietAction(t)
  PROVE  /\ UNCHANGED <<order, fptr>> /\ bptr'.ptr = bptr.ptr
         /\ \A p \in Procs : /\ pst'[p] = "wait" <=> pst[p] = "wait"
                             /\ pst[p] = "wait" => link'[p] = link[p]
         /\ \A u \in Threads \ {t} :
              /\ pc'[u] = pc[u] /\ val'[u] = val[u] /\ wptr'[u] = wptr[u]
              /\ dq'[u] = dq[u] /\ dl'[u] = dl[u]
              /\ wptr[u] # NotProcess => /\ pst'[wptr[u]] = pst[wptr[u]]
                                         /\ link'[wptr[u]] = link[wptr[u]]
         /\ pc[t] \notin {"c_link", "d_cas", "d_restore"}
         /\ pc'[t] \notin {"c_link", "d_cas", "d_restore"}
<1>1. TypeOK /\ LocalsOK /\ ThreadOK(t) /\ PlaceOK
  BY DEF QInv, IInv
<1>2. bptr \in Word /\ bptr.ptr \in Ptr
  BY <1>1, WordFacts DEF TypeOK
<1>3. pc[t] \in ForProcess =>
        /\ wptr[t] \in Procs /\ wptr[t] # NotProcess
        /\ \A u \in Threads \ {t} : wptr[u] # wptr[t]
        /\ pst[wptr[t]] = "wait" <=> pc[t] = "c_link"
  BY <1>1, SemAssumption DEF LocalsOK, PlaceOK
<1> HIDE DEF ThreadOK, PlaceOK
<1> USE SemAssumption, WordFacts
    DEF TypeOK, Ptr, ClaimPC, DequeuePC, ForProcess, Goto, Continue, NoVal, ForgetVal, ForgetDq,
        semVars
<1>4. CASE ClaimFast(t)
  <2>1. pc[t] = "c_fast" /\ val[t] = Tagged(NotProcess) /\ Tagged(NotProcess).ptr = NotProcess
    BY <1>1, <1>4 DEF ThreadOK, ClaimFast
  <2> QED BY <1>1, <1>2, <1>3, <1>4, <2>1 DEF ClaimFast
<1>5. CASE ClaimRead(t) BY <1>1, <1>2, <1>3, <1>5 DEF ClaimRead
<1>6. CASE ClaimPublish(t) /\ bptr # val[t] BY <1>1, <1>2, <1>3, <1>6 DEF ClaimPublish
<1>7. CASE ClaimBit(t) BY <1>1, <1>2, <1>3, <1>7 DEF ClaimBit
<1>8. CASE DequeueLoad(t) BY <1>1, <1>2, <1>3, <1>8 DEF DequeueLoad
<1>9. CASE DequeueBptr(t) BY <1>1, <1>2, <1>3, <1>9 DEF DequeueBptr
<1>10. CASE DequeueLink(t) BY <1>1, <1>2, <1>3, <1>10 DEF DequeueLink
<1>11. CASE DequeueSet(t) BY <1>1, <1>2, <1>3, <1>11 DEF DequeueSet
<1>12. CASE DequeueTest(t) BY <1>1, <1>2, <1>3, <1>12 DEF DequeueTest
<1>13. CASE DequeueRegain(t) BY <1>1, <1>2, <1>3, <1>13 DEF DequeueRegain
<1>14. CASE EnqueueGranted(t) BY <1>1, <1>2, <1>3, <1>14 DEF EnqueueGranted
<1>15. CASE ReleaseCas(t) BY <1>1, <1>2, <1>3, <1>15 DEF ReleaseCas
<1>16. CASE Claim(t) BY <1>1, <1>2, <1>3, <1>16 DEF Claim
<1>17. CASE Release(t) BY <1>1, <1>2, <1>3, <1>17 DEF Release
<1>18. CASE Pause(t) BY <1>1, <1>2, <1>3, <1>18 DEF Pause
<1>19. CASE \E p \in Procs : Schedule(t, p) BY <1>1, <1>2, <1>3, <1>19 DEF Schedule
<1> QED
  BY <1>4, <1>5, <1>6, <1>7, <1>8, <1>9, <1>10, <1>11, <1>12, <1>13, <1>14, <1>15, <1>16,
     <1>17, <1>18, <1>19 DEF QuietAction

\* So the queue stays what it was.
LEMMA QuietQueue ==
  ASSUME QInv, NEW t \in Threads, QuietAction(t)
  PROVE  OrderOK' /\ ChainOK' /\ \A q, p : Linking(q, p)' <=> Linking(q, p)
<1>1. TypeOK /\ OrderOK /\ ChainOK
  BY DEF QInv, IInv
<1>2. \A q, p : Linking(q, p)' <=> Linking(q, p)
  BY QuietEffect DEF Linking, Linker
<1>3. (\E u \in Threads : pc'[u] \in {"d_cas", "d_restore"})
        <=> \E u \in Threads : pc[u] \in {"d_cas", "d_restore"}
  BY QuietEffect
<1>4. \A k \in 1..Len(order) : link'[order[k]] = link[order[k]]
  BY <1>1, OrderFacts, QuietEffect
<1>5. UNCHANGED <<order, fptr>> /\ bptr'.ptr = bptr.ptr
  BY QuietEffect
<1>6. OrderOK'
  BY <1>1, QuietEffect DEF OrderOK
<1>7. ChainOK'
  BY <1>1, <1>2, <1>3, <1>4, <1>5 DEF ChainOK
<1> QED BY <1>2, <1>6, <1>7

\* Threads that a step does not touch.
LEMMA ThreadFrame ==
  ASSUME NEW u \in Threads, ThreadOK(u), order' = order, pc'[u] = pc[u], val'[u] = val[u],
         wptr'[u] = wptr[u], dq'[u] = dq[u], dl'[u] = dl[u],
         \A q, p : Linking(q, p)' => Linking(q, p),
         pc[u] \in ClaimPC => /\ pst'[wptr[u]] = pst[wptr[u]]
                              /\ link'[wptr[u]] = link[wptr[u]]
  PROVE  ThreadOK(u)'
  BY DEF ThreadOK, ClaimPC

LEMMA BareWord ==
  ASSUME NEW w \in Word, NEW p \in Ptr, ~w.free, w.ptr = p PROVE w = Bare(p)
  BY DEF Word, Bare

\* What sem_dequeue finds while it has the lock.
LEMMA ThreadLoad == ASSUME QInv, NEW t \in Threads, DequeueLoad(t) PROVE ThreadOK(t)'
<1>1. TypeOK /\ OrderOK /\ ChainOK
  BY DEF QInv, IInv
<1>2. /\ order' = order /\ \A q, p : Linking(q, p)' <=> Linking(q, p)
  BY QuietEffect, QuietQueue DEF QuietAction
<1>3. dq'[t] = fptr /\ pc'[t] = IF fptr = NotProcess THEN "d_set" ELSE "d_bptr"
  BY <1>1 DEF DequeueLoad, Goto, TypeOK
<1>4. fptr # NotProcess =>
        order # << >> /\ fptr = order[1] /\ ~Linking(NotProcess, order[1])
  BY <1>1 DEF ChainOK
<1> QED BY <1>2, <1>3, <1>4 DEF ThreadOK, HasFirst, ClaimPC

LEMMA ThreadBptr == ASSUME QInv, NEW t \in Threads, DequeueBptr(t) PROVE ThreadOK(t)'
<1>1. TypeOK /\ OrderOK /\ ChainOK /\ ThreadOK(t) /\ MutualExclusion /\ LocalsOK
  BY DEF QInv, IInv
<1>2. /\ order' = order /\ \A q, p : Linking(q, p)' <=> Linking(q, p)
  BY QuietEffect, QuietQueue DEF QuietAction
<1>3. /\ pc[t] = "d_bptr" /\ dq' = dq
      /\ pc'[t] = IF bptr = Bare(dq[t]) THEN "d_clear" ELSE "d_link"
  BY <1>1 DEF DequeueBptr, Goto, TypeOK
<1>4. ~bptr.free /\ dq[t] \in Procs /\ bptr \in Word
  BY <1>1, <1>3 DEF MutualExclusion, HasLock, DequeuePC, LocalsOK, HasFirst, TypeOK
<1>5. order # << >> /\ dq[t] = order[1] /\ ~Linking(NotProcess, order[1])
  BY <1>1, <1>3 DEF ThreadOK, HasFirst
<1>6. bptr # Bare(dq[t]) => bptr.ptr # dq[t]
  BY <1>4, BareWord DEF Ptr
<1>7. bptr # Bare(dq[t]) => Len(order) > 1
  BY <1>1, <1>5, <1>6, OrderFacts DEF ChainOK
<1> QED BY <1>2, <1>3, <1>5, <1>7 DEF ThreadOK, HasFirst, ClaimPC

LEMMA ThreadLink == ASSUME QInv, NEW t \in Threads, DequeueLink(t) PROVE ThreadOK(t)'
<1>1. TypeOK /\ OrderOK /\ ChainOK /\ ThreadOK(t)
  BY DEF QInv, IInv
<1>2. /\ order' = order /\ \A q, p : Linking(q, p)' <=> Linking(q, p)
  BY QuietEffect, QuietQueue DEF QuietAction
<1>3. /\ pc[t] = "d_link" /\ dq' = dq /\ dl'[t] = link[dq[t]]
      /\ pc'[t] = IF link[dq[t]] = NotProcess THEN "d_set" ELSE "d_next"
  BY <1>1 DEF DequeueLink, Goto, TypeOK
<1>4. Len(order) > 1 /\ order # << >> /\ dq[t] = order[1] /\ ~Linking(NotProcess, order[1])
  BY <1>1, <1>3 DEF ThreadOK, HasFirst
<1>5. 1 \in 1..Len(order) /\ 1 # Len(order) /\ 1 + 1 = 2
  BY <1>1, <1>4, OrderFacts
<1>6. link[order[1]] = IF Linking(order[1], order[2]) THEN NotProcess ELSE order[2]
  BY <1>1, <1>5 DEF ChainOK
<1> QED BY <1>2, <1>3, <1>4, <1>6 DEF ThreadOK, HasFirst, ClaimPC

\* What the thread itself then knows.
LEMMA ThreadQuiet ==
  ASSUME QInv, NEW t \in Threads, QuietAction(t) PROVE \A u \in Threads : ThreadOK(u)'
<1>1. TypeOK /\ LocalsOK /\ PlaceOK /\ (\A u \in Threads : ThreadOK(u)) /\ OrderOK
  BY DEF QInv, IInv
<1>2. ASSUME NEW u \in Threads \ {t} PROVE ThreadOK(u)'
  <2>1. pc[u] \in ClaimPC => wptr[u] # NotProcess
    BY <1>1, SemAssumption DEF LocalsOK, ForProcess, ClaimPC
  <2> QED BY <1>1, <2>1, QuietEffect, QuietQueue, ThreadFrame
<1>3. ThreadOK(t)'
  <2>1. CASE DequeueLoad(t) BY <2>1, ThreadLoad
  <2>2. CASE DequeueBptr(t) BY <2>2, ThreadBptr
  <2>3. CASE DequeueLink(t) BY <2>3, ThreadLink
  <2>4. ThreadOK(t) /\ (pc[t] \in ForProcess => wptr[t] \in Procs)
    BY <1>1 DEF LocalsOK
  <2> USE SemAssumption
      DEF TypeOK, ThreadOK, Ptr, HasFirst, ForProcess, ClaimPC, Goto, Continue, ForgetVal,
          ForgetDq, semVars
  <2>5. CASE ClaimFast(t) BY <1>1, <2>4, <2>5 DEF ClaimFast
  <2>6. CASE ClaimRead(t) BY <1>1, <2>4, <2>6 DEF ClaimRead
  <2>7. CASE ClaimPublish(t) /\ bptr # val[t] BY <1>1, <2>4, <2>7 DEF ClaimPublish
  <2>8. CASE ClaimBit(t) BY <1>1, <2>4, <2>8 DEF ClaimBit
  <2>9. CASE DequeueSet(t) BY <1>1, <2>4, <2>9 DEF DequeueSet
  <2>10. CASE DequeueTest(t) BY <1>1, <2>4, <2>10 DEF DequeueTest
  <2>11. CASE DequeueRegain(t) BY <1>1, <2>4, <2>11 DEF DequeueRegain
  <2>12. CASE EnqueueGranted(t) BY <1>1, <2>4, <2>12 DEF EnqueueGranted
  <2>13. CASE ReleaseCas(t) BY <1>1, <2>4, <2>13 DEF ReleaseCas
  <2>14. CASE Claim(t) BY <1>1, <2>4, <2>14 DEF Claim
  <2>15. CASE Release(t) BY <1>1, <2>4, <2>15 DEF Release
  <2>16. CASE Pause(t) BY <1>1, <2>4, <2>16 DEF Pause
  <2>17. CASE \E p \in Procs : Schedule(t, p) BY <1>1, <2>4, <2>17 DEF Schedule
  <2> QED
    BY <2>1, <2>2, <2>3, <2>5, <2>6, <2>7, <2>8, <2>9, <2>10, <2>11, <2>12, <2>13, <2>14, <2>15,
       <2>16, <2>17 DEF QuietAction
<1> QED BY <1>2, <1>3

-----------------------------------------------------------------------------
(* A process is published, and linked                                      *)

\* The CAS of sem_claim puts the process at the queue's end, its link unmade.
LEMMA Published ==
  ASSUME QInv, NEW t \in Threads, ClaimPublish(t), bptr = val[t]
  PROVE  OrderOK' /\ ChainOK' /\ \A u \in Threads : ThreadOK(u)'
<1>1. TypeOK /\ LocalsOK /\ PlaceOK /\ (\A u \in Threads : ThreadOK(u)) /\ OrderOK /\ ChainOK
  BY DEF QInv, IInv
<1> PICK p \in Procs : p = wptr[t]
  BY <1>1 DEF ClaimPublish, LocalsOK, ForProcess
<1> PICK n \in Nat : n = Len(order)
  BY <1>1, OrderFacts
<1>2. /\ pc[t] = "c_cas" /\ bptr' = Bare(p) /\ order' = Append(order, p)
      /\ pst' = [pst EXCEPT ![p] = "wait"] /\ pc' = [pc EXCEPT ![t] = "c_link"]
      /\ UNCHANGED <<fptr, link, ready, wptr, val, dq, dl>>
  BY DEF ClaimPublish, Goto
<1>3. /\ pst[p] = "out" /\ link[p] = NotProcess /\ p # NotProcess
      /\ \A u \in Threads \ {t} : wptr[u] # p
  BY <1>1, <1>2, SemAssumption DEF ThreadOK, ClaimPC, PlaceOK
<1>4. /\ order' \in Seq(Procs) /\ Len(order') = n + 1 /\ order' # << >>
      /\ \A k \in 1..n : order'[k] = order[k]
      /\ order'[n+1] = p
  BY <1>1, <1>2, AppendFacts DEF OrderOK
<1>5. \A k \in 1..n : order[k] # p /\ order[k] \in Procs /\ order[k] # NotProcess
  BY <1>1, <1>3, OrderFacts
<1>6. bptr'.ptr = p
  BY <1>2, WordFacts DEF Ptr
<1>7. val[t].ptr = IF n = 0 THEN NotProcess ELSE order[n]
  BY <1>1, OrderFacts DEF ChainOK
<1>8. /\ pc'[t] = "c_link" /\ \A u \in Threads \ {t} : pc'[u] = pc[u]
      /\ pst'[p] = "wait" /\ \A q \in Procs \ {p} : pst'[q] = pst[q]
  BY <1>1, <1>2 DEF TypeOK
<1>9. \A q, r : Linking(q, r)' <=> Linking(q, r) \/ (q = val[t].ptr /\ r = p)
  BY <1>2, <1>8 DEF Linking, Linker
<1>10. OrderOK'
  <2>1. \A j, k \in 1..n+1 : order'[j] = order'[k] => j = k
    BY <1>1, <1>4, <1>5 DEF OrderOK
  <2>2. \A q \in Procs : pst'[q] = "wait" <=> \E k \in 1..n+1 : order'[k] = q
    <3> TAKE q \in Procs
    <3>1. CASE q = p BY <1>4, <1>8, <3>1
    <3>2. CASE q # p
      <4>1. pst'[q] = "wait" <=> \E k \in 1..n : order[k] = q
        BY <1>1, <1>8, <3>2 DEF OrderOK
      <4> QED BY <1>4, <3>2, <4>1
    <3> QED BY <3>1, <3>2
  <2> QED BY <1>4, <2>1, <2>2 DEF OrderOK
<1>11. ChainOK'
  <2>1. \A k \in 1..n+1 : link[order'[k]] = IF k = n + 1 \/ Linking(order[k], order[k+1])'
                                             THEN NotProcess ELSE order'[k+1]
    <3> TAKE k \in 1..n+1
    <3>1. CASE k = n + 1 BY <1>3, <1>4, <3>1
    <3>2. CASE k = n /\ k # n + 1
      <4>1. k \in 1..n /\ link[order[k]] = NotProcess /\ order'[k] = order[k] /\ order'[k+1] = p
        BY <1>1, <1>4, <3>2 DEF ChainOK
      <4>2. Linking(order[k], order[k+1])'
        BY <1>7, <1>9, <3>2, <4>1
      <4> QED BY <4>1, <4>2
    <3>3. CASE k \in 1..n-1
      <4>1. k \in 1..n /\ k+1 \in 1..n /\ order'[k] = order[k] /\ order'[k+1] = order[k+1]
        BY <1>4, <3>3
      <4>2. Linking(order[k], order[k+1])' <=> Linking(order[k], order[k+1])
        BY <1>5, <1>9, <4>1
      <4> QED BY <1>1, <3>3, <4>1, <4>2 DEF ChainOK
    <3> QED BY <3>1, <3>2, <3>3
  <2>2. fptr = IF \/ Linking(NotProcess, order[1])'
                  \/ \E u \in Threads : pc'[u] \in {"d_cas", "d_restore"}
                 THEN NotProcess ELSE order'[1]
    <3>1. (\E u \in Threads : pc'[u] \in {"d_cas", "d_restore"})
            <=> \E u \in Threads : pc[u] \in {"d_cas", "d_restore"}
      BY <1>2, <1>8
    <3>2. CASE n = 0
      <4>1. Linking(NotProcess, order[1])' /\ fptr = NotProcess
        BY <1>1, <1>4, <1>7, <1>9, <3>2, OrderFacts DEF ChainOK
      <4> QED BY <4>1
    <3>3. CASE n # 0
      <4>1. order'[1] = order[1] /\ order[1] # p /\ order # << >>
        BY <1>1, <1>4, <1>5, <3>3, OrderFacts
      <4>2. Linking(NotProcess, order[1])' <=> Linking(NotProcess, order[1])
        BY <1>9, <4>1
      <4> QED BY <1>1, <3>1, <4>1, <4>2 DEF ChainOK
    <3> QED BY <3>2, <3>3
  <2> QED BY <1>2, <1>4, <1>6, <2>1, <2>2 DEF ChainOK
<1>12. ThreadOK(t)'
  <2>1. n + 1 \in 1..n+1 /\ wptr'[t] = order'[n+1]
        /\ val'[t].ptr = IF n + 1 = 1 THEN NotProcess ELSE order'[n+1-1]
    BY <1>2, <1>4, <1>7
  <2> QED BY <1>4, <1>8, <2>1 DEF ThreadOK, HasFirst, ClaimPC
<1>13. ASSUME NEW u \in Threads \ {t} PROVE ThreadOK(u)'
  <2>1. ThreadOK(u) /\ pc'[u] = pc[u] /\ UNCHANGED <<val, wptr, dq, dl, link>>
    BY <1>1, <1>2, <1>8
  <2>2. pc[u] = "c_link" => \E k \in 1..n+1 :
          wptr[u] = order'[k] /\ val[u].ptr = IF k = 1 THEN NotProcess ELSE order'[k-1]
    <3> SUFFICES ASSUME pc[u] = "c_link"
                 PROVE  \E k \in 1..n+1 : /\ wptr[u] = order'[k]
                                          /\ val[u].ptr = IF k = 1 THEN NotProcess ELSE order'[k-1]
      OBVIOUS
    <3>1. PICK k \in 1..n : wptr[u] = order[k] /\ val[u].ptr = IF k = 1 THEN NotProcess ELSE order[k-1]
      BY <2>1 DEF ThreadOK
    <3>2. k \in 1..n+1 /\ order'[k] = order[k] /\ (k # 1 => order'[k-1] = order[k-1])
      BY <1>4
    <3> QED BY <3>1, <3>2
  <2>3. order # << >> => order'[1] = order[1] /\ order[1] # p
    BY <1>1, <1>4, <1>5, OrderFacts
  <2>4. Len(order) > 1 => order'[2] = order[2] /\ order[2] # p /\ Len(order') > 1
    BY <1>4, <1>5
  <2>5. pc[u] \in ClaimPC => pst'[wptr[u]] = pst[wptr[u]]
    BY <1>1, <1>3, <1>8 DEF LocalsOK, ForProcess, ClaimPC
  <2>6. Len(order) > 1 => order # << >>
    BY <1>1, OrderFacts
  <2> QED BY <1>4, <1>9, <2>1, <2>2, <2>3, <2>4, <2>5, <2>6 DEF ThreadOK, HasFirst
<1> QED BY <1>10, <1>11, <1>12, <1>13

\* The link is written: fptr for the first process, else that of the one before.
LEMMA Linked ==
  ASSUME QInv, NEW t \in Threads, ClaimLink(t)
  PROVE  OrderOK' /\ ChainOK' /\ \A u \in Threads : ThreadOK(u)'
<1>1. TypeOK /\ LocalsOK /\ PlaceOK /\ (\A u \in Threads : ThreadOK(u)) /\ OrderOK /\ ChainOK
  BY DEF QInv, IInv
<1>2. pc[t] = "c_link"
  BY DEF ClaimLink
<1> PICK n \in Nat : n = Len(order)
  BY <1>1, OrderFacts
<1>3. PICK j \in 1..n :
        wptr[t] = order[j] /\ val[t].ptr = IF j = 1 THEN NotProcess ELSE order[j-1]
  BY <1>1, <1>2 DEF ThreadOK
<1>4. /\ UNCHANGED <<bptr, ready, dq, dl, pst, order>> /\ pc'[t] \in {"d_load", "c_bit"}
      /\ wptr'[t] = NotProcess
      /\ \A u \in Threads \ {t} : pc'[u] = pc[u] /\ wptr'[u] = wptr[u] /\ val'[u] = val[u]
  BY <1>1 DEF ClaimLink, Goto, ForgetVal, TypeOK
<1>5. /\ \A k \in 1..n : order[k] \in Procs /\ order[k] # NotProcess
      /\ \A k, l \in 1..n : order[k] = order[l] => k = l
      /\ order # << >>
  BY <1>1, OrderFacts DEF OrderOK
<1>6. \A u \in Threads \ {t} : wptr[u] # order[j]
  BY <1>1, <1>3, <1>5 DEF PlaceOK
<1>7. \A q, r : Linking(q, r)' <=> Linking(q, r) /\ r # order[j]
  BY <1>2, <1>3, <1>4, <1>6 DEF Linking, Linker
<1>8. Linking(val[t].ptr, order[j])
  BY <1>2, <1>3 DEF Linking, Linker
<1>9. (\E u \in Threads : pc'[u] \in {"d_cas", "d_restore"})
        <=> \E u \in Threads : pc[u] \in {"d_cas", "d_restore"}
  BY <1>2, <1>4
<1>10. OrderOK'
  BY <1>1, <1>4 DEF OrderOK
<1>11. ASSUME j = 1 PROVE ChainOK'
  <2>1. fptr' = order[1] /\ link' = link
    BY <1>3, <1>11 DEF ClaimLink
  <2>2. Linking(NotProcess, order[1])
    BY <1>3, <1>8, <1>11
  <2>3. \A u \in Threads : pc[u] \notin {"d_cas", "d_restore"}
    BY <1>1, <2>2 DEF ThreadOK, HasFirst
  <2>4. \A k \in 1..n : k # n => (Linking(order[k], order[k+1])' <=> Linking(order[k], order[k+1]))
    BY <1>4, <1>5, <1>7, <1>11
  <2>5. \A k \in 1..n : link'[order[k]] = IF k = n \/ Linking(order[k], order[k+1])'
                                            THEN NotProcess ELSE order[k+1]
    BY <1>1, <2>1, <2>4 DEF ChainOK
  <2>6. ~Linking(NotProcess, order[1])' /\ ~\E u \in Threads : pc'[u] \in {"d_cas", "d_restore"}
    BY <1>4, <1>7, <1>9, <1>11, <2>3
  <2>7. bptr'.ptr = order'[Len(order')] /\ order' # << >> /\ Len(order') = n
    BY <1>1, <1>4, <1>5 DEF ChainOK
  <2>8. \A k \in 1..n : link'[order'[k]] = IF k = n \/ Linking(order[k], order[k+1])'
                                             THEN NotProcess ELSE order'[k+1]
    BY <1>4, <2>5
  <2>9. fptr' = order'[1]
    BY <1>4, <2>1
  <2> QED BY <2>6, <2>7, <2>8, <2>9 DEF ChainOK
<1>12. ASSUME j # 1 PROVE ChainOK'
  <2> PICK i \in 1..n : i = j - 1
    BY <1>12
  <2>1. i + 1 = j /\ i # n /\ val[t].ptr = order[i] /\ order[i] # NotProcess
    BY <1>3, <1>5, <1>12
  <2>2. fptr' = fptr /\ link' = [link EXCEPT ![order[i]] = order[j]]
    BY <1>3, <2>1 DEF ClaimLink
  <2>3. link'[order[i]] = order[j] /\ \A k \in 1..n : k # i => link'[order[k]] = link[order[k]]
    BY <1>1, <1>5, <2>2 DEF TypeOK
  <2>4. \A k \in 1..n : link'[order[k]] = IF k = n \/ Linking(order[k], order[k+1])'
                                            THEN NotProcess ELSE order[k+1]
    <3> TAKE k \in 1..n
    <3>1. CASE k = i
      BY <1>4, <1>7, <2>1, <2>3, <3>1
    <3>2. CASE k # i /\ k # n
      <4>1. Linking(order[k], order[k+1])' <=> Linking(order[k], order[k+1])
        BY <1>4, <1>5, <1>7, <2>1, <3>2
      <4> QED BY <1>1, <2>3, <3>2, <4>1 DEF ChainOK
    <3>3. CASE k # i /\ k = n
      BY <1>1, <2>3, <3>3 DEF ChainOK
    <3> QED BY <3>1, <3>2, <3>3
  <2>5. Linking(NotProcess, order[1])' <=> Linking(NotProcess, order[1])
    BY <1>4, <1>5, <1>7, <1>12
  <2>6. bptr'.ptr = order'[Len(order')] /\ order' # << >> /\ Len(order') = n
    BY <1>1, <1>4, <1>5 DEF ChainOK
  <2>7. fptr' = IF \/ Linking(NotProcess, order[1])'
                   \/ \E u \in Threads : pc'[u] \in {"d_cas", "d_restore"}
                  THEN NotProcess ELSE order'[1]
    BY <1>1, <1>4, <1>5, <1>9, <2>2, <2>5 DEF ChainOK
  <2>8. \A k \in 1..n : link'[order'[k]] = IF k = n \/ Linking(order[k], order[k+1])'
                                             THEN NotProcess ELSE order'[k+1]
    BY <1>4, <2>4
  <2> QED BY <2>6, <2>7, <2>8 DEF ChainOK
<1>13. ASSUME NEW u \in Threads \ {t} PROVE ThreadOK(u)'
  <2>1. pc[u] \in ClaimPC => link'[wptr[u]] = link[wptr[u]]
    <3> SUFFICES ASSUME pc[u] \in ClaimPC PROVE link'[wptr[u]] = link[wptr[u]]
      OBVIOUS
    <3>1. pst[wptr[u]] = "out" /\ wptr[u] \in Procs
      BY <1>1 DEF ThreadOK, LocalsOK, ForProcess, ClaimPC
    <3>2. \A k \in 1..n : order[k] # wptr[u]
      BY <1>1, <3>1, OrderFacts
    <3>3. val[t].ptr # NotProcess => val[t].ptr # wptr[u] /\ val[t].ptr \in Procs
      BY <1>3, <1>5, <3>2
    <3> QED BY <1>1, <3>1, <3>3 DEF ClaimLink, TypeOK
  <2> QED BY <1>1, <1>4, <1>7, <2>1, ThreadFrame
<1>14. ThreadOK(t)'
  BY <1>4 DEF ThreadOK, HasFirst, ClaimPC
<1> QED BY <1>10, <1>11, <1>12, <1>13, <1>14

-----------------------------------------------------------------------------
(* sem_dequeue takes the first process                                     *)

\* Only the thread that has the lock dequeues.
LEMMA OneDequeuer ==
  ASSUME QInv, NEW t \in Threads, pc[t] \in DequeuePC
  PROVE  (\A u \in Threads \ {t} : pc[u] \notin DequeuePC) /\ Holders = {} /\ ~bptr.free
  BY DEF QInv, IInv, MutualExclusion, HasLock

\* fptr is cleared before the CAS, and put back when that fails.
LEMMA ClearedRestored ==
  ASSUME QInv, NEW t \in Threads,
         DequeueClear(t) \/ DequeueRestore(t) \/ (DequeueCas(t) /\ bptr # Bare(dq[t]))
  PROVE  OrderOK' /\ ChainOK' /\ \A u \in Threads : ThreadOK(u)'
<1>1. TypeOK /\ (\A u \in Threads : ThreadOK(u)) /\ OrderOK /\ ChainOK
  BY DEF QInv, IInv
<1>2. /\ UNCHANGED <<bptr, link, ready, wptr, val, dq, dl, pst, order>>
      /\ \A u \in Threads \ {t} : pc'[u] = pc[u]
      /\ pc[t] \in {"d_clear", "d_cas", "d_restore"}
      /\ \/ pc'[t] \in {"d_cas", "d_restore"} /\ fptr' = NotProcess
         \/ pc'[t] \in {"d_cas", "d_restore"} /\ pc[t] \in {"d_cas", "d_restore"} /\ fptr' = fptr
         \/ pc'[t] = "d_bptr" /\ fptr' = dq[t]
  BY <1>1 DEF DequeueClear, DequeueRestore, DequeueCas, Goto, TypeOK
<1>3. \A u \in Threads \ {t} : pc[u] \notin {"d_cas", "d_restore"}
  BY <1>2, OneDequeuer DEF DequeuePC
<1>4. order # << >> /\ dq[t] = order[1] /\ ~Linking(NotProcess, order[1])
  BY <1>1, <1>2 DEF ThreadOK, HasFirst
<1>5. \A q, p : Linking(q, p)' <=> Linking(q, p)
  BY <1>2 DEF Linking, Linker
<1>6. fptr' = IF \E u \in Threads : pc'[u] \in {"d_cas", "d_restore"}
                THEN NotProcess ELSE order[1]
  BY <1>1, <1>2, <1>3, <1>4 DEF ChainOK
<1>7. ChainOK'
  BY <1>1, <1>2, <1>4, <1>5, <1>6 DEF ChainOK
<1>8. OrderOK'
  BY <1>1, <1>2 DEF OrderOK
<1>9. \A u \in Threads \ {t} : ThreadOK(u)'
  BY <1>1, <1>2, <1>5, ThreadFrame
<1>10. ThreadOK(t)'
  BY <1>2, <1>4, <1>5 DEF ThreadOK, HasFirst, ClaimPC
<1> QED BY <1>7, <1>8, <1>9, <1>10

\* The only process leaves the queue.
LEMMA LastTaken ==
  ASSUME QInv, NEW t \in Threads, DequeueCas(t), bptr = Bare(dq[t])
  PROVE  OrderOK' /\ ChainOK' /\ (\A u \in Threads : ThreadOK(u)') /\ Len(order) = 1
<1>1. TypeOK /\ LocalsOK /\ (\A u \in Threads : ThreadOK(u)) /\ OrderOK /\ ChainOK
  BY DEF QInv, IInv
<1> PICK p \in Procs : p = dq[t]
  BY <1>1 DEF DequeueCas, LocalsOK, HasFirst
<1>2. /\ pc[t] = "d_cas" /\ bptr' = Bare(NotProcess) /\ order' = Tail(order)
      /\ pst' = [pst EXCEPT ![p] = "in"] /\ pc' = [pc EXCEPT ![t] = "enq"]
      /\ UNCHANGED <<fptr, link, ready, wptr, val, dq, dl>>
  BY DEF DequeueCas, Granted, Goto
<1>3. order # << >> /\ p = order[1] /\ ~Linking(NotProcess, order[1])
  BY <1>1, <1>2 DEF ThreadOK, HasFirst
<1>4. bptr.ptr = p
  BY WordFacts DEF Ptr
<1>5. Len(order) = 1
  <2>1. p = order[Len(order)] /\ Len(order) \in 1..Len(order) /\ 1 \in 1..Len(order)
    BY <1>1, <1>3, <1>4, OrderFacts DEF ChainOK
  <2>2. \A j, k \in 1..Len(order) : order[j] = order[k] => j = k
    BY <1>1 DEF OrderOK
  <2> QED BY <1>3, <2>1, <2>2
<1>6. order' = << >> /\ order' \in Seq(Procs) /\ Len(order') = 0
  <2>1. order' \in Seq(Procs) /\ Len(order') = 0
    BY <1>1, <1>2, <1>3, <1>5, TailFacts DEF OrderOK
  <2> QED BY <2>1
<1>7. /\ pc'[t] = "enq" /\ \A u \in Threads \ {t} : pc'[u] = pc[u]
      /\ pst'[p] = "in" /\ \A q \in Procs \ {p} : pst'[q] = pst[q]
  BY <1>1, <1>2 DEF TypeOK
<1>8. OrderOK'
  <2>1. \A q \in Procs \ {p} : pst[q] # "wait"
    BY <1>1, <1>3, <1>5 DEF OrderOK
  <2>2. \A q \in Procs : pst'[q] # "wait"
    BY <1>7, <2>1
  <2> QED BY <1>6, <2>2 DEF OrderOK
<1>9. fptr' = NotProcess /\ bptr'.ptr = NotProcess
  <2>1. fptr = NotProcess
    BY <1>1, <1>2 DEF ChainOK
  <2> QED BY <1>2, <2>1, WordFacts DEF Ptr
<1>10. ChainOK'
  BY <1>6, <1>9 DEF ChainOK
<1>11. ASSUME NEW u \in Threads \ {t} PROVE ThreadOK(u)'
  <2>1. pc[u] # "c_link"
    <3> SUFFICES ASSUME pc[u] = "c_link" PROVE FALSE
      OBVIOUS
    <3>1. wptr[u] = order[1] /\ val[u].ptr = NotProcess
      BY <1>1, <1>5 DEF ThreadOK
    <3> QED BY <1>3, <3>1 DEF Linking, Linker
  <2>2. pc[u] \notin DequeuePC
    BY <1>2, OneDequeuer DEF DequeuePC
  <2>3. pc[u] \in ClaimPC => pst'[wptr[u]] = "out"
    <3> SUFFICES ASSUME pc[u] \in ClaimPC PROVE pst'[wptr[u]] = "out"
      OBVIOUS
    <3>1. pst[wptr[u]] = "out" /\ wptr[u] \in Procs
      BY <1>1 DEF ThreadOK, LocalsOK, ForProcess, ClaimPC
    <3>2. pst[p] = "wait"
      BY <1>1, <1>3, <1>5, OrderFacts
    <3> QED BY <1>7, <3>1, <3>2
  <2> QED BY <1>1, <1>2, <1>7, <2>1, <2>2, <2>3 DEF ThreadOK, HasFirst, DequeuePC, ClaimPC
<1>12. ThreadOK(t)'
  BY <1>7 DEF ThreadOK, HasFirst, ClaimPC
<1> QED BY <1>5, <1>8, <1>10, <1>11, <1>12

\* The first process leaves and the next one becomes first.
LEMMA FirstTaken ==
  ASSUME QInv, NEW t \in Threads, DequeueNext(t)
  PROVE  OrderOK' /\ ChainOK' /\ \A u \in Threads : ThreadOK(u)'
<1>1. TypeOK /\ LocalsOK /\ (\A u \in Threads : ThreadOK(u)) /\ OrderOK /\ ChainOK
  BY DEF QInv, IInv
<1> PICK p \in Procs : p = dq[t]
  BY <1>1 DEF DequeueNext, LocalsOK, HasFirst
<1> PICK n \in Nat : n = Len(order)
  BY <1>1, OrderFacts
<1>2. /\ pc[t] = "d_next" /\ order' = Tail(order) /\ fptr' = dl[t]
      /\ pst' = [pst EXCEPT ![p] = "in"] /\ pc' = [pc EXCEPT ![t] = "enq"]
      /\ UNCHANGED <<bptr, link, ready, wptr, val, dq>>
      /\ \A u \in Threads \ {t} : dl'[u] = dl[u]
  BY <1>1 DEF DequeueNext, Granted, Goto, TypeOK
<1>3. /\ order # << >> /\ p = order[1] /\ ~Linking(NotProcess, order[1]) /\ n > 1
      /\ dl[t] = order[2] /\ ~Linking(order[1], order[2])
  BY <1>1, <1>2 DEF ThreadOK, HasFirst
<1>4. /\ order' \in Seq(Procs) /\ Len(order') = n - 1 /\ order' # << >>
      /\ \A k \in 1..n-1 : order'[k] = order[k+1]
  <2>1. order' \in Seq(Procs) /\ Len(order') = n - 1 /\ \A k \in 1..n-1 : order'[k] = order[k+1]
    BY <1>1, <1>2, <1>3, TailFacts DEF OrderOK
  <2> QED BY <1>3, <2>1
<1>5. /\ \A k \in 1..n : order[k] \in Procs /\ order[k] # NotProcess /\ pst[order[k]] = "wait"
      /\ \A k, l \in 1..n : order[k] = order[l] => k = l
  BY <1>1, OrderFacts DEF OrderOK
<1>6. /\ pc'[t] = "enq" /\ \A u \in Threads \ {t} : pc'[u] = pc[u]
      /\ pst'[p] = "in" /\ \A q \in Procs \ {p} : pst'[q] = pst[q]
  BY <1>1, <1>2 DEF TypeOK
<1>7. \A q, r : Linking(q, r)' <=> Linking(q, r)
  BY <1>2, <1>6 DEF Linking, Linker
<1>8. OrderOK'
  <2>1. \A j, k \in 1..n-1 : order'[j] = order'[k] => j = k
    BY <1>4, <1>5
  <2>2. ASSUME NEW q \in Procs
        PROVE  pst'[q] = "wait" <=> \E k \in 1..n-1 : order'[k] = q
    <3>1. CASE q = p
      <4>1. \A k \in 1..n-1 : order'[k] # p
        BY <1>3, <1>4, <1>5
      <4> QED BY <1>6, <3>1, <4>1
    <3>2. CASE q # p
      <4>1. pst'[q] = "wait" <=> \E k \in 1..n : order[k] = q
        BY <1>1, <1>6, <3>2 DEF OrderOK
      <4>2. ASSUME NEW k \in 1..n, order[k] = q PROVE \E j \in 1..n-1 : order'[j] = q
        <5>1. k # 1 /\ k-1 \in 1..n-1 /\ (k-1)+1 = k
          BY <1>3, <3>2, <4>2
        <5> QED BY <1>4, <4>2, <5>1
      <4>3. ASSUME NEW j \in 1..n-1, order'[j] = q PROVE \E k \in 1..n : order[k] = q
        BY <1>4, <4>3
      <4> QED BY <4>1, <4>2, <4>3
    <3> QED BY <3>1, <3>2
  <2> QED BY <1>4, <2>1, <2>2 DEF OrderOK
<1>9. ChainOK'
  <2>1. bptr'.ptr = order'[Len(order')]
    BY <1>1, <1>2, <1>3, <1>4 DEF ChainOK
  <2>2. \A k \in 1..n-1 : link'[order'[k]] = IF k = n - 1 \/ Linking(order[k], order[k+1])'
                                               THEN NotProcess ELSE order'[k+1]
    <3> TAKE k \in 1..n-1
    <3>1. k+1 \in 1..n /\ order'[k] = order[k+1] /\ (k # n-1 => order'[k+1] = order[(k+1)+1])
      BY <1>4
    <3>2. k # n-1 => (Linking(order[k], order[k+1])' <=> Linking(order[k+1], order[(k+1)+1]))
      BY <1>7, <3>1
    <3>3. link[order[k+1]] = IF k+1 = n \/ Linking(order[k+1], order[(k+1)+1])
                               THEN NotProcess ELSE order[(k+1)+1]
      BY <1>1, <3>1 DEF ChainOK
    <3> QED BY <1>2, <3>1, <3>2, <3>3
  <2>3. ~Linking(NotProcess, order[2])
    <3> SUFFICES ASSUME NEW u \in Threads, Linker(u, NotProcess, order[2]) PROVE FALSE
      BY DEF Linking
    <3>1. PICK k \in 1..n : wptr[u] = order[k] /\ val[u].ptr = IF k = 1 THEN NotProcess ELSE order[k-1]
      BY <1>1 DEF ThreadOK, Linker
    <3>2. k = 2
      <4>1. 2 \in 1..n /\ order[k] = order[2]
        BY <1>3, <3>1 DEF Linker
      <4> QED BY <1>5, <4>1
    <3> QED BY <1>3, <1>5, <3>1, <3>2 DEF Linker
  <2>4. order'[1] = order[2] /\ ~Linking(NotProcess, order[1])'
    BY <1>3, <1>4, <1>7, <2>3
  <2>5. \A u \in Threads : pc'[u] \notin {"d_cas", "d_restore"}
    BY <1>2, <1>6, OneDequeuer DEF DequeuePC
  <2> QED BY <1>2, <1>3, <1>4, <2>1, <2>2, <2>4, <2>5 DEF ChainOK
<1>10. ASSUME NEW u \in Threads \ {t} PROVE ThreadOK(u)'
  <2>1. pc[u] = "c_link" => \E k \in 1..n-1 :
          wptr[u] = order'[k] /\ val[u].ptr = IF k = 1 THEN NotProcess ELSE order'[k-1]
    <3> SUFFICES ASSUME pc[u] = "c_link"
                 PROVE  \E k \in 1..n-1 : /\ wptr[u] = order'[k]
                                          /\ val[u].ptr = IF k = 1 THEN NotProcess ELSE order'[k-1]
      OBVIOUS
    <3>1. PICK k \in 1..n : wptr[u] = order[k] /\ val[u].ptr = IF k = 1 THEN NotProcess ELSE order[k-1]
      BY <1>1 DEF ThreadOK
    <3>2. k # 1 /\ k # 2
      BY <1>3, <3>1 DEF Linking, Linker
    <3>3. PICK i, j \in 1..n-1 : j + 1 = k /\ i + 1 = j /\ j # 1
      BY <3>2
    <3>4. order'[j] = order[k] /\ order'[j-1] = order[k-1]
      BY <1>4, <3>3
    <3> QED BY <3>1, <3>2, <3>3, <3>4
  <2>2. pc[u] \notin DequeuePC
    BY <1>2, OneDequeuer DEF DequeuePC
  <2>3. pc[u] \in ClaimPC => pst'[wptr[u]] = "out"
    <3> SUFFICES ASSUME pc[u] \in ClaimPC PROVE pst'[wptr[u]] = "out"
      OBVIOUS
    <3>1. pst[wptr[u]] = "out" /\ wptr[u] \in Procs
      BY <1>1 DEF ThreadOK, LocalsOK, ForProcess, ClaimPC
    <3>2. pst[p] = "wait"
      BY <1>3, <1>5
    <3> QED BY <1>6, <3>1, <3>2
  <2> QED BY <1>1, <1>2, <1>4, <1>6, <2>1, <2>2, <2>3 DEF ThreadOK, HasFirst, DequeuePC, ClaimPC
<1>11. ThreadOK(t)'
  BY <1>6 DEF ThreadOK, HasFirst, ClaimPC
<1> QED BY <1>8, <1>9, <1>10, <1>11

-----------------------------------------------------------------------------
(* Every step                                                              *)

\* The steps that leave the queue alone, and the others.
LEMMA StepCases ==
  ASSUME Next
  PROVE  \E t \in Threads :
           \/ QuietAction(t)
           \/ ClaimPublish(t) /\ bptr = val[t]
           \/ ClaimLink(t)
           \/ DequeueClear(t) \/ DequeueRestore(t) \/ (DequeueCas(t) /\ bptr # Bare(dq[t]))
           \/ DequeueCas(t) /\ bptr = Bare(dq[t])
           \/ DequeueNext(t)
<1> PICK t \in Threads : \/ KernelStep(t) \/ UserStep(t)
                         \/ \E p \in Procs : Schedule(t, p)
  BY DEF Next
<1>1. CASE ClaimPublish(t) BY <1>1 DEF QuietAction
<1>2. CASE DequeueCas(t) BY <1>2
<1>3. CASE ~ClaimPublish(t) /\ ~DequeueCas(t)
  BY <1>3 DEF QuietAction, KernelStep, UserStep, ClaimStep, DequeueStep
<1> QED BY <1>1, <1>2, <1>3

LEMMA QueueStep ==
  QInv /\ [Next]_vars => OrderOK' /\ ChainOK' /\ \A t \in Threads : ThreadOK(t)'
<1> SUFFICES ASSUME QInv, [Next]_vars
             PROVE  OrderOK' /\ ChainOK' /\ \A t \in Threads : ThreadOK(t)'
  OBVIOUS
<1>1. CASE UNCHANGED vars
  <2>1. OrderOK /\ ChainOK /\ \A t \in Threads : ThreadOK(t)
    BY DEF QInv
  <2> QED BY <1>1, <2>1
          DEF vars, locals, semVars, OrderOK, ChainOK, ThreadOK, Linking, Linker
<1>2. CASE Next
  BY <1>2, StepCases, QuietQueue, ThreadQuiet, Published, Linked, ClearedRestored, LastTaken,
     FirstTaken
<1> QED BY <1>1, <1>2

\* The process that sem_dequeue returns is run by nobody: its own thread has
\* left sem_claim, for it has written the link that leads to it.
LEMMA GrantedFacts ==
  ASSUME QInv, NEW t \in Threads,
         DequeueNext(t) \/ (DequeueCas(t) /\ bptr = Bare(dq[t]))
  PROVE  /\ dq[t] \in Procs /\ pst[dq[t]] = "wait" /\ order # << >> /\ dq[t] = order[1]
         /\ dq[t] \notin ready /\ \A u \in Threads : wptr[u] # dq[t]
         /\ Holders = {} /\ pc[t] \in DequeuePC
         /\ pst' = [pst EXCEPT ![dq[t]] = "in"] /\ pc' = [pc EXCEPT ![t] = "enq"]
         /\ order' = Tail(order) /\ ~bptr'.free
         /\ UNCHANGED <<link, ready, wptr, val, dq>>
<1>1. TypeOK /\ LocalsOK /\ PlaceOK /\ (\A u \in Threads : ThreadOK(u)) /\ OrderOK
  BY DEF QInv, IInv
<1>2. /\ pc[t] \in {"d_next", "d_cas"} /\ order' = Tail(order)
      /\ pst' = [pst EXCEPT ![dq[t]] = "in"] /\ pc' = [pc EXCEPT ![t] = "enq"]
      /\ UNCHANGED <<link, ready, wptr, val, dq>>
      /\ bptr' = bptr \/ bptr' = Bare(NotProcess)
  BY DEF DequeueNext, DequeueCas, Granted, Goto
<1>3. order # << >> /\ dq[t] = order[1] /\ ~Linking(NotProcess, order[1])
  BY <1>1, <1>2 DEF ThreadOK, HasFirst
<1>4. 1 \in 1..Len(order) /\ dq[t] \in Procs /\ pst[dq[t]] = "wait" /\ dq[t] # NotProcess
  BY <1>1, <1>3, OrderFacts
<1>5. dq[t] \notin ready
  BY <1>1, <1>4 DEF PlaceOK
<1>6. ASSUME NEW u \in Threads, wptr[u] = dq[t] PROVE FALSE
  <2>1. pc[u] = "c_link"
    BY <1>1, <1>4, <1>6 DEF PlaceOK
  <2>2. PICK k \in 1..Len(order) :
          wptr[u] = order[k] /\ val[u].ptr = IF k = 1 THEN NotProcess ELSE order[k-1]
    BY <1>1, <2>1 DEF ThreadOK
  <2>3. k = 1
    BY <1>1, <1>3, <1>4, <1>6, <2>2 DEF OrderOK
  <2> QED BY <1>3, <1>6, <2>1, <2>2, <2>3 DEF Linking, Linker
<1>7. Holders = {} /\ ~bptr.free /\ pc[t] \in DequeuePC
  BY <1>2, OneDequeuer DEF DequeuePC
<1> QED BY <1>2, <1>3, <1>4, <1>5, <1>6, <1>7, WordFacts DEF Ptr

\* No step puts a process in two places.
LEMMA PlaceStep == QInv /\ [Next]_vars => PlaceOK'
<1> SUFFICES ASSUME QInv, [Next]_vars PROVE PlaceOK'
  OBVIOUS
<1>1. TypeOK /\ LocalsOK /\ PlaceOK /\ \A u \in Threads : ThreadOK(u)
  BY DEF QInv, IInv
<1>2. CASE UNCHANGED vars
  BY <1>1, <1>2 DEF vars, locals, semVars, PlaceOK
<1>3. CASE Next
  <2> PICK t \in Threads : \/ KernelStep(t) \/ UserStep(t)
                           \/ \E p \in Procs : Schedule(t, p)
    BY <1>3 DEF Next
  <2>6. \A u \in Threads : pc[u] = "enq" => dq[u] \in Procs
    BY <1>1 DEF LocalsOK, HasFirst
  <2>1. CASE DequeueNext(t) \/ (DequeueCas(t) /\ bptr = Bare(dq[t]))
    <3>1. /\ dq[t] \in Procs /\ pst[dq[t]] = "wait" /\ dq[t] \notin ready
          /\ \A u \in Threads : wptr[u] # dq[t]
          /\ pc[t] \in DequeuePC
          /\ UNCHANGED <<ready, wptr, dq>>
      BY <2>1, GrantedFacts
    <3>2. /\ pc'[t] = "enq" /\ \A u \in Threads \ {t} : pc'[u] = pc[u]
          /\ pst'[dq[t]] = "in" /\ \A q \in Procs \ {dq[t]} : pst'[q] = pst[q]
      BY <1>1, <2>1, GrantedFacts DEF TypeOK
    <3> QED BY <1>1, <2>6, <3>1, <3>2 DEF PlaceOK, DequeuePC, TypeOK, Ptr
  <2>2. CASE ClaimPublish(t) /\ bptr = val[t]
    <3>1. /\ pc[t] = "c_cas" /\ wptr[t] \in Procs /\ UNCHANGED <<ready, wptr, dq>>
          /\ pst' = [pst EXCEPT ![wptr[t]] = "wait"] /\ pc' = [pc EXCEPT ![t] = "c_link"]
      BY <1>1, <2>2 DEF ClaimPublish, LocalsOK, ForProcess, Goto
    <3>2. /\ pc'[t] = "c_link" /\ \A u \in Threads \ {t} : pc'[u] = pc[u]
          /\ pst'[wptr[t]] = "wait" /\ \A q \in Procs \ {wptr[t]} : pst'[q] = pst[q]
      BY <1>1, <3>1 DEF TypeOK
    <3>3. wptr[t] \notin ready /\ wptr[t] # NotProcess
      BY <1>1, <3>1, SemAssumption DEF PlaceOK
    <3> QED BY <1>1, <3>1, <3>2, <3>3 DEF PlaceOK, TypeOK, Ptr, LocalsOK, HasFirst
  <2>3. pc[t] \in ForProcess => wptr[t] \in Procs /\ wptr[t] # NotProcess
    BY <1>1, SemAssumption DEF LocalsOK
  <2>4. pc[t] \in {"sched", "c_bit"} => wptr[t] = NotProcess
    BY <1>1 DEF ThreadOK
  <2>5. pc[t] = "enq" => dq[t] \in Procs
    BY <1>1 DEF LocalsOK, HasFirst
  <2> HIDE DEF ThreadOK
  <2> USE SemAssumption DEF TypeOK, PlaceOK, Ptr, ForProcess, Goto, Continue, ForgetVal, ForgetDq,
          semVars
  <2>7. CASE ClaimFast(t) BY <1>1, <2>3, <2>6, <2>7 DEF ClaimFast
  <2>8. CASE ClaimRead(t) BY <1>1, <2>3, <2>8 DEF ClaimRead
  <2>9. CASE ClaimPublish(t) /\ bptr # val[t] BY <1>1, <2>9 DEF ClaimPublish
  <2>10. CASE ClaimLink(t) BY <1>1, <2>3, <2>6, <2>10 DEF ClaimLink
  <2>11. CASE ClaimBit(t) BY <1>1, <2>4, <2>11 DEF ClaimBit
  <2>12. CASE DequeueLoad(t) BY <1>1, <2>12 DEF DequeueLoad
  <2>13. CASE DequeueBptr(t) BY <1>1, <2>13 DEF DequeueBptr
  <2>14. CASE DequeueLink(t) BY <1>1, <2>14 DEF DequeueLink
  <2>15. CASE DequeueClear(t) BY <1>1, <2>15 DEF DequeueClear
  <2>16. CASE DequeueCas(t) /\ bptr # Bare(dq[t]) BY <1>1, <2>16 DEF DequeueCas
  <2>17. CASE DequeueRestore(t) BY <1>1, <2>17 DEF DequeueRestore
  <2>18. CASE DequeueSet(t) BY <1>1, <2>18 DEF DequeueSet
  <2>19. CASE DequeueTest(t) BY <1>1, <2>19 DEF DequeueTest
  <2>20. CASE DequeueRegain(t) BY <1>1, <2>20 DEF DequeueRegain
  <2>21. CASE EnqueueGranted(t) BY <1>1, <2>5, <2>21 DEF EnqueueGranted
  <2>22. CASE ReleaseCas(t) BY <1>1, <2>22 DEF ReleaseCas
  <2>23. CASE Claim(t) BY <1>1, <2>3, <2>23 DEF Claim
  <2>24. CASE Release(t) BY <1>1, <2>3, <2>6, <2>24 DEF Release
  <2>25. CASE Pause(t) BY <1>1, <2>3, <2>6, <2>25 DEF Pause
  <2>26. CASE \E p \in Procs : Schedule(t, p) BY <1>1, <2>4, <2>26 DEF Schedule
  <2> QED
    BY <2>1, <2>2, <2>7, <2>8, <2>9, <2>10, <2>11, <2>12, <2>13, <2>14, <2>15, <2>16, <2>17,
       <2>18, <2>19, <2>20, <2>21, <2>22, <2>23, <2>24, <2>25, <2>26
    DEF KernelStep, ClaimStep, DequeueStep, UserStep
<1> QED BY <1>2, <1>3

-----------------------------------------------------------------------------
(* Neither the lock nor the wake-up of a waiter is dropped                 *)

\* Whoever lets go of the token of MutualExclusion hands it to another.
LEMMA LockKept == QInv /\ LockConserved /\ [Next]_vars => LockConserved'
<1> SUFFICES ASSUME QInv, LockConserved, [Next]_vars PROVE LockConserved'
  OBVIOUS
<1>1. TypeOK /\ LocalsOK /\ MutualExclusion /\ \A u \in Threads : ThreadOK(u)
  BY DEF QInv, IInv
<1>2. CASE UNCHANGED vars
  BY <1>2 DEF vars, locals, semVars, LockConserved, Holders, HasLock
<1>3. CASE Next
  <2> PICK t \in Threads : \/ KernelStep(t) \/ UserStep(t)
                           \/ \E p \in Procs : Schedule(t, p)
    BY <1>3 DEF Next
  <2>1. pc[t] \in ForProcess => wptr[t] \in Procs
    BY <1>1 DEF LocalsOK
  <2>2. CASE DequeueNext(t) \/ (DequeueCas(t) /\ bptr = Bare(dq[t]))
    <3>1. dq[t] \in Procs /\ pst'[dq[t]] = "in"
      BY <1>1, <2>2, GrantedFacts DEF TypeOK
    <3> QED BY <3>1 DEF LockConserved, Holders
  <2>3. CASE ClaimPublish(t) /\ bptr = val[t]
    <3>1. /\ pc[t] = "c_cas" /\ UNCHANGED val /\ pst[wptr[t]] = "out" /\ wptr[t] \in Procs
          /\ pst' = [pst EXCEPT ![wptr[t]] = "wait"] /\ pc' = [pc EXCEPT ![t] = "c_link"]
      BY <1>1, <2>3, <2>1 DEF ClaimPublish, ForProcess, Goto, ThreadOK, ClaimPC
    <3>2. /\ pc'[t] = "c_link" /\ \A u \in Threads \ {t} : pc'[u] = pc[u]
          /\ \A q \in Procs \ {wptr[t]} : pst'[q] = pst[q]
      BY <1>1, <3>1 DEF TypeOK
    <3>3. CASE bptr.free BY <2>3, <3>1, <3>2, <3>3 DEF LockConserved, HasLock
    <3>4. CASE ~bptr.free BY <3>1, <3>2, <3>4 DEF LockConserved, HasLock, Holders, DequeuePC
    <3> QED BY <3>3, <3>4
  <2> HIDE DEF ThreadOK
  <2> USE WordFacts DEF TypeOK, LockConserved, HasLock, Holders, DequeuePC, ForProcess, Goto,
          Continue, ForgetVal, ForgetDq, semVars
  <2>4. CASE ClaimFast(t)
    <3>1. CASE bptr = val[t]
      <4>1. wptr[t] \in Procs /\ pst'[wptr[t]] = "in"
        BY <1>1, <2>1, <2>4, <3>1 DEF ClaimFast
      <4> QED BY <4>1
    <3>2. CASE bptr # val[t]
      <4>1. /\ UNCHANGED <<bptr, pst>> /\ pc[t] = "c_fast"
            /\ \A u \in Threads \ {t} : pc'[u] = pc[u] /\ val'[u] = val[u]
        BY <1>1, <2>4, <3>2 DEF ClaimFast
      <4> QED BY <4>1
    <3> QED BY <3>1, <3>2
  <2>5. CASE ClaimRead(t) BY <1>1, <2>5 DEF ClaimRead
  <2>6. CASE ClaimPublish(t) /\ bptr # val[t] BY <1>1, <2>6 DEF ClaimPublish
  <2>7. CASE ClaimLink(t) BY <1>1, <2>7 DEF ClaimLink
  <2>8. CASE ClaimBit(t) BY <1>1, <2>8 DEF ClaimBit
  <2>9. CASE DequeueLoad(t) BY <1>1, <2>9 DEF DequeueLoad
  <2>10. CASE DequeueBptr(t) BY <1>1, <2>10 DEF DequeueBptr
  <2>11. CASE DequeueLink(t) BY <1>1, <2>11 DEF DequeueLink
  <2>12. CASE DequeueClear(t) BY <1>1, <2>12 DEF DequeueClear
  <2>13. CASE DequeueCas(t) /\ bptr # Bare(dq[t]) BY <1>1, <2>13 DEF DequeueCas
  <2>14. CASE DequeueRestore(t) BY <1>1, <2>14 DEF DequeueRestore
  <2>15. CASE DequeueSet(t) BY <1>1, <2>15 DEF DequeueSet
  <2>16. CASE DequeueTest(t) BY <1>1, <2>16 DEF DequeueTest
  <2>17. CASE DequeueRegain(t) BY <1>1, <2>17 DEF DequeueRegain
  <2>18. CASE EnqueueGranted(t) BY <1>1, <2>18 DEF EnqueueGranted
  <2>19. CASE ReleaseCas(t)
    <3>1. bptr'.free \/ pc'[t] = "d_load"
      BY <1>1, <2>19 DEF ReleaseCas, Ptr
    <3> QED BY <3>1
  <2>20. CASE Claim(t) BY <1>1, <2>20 DEF Claim
  <2>21. CASE Release(t) BY <1>1, <2>1, <2>21 DEF Release
  <2>22. CASE Pause(t) BY <1>1, <2>22 DEF Pause
  <2>23. CASE \E p \in Procs : Schedule(t, p) BY <1>1, <2>23 DEF Schedule
  <2> QED
    BY <2>2, <2>3, <2>4, <2>5, <2>6, <2>7, <2>8, <2>9, <2>10, <2>11, <2>12, <2>13, <2>14, <2>15,
       <2>16, <2>17, <2>18, <2>19, <2>20, <2>21, <2>22, <2>23
    DEF KernelStep, ClaimStep, DequeueStep, UserStep
<1> QED BY <1>2, <1>3

\* The steps that can take or free the lock.
LEMMA FreeAfter ==
  ASSUME QInv, NEW t \in Threads, KernelStep(t) \/ UserStep(t), bptr'.free
  PROVE  \/ bptr.free /\ pc[t] \notin DequeuePC \cup {"r_cas"}
         \/ DequeueSet(t)
         \/ order' = << >>
<1>1. TypeOK /\ LocalsOK /\ MutualExclusion /\ OrderOK /\ ChainOK
  BY DEF QInv, IInv
<1>2. pc[t] \in DequeuePC \cup {"r_cas"} => ~bptr.free
  BY <1>1 DEF MutualExclusion, HasLock
<1>3. CASE ReleaseCas(t)
  <2>1. CASE bptr = Bare(NotProcess)
    <3>1. bptr.ptr = NotProcess /\ order' = order
      BY <1>3, <2>1, WordFacts DEF ReleaseCas, Ptr
    <3>2. order = << >>
      BY <1>1, <3>1, OrderFacts DEF ChainOK
    <3> QED BY <3>1, <3>2
  <2>2. CASE bptr # Bare(NotProcess)
    <3>1. bptr' = bptr /\ pc[t] = "r_cas"
      BY <1>3, <2>2 DEF ReleaseCas
    <3> QED BY <1>2, <3>1
  <2> QED BY <2>1, <2>2
<1>4. ClaimFast(t) => (bptr' = bptr /\ pc[t] = "c_fast") \/ bptr' = Bare(NotProcess)
  BY DEF ClaimFast
<1>5. ClaimPublish(t) => (bptr' = bptr /\ pc[t] = "c_cas") \/ bptr' = Bare(wptr[t])
  BY DEF ClaimPublish
<1>6. pc[t] = "c_cas" => wptr[t] \in Procs
  BY <1>1 DEF LocalsOK, ForProcess
<1>7. CASE ClaimStep(t) \/ UserStep(t)
  <2>1. \A p \in Ptr : ~Bare(p).free
    BY WordFacts
  <2>2. bptr.ptr \in Ptr /\ NotProcess \in Ptr
    BY <1>1, WordFacts DEF TypeOK, Ptr
  <2>3. ClaimPublish(t) => wptr[t] \in Ptr
    BY <1>6 DEF ClaimPublish, Ptr
  <2>4. CASE ClaimFast(t) BY <1>4, <2>1, <2>2, <2>4 DEF DequeuePC
  <2>5. CASE ClaimPublish(t) BY <1>5, <2>1, <2>3, <2>5 DEF DequeuePC
  <2>6. CASE ClaimBit(t) BY <2>1, <2>2, <2>6 DEF ClaimBit
  <2> QED BY <1>7, <2>4, <2>5, <2>6
          DEF ClaimStep, UserStep, ClaimRead, ClaimLink, Claim, Release, Pause, semVars, DequeuePC
<1>8. CASE DequeueStep(t) /\ ~DequeueSet(t)
  <2>1. \A p \in Ptr : ~Bare(p).free
    BY WordFacts
  <2>2. bptr.ptr \in Ptr /\ NotProcess \in Ptr
    BY <1>1, WordFacts DEF TypeOK, Ptr
  <2>3. CASE DequeueNext(t) \/ DequeueCas(t)
    BY <1>2, <2>1, <2>2, <2>3 DEF DequeueNext, DequeueCas, DequeuePC
  <2>4. CASE DequeueRegain(t) BY <2>1, <2>2, <2>4 DEF DequeueRegain
  <2>5. CASE DequeueTest(t) \/ EnqueueGranted(t)
    BY <2>5 DEF DequeueTest, EnqueueGranted, semVars, DequeuePC
  <2>6. CASE DequeueLoad(t) \/ DequeueBptr(t) \/ DequeueLink(t) \/ DequeueClear(t) \/ DequeueRestore(t)
    BY <1>2, <2>6 DEF DequeueLoad, DequeueBptr, DequeueLink, DequeueClear, DequeueRestore, semVars,
                      DequeuePC
  <2> QED BY <1>8, <2>3, <2>4, <2>5, <2>6 DEF DequeueStep
<1> QED BY <1>3, <1>7, <1>8 DEF KernelStep

\* While the lock is free and somebody waits, a thread has still to look at it.
LEMMA CoverStep == QInv /\ CoverOK /\ [Next]_vars => CoverOK'
<1> SUFFICES ASSUME QInv, CoverOK, [Next]_vars PROVE CoverOK'
  OBVIOUS
<1>1. /\ TypeOK /\ LocalsOK /\ MutualExclusion /\ OrderOK /\ ChainOK /\ PlaceOK
      /\ \A u \in Threads : ThreadOK(u)
  BY DEF QInv, IInv
<1>2. CASE UNCHANGED vars
  BY <1>2 DEF vars, locals, semVars, CoverOK, Cover
<1>3. CASE Next
  <2> SUFFICES ASSUME bptr'.free, order' # << >> PROVE \E u \in Threads : Cover(u)'
    BY DEF CoverOK
  <2> PICK t \in Threads : \/ KernelStep(t) \/ UserStep(t)
                           \/ \E p \in Procs : Schedule(t, p)
    BY <1>3 DEF Next
  <2>1. CASE DequeueSet(t)
    <3>1. pc'[t] = "d_test" /\ UNCHANGED <<fptr, link, val, wptr, dq, pst, order>> /\ pc[t] = "d_set"
          /\ \A u \in Threads \ {t} : pc'[u] = pc[u]
      BY <1>1, <2>1 DEF DequeueSet, Goto, TypeOK
    <3>2. dq[t] = NotProcess \/ (Len(order) > 1 /\ dq[t] = order[1])
      BY <1>1, <3>1 DEF ThreadOK
    <3>3. CASE dq[t] = NotProcess
      <4>1. fptr # NotProcess \/ Linking(NotProcess, order[1])
        <5>1. \A u \in Threads : pc[u] \notin {"d_cas", "d_restore"}
          BY <3>1, OneDequeuer DEF DequeuePC
        <5>2. order # << >> /\ order[1] # NotProcess
          BY <1>1, <3>1, OrderFacts
        <5> QED BY <1>1, <5>1, <5>2 DEF ChainOK
      <4>2. Linking(NotProcess, order[1]) => \E u \in Threads : u # t /\ pc[u] = "c_link"
        BY <3>1 DEF Linking, Linker
      <4> QED BY <3>1, <3>3, <4>1, <4>2 DEF Cover
    <3>4. CASE Len(order) > 1 /\ dq[t] = order[1]
      <4>1. 1 \in 1..Len(order) /\ 1 # Len(order) /\ 1 + 1 = 2 /\ 2 \in 1..Len(order)
        BY <1>1, <3>4, OrderFacts
      <4>2. order[1] # NotProcess /\ order[2] # NotProcess /\ pst[order[1]] = "wait"
        BY <1>1, <4>1, OrderFacts
      <4>3. link[order[1]] # NotProcess \/ Linking(order[1], order[2])
        BY <1>1, <4>1, <4>2 DEF ChainOK
      <4>4. Linking(order[1], order[2]) => \E u \in Threads : u # t /\ pc[u] = "c_link"
        BY <3>1 DEF Linking, Linker
      <4> QED BY <3>1, <3>4, <4>2, <4>3, <4>4 DEF Cover
    <3> QED BY <3>2, <3>3, <3>4
  <2>2. CASE ~DequeueSet(t)
    <3>1. bptr.free /\ pc[t] \notin DequeuePC \cup {"r_cas"}
      <4>1. CASE \E p \in Procs : Schedule(t, p)
        BY <4>1 DEF Schedule, semVars, DequeuePC
      <4>2. CASE KernelStep(t) \/ UserStep(t)
        BY <2>2, <4>2, FreeAfter
      <4> QED BY <4>1, <4>2
    <3>2. ~(ClaimPublish(t) /\ bptr = val[t])
      <4>1. ClaimPublish(t) /\ bptr = val[t] => bptr' = Bare(wptr[t]) /\ wptr[t] \in Ptr
        BY <1>1 DEF ClaimPublish, TypeOK
      <4> QED BY <4>1, WordFacts
    <3>3. \E u \in Threads : Cover(u)
      <4>1. order # << >>
        <5>1. ~DequeueNext(t) /\ ~DequeueCas(t)
          BY <3>1 DEF DequeueNext, DequeueCas, DequeuePC
        <5> QED BY <3>2, <5>1, StepCases, <1>3 DEF KernelStep, UserStep, ClaimStep, DequeueStep,
                ClaimFast, ClaimRead, ClaimPublish, ClaimLink, ClaimBit, DequeueLoad, DequeueBptr,
                DequeueLink, DequeueClear, DequeueRestore, DequeueTest, DequeueRegain, DequeueSet,
                EnqueueGranted, ReleaseCas, Claim, Release, Pause, Schedule
      <4> QED BY <3>1, <4>1 DEF CoverOK
    <3>4. CASE ClaimLink(t)
      <4>1. ~val[t].free
        BY <1>1, <3>1, <3>4 DEF ClaimLink, MutualExclusion, HasLock
      <4>2. pc'[t] = "c_bit"
        BY <1>1, <3>4, <4>1 DEF ClaimLink, Goto, TypeOK
      <4> QED BY <4>2 DEF Cover
    <3>5. ~Release(t)
      <4>1. Release(t) => wptr[t] \in Holders
        BY <1>1 DEF Release, LocalsOK, ForProcess, Holders
      <4> QED BY <1>1, <3>1, <4>1 DEF MutualExclusion
    <3>6. ~ClaimBit(t) /\ ~DequeueRegain(t)
      BY <1>1, WordFacts DEF ClaimBit, DequeueRegain, TypeOK
    <3>7. ASSUME pc[t] \notin {"c_link", "c_bit", "d_regain", "d_test"}, UNCHANGED <<fptr, pst>>,
                 \A u \in Threads \ {t} : pc'[u] = pc[u] /\ dq'[u] = dq[u],
                 \A p \in Procs : pst[p] = "wait" => link'[p] = link[p]
          PROVE  \E u \in Threads : Cover(u)'
      <4>1. PICK u \in Threads : Cover(u)
        BY <3>3
      <4>2. u # t
        BY <3>7, <4>1 DEF Cover
      <4>3. dq[u] # NotProcess => dq[u] \in Procs
        BY <1>1 DEF TypeOK, Ptr
      <4>4. Cover(u)'
        BY <3>7, <4>1, <4>2, <4>3 DEF Cover
      <4> QED BY <4>4
    <3>8. CASE DequeueTest(t)
      <4>1. /\ UNCHANGED <<fptr, pst, link>> /\ pc[t] = "d_test"
            /\ \A u \in Threads \ {t} : pc'[u] = pc[u] /\ dq'[u] = dq[u]
        BY <1>1, <3>8 DEF DequeueTest, Goto, ForgetDq, TypeOK, semVars
      <4>2. PICK u \in Threads : Cover(u)
        BY <3>3
      <4>3. CASE u = t
        <5>1. TestOutcomes(t) = {TRUE}
          BY <4>1, <4>2, <4>3 DEF Cover, TestOutcomes
        <5>2. pc'[t] = "d_regain"
          BY <1>1, <3>8, <5>1 DEF DequeueTest, Goto, TypeOK
        <5> QED BY <5>2 DEF Cover
      <4>4. CASE u # t
        <5>1. Cover(u)'
          BY <4>1, <4>2, <4>4 DEF Cover
        <5> QED BY <5>1
      <4> QED BY <4>3, <4>4
    <3>9. pc[t] \in ForProcess => wptr[t] \in Procs
      BY <1>1 DEF LocalsOK
    <3>10. pc[t] \in ClaimPC => pst[wptr[t]] = "out"
      BY <1>1 DEF ThreadOK
    <3>11. ClaimFast(t) => UNCHANGED pst
      <4>1. ClaimFast(t) => UNCHANGED pst \/ bptr' = Bare(NotProcess)
        BY DEF ClaimFast
      <4> QED BY <4>1, WordFacts DEF Ptr
    <3> USE DEF TypeOK, ForProcess, ClaimPC, DequeuePC, Goto, ForgetDq, ForgetVal, semVars
    <3>12. CASE ClaimFast(t) BY <1>1, <3>7, <3>11, <3>12 DEF ClaimFast
    <3>13. CASE ClaimRead(t) BY <1>1, <3>7, <3>9, <3>10, <3>13 DEF ClaimRead
    <3>14. CASE ClaimPublish(t) BY <1>1, <3>2, <3>7, <3>14 DEF ClaimPublish
    <3>15. CASE EnqueueGranted(t) BY <1>1, <3>7, <3>15 DEF EnqueueGranted
    <3>16. CASE Claim(t) BY <1>1, <3>7, <3>9, <3>16 DEF Claim
    <3>17. CASE Pause(t) BY <1>1, <3>7, <3>17 DEF Pause
    <3>18. CASE \E p \in Procs : Schedule(t, p) BY <1>1, <3>7, <3>18 DEF Schedule
    <3>19. ~DequeueLoad(t) /\ ~DequeueBptr(t) /\ ~DequeueLink(t) /\ ~DequeueNext(t) /\ ~DequeueClear(t)
           /\ ~DequeueCas(t) /\ ~DequeueRestore(t) /\ ~ReleaseCas(t)
      BY <3>1 DEF DequeueLoad, DequeueBptr, DequeueLink, DequeueNext, DequeueClear, DequeueCas,
                  DequeueRestore, ReleaseCas
    <3> QED
      BY <2>2, <3>4, <3>5, <3>6, <3>8, <3>12, <3>13, <3>14, <3>15, <3>16, <3>17, <3>18, <3>19
      DEF KernelStep, ClaimStep, DequeueStep, UserStep
  <2> QED BY <2>1, <2>2
<1> QED BY <1>2, <1>3

-----------------------------------------------------------------------------
LEMMA QueueInit == Init => SInv
<1> SUFFICES ASSUME Init PROVE SInv
  OBVIOUS
<1>1. order = << >> /\ Len(order) = 0 /\ order \in Seq(Procs)
  BY DEF Init
<1>2. IInv
  BY InitEstablishes
<1>3. OrderOK
  BY <1>1 DEF OrderOK, Init
<1>4. bptr.ptr = NotProcess /\ bptr.free
  BY WordFacts DEF Init, Ptr
<1>5. ChainOK
  BY <1>1, <1>4 DEF ChainOK, Init
<1>6. \A t \in Threads : ThreadOK(t)
  BY DEF ThreadOK, Init, ClaimPC, HasFirst
<1>7. PlaceOK
  BY DEF PlaceOK, Init
<1> QED BY <1>1, <1>2, <1>3, <1>4, <1>5, <1>6, <1>7 DEF SInv, QInv, LockConserved, CoverOK

\* The queue is a chain but for the links some thread has still to write, and
\* neither the lock nor a waiter is forgotten.
THEOREM QueueInvariant == Spec => []SInv
<1>1. SInv /\ [Next]_vars => SInv'
  BY TypeStep, LockStep, QueueStep, PlaceStep, LockKept, CoverStep DEF SInv, QInv, IInv
<1> QED BY QueueInit, <1>1, PTL DEF Spec

\* Neither the lock, nor a process, nor the wake-up of a waiter is lost or
\* doubled by sem_claim, sem_dequeue and sem_release, for any number of
\* processes and threads.
THEOREM SemaphoreLosesNothing == Spec => []NothingLost
<1>1. ASSUME SInv PROVE NothingLost
  <2>1. LockConserved /\ CoverOK /\ PlaceOK /\ TypeOK
    BY <1>1 DEF SInv, QInv, IInv
  <2>2. ScheduledOnce
    <3>1. \A p \in Procs : p # NotProcess
      BY SemAssumption
    <3> QED BY <2>1, <3>1 DEF ScheduledOnce, PlaceOK, Runs
  <2>3. WaiterCovered
    BY <2>1 DEF WaiterCovered, CoverOK, Cover
  <2> QED BY <2>1, <2>2, <2>3 DEF NothingLost
<1>2. SInv => NothingLost
  BY <1>1
<1> QED BY QueueInvariant, <1>2, PTL

-----------------------------------------------------------------------------
(* The refinement                                                          *)

LEMMA RefineStep == QInv /\ [Next]_vars => [Abstract!FMNext]_<<Holders, order>>
<1> SUFFICES ASSUME QInv, [Next]_vars
             PROVE  Abstract!FMNext \/ (Holders' = Holders /\ order' = order)
  OBVIOUS
<1>1. /\ TypeOK /\ LocalsOK /\ MutualExclusion /\ OrderOK /\ ChainOK
      /\ \A u \in Threads : ThreadOK(u)
  BY DEF QInv, IInv
<1>2. CASE UNCHANGED vars
  BY <1>2 DEF vars, Holders
<1>3. CASE Next
  <2> PICK t \in Threads : \/ KernelStep(t) \/ UserStep(t)
                           \/ \E p \in Procs : Schedule(t, p)
    BY <1>3 DEF Next
  <2>1. pc[t] \in ForProcess => wptr[t] \in Procs
    BY <1>1 DEF LocalsOK
  <2>2. CASE DequeueNext(t) \/ (DequeueCas(t) /\ bptr = Bare(dq[t]))
    <3>1. /\ dq[t] \in Procs /\ order # << >> /\ dq[t] = order[1] /\ Holders = {}
          /\ order' = Tail(order) /\ pst' = [pst EXCEPT ![dq[t]] = "in"]
      BY <2>2, GrantedFacts
    <3>2. Holders' = {dq[t]}
      BY <1>1, <3>1 DEF TypeOK, Holders
    <3>3. Head(order) = order[1]
      BY <1>1, <3>1 DEF OrderOK
    <3> QED BY <3>1, <3>2, <3>3 DEF Abstract!FMNext, Abstract!Grant
  <2>3. CASE ClaimPublish(t) /\ bptr = val[t]
    <3>1. /\ wptr[t] \in Procs /\ pst[wptr[t]] = "out" /\ order' = Append(order, wptr[t])
          /\ pst' = [pst EXCEPT ![wptr[t]] = "wait"]
      BY <1>1, <2>1, <2>3 DEF ClaimPublish, ForProcess, ThreadOK, ClaimPC
    <3>2. Holders' = Holders /\ wptr[t] \notin Holders
      BY <1>1, <3>1 DEF TypeOK, Holders
    <3>3. \A i \in DOMAIN order : order[i] # wptr[t]
      <4>1. DOMAIN order = 1..Len(order)
        BY <1>1 DEF OrderOK
      <4> QED BY <1>1, <3>1, <4>1, OrderFacts
    <3> QED BY <3>1, <3>2, <3>3 DEF Abstract!FMNext, Abstract!Queue
  <2>4. CASE ClaimFast(t) /\ bptr = val[t]
    <3>1. /\ wptr[t] \in Procs /\ bptr = Tagged(NotProcess) /\ order' = order
          /\ pst' = [pst EXCEPT ![wptr[t]] = "in"]
      BY <1>1, <2>1, <2>4 DEF ClaimFast, ForProcess, ThreadOK
    <3>2. bptr.free /\ bptr.ptr = NotProcess
      BY <3>1, WordFacts DEF Ptr
    <3>3. Holders = {} /\ order = << >>
      BY <1>1, <3>2, OrderFacts DEF MutualExclusion, ChainOK
    <3>4. Holders' = {wptr[t]}
      BY <1>1, <3>1, <3>3 DEF TypeOK, Holders
    <3> QED BY <3>1, <3>3, <3>4 DEF Abstract!FMNext, Abstract!Take
  <2>5. CASE Release(t)
    <3>1. /\ wptr[t] \in Holders /\ wptr[t] \in Procs /\ order' = order
          /\ pst' = [pst EXCEPT ![wptr[t]] = "out"]
      BY <2>1, <2>5 DEF Release, ForProcess, Holders
    <3>2. Holders = {wptr[t]}
      BY <1>1, <3>1 DEF MutualExclusion
    <3>3. Holders' = {}
      BY <1>1, <3>1, <3>2 DEF TypeOK, Holders
    <3> QED BY <3>1, <3>2, <3>3 DEF Abstract!FMNext, Abstract!Release
  <2>6. CASE UNCHANGED <<pst, order>>
    BY <2>6 DEF Holders
  <2>7. \/ UNCHANGED <<pst, order>> \/ Release(t)
        \/ (ClaimFast(t) /\ bptr = val[t]) \/ (ClaimPublish(t) /\ bptr = val[t])
        \/ DequeueNext(t) \/ (DequeueCas(t) /\ bptr = Bare(dq[t]))
    BY DEF KernelStep, UserStep, ClaimStep, DequeueStep,
           ClaimFast, ClaimRead, ClaimPublish, ClaimLink, ClaimBit, DequeueLoad, DequeueBptr,
           DequeueLink, DequeueClear, DequeueCas, DequeueRestore, DequeueTest, DequeueRegain,
           DequeueSet, EnqueueGranted, ReleaseCas, Claim, Pause, Schedule
  <2> QED BY <2>2, <2>3, <2>4, <2>5, <2>6, <2>7
<1> QED BY <1>2, <1>3

\* The lock-free queue of sem_claim, sem_dequeue and sem_release implements a
\* first-in first-out lock: a claim that meets nobody takes it, the others are
\* granted it in the order of their successful CAS on bptr.
THEOREM SemaphoreRefines == Spec => IsFifoMutex
<1>1. Init => Abstract!FMInit
  BY DEF Init, Abstract!FMInit, Holders
<1>2. Spec => []QInv
  BY QueueInvariant, PTL DEF SInv
<1> QED BY <1>1, <1>2, RefineStep, PTL DEF Spec, IsFifoMutex, Abstract!FMSpec
=============================================================================
