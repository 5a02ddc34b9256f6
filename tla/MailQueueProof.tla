--------------------------- MODULE MailQueueProof ---------------------------
(***************************************************************************)
(* Proofs about MailQueue, for any processes, senders and pipe.            *)
(*                                                                         *)
(* QueueShape speaks of the words of the queue only.  To be inductive it   *)
(* needs what the locals of mail_process and atomic_dequeue_from_runqueue  *)
(* say: whom a sender is about to link, and what the owner knows of the    *)
(* front of the queue at each label.  AsleepCovered needs the queue: the   *)
(* owner gives up on a queue that is not linked yet, and only the shape of *)
(* the queue says that a sender is then still to set the sync bit.         *)
(***************************************************************************)
EXTENDS MailQueue, TLAPS

\* A process is mailed once at a time.
MailedOnce ==
  /\ \A i, j \in 1..Len(sent) : sent[i] = sent[j] => i = j
  /\ \A s \in Senders : spc[s] = "swap" =>
       /\ item[s] \in Procs /\ link[item[s]] = None
       /\ \A k \in 1..Len(sent) : sent[k] # item[s]
       /\ \A u \in Senders : spc[u] = "swap" /\ item[u] = item[s] => u = s

\* A sender that has still to link is right behind the one it swapped out.
LinkersOK ==
  \A s \in Senders : spc[s] = "link" =>
    /\ \/ back[s] = None /\ Waiting # <<>> /\ item[s] = Waiting[1]
       \/ \E k \in 1..Len(Waiting)-1 : back[s] = Waiting[k] /\ item[s] = Waiting[k+1]
    /\ \A u \in Senders : spc[u] = "link" /\ item[u] = item[s] => u = s

\* Nobody is linked behind the last one.
LastOpen == Waiting # <<>> => link[Waiting[Len(Waiting)]] = None

\* What the owner knows of the queue at each label.
OwnerOK ==
  /\ opc \in {"last", "cas", "link", "advance", "reset", "deliver"} =>
       sent # <<>> /\ ptr = sent[1]
  /\ opc \in {"last", "cas", "link", "advance"} => fptr = ptr
  /\ opc \in {"link", "advance"} => Len(sent) > 1
  /\ opc = "advance" => next = sent[2] /\ link[ptr] = next

QInv == TypeOK /\ MailedOnce /\ LinkersOK /\ LastOpen /\ OwnerOK /\ QueueShape

\* Mail is signalled, or will be: the owner is at work on the queue, or has a
\* sync bit to see, or a sender has still to set it.
Signalled ==
  sent # <<>> => \/ "mail" \in sync
                 \/ opc \in {"front", "last", "cas", "reset", "link", "advance", "deliver"}
                 \/ \E s \in Senders : spc[s] \in {"link", "sync"}

\* Whoever clears the sleeping bit of an owner that goes to sleep sets a sync bit.
AwakeSeen ==
  opc \in {"check", "pause", "read"} /\ ~sleeping =>
    sync # {} \/ \E s \in Senders : spc[s] = "again"

WInv == QInv /\ Signalled /\ AwakeSeen /\ AsleepCovered

-----------------------------------------------------------------------------
LEMMA TypeInit == Init => TypeOK
<1> SUFFICES ASSUME Init PROVE TypeOK
  OBVIOUS
<1>1. sent \in Seq(Procs)
  BY DEF Init
<1>2. pipe \in 0..PipeCap
  BY MailAssumption DEF Init
<1>3. sleeping \in BOOLEAN /\ sync \subseteq Bits /\ ready \subseteq Procs
  BY Zenon DEF Init
<1>4. /\ spc \in [Senders -> {"idle", "swap", "link", "sync", "test", "clear", "again", "write"}]
      /\ item \in [Senders -> Ptr] /\ back \in [Senders -> Ptr] /\ link \in [Procs -> Ptr]
  BY Zenon DEF Init, Ptr
<1> QED BY <1>1, <1>2, <1>3, <1>4, Zenon DEF Init, TypeOK, Ptr

LEMMA TypeStep == TypeOK /\ OwnerOK /\ MailedOnce /\ [Next]_vars => TypeOK'
<1> SUFFICES ASSUME TypeOK, OwnerOK, MailedOnce, [Next]_vars PROVE TypeOK'
  OBVIOUS
<1> USE MailAssumption DEF TypeOK, Ptr, Bits, queue, signal, sender, owner, STo, OTo
<1>1. CASE UNCHANGED vars
  BY <1>1 DEF vars
<1>2. ASSUME NEW s \in Senders, SendStep(s) \/ Offer(s) \/ \E p \in Procs : Send(s, p)
      PROVE  TypeOK'
  <2>1. CASE Swap(s) BY <2>1 DEF Swap, MailedOnce
  <2>2. CASE LinkIn(s) BY <2>2 DEF LinkIn
  <2>3. CASE SetSync(s) BY <2>3 DEF SetSync
  <2>4. CASE TestSleeping(s) BY <2>4 DEF TestSleeping
  <2>5. CASE WakeClear(s) BY <2>5 DEF WakeClear
  <2>6. CASE WakeSync(s) BY <2>6 DEF WakeSync, WakeBit
  <2>7. CASE WakeWrite(s) BY <2>7 DEF WakeWrite
  <2>8. CASE Offer(s) BY <2>8 DEF Offer
  <2>9. ASSUME NEW p \in Procs, Send(s, p) PROVE TypeOK' BY <2>9 DEF Send
  <2> QED BY <1>2, <2>1, <2>2, <2>3, <2>4, <2>5, <2>6, <2>7, <2>8, <2>9 DEF SendStep
<1>3. CASE OwnerStep
  <2>1. CASE Top BY <2>1 DEF Top
  <2>2. CASE Front BY <2>2 DEF Front
  <2>3. CASE Last BY <2>3 DEF Last
  <2>4. CASE CasBack BY <2>4 DEF CasBack
  <2>5. CASE CasFront BY <2>5 DEF CasFront
  <2>6. CASE ReadLink BY <2>6 DEF ReadLink, OwnerOK
  <2>7. CASE Advance BY <2>7 DEF Advance
  <2>8. CASE Deliver BY <2>8 DEF Deliver, OwnerOK
  <2>9. CASE Sleep BY <2>9 DEF Sleep
  <2>10. CASE Check BY <2>10 DEF Check
  <2>11. CASE Pause BY <2>11 DEF Pause
  <2>12. CASE Read BY <2>12 DEF Read
  <2>13. ASSUME NEW p \in Procs, Run(p) PROVE TypeOK' BY <2>13 DEF Run
  <2> QED BY <1>3, <2>1, <2>2, <2>3, <2>4, <2>5, <2>6, <2>7, <2>8, <2>9, <2>10, <2>11,
             <2>12, <2>13 DEF OwnerStep
<1> QED BY <1>1, <1>2, <1>3 DEF Next

-----------------------------------------------------------------------------
(* Sequences                                                               *)

LEMMA TailFacts ==
  ASSUME NEW S, NEW q \in Seq(S), q # <<>>
  PROVE  /\ Tail(q) \in Seq(S) /\ Len(Tail(q)) = Len(q) - 1 /\ Len(q) > 0
         /\ \A k \in 1..Len(q)-1 : Tail(q)[k] = q[k+1]
  OBVIOUS

LEMMA AppendFacts ==
  ASSUME NEW S, NEW q \in Seq(S), NEW e \in S
  PROVE  /\ Append(q, e) \in Seq(S) /\ Len(Append(q, e)) = Len(q) + 1
         /\ Append(q, e) # <<>>
         /\ \A k \in 1..Len(q) : Append(q, e)[k] = q[k]
         /\ Append(q, e)[Len(q)+1] = e
  OBVIOUS

LEMMA EmptySeq ==
  ASSUME NEW S, NEW q \in Seq(S)
  PROVE  Len(q) \in Nat /\ (q = <<>> <=> Len(q) = 0) /\ \A k \in 1..Len(q) : q[k] \in S
  OBVIOUS

LEMMA TailAppend ==
  ASSUME NEW S, NEW q \in Seq(S), NEW e \in S, q # <<>>
  PROVE  Tail(Append(q, e)) = Append(Tail(q), e)
  OBVIOUS

LEMMA WaitingFacts ==
  ASSUME TypeOK, OwnerOK
  PROVE  /\ Waiting \in Seq(Procs) /\ Len(Waiting) \in Nat
         /\ Waiting = <<>> <=> Len(Waiting) = 0
         /\ \A k \in 1..Len(Waiting) : Waiting[k] \in Procs
         /\ opc \in {"reset", "deliver"} =>
              /\ Len(Waiting) = Len(sent) - 1
              /\ \A k \in 1..Len(Waiting) : Waiting[k] = sent[k+1]
         /\ opc \notin {"reset", "deliver"} => Waiting = sent
<1>1. sent \in Seq(Procs)
  BY DEF TypeOK
<1>2. CASE opc \in {"reset", "deliver"}
  <2>1. sent # <<>> /\ Waiting = Tail(sent)
    BY <1>2 DEF OwnerOK, Waiting
  <2>2. Waiting \in Seq(Procs)
    BY <1>1, <2>1, TailFacts
  <2> QED BY <1>1, <1>2, <2>1, <2>2, TailFacts, EmptySeq
<1>3. CASE opc \notin {"reset", "deliver"}
  BY <1>1, <1>3, EmptySeq DEF Waiting
<1> QED BY <1>2, <1>3

-----------------------------------------------------------------------------
(* The queue                                                               *)

LEMMA QueueInit == Init => QInv
<1> SUFFICES ASSUME Init PROVE QInv
  OBVIOUS
<1>1. sent = <<>> /\ Len(sent) = 0 /\ Waiting = <<>> /\ opc = "top"
  BY DEF Init, Waiting
<1>2. \A s \in Senders : spc[s] = "idle"
  BY DEF Init
<1>3. fptr = None /\ bptr = None
  BY DEF Init
<1>4. MailedOnce
  BY <1>1, <1>2 DEF MailedOnce
<1>5. QueueShape
  BY <1>1, <1>2, <1>3 DEF QueueShape
<1>6. LinkersOK /\ LastOpen /\ OwnerOK
  BY <1>1, <1>2 DEF LinkersOK, LastOpen, OwnerOK
<1> QED BY <1>4, <1>5, <1>6, TypeInit DEF QInv

LEMMA WaitingDistinct ==
  ASSUME QInv
  PROVE  /\ \A i, j \in 1..Len(Waiting) : Waiting[i] = Waiting[j] => i = j
         /\ \A k \in 1..Len(Waiting) : \E j \in 1..Len(sent) : sent[j] = Waiting[k]
         /\ opc \in {"reset", "deliver"} => \A k \in 1..Len(Waiting) : Waiting[k] # ptr
<1>1. sent \in Seq(Procs) /\ OwnerOK
  BY DEF QInv, TypeOK
<1>2. Len(sent) \in Nat /\ (opc \in {"reset", "deliver"} => Len(sent) > 0 /\ ptr = sent[1])
  BY <1>1, EmptySeq DEF OwnerOK
<1>3. CASE opc \in {"reset", "deliver"}
  BY <1>2, <1>3, WaitingFacts DEF QInv, MailedOnce
<1>4. CASE opc \notin {"reset", "deliver"}
  BY <1>2, <1>4, WaitingFacts DEF QInv, MailedOnce
<1> QED BY <1>3, <1>4

\* A step that leaves the queue and the senders that are at work on it alone.
LEMMA QuietStep ==
  ASSUME QInv, TypeOK', OwnerOK', UNCHANGED <<fptr, bptr, link, sent>>, Waiting' = Waiting,
         opc = "reset" => opc' = "reset" /\ ptr' = ptr,
         \A s \in Senders : /\ spc'[s] = "swap" <=> spc[s] = "swap"
                            /\ spc'[s] = "link" <=> spc[s] = "link"
                            /\ spc[s] \in {"swap", "link"} =>
                                 item'[s] = item[s] /\ back'[s] = back[s]
  PROVE  QInv'
<1>1. \A b, p : Linking(b, p)' <=> Linking(b, p)
  BY DEF Linking
<1>2. MailedOnce'
  BY DEF QInv, MailedOnce
<1>3. LinkersOK'
  BY DEF QInv, LinkersOK
<1>4. LastOpen'
  BY DEF QInv, LastOpen
<1>5. QueueShape'
  BY <1>1 DEF QInv, QueueShape
<1> QED BY <1>2, <1>3, <1>4, <1>5 DEF QInv

LEMMA SendQueue == ASSUME QInv, TypeOK', NEW s \in Senders, NEW p \in Procs, Send(s, p)
                   PROVE  QInv'
<1> USE DEF QInv, Send, STo, owner, signal
<1> DEFINE q == Waiting
<1>1. q' = q /\ q \in Seq(Procs) /\ UNCHANGED <<fptr, bptr, sent, opc, ptr, next>>
  BY WaitingFacts DEF Waiting
<1>2. \A k \in 1..Len(sent) : sent[k] # p
  BY DEF Mailable, InMail
<1>3. \A k \in 1..Len(q) : q[k] # p
  <2>1. sent \in Seq(Procs)
    BY DEF TypeOK
  <2>2. Len(sent) \in Nat
    BY <2>1, EmptySeq
  <2> QED BY <1>2, <2>2, WaitingFacts
<1>4. \A u \in Senders : spc[u] = "swap" => item[u] # p
  BY DEF Mailable, InSend
<1>5. \A x \in Procs \ {p} : link'[x] = link[x]
  BY DEF TypeOK
<1>6. link'[p] = None /\ item'[s] = p /\ spc'[s] = "swap"
  BY DEF TypeOK
<1>7. \A u \in Senders \ {s} : spc'[u] = spc[u] /\ item'[u] = item[u] /\ back'[u] = back[u]
  BY DEF TypeOK
<1>8. \A b, x : Linking(b, x)' <=> Linking(b, x)
  BY <1>6, <1>7 DEF Linking
<1>9. MailedOnce'
  BY <1>1, <1>2, <1>4, <1>5, <1>6, <1>7 DEF MailedOnce
<1>10. LinkersOK'
  BY <1>1, <1>6, <1>7 DEF LinkersOK
<1>11. LastOpen'
  BY <1>1, <1>3, <1>5, WaitingFacts DEF LastOpen
<1>12. OwnerOK'
  BY <1>1, <1>2, <1>5, EmptySeq DEF OwnerOK, TypeOK
<1>13. QueueShape'
  BY <1>1, <1>3, <1>5, <1>8, WaitingFacts DEF QueueShape
<1> QED BY <1>9, <1>10, <1>11, <1>12, <1>13

\* The swap puts the process behind the last one, which has no link yet.
LEMMA SwapQueue == ASSUME QInv, TypeOK', NEW s \in Senders, Swap(s) PROVE QInv'
<1> USE DEF QInv, Swap, STo, owner, signal
<1> DEFINE q == Waiting
           e == item[s]
<1>1. e \in Procs /\ link[e] = None /\ \A k \in 1..Len(sent) : sent[k] # e
  BY DEF MailedOnce
<1>2. q \in Seq(Procs) /\ sent \in Seq(Procs) /\ Len(q) \in Nat /\ Len(sent) \in Nat
  BY WaitingFacts, EmptySeq DEF TypeOK
<1>3. q' = Append(q, e)
  BY <1>1, <1>2, TailAppend DEF Waiting, OwnerOK
<1>4. \A k \in 1..Len(q) : q[k] # e /\ q[k] \in Procs
  BY <1>1, <1>2, WaitingFacts
<1>5. /\ Len(q') = Len(q) + 1 /\ q' # <<>> /\ q'[Len(q)+1] = e
      /\ \A k \in 1..Len(q) : q'[k] = q[k]
  BY <1>1, <1>2, <1>3, AppendFacts
<1>6. /\ Len(sent') = Len(sent) + 1 /\ sent' # <<>> /\ sent'[Len(sent)+1] = e
      /\ \A k \in 1..Len(sent) : sent'[k] = sent[k]
  BY <1>1, <1>2, AppendFacts
<1>7. /\ spc'[s] = "link" /\ back'[s] = bptr /\ spc[s] = "swap"
      /\ item' = item
      /\ \A u \in Senders \ {s} : spc'[u] = spc[u] /\ back'[u] = back[u]
  BY DEF TypeOK
<1>8. \A b, x : Linking(b, x)' <=> Linking(b, x) \/ (b = bptr /\ x = e)
  BY <1>7 DEF Linking
<1>9. \A u \in Senders : spc[u] = "link" => item[u] # e
  BY <1>2, <1>4 DEF LinkersOK
<1>10. MailedOnce'
  BY <1>1, <1>2, <1>6, <1>7 DEF MailedOnce
<1>11. LinkersOK'
  <2> SUFFICES ASSUME NEW u \in Senders, spc'[u] = "link"
               PROVE  /\ \/ back'[u] = None /\ q' # <<>> /\ item'[u] = q'[1]
                         \/ \E k \in 1..Len(q')-1 : back'[u] = q'[k] /\ item'[u] = q'[k+1]
                      /\ \A v \in Senders : spc'[v] = "link" /\ item'[v] = item'[u] => v = u
    BY DEF LinkersOK
  <2>1. CASE u = s
    <3>1. CASE q = <<>>
      BY <1>2, <1>3, <1>5, <1>7, <1>9, <2>1, <3>1 DEF QueueShape
    <3>2. CASE q # <<>>
      <4>1. Len(q) \in 1..Len(q')-1 /\ bptr = q'[Len(q)]
        BY <1>2, <1>5, <3>2, EmptySeq DEF QueueShape
      <4> QED BY <1>5, <1>7, <1>9, <2>1, <4>1
    <3> QED BY <3>1, <3>2
  <2>2. CASE u # s
    <3>1. spc[u] = "link" /\ back'[u] = back[u] /\ item'[u] = item[u]
      BY <1>7, <2>2
    <3>2. \A v \in Senders : spc'[v] = "link" /\ item'[v] = item'[u] => v = u
      BY <1>7, <1>9, <3>1 DEF LinkersOK
    <3>3. CASE back[u] = None /\ q # <<>> /\ item[u] = q[1]
      <4>1. 1 \in 1..Len(q)
        BY <1>2, <3>3, EmptySeq
      <4> QED BY <1>5, <3>1, <3>2, <3>3, <4>1
    <3>4. CASE \E k \in 1..Len(q)-1 : back[u] = q[k] /\ item[u] = q[k+1]
      <4> PICK k \in 1..Len(q)-1 : back[u] = q[k] /\ item[u] = q[k+1]
        BY <3>4
      <4>1. k \in 1..Len(q')-1 /\ q'[k] = q[k] /\ q'[k+1] = q[k+1]
        BY <1>2, <1>5
      <4> QED BY <3>1, <3>2, <4>1
    <3> QED BY <3>1, <3>3, <3>4 DEF LinkersOK
  <2> QED BY <2>1, <2>2
<1>12. LastOpen'
  BY <1>1, <1>2, <1>5 DEF LastOpen
<1>13. OwnerOK'
  BY <1>2, <1>6 DEF OwnerOK
<1>14. QueueShape'
  <2>1. bptr' = q'[Len(q')]
    BY <1>2, <1>5
  <2>2. ASSUME NEW k \in 1..Len(q')-1
        PROVE  \/ link[q'[k]] = q'[k+1] /\ ~Linking(q[k], q[k+1])'
               \/ link[q'[k]] = None /\ Linking(q[k], q[k+1])'
    <3>1. CASE k = Len(q)
      <4>1. q # <<>> /\ q'[k] = bptr /\ q'[k+1] = e /\ link[q[k]] = None
        BY <1>2, <1>5, <3>1, EmptySeq DEF QueueShape, LastOpen
      <4> QED BY <1>5, <1>8, <4>1
    <3>2. CASE k # Len(q)
      <4>1. k \in 1..Len(q)-1 /\ q'[k] = q[k] /\ q'[k+1] = q[k+1] /\ q[k+1] # e
        BY <1>2, <1>4, <1>5, <3>2
      <4> QED BY <1>8, <4>1 DEF QueueShape
    <3> QED BY <3>1, <3>2
  <2>3. \/ fptr' = q'[1] /\ ~Linking(None, q[1])'
        \/ /\ Linking(None, q[1])'
           /\ fptr' = None \/ (opc' = "reset" /\ fptr' = ptr')
    <3>1. CASE q = <<>>
      BY <1>2, <1>5, <1>8, <3>1 DEF QueueShape
    <3>2. CASE q # <<>>
      <4>1. 1 \in 1..Len(q) /\ q'[1] = q[1] /\ q[1] # e
        BY <1>2, <1>4, <1>5, <3>2, EmptySeq
      <4> QED BY <1>8, <3>2, <4>1 DEF QueueShape
    <3> QED BY <3>1, <3>2
  <2> QED BY <1>5, <2>1, <2>2, <2>3 DEF QueueShape
<1> QED BY <1>10, <1>11, <1>12, <1>13, <1>14

\* The sender stores the one link that was missing.
LEMMA LinkInQueue == ASSUME QInv, TypeOK', NEW s \in Senders, LinkIn(s) PROVE QInv'
<1> USE DEF QInv, LinkIn, STo, owner, signal
<1> DEFINE q == Waiting
           b == back[s]
           e == item[s]
<1>1. q' = q /\ UNCHANGED <<bptr, sent, opc, ptr, next, item>>
  BY DEF Waiting
<1>2. q \in Seq(Procs) /\ Len(q) \in Nat /\ \A k \in 1..Len(q) : q[k] \in Procs
  BY WaitingFacts
<1>3. /\ spc[s] = "link" /\ spc'[s] = "sync"
      /\ \A u \in Senders \ {s} : spc'[u] = spc[u] /\ back'[u] = back[u]
  BY DEF TypeOK
<1>4. \A u \in Senders \ {s} : spc[u] = "link" => item[u] # e
  BY <1>3 DEF LinkersOK
<1>5. \A c, x : Linking(c, x)' <=> Linking(c, x) /\ x # e
  BY <1>1, <1>3, <1>4 DEF Linking
<1>6. LinkersOK'
  BY <1>1, <1>3 DEF LinkersOK
<1>7. CASE b = None /\ q # <<>> /\ e = q[1]
  <2>1. fptr' = e /\ link' = link
    BY <1>7
  <2>2. MailedOnce' /\ LastOpen'
    BY <1>1, <1>3, <2>1 DEF MailedOnce, LastOpen
  <2>3. 1 \in 1..Len(q) /\ \A k \in 1..Len(q)-1 : k + 1 \in 1..Len(q) /\ q[k+1] # e
    BY <1>2, <1>7, WaitingDistinct, EmptySeq
  <2>4. Linking(None, q[1]) /\ q[1] \in Procs
    BY <1>2, <1>3, <1>7, <2>3 DEF Linking
  <2>5. OwnerOK'
    <3>1. opc \notin {"last", "cas", "link", "advance"}
      BY <2>4, MailAssumption, WaitingFacts DEF QueueShape, OwnerOK
    <3> QED BY <1>1, <3>1 DEF OwnerOK
  <2>6. QueueShape'
    BY <1>1, <1>5, <1>7, <2>1, <2>3 DEF QueueShape
  <2> QED BY <1>6, <2>2, <2>5, <2>6
<1>8. CASE \E k \in 1..Len(q)-1 : b = q[k] /\ e = q[k+1]
  <2> PICK k \in 1..Len(q)-1 : b = q[k] /\ e = q[k+1]
    BY <1>8
  <2>1. k \in 1..Len(q) /\ k + 1 \in 1..Len(q) /\ k # Len(q) /\ Len(q) \in 1..Len(q)
    BY <1>2
  <2>2. /\ b \in Procs /\ e \in Procs /\ fptr' = fptr /\ link'[b] = e
        /\ \A x \in Procs \ {b} : link'[x] = link[x]
    BY <1>2, <2>1, MailAssumption DEF TypeOK
  <2>3. MailedOnce'
    <3>1. \E j \in 1..Len(sent) : sent[j] = b
      BY <2>1, WaitingDistinct
    <3> QED BY <1>1, <1>3, <2>2, <3>1 DEF MailedOnce
  <2>4. LastOpen'
    BY <1>1, <1>2, <2>1, <2>2, WaitingDistinct DEF LastOpen
  <2>5. OwnerOK'
    <3>1. CASE opc = "advance"
      <4>1. q = sent /\ 1 \in 1..Len(q) /\ ptr = q[1] /\ next = q[2] /\ link[ptr] = next
        BY <1>2, <2>1, <3>1, WaitingFacts DEF OwnerOK
      <4>2. link'[ptr] = next
        <5>1. CASE b = ptr
          BY <2>1, <2>2, <4>1, <5>1, WaitingDistinct
        <5>2. CASE b # ptr
          BY <1>2, <2>2, <4>1, <5>2
        <5> QED BY <5>1, <5>2
      <4> QED BY <1>1, <2>2, <3>1, <4>1, <4>2 DEF OwnerOK
    <3>2. CASE opc # "advance"
      BY <1>1, <2>2, <3>2 DEF OwnerOK
    <3> QED BY <3>1, <3>2
  <2>6. QueueShape'
    <3>1. ASSUME NEW j \in 1..Len(q)-1
          PROVE  \/ link'[q[j]] = q[j+1] /\ ~Linking(q[j], q[j+1])'
                 \/ link'[q[j]] = None /\ Linking(q[j], q[j+1])'
      <4>1. j \in 1..Len(q) /\ j + 1 \in 1..Len(q) /\ q[j] \in Procs
        BY <1>2
      <4>2. CASE j = k
        BY <1>1, <1>5, <2>2, <4>2
      <4>3. CASE j # k
        <5>1. q[j] # b /\ q[j+1] # e
          BY <2>1, <4>1, <4>3, WaitingDistinct
        <5> QED BY <1>1, <1>5, <2>2, <4>1, <5>1 DEF QueueShape
      <4> QED BY <4>2, <4>3
    <3>2. 1 \in 1..Len(q) /\ q[1] # e
      BY <1>2, <2>1, WaitingDistinct
    <3> QED BY <1>1, <1>5, <2>2, <3>1, <3>2 DEF QueueShape
  <2> QED BY <1>6, <2>3, <2>4, <2>5, <2>6
<1> QED BY <1>3, <1>7, <1>8 DEF LinkersOK

\* When Bptr is the first process it is the only one, and it is linked.
LEMMA CasBackQueue == ASSUME QInv, TypeOK', CasBack PROVE QInv'
<1> USE DEF QInv, CasBack, OTo, sender, signal
<1>1. /\ sent \in Seq(Procs) /\ Len(sent) \in Nat /\ Waiting = sent
      /\ Len(sent) > 0 /\ sent # <<>>
  BY WaitingFacts, EmptySeq DEF OwnerOK, TypeOK
<1>2. fptr = ptr /\ ptr = sent[1] /\ 1 \in 1..Len(sent) /\ ptr \in Procs
  BY <1>1, EmptySeq DEF OwnerOK
<1>3. UNCHANGED <<fptr, link, sent, spc, item, back, ptr, next>>
  OBVIOUS
<1>4. CASE bptr = ptr
  <2>1. Len(sent) = 1
    <3>1. Len(sent) \in 1..Len(sent) /\ sent[Len(sent)] = sent[1]
      BY <1>1, <1>2, <1>4, EmptySeq DEF QueueShape
    <3> QED BY <1>2, <3>1 DEF MailedOnce
  <2>2. opc' = "reset" /\ bptr' = None
    BY <1>4
  <2>3. Tail(sent) \in Seq(Procs) /\ Len(Tail(sent)) = 0
    BY <1>1, <2>1, TailFacts
  <2>4. Waiting' = <<>> /\ Len(Waiting') = 0
    BY <1>3, <2>2, <2>3, EmptySeq DEF Waiting
  <2>5. ~Linking(None, sent[1])
    BY <1>1, <1>2, MailAssumption DEF QueueShape
  <2>6. \A s \in Senders : spc[s] # "link"
    BY <1>1, <2>1, <2>5 DEF LinkersOK, Linking
  <2>7. MailedOnce' /\ LinkersOK' /\ LastOpen' /\ OwnerOK'
    BY <1>2, <1>3, <2>2, <2>4, <2>6 DEF MailedOnce, LinkersOK, LastOpen, OwnerOK
  <2>8. QueueShape'
    BY <1>2, <1>3, <2>2, <2>4 DEF QueueShape
  <2> QED BY <2>7, <2>8
<1>5. CASE bptr # ptr
  <2>1. opc' = "link" /\ bptr' = bptr /\ opc = "cas"
    BY <1>5
  <2>2. Len(sent) > 1
    BY <1>1, <1>2, <1>5, EmptySeq DEF QueueShape
  <2>3. OwnerOK'
    BY <1>3, <2>1, <2>2 DEF OwnerOK
  <2>4. Waiting' = Waiting
    BY <1>1, <1>3, <2>1 DEF Waiting
  <2> QED BY <1>3, <2>1, <2>3, <2>4, QuietStep
<1> QED BY <1>4, <1>5

\* The CAS of Fptr hits the process that has been taken, or nothing.
LEMMA CasFrontQueue == ASSUME QInv, TypeOK', CasFront PROVE QInv'
<1> USE DEF QInv, CasFront, OTo, sender, signal
<1>1. UNCHANGED <<bptr, link, sent, spc, item, back, ptr, next>> /\ Waiting' = Waiting
  BY DEF Waiting
<1>2. \A b, p : Linking(b, p)' <=> Linking(b, p)
  BY <1>1 DEF Linking
<1>3. MailedOnce' /\ LinkersOK' /\ LastOpen' /\ OwnerOK'
  BY <1>1 DEF MailedOnce, LinkersOK, LastOpen, OwnerOK
<1>4. Len(Waiting) \in Nat /\ (Waiting # <<>> => Len(Waiting) > 0)
  BY WaitingFacts
<1>5. Waiting # <<>> => Waiting[1] # ptr
  BY <1>4, WaitingDistinct
<1>6. ptr \in Procs
  <2>1. sent \in Seq(Procs)
    BY DEF TypeOK
  <2> QED BY <2>1, EmptySeq DEF OwnerOK
<1>7. QueueShape'
  BY <1>1, <1>2, <1>5, <1>6, MailAssumption DEF QueueShape
<1> QED BY <1>3, <1>7

\* The owner takes the first process once its successor is linked.
LEMMA AdvanceQueue == ASSUME QInv, TypeOK', Advance PROVE QInv'
<1> USE DEF QInv, Advance, OTo, sender, signal
<1> DEFINE q == Waiting
<1>1. q = sent /\ sent \in Seq(Procs) /\ Len(sent) \in Nat /\ Len(sent) > 1 /\ sent # <<>>
  BY WaitingFacts, EmptySeq DEF OwnerOK, TypeOK
<1>2. /\ fptr = sent[1] /\ sent[1] \in Procs /\ next = sent[2] /\ sent[2] \in Procs
      /\ link[sent[1]] = sent[2]
  BY <1>1, EmptySeq DEF OwnerOK
<1>3. UNCHANGED <<bptr, link, sent, spc, item, back, ptr>> /\ fptr' = next
  OBVIOUS
<1>4. q' = Tail(sent)
  BY <1>3 DEF Waiting
<1>5. /\ Len(q') = Len(sent) - 1 /\ q' # <<>>
      /\ \A k \in 1..Len(sent)-1 : q'[k] = sent[k+1]
  <2>1. /\ Len(q') = Len(sent) - 1 /\ q' \in Seq(Procs)
        /\ \A k \in 1..Len(sent)-1 : q'[k] = sent[k+1]
    BY <1>1, <1>4, TailFacts
  <2>2. q' # <<>>
    BY <1>1, <2>1, EmptySeq
  <2> QED BY <2>1, <2>2
<1>6. \A b, p : Linking(b, p)' <=> Linking(b, p)
  BY <1>3 DEF Linking
<1>7. ~Linking(None, sent[1]) /\ ~Linking(sent[1], sent[2])
  BY <1>1, <1>2, MailAssumption DEF QueueShape
<1>8. ASSUME NEW s \in Senders, spc[s] = "link"
      PROVE  \E k \in 2..Len(sent)-1 : back[s] = sent[k] /\ item[s] = sent[k+1]
  <2>1. PICK k \in 1..Len(sent)-1 : back[s] = sent[k] /\ item[s] = sent[k+1]
    BY <1>1, <1>7, <1>8 DEF LinkersOK, Linking
  <2>2. k # 1
    BY <1>7, <1>8, <2>1 DEF Linking
  <2> QED BY <1>1, <2>1, <2>2
<1>9. LinkersOK'
  <2> SUFFICES ASSUME NEW s \in Senders, spc[s] = "link"
               PROVE  \E k \in 1..Len(q')-1 : back[s] = q'[k] /\ item[s] = q'[k+1]
    BY <1>3 DEF LinkersOK
  <2>1. PICK k \in 2..Len(sent)-1 : back[s] = sent[k] /\ item[s] = sent[k+1]
    BY <1>8
  <2>2. k - 1 \in 1..Len(q')-1 /\ q'[k-1] = sent[k] /\ q'[(k-1)+1] = sent[k+1]
    BY <1>1, <1>5
  <2> QED BY <2>1, <2>2
<1>10. MailedOnce' /\ OwnerOK'
  BY <1>3 DEF MailedOnce, OwnerOK
<1>11. LastOpen'
  BY <1>1, <1>3, <1>5 DEF LastOpen
<1>12. QueueShape'
  <2>1. bptr' = q'[Len(q')]
    BY <1>1, <1>3, <1>5 DEF QueueShape
  <2>2. ASSUME NEW k \in 1..Len(q')-1
        PROVE  \/ link'[q'[k]] = q'[k+1] /\ ~Linking(q[k], q[k+1])'
               \/ link'[q'[k]] = None /\ Linking(q[k], q[k+1])'
    <3>1. k + 1 \in 1..Len(sent)-1 /\ q'[k] = sent[k+1] /\ q'[k+1] = sent[(k+1)+1]
      BY <1>1, <1>5
    <3> QED BY <1>1, <1>3, <1>6, <3>1 DEF QueueShape
  <2>3. fptr' = q'[1] /\ ~Linking(None, q[1])'
    <3>1. q'[1] = sent[2] /\ fptr' = sent[2]
      BY <1>1, <1>2, <1>3, <1>5
    <3>2. \A s \in Senders : spc[s] = "link" => back[s] # None
      BY <1>1, <1>8, EmptySeq, MailAssumption
    <3> QED BY <1>3, <3>1, <3>2 DEF Linking
  <2> QED BY <1>5, <2>1, <2>2, <2>3 DEF QueueShape
<1> QED BY <1>9, <1>10, <1>11, <1>12

\* enqueue_process may use the Link word: the process is out of the queue.
LEMMA DeliverQueue == ASSUME QInv, TypeOK', Deliver PROVE QInv'
<1> USE DEF QInv, Deliver, OTo, sender, signal
<1>1. sent \in Seq(Procs) /\ Len(sent) \in Nat /\ sent # <<>> /\ ptr = sent[1] /\ Len(sent) > 0
  BY EmptySeq DEF OwnerOK, TypeOK
<1>2. Waiting' = Waiting /\ sent' = Tail(sent) /\ opc' = "front"
  BY DEF Waiting
<1>3. Len(sent') = Len(sent) - 1 /\ \A k \in 1..Len(sent)-1 : sent'[k] = sent[k+1]
  BY <1>1, <1>2, TailFacts
<1>4. UNCHANGED <<fptr, bptr, spc, item, back>>
  OBVIOUS
<1>5. ptr \in Procs /\ \A x \in Procs \ {ptr} : link'[x] = link[x]
  BY <1>1, EmptySeq DEF TypeOK
<1>6. \A k \in 1..Len(Waiting) : Waiting[k] # ptr /\ Waiting[k] \in Procs
  BY WaitingDistinct, WaitingFacts
<1>7. \A b, p : Linking(b, p)' <=> Linking(b, p)
  BY <1>4 DEF Linking
<1>8. MailedOnce'
  BY <1>1, <1>3, <1>4, <1>5 DEF MailedOnce
<1>9. LinkersOK' /\ OwnerOK'
  BY <1>2, <1>4 DEF LinkersOK, OwnerOK
<1>10. LastOpen'
  BY <1>2, <1>5, <1>6, WaitingFacts DEF LastOpen
<1>11. QueueShape'
  BY <1>2, <1>4, <1>5, <1>6, <1>7, WaitingFacts DEF QueueShape
<1> QED BY <1>8, <1>9, <1>10, <1>11

LEMMA QueueStep == QInv /\ [Next]_vars => QInv'
<1> SUFFICES ASSUME QInv, [Next]_vars PROVE QInv'
  OBVIOUS
<1>1. TypeOK'
  BY TypeStep DEF QInv
<1> USE <1>1 DEF queue, signal, sender, owner, STo, OTo
<1>2. CASE UNCHANGED vars
  <2>1. OwnerOK' /\ Waiting' = Waiting
    BY <1>2 DEF vars, QInv, OwnerOK, Waiting
  <2> QED BY <1>2, <2>1, QuietStep DEF vars
<1>3. ASSUME NEW s \in Senders, SendStep(s) \/ Offer(s) \/ \E p \in Procs : Send(s, p)
      PROVE  QInv'
  <2>1. CASE Swap(s) BY <2>1, SwapQueue
  <2>2. CASE LinkIn(s) BY <2>2, LinkInQueue
  <2>3. ASSUME NEW p \in Procs, Send(s, p) PROVE QInv' BY <2>3, SendQueue
  <2>4. CASE SetSync(s) \/ TestSleeping(s) \/ WakeClear(s) \/ WakeSync(s) \/ WakeWrite(s)
             \/ Offer(s)
    <3>1. UNCHANGED <<fptr, bptr, link, sent, opc, ptr, next, back>>
      BY <2>4 DEF SetSync, TestSleeping, WakeClear, WakeSync, WakeWrite, Offer
    <3>2. OwnerOK' /\ Waiting' = Waiting
      BY <3>1 DEF QInv, OwnerOK, Waiting
    <3>3. /\ spc[s] \notin {"swap", "link"} /\ spc'[s] \notin {"swap", "link"}
          /\ \A u \in Senders \ {s} : spc'[u] = spc[u] /\ item'[u] = item[u]
      BY <2>4 DEF SetSync, TestSleeping, WakeClear, WakeSync, WakeWrite, Offer, QInv, TypeOK
    <3> QED BY <3>1, <3>2, <3>3, QuietStep
  <2> QED BY <1>3, <2>1, <2>2, <2>3, <2>4 DEF SendStep
<1>4. CASE OwnerStep
  <2>1. CASE CasBack BY <2>1, CasBackQueue
  <2>2. CASE CasFront BY <2>2, CasFrontQueue
  <2>3. CASE Advance BY <2>3, AdvanceQueue
  <2>4. CASE Deliver BY <2>4, DeliverQueue
  <2> DEFINE Quiet == UNCHANGED <<fptr, bptr, link, sent, spc, item, back>>
  <2>5. ASSUME opc \notin {"reset", "deliver"}, opc' \notin {"reset", "deliver"}, Quiet, OwnerOK'
        PROVE  QInv'
    <3>1. Waiting' = Waiting
      BY <2>5 DEF Waiting
    <3> QED BY <2>5, <3>1, QuietStep
  <2>6. CASE Front
    <3>1. OwnerOK'
      <4>1. CASE fptr # None
        <5>1. Waiting = sent /\ opc' = "last" /\ ptr' = fptr
          BY <2>6, <4>1, WaitingFacts DEF QInv, Front
        <5>2. sent # <<>> /\ fptr = sent[1]
          BY <2>6, <4>1, <5>1 DEF QInv, QueueShape, Front
        <5> QED BY <2>6, <5>1, <5>2 DEF OwnerOK, Front
      <4>2. CASE fptr = None
        BY <2>6, <4>2 DEF OwnerOK, Front
      <4> QED BY <4>1, <4>2
    <3> QED BY <2>5, <2>6, <3>1 DEF Front
  <2>7. CASE Last
    <3>1. OwnerOK'
      <4>1. Waiting = sent /\ sent \in Seq(Procs) /\ sent # <<>>
        BY <2>7, WaitingFacts DEF QInv, Last, OwnerOK
      <4>2. Len(sent) \in Nat /\ Len(sent) # 0
        BY <4>1, EmptySeq
      <4>3. ptr # bptr => Len(sent) > 1
        BY <2>7, <4>1, <4>2 DEF QInv, QueueShape, Last, OwnerOK
      <4> QED BY <2>7, <4>3 DEF OwnerOK, Last, QInv
    <3> QED BY <2>5, <2>7, <3>1 DEF Last
  <2>8. CASE ReadLink
    <3>1. OwnerOK'
      <4>1. CASE link[ptr] = None
        BY <2>8, <4>1 DEF OwnerOK, ReadLink
      <4>2. CASE link[ptr] # None
        <5>1. Waiting = sent /\ sent \in Seq(Procs) /\ Len(sent) > 1 /\ ptr = sent[1]
          BY <2>8, WaitingFacts DEF QInv, ReadLink, OwnerOK
        <5>2. 1 \in 1..Len(sent)-1
          BY <5>1, EmptySeq
        <5>3. link[ptr] = sent[2]
          BY <4>2, <5>1, <5>2 DEF QInv, QueueShape
        <5>4. opc' = "advance" /\ next' = link[ptr] /\ UNCHANGED <<ptr, fptr, link, sent>>
          BY <2>8, <4>2 DEF ReadLink
        <5> QED BY <2>8, <5>1, <5>3, <5>4 DEF QInv, OwnerOK, ReadLink
      <4> QED BY <4>1, <4>2
    <3> QED BY <2>5, <2>8, <3>1 DEF ReadLink
  <2>9. CASE Top \/ Sleep \/ Check \/ Pause \/ Read \/ \E p \in Procs : Run(p)
    <3>1. OwnerOK'
      BY <2>9 DEF OwnerOK, Top, Sleep, Check, Pause, Read, Run
    <3> QED BY <2>5, <2>9, <3>1 DEF Top, Sleep, Check, Pause, Read, Run
  <2> QED BY <1>4, <2>1, <2>2, <2>3, <2>4, <2>6, <2>7, <2>8, <2>9 DEF OwnerStep
<1> QED BY <1>2, <1>3, <1>4 DEF Next

-----------------------------------------------------------------------------
(* The wake-up                                                             *)

\* When the owner leaves a queue that is not empty, a sender has yet to link.
LEMMA SignalledStep == QInv /\ Signalled /\ [Next]_vars => Signalled'
<1> SUFFICES ASSUME QInv, Signalled, [Next]_vars PROVE Signalled'
  OBVIOUS
<1> USE DEF Signalled, queue, signal, sender, owner, STo, OTo
<1>0. TypeOK
  BY DEF QInv
<1>1. CASE UNCHANGED vars
  BY <1>1 DEF vars
<1>2. ASSUME NEW s \in Senders, SendStep(s) \/ Offer(s) \/ \E p \in Procs : Send(s, p)
      PROVE  Signalled'
  <2>1. CASE Swap(s) BY <1>0, <2>1 DEF Swap, TypeOK
  <2>2. CASE LinkIn(s) BY <1>0, <2>2 DEF LinkIn, TypeOK
  <2>3. CASE SetSync(s) BY <2>3 DEF SetSync
  <2>4. CASE TestSleeping(s) \/ WakeClear(s) \/ WakeSync(s) \/ WakeWrite(s) \/ Offer(s)
             \/ \E p \in Procs : Send(s, p)
    <3>1. UNCHANGED <<sent, opc>> /\ sync \subseteq sync'
      BY <2>4 DEF TestSleeping, WakeClear, WakeSync, WakeWrite, Offer, Send
    <3>2. \A u \in Senders : spc[u] \in {"link", "sync"} => spc'[u] = spc[u]
      BY <1>0, <2>4 DEF TypeOK, TestSleeping, WakeClear, WakeSync, WakeWrite, Offer, Send
    <3> QED BY <3>1, <3>2
  <2> QED BY <1>2, <2>1, <2>2, <2>3, <2>4 DEF SendStep
<1>3. CASE OwnerStep
  <2>1. CASE Top BY <2>1 DEF Top
  <2>2. CASE Front
    <3>1. CASE fptr = None /\ sent # <<>>
      <4>1. Waiting = sent /\ sent \in Seq(Procs)
        BY <2>2, WaitingFacts DEF QInv, Front
      <4>2. sent[1] \in Procs
        BY <3>1, <4>1, EmptySeq
      <4>3. Linking(None, sent[1])
        BY <2>2, <3>1, <4>1, <4>2, MailAssumption DEF QInv, QueueShape, Front
      <4> QED BY <2>2, <4>3 DEF Front, Linking
    <3>2. CASE ~(fptr = None /\ sent # <<>>)
      BY <2>2, <3>2 DEF Front
    <3> QED BY <3>1, <3>2
  <2>3. CASE ReadLink
    <3>1. CASE link[ptr] = None
      <4>1. Waiting = sent /\ sent \in Seq(Procs) /\ Len(sent) > 1 /\ ptr = sent[1]
        BY <2>3, WaitingFacts DEF QInv, ReadLink, OwnerOK
      <4>2. 1 \in 1..Len(sent)-1 /\ sent[2] \in Procs
        BY <4>1, EmptySeq
      <4>3. Linking(sent[1], sent[2])
        BY <3>1, <4>1, <4>2, MailAssumption DEF QInv, QueueShape
      <4> QED BY <2>3, <4>3 DEF ReadLink, Linking
    <3>2. CASE link[ptr] # None
      BY <2>3, <3>2 DEF ReadLink
    <3> QED BY <3>1, <3>2
  <2>4. CASE Last \/ CasBack \/ CasFront \/ Advance \/ Deliver
    BY <2>4 DEF Last, CasBack, CasFront, Advance, Deliver
  <2>5. CASE Sleep \/ Check \/ Pause \/ Read \/ \E p \in Procs : Run(p)
    BY <2>5 DEF Sleep, Check, Pause, Read, Run
  <2> QED BY <1>3, <2>1, <2>2, <2>3, <2>4, <2>5 DEF OwnerStep
<1> QED BY <1>1, <1>2, <1>3 DEF Next

LEMMA AwakeStep == TypeOK /\ AwakeSeen /\ [Next]_vars => AwakeSeen'
<1> SUFFICES ASSUME TypeOK, AwakeSeen, [Next]_vars PROVE AwakeSeen'
  OBVIOUS
<1> USE DEF AwakeSeen, queue, signal, sender, owner, STo, OTo
<1>1. CASE UNCHANGED vars
  BY <1>1 DEF vars
<1>2. ASSUME NEW s \in Senders, SendStep(s) \/ Offer(s) \/ \E p \in Procs : Send(s, p)
      PROVE  AwakeSeen'
  <2>1. CASE WakeClear(s) BY <2>1 DEF WakeClear, TypeOK
  <2>2. CASE WakeSync(s) BY <2>2 DEF WakeSync
  <2>3. CASE SetSync(s) BY <2>3 DEF SetSync
  <2>4. CASE Swap(s) \/ LinkIn(s) \/ TestSleeping(s) \/ WakeWrite(s) \/ Offer(s)
             \/ \E p \in Procs : Send(s, p)
    <3>1. UNCHANGED <<sync, opc, sleeping>>
      BY <2>4 DEF Swap, LinkIn, TestSleeping, WakeWrite, Offer, Send
    <3>2. \A u \in Senders : spc[u] = "again" => spc'[u] = "again"
      BY <2>4 DEF TypeOK, Swap, LinkIn, TestSleeping, WakeWrite, Offer, Send
    <3> QED BY <3>1, <3>2
  <2> QED BY <1>2, <2>1, <2>2, <2>3, <2>4 DEF SendStep
<1>3. CASE OwnerStep
  <2>1. CASE Top \/ Front \/ Last \/ CasBack \/ CasFront \/ ReadLink \/ Advance \/ Deliver
             \/ \E p \in Procs : Run(p)
    <3>1. opc' \notin {"check", "pause", "read"}
      BY <2>1 DEF Top, Front, Last, CasBack, CasFront, ReadLink, Advance, Deliver, Run
    <3> QED BY <3>1
  <2>2. CASE Sleep BY <2>2 DEF Sleep
  <2>3. CASE Check BY <2>3 DEF Check
  <2>4. CASE Pause BY <2>4 DEF Pause
  <2>5. CASE Read BY <2>5 DEF Read
  <2> QED BY <1>3, <2>1, <2>2, <2>3, <2>4, <2>5 DEF OwnerStep
<1> QED BY <1>1, <1>2, <1>3 DEF Next

\* The sender that sets the sync bit of a blocked owner, or another one, goes on
\* to write the pipe.
LEMMA CoveredStep == WInv /\ Signalled' /\ AwakeSeen' /\ [Next]_vars => AsleepCovered'
<1> SUFFICES ASSUME WInv, Signalled', AwakeSeen', [Next]_vars,
                    opc' = "read", pipe' = 0, sync' # {}
             PROVE  \E s \in Senders : \/ spc'[s] \in {"clear", "again", "write"}
                                       \/ sleeping' /\ spc'[s] \in {"link", "sync", "test"}
  BY DEF AsleepCovered, Signalled, AwakeSeen
<1> USE DEF queue, signal, sender, owner, STo, OTo
<1>0. TypeOK /\ AwakeSeen /\ AsleepCovered
  BY DEF WInv, QInv
<1>1. CASE UNCHANGED vars
  BY <1>0, <1>1 DEF vars, AsleepCovered
<1>2. ASSUME NEW s \in Senders, SendStep(s) \/ Offer(s) \/ \E p \in Procs : Send(s, p)
      PROVE  \E u \in Senders : \/ spc'[u] \in {"clear", "again", "write"}
                                \/ sleeping' /\ spc'[u] \in {"link", "sync", "test"}
  <2>1. CASE WakeClear(s) \/ WakeSync(s) \/ Offer(s)
    BY <1>0, <2>1 DEF WakeClear, WakeSync, Offer, TypeOK
  <2>2. CASE WakeWrite(s)
    <3>1. pipe' # 0
      BY <1>0, <2>2, MailAssumption DEF WakeWrite, TypeOK
    <3> QED BY <3>1
  <2>3. CASE SetSync(s)
    BY <1>0, <2>3 DEF SetSync, TypeOK, AsleepCovered, AwakeSeen
  <2>4. CASE TestSleeping(s)
    BY <1>0, <2>4 DEF TestSleeping, TypeOK, AsleepCovered
  <2>5. CASE Swap(s) \/ LinkIn(s) \/ \E p \in Procs : Send(s, p)
    <3>1. UNCHANGED <<sync, opc, sleeping, pipe>>
      BY <2>5 DEF Swap, LinkIn, Send
    <3>2. \A u \in Senders : /\ spc[u] \in {"clear", "again", "write"} => spc'[u] = spc[u]
                             /\ spc[u] \in {"link", "sync", "test"} =>
                                  spc'[u] \in {"link", "sync", "test"}
      BY <1>0, <2>5 DEF TypeOK, Swap, LinkIn, Send
    <3> QED BY <1>0, <3>1, <3>2 DEF AsleepCovered
  <2> QED BY <1>2, <2>1, <2>2, <2>3, <2>4, <2>5 DEF SendStep
<1>3. CASE OwnerStep
  <2>1. opc' # "read" \/ (Pause /\ sync' = {})
    BY <1>3 DEF OwnerStep, Top, Front, Last, CasBack, CasFront, ReadLink, Advance, Deliver, Run,
                Sleep, Check, Read, Pause
  <2> QED BY <2>1
<1> QED BY <1>2, <1>1, <1>3 DEF Next

-----------------------------------------------------------------------------
LEMMA QueueInvariance == Spec => []QInv
  BY QueueInit, QueueStep, PTL DEF Spec

LEMMA WakeInvariance == Spec => []WInv
<1>1. Init => WInv
  BY QueueInit DEF Init, WInv, Signalled, AwakeSeen, AsleepCovered
<1>2. WInv /\ [Next]_vars => WInv'
  <2> SUFFICES ASSUME WInv, [Next]_vars PROVE WInv'
    OBVIOUS
  <2>1. QInv' /\ Signalled' /\ AwakeSeen'
    BY QueueStep, SignalledStep, AwakeStep DEF WInv, QInv
  <2> QED BY <2>1, CoveredStep DEF WInv
<1> QED BY <1>1, <1>2, PTL DEF Spec

\* atomic_enqueue_to_runqueue and atomic_dequeue_from_runqueue make a queue, for
\* any number of senders and processes: no link is lost or made twice, whatever
\* the owner meets half linked, and mail is delivered in the order of the swaps.
THEOREM QueueCorrect == Spec => []QueueSound
<1>1. QInv => QueueSound
  <2> SUFFICES ASSUME QInv PROVE QueueSound
    OBVIOUS
  <2>1. Fifo
    BY DEF QInv, OwnerOK, Fifo, TypeOK
  <2> QED BY <2>1 DEF QInv, QueueSound
<1> QED BY QueueInvariance, <1>1, PTL

\* ccsp_safe_pause, mail_process and ccsp_wake_thread lose no wake-up, for any
\* number of senders and any size of the pipe.
THEOREM NoLostWakeup == Spec => []AsleepCovered
  BY WakeInvariance, PTL DEF WInv
==============================================================================
