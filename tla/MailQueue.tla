------------------------------ MODULE MailQueue ------------------------------
(***************************************************************************)
(* The mail queue of one scheduler thread: the lock-free queue of          *)
(* processes that other threads send it (sched.c: mail_process,            *)
(* atomic_enqueue_to_runqueue, atomic_dequeue_from_runqueue) and the way   *)
(* its owner sleeps and is woken (sched.c: kernel_scheduler; userproc.c:   *)
(* ccsp_wake_thread, ccsp_safe_pause).  mail_batch runs the same code on a *)
(* queue of batches.                                                       *)
(*                                                                         *)
(* A sender adds a process with one swap of Bptr and links it with a       *)
(* second store, so the owner can meet a queue whose last elements are not *)
(* linked yet: it then takes nothing more and relies on the sync bit that  *)
(* the sender sets after linking.  Each access to a shared word is a step; *)
(* memory is sequentially consistent.                                      *)
(***************************************************************************)
EXTENDS Naturals, Sequences, FiniteSets

CONSTANTS Procs,     \* processes, each named by its workspace
          Senders,   \* the other threads
          None,      \* NULL
          PipeCap    \* bytes that the signalling pipe holds

ASSUME MailAssumption == /\ Procs # {} /\ Senders # {} /\ None \notin Procs
                         /\ PipeCap \in Nat \ {0}

VARIABLES
  fptr, bptr,   \* the queue
  link,         \* Wptr[Link] of each process
  sync,         \* sched->sync
  sleeping,     \* this thread's bit in sleeping_threads
  pipe,         \* bytes in the signalling pipe
  spc,          \* where each sender is
  item,         \* the process a sender mails
  back,         \* the sender's copy of the old Bptr
  opc,          \* where the owner is
  ptr, next,    \* locals of atomic_dequeue_from_runqueue
  ready,        \* processes on the owner's own queue
  sent          \* history: processes in the mail, in the order of the swaps

queue  == <<fptr, bptr, link>>
signal == <<sync, sleeping, pipe>>
sender == <<spc, item, back>>
owner  == <<opc, ptr, next>>
vars   == <<queue, signal, sender, owner, ready, sent>>

Ptr  == Procs \cup {None}
Bits == {"mail", "work"}     \* SYNC_PMAIL, SYNC_WORK

\* wake bit: the one that ccsp_wake_thread sets again
WakeBit(s) == IF item[s] = None THEN "work" ELSE "mail"

TypeOK ==
  /\ fptr \in Ptr /\ bptr \in Ptr /\ link \in [Procs -> Ptr]
  /\ sync \subseteq Bits /\ sleeping \in BOOLEAN /\ pipe \in 0..PipeCap
  /\ spc \in [Senders -> {"idle", "swap", "link", "sync", "test", "clear", "again", "write"}]
  /\ item \in [Senders -> Ptr] /\ back \in [Senders -> Ptr]
  /\ opc \in {"top", "front", "last", "cas", "reset", "link", "advance", "deliver",
              "work", "check", "pause", "read"}
  /\ ptr \in Ptr /\ next \in Ptr
  /\ ready \subseteq Procs /\ sent \in Seq(Procs)

Init ==
  /\ fptr = None /\ bptr = None
  /\ link \in [Procs -> Ptr]      \* workspaces are not cleared
  /\ sync = {} /\ sleeping = FALSE /\ pipe = 0
  /\ spc = [s \in Senders |-> "idle"]
  /\ item = [s \in Senders |-> None] /\ back = [s \in Senders |-> None]
  /\ opc = "top" /\ ptr = None /\ next = None
  /\ ready = {} /\ sent = <<>>

InMail  == {sent[k] : k \in 1..Len(sent)}
InSend  == {item[s] : s \in {u \in Senders : spc[u] = "swap"}}
\* A process that is blocked, so that some thread may make it ready.
Mailable == Procs \ (ready \cup InMail \cup InSend \cup {ptr})

STo(s, l) == spc' = [spc EXCEPT ![s] = l]
OTo(l)    == opc' = l

-----------------------------------------------------------------------------
(* The senders                                                             *)

\* mail_process: a process bound to this thread becomes ready; its Link is
\* cleared before it is visible to the owner.
Send(s, p) ==
  /\ spc[s] = "idle" /\ p \in Mailable
  /\ item' = [item EXCEPT ![s] = p]
  /\ link' = [link EXCEPT ![p] = None]
  /\ STo(s, "swap")
  /\ UNCHANGED <<fptr, bptr, signal, back, owner, ready, sent>>

\* kernel_scheduler: a thread that has work to give away wakes a sleeper.
Offer(s) ==
  /\ spc[s] = "idle" /\ sleeping
  /\ STo(s, "clear")
  /\ UNCHANGED <<queue, signal, item, back, owner, ready, sent>>

Swap(s) ==
  /\ spc[s] = "swap"
  /\ back' = [back EXCEPT ![s] = bptr]
  /\ bptr' = item[s]
  /\ sent' = Append(sent, item[s])
  /\ STo(s, "link")
  /\ UNCHANGED <<fptr, link, signal, item, owner, ready>>

\* Mutant of LinkIn: only the mail that starts a queue is signalled.
LinkInQuiet(s) ==
  /\ spc[s] = "link"
  /\ IF back[s] = None
       THEN fptr' = item[s] /\ STo(s, "sync") /\ UNCHANGED <<link, item>>
       ELSE /\ link' = [link EXCEPT ![back[s]] = item[s]]
            /\ item' = [item EXCEPT ![s] = None]
            /\ STo(s, "idle") /\ UNCHANGED fptr
  /\ back' = [back EXCEPT ![s] = None]
  /\ UNCHANGED <<bptr, signal, owner, ready, sent>>

LinkIn(s) ==
  /\ spc[s] = "link"
  /\ IF back[s] = None
       THEN fptr' = item[s] /\ UNCHANGED link
       ELSE link' = [link EXCEPT ![back[s]] = item[s]] /\ UNCHANGED fptr
  /\ back' = [back EXCEPT ![s] = None]
  /\ STo(s, "sync")
  /\ UNCHANGED <<bptr, signal, item, owner, ready, sent>>

SetSync(s) ==
  /\ spc[s] = "sync"
  /\ sync' = sync \cup {"mail"}
  /\ STo(s, "test")
  /\ UNCHANGED <<queue, sleeping, pipe, item, back, owner, ready, sent>>

\* if (sleeping_threads & s->id) ccsp_wake_thread (s, SYNC_PMAIL_BIT)
TestSleeping(s) ==
  /\ spc[s] = "test"
  /\ IF sleeping THEN STo(s, "clear") /\ UNCHANGED item
     ELSE STo(s, "idle") /\ item' = [item EXCEPT ![s] = None]
  /\ UNCHANGED <<queue, signal, back, owner, ready, sent>>

WakeClear(s) ==
  /\ spc[s] = "clear"
  /\ sleeping' = FALSE
  /\ STo(s, "again")
  /\ UNCHANGED <<queue, sync, pipe, item, back, owner, ready, sent>>

WakeSync(s) ==
  /\ spc[s] = "again"
  /\ sync' = sync \cup {WakeBit(s)}
  /\ STo(s, "write")
  /\ UNCHANGED <<queue, sleeping, pipe, item, back, owner, ready, sent>>

\* The pipe does not block its writers: a byte that does not fit is dropped.
WakeWrite(s) ==
  /\ spc[s] = "write"
  /\ pipe' = IF pipe < PipeCap THEN pipe + 1 ELSE pipe
  /\ item' = [item EXCEPT ![s] = None]
  /\ STo(s, "idle")
  /\ UNCHANGED <<queue, sync, sleeping, back, owner, ready, sent>>

-----------------------------------------------------------------------------
(* The owner: kernel_scheduler and atomic_dequeue_from_runqueue            *)

\* sync = att_swap (&(sched->sync), 0)
Top ==
  /\ opc = "top"
  /\ sync' = {}
  /\ OTo(IF "mail" \in sync THEN "front" ELSE "work")
  /\ UNCHANGED <<queue, sleeping, pipe, sender, ptr, next, ready, sent>>

Front ==
  /\ opc = "front"
  /\ ptr' = fptr
  /\ OTo(IF fptr = None THEN "work" ELSE "last")
  /\ UNCHANGED <<queue, signal, sender, next, ready, sent>>

Last ==
  /\ opc = "last"
  /\ OTo(IF ptr = bptr THEN "cas" ELSE "link")
  /\ UNCHANGED <<queue, signal, sender, ptr, next, ready, sent>>

CasBack ==
  /\ opc = "cas"
  /\ IF bptr = ptr THEN bptr' = None /\ OTo("reset")
     ELSE OTo("link") /\ UNCHANGED bptr
  /\ UNCHANGED <<fptr, link, signal, sender, ptr, next, ready, sent>>

\* Mutant of CasFront: a plain store.
CasFrontStore ==
  /\ opc = "reset"
  /\ fptr' = None
  /\ OTo("deliver")
  /\ UNCHANGED <<bptr, link, signal, sender, ptr, next, ready, sent>>

\* A sender may have started a new queue by now: Fptr is cleared with a CAS.
CasFront ==
  /\ opc = "reset"
  /\ fptr' = IF fptr = ptr THEN None ELSE fptr
  /\ OTo("deliver")
  /\ UNCHANGED <<bptr, link, signal, sender, ptr, next, ready, sent>>

\* No successor yet: a sender has still to link it, and will set sync.
ReadLink ==
  /\ opc = "link"
  /\ next' = link[ptr]
  /\ IF link[ptr] = None THEN OTo("work") /\ ptr' = None
     ELSE OTo("advance") /\ UNCHANGED ptr
  /\ UNCHANGED <<queue, signal, sender, ready, sent>>

Advance ==
  /\ opc = "advance"
  /\ fptr' = next
  /\ next' = None
  /\ OTo("deliver")
  /\ UNCHANGED <<bptr, link, signal, sender, ptr, ready, sent>>

\* enqueue_process on the owner's own queue, which uses the Link word again.
Deliver ==
  /\ opc = "deliver"
  /\ ready' = ready \cup {ptr}
  /\ link' = [link EXCEPT ![ptr] = None]
  /\ sent' = Tail(sent)
  /\ ptr' = None
  /\ OTo("front")
  /\ UNCHANGED <<fptr, bptr, signal, sender, next>>

\* A ready process runs until it blocks.
Run(p) ==
  /\ opc = "work" /\ p \in ready
  /\ ready' = ready \ {p}
  /\ OTo("top")
  /\ UNCHANGED <<queue, signal, sender, ptr, next, sent>>

\* Nothing to run.
Sleep ==
  /\ opc = "work" /\ ready = {}
  /\ sleeping' = TRUE
  /\ OTo("check")
  /\ UNCHANGED <<queue, sync, pipe, sender, ptr, next, ready, sent>>

Check ==
  /\ opc = "check"
  /\ IF sync = {} THEN OTo("pause") /\ UNCHANGED sleeping
     ELSE OTo("top") /\ sleeping' = FALSE
  /\ UNCHANGED <<queue, sync, pipe, sender, ptr, next, ready, sent>>

\* ccsp_safe_pause: sync is swapped with 0 and put back when it was not 0.
\* Nobody but this thread reads it, so the two are one step.
Pause ==
  /\ opc = "pause"
  /\ OTo(IF sync = {} THEN "read" ELSE "top")
  /\ UNCHANGED <<queue, signal, sender, ptr, next, ready, sent>>

Read ==
  /\ opc = "read" /\ pipe > 0
  /\ pipe' = pipe - 1
  /\ OTo("pause")
  /\ UNCHANGED <<queue, sync, sleeping, sender, ptr, next, ready, sent>>

-----------------------------------------------------------------------------
SendStep(s) == \/ Swap(s) \/ LinkIn(s) \/ SetSync(s) \/ TestSleeping(s)
               \/ WakeClear(s) \/ WakeSync(s) \/ WakeWrite(s)

OwnerStep == \/ Top \/ Front \/ Last \/ CasBack \/ CasFront \/ ReadLink \/ Advance
             \/ Deliver \/ Sleep \/ Check \/ Pause \/ Read
             \/ \E p \in Procs : Run(p)

Next == \/ \E s \in Senders : SendStep(s) \/ Offer(s) \/ \E p \in Procs : Send(s, p)
        \/ OwnerStep

Spec == Init /\ [][Next]_vars

-----------------------------------------------------------------------------
(* Properties                                                              *)

\* Mail that the owner has not taken out of the queue yet.
Waiting == IF opc \in {"reset", "deliver"} THEN Tail(sent) ELSE sent

\* A sender that has swapped itself in behind b and has still to link p.
Linking(b, p) == \E s \in Senders : spc[s] = "link" /\ back[s] = b /\ item[s] = p

\* The queue is the mail not yet taken, in the order of the swaps: every link
\* is in place or a sender is about to make it, also where the owner empties
\* the queue while a sender starts it again.
QueueShape ==
  LET q == Waiting IN
    /\ bptr = IF q = <<>> THEN None ELSE q[Len(q)]
    /\ \A k \in 1..Len(q)-1 :
         \/ link[q[k]] = q[k+1] /\ ~Linking(q[k], q[k+1])
         \/ link[q[k]] = None /\ Linking(q[k], q[k+1])
    /\ \/ q # <<>> /\ fptr = q[1] /\ ~Linking(None, q[1])
       \/ /\ q # <<>> => Linking(None, q[1])
          /\ fptr = None \/ (opc = "reset" /\ fptr = ptr)

\* Mail is delivered in the order of the swaps, each process once.
Fifo == opc = "deliver" => sent # <<>> /\ ptr = Head(sent)

\* runqueue_atomic_enqueue and runqueue_atomic_dequeue make a queue.
QueueSound == TypeOK /\ QueueShape /\ Fifo

\* No wakeup is lost: while the owner sits in read() on an empty pipe and there
\* is mail, or a signal it has not seen, some sender is going to write the
\* pipe: it is waking the owner, or will find it marked as sleeping.
AsleepCovered ==
  opc = "read" /\ pipe = 0 /\ (sent # <<>> \/ sync # {}) =>
    \E s \in Senders : \/ spc[s] \in {"clear", "again", "write"}
                       \/ sleeping /\ spc[s] \in {"link", "sync", "test"}
==============================================================================
