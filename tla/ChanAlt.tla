------------------------------- MODULE ChanAlt -------------------------------
(***************************************************************************)
(* Channel communication and ALTs in the CCSP kernel (sched.c: channels,   *)
(* ALTing, trigger_alt_guard).  A channel is one word: empty, or the       *)
(* workspace of the process that came first, tagged in bit 0 when that     *)
(* process is in an ALT.  Nothing but that word, and the State word of the *)
(* alternating process, synchronises the two ends.                         *)
(*                                                                         *)
(* The instance is one process that inputs, with an ALT, an extended input *)
(* or a plain one, and one process that outputs on each channel.           *)
(* Processes run in parallel, as they do when there are threads enough;    *)
(* fewer threads only remove interleavings.  Each operation on a shared    *)
(* word is one step; memory is sequentially consistent.                    *)
(*                                                                         *)
(* Style is the code that drives the ALT:                                  *)
(*   "enbc3"   what occ21 generates (gen10.c): Y_enbc3 jumps to the        *)
(*             disabling sequence at the first ready guard; guards are     *)
(*             disabled in reverse order with X_ndisc;                     *)
(*   "procalt" cif.h, ProcAlt: X_cenbc, no AltWait when a guard fired,     *)
(*             guards disabled in order up to that one with X_cdisc;       *)
(*   "raw"     cift14-c.c: X_cenbc for every guard, AltWait, X_cdisc.      *)
(***************************************************************************)
EXTENDS Integers, FiniteSets

CONSTANTS N,            \* number of channels
          Style         \* "enbc3", "procalt" or "raw"

ASSUME ChanAltAssumption == N \in Nat \ {0} /\ Style \in {"enbc3", "procalt", "raw"}

Channels == 1..N
Reader   == 0                       \* the inputting process
Procs    == {Reader} \cup Channels  \* process c outputs on channel c

VARIABLES chan,   \* the channel words: "none", "writer", "reader" or "alt"
          slot,   \* the reader's Pointer/State word (offset -4 is both)
          pc,     \* where each process is
          st,     \* local copy of State: Y_altwt's, and each trigger's
          temp,   \* Wptr[Temp]: the selected guard (0: NoneSelected_o)
          guards, \* the guards of the ALT whose precondition is true
          i,      \* the guard being enabled or disabled, or the channel input
          fired,  \* ProcAlt's fired (0: -1)
          val,    \* the value each writer outputs (successive ones differ)
          buf,    \* history: the last value input from each channel
          first   \* history: the first guard that was ready when the ALT began

altVars == <<temp, guards, fired, first>>
vars    == <<chan, slot, pc, st, i, val, buf, altVars>>

\* The State word: a count and three flags.
State(n, e, w, nr) == [alt |-> TRUE, n |-> n, enabling |-> e, waiting |-> w, notReady |-> nr]
Pointer == [alt |-> FALSE, n |-> 0, enabling |-> FALSE, waiting |-> FALSE, notReady |-> FALSE]
Counted(n) == State(n, FALSE, FALSE, FALSE)   \* a count without flags

\* Blocked processes, and where each goes on when it is scheduled again.
Blocked == {"b_altwt", "b_altend", "b_in", "b_xable", "b_out"}
Resumed(l) == CASE l = "b_altwt"  -> "dis"
                [] l = "b_altend" -> "sel"
                [] l = "b_xable"  -> "xin"
                [] OTHER          -> "idle"

WriterPC == {"idle", "w_swap", "w_take", "w_copy", "w_trig", "w_cas", "w_enq", "b_out"}
ReaderPC == {"idle", "enb", "e_swap", "e_inc", "e_restore", "e_test", "e_clear",
             "altwt", "a_cas", "a_clear", "dis", "d_cas", "d_dec", "end", "e_dec",
             "sel", "r_swap", "r_take", "r_copy", "r_enq", "xable", "x_swap",
             "x_restore", "xin", "xend", "x_enq"} \cup (Blocked \ {"b_out"})

TypeOK == /\ chan   \in [Channels -> {"none", "writer", "reader", "alt"}]
          /\ slot   \in [alt : BOOLEAN, n : 0..N+1, enabling : BOOLEAN,
                         waiting : BOOLEAN, notReady : BOOLEAN]
          /\ pc[Reader] \in ReaderPC /\ \A c \in Channels : pc[c] \in WriterPC
          /\ temp   \in 0..N /\ i \in 0..N+1 /\ fired \in 0..N /\ first \in 0..N
          /\ guards \subseteq Channels
          /\ val    \in [Channels -> 0..1] /\ buf \in [Channels -> 0..1]

Init == /\ chan   = [c \in Channels |-> "none"]
        /\ slot   = Pointer
        /\ pc     = [p \in Procs |-> "idle"]
        /\ st     = [p \in Procs |-> Pointer]
        /\ temp   \in 0..N          \* whatever the workspace held
        /\ i = 0 /\ fired = 0 /\ first = 0
        /\ guards = {}
        /\ val    = [c \in Channels |-> 0]
        /\ buf    = [c \in Channels |-> 0]

Goto(p, l) == pc' = [pc EXCEPT ![p] = l]
At(l)      == pc[Reader] = l
Move(l)    == Goto(Reader, l)
Set(c, w)  == chan' = [chan EXCEPT ![c] = w]

-----------------------------------------------------------------------------
(* Output: kernel_chan_io (CIO_OUTPUT) by process c on channel c.          *)

\* temp = *channel.  An empty channel or an ALT is swapped; else a reader waits.
Out(c) ==
  /\ pc[c] = "idle"
  /\ val' = [val EXCEPT ![c] = 1 - val[c]]
  /\ Goto(c, IF chan[c] \in {"none", "alt"} THEN "w_swap" ELSE "w_take")
  /\ UNCHANGED <<chan, slot, st, i, buf, altVars>>

\* Mutant of OutSwap: a reader that arrived since the word was read is not seen.
OutSwapBlind(c) ==
  /\ pc[c] = "w_swap"
  /\ Set(c, "writer")
  /\ Goto(c, IF chan[c] = "alt" THEN "w_trig" ELSE "b_out")
  /\ UNCHANGED <<slot, st, i, val, buf, altVars>>

OutSwap(c) ==
  /\ pc[c] = "w_swap"
  /\ Set(c, "writer")
  /\ Goto(c, CASE chan[c] = "none"   -> "b_out"
               [] chan[c] = "alt"    -> "w_trig"
               [] chan[c] = "reader" -> "w_take")
  /\ UNCHANGED <<slot, st, i, val, buf, altVars>>

\* *channel = NotProcess
OutTake(c) ==
  /\ pc[c] = "w_take"
  /\ Set(c, "none")
  /\ Goto(c, "w_copy")
  /\ UNCHANGED <<slot, st, i, val, buf, altVars>>

\* The copy to the reader's Pointer, then reschedule_point: both go on.
OutCopy(c) ==
  /\ pc[c] = "w_copy"
  /\ buf' = [buf EXCEPT ![c] = val[c]]
  /\ pc' = [pc EXCEPT ![c] = "idle", ![Reader] = Resumed(pc[Reader])]
  /\ i' = 0
  /\ UNCHANGED <<chan, slot, st, val, altVars>>

-----------------------------------------------------------------------------
(* trigger_alt_guard, by the thread of a writer that took an ALT's word.   *)

TriggerRead(c) ==
  /\ pc[c] = "w_trig"
  /\ st' = [st EXCEPT ![c] = slot]
  /\ Goto(c, "w_cas")
  /\ UNCHANGED <<chan, slot, i, val, buf, altVars>>

\* nstate = (state - 1) & ~(ALT_NOT_READY | ALT_WAITING)
Triggered(s) == [s EXCEPT !.n = @ - 1, !.waiting = FALSE, !.notReady = FALSE]

\* Mutant of TriggerCas: only a process waiting in Y_altwt is woken.
TriggerCasWaitingOnly(c) ==
  /\ pc[c] = "w_cas"
  /\ IF slot = st[c]
       THEN /\ slot' = Triggered(slot)
            /\ Goto(c, IF slot.waiting THEN "w_enq" ELSE "b_out")
       ELSE Goto(c, "w_trig") /\ UNCHANGED slot
  /\ st' = [st EXCEPT ![c] = Pointer]
  /\ UNCHANGED <<chan, i, val, buf, altVars>>

TriggerCas(c) ==
  /\ pc[c] = "w_cas"
  /\ IF slot = st[c]
       THEN /\ slot' = Triggered(slot)
            /\ Goto(c, IF slot.waiting \/ Triggered(slot) = Counted(0)
                         THEN "w_enq" ELSE "b_out")
       ELSE Goto(c, "w_trig") /\ UNCHANGED slot
  /\ st' = [st EXCEPT ![c] = Pointer]
  /\ UNCHANGED <<chan, i, val, buf, altVars>>

\* enqueue_process: the alternating process is put on a run queue.
TriggerEnqueue(c) ==
  /\ pc[c] = "w_enq"
  /\ pc' = [pc EXCEPT ![c] = "b_out", ![Reader] = Resumed(pc[Reader])]
  /\ UNCHANGED <<chan, slot, st, i, val, buf, altVars>>

-----------------------------------------------------------------------------
(* Input: kernel_chan_io (CIO_INPUT), plain and extended.                   *)

\* temp = *channel; Wptr[Pointer] is written when the word is to be swapped.
InFrom(c) ==
  /\ IF chan[c] \in {"none", "alt"}
       THEN slot' = Pointer /\ Move("r_swap")
       ELSE Move("r_take") /\ UNCHANGED slot
  /\ i' = c
  /\ UNCHANGED <<chan, st, val, buf>>

In(c) == At("idle") /\ InFrom(c) /\ UNCHANGED altVars

\* An ALT's branch starts with the input it selected.
InSelected ==
  /\ At("sel") /\ temp \in Channels
  /\ InFrom(temp)
  /\ guards' = {} /\ fired' = 0 /\ first' = 0
  /\ UNCHANGED temp

InSwap ==
  /\ At("r_swap")
  /\ Set(i, "reader")
  /\ Move(IF chan[i] = "none" THEN "b_in" ELSE "r_take")
  /\ UNCHANGED <<slot, st, i, val, buf, altVars>>

InTake ==
  /\ At("r_take")
  /\ Set(i, "none")
  /\ Move("r_copy")
  /\ UNCHANGED <<slot, st, i, val, buf, altVars>>

InCopy ==
  /\ At("r_copy")
  /\ buf' = [buf EXCEPT ![i] = val[i]]
  /\ Move("r_enq")
  /\ UNCHANGED <<chan, slot, st, i, val, altVars>>

\* reschedule_point: the writer is enqueued and the reader goes on.
InEnqueue ==
  /\ pc[Reader] \in {"r_enq", "x_enq"}
  /\ pc' = [pc EXCEPT ![Reader] = "idle", ![i] = Resumed(pc[i])]
  /\ i' = 0
  /\ UNCHANGED <<chan, slot, st, val, buf, altVars>>

\* Y_xable: wait, as an ALT of one guard would, until a writer is there.
Xable(c) ==
  /\ At("idle")
  /\ IF chan[c] \in {"none", "alt"}
       THEN slot' = State(1, FALSE, TRUE, FALSE) /\ Move("x_swap")
       ELSE Move("xin") /\ UNCHANGED slot
  /\ i' = c
  /\ UNCHANGED <<chan, st, val, buf, altVars>>

XableSwap ==
  /\ At("x_swap")
  /\ Set(i, "alt")
  /\ Move(IF chan[i] = "none" THEN "b_xable" ELSE "x_restore")
  /\ UNCHANGED <<slot, st, i, val, buf, altVars>>

\* *channel = temp, the writer that was already there
XableRestore ==
  /\ At("x_restore")
  /\ Set(i, "writer")
  /\ Move("xin")
  /\ UNCHANGED <<slot, st, i, val, buf, altVars>>

\* Y_xin: copied with the channel left as it is and the writer not resumed.
\* That a writer is there is what Y_xin relies on: see InputFindsWriter.
Xin ==
  /\ At("xin") /\ chan[i] = "writer"
  /\ buf' = [buf EXCEPT ![i] = val[i]]
  /\ Move("xend")
  /\ UNCHANGED <<chan, slot, st, i, val, altVars>>

\* Mutant of Xend: the channel is not emptied.
XendKeeps ==
  /\ At("xend")
  /\ Move("x_enq")
  /\ UNCHANGED <<chan, slot, st, i, val, buf, altVars>>

\* X_xend: the channel is emptied, then the writer is enqueued.
Xend ==
  /\ At("xend")
  /\ Set(i, "none")
  /\ Move("x_enq")
  /\ UNCHANGED <<slot, st, i, val, buf, altVars>>

-----------------------------------------------------------------------------
(* ALT: start and enable.                                                   *)

\* Mutant of Alt: ALT_ENABLING is not set.
AltNotEnabling(g) ==
  /\ At("idle") /\ g # {}
  /\ slot' = State(1, FALSE, FALSE, TRUE)
  /\ guards' = g
  /\ first' = 0
  /\ i' = 1
  /\ Move("enb")
  /\ UNCHANGED <<chan, st, val, buf, temp, fired>>

\* X_alt, with at least one true precondition
Alt(g) ==
  /\ At("idle") /\ g # {}
  /\ slot' = State(1, TRUE, FALSE, TRUE)
  /\ guards' = g
  /\ first' = IF \E c \in g : chan[c] = "writer"
                THEN CHOOSE c \in g : chan[c] = "writer" /\
                       \A d \in g : chan[d] = "writer" => c <= d
                ELSE 0
  /\ i' = 1
  /\ Move("enb")
  /\ UNCHANGED <<chan, st, val, buf, temp, fired>>

\* kernel_enbc reads the channel word.  A false guard is left alone; after the
\* last one comes the wait.
Enable ==
  /\ At("enb")
  /\ IF i > N THEN Move("altwt") /\ UNCHANGED i
     ELSE IF i \notin guards THEN i' = i + 1 /\ UNCHANGED pc
     ELSE /\ Move(CASE chan[i] = "none"   -> "e_swap"
                    [] chan[i] = "alt"    -> "enb"
                    [] chan[i] = "writer" -> "e_test")
          /\ i' = IF chan[i] = "alt" THEN i + 1 ELSE i
  /\ UNCHANGED <<chan, slot, st, val, buf, altVars>>

EnableSwap ==
  /\ At("e_swap")
  /\ Set(i, "alt")
  /\ Move(IF chan[i] = "none" THEN "e_inc" ELSE "e_restore")
  /\ UNCHANGED <<slot, st, i, val, buf, altVars>>

\* Mutant of EnableInc: the installed guard is not counted.
EnableUncounted ==
  /\ At("e_inc")
  /\ i' = i + 1
  /\ Move("enb")
  /\ UNCHANGED <<chan, slot, st, val, buf, altVars>>

\* atw_inc (&Wptr[State]): the guard is installed.
EnableInc ==
  /\ At("e_inc")
  /\ slot' = [slot EXCEPT !.n = @ + 1]
  /\ i' = i + 1
  /\ Move("enb")
  /\ UNCHANGED <<chan, st, val, buf, altVars>>

EnableRestore ==
  /\ At("e_restore")
  /\ Set(i, "writer")
  /\ Move("e_test")
  /\ UNCHANGED <<slot, st, i, val, buf, altVars>>

\* What the program does when an enable has found its guard ready.
AfterReady ==
  IF Style = "raw" THEN Move("enb") /\ i' = i + 1 /\ UNCHANGED fired
  ELSE /\ Move("dis")
       /\ fired' = i
       /\ i' = IF Style = "procalt" THEN 1 ELSE i

\* A ready guard.  Without the jump (X_cenbc) nothing more is done to State when
\* some trigger has already cleared ALT_NOT_READY.
EnableTest ==
  /\ At("e_test")
  /\ IF Style = "enbc3" \/ slot.notReady
       THEN Move("e_clear") /\ UNCHANGED <<i, fired>>
       ELSE AfterReady
  /\ UNCHANGED <<chan, slot, st, val, buf, temp, guards, first>>

\* State &= ~(ALT_NOT_READY | ALT_ENABLING); X_cenbc also selects the guard.
EnableClear ==
  /\ At("e_clear")
  /\ slot' = [slot EXCEPT !.notReady = FALSE, !.enabling = FALSE]
  /\ temp' = IF Style = "enbc3" THEN temp ELSE i
  /\ AfterReady
  /\ UNCHANGED <<chan, st, val, buf, guards, first>>

-----------------------------------------------------------------------------
(* Y_altwt                                                                  *)

\* The first and last guards in the order in which they are disabled.
DisableFrom == IF Style = "enbc3" THEN N ELSE 1

AltWait ==
  /\ At("altwt")
  /\ temp' = 0
  /\ i' = DisableFrom
  /\ IF slot.notReady
       THEN st' = [st EXCEPT ![Reader] = slot] /\ Move("a_cas")
       ELSE Move("a_clear") /\ UNCHANGED st
  /\ UNCHANGED <<chan, slot, val, buf, guards, fired, first>>

\* Mutant of AltWaitCas: a plain store instead of the CAS.
AltWaitStore ==
  /\ At("a_cas")
  /\ slot' = State(st[Reader].n, FALSE, TRUE, FALSE) /\ Move("b_altwt")
  /\ st' = [st EXCEPT ![Reader] = Pointer]
  /\ UNCHANGED <<chan, i, val, buf, altVars>>

AltWaitCas ==
  /\ At("a_cas")
  /\ IF slot = st[Reader]
       THEN slot' = State(slot.n, FALSE, TRUE, FALSE) /\ Move("b_altwt")
       ELSE Move("a_clear") /\ UNCHANGED slot
  /\ st' = [st EXCEPT ![Reader] = Pointer]
  /\ UNCHANGED <<chan, i, val, buf, altVars>>

AltWaitClear ==
  /\ At("a_clear")
  /\ slot' = [slot EXCEPT !.enabling = FALSE]
  /\ Move("dis")
  /\ UNCHANGED <<chan, st, i, val, buf, altVars>>

-----------------------------------------------------------------------------
(* Disabling and Y_altend                                                   *)

\* After guard i: the next one to disable, or the end of the ALT.
LastDisabled == CASE Style = "enbc3" -> 1
                  [] Style = "procalt" /\ fired # 0 -> fired
                  [] OTHER -> N

NextDisable == IF i = LastDisabled THEN Move("end") /\ i' = 0
               ELSE /\ Move("dis")
                    /\ i' = IF Style = "enbc3" THEN i - 1 ELSE i + 1

\* Mutant of SelectGuard: X_ndisc, too, keeps an earlier selection.
SelectFirstDisabled == temp' = IF temp = 0 THEN i ELSE temp

\* X_ndisc always selects a ready guard, X_cdisc only when none is selected.
SelectGuard == temp' = IF Style = "enbc3" \/ temp = 0 THEN i ELSE temp

\* kernel_disc reads the channel word.
Disable ==
  /\ At("dis")
  /\ IF i \in guards /\ chan[i] = "alt"
       THEN Move("d_cas") /\ UNCHANGED <<i, temp>>
       ELSE /\ NextDisable
            /\ IF i \in guards /\ chan[i] = "writer"
                 THEN SelectGuard ELSE UNCHANGED temp
  /\ UNCHANGED <<chan, slot, st, val, buf, guards, fired, first>>

DisableCas ==
  /\ At("d_cas")
  /\ IF chan[i] = "alt"
       THEN Set(i, "none") /\ Move("d_dec") /\ UNCHANGED <<i, temp>>
       ELSE SelectGuard /\ NextDisable /\ UNCHANGED chan
  /\ UNCHANGED <<slot, st, val, buf, guards, fired, first>>

DisableDec ==
  /\ At("d_dec")
  /\ slot' = [slot EXCEPT !.n = @ - 1]
  /\ NextDisable
  /\ UNCHANGED <<chan, st, val, buf, altVars>>

\* kernel_altend: State is 1 when no trigger is still to come.
AltEnd ==
  /\ At("end")
  /\ Move(IF slot = Counted(1) THEN "sel" ELSE "e_dec")
  /\ UNCHANGED <<chan, slot, st, i, val, buf, altVars>>

\* atw_dec_z: the last trigger, or this process, takes State to zero.
AltEndDec ==
  /\ At("e_dec")
  /\ slot' = [slot EXCEPT !.n = @ - 1]
  /\ Move(IF slot = Counted(1) THEN "sel" ELSE "b_altend")
  /\ UNCHANGED <<chan, st, i, val, buf, altVars>>

-----------------------------------------------------------------------------
WriterStep(c) == \/ OutSwap(c) \/ OutTake(c) \/ OutCopy(c)
                 \/ TriggerRead(c) \/ TriggerCas(c) \/ TriggerEnqueue(c)

AltStep == \/ Enable \/ EnableSwap \/ EnableInc \/ EnableRestore \/ EnableTest
           \/ EnableClear \/ AltWait \/ AltWaitCas \/ AltWaitClear
           \/ Disable \/ DisableCas \/ DisableDec \/ AltEnd \/ AltEndDec

InputStep == \/ InSelected \/ InSwap \/ InTake \/ InCopy \/ InEnqueue
             \/ XableSwap \/ XableRestore \/ Xin \/ Xend

ReaderStep == AltStep \/ InputStep

Next == \/ ReaderStep
        \/ \E c \in Channels : In(c) \/ Xable(c) \/ Out(c) \/ WriterStep(c)
        \/ \E g \in SUBSET Channels : Alt(g)

Spec == Init /\ [][Next]_vars

\* A process that can run does: its kernel call is not abandoned half way.  No
\* process is obliged to start another communication.
FairSpec == /\ Spec /\ WF_vars(ReaderStep)
            /\ \A c \in Channels : WF_vars(WriterStep(c))

-----------------------------------------------------------------------------
(* Properties                                                              *)

InFlight  == {c \in Channels : pc[c] \in {"w_trig", "w_cas"}}
Installed == {c \in Channels : chan[c] = "alt"}
Enqueuing == {c \in Channels : pc[c] = "w_enq"}

AltPC   == {"enb", "e_swap", "e_inc", "e_restore", "e_test", "e_clear", "altwt",
            "a_cas", "a_clear", "b_altwt", "dis", "d_cas", "d_dec", "end", "e_dec",
            "b_altend"}
XablePC == {"x_swap", "x_restore", "b_xable"}
One(b)  == IF b THEN 1 ELSE 0

\* A process is put on a run queue only when it is blocked where that wakes it,
\* by one thread, and a writer is not resumed while its thread still has an
\* ALT to trigger: no process is ever run by two threads.
EnqueueBlocked ==
  /\ Enqueuing # {} => pc[Reader] \in {"b_altwt", "b_altend", "b_xable"}
  /\ Cardinality(Enqueuing) <= 1
  /\ \A c \in Channels : pc[c] = "w_copy" => At("b_in") /\ i = c /\ Enqueuing = {}
  /\ pc[Reader] \in {"r_enq", "x_enq"} => pc[i] = "b_out"

\* The count in State is exactly the guards installed in channels plus the
\* triggers that writers have still to make, plus one for the process itself:
\* so no trigger can arrive after kernel_altend has let the process go and the
\* same workspace word is used as Pointer.
AltCount ==
  IF pc[Reader] \in AltPC \cup XablePC
  THEN /\ slot.alt
       /\ slot.n + One(pc[Reader] \in {"e_inc", "e_restore"}) =
            One(pc[Reader] \notin {"b_altend", "x_restore", "b_xable"})
            + Cardinality(Installed) + Cardinality(InFlight) + One(At("d_dec"))
  ELSE InFlight = {} /\ Installed = {}

\* A process blocked in Y_altwt, Y_altend or Y_xable has somebody to wake it:
\* a guard still installed or a trigger under way that will see its State, or
\* a thread about to enqueue it.
AltResumable ==
  /\ pc[Reader] \in {"b_altwt", "b_xable"} /\ Enqueuing = {} =>
       slot.waiting /\ ~slot.enabling /\ Installed \cup InFlight # {}
  /\ At("b_altend") /\ Enqueuing = {} =>
       slot = Counted(Cardinality(InFlight)) /\ InFlight # {}

\* What trigger_alt_guard, Y_altwt and kernel_altend rely on in State.
StateSound == AltCount /\ AltResumable

\* The ALT selects a true guard on whose channel a writer is waiting, so the
\* branch's input does not block; an extended input also finds its writer.
InputFindsWriter ==
  /\ At("sel") => temp \in guards /\ chan[temp] = "writer"
  /\ At("xin") => chan[i] = "writer"

\* Every output is received exactly once: it has not been received before the
\* copy, and it has been when the writer goes on.
DeliveredOnce ==
  \A c \in Channels :
    /\ pc[c] = "idle" => buf[c] = val[c]
    /\ pc[c] = "w_copy" => buf[c] # val[c]
    /\ pc[Reader] \in {"r_copy", "xin"} /\ i = c => buf[c] # val[c]
    /\ pc[c] \in {"w_swap", "w_trig", "w_cas", "w_enq"} => buf[c] # val[c]

\* PRI ALT: a guard that was ready when the ALT began is not passed over for
\* one of lower priority.
PriorityKept == At("sel") /\ first # 0 => temp <= first

\* The guard that an ALT selects is ready, and no other had to go first.
SelectionSound == InputFindsWriter /\ PriorityKept

\* An ALT, once a writer has committed to one of its guards, ends.
AltCompletes ==
  pc[Reader] \in AltPC /\ (\E c \in guards : chan[c] = "writer") ~> At("sel")

\* A plain or extended input on whose channel a writer has begun is resumed:
\* the writer finds it there, or is found (kernel_chan_io, kernel_Y_xable).
InputCompletes ==
  pc[Reader] \in {"b_in", "b_xable"} /\ pc[i] # "idle" ~> pc[Reader] \notin {"b_in", "b_xable"}
==============================================================================
