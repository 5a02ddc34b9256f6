---------------------------- MODULE ChanAltProof ----------------------------
(***************************************************************************)
(* Proofs about ChanAlt, for any number of channels, with the ALTs that    *)
(* occ21 generates (Style = "enbc3").  The runs show that the other two    *)
(* styles do not have all of these properties.                             *)
(*                                                                         *)
(* No property of ChanAlt is inductive: each is about a word that several  *)
(* processes change, and its truth after a step rests on where all of them *)
(* are.  The invariant CInv says so, one conjunct per word or history:     *)
(*   IndexOK   the guard or channel the reader is working on;              *)
(*   WordOK    for every channel, what its word holds, given where its     *)
(*             writer and the reader are: a writer that triggers still     *)
(*             waits in its channel, an installed guard has been passed    *)
(*             by the enabling sequence and not by the disabling one;      *)
(*   CountOK   the count in State: one for the ALT, one for every guard    *)
(*             installed and one for every trigger under way;              *)
(*   FlagsOK   the flags in State, and that the reader is being enqueued   *)
(*             exactly when ALT_WAITING has been taken from it, or when a  *)
(*             trigger has taken State to zero;                            *)
(*   ReadyOK   ALT_NOT_READY stands while no guard passed is ready;        *)
(*   SelectOK  some ready guard is selected, or will be when its turn to   *)
(*             be disabled comes, and the first ready one is not passed;   *)
(*   ValueOK   the values in transit.                                      *)
(* Each conjunct is shown to be kept by every step in a lemma of its own.  *)
(***************************************************************************)
EXTENDS ChanAlt, FiniteSetTheorems, WellFoundedInduction, TLAPS

\* The labels of kernel_enbc, Y_altwt, kernel_disc and kernel_altend.
EnablePC  == {"enb", "e_swap", "e_inc", "e_restore", "e_test", "e_clear"}
WaitPC    == {"altwt", "a_cas", "a_clear", "b_altwt"}
DisablePC == {"dis", "d_cas", "d_dec"}
EndPC     == {"end", "e_dec", "b_altend"}

\* The labels at which the reader works on channel i.
OnChannelPC == {"r_swap", "r_take", "r_copy", "r_enq", "b_in", "x_swap", "x_restore",
                "b_xable", "xin", "xend", "x_enq"}

\* What a State word can be.
Slots == [alt : BOOLEAN, n : 0..N+1, enabling : BOOLEAN, waiting : BOOLEAN, notReady : BOOLEAN]

\* While it enables, the reader has installed guard c (or found it false).
Passed(c) == pc[Reader] \in EnablePC => c < i \/ (c = i /\ At("e_inc"))

\* The program counters and the local copies of State.
FunOK == pc \in [Procs -> ReaderPC \cup WriterPC] /\ st \in [Procs -> Slots]

\* What i is at each label.
IndexOK ==
  /\ pc[Reader] \in EnablePC => i \in 1..N+1 /\ (~At("enb") => i \in guards)
  /\ pc[Reader] \in DisablePC => i \in Channels /\ (~At("dis") => i \in guards)
  /\ pc[Reader] \in {"a_cas", "a_clear", "b_altwt"} => i = N
  /\ pc[Reader] \in OnChannelPC => i \in Channels
  /\ pc[Reader] \in AltPC => guards # {}

\* The word of channel c, where its writer is and where the reader is.
WordOK(c) ==
  /\ chan[c] = "alt" =>
       \/ /\ pc[Reader] \in AltPC \ EndPC /\ c \in guards
          /\ Passed(c) \/ (c = i /\ At("e_restore"))
          /\ pc[Reader] \in DisablePC => c <= i
       \/ pc[Reader] \in {"b_xable", "x_restore"} /\ c = i
  /\ chan[c] = "reader" => c = i /\ pc[Reader] \in {"b_in", "r_take"}
  /\ pc[c] \in {"idle", "w_swap"} => chan[c] # "writer"
  /\ pc[c] = "w_take" => At("b_in") /\ c = i /\ chan[c] \in {"reader", "writer"}
  /\ pc[c] = "w_copy" => At("b_in") /\ c = i /\ chan[c] = "none"
  /\ pc[c] \in {"w_trig", "w_cas", "w_enq"} =>
       /\ chan[c] = "writer"
       /\ \/ pc[Reader] \in AltPC /\ c \in guards /\ Passed(c)
          \/ At("b_xable") /\ c = i
  /\ pc[c] = "w_enq" => pc[Reader] \in {"b_altwt", "b_altend", "b_xable"}
  /\ c = i =>
       /\ pc[Reader] \in {"e_restore", "x_restore", "r_take", "r_copy", "r_enq", "xin", "xend",
                          "x_enq"} => pc[c] = "b_out"
       /\ pc[Reader] \in {"e_test", "e_clear", "xin", "xend"} => chan[c] = "writer"
       /\ pc[Reader] \in {"r_copy", "r_enq", "x_enq"} => chan[c] = "none"
       /\ pc[Reader] \in {"e_restore", "x_restore"} => chan[c] = "alt"
       /\ At("r_take") => chan[c] \in {"reader", "writer"}
       /\ At("d_cas") => chan[c] \in {"alt", "writer"}
       /\ At("d_dec") => chan[c] # "alt"
       /\ At("b_xable") => chan[c] = "alt" \/ pc[c] \in {"w_trig", "w_cas", "w_enq"}

\* The count in State.
CountOK ==
  pc[Reader] \in AltPC \cup XablePC =>
    /\ slot.alt
    /\ slot.n + One(pc[Reader] \in {"e_inc", "e_restore"}) =
         One(pc[Reader] \notin {"b_altend", "x_restore", "b_xable"})
         + Cardinality(Installed) + Cardinality(InFlight) + One(At("d_dec"))

\* The flags in State, and who is enqueuing the reader.
FlagsOK ==
  /\ pc[Reader] \in EnablePC \cup {"altwt", "a_cas", "a_clear"} => slot.enabling /\ ~slot.waiting
  /\ At("a_clear") => ~slot.notReady
  /\ At("a_cas") => st[Reader].notReady /\ (slot = st[Reader] \/ ~slot.notReady)
  /\ pc[Reader] \in DisablePC \cup EndPC => ~slot.enabling /\ ~slot.waiting /\ ~slot.notReady
  /\ pc[Reader] \in XablePC \cup {"b_altwt"} =>
       ~slot.enabling /\ ~slot.notReady /\ (slot.waiting <=> Enqueuing = {})
  /\ At("b_altend") => (Enqueuing = {} <=> InFlight # {})
  /\ \A c, d \in Enqueuing : c = d

\* ALT_NOT_READY says whether some guard was found ready or triggered.
ReadyOK ==
  /\ pc[Reader] \in EnablePC \cup {"altwt", "a_cas"} /\ slot.notReady =>
       \A c \in guards : Passed(c) => c \in Installed \cup InFlight
  /\ pc[Reader] \in EnablePC \cup {"altwt", "a_cas", "a_clear"} /\ ~slot.notReady =>
       \E c \in guards : Passed(c) /\ chan[c] = "writer"
  /\ At("b_altwt") /\ Enqueuing = {} => guards \subseteq Installed \cup InFlight

\* The guard that was ready first, and the ready guard that will be selected.
SelectOK ==
  /\ pc[Reader] \in EnablePC /\ first # 0 =>
       /\ i <= first /\ first \in guards /\ chan[first] = "writer"
       /\ pc[Reader] \in {"e_swap", "e_inc", "e_restore"} => i # first
  /\ pc[Reader] \in WaitPC => first = 0
  /\ pc[Reader] \in DisablePC /\ first # 0 => i <= first
  /\ pc[Reader] \in DisablePC \cup EndPC \cup {"sel"} =>
       \E c \in guards : /\ chan[c] = "writer" /\ (first # 0 => c <= first)
                         /\ \/ temp = c
                            \/ pc[Reader] \in DisablePC /\ c <= i /\ (At("d_dec") => c # i)

\* A value is outstanding from the output's start until it has been copied.
ValueOK ==
  \A c \in Channels :
    buf[c] # val[c] <=>
      pc[c] # "idle" /\ ~(c = i /\ pc[Reader] \in {"r_enq", "xend", "x_enq"})

\* The inductive invariant.
CInv == /\ TypeOK /\ FunOK /\ IndexOK /\ (\A c \in Channels : WordOK(c))
        /\ CountOK /\ FlagsOK /\ ReadyOK /\ SelectOK /\ ValueOK

-----------------------------------------------------------------------------
\* The disjuncts of Next by who takes them.
WriterAct(c) == WriterStep(c) \/ Out(c)
InputAct(c)  == In(c) \/ Xable(c) \/ InputStep
AltAct(g)    == Alt(g) \/ AltStep
Act(c, g)    == WriterAct(c) \/ InputAct(c) \/ AltAct(g)

\* Every step is by a writer, an input or an ALT.
LEMMA StepCases ==
  ASSUME Next PROVE \E c \in Channels, g \in SUBSET Channels : Act(c, g)
<1>1. 1 \in Channels /\ {} \in SUBSET Channels
  BY ChanAltAssumption DEF Channels
<1> QED BY <1>1 DEF Next, ReaderStep, Act, WriterAct, InputAct, AltAct

-----------------------------------------------------------------------------
(* What the steps do that branch on a shared word, in a reachable state.   *)

\* The swap of an output finds no writer: nobody else outputs on this channel.
LEMMA OutSwapFacts ==
  ASSUME CInv, NEW c \in Channels, OutSwap(c)
  PROVE  /\ pc[c] = "w_swap" /\ chan' = [chan EXCEPT ![c] = "writer"]
         /\ UNCHANGED <<slot, st, i, val, buf, temp, guards, fired, first>>
         /\ \/ chan[c] = "none" /\ pc' = [pc EXCEPT ![c] = "b_out"]
            \/ chan[c] = "alt" /\ pc' = [pc EXCEPT ![c] = "w_trig"]
            \/ /\ chan[c] = "reader" /\ pc' = [pc EXCEPT ![c] = "w_take"]
               /\ At("b_in") /\ c = i
<1>1. pc[c] = "w_swap" /\ WordOK(c) /\ TypeOK
  BY DEF OutSwap, CInv
<1>2. chan[c] \in {"none", "alt", "reader"}
  BY <1>1 DEF WordOK, TypeOK
<1>3. chan[c] = "reader" => At("b_in") /\ c = i
  BY <1>1 DEF WordOK, At
<1> QED BY <1>1, <1>2, <1>3 DEF OutSwap, Goto, Set, altVars

\* A copying output has found its reader blocked on the channel.
LEMMA OutCopyFacts ==
  ASSUME CInv, NEW c \in Channels, OutCopy(c)
  PROVE  /\ pc[c] = "w_copy" /\ At("b_in") /\ c = i /\ chan[c] = "none"
         /\ buf' = [buf EXCEPT ![c] = val[c]] /\ i' = 0
         /\ pc' = [pc EXCEPT ![c] = "idle", ![Reader] = "idle"]
         /\ UNCHANGED <<chan, slot, st, val, temp, guards, fired, first>>
<1>1. pc[c] = "w_copy" /\ WordOK(c)
  BY DEF OutCopy, CInv
<1>2. At("b_in") /\ c = i /\ chan[c] = "none"
  BY <1>1 DEF WordOK
<1> QED BY <1>1, <1>2 DEF OutCopy, At, Resumed, altVars

\* A trigger retries, or takes one from the count and the two flags from State.
LEMMA TriggerCasFacts ==
  ASSUME CInv, NEW c \in Channels, TriggerCas(c)
  PROVE  /\ pc[c] = "w_cas"
         /\ UNCHANGED <<chan, i, val, buf, temp, guards, fired, first>>
         /\ st' = [st EXCEPT ![c] = Pointer]
         /\ \/ slot' = slot /\ pc' = [pc EXCEPT ![c] = "w_trig"]
            \/ /\ slot' = [slot EXCEPT !.n = slot.n - 1, !.waiting = FALSE, !.notReady = FALSE]
               /\ slot'.alt = slot.alt /\ slot'.n = slot.n - 1 /\ slot'.enabling = slot.enabling
               /\ ~slot'.waiting /\ ~slot'.notReady
               /\ \/ /\ slot.waiting \/ (slot.alt /\ slot.n = 1 /\ ~slot.enabling)
                     /\ pc' = [pc EXCEPT ![c] = "w_enq"]
                  \/ /\ ~slot.waiting /\ ~(slot.alt /\ slot.n = 1 /\ ~slot.enabling)
                     /\ pc' = [pc EXCEPT ![c] = "b_out"]
<1>1. slot \in Slots
  BY DEF CInv, TypeOK, Slots
<1>3. LET s == Triggered(slot) IN /\ s.alt = slot.alt /\ s.n = slot.n - 1
                                  /\ s.enabling = slot.enabling /\ ~s.waiting /\ ~s.notReady
  BY <1>1 DEF Triggered, Slots
<1>2. Triggered(slot) = Counted(0) <=> slot.alt /\ slot.n = 1 /\ ~slot.enabling
  <2>1. Counted(0) = [alt |-> TRUE, n |-> 0, enabling |-> FALSE, waiting |-> FALSE,
                      notReady |-> FALSE]
    BY DEF Counted, State
  <2>2. slot.n \in Int /\ slot.alt \in BOOLEAN /\ slot.enabling \in BOOLEAN
    BY <1>1, ChanAltAssumption DEF Slots
  <2>3. ASSUME Triggered(slot) = Counted(0) PROVE slot.alt /\ slot.n = 1 /\ ~slot.enabling
    <3>1. Counted(0).alt /\ Counted(0).n = 0 /\ ~Counted(0).enabling
      BY <2>1
    <3>2. slot.n - 1 = 0
      BY <1>3, <2>3, <3>1
    <3> QED BY <1>3, <2>2, <2>3, <3>1, <3>2
  <2>4. ASSUME slot.alt, slot.n = 1, ~slot.enabling PROVE Triggered(slot) = Counted(0)
    <3>1. Triggered(slot) \in Slots /\ Counted(0) \in Slots
      <4>1. 0 \in 0..N+1 /\ slot.n - 1 = 0
        BY <2>4, ChanAltAssumption
      <4>2. Triggered(slot) = [slot EXCEPT !.n = 0, !.waiting = FALSE, !.notReady = FALSE]
        BY <4>1 DEF Triggered
      <4>3. Triggered(slot) \in Slots
        BY <1>1, <4>1, <4>2 DEF Slots
      <4>4. [alt |-> TRUE, n |-> 0, enabling |-> FALSE, waiting |-> FALSE,
             notReady |-> FALSE] \in Slots
        BY ONLY <4>1 DEF Slots
      <4> QED BY <2>1, <4>3, <4>4
    <3>2. LET s == Triggered(slot) IN s.alt = TRUE /\ s.n = 0 /\ s.enabling = FALSE
                                      /\ s.waiting = FALSE /\ s.notReady = FALSE
      BY <1>1, <2>4 DEF Triggered, Slots
    <3> QED BY <2>1, <3>1, <3>2 DEF Slots
  <2> QED BY <2>3, <2>4
<1>4. Triggered(slot) = [slot EXCEPT !.n = slot.n - 1, !.waiting = FALSE, !.notReady = FALSE]
  BY DEF Triggered
<1>5. CASE slot = st[c] /\ (slot.waiting \/ Triggered(slot) = Counted(0))
  BY <1>2, <1>3, <1>4, <1>5 DEF TriggerCas, Goto, altVars
<1>6. CASE slot = st[c] /\ ~(slot.waiting \/ Triggered(slot) = Counted(0))
  BY <1>2, <1>3, <1>4, <1>6 DEF TriggerCas, Goto, altVars
<1>7. CASE slot # st[c]
  BY <1>7 DEF TriggerCas, Goto, altVars
<1> QED BY <1>5, <1>6, <1>7

\* A process enqueued by a trigger is blocked in Y_altwt, Y_altend or Y_xable.
LEMMA TriggerEnqueueFacts ==
  ASSUME CInv, NEW c \in Channels, TriggerEnqueue(c)
  PROVE  /\ pc[c] = "w_enq" /\ chan[c] = "writer"
         /\ UNCHANGED <<chan, slot, st, i, val, buf, temp, guards, fired, first>>
         /\ \/ At("b_altwt") /\ pc' = [pc EXCEPT ![c] = "b_out", ![Reader] = "dis"]
            \/ At("b_altend") /\ pc' = [pc EXCEPT ![c] = "b_out", ![Reader] = "sel"]
            \/ At("b_xable") /\ c = i /\ pc' = [pc EXCEPT ![c] = "b_out", ![Reader] = "xin"]
         /\ At("b_xable") \/ c \in guards
<1>1. pc[c] = "w_enq" /\ WordOK(c)
  BY DEF TriggerEnqueue, CInv
<1>2. /\ At("b_altwt") \/ At("b_altend") \/ (At("b_xable") /\ c = i)
      /\ At("b_xable") \/ c \in guards
      /\ chan[c] = "writer"
  BY <1>1 DEF WordOK, At, AltPC
<1> QED BY <1>1, <1>2 DEF TriggerEnqueue, At, Resumed, altVars

\* The writer an input enqueues is blocked.
LEMMA InEnqueueFacts ==
  ASSUME CInv, InEnqueue
  PROVE  /\ pc[Reader] \in {"r_enq", "x_enq"} /\ i \in Channels /\ pc[i] = "b_out" /\ i' = 0
         /\ pc' = [pc EXCEPT ![Reader] = "idle", ![i] = "idle"]
         /\ UNCHANGED <<chan, slot, st, val, buf, temp, guards, fired, first>>
<1>1. pc[Reader] \in {"r_enq", "x_enq"} /\ IndexOK /\ \A c \in Channels : WordOK(c)
  BY DEF InEnqueue, CInv
<1>2. i \in Channels
  BY <1>1 DEF IndexOK, OnChannelPC
<1>3. pc[i] = "b_out"
  BY <1>1, <1>2 DEF WordOK
<1> QED BY <1>1, <1>2, <1>3 DEF InEnqueue, Resumed, altVars

\* An enable finds the word of its channel empty or a writer's.
LEMMA EnableFacts ==
  ASSUME CInv, Enable
  PROVE  /\ At("enb") /\ i \in 1..N+1 /\ guards # {}
         /\ UNCHANGED <<chan, slot, st, val, buf, temp, guards, fired, first>>
         /\ \/ i = N + 1 /\ i' = i /\ pc' = [pc EXCEPT ![Reader] = "altwt"]
            \/ i \in Channels \ guards /\ i' = i + 1 /\ pc' = pc
            \/ /\ i \in guards /\ i' = i
               /\ chan[i] = "none" /\ pc' = [pc EXCEPT ![Reader] = "e_swap"]
            \/ /\ i \in guards /\ i' = i
               /\ chan[i] = "writer" /\ pc' = [pc EXCEPT ![Reader] = "e_test"]
<1>1. At("enb") /\ TypeOK /\ IndexOK /\ \A c \in Channels : WordOK(c)
  BY DEF Enable, CInv
<1>2. i \in 1..N+1 /\ guards # {}
  BY <1>1 DEF IndexOK, At, EnablePC, AltPC
<1>3. i \in Channels => chan[i] \in {"none", "writer"}
  BY <1>1 DEF WordOK, At, Passed, EnablePC, TypeOK, AltPC, EndPC, DisablePC, Channels
<1>4. i = N + 1 \/ i \in Channels
  BY <1>2, ChanAltAssumption DEF Channels
<1>5. guards \subseteq Channels /\ (i \in Channels => ~(i > N)) /\ N + 1 > N
  BY <1>1, ChanAltAssumption DEF TypeOK, Channels
<1>6. CASE i = N + 1
  BY <1>1, <1>2, <1>5, <1>6 DEF Enable, Move, Goto, altVars
<1>7. CASE i \in Channels \ guards
  BY <1>1, <1>2, <1>5, <1>7 DEF Enable, Move, Goto, altVars
<1>8. CASE i \in guards
  BY <1>1, <1>2, <1>3, <1>5, <1>8 DEF Enable, Move, Goto, altVars
<1> QED BY <1>4, <1>6, <1>7, <1>8

-----------------------------------------------------------------------------
(* What a reachable state tells the process that looks at a shared word.   *)

\* Outside an ALT and a wait on a channel no word is the reader's, and a writer
\* is about to swap, or waits in its channel.
LEMMA QuietReader ==
  ASSUME CInv, NEW d \in Channels,
         pc[Reader] \notin AltPC \cup {"b_xable", "x_restore", "b_in", "r_take"}
  PROVE  /\ chan[d] \in {"none", "writer"} /\ pc[d] \in {"idle", "w_swap", "b_out"}
         /\ chan[d] = "writer" => pc[d] = "b_out"
  BY DEF CInv, TypeOK, WordOK, At, WriterPC

\* The guard being enabled is not installed yet.
LEMMA EnableSwapFacts ==
  ASSUME CInv, EnableSwap
  PROVE  /\ At("e_swap") /\ i \in guards /\ i \in Channels
         /\ chan' = [chan EXCEPT ![i] = "alt"]
         /\ UNCHANGED <<slot, st, i, val, buf, temp, guards, fired, first>>
         /\ \/ chan[i] = "none" /\ pc' = [pc EXCEPT ![Reader] = "e_inc"]
            \/ /\ chan[i] = "writer" /\ pc[i] = "b_out"
               /\ pc' = [pc EXCEPT ![Reader] = "e_restore"]
<1>1. At("e_swap") /\ TypeOK /\ IndexOK /\ \A c \in Channels : WordOK(c)
  BY DEF EnableSwap, CInv
<1>2. i \in guards /\ i \in Channels
  BY <1>1 DEF IndexOK, At, EnablePC, TypeOK
<1>3. ~Passed(i)
  BY <1>1, <1>2, ChanAltAssumption DEF Passed, At, EnablePC, Channels
<1>4. chan[i] \in {"none", "writer"} /\ (chan[i] = "writer" => pc[i] = "b_out")
  BY <1>1, <1>2, <1>3 DEF WordOK, At, TypeOK, AltPC, WriterPC
<1> QED BY <1>1, <1>2, <1>4 DEF EnableSwap, Move, Goto, Set, altVars

\* The sets counted in State are finite.
LEMMA CountFacts ==
  /\ IsFiniteSet(Installed) /\ IsFiniteSet(InFlight)
  /\ Cardinality(Installed) \in Nat /\ Cardinality(InFlight) \in Nat
  /\ Cardinality(Installed) = 0 <=> Installed = {}
  /\ Cardinality(InFlight) = 0 <=> InFlight = {}
  /\ \A c \in InFlight : Cardinality(InFlight \ {c}) = Cardinality(InFlight) - 1
<1>1. IsFiniteSet(Channels)
  BY FS_Interval, ChanAltAssumption DEF Channels
<1>2. IsFiniteSet(Installed) /\ IsFiniteSet(InFlight)
  BY <1>1, FS_Subset DEF Installed, InFlight
<1> QED BY <1>2, FS_CardinalityType, FS_EmptySet, FS_RemoveElement

\* A trigger under way finds itself counted, and wakes the reader only where it
\* is blocked and nobody else does.
LEMMA InFlightFacts ==
  ASSUME CInv, NEW c \in InFlight
  PROVE  /\ slot.alt /\ slot.n >= 1 /\ pc[Reader] \in AltPC \cup {"b_xable"}
         /\ slot.waiting => pc[Reader] \in {"b_altwt", "b_xable"} /\ Enqueuing = {}
         /\ slot.n = 1 /\ ~slot.enabling =>
              pc[Reader] \in {"b_altend", "b_xable"} /\ InFlight = {c} /\ Enqueuing = {}
         /\ pc[Reader] \in {"b_altend", "b_xable"} => Enqueuing = {} /\ ~slot.enabling
         /\ At("b_xable") => slot.n = 1
         /\ At("b_altend") => slot.n = Cardinality(InFlight)
         /\ pc[Reader] \in {"b_altwt", "b_xable"} => (slot.waiting <=> Enqueuing = {})
<1>1. /\ CountOK /\ FlagsOK /\ TypeOK /\ c \in Channels /\ pc[c] \in {"w_trig", "w_cas"}
      /\ \A d \in Channels : WordOK(d)
  BY DEF CInv, InFlight
<1>2. pc[Reader] \in AltPC \cup {"b_xable"}
  BY <1>1 DEF WordOK, At
<1>3. /\ slot.alt
      /\ slot.n + One(pc[Reader] \in {"e_inc", "e_restore"}) =
         One(pc[Reader] \notin {"b_altend", "x_restore", "b_xable"})
         + Cardinality(Installed) + Cardinality(InFlight) + One(At("d_dec"))
  BY <1>1, <1>2 DEF CountOK, XablePC
<1>4. slot.n \in Nat /\ Cardinality(InFlight) \in Nat \ {0} /\ Cardinality(Installed) \in Nat
  BY <1>1, CountFacts, ChanAltAssumption DEF TypeOK
<1>8. pc[Reader] \in {"b_altwt", "b_xable"} => (slot.waiting <=> Enqueuing = {})
  BY <1>1 DEF FlagsOK, XablePC
<1>5. CASE pc[Reader] \in EnablePC \cup WaitPC \cup DisablePC \cup {"end", "e_dec"}
  <2>1. slot.n >= 1 /\ (slot.n = 1 => pc[Reader] \in {"e_inc", "e_restore"})
    BY <1>3, <1>4, <1>5 DEF One, At, EnablePC, WaitPC, DisablePC
  <2>2. slot.waiting => At("b_altwt") /\ Enqueuing = {}
    BY <1>1, <1>5 DEF FlagsOK, At, EnablePC, WaitPC, DisablePC, EndPC
  <2>3. pc[Reader] \in {"e_inc", "e_restore"} => slot.enabling
    BY <1>1 DEF FlagsOK, EnablePC
  <2> QED BY <1>2, <1>3, <1>5, <1>8, <2>1, <2>2, <2>3 DEF At, EnablePC, WaitPC, DisablePC
<1>6. CASE At("b_altend")
  <2>1. Installed = {}
    BY <1>1, <1>6 DEF Installed, WordOK, At, AltPC, EndPC
  <2>2. slot.n = Cardinality(InFlight)
    BY <1>3, <1>4, <1>6, <2>1, CountFacts DEF One, At
  <2>3. slot.n = 1 => InFlight = {c}
    <3>1. slot.n = 1 => Cardinality(InFlight \ {c}) = 0 /\ IsFiniteSet(InFlight \ {c})
      BY <2>2, CountFacts, FS_RemoveElement
    <3> QED BY <3>1, FS_EmptySet
  <2>4. Enqueuing = {} /\ ~slot.enabling /\ ~slot.waiting
    BY <1>1, <1>6 DEF FlagsOK, At, EndPC
  <2> QED BY <1>2, <1>3, <1>4, <1>6, <2>2, <2>3, <2>4 DEF At
<1>7. CASE At("b_xable")
  <2>1. /\ \A d \in Installed \cup InFlight \cup Enqueuing : d = i
        /\ c = i
    BY <1>1, <1>7 DEF Installed, InFlight, Enqueuing, WordOK, At, AltPC, EndPC
  <2>2. Installed = {} /\ Enqueuing = {} /\ InFlight = {c}
    BY <1>1, <2>1 DEF Installed, InFlight, Enqueuing, WordOK
  <2>3. Cardinality(InFlight) = 1 /\ Cardinality(Installed) = 0
    BY <2>2, FS_Singleton, FS_EmptySet
  <2>4. slot.n = 1
    BY <1>3, <1>4, <1>7, <2>3 DEF One, At
  <2>5. ~slot.enabling
    BY <1>1, <1>7 DEF FlagsOK, At, XablePC
  <2> QED BY <1>2, <1>3, <1>7, <1>8, <2>2, <2>4, <2>5 DEF At
<1> QED BY <1>2, <1>5, <1>6, <1>7, <1>8 DEF AltPC, EnablePC, WaitPC, DisablePC, At

\* kernel_altend lets the process go only when no trigger is still to come.
LEMMA AltEndFacts ==
  ASSUME CInv, pc[Reader] \in {"end", "e_dec"}
  PROVE  /\ Installed = {} /\ Enqueuing = {} /\ slot.alt /\ slot.n = 1 + Cardinality(InFlight)
         /\ slot = Counted(1) <=> InFlight = {}
         /\ slot = Counted(slot.n)
<1>1. CountOK /\ FlagsOK /\ TypeOK /\ \A d \in Channels : WordOK(d)
  BY DEF CInv
<1>2. Installed = {} /\ Enqueuing = {}
  BY <1>1 DEF Installed, Enqueuing, WordOK, AltPC, EndPC
<1>3. slot.alt /\ slot.n = 1 + Cardinality(InFlight) /\ Cardinality(InFlight) \in Nat
  BY <1>1, <1>2, CountFacts, ChanAltAssumption DEF CountOK, TypeOK, One, At, AltPC
<1>4. ~slot.enabling /\ ~slot.waiting /\ ~slot.notReady
  BY <1>1 DEF FlagsOK, EndPC
<1>5. slot = Counted(slot.n)
  BY <1>1, <1>3, <1>4 DEF TypeOK, Counted, State
<1>6. \A n : Counted(n).n = n
  BY DEF Counted, State
<1> QED BY <1>2, <1>3, <1>5, <1>6, CountFacts

-----------------------------------------------------------------------------
(* How the steps change the guards installed, the triggers under way and   *)
(* the threads that enqueue the reader.                                    *)

\* What a writer's step does to the sets of guards and triggers, and to State.
LEMMA WriterSets ==
  ASSUME CInv, NEW c \in Channels, WriterAct(c)
  PROVE  \/ /\ ~OutSwap(c) /\ ~TriggerCas(c) /\ ~TriggerEnqueue(c)
            /\ UNCHANGED <<slot, guards, temp, first, Installed, InFlight, Enqueuing>>
            /\ \/ pc'[Reader] = pc[Reader] /\ i' = i /\ st'[Reader] = st[Reader]
               \/ At("b_in") /\ pc'[Reader] = "idle"
         \/ /\ OutSwap(c) /\ pc'[Reader] = pc[Reader]
            /\ UNCHANGED <<slot, st, i, guards, temp, first, Enqueuing>>
            /\ \/ chan[c] # "alt" /\ UNCHANGED <<Installed, InFlight>>
               \/ /\ chan[c] = "alt" /\ c \in Installed /\ c \notin InFlight
                  /\ Installed' = Installed \ {c} /\ InFlight' = InFlight \cup {c}
         \/ /\ TriggerCas(c) /\ pc'[Reader] = pc[Reader] /\ c \in InFlight /\ c \notin Enqueuing
            /\ UNCHANGED <<i, guards, temp, first, Installed>> /\ st'[Reader] = st[Reader]
            /\ \/ UNCHANGED <<slot, InFlight, Enqueuing>>
               \/ /\ InFlight' = InFlight \ {c}
                  /\ slot'.alt = slot.alt /\ slot'.n = slot.n - 1
                  /\ slot'.enabling = slot.enabling /\ ~slot'.waiting /\ ~slot'.notReady
                  /\ \/ /\ slot.waiting \/ (slot.n = 1 /\ ~slot.enabling)
                        /\ Enqueuing' = Enqueuing \cup {c}
                     \/ /\ ~slot.waiting /\ ~(slot.n = 1 /\ ~slot.enabling)
                        /\ UNCHANGED Enqueuing
         \/ /\ TriggerEnqueue(c) /\ c \in Enqueuing /\ Enqueuing' = Enqueuing \ {c}
            /\ UNCHANGED <<slot, st, i, guards, temp, first, Installed, InFlight>>
            /\ \/ At("b_altwt") /\ pc'[Reader] = "dis"
               \/ At("b_altend") /\ pc'[Reader] = "sel"
               \/ At("b_xable") /\ pc'[Reader] = "xin"
<1>1. TypeOK /\ FunOK /\ WordOK(c) /\ c # Reader /\ c \in Procs /\ Reader \in Procs
  BY DEF CInv, Channels, Procs, Reader
<1>2. /\ pc \in [Procs -> ReaderPC \cup WriterPC] /\ st \in [Procs -> Slots]
      /\ chan \in [Channels -> {"none", "writer", "reader", "alt"}]
      /\ \A d \in Channels : d \in Procs /\ d # Reader
  BY <1>1 DEF FunOK, TypeOK, Channels, Procs, Reader
<1>10. ASSUME \A d \in Channels : (chan'[d] = "alt" <=> chan[d] = "alt"),
              \A d \in Channels \ {c} : pc'[d] = pc[d],
              pc[c] \in {"w_trig", "w_cas"} <=> pc'[c] \in {"w_trig", "w_cas"},
              pc[c] = "w_enq" <=> pc'[c] = "w_enq"
       PROVE  UNCHANGED <<Installed, InFlight, Enqueuing>>
  BY <1>10 DEF Installed, InFlight, Enqueuing
<1>3. CASE Out(c)
  <2>1. /\ pc[c] = "idle" /\ pc'[c] \in {"w_swap", "w_take"} /\ \A d \in Procs \ {c} : pc'[d] = pc[d]
        /\ UNCHANGED <<chan, slot, st, i, guards, temp, first>>
    BY <1>1, <1>2, <1>3 DEF Out, Goto, altVars
  <2>8. UNCHANGED <<Installed, InFlight, Enqueuing>>
    BY <1>1, <1>2, <1>10, <2>1
  <2>9. ~OutSwap(c) /\ ~TriggerCas(c) /\ ~TriggerEnqueue(c)
    BY <2>1 DEF OutSwap, TriggerCas, TriggerEnqueue
  <2> QED BY <1>1, <2>1, <2>8, <2>9
<1>4. CASE OutTake(c)
  <2>1. /\ pc[c] = "w_take" /\ pc'[c] = "w_copy" /\ \A d \in Procs \ {c} : pc'[d] = pc[d]
        /\ chan' = [chan EXCEPT ![c] = "none"]
        /\ UNCHANGED <<slot, st, i, guards, temp, first>>
    BY <1>1, <1>2, <1>4 DEF OutTake, Goto, Set, altVars
  <2>2. chan[c] # "alt"
    BY <1>1, <2>1 DEF WordOK
  <2>3. \A d \in Channels : (chan'[d] = "alt" <=> chan[d] = "alt")
    BY <1>2, <2>1, <2>2
  <2>8. UNCHANGED <<Installed, InFlight, Enqueuing>>
    BY <1>1, <1>2, <1>10, <2>1, <2>3
  <2>9. ~OutSwap(c) /\ ~TriggerCas(c) /\ ~TriggerEnqueue(c)
    BY <2>1 DEF OutSwap, TriggerCas, TriggerEnqueue
  <2> QED BY <1>1, <2>1, <2>8, <2>9
<1>5. CASE OutCopy(c)
  BY <1>1, <1>2, <1>5, OutCopyFacts DEF OutSwap, TriggerCas, TriggerEnqueue, Installed,
     InFlight, Enqueuing
<1>6. CASE TriggerRead(c)
  <2>1. /\ pc[c] = "w_trig" /\ pc'[c] = "w_cas" /\ \A d \in Procs \ {c} : pc'[d] = pc[d]
        /\ UNCHANGED <<chan, slot, i, guards, temp, first>> /\ st'[Reader] = st[Reader]
    BY <1>1, <1>2, <1>6 DEF TriggerRead, Goto, altVars
  <2>8. UNCHANGED <<Installed, InFlight, Enqueuing>>
    BY <1>1, <1>2, <1>10, <2>1
  <2>9. ~OutSwap(c) /\ ~TriggerCas(c) /\ ~TriggerEnqueue(c)
    BY <2>1 DEF OutSwap, TriggerCas, TriggerEnqueue
  <2> QED BY <1>1, <2>1, <2>8, <2>9
<1>7. CASE OutSwap(c)
  BY <1>1, <1>2, <1>7, OutSwapFacts DEF Installed, InFlight, Enqueuing
<1>8. CASE TriggerCas(c)
  <2>1. c \in InFlight
    BY <1>8 DEF InFlight, TriggerCas
  <2>2. slot.alt
    BY <2>1, InFlightFacts
  <2>3. Installed' = Installed /\ c \notin Enqueuing
    BY <1>8, <2>1, TriggerCasFacts DEF Installed, InFlight, Enqueuing
  <2>4. CASE pc' = [pc EXCEPT ![c] = "w_trig"]
    <3>1. UNCHANGED <<InFlight, Enqueuing>>
      BY <1>2, <2>1, <2>3, <2>4 DEF InFlight, Enqueuing
    <3>2. slot' = slot
      BY <1>1, <1>2, <1>8, <2>4, TriggerCasFacts
    <3> QED BY <1>1, <1>2, <1>8, <2>1, <2>3, <2>4, <3>1, <3>2, TriggerCasFacts
  <2>5. CASE pc' = [pc EXCEPT ![c] = "w_enq"]
    <3>1. InFlight' = InFlight \ {c} /\ Enqueuing' = Enqueuing \cup {c}
      BY <1>2, <2>1, <2>3, <2>5 DEF InFlight, Enqueuing
    <3> QED BY <1>1, <1>2, <1>8, <2>1, <2>2, <2>3, <2>5, <3>1, TriggerCasFacts
  <2>6. CASE pc' = [pc EXCEPT ![c] = "b_out"]
    <3>1. InFlight' = InFlight \ {c} /\ Enqueuing' = Enqueuing
      BY <1>2, <2>1, <2>3, <2>6 DEF InFlight, Enqueuing
    <3> QED BY <1>1, <1>2, <1>8, <2>1, <2>2, <2>3, <2>6, <3>1, TriggerCasFacts
  <2> QED BY <1>8, <2>4, <2>5, <2>6, TriggerCasFacts
<1>9. CASE TriggerEnqueue(c)
  <2>1. /\ pc[c] = "w_enq" /\ pc'[c] = "b_out" /\ \A d \in Channels \ {c} : pc'[d] = pc[d]
        /\ UNCHANGED <<chan, slot, st, i, guards, temp, first>>
        /\ \/ At("b_altwt") /\ pc'[Reader] = "dis"
           \/ At("b_altend") /\ pc'[Reader] = "sel"
           \/ At("b_xable") /\ pc'[Reader] = "xin"
    BY <1>1, <1>2, <1>9, TriggerEnqueueFacts
  <2> QED BY <1>9, <2>1 DEF Installed, InFlight, Enqueuing
<1> QED BY <1>3, <1>4, <1>5, <1>6, <1>7, <1>8, <1>9 DEF WriterAct, WriterStep

\* What the reader's step does to the sets of guards and triggers.
LEMMA ReaderSets ==
  ASSUME CInv, NEW c \in Channels, NEW g \in SUBSET Channels, InputAct(c) \/ AltAct(g)
  PROVE  /\ UNCHANGED <<InFlight, Enqueuing>>
         /\ \/ /\ EnableSwap \/ XableSwap
               /\ i \notin Installed /\ i \in Channels /\ Installed' = Installed \cup {i}
            \/ /\ EnableRestore \/ XableRestore \/ (DisableCas /\ chan[i] = "alt")
               /\ i \in Installed /\ Installed' = Installed \ {i}
            \/ /\ ~EnableSwap /\ ~XableSwap /\ ~EnableRestore /\ ~XableRestore
               /\ ~(DisableCas /\ chan[i] = "alt")
               /\ Installed' = Installed
<1>1. TypeOK /\ FunOK /\ IndexOK /\ \A d \in Channels : WordOK(d)
  BY DEF CInv
<1>2. /\ pc \in [Procs -> ReaderPC \cup WriterPC]
      /\ chan \in [Channels -> {"none", "writer", "reader", "alt"}]
      /\ \A d \in Channels : d \in Procs /\ d # Reader
      /\ Reader \in Procs
  BY <1>1 DEF FunOK, TypeOK, Channels, Procs, Reader
<1>3. \A d \in Channels : pc'[d] = pc[d] \/ (InEnqueue /\ pc[d] = "b_out" /\ pc'[d] = "idle")
  <2>1. CASE InEnqueue BY <1>2, <2>1, InEnqueueFacts
  <2>2. CASE Enable BY <1>2, <2>2, EnableFacts
  <2>3. \A l : Move(l) => \A d \in Channels : pc'[d] = pc[d]
    BY <1>2 DEF Move, Goto
  <2>4. CASE InputAct(c) /\ ~InEnqueue
    BY <2>3, <2>4 DEF InputAct, InputStep, In, InFrom, Xable, InSelected, InSwap, InTake,
       InCopy,
       XableSwap, XableRestore, Xin, Xend
  <2>5. CASE AltAct(g) /\ ~Enable
    BY <2>3, <2>5 DEF AltAct, AltStep, Alt, EnableSwap, EnableInc, EnableRestore,
       EnableTest,
       EnableClear, AfterReady, AltWait, AltWaitCas, AltWaitClear, Disable, DisableCas, DisableDec,
       NextDisable, AltEnd, AltEndDec
  <2> QED BY <2>1, <2>2, <2>4, <2>5
<1>4. UNCHANGED <<InFlight, Enqueuing>>
  BY <1>3 DEF InFlight, Enqueuing
<1>5. pc[Reader] \in (EnablePC \ {"enb"}) \cup {"d_cas"} \cup OnChannelPC => i \in Channels
  BY <1>1 DEF IndexOK, EnablePC, DisablePC, At, TypeOK
<1>6. CASE EnableSwap
  BY <1>2, <1>4, <1>6, EnableSwapFacts DEF Installed
<1>7. CASE XableSwap
  <2>1. pc[Reader] = "x_swap" /\ i \in Channels
    BY <1>5, <1>7 DEF XableSwap, At, OnChannelPC
  <2>2. chan[i] # "alt"
    BY <2>1, QuietReader DEF AltPC
  <2> QED BY <1>2, <1>4, <1>7, <2>1, <2>2 DEF XableSwap, Set, Installed
<1>8. CASE EnableRestore \/ XableRestore
  <2>1. i \in Channels /\ chan[i] = "alt"
    BY <1>1, <1>5, <1>8 DEF EnableRestore, XableRestore, At, WordOK, EnablePC, OnChannelPC
  <2>2. chan' = [chan EXCEPT ![i] = "writer"]
    BY <1>8 DEF EnableRestore, XableRestore, Set
  <2> QED BY <1>2, <1>4, <1>8, <2>1, <2>2 DEF Installed
<1>9. CASE DisableCas /\ chan[i] = "alt"
  <2>1. i \in Channels
    BY <1>5, <1>9 DEF DisableCas, At
  <2> QED BY <1>2, <1>4, <1>9, <2>1 DEF DisableCas, Set, Installed
<1>10. CASE InSwap \/ InTake \/ Xend
  <2>1. i \in Channels /\ chan[i] # "alt" /\ pc[Reader] \in {"r_swap", "r_take", "xend"}
    BY <1>1, <1>5, <1>10 DEF InSwap, InTake, Xend, At, WordOK, OnChannelPC, AltPC
  <2>2. \E w \in {"reader", "none"} : chan' = [chan EXCEPT ![i] = w]
    BY <1>10 DEF InSwap, InTake, Xend, Set
  <2>3. Installed' = Installed
    BY <1>2, <2>1, <2>2 DEF Installed
  <2> QED BY <1>4, <2>1, <2>3 DEF EnableSwap, XableSwap, EnableRestore, XableRestore,
      DisableCas, At
<1>11. ASSUME ~EnableSwap, ~XableSwap, ~EnableRestore, ~XableRestore, ~(DisableCas /\ chan[i] = "alt"),
              ~InSwap, ~InTake, ~Xend
       PROVE  chan' = chan
  <2>1. CASE InputAct(c)
    BY <1>11, <2>1 DEF InputAct, InputStep, In, InFrom, Xable, InSelected, InCopy,
       InEnqueue, Xin
  <2>2. CASE AltAct(g)
    BY <1>11, <2>2 DEF AltAct, AltStep, Alt, Enable, EnableInc, EnableTest,
       EnableClear, AltWait, AltWaitCas, AltWaitClear, Disable, DisableCas, DisableDec,
       AltEnd, AltEndDec
  <2> QED BY <2>1, <2>2
<1> QED BY <1>4, <1>6, <1>7, <1>8, <1>9, <1>10, <1>11 DEF Installed

-----------------------------------------------------------------------------

\* The channel words.
LEMMA WordStep ==
  ASSUME CInv, Style = "enbc3", Next PROVE \A d \in Channels : WordOK(d)'
<1>1. TypeOK /\ FunOK /\ IndexOK /\ (\A d \in Channels : WordOK(d))
  BY DEF CInv
<1> TAKE d \in Channels
<1>2. /\ chan \in [Channels -> {"none", "writer", "reader", "alt"}]
      /\ pc \in [Procs -> ReaderPC \cup WriterPC] /\ pc[d] \in WriterPC /\ pc[Reader] \in ReaderPC
      /\ i \in Int /\ N \in Int /\ guards \subseteq Channels /\ temp \in Int
      /\ d \in Int /\ d # 0 /\ d <= N /\ d >= 1
  BY <1>1, ChanAltAssumption DEF TypeOK, FunOK, Channels
<1>3. WordOK(d)
  BY <1>1
<1>4. /\ pc[Reader] \in EnablePC => i \in 1..N+1 /\ (~At("enb") => i \in guards)
      /\ pc[Reader] \in DisablePC => i \in Channels
      /\ pc[Reader] \in {"a_cas", "a_clear", "b_altwt"} => i = N
      /\ pc[Reader] \in OnChannelPC => i \in Channels
  BY <1>1 DEF IndexOK
<1> PICK c \in Channels, g \in SUBSET Channels : Act(c, g)
  BY StepCases
<1> USE DEF Procs, Reader, At, Move, Goto, Set, altVars, OnChannelPC, WordOK, EnablePC,
    DisablePC, AltPC, EndPC, Passed, ReaderPC, WriterPC, Blocked
<1>10. CASE Out(c)
  <2>1. chan[c] # "writer" /\ (chan[c] = "reader" => At("b_in") /\ c = i)
    BY <1>1, <1>10 DEF Out, WordOK, At
  <2> QED BY <1>2, <1>3, <1>10, <2>1 DEF Out, Channels
<1>11. CASE OutSwap(c)
  BY <1>2, <1>3, <1>4, <1>11, OutSwapFacts
<1>12. CASE OutTake(c)
  <2>1. At("b_in") /\ c = i
    BY <1>1, <1>12 DEF OutTake, WordOK
  <2> QED BY <1>2, <1>3, <1>12, <2>1 DEF OutTake, Channels
<1>13. CASE OutCopy(c)
  BY <1>2, <1>3, <1>4, <1>13, OutCopyFacts
<1>14. CASE TriggerRead(c)
  BY <1>2, <1>3, <1>4, <1>14 DEF TriggerRead
<1>15. CASE TriggerCas(c)
  <2>1. c \in InFlight
    BY <1>15 DEF InFlight, TriggerCas
  <2>2. slot.waiting \/ (slot.n = 1 /\ ~slot.enabling) => pc[Reader] \in {"b_altwt", "b_altend", "b_xable"}
    BY <2>1, InFlightFacts
  <2>3. /\ UNCHANGED <<chan, i, guards>> /\ pc'[Reader] = pc[Reader] /\ (d # c => pc'[d] = pc[d])
        /\ pc[c] = "w_cas"
        /\ pc'[c] \in {"w_trig", "b_out"} \/ (pc'[c] = "w_enq" /\ pc[Reader] \in {"b_altwt", "b_altend", "b_xable"})
    BY <1>2, <1>15, <2>2, TriggerCasFacts DEF Channels
  <2>4. c # i \/ pc[Reader] \notin {"e_restore", "x_restore", "r_take", "r_copy", "r_enq", "xin", "xend",
                          "x_enq"}
    BY <1>1, <2>3
  <2>5. At("b_xable") => pc'[c] = "w_enq" \/ pc'[c] = "w_trig"
    BY <2>1, <1>15, <1>2, InFlightFacts, TriggerCasFacts DEF Channels
  <2> QED BY <1>2, <1>3, <2>3, <2>4, <2>5
<1>16. CASE TriggerEnqueue(c)
  <2>1. /\ FlagsOK /\ c \in Enqueuing
    BY <1>16 DEF CInv, Enqueuing, TriggerEnqueue
  <2>2. d # c => pc[d] # "w_enq" /\ (At("b_altend") => pc[d] \notin {"w_trig", "w_cas"})
    BY <2>1 DEF FlagsOK, Enqueuing, InFlight
  <2>3. /\ UNCHANGED <<chan, i, guards>> /\ pc'[c] = "b_out" /\ (d # c => pc'[d] = pc[d])
        /\ pc[c] = "w_enq" /\ chan[c] = "writer"
        /\ \/ At("b_altwt") /\ pc'[Reader] = "dis"
           \/ At("b_altend") /\ pc'[Reader] = "sel"
           \/ At("b_xable") /\ c = i /\ pc'[Reader] = "xin"
    BY <1>2, <1>16, TriggerEnqueueFacts DEF Channels
  <2> QED BY <1>2, <1>3, <1>4, <2>2, <2>3
<1>17. CASE In(c)
  <2>1. At("idle")
    BY <1>17 DEF In
  <2>2. /\ chan[c] \in {"none", "writer"} /\ (chan[c] = "writer" => pc[c] = "b_out")
        /\ chan[d] \in {"none", "writer"} /\ pc[d] \in {"idle", "w_swap", "b_out"}
    BY <2>1, QuietReader
  <2> QED BY <1>2, <1>3, <1>17, <2>1, <2>2 DEF In, InFrom, Channels
<1>18. CASE Xable(c)
  <2>1. At("idle")
    BY <1>18 DEF Xable
  <2>2. /\ chan[c] \in {"none", "writer"} /\ (chan[c] = "writer" => pc[c] = "b_out")
        /\ chan[d] \in {"none", "writer"} /\ pc[d] \in {"idle", "w_swap", "b_out"}
    BY <2>1, QuietReader
  <2> QED BY <1>2, <1>3, <1>18, <2>1, <2>2 DEF Xable, Channels
<1>19. CASE InSelected
  <2>1. At("sel") /\ temp \in Channels
    BY <1>19 DEF InSelected
  <2>2. /\ chan[temp] \in {"none", "writer"} /\ (chan[temp] = "writer" => pc[temp] = "b_out")
        /\ chan[d] \in {"none", "writer"} /\ pc[d] \in {"idle", "w_swap", "b_out"}
    BY <2>1, QuietReader
  <2> QED BY <1>2, <1>3, <1>19, <2>1, <2>2 DEF InSelected, InFrom, Channels
<1>20. CASE InSwap
  <2>1. At("r_swap") /\ i \in Channels
    BY <1>1, <1>20 DEF InSwap, IndexOK, OnChannelPC
  <2>2. /\ chan[i] \in {"none", "writer"} /\ (chan[i] = "writer" => pc[i] = "b_out")
        /\ chan[d] \in {"none", "writer"} /\ pc[d] \in {"idle", "w_swap", "b_out"}
    BY <2>1, QuietReader
  <2> QED BY <1>2, <1>3, <1>20, <2>1, <2>2 DEF InSwap, Channels
<1>21. CASE InTake
  BY <1>2, <1>3, <1>4, <1>21 DEF InTake
<1>22. CASE InCopy
  BY <1>2, <1>3, <1>4, <1>22 DEF InCopy
<1>23. CASE InEnqueue
  <2>1. /\ UNCHANGED <<chan, guards>> /\ pc'[Reader] = "idle" /\ i' = 0
        /\ pc'[d] = IF d = i THEN "idle" ELSE pc[d]
        /\ pc[Reader] \in {"r_enq", "x_enq"}
    BY <1>2, <1>23, InEnqueueFacts DEF Channels
  <2> QED BY <1>2, <1>3, <2>1
<1>24. CASE XableSwap
  <2>1. At("x_swap") /\ i \in Channels
    BY <1>1, <1>24 DEF XableSwap, IndexOK, OnChannelPC
  <2>2. /\ chan[i] \in {"none", "writer"} /\ (chan[i] = "writer" => pc[i] = "b_out")
        /\ chan[d] \in {"none", "writer"} /\ pc[d] \in {"idle", "w_swap", "b_out"}
    BY <2>1, QuietReader
  <2> QED BY <1>2, <1>3, <1>24, <2>1, <2>2 DEF XableSwap, Channels
<1>25. CASE XableRestore
  BY <1>2, <1>3, <1>4, <1>25 DEF XableRestore
<1>26. CASE Xin
  BY <1>2, <1>3, <1>4, <1>26 DEF Xin
<1>27. CASE Xend
  BY <1>2, <1>3, <1>4, <1>27 DEF Xend
<1>28. CASE Alt(g)
  BY <1>2, <1>3, <1>4, <1>28 DEF Alt, State
<1>29. CASE Enable
  BY <1>2, <1>3, <1>4, <1>29, EnableFacts
<1>30. CASE EnableSwap
  BY <1>2, <1>3, <1>4, <1>30, EnableSwapFacts
<1>31. CASE EnableInc
  BY <1>2, <1>3, <1>4, <1>31 DEF EnableInc
<1>32. CASE EnableRestore
  BY <1>2, <1>3, <1>4, <1>32 DEF EnableRestore
<1>33. CASE EnableTest
  BY <1>2, <1>3, <1>4, <1>33 DEF EnableTest, AfterReady
<1>34. CASE EnableClear
  BY <1>2, <1>3, <1>4, <1>34 DEF EnableClear, AfterReady
<1>35. CASE AltWait
  BY <1>2, <1>3, <1>4, <1>35 DEF AltWait, DisableFrom
<1>36. CASE AltWaitCas
  BY <1>2, <1>3, <1>4, <1>36 DEF AltWaitCas, State
<1>37. CASE AltWaitClear
  BY <1>2, <1>3, <1>4, <1>37 DEF AltWaitClear
<1>38. CASE Disable
  BY <1>2, <1>3, <1>4, <1>38 DEF Disable, NextDisable, LastDisabled, SelectGuard
<1>39. CASE DisableCas
  BY <1>2, <1>3, <1>4, <1>39 DEF DisableCas, NextDisable, LastDisabled, SelectGuard
<1>40. CASE DisableDec
  BY <1>2, <1>3, <1>4, <1>40 DEF DisableDec, NextDisable, LastDisabled
<1>41. CASE AltEnd
  <2>1. At("end") /\ (slot = Counted(1) <=> InFlight = {}) /\ Enqueuing = {}
    BY <1>41, AltEndFacts DEF AltEnd
  <2>2. InFlight = {} => pc[d] \notin {"w_trig", "w_cas"}
    BY DEF InFlight
  <2>3. pc[d] # "w_enq"
    BY <2>1 DEF Enqueuing
  <2> QED BY <1>2, <1>3, <1>41, <2>1, <2>2, <2>3 DEF AltEnd, Channels
<1>42. CASE AltEndDec
  <2>1. At("e_dec") /\ (slot = Counted(1) <=> InFlight = {}) /\ Enqueuing = {}
    BY <1>42, AltEndFacts DEF AltEndDec
  <2>2. InFlight = {} => pc[d] \notin {"w_trig", "w_cas"}
    BY DEF InFlight
  <2>3. pc[d] # "w_enq"
    BY <2>1 DEF Enqueuing
  <2> QED BY <1>2, <1>3, <1>42, <2>1, <2>2, <2>3 DEF AltEndDec, Channels
<1> QED
  BY <1>10, <1>11, <1>12, <1>13, <1>14, <1>15, <1>16, <1>17, <1>18, <1>19, <1>20, <1>21,
     <1>22, <1>23, <1>24, <1>25, <1>26, <1>27, <1>28, <1>29, <1>30, <1>31, <1>32, <1>33,
     <1>34, <1>35, <1>36, <1>37, <1>38, <1>39, <1>40, <1>41, <1>42 DEF Act, WriterAct,
     InputAct, AltAct, WriterStep, InputStep, AltStep

\* The functions keep their domains.
LEMMA FunStep ==
  ASSUME CInv, Style = "enbc3", Next PROVE FunOK'
<1>1. TypeOK /\ FunOK
  BY DEF CInv
<1>2. slot \in Slots /\ Pointer \in Slots
  BY <1>1, ChanAltAssumption DEF TypeOK, Slots, Pointer
<1> PICK c \in Channels, g \in SUBSET Channels : Act(c, g)
  BY StepCases
<1> USE ChanAltAssumption DEF Channels, Procs, Reader, At, Move, Goto, Set, altVars, FunOK,
    ReaderPC, WriterPC, Blocked
<1>10. CASE Out(c)
  BY <1>1, <1>2, <1>10 DEF Out
<1>11. CASE OutSwap(c)
  BY <1>1, <1>2, <1>11, OutSwapFacts
<1>12. CASE OutTake(c)
  BY <1>1, <1>2, <1>12 DEF OutTake
<1>13. CASE OutCopy(c)
  BY <1>1, <1>2, <1>13, OutCopyFacts
<1>14. CASE TriggerRead(c)
  BY <1>1, <1>2, <1>14 DEF TriggerRead
<1>15. CASE TriggerCas(c)
  BY <1>1, <1>2, <1>15, TriggerCasFacts
<1>16. CASE TriggerEnqueue(c)
  BY <1>1, <1>2, <1>16, TriggerEnqueueFacts
<1>17. CASE In(c)
  BY <1>1, <1>2, <1>17 DEF In, InFrom
<1>18. CASE Xable(c)
  BY <1>1, <1>2, <1>18 DEF Xable, State
<1>19. CASE InSelected
  BY <1>1, <1>2, <1>19 DEF InSelected, InFrom
<1>20. CASE InSwap
  BY <1>1, <1>2, <1>20 DEF InSwap
<1>21. CASE InTake
  BY <1>1, <1>2, <1>21 DEF InTake
<1>22. CASE InCopy
  BY <1>1, <1>2, <1>22 DEF InCopy
<1>23. CASE InEnqueue
  BY <1>1, <1>2, <1>23, InEnqueueFacts
<1>24. CASE XableSwap
  BY <1>1, <1>2, <1>24 DEF XableSwap
<1>25. CASE XableRestore
  BY <1>1, <1>2, <1>25 DEF XableRestore
<1>26. CASE Xin
  BY <1>1, <1>2, <1>26 DEF Xin
<1>27. CASE Xend
  BY <1>1, <1>2, <1>27 DEF Xend
<1>28. CASE Alt(g)
  BY <1>1, <1>2, <1>28 DEF Alt, State
<1>29. CASE Enable
  BY <1>1, <1>2, <1>29, EnableFacts
<1>30. CASE EnableSwap
  BY <1>1, <1>2, <1>30, EnableSwapFacts
<1>31. CASE EnableInc
  BY <1>1, <1>2, <1>31 DEF EnableInc
<1>32. CASE EnableRestore
  BY <1>1, <1>2, <1>32 DEF EnableRestore
<1>33. CASE EnableTest
  BY <1>1, <1>2, <1>33 DEF EnableTest, AfterReady
<1>34. CASE EnableClear
  BY <1>1, <1>2, <1>34 DEF EnableClear, AfterReady
<1>35. CASE AltWait
  BY <1>1, <1>2, <1>35 DEF AltWait, DisableFrom
<1>36. CASE AltWaitCas
  BY <1>1, <1>2, <1>36 DEF AltWaitCas, State
<1>37. CASE AltWaitClear
  BY <1>1, <1>2, <1>37 DEF AltWaitClear
<1>38. CASE Disable
  BY <1>1, <1>2, <1>38 DEF Disable, NextDisable, LastDisabled, SelectGuard
<1>39. CASE DisableCas
  BY <1>1, <1>2, <1>39 DEF DisableCas, NextDisable, LastDisabled, SelectGuard
<1>40. CASE DisableDec
  BY <1>1, <1>2, <1>40 DEF DisableDec, NextDisable, LastDisabled
<1>41. CASE AltEnd
  BY <1>1, <1>2, <1>41 DEF AltEnd, Counted, State
<1>42. CASE AltEndDec
  BY <1>1, <1>2, <1>42 DEF AltEndDec, Counted, State
<1> QED
  BY <1>10, <1>11, <1>12, <1>13, <1>14, <1>15, <1>16, <1>17, <1>18, <1>19, <1>20, <1>21,
     <1>22, <1>23, <1>24, <1>25, <1>26, <1>27, <1>28, <1>29, <1>30, <1>31, <1>32, <1>33,
     <1>34, <1>35, <1>36, <1>37, <1>38, <1>39, <1>40, <1>41, <1>42 DEF Act, WriterAct,
     InputAct, AltAct, WriterStep, InputStep, AltStep

\* i is what the next step of the reader expects.
LEMMA IndexStep ==
  ASSUME CInv, Style = "enbc3", Next PROVE IndexOK'
<1>1. TypeOK /\ FunOK /\ IndexOK
  BY DEF CInv
<1> PICK c \in Channels, g \in SUBSET Channels : Act(c, g)
  BY StepCases
<1> USE ChanAltAssumption DEF Channels, Procs, Reader, At, Move, Goto, Set, altVars, TypeOK,
    FunOK, IndexOK, EnablePC, DisablePC, OnChannelPC, AltPC
<1>10. CASE Out(c)
  BY <1>1, <1>10 DEF Out
<1>11. CASE OutSwap(c)
  BY <1>1, <1>11, OutSwapFacts
<1>12. CASE OutTake(c)
  BY <1>1, <1>12 DEF OutTake
<1>13. CASE OutCopy(c)
  BY <1>1, <1>13, OutCopyFacts
<1>14. CASE TriggerRead(c)
  BY <1>1, <1>14 DEF TriggerRead
<1>15. CASE TriggerCas(c)
  BY <1>1, <1>15, TriggerCasFacts
<1>16. CASE TriggerEnqueue(c)
  BY <1>1, <1>16, TriggerEnqueueFacts
<1>17. CASE In(c)
  BY <1>1, <1>17 DEF In, InFrom
<1>18. CASE Xable(c)
  BY <1>1, <1>18 DEF Xable, State
<1>19. CASE InSelected
  BY <1>1, <1>19 DEF InSelected, InFrom
<1>20. CASE InSwap
  BY <1>1, <1>20 DEF InSwap
<1>21. CASE InTake
  BY <1>1, <1>21 DEF InTake
<1>22. CASE InCopy
  BY <1>1, <1>22 DEF InCopy
<1>23. CASE InEnqueue
  BY <1>1, <1>23, InEnqueueFacts
<1>24. CASE XableSwap
  BY <1>1, <1>24 DEF XableSwap
<1>25. CASE XableRestore
  BY <1>1, <1>25 DEF XableRestore
<1>26. CASE Xin
  BY <1>1, <1>26 DEF Xin
<1>27. CASE Xend
  BY <1>1, <1>27 DEF Xend
<1>28. CASE Alt(g)
  BY <1>1, <1>28 DEF Alt, State
<1>29. CASE Enable
  BY <1>1, <1>29, EnableFacts
<1>30. CASE EnableSwap
  BY <1>1, <1>30, EnableSwapFacts
<1>31. CASE EnableInc
  BY <1>1, <1>31 DEF EnableInc
<1>32. CASE EnableRestore
  BY <1>1, <1>32 DEF EnableRestore
<1>33. CASE EnableTest
  BY <1>1, <1>33 DEF EnableTest, AfterReady
<1>34. CASE EnableClear
  BY <1>1, <1>34 DEF EnableClear, AfterReady
<1>35. CASE AltWait
  BY <1>1, <1>35 DEF AltWait, DisableFrom
<1>36. CASE AltWaitCas
  BY <1>1, <1>36 DEF AltWaitCas, State
<1>37. CASE AltWaitClear
  BY <1>1, <1>37 DEF AltWaitClear
<1>38. CASE Disable
  BY <1>1, <1>38 DEF Disable, NextDisable, LastDisabled, SelectGuard
<1>39. CASE DisableCas
  BY <1>1, <1>39 DEF DisableCas, NextDisable, LastDisabled, SelectGuard
<1>40. CASE DisableDec
  BY <1>1, <1>40 DEF DisableDec, NextDisable, LastDisabled
<1>41. CASE AltEnd
  BY <1>1, <1>41 DEF AltEnd, Counted, State
<1>42. CASE AltEndDec
  BY <1>1, <1>42 DEF AltEndDec, Counted, State
<1> QED
  BY <1>10, <1>11, <1>12, <1>13, <1>14, <1>15, <1>16, <1>17, <1>18, <1>19, <1>20, <1>21,
     <1>22, <1>23, <1>24, <1>25, <1>26, <1>27, <1>28, <1>29, <1>30, <1>31, <1>32, <1>33,
     <1>34, <1>35, <1>36, <1>37, <1>38, <1>39, <1>40, <1>41, <1>42 DEF Act, WriterAct,
     InputAct, AltAct, WriterStep, InputStep, AltStep

\* A value that is output is copied once.
LEMMA ValueStep ==
  ASSUME CInv, Style = "enbc3", Next PROVE ValueOK'
<1>1. TypeOK /\ FunOK /\ IndexOK /\ ValueOK /\ (\A d \in Channels : WordOK(d))
  BY DEF CInv
<1> SUFFICES ASSUME NEW d \in Channels
             PROVE  (buf[d] # val[d] <=>
                       pc[d] # "idle" /\ ~(d = i /\ pc[Reader] \in {"r_enq", "xend", "x_enq"}))'
  BY DEF ValueOK
<1>2. /\ pc \in [Procs -> ReaderPC \cup WriterPC] /\ i \in Int /\ d \in Int /\ d # 0
      /\ buf \in [Channels -> 0..1] /\ val \in [Channels -> 0..1] /\ val[d] \in 0..1 /\ buf[d] \in 0..1
  BY <1>1, ChanAltAssumption DEF TypeOK, FunOK, Channels
<1>3. /\ buf[d] # val[d] <=> pc[d] # "idle" /\ ~(d = i /\ pc[Reader] \in {"r_enq", "xend", "x_enq"})
      /\ d = i /\ pc[Reader] \in {"r_copy", "r_enq", "xin", "xend", "x_enq"} => pc[d] = "b_out"
      /\ pc[Reader] \in OnChannelPC => i \in Channels
  BY <1>1 DEF ValueOK, WordOK, IndexOK
<1> PICK c \in Channels, g \in SUBSET Channels : Act(c, g)
  BY StepCases
<1>4. c \in Int /\ c # 0
  BY ChanAltAssumption DEF Channels
<1> USE DEF Procs, Reader, OnChannelPC, At, Move, Goto, Set, altVars
<1>10. CASE Out(c)
  BY <1>2, <1>3, <1>4, <1>10 DEF Out
<1>11. CASE OutSwap(c)
  BY <1>2, <1>3, <1>4, <1>11, OutSwapFacts
<1>12. CASE OutTake(c)
  BY <1>2, <1>3, <1>4, <1>12 DEF OutTake
<1>13. CASE OutCopy(c)
  BY <1>2, <1>3, <1>4, <1>13, OutCopyFacts
<1>14. CASE TriggerRead(c)
  BY <1>2, <1>3, <1>4, <1>14 DEF TriggerRead
<1>15. CASE TriggerCas(c)
  BY <1>2, <1>3, <1>4, <1>15, TriggerCasFacts
<1>16. CASE TriggerEnqueue(c)
  BY <1>2, <1>3, <1>4, <1>16, TriggerEnqueueFacts
<1>17. CASE In(c)
  BY <1>2, <1>3, <1>4, <1>17 DEF In, InFrom
<1>18. CASE Xable(c)
  BY <1>2, <1>3, <1>4, <1>18 DEF Xable, State
<1>19. CASE InSelected
  BY <1>2, <1>3, <1>4, <1>19 DEF InSelected, InFrom
<1>20. CASE InSwap
  BY <1>2, <1>3, <1>4, <1>20 DEF InSwap
<1>21. CASE InTake
  BY <1>2, <1>3, <1>4, <1>21 DEF InTake
<1>22. CASE InCopy
  BY <1>2, <1>3, <1>4, <1>22 DEF InCopy
<1>23. CASE InEnqueue
  BY <1>2, <1>3, <1>4, <1>23, InEnqueueFacts
<1>24. CASE XableSwap
  BY <1>2, <1>3, <1>4, <1>24 DEF XableSwap
<1>25. CASE XableRestore
  BY <1>2, <1>3, <1>4, <1>25 DEF XableRestore
<1>26. CASE Xin
  BY <1>2, <1>3, <1>4, <1>26 DEF Xin
<1>27. CASE Xend
  BY <1>2, <1>3, <1>4, <1>27 DEF Xend
<1>28. CASE Alt(g)
  BY <1>2, <1>3, <1>4, <1>28 DEF Alt, State
<1>29. CASE Enable
  BY <1>2, <1>3, <1>4, <1>29, EnableFacts
<1>30. CASE EnableSwap
  BY <1>2, <1>3, <1>4, <1>30, EnableSwapFacts
<1>31. CASE EnableInc
  BY <1>2, <1>3, <1>4, <1>31 DEF EnableInc
<1>32. CASE EnableRestore
  BY <1>2, <1>3, <1>4, <1>32 DEF EnableRestore
<1>33. CASE EnableTest
  BY <1>2, <1>3, <1>4, <1>33 DEF EnableTest, AfterReady
<1>34. CASE EnableClear
  BY <1>2, <1>3, <1>4, <1>34 DEF EnableClear, AfterReady
<1>35. CASE AltWait
  BY <1>2, <1>3, <1>4, <1>35 DEF AltWait, DisableFrom
<1>36. CASE AltWaitCas
  BY <1>2, <1>3, <1>4, <1>36 DEF AltWaitCas, State
<1>37. CASE AltWaitClear
  BY <1>2, <1>3, <1>4, <1>37 DEF AltWaitClear
<1>38. CASE Disable
  BY <1>2, <1>3, <1>4, <1>38 DEF Disable, NextDisable, LastDisabled, SelectGuard
<1>39. CASE DisableCas
  BY <1>2, <1>3, <1>4, <1>39 DEF DisableCas, NextDisable, LastDisabled, SelectGuard
<1>40. CASE DisableDec
  BY <1>2, <1>3, <1>4, <1>40 DEF DisableDec, NextDisable, LastDisabled
<1>41. CASE AltEnd
  BY <1>2, <1>3, <1>4, <1>41 DEF AltEnd, Counted, State
<1>42. CASE AltEndDec
  BY <1>2, <1>3, <1>4, <1>42 DEF AltEndDec, Counted, State
<1> QED
  BY <1>10, <1>11, <1>12, <1>13, <1>14, <1>15, <1>16, <1>17, <1>18, <1>19, <1>20, <1>21,
     <1>22, <1>23, <1>24, <1>25, <1>26, <1>27, <1>28, <1>29, <1>30, <1>31, <1>32, <1>33,
     <1>34, <1>35, <1>36, <1>37, <1>38, <1>39, <1>40, <1>41, <1>42 DEF Act, WriterAct,
     InputAct, AltAct, WriterStep, InputStep, AltStep

\* The count in State is kept exact.
LEMMA CountStep ==
  ASSUME CInv, Style = "enbc3", Next PROVE CountOK'
<1>1. TypeOK /\ FunOK /\ CountOK
  BY DEF CInv
<1> PICK c \in Channels, g \in SUBSET Channels : Act(c, g)
  BY StepCases
<1>2. /\ pc \in [Procs -> ReaderPC \cup WriterPC] /\ slot \in Slots /\ slot.n \in Int
      /\ Cardinality(Installed) \in Nat /\ Cardinality(InFlight) \in Nat
  BY <1>1, CountFacts, ChanAltAssumption DEF TypeOK, FunOK, Slots
<1>3. /\ \A x \in Installed : Cardinality(Installed \ {x}) = Cardinality(Installed) - 1
      /\ \A x : x \notin Installed => Cardinality(Installed \cup {x}) = Cardinality(Installed) + 1
      /\ \A x \in InFlight : Cardinality(InFlight \ {x}) = Cardinality(InFlight) - 1
      /\ \A x : x \notin InFlight => Cardinality(InFlight \cup {x}) = Cardinality(InFlight) + 1
  BY CountFacts, FS_AddElement, FS_RemoveElement
<1>4. pc[Reader] \in AltPC \cup XablePC =>
        /\ slot.alt
        /\ slot.n + One(pc[Reader] \in {"e_inc", "e_restore"}) =
             One(pc[Reader] \notin {"b_altend", "x_restore", "b_xable"})
             + Cardinality(Installed) + Cardinality(InFlight) + One(At("d_dec"))
  BY <1>1 DEF CountOK
<1>9. CASE WriterAct(c)
  <2>1. CASE UNCHANGED <<slot, Installed, InFlight>>
    BY <1>4, <1>9, <2>1, WriterSets DEF CountOK, At, One, AltPC, XablePC
  <2>2. CASE /\ OutSwap(c) /\ UNCHANGED slot /\ pc'[Reader] = pc[Reader]
             /\ c \in Installed /\ c \notin InFlight
             /\ Installed' = Installed \ {c} /\ InFlight' = InFlight \cup {c}
    <3>1. /\ Cardinality(Installed') = Cardinality(Installed) - 1
          /\ Cardinality(InFlight') = Cardinality(InFlight) + 1
      BY <1>3, <2>2
    <3> QED BY <1>2, <1>4, <2>2, <3>1 DEF CountOK, At, One
  <2>3. CASE /\ TriggerCas(c) /\ pc'[Reader] = pc[Reader] /\ c \in InFlight /\ UNCHANGED Installed
             /\ InFlight' = InFlight \ {c} /\ slot'.alt = slot.alt /\ slot'.n = slot.n - 1
    <3>1. slot'.n = slot.n - 1 /\ Cardinality(InFlight') = Cardinality(InFlight) - 1
      BY <1>3, <2>3
    <3> QED BY <1>2, <1>4, <2>3, <3>1 DEF CountOK, At, One
  <2> QED BY <1>9, <2>1, <2>2, <2>3, WriterSets
<1>5. ASSUME InputAct(c) \/ AltAct(g)
      PROVE  /\ Cardinality(InFlight') = Cardinality(InFlight)
             /\ EnableSwap \/ XableSwap => Cardinality(Installed') = Cardinality(Installed) + 1
             /\ EnableRestore \/ XableRestore \/ (DisableCas /\ chan[i] = "alt") =>
                  Cardinality(Installed') = Cardinality(Installed) - 1
             /\ ~EnableSwap /\ ~XableSwap /\ ~EnableRestore /\ ~XableRestore
                /\ ~(DisableCas /\ chan[i] = "alt") => Cardinality(Installed') = Cardinality(Installed)
  <2>1. /\ EnableSwap \/ XableSwap => ~EnableRestore /\ ~XableRestore /\ ~DisableCas
        /\ EnableRestore \/ XableRestore => ~DisableCas
    BY DEF EnableSwap, XableSwap, EnableRestore, XableRestore, DisableCas, At
  <2> QED BY <1>3, <1>5, <2>1, ReaderSets
<1>6. pc[Reader] \notin AltPC \cup {"b_xable", "x_restore", "b_in", "r_take"} =>
        Cardinality(Installed) = 0 /\ Cardinality(InFlight) = 0
  <2>1. pc[Reader] \notin AltPC \cup {"b_xable", "x_restore", "b_in", "r_take"} =>
          Installed = {} /\ InFlight = {}
    BY QuietReader DEF Installed, InFlight
  <2> QED BY <2>1, FS_EmptySet
<1>7. \A l : Move(l) => pc'[Reader] = l
  BY <1>2 DEF Move, Goto, Procs
<1>8. \A l : At(l) <=> pc[Reader] = l
  BY DEF At
<1> USE DEF CountOK, AltPC, XablePC, One, Move, Goto, At, altVars, Procs, Slots
<1>10. CASE In(c)
  <2>1. InputAct(c)
    BY <1>10 DEF InputAct, InputStep
  <2>2. /\ Cardinality(InFlight') = Cardinality(InFlight)
        /\ Cardinality(Installed') = Cardinality(Installed)
    BY <1>5, <2>1, <1>10 DEF In, EnableSwap, XableSwap, EnableRestore, XableRestore,
       DisableCas, At, InFrom
  <2> QED BY <1>2, <1>4, <1>6, <1>10, <2>2 DEF In, InFrom
<1>11. CASE Xable(c)
  <2>1. InputAct(c)
    BY <1>11 DEF InputAct, InputStep
  <2>2. /\ Cardinality(InFlight') = Cardinality(InFlight)
        /\ Cardinality(Installed') = Cardinality(Installed)
    BY <1>5, <2>1, <1>11 DEF Xable, EnableSwap, XableSwap, EnableRestore, XableRestore,
       DisableCas, At
  <2> QED BY <1>2, <1>4, <1>6, <1>11, <2>2 DEF Xable, State
<1>12. CASE InSelected
  <2>1. InputAct(c)
    BY <1>12 DEF InputAct, InputStep
  <2>2. /\ Cardinality(InFlight') = Cardinality(InFlight)
        /\ Cardinality(Installed') = Cardinality(Installed)
    BY <1>5, <2>1, <1>12 DEF InSelected, EnableSwap, XableSwap, EnableRestore, XableRestore,
       DisableCas, At, InFrom
  <2> QED BY <1>2, <1>4, <1>6, <1>12, <2>2 DEF InSelected, InFrom
<1>13. CASE InSwap
  <2>1. InputAct(c)
    BY <1>13 DEF InputAct, InputStep
  <2>2. /\ Cardinality(InFlight') = Cardinality(InFlight)
        /\ Cardinality(Installed') = Cardinality(Installed)
    BY <1>5, <2>1, <1>13 DEF InSwap, EnableSwap, XableSwap, EnableRestore, XableRestore,
       DisableCas, At
  <2> QED BY <1>2, <1>4, <1>6, <1>13, <2>2 DEF InSwap
<1>14. CASE InTake
  <2>1. InputAct(c)
    BY <1>14 DEF InputAct, InputStep
  <2>2. /\ Cardinality(InFlight') = Cardinality(InFlight)
        /\ Cardinality(Installed') = Cardinality(Installed)
    BY <1>5, <2>1, <1>14 DEF InTake, EnableSwap, XableSwap, EnableRestore, XableRestore,
       DisableCas, At
  <2> QED BY <1>2, <1>4, <1>6, <1>14, <2>2 DEF InTake
<1>15. CASE InCopy
  <2>1. InputAct(c)
    BY <1>15 DEF InputAct, InputStep
  <2>2. /\ Cardinality(InFlight') = Cardinality(InFlight)
        /\ Cardinality(Installed') = Cardinality(Installed)
    BY <1>5, <2>1, <1>15 DEF InCopy, EnableSwap, XableSwap, EnableRestore, XableRestore,
       DisableCas, At
  <2> QED BY <1>2, <1>4, <1>6, <1>15, <2>2 DEF InCopy
<1>16. CASE InEnqueue
  <2>1. InputAct(c)
    BY <1>16 DEF InputAct, InputStep
  <2>2. /\ Cardinality(InFlight') = Cardinality(InFlight)
        /\ Cardinality(Installed') = Cardinality(Installed)
    BY <1>5, <2>1, <1>16 DEF InEnqueue, EnableSwap, XableSwap, EnableRestore, XableRestore,
       DisableCas, At
  <2> QED BY <1>2, <1>4, <1>16, <2>2, InEnqueueFacts
<1>17. CASE XableSwap
  <2>1. InputAct(c)
    BY <1>17 DEF InputAct, InputStep
  <2>2. /\ Cardinality(InFlight') = Cardinality(InFlight)
        /\ Cardinality(Installed') = Cardinality(Installed) + 1
    BY <1>5, <2>1, <1>17
  <2> QED BY <1>2, <1>4, <1>6, <1>17, <2>2 DEF XableSwap
<1>18. CASE XableRestore
  <2>1. InputAct(c)
    BY <1>18 DEF InputAct, InputStep
  <2>2. /\ Cardinality(InFlight') = Cardinality(InFlight)
        /\ Cardinality(Installed') = Cardinality(Installed) - 1
    BY <1>5, <2>1, <1>18
  <2> QED BY <1>2, <1>4, <1>6, <1>18, <2>2 DEF XableRestore
<1>19. CASE Xin
  <2>1. InputAct(c)
    BY <1>19 DEF InputAct, InputStep
  <2>2. /\ Cardinality(InFlight') = Cardinality(InFlight)
        /\ Cardinality(Installed') = Cardinality(Installed)
    BY <1>5, <2>1, <1>19 DEF Xin, EnableSwap, XableSwap, EnableRestore, XableRestore,
       DisableCas, At
  <2> QED BY <1>2, <1>4, <1>6, <1>19, <2>2 DEF Xin
<1>20. CASE Xend
  <2>1. InputAct(c)
    BY <1>20 DEF InputAct, InputStep
  <2>2. /\ Cardinality(InFlight') = Cardinality(InFlight)
        /\ Cardinality(Installed') = Cardinality(Installed)
    BY <1>5, <2>1, <1>20 DEF Xend, EnableSwap, XableSwap, EnableRestore, XableRestore,
       DisableCas, At
  <2> QED BY <1>2, <1>4, <1>6, <1>20, <2>2 DEF Xend
<1>21. CASE Alt(g)
  <2>1. AltAct(g)
    BY <1>21 DEF AltAct, AltStep
  <2>2. /\ Cardinality(InFlight') = Cardinality(InFlight)
        /\ Cardinality(Installed') = Cardinality(Installed)
    BY <1>5, <2>1, <1>21 DEF Alt, EnableSwap, XableSwap, EnableRestore, XableRestore,
       DisableCas, At
  <2> QED BY <1>2, <1>4, <1>6, <1>21, <2>2 DEF Alt, State
<1>22. CASE Enable
  <2>1. AltAct(g)
    BY <1>22 DEF AltAct, AltStep
  <2>2. /\ Cardinality(InFlight') = Cardinality(InFlight)
        /\ Cardinality(Installed') = Cardinality(Installed)
    BY <1>5, <2>1, <1>22 DEF Enable, EnableSwap, XableSwap, EnableRestore, XableRestore,
       DisableCas, At
  <2> QED BY <1>2, <1>4, <1>22, <2>2, EnableFacts
<1>23. CASE EnableSwap
  <2>1. AltAct(g)
    BY <1>23 DEF AltAct, AltStep
  <2>2. /\ Cardinality(InFlight') = Cardinality(InFlight)
        /\ Cardinality(Installed') = Cardinality(Installed) + 1
    BY <1>5, <2>1, <1>23
  <2> QED BY <1>2, <1>4, <1>23, <2>2, EnableSwapFacts
<1>24. CASE EnableInc
  <2>1. AltAct(g)
    BY <1>24 DEF AltAct, AltStep
  <2>2. /\ Cardinality(InFlight') = Cardinality(InFlight)
        /\ Cardinality(Installed') = Cardinality(Installed)
    BY <1>5, <2>1, <1>24 DEF EnableInc, EnableSwap, XableSwap, EnableRestore, XableRestore,
       DisableCas, At
  <2> QED BY <1>2, <1>4, <1>6, <1>24, <2>2 DEF EnableInc
<1>25. CASE EnableRestore
  <2>1. AltAct(g)
    BY <1>25 DEF AltAct, AltStep
  <2>2. /\ Cardinality(InFlight') = Cardinality(InFlight)
        /\ Cardinality(Installed') = Cardinality(Installed) - 1
    BY <1>5, <2>1, <1>25
  <2> QED BY <1>2, <1>4, <1>6, <1>25, <2>2 DEF EnableRestore
<1>26. CASE EnableTest
  <2>1. AltAct(g)
    BY <1>26 DEF AltAct, AltStep
  <2>2. /\ Cardinality(InFlight') = Cardinality(InFlight)
        /\ Cardinality(Installed') = Cardinality(Installed)
    BY <1>5, <2>1, <1>26 DEF EnableTest, EnableSwap, XableSwap, EnableRestore, XableRestore,
       DisableCas, At
  <2> QED BY <1>2, <1>4, <1>6, <1>26, <2>2 DEF EnableTest, AfterReady
<1>27. CASE EnableClear
  <2>1. AltAct(g)
    BY <1>27 DEF AltAct, AltStep
  <2>2. /\ Cardinality(InFlight') = Cardinality(InFlight)
        /\ Cardinality(Installed') = Cardinality(Installed)
    BY <1>5, <2>1, <1>27 DEF EnableClear, EnableSwap, XableSwap, EnableRestore,
       XableRestore, DisableCas, At
  <2> QED BY <1>2, <1>4, <1>6, <1>27, <2>2 DEF EnableClear, AfterReady
<1>28. CASE AltWait
  <2>1. AltAct(g)
    BY <1>28 DEF AltAct, AltStep
  <2>2. /\ Cardinality(InFlight') = Cardinality(InFlight)
        /\ Cardinality(Installed') = Cardinality(Installed)
    BY <1>5, <2>1, <1>28 DEF AltWait, EnableSwap, XableSwap, EnableRestore, XableRestore,
       DisableCas, At
  <2> QED BY <1>2, <1>4, <1>6, <1>28, <2>2 DEF AltWait, DisableFrom
<1>29. CASE AltWaitCas
  <2>1. AltAct(g)
    BY <1>29 DEF AltAct, AltStep
  <2>2. /\ Cardinality(InFlight') = Cardinality(InFlight)
        /\ Cardinality(Installed') = Cardinality(Installed)
    BY <1>5, <2>1, <1>29 DEF AltWaitCas, EnableSwap, XableSwap, EnableRestore, XableRestore,
       DisableCas, At
  <2> QED BY <1>2, <1>4, <1>6, <1>29, <2>2 DEF AltWaitCas, State
<1>30. CASE AltWaitClear
  <2>1. AltAct(g)
    BY <1>30 DEF AltAct, AltStep
  <2>2. /\ Cardinality(InFlight') = Cardinality(InFlight)
        /\ Cardinality(Installed') = Cardinality(Installed)
    BY <1>5, <2>1, <1>30 DEF AltWaitClear, EnableSwap, XableSwap, EnableRestore,
       XableRestore, DisableCas, At
  <2> QED BY <1>2, <1>4, <1>6, <1>30, <2>2 DEF AltWaitClear
<1>31. CASE Disable
  <2>1. AltAct(g)
    BY <1>31 DEF AltAct, AltStep
  <2>2. /\ Cardinality(InFlight') = Cardinality(InFlight)
        /\ Cardinality(Installed') = Cardinality(Installed)
    BY <1>5, <2>1, <1>31 DEF Disable, EnableSwap, XableSwap, EnableRestore, XableRestore,
       DisableCas, At
  <2> QED BY <1>2, <1>4, <1>6, <1>31, <2>2 DEF Disable, NextDisable, LastDisabled,
      SelectGuard
<1>32. CASE DisableCas
  <2>1. AltAct(g)
    BY <1>32 DEF AltAct, AltStep
  <2>2. Cardinality(InFlight') = Cardinality(InFlight) /\ Cardinality(Installed') =
          IF chan[i] = "alt" THEN Cardinality(Installed) - 1 ELSE Cardinality(Installed)
    BY <1>5, <2>1, <1>32
       DEF DisableCas, EnableSwap, XableSwap, EnableRestore, XableRestore, At
  <2> QED BY <1>2, <1>4, <1>6, <1>32, <2>2 DEF DisableCas, NextDisable, LastDisabled,
      SelectGuard
<1>33. CASE DisableDec
  <2>1. AltAct(g)
    BY <1>33 DEF AltAct, AltStep
  <2>2. /\ Cardinality(InFlight') = Cardinality(InFlight)
        /\ Cardinality(Installed') = Cardinality(Installed)
    BY <1>5, <2>1, <1>33 DEF DisableDec, EnableSwap, XableSwap, EnableRestore, XableRestore,
       DisableCas, At
  <2> QED BY <1>2, <1>4, <1>6, <1>33, <2>2 DEF DisableDec, NextDisable, LastDisabled
<1>34. CASE AltEnd
  <2>1. AltAct(g)
    BY <1>34 DEF AltAct, AltStep
  <2>2. /\ Cardinality(InFlight') = Cardinality(InFlight)
        /\ Cardinality(Installed') = Cardinality(Installed)
    BY <1>5, <2>1, <1>34 DEF AltEnd, EnableSwap, XableSwap, EnableRestore, XableRestore,
       DisableCas, At
  <2> QED BY <1>2, <1>4, <1>34, <2>2, AltEndFacts DEF AltEnd
<1>35. CASE AltEndDec
  <2>1. AltAct(g)
    BY <1>35 DEF AltAct, AltStep
  <2>2. /\ Cardinality(InFlight') = Cardinality(InFlight)
        /\ Cardinality(Installed') = Cardinality(Installed)
    BY <1>5, <2>1, <1>35 DEF AltEndDec, EnableSwap, XableSwap, EnableRestore, XableRestore,
       DisableCas, At
  <2> QED BY <1>2, <1>4, <1>35, <2>2, AltEndFacts DEF AltEndDec
<1> QED
  BY <1>9, <1>10, <1>11, <1>12, <1>13, <1>14, <1>15, <1>16, <1>17, <1>18, <1>19, <1>20,
     <1>21, <1>22, <1>23, <1>24, <1>25, <1>26, <1>27, <1>28, <1>29, <1>30, <1>31, <1>32,
     <1>33, <1>34, <1>35 DEF Act, InputAct, AltAct, InputStep, AltStep

\* The flags in State say where the reader is.
LEMMA FlagsStep ==
  ASSUME CInv, Style = "enbc3", Next PROVE FlagsOK'
<1>1. TypeOK /\ FunOK /\ FlagsOK /\ (\A d \in Channels : WordOK(d))
  BY DEF CInv
<1> PICK c \in Channels, g \in SUBSET Channels : Act(c, g)
  BY StepCases
<1>2. /\ pc \in [Procs -> ReaderPC \cup WriterPC] /\ pc[Reader] \in ReaderPC /\ slot \in Slots
      /\ st \in [Procs -> Slots]
  BY <1>1 DEF TypeOK, FunOK, Slots
<1>3. ASSUME InputAct(c) \/ AltAct(g) PROVE UNCHANGED <<InFlight, Enqueuing>>
  BY <1>3, ReaderSets
<1>4. pc[Reader] \notin {"b_altwt", "b_altend", "b_xable"} => Enqueuing = {}
  BY <1>1 DEF WordOK, Enqueuing
<1>9. CASE WriterAct(c)
  <2>1. CASE UNCHANGED <<slot, Enqueuing>>
    <3>1. CASE UNCHANGED InFlight
      BY <1>1, <1>9, <2>1, <3>1, WriterSets DEF FlagsOK, At, EnablePC, DisablePC, EndPC,
         XablePC
    <3>2. CASE OutSwap(c) /\ chan[c] = "alt"
      <4>1. pc'[Reader] = pc[Reader] /\ st' = st /\ ~At("b_altend")
        BY <1>1, <1>2, <3>2, OutSwapFacts DEF WordOK, AltPC, EndPC, At, Channels, Procs,
           Reader
      <4> QED BY <1>1, <2>1, <4>1 DEF FlagsOK, At
    <3>3. CASE TriggerCas(c)
      <4>1. slot.n \in Int /\ slot.n # slot.n - 1
        BY <1>2, ChanAltAssumption DEF Slots
      <4>2. UNCHANGED InFlight
        BY <1>9, <2>1, <3>3, <4>1, WriterSets DEF OutSwap, TriggerCas, TriggerEnqueue
      <4> QED BY <3>1, <4>2
    <3> QED BY <1>9, <2>1, <3>1, <3>2, <3>3, WriterSets DEF TriggerEnqueue, OutSwap
  <2>2. CASE /\ TriggerCas(c) /\ pc'[Reader] = pc[Reader] /\ c \in InFlight
             /\ st'[Reader] = st[Reader]
             /\ InFlight' = InFlight \ {c}
             /\ slot'.enabling = slot.enabling /\ ~slot'.waiting /\ ~slot'.notReady
    <3>1. CASE /\ slot.waiting \/ (slot.n = 1 /\ ~slot.enabling)
               /\ Enqueuing' = Enqueuing \cup {c}
      <4>1. /\ Enqueuing = {} /\ pc[Reader] \in {"b_altwt", "b_altend", "b_xable"}
            /\ At("b_altend") => InFlight = {c}
        BY <2>2, <3>1, InFlightFacts DEF At
      <4> QED BY <1>1, <2>2, <3>1, <4>1 DEF FlagsOK, At, EnablePC, DisablePC, EndPC, XablePC
    <3>2. CASE ~slot.waiting /\ ~(slot.n = 1 /\ ~slot.enabling) /\ UNCHANGED Enqueuing
      <4>1. At("b_altend") => InFlight # {c}
        <5>1. At("b_altend") => slot.n = Cardinality(InFlight) /\ ~slot.enabling
          BY <2>2, InFlightFacts DEF At
        <5> QED BY <3>2, <5>1, FS_Singleton
      <4> QED BY <1>1, <2>2, <3>2, <4>1, InFlightFacts DEF FlagsOK, At, EnablePC, DisablePC,
          EndPC, XablePC
    <3> QED BY <1>9, <2>2, <3>1, <3>2, WriterSets
  <2>3. CASE TriggerEnqueue(c)
    <3>1. Enqueuing = {c}
      BY <1>1, <1>9, <2>3, WriterSets DEF FlagsOK, OutSwap, TriggerCas, TriggerEnqueue
    <3> QED BY <1>1, <1>9, <2>3, <3>1, WriterSets
            DEF FlagsOK, At, EnablePC, DisablePC, EndPC, XablePC, OutSwap, TriggerCas, TriggerEnqueue
  <2> QED BY <1>9, <2>1, <2>2, <2>3, WriterSets
<1> USE DEF FlagsOK, EnablePC, DisablePC, EndPC, XablePC, ReaderPC, Blocked, Move, Goto, At,
    altVars, Procs, Slots
<1>10. CASE In(c)
  <2>1. UNCHANGED <<InFlight, Enqueuing>>
    BY <1>3, <1>10 DEF InputAct, InputStep
  <2> QED BY <1>1, <1>2, <1>4, <1>10, <2>1 DEF In, InFrom
<1>11. CASE Xable(c)
  <2>1. UNCHANGED <<InFlight, Enqueuing>>
    BY <1>3, <1>11 DEF InputAct, InputStep
  <2> QED BY <1>1, <1>2, <1>4, <1>11, <2>1 DEF Xable, State
<1>12. CASE InSelected
  <2>1. UNCHANGED <<InFlight, Enqueuing>>
    BY <1>3, <1>12 DEF InputAct, InputStep
  <2> QED BY <1>1, <1>2, <1>4, <1>12, <2>1 DEF InSelected, InFrom
<1>13. CASE InSwap
  <2>1. UNCHANGED <<InFlight, Enqueuing>>
    BY <1>3, <1>13 DEF InputAct, InputStep
  <2> QED BY <1>1, <1>2, <1>4, <1>13, <2>1 DEF InSwap
<1>14. CASE InTake
  <2>1. UNCHANGED <<InFlight, Enqueuing>>
    BY <1>3, <1>14 DEF InputAct, InputStep
  <2> QED BY <1>1, <1>2, <1>4, <1>14, <2>1 DEF InTake
<1>15. CASE InCopy
  <2>1. UNCHANGED <<InFlight, Enqueuing>>
    BY <1>3, <1>15 DEF InputAct, InputStep
  <2> QED BY <1>1, <1>2, <1>4, <1>15, <2>1 DEF InCopy
<1>16. CASE InEnqueue
  <2>1. UNCHANGED <<InFlight, Enqueuing>>
    BY <1>3, <1>16 DEF InputAct, InputStep
  <2> QED BY <1>1, <1>2, <1>4, <1>16, <2>1, InEnqueueFacts
<1>17. CASE XableSwap
  <2>1. UNCHANGED <<InFlight, Enqueuing>>
    BY <1>3, <1>17 DEF InputAct, InputStep
  <2> QED BY <1>1, <1>2, <1>4, <1>17, <2>1 DEF XableSwap
<1>18. CASE XableRestore
  <2>1. UNCHANGED <<InFlight, Enqueuing>>
    BY <1>3, <1>18 DEF InputAct, InputStep
  <2> QED BY <1>1, <1>2, <1>4, <1>18, <2>1 DEF XableRestore
<1>19. CASE Xin
  <2>1. UNCHANGED <<InFlight, Enqueuing>>
    BY <1>3, <1>19 DEF InputAct, InputStep
  <2> QED BY <1>1, <1>2, <1>4, <1>19, <2>1 DEF Xin
<1>20. CASE Xend
  <2>1. UNCHANGED <<InFlight, Enqueuing>>
    BY <1>3, <1>20 DEF InputAct, InputStep
  <2> QED BY <1>1, <1>2, <1>4, <1>20, <2>1 DEF Xend
<1>21. CASE Alt(g)
  <2>1. UNCHANGED <<InFlight, Enqueuing>>
    BY <1>3, <1>21 DEF AltAct, AltStep
  <2> QED BY <1>1, <1>2, <1>4, <1>21, <2>1 DEF Alt, State
<1>22. CASE Enable
  <2>1. UNCHANGED <<InFlight, Enqueuing>>
    BY <1>3, <1>22 DEF AltAct, AltStep
  <2> QED BY <1>1, <1>2, <1>4, <1>22, <2>1, EnableFacts
<1>23. CASE EnableSwap
  <2>1. UNCHANGED <<InFlight, Enqueuing>>
    BY <1>3, <1>23 DEF AltAct, AltStep
  <2> QED BY <1>1, <1>2, <1>4, <1>23, <2>1, EnableSwapFacts
<1>24. CASE EnableInc
  <2>1. UNCHANGED <<InFlight, Enqueuing>>
    BY <1>3, <1>24 DEF AltAct, AltStep
  <2> QED BY <1>1, <1>2, <1>4, <1>24, <2>1 DEF EnableInc
<1>25. CASE EnableRestore
  <2>1. UNCHANGED <<InFlight, Enqueuing>>
    BY <1>3, <1>25 DEF AltAct, AltStep
  <2> QED BY <1>1, <1>2, <1>4, <1>25, <2>1 DEF EnableRestore
<1>26. CASE EnableTest
  <2>1. UNCHANGED <<InFlight, Enqueuing>>
    BY <1>3, <1>26 DEF AltAct, AltStep
  <2> QED BY <1>1, <1>2, <1>4, <1>26, <2>1 DEF EnableTest, AfterReady
<1>27. CASE EnableClear
  <2>1. UNCHANGED <<InFlight, Enqueuing>>
    BY <1>3, <1>27 DEF AltAct, AltStep
  <2> QED BY <1>1, <1>2, <1>4, <1>27, <2>1 DEF EnableClear, AfterReady
<1>28. CASE AltWait
  <2>1. UNCHANGED <<InFlight, Enqueuing>>
    BY <1>3, <1>28 DEF AltAct, AltStep
  <2> QED BY <1>1, <1>2, <1>4, <1>28, <2>1 DEF AltWait, DisableFrom
<1>29. CASE AltWaitCas
  <2>1. UNCHANGED <<InFlight, Enqueuing>>
    BY <1>3, <1>29 DEF AltAct, AltStep
  <2> QED BY <1>1, <1>2, <1>4, <1>29, <2>1 DEF AltWaitCas, State
<1>30. CASE AltWaitClear
  <2>1. UNCHANGED <<InFlight, Enqueuing>>
    BY <1>3, <1>30 DEF AltAct, AltStep
  <2> QED BY <1>1, <1>2, <1>4, <1>30, <2>1 DEF AltWaitClear
<1>31. CASE Disable
  <2>1. UNCHANGED <<InFlight, Enqueuing>>
    BY <1>3, <1>31 DEF AltAct, AltStep
  <2> QED BY <1>1, <1>2, <1>4, <1>31, <2>1 DEF Disable, NextDisable, LastDisabled,
      SelectGuard
<1>32. CASE DisableCas
  <2>1. UNCHANGED <<InFlight, Enqueuing>>
    BY <1>3, <1>32 DEF AltAct, AltStep
  <2> QED BY <1>1, <1>2, <1>4, <1>32, <2>1 DEF DisableCas, NextDisable, LastDisabled,
      SelectGuard
<1>33. CASE DisableDec
  <2>1. UNCHANGED <<InFlight, Enqueuing>>
    BY <1>3, <1>33 DEF AltAct, AltStep
  <2> QED BY <1>1, <1>2, <1>4, <1>33, <2>1 DEF DisableDec, NextDisable, LastDisabled
<1>34. CASE AltEnd
  <2>1. UNCHANGED <<InFlight, Enqueuing>>
    BY <1>3, <1>34 DEF AltAct, AltStep
  <2> QED BY <1>1, <1>2, <1>4, <1>34, <2>1, AltEndFacts DEF AltEnd
<1>35. CASE AltEndDec
  <2>1. UNCHANGED <<InFlight, Enqueuing>>
    BY <1>3, <1>35 DEF AltAct, AltStep
  <2> QED BY <1>1, <1>2, <1>4, <1>35, <2>1, AltEndFacts DEF AltEndDec
<1> QED
  BY <1>9, <1>10, <1>11, <1>12, <1>13, <1>14, <1>15, <1>16, <1>17, <1>18, <1>19, <1>20,
     <1>21, <1>22, <1>23, <1>24, <1>25, <1>26, <1>27, <1>28, <1>29, <1>30, <1>31, <1>32,
     <1>33, <1>34, <1>35 DEF Act, InputAct, AltAct, InputStep, AltStep

\* A writer that waits in its channel word stays there while the reader is in an ALT.
LEMMA WriterKeeps ==
  ASSUME CInv, NEW c \in Channels, WriterAct(c), pc[Reader] \in AltPC \cup {"sel"}
  PROVE  /\ \A d \in Channels : chan[d] = "writer" => chan'[d] = "writer"
         /\ pc'[Reader] = pc[Reader] \/ TriggerEnqueue(c)
         /\ UNCHANGED <<i, guards, temp, first>>
<1>1. TypeOK /\ FunOK /\ WordOK(c)
  BY DEF CInv
<1>2. ~OutTake(c) /\ ~OutCopy(c)
  BY <1>1 DEF OutTake, OutCopy, WordOK, At, AltPC
<1>3. chan' = chan \/ chan' = [chan EXCEPT ![c] = "writer"]
  BY <1>2 DEF WriterAct, WriterStep, Out, OutSwap, TriggerRead, TriggerCas, TriggerEnqueue,
     Set
<1>4. c # Reader /\ \A l : Goto(c, l) => pc'[Reader] = pc[Reader]
  BY <1>1 DEF FunOK, Goto, Channels, Procs, Reader
<1>5. pc'[Reader] = pc[Reader] \/ TriggerEnqueue(c)
  BY <1>2, <1>4 DEF WriterAct, WriterStep, Out, OutSwap, TriggerRead, TriggerCas
<1>6. UNCHANGED <<i, guards, temp, first>>
  BY <1>2 DEF WriterAct, WriterStep, Out, OutSwap, TriggerRead, TriggerCas, TriggerEnqueue,
     altVars
<1> QED BY <1>1, <1>3, <1>5, <1>6 DEF TypeOK

\* ALT_NOT_READY is cleared by exactly the guards that are ready.
LEMMA ReadyStep ==
  ASSUME CInv, Style = "enbc3", Next PROVE ReadyOK'
<1>1. TypeOK /\ FunOK /\ IndexOK /\ FlagsOK /\ ReadyOK /\ (\A d \in Channels : WordOK(d))
  BY DEF CInv
<1> PICK c \in Channels, g \in SUBSET Channels : Act(c, g)
  BY StepCases
<1>2. /\ pc \in [Procs -> ReaderPC \cup WriterPC] /\ pc[Reader] \in ReaderPC
      /\ i \in Int /\ N \in Int /\ N >= 1 /\ guards \subseteq Channels /\ g \subseteq Channels
      /\ \A d \in Channels : d \in Int /\ d >= 1 /\ d <= N
      /\ chan \in [Channels -> {"none", "writer", "reader", "alt"}]
  BY <1>1, ChanAltAssumption DEF TypeOK, FunOK, Channels
<1>3. ASSUME InputAct(c) \/ AltAct(g), ~EnableRestore, ~XableRestore, ~DisableCas
      PROVE  UNCHANGED <<InFlight, Enqueuing>> /\ Installed \subseteq Installed'
  BY <1>3, ReaderSets
<1>4. /\ pc[Reader] \in EnablePC => i \in 1..N+1 /\ guards # {}
      /\ pc[Reader] \in WaitPC => guards # {}
  BY <1>1 DEF IndexOK, EnablePC, WaitPC, AltPC
<1>9. CASE WriterAct(c)
  <2>1. CASE pc[Reader] \notin AltPC
    BY <1>2, <1>9, <2>1, WriterSets DEF ReadyOK, EnablePC, AltPC, At
  <2>2. CASE TriggerEnqueue(c)
    BY <1>2, <1>9, <2>2, WriterSets DEF ReadyOK, EnablePC, At, OutSwap, TriggerCas,
       TriggerEnqueue
  <2>3. CASE pc[Reader] \in AltPC /\ ~TriggerEnqueue(c)
    <3>1. /\ \A d \in Channels : chan[d] = "writer" => chan'[d] = "writer"
          /\ pc'[Reader] = pc[Reader] /\ UNCHANGED <<i, guards>>
      BY <1>9, <2>3, WriterKeeps
    <3>2. \A d : Passed(d)' <=> Passed(d)
      BY <3>1 DEF Passed, At
    <3>3. CASE UNCHANGED slot /\ Enqueuing' = Enqueuing /\ Installed \cup InFlight \subseteq Installed' \cup InFlight'
      BY <1>1, <1>2, <3>1, <3>2, <3>3 DEF ReadyOK, At
    <3>4. CASE /\ c \in InFlight /\ ~slot'.notReady
               /\ \/ slot.waiting /\ Enqueuing' = Enqueuing \cup {c}
                  \/ slot.n = 1 /\ ~slot.enabling
                  \/ ~slot.waiting /\ Enqueuing' = Enqueuing
      <4>1. c \in guards /\ Passed(c) /\ chan[c] = "writer"
        BY <1>1, <2>3, <3>4 DEF WordOK, InFlight, At, AltPC
      <4>2. At("b_altwt") => Enqueuing' # {}
        BY <3>4, InFlightFacts DEF At
      <4> QED BY <1>2, <3>1, <3>2, <3>4, <4>1, <4>2 DEF ReadyOK, At
    <3> QED BY <1>9, <2>3, <3>3, <3>4, WriterSets
  <2> QED BY <2>1, <2>2, <2>3
<1> USE DEF ReadyOK, Passed, EnablePC, WaitPC, ReaderPC, Blocked, Move, Goto, At, Set,
    altVars, Procs
<1>10. CASE In(c)
  BY <1>2, <1>10 DEF In, InFrom
<1>11. CASE Xable(c)
  BY <1>2, <1>11 DEF Xable, State
<1>12. CASE InSelected
  BY <1>2, <1>12 DEF InSelected, InFrom
<1>13. CASE InSwap
  BY <1>2, <1>13 DEF InSwap
<1>14. CASE InTake
  BY <1>2, <1>14 DEF InTake
<1>15. CASE InCopy
  BY <1>2, <1>15 DEF InCopy
<1>16. CASE InEnqueue
  BY <1>2, <1>16, InEnqueueFacts
<1>17. CASE XableSwap
  BY <1>2, <1>17 DEF XableSwap
<1>18. CASE XableRestore
  BY <1>2, <1>18 DEF XableRestore
<1>19. CASE Xin
  BY <1>2, <1>19 DEF Xin
<1>20. CASE Xend
  BY <1>2, <1>20 DEF Xend
<1>21. CASE Alt(g)
  <2>1. UNCHANGED <<InFlight, Enqueuing>> /\ Installed \subseteq Installed'
    BY <1>3, <1>21 DEF AltAct, AltStep, Alt, EnableRestore, XableRestore, DisableCas, At
  <2> QED BY <1>1, <1>2, <1>4, <1>21, <2>1 DEF Alt, State
<1>22. CASE Enable
  <2>1. UNCHANGED <<InFlight, Enqueuing>> /\ Installed \subseteq Installed'
    BY <1>3, <1>22 DEF AltAct, AltStep, Enable, EnableRestore, XableRestore, DisableCas, At
  <2> QED BY <1>1, <1>2, <1>4, <1>22, <2>1, EnableFacts
<1>23. CASE EnableSwap
  <2>1. UNCHANGED <<InFlight, Enqueuing>> /\ Installed' = Installed \cup {i}
    BY <1>23, ReaderSets DEF AltAct, AltStep, EnableRestore, EnableSwap, XableRestore,
       DisableCas, At
  <2> QED BY <1>1, <1>2, <1>4, <1>23, <2>1, EnableSwapFacts
<1>24. CASE EnableInc
  <2>1. UNCHANGED <<InFlight, Enqueuing>> /\ Installed \subseteq Installed'
    BY <1>3, <1>24 DEF AltAct, AltStep, EnableInc, EnableRestore, XableRestore, DisableCas,
       At
  <2> QED BY <1>1, <1>2, <1>4, <1>24, <2>1 DEF EnableInc
<1>25. CASE EnableRestore
  <2>1. InFlight' = InFlight /\ Installed' = Installed \ {i}
    BY <1>25, ReaderSets DEF AltAct, AltStep, EnableRestore, EnableSwap, XableSwap, At
  <2> QED BY <1>1, <1>2, <1>4, <1>25, <2>1 DEF EnableRestore
<1>26. CASE EnableTest
  <2>1. UNCHANGED <<InFlight, Enqueuing>> /\ Installed \subseteq Installed'
    BY <1>3, <1>26 DEF AltAct, AltStep, EnableTest, EnableRestore, XableRestore, DisableCas,
       At
  <2> QED BY <1>1, <1>2, <1>4, <1>26, <2>1 DEF EnableTest, AfterReady
<1>27. CASE EnableClear
  <2>1. UNCHANGED <<InFlight, Enqueuing>> /\ Installed \subseteq Installed'
    BY <1>3, <1>27 DEF AltAct, AltStep, EnableClear, EnableRestore, XableRestore,
       DisableCas, At
  <2> QED BY <1>1, <1>2, <1>4, <1>27, <2>1 DEF EnableClear, AfterReady
<1>28. CASE AltWait
  <2>1. UNCHANGED <<InFlight, Enqueuing>> /\ Installed \subseteq Installed'
    BY <1>3, <1>28 DEF AltAct, AltStep, AltWait, EnableRestore, XableRestore, DisableCas, At
  <2> QED BY <1>1, <1>2, <1>4, <1>28, <2>1 DEF AltWait, DisableFrom
<1>29. CASE AltWaitCas
  <2>1. UNCHANGED <<InFlight, Enqueuing>> /\ Installed \subseteq Installed'
    BY <1>3, <1>29 DEF AltAct, AltStep, AltWaitCas, EnableRestore, XableRestore, DisableCas,
       At
  <2>2. slot = st[Reader] => slot.notReady
    BY <1>1, <1>29 DEF FlagsOK, AltWaitCas
  <2>3. slot # st[Reader] => ~slot.notReady
    BY <1>1, <1>29 DEF FlagsOK, AltWaitCas
  <2> QED BY <1>1, <1>2, <1>4, <1>29, <2>1, <2>2, <2>3 DEF AltWaitCas, State
<1>30. CASE AltWaitClear
  <2>1. UNCHANGED <<InFlight, Enqueuing>> /\ Installed \subseteq Installed'
    BY <1>3, <1>30 DEF AltAct, AltStep, AltWaitClear, EnableRestore, XableRestore,
       DisableCas, At
  <2> QED BY <1>1, <1>2, <1>4, <1>30, <2>1 DEF AltWaitClear
<1>31. CASE Disable
  <2>1. UNCHANGED <<InFlight, Enqueuing>> /\ Installed \subseteq Installed'
    BY <1>3, <1>31 DEF AltAct, AltStep, Disable, EnableRestore, XableRestore, DisableCas, At
  <2> QED BY <1>1, <1>2, <1>4, <1>31, <2>1 DEF Disable, NextDisable, LastDisabled,
      SelectGuard
<1>32. CASE DisableCas
  BY <1>2, <1>32 DEF DisableCas, NextDisable, LastDisabled, SelectGuard
<1>33. CASE DisableDec
  <2>1. UNCHANGED <<InFlight, Enqueuing>> /\ Installed \subseteq Installed'
    BY <1>3, <1>33 DEF AltAct, AltStep, DisableDec, EnableRestore, XableRestore, DisableCas,
       At
  <2> QED BY <1>1, <1>2, <1>4, <1>33, <2>1 DEF DisableDec, NextDisable, LastDisabled
<1>34. CASE AltEnd
  <2>1. UNCHANGED <<InFlight, Enqueuing>> /\ Installed \subseteq Installed'
    BY <1>3, <1>34 DEF AltAct, AltStep, AltEnd, EnableRestore, XableRestore, DisableCas, At
  <2> QED BY <1>1, <1>2, <1>4, <1>34, <2>1 DEF AltEnd, Counted, State
<1>35. CASE AltEndDec
  <2>1. UNCHANGED <<InFlight, Enqueuing>> /\ Installed \subseteq Installed'
    BY <1>3, <1>35 DEF AltAct, AltStep, AltEndDec, EnableRestore, XableRestore, DisableCas,
       At
  <2> QED BY <1>1, <1>2, <1>4, <1>35, <2>1 DEF AltEndDec, Counted, State
<1> QED
  BY <1>9, <1>10, <1>11, <1>12, <1>13, <1>14, <1>15, <1>16, <1>17, <1>18, <1>19, <1>20,
     <1>21, <1>22, <1>23, <1>24, <1>25, <1>26, <1>27, <1>28, <1>29, <1>30, <1>31, <1>32,
     <1>33, <1>34, <1>35 DEF Act, InputAct, AltAct, InputStep, AltStep

\* A nonempty set of naturals has a least element.
LEMMA LeastElement ==
  ASSUME NEW S, S \subseteq Nat, S # {}
  PROVE  \E c \in S : \A d \in S : c <= d
<1> DEFINE R == {ss \in Nat \X Nat : ss[1] < ss[2]}
<1>1. IsWellFoundedOn(R, Nat)
  BY NatLessThanWellFounded DEF OpToRel
<1> HIDE DEF R
<1>2. PICK c \in S : \A d \in S : <<d, c>> \notin R
  BY <1>1, WFMin
<1>3. \A d \in S : ~(d < c)
  BY <1>2 DEF R
<1> QED BY <1>3

\* What X_alt notes as the first ready guard.
LEMMA AltFirst ==
  ASSUME CInv, NEW g \in SUBSET Channels, Alt(g)
  PROVE  first' # 0 => first' \in g /\ chan[first'] = "writer"
<1> DEFINE S == {c \in g : chan[c] = "writer"}
<1>1. CASE \E c \in g : chan[c] = "writer"
  <2>0. \A c \in Channels : c \in Nat
    BY ChanAltAssumption DEF Channels
  <2>1. S # {} /\ S \subseteq Nat
    BY <1>1, <2>0
  <2>2. \E c \in S : \A d \in S : c <= d
    BY <2>1, LeastElement
  <2>3. \E c \in g : chan[c] = "writer" /\ \A d \in g : chan[d] = "writer" => c <= d
    BY <2>2
  <2>4. first' = CHOOSE c \in g : chan[c] = "writer" /\
                   \A d \in g : chan[d] = "writer" => c <= d
    BY <1>1 DEF Alt
  <2> QED BY <2>3, <2>4
<1>2. CASE ~ \E c \in g : chan[c] = "writer"
  BY <1>2 DEF Alt
<1> QED BY <1>1, <1>2

\* The ready guard that comes first is kept, and a ready one will be selected.
LEMMA SelectStep ==
  ASSUME CInv, Style = "enbc3", Next PROVE SelectOK'
<1>1. TypeOK /\ FunOK /\ IndexOK /\ FlagsOK /\ ReadyOK /\ SelectOK /\ (\A d \in Channels : WordOK(d))
  BY DEF CInv
<1> PICK c \in Channels, g \in SUBSET Channels : Act(c, g)
  BY StepCases
<1>2. /\ pc \in [Procs -> ReaderPC \cup WriterPC] /\ pc[Reader] \in ReaderPC
      /\ i \in Int /\ N \in Int /\ N >= 1 /\ guards \subseteq Channels /\ g \subseteq Channels
      /\ first \in Int /\ temp \in Int
      /\ \A d \in Channels : d \in Int /\ d >= 1 /\ d <= N
      /\ chan \in [Channels -> {"none", "writer", "reader", "alt"}]
  BY <1>1, ChanAltAssumption DEF TypeOK, FunOK, Channels
<1>3. /\ pc[Reader] \in EnablePC => i \in 1..N+1 /\ (~At("enb") => i \in guards)
      /\ pc[Reader] \in DisablePC => i \in Channels /\ (~At("dis") => i \in guards)
      /\ pc[Reader] \in {"a_cas", "a_clear", "b_altwt"} => i = N
  BY <1>1 DEF IndexOK
<1>4. i \in Channels => WordOK(i)
  BY <1>1
<1>9. CASE WriterAct(c)
  <2>1. CASE pc[Reader] \notin AltPC \cup {"sel"}
    <3>1. c # Reader /\ pc'[Reader] \in {"idle", "xin", pc[Reader]}
      <4>1. c # Reader /\ \A l : Goto(c, l) => pc'[Reader] = pc[Reader]
        BY <1>2 DEF Goto, Reader, Procs
      <4>2. CASE OutCopy(c)
        BY <1>2, <4>1, <4>2, OutCopyFacts DEF Procs
      <4>3. CASE TriggerEnqueue(c)
        BY <1>2, <2>1, <4>1, <4>3, TriggerEnqueueFacts DEF Procs, At, AltPC
      <4> QED BY <1>9, <4>1, <4>2, <4>3 DEF WriterAct, WriterStep, Out, OutSwap, OutTake,
          TriggerRead, TriggerCas
    <3> QED BY <2>1, <3>1 DEF SelectOK, EnablePC, WaitPC, DisablePC, EndPC, AltPC
  <2>2. CASE pc[Reader] \in AltPC \cup {"sel"} /\ TriggerEnqueue(c)
    <3>1. c # Reader /\ c <= N
      BY <1>2 DEF Reader
    <3>2. CASE At("b_altwt")
      <4>1. /\ pc'[Reader] = "dis" /\ c \in guards /\ chan[c] = "writer"
            /\ UNCHANGED <<chan, i, guards, temp, first>>
        BY <1>2, <2>2, <3>1, <3>2, TriggerEnqueueFacts DEF Procs, At
      <4>2. first = 0 /\ i = N
        BY <1>1, <1>3, <3>2 DEF SelectOK, WaitPC, At
      <4> QED BY <3>1, <4>1, <4>2 DEF SelectOK, EnablePC, WaitPC, DisablePC, EndPC, At
    <3>3. CASE At("b_altend")
      <4>1. pc'[Reader] = "sel" /\ UNCHANGED <<chan, i, guards, temp, first>>
        BY <1>2, <2>2, <3>1, <3>3, TriggerEnqueueFacts DEF Procs, At
      <4> QED BY <1>1, <3>3, <4>1 DEF SelectOK, EnablePC, WaitPC, DisablePC, EndPC, At
    <3> QED BY <2>2, <3>2, <3>3, TriggerEnqueueFacts DEF At, AltPC
  <2>3. CASE pc[Reader] \in AltPC \cup {"sel"} /\ ~TriggerEnqueue(c)
    <3>1. /\ \A d \in Channels : chan[d] = "writer" => chan'[d] = "writer"
          /\ pc'[Reader] = pc[Reader] /\ UNCHANGED <<i, guards, temp, first>>
      BY <1>9, <2>3, WriterKeeps
    <3> QED BY <1>1, <1>2, <3>1 DEF SelectOK, At
  <2> QED BY <2>1, <2>2, <2>3
<1> USE DEF SelectOK, Passed, EnablePC, WaitPC, DisablePC, EndPC, ReaderPC, Blocked, Move,
    Goto, At, Set, altVars, Procs
<1>10. CASE In(c)
  BY <1>1, <1>2, <1>3, <1>10 DEF In, InFrom
<1>11. CASE Xable(c)
  BY <1>1, <1>2, <1>3, <1>11 DEF Xable, State
<1>12. CASE InSelected
  BY <1>1, <1>2, <1>3, <1>12 DEF InSelected, InFrom
<1>13. CASE InSwap
  BY <1>1, <1>2, <1>3, <1>13 DEF InSwap
<1>14. CASE InTake
  BY <1>1, <1>2, <1>3, <1>14 DEF InTake
<1>15. CASE InCopy
  BY <1>1, <1>2, <1>3, <1>15 DEF InCopy
<1>16. CASE InEnqueue
  BY <1>2, <1>16, InEnqueueFacts
<1>17. CASE XableSwap
  BY <1>1, <1>2, <1>3, <1>17 DEF XableSwap
<1>18. CASE XableRestore
  BY <1>1, <1>2, <1>3, <1>18 DEF XableRestore
<1>19. CASE Xin
  BY <1>1, <1>2, <1>3, <1>19 DEF Xin
<1>20. CASE Xend
  BY <1>1, <1>2, <1>3, <1>20 DEF Xend
<1>21. CASE Alt(g)
  BY <1>2, <1>21, AltFirst DEF Alt
<1>22. CASE Enable
  BY <1>1, <1>2, <1>3, <1>22, EnableFacts
<1>23. CASE EnableSwap
  BY <1>1, <1>2, <1>3, <1>23, EnableSwapFacts
<1>24. CASE EnableInc
  BY <1>1, <1>2, <1>3, <1>24 DEF EnableInc
<1>25. CASE EnableRestore
  BY <1>1, <1>2, <1>3, <1>25 DEF EnableRestore
<1>26. CASE EnableTest
  BY <1>1, <1>2, <1>3, <1>26 DEF EnableTest, AfterReady
<1>27. CASE EnableClear
  <2>1. i \in guards /\ chan[i] = "writer"
    BY <1>2, <1>3, <1>4, <1>27 DEF EnableClear, WordOK
  <2> QED BY <1>1, <1>2, <1>3, <1>27, <2>1 DEF EnableClear, AfterReady
<1>28. CASE AltWait
  BY <1>1, <1>2, <1>3, <1>28 DEF AltWait, DisableFrom
<1>29. CASE AltWaitCas
  BY <1>1, <1>2, <1>3, <1>29 DEF AltWaitCas, State
<1>30. CASE AltWaitClear
  <2>1. \E d \in guards : chan[d] = "writer"
    BY <1>1, <1>30 DEF AltWaitClear, ReadyOK, FlagsOK
  <2> QED BY <1>1, <1>2, <1>3, <1>30, <2>1 DEF AltWaitClear
<1>31. CASE Disable
  <2>1. PICK d \in guards : /\ chan[d] = "writer" /\ (first # 0 => d <= first)
                            /\ temp = d \/ (d <= i /\ (At("d_dec") => d # i))
    BY <1>1, <1>31 DEF Disable
  <2>2. i \in Channels /\ (first # 0 => i <= first)
    BY <1>1, <1>3, <1>31 DEF Disable
  <2>3. CASE i \in guards /\ chan[i] = "writer"
    BY <1>2, <1>31, <2>2, <2>3 DEF Disable, NextDisable, LastDisabled, SelectGuard
  <2>4. CASE i \in guards /\ chan[i] = "alt"
    BY <1>2, <1>31, <2>1, <2>2, <2>4 DEF Disable
  <2>5. CASE ~(i \in guards /\ chan[i] \in {"alt", "writer"})
    <3>1. d # i
      BY <2>1, <2>5
    <3>2. temp = d \/ d <= i - 1
      BY <1>2, <2>1, <2>2, <3>1
    <3>3. /\ UNCHANGED <<chan, guards, first, temp>>
          /\ \/ i = 1 /\ pc'[Reader] = "end" /\ i' = 0
             \/ i # 1 /\ pc'[Reader] = "dis" /\ i' = i - 1
      BY <1>2, <1>31, <2>5 DEF Disable, NextDisable, LastDisabled
    <3> QED BY <1>2, <2>1, <2>2, <3>2, <3>3
  <2> QED BY <2>3, <2>4, <2>5
<1>32. CASE DisableCas
  <2>1. PICK d \in guards : /\ chan[d] = "writer" /\ (first # 0 => d <= first)
                            /\ temp = d \/ (d <= i /\ (At("d_dec") => d # i))
    BY <1>1, <1>32 DEF DisableCas
  <2>2. i \in Channels /\ (first # 0 => i <= first)
    BY <1>1, <1>3, <1>32 DEF DisableCas
  <2>3. CASE chan[i] = "writer"
    <3>1. i \in guards
      BY <1>3, <1>32 DEF DisableCas
    <3> QED BY <1>2, <1>32, <2>2, <2>3, <3>1 DEF DisableCas, NextDisable, LastDisabled,
        SelectGuard
  <2>4. CASE chan[i] = "alt"
    BY <1>2, <1>32, <2>1, <2>2, <2>4 DEF DisableCas
  <2> QED BY <1>4, <1>32, <2>2, <2>3, <2>4 DEF WordOK, DisableCas
<1>33. CASE DisableDec
  <2>1. PICK d \in guards : /\ chan[d] = "writer" /\ (first # 0 => d <= first)
                            /\ temp = d \/ (d <= i /\ (At("d_dec") => d # i))
    BY <1>1, <1>33 DEF DisableDec
  <2>2. i \in Channels /\ (first # 0 => i <= first)
    BY <1>1, <1>3, <1>33 DEF DisableDec
  <2>3. temp = d \/ d <= i - 1
    BY <1>2, <1>33, <2>1, <2>2 DEF DisableDec
  <2>4. /\ UNCHANGED <<chan, guards, first, temp>>
        /\ \/ i = 1 /\ pc'[Reader] = "end" /\ i' = 0
           \/ i # 1 /\ pc'[Reader] = "dis" /\ i' = i - 1
    BY <1>2, <1>33 DEF DisableDec, NextDisable, LastDisabled
  <2> QED BY <1>2, <2>1, <2>2, <2>3, <2>4
<1>34. CASE AltEnd
  BY <1>1, <1>2, <1>3, <1>34 DEF AltEnd, Counted, State
<1>35. CASE AltEndDec
  BY <1>1, <1>2, <1>3, <1>35 DEF AltEndDec, Counted, State
<1> QED
  BY <1>9, <1>10, <1>11, <1>12, <1>13, <1>14, <1>15, <1>16, <1>17, <1>18, <1>19, <1>20,
     <1>21, <1>22, <1>23, <1>24, <1>25, <1>26, <1>27, <1>28, <1>29, <1>30, <1>31, <1>32,
     <1>33, <1>34, <1>35 DEF Act, InputAct, AltAct, InputStep, AltStep

\* A guard that is being counted was not counted before: the count has room for it.
LEMMA CountBound ==
  ASSUME CInv, At("e_inc") PROVE slot.n <= N
<1>1. slot.n = Cardinality(Installed) + Cardinality(InFlight)
  <2>1. slot.n + 1 = 1 + Cardinality(Installed) + Cardinality(InFlight) + 0
    BY DEF CInv, CountOK, AltPC, One, At
  <2> QED BY <2>1, CountFacts, ChanAltAssumption DEF CInv, TypeOK
<1>2. Installed \cap InFlight = {}
  BY DEF CInv, WordOK, Installed, InFlight
<1>3. /\ IsFiniteSet(Installed \cup InFlight)
      /\ Cardinality(Installed \cup InFlight) = Cardinality(Installed) + Cardinality(InFlight)
                                                - Cardinality(Installed \cap InFlight)
  BY CountFacts, FS_Union
<1>4. IsFiniteSet(Channels) /\ Cardinality(Channels) = N
  <2>1. IsFiniteSet(1..N) /\ Cardinality(1..N) = IF 1 > N THEN 0 ELSE N - 1 + 1
    BY FS_Interval, ChanAltAssumption
  <2> QED BY <2>1, ChanAltAssumption DEF Channels
<1>5. Cardinality(Installed \cup InFlight) <= N
  <2>1. Installed \cup InFlight \subseteq Channels
    BY DEF Installed, InFlight
  <2> QED BY <1>4, <2>1, FS_Subset
<1>6. Cardinality(Installed \cap InFlight) = 0
  BY <1>2, FS_EmptySet
<1> QED BY <1>1, <1>3, <1>5, <1>6, CountFacts

\* The count in State stays between 0 and N + 1.
LEMMA SlotStep ==
  ASSUME CInv, Style = "enbc3", Next PROVE slot' \in Slots
<1>1. slot \in Slots /\ slot.n \in 0..N+1 /\ N \in Nat /\ 0 \in 0..N+1 /\ 1 \in 0..N+1
  BY ChanAltAssumption DEF CInv, TypeOK, Slots
<1>2. \A k \in 0..N+1 : [slot EXCEPT !.n = k] \in Slots
  BY <1>1 DEF Slots
<1>3. \A k \in 0..N+1, e, w, r \in BOOLEAN : State(k, e, w, r) \in Slots
  BY DEF State, Slots
<1>4. Pointer \in Slots
  BY <1>1 DEF Pointer, Slots
<1> PICK c \in Channels, g \in SUBSET Channels : Act(c, g)
  BY StepCases
<1>5. CASE TriggerCas(c)
  <2>1. c \in InFlight
    BY <1>5 DEF TriggerCas, InFlight
  <2>2. slot.n - 1 \in 0..N+1
    BY <1>1, <2>1, InFlightFacts
  <2>3. [slot EXCEPT !.n = slot.n - 1, !.waiting = FALSE, !.notReady = FALSE] \in Slots
    BY <1>1, <2>2 DEF Slots
  <2> QED BY <1>1, <1>5, <2>3, TriggerCasFacts
<1>6. CASE EnableInc
  <2>1. slot.n + 1 \in 0..N+1
    BY <1>1, <1>6, CountBound DEF EnableInc
  <2> QED BY <1>2, <1>6, <2>1 DEF EnableInc
<1>7. CASE DisableDec
  <2>1. slot.n = 2 + Cardinality(Installed) + Cardinality(InFlight)
    <3>1. slot.n + 0 = 1 + Cardinality(Installed) + Cardinality(InFlight) + 1
      BY <1>7 DEF DisableDec, CInv, CountOK, AltPC, One, At
    <3> QED BY <1>1, <3>1, CountFacts
  <2>2. slot.n - 1 \in 0..N+1
    BY <1>1, <2>1, CountFacts
  <2> QED BY <1>2, <1>7, <2>2 DEF DisableDec
<1>8. CASE AltEndDec
  <2>1. slot.n = 1 + Cardinality(Installed) + Cardinality(InFlight)
    <3>1. slot.n + 0 = 1 + Cardinality(Installed) + Cardinality(InFlight) + 0
      BY <1>8 DEF AltEndDec, CInv, CountOK, AltPC, One, At
    <3> QED BY <1>1, <3>1, CountFacts
  <2>2. slot.n - 1 \in 0..N+1
    BY <1>1, <2>1, CountFacts
  <2> QED BY <1>2, <1>8, <2>2 DEF AltEndDec
<1>9. CASE In(c) \/ InSelected \/ Xable(c) \/ Alt(g) \/ AltWaitCas
  BY <1>1, <1>3, <1>4, <1>9 DEF In, InSelected, InFrom, Xable, Alt, AltWaitCas
<1>10. CASE EnableClear \/ AltWaitClear
  BY <1>1, <1>10 DEF EnableClear, AltWaitClear, Slots
<1>11. CASE WriterAct(c) /\ ~TriggerCas(c)
  BY <1>1, <1>11 DEF WriterAct, WriterStep, Out, OutSwap, OutTake, OutCopy, TriggerRead,
       TriggerEnqueue
<1>12. CASE InSwap \/ InTake \/ InCopy \/ InEnqueue \/ XableSwap \/ XableRestore \/ Xin \/ Xend
  BY <1>1, <1>12 DEF InSwap, InTake, InCopy, InEnqueue, XableSwap, XableRestore, Xin, Xend
<1>13. CASE \/ Enable \/ EnableSwap \/ EnableRestore \/ EnableTest \/ AltWait \/ Disable
            \/ DisableCas \/ AltEnd
  BY <1>1, <1>13 DEF Enable, EnableSwap, EnableRestore, EnableTest, AltWait, Disable,
       DisableCas, AltEnd
<1> QED
  BY <1>5, <1>6, <1>7, <1>8, <1>9, <1>10, <1>11, <1>12, <1>13
     DEF Act, InputAct, AltAct, InputStep, AltStep

\* Every step keeps the types.
LEMMA TypeStep ==
  ASSUME CInv, Style = "enbc3", Next PROVE TypeOK'
<1>1. TypeOK /\ FunOK /\ IndexOK
  BY DEF CInv
<1> PICK c \in Channels, g \in SUBSET Channels : Act(c, g)
  BY StepCases
<1>2. /\ pc \in [Procs -> ReaderPC \cup WriterPC] /\ pc[Reader] \in ReaderPC
      /\ (\A d \in Channels : pc[d] \in WriterPC)
      /\ i \in 0..N+1 /\ N \in Nat \ {0} /\ guards \subseteq Channels /\ g \subseteq Channels
      /\ temp \in 0..N /\ fired \in 0..N /\ first \in 0..N
      /\ val \in [Channels -> 0..1] /\ buf \in [Channels -> 0..1]
      /\ chan \in [Channels -> {"none", "writer", "reader", "alt"}]
      /\ Reader \notin Channels
  BY <1>1, ChanAltAssumption DEF TypeOK, FunOK, Channels, Reader
<1>3. /\ pc[Reader] \in EnablePC => i \in 1..N+1 /\ (~At("enb") => i \in guards)
      /\ pc[Reader] \in DisablePC => i \in Channels /\ (~At("dis") => i \in guards)
      /\ pc[Reader] \in {"a_cas", "a_clear", "b_altwt"} => i = N
      /\ pc[Reader] \in OnChannelPC => i \in Channels
  BY <1>1 DEF IndexOK
<1>4. slot' \in [alt : BOOLEAN, n : 0..N+1, enabling : BOOLEAN,
                 waiting : BOOLEAN, notReady : BOOLEAN]
  BY SlotStep DEF Slots
<1>5. \A d \in Channels : d \in 1..N /\ d \in 0..N /\ d \in 0..N+1 /\ d + 1 \in 0..N+1 /\ d - 1 \in 0..N+1
  BY ChanAltAssumption DEF Channels
<1>6. /\ 0 \in 0..N /\ 0 \in 0..N+1 /\ 1 \in 0..N+1 /\ N \in 0..N+1
      /\ \A b \in 0..1 : 1 - b \in 0..1
  BY ChanAltAssumption
<1>9. CASE WriterAct(c)
  <2> USE DEF TypeOK, WriterPC, ReaderPC, Blocked, Goto, Set, altVars, Procs, At
  <2>1. CASE Out(c)
    BY <1>2, <1>4, <1>6, <2>1 DEF Out
  <2>2. CASE OutSwap(c)
    BY <1>2, <1>4, <1>6, <2>2, OutSwapFacts
  <2>3. CASE OutTake(c)
    BY <1>2, <1>4, <1>6, <2>3 DEF OutTake
  <2>4. CASE OutCopy(c)
    BY <1>2, <1>4, <1>6, <2>4, OutCopyFacts
  <2>5. CASE TriggerRead(c)
    BY <1>2, <1>4, <1>6, <2>5 DEF TriggerRead
  <2>6. CASE TriggerCas(c)
    BY <1>2, <1>4, <1>6, <2>6, TriggerCasFacts
  <2>7. CASE TriggerEnqueue(c)
    BY <1>2, <1>4, <1>6, <2>7, TriggerEnqueueFacts
  <2> QED BY <1>9, <2>1, <2>2, <2>3, <2>4, <2>5, <2>6, <2>7 DEF WriterAct, WriterStep
<1> USE DEF TypeOK, EnablePC, DisablePC, OnChannelPC, ReaderPC, WriterPC, Blocked, Move,
    Goto, At, Set, altVars, Procs
<1>10. CASE In(c)
  BY <1>2, <1>3, <1>4, <1>5, <1>6, <1>10 DEF In, InFrom
<1>11. CASE Xable(c)
  BY <1>2, <1>3, <1>4, <1>5, <1>6, <1>11 DEF Xable, State
<1>12. CASE InSelected
  BY <1>2, <1>3, <1>4, <1>5, <1>6, <1>12 DEF InSelected, InFrom
<1>13. CASE InSwap
  BY <1>2, <1>3, <1>4, <1>5, <1>6, <1>13 DEF InSwap
<1>14. CASE InTake
  BY <1>2, <1>3, <1>4, <1>5, <1>6, <1>14 DEF InTake
<1>15. CASE InCopy
  BY <1>2, <1>3, <1>4, <1>5, <1>6, <1>15 DEF InCopy
<1>16. CASE InEnqueue
  BY <1>2, <1>3, <1>4, <1>5, <1>6, <1>16, InEnqueueFacts
<1>17. CASE XableSwap
  BY <1>2, <1>3, <1>4, <1>5, <1>6, <1>17 DEF XableSwap
<1>18. CASE XableRestore
  BY <1>2, <1>3, <1>4, <1>5, <1>6, <1>18 DEF XableRestore
<1>19. CASE Xin
  BY <1>2, <1>3, <1>4, <1>5, <1>6, <1>19 DEF Xin
<1>20. CASE Xend
  BY <1>2, <1>3, <1>4, <1>5, <1>6, <1>20 DEF Xend
<1>21. CASE Alt(g)
  <2>1. first' \in 0..N
    BY <1>2, <1>5, <1>6, <1>21, AltFirst
  <2> QED BY <1>2, <1>4, <1>6, <1>21, <2>1 DEF Alt
<1>22. CASE Enable
  BY <1>2, <1>3, <1>4, <1>5, <1>6, <1>22, EnableFacts
<1>23. CASE EnableSwap
  BY <1>2, <1>3, <1>4, <1>5, <1>6, <1>23, EnableSwapFacts
<1>24. CASE EnableInc
  BY <1>2, <1>3, <1>4, <1>5, <1>6, <1>24 DEF EnableInc
<1>25. CASE EnableRestore
  BY <1>2, <1>3, <1>4, <1>5, <1>6, <1>25 DEF EnableRestore
<1>26. CASE EnableTest
  BY <1>2, <1>3, <1>4, <1>5, <1>6, <1>26 DEF EnableTest, AfterReady
<1>27. CASE EnableClear
  BY <1>2, <1>3, <1>4, <1>5, <1>6, <1>27 DEF EnableClear, AfterReady
<1>28. CASE AltWait
  BY <1>2, <1>3, <1>4, <1>5, <1>6, <1>28 DEF AltWait, DisableFrom
<1>29. CASE AltWaitCas
  BY <1>2, <1>3, <1>4, <1>5, <1>6, <1>29 DEF AltWaitCas, State
<1>30. CASE AltWaitClear
  BY <1>2, <1>3, <1>4, <1>5, <1>6, <1>30 DEF AltWaitClear
<1>31. CASE Disable
  BY <1>2, <1>3, <1>4, <1>5, <1>6, <1>31 DEF Disable, NextDisable, LastDisabled, SelectGuard
<1>32. CASE DisableCas
  BY <1>2, <1>3, <1>4, <1>5, <1>6, <1>32 DEF DisableCas, NextDisable, LastDisabled,
     SelectGuard
<1>33. CASE DisableDec
  BY <1>2, <1>3, <1>4, <1>5, <1>6, <1>33 DEF DisableDec, NextDisable, LastDisabled
<1>34. CASE AltEnd
  BY <1>2, <1>3, <1>4, <1>5, <1>6, <1>34 DEF AltEnd, Counted, State
<1>35. CASE AltEndDec
  BY <1>2, <1>3, <1>4, <1>5, <1>6, <1>35 DEF AltEndDec, Counted, State
<1> QED
  BY <1>9, <1>10, <1>11, <1>12, <1>13, <1>14, <1>15, <1>16, <1>17, <1>18, <1>19, <1>20,
     <1>21, <1>22, <1>23, <1>24, <1>25, <1>26, <1>27, <1>28, <1>29, <1>30, <1>31, <1>32,
     <1>33, <1>34, <1>35 DEF Act, InputAct, AltAct, InputStep, AltStep

-----------------------------------------------------------------------------
(* The invariant, and what follows from it.                                *)

\* The invariant holds at the start: everybody idle, every channel empty.
LEMMA InitCInv == Init => CInv
<1> SUFFICES ASSUME Init PROVE CInv
  OBVIOUS
<1> USE DEF Init
<1>1. /\ pc[Reader] = "idle" /\ Reader \in Procs
      /\ \A c \in Channels : pc[c] = "idle" /\ chan[c] = "none" /\ buf[c] = val[c]
  BY DEF Procs
<1>2. 0 \in 0..N /\ 0 \in 0..N+1
  BY ChanAltAssumption
<1>3. Pointer \in Slots
  BY <1>2 DEF Pointer, Slots
<1>4. TypeOK
  BY <1>1, <1>2, <1>3 DEF TypeOK, Slots, ReaderPC, WriterPC
<1>5. FunOK
  BY <1>3 DEF FunOK, WriterPC
<1>6. IndexOK /\ CountOK /\ ReadyOK /\ SelectOK
  BY <1>1 DEF IndexOK, CountOK, ReadyOK, SelectOK, At, EnablePC, WaitPC, DisablePC, EndPC,
       OnChannelPC, AltPC, XablePC
<1>7. FlagsOK
  BY <1>1 DEF FlagsOK, At, EnablePC, DisablePC, EndPC, XablePC, Enqueuing
<1>8. ASSUME NEW c \in Channels PROVE WordOK(c)
  BY <1>1 DEF WordOK, At
<1>9. ValueOK
  BY <1>1 DEF ValueOK
<1> QED BY <1>4, <1>5, <1>6, <1>7, <1>8, <1>9 DEF CInv

\* Every step, and stuttering, keeps the invariant.
LEMMA CInvStep ==
  ASSUME CInv, Style = "enbc3", [Next]_vars PROVE CInv'
<1>1. CASE Next
  BY <1>1, TypeStep, FunStep, IndexStep, WordStep, CountStep, FlagsStep, ReadyStep,
     SelectStep, ValueStep DEF CInv
<1>2. CASE UNCHANGED vars
  <2>1. /\ UNCHANGED <<chan, slot, pc, st, i, val, buf, temp, guards, fired, first>>
        /\ UNCHANGED <<Installed, InFlight, Enqueuing>>
    BY <1>2 DEF vars, altVars, Installed, InFlight, Enqueuing
  <2>2. \A l : At(l)' <=> At(l)
    BY <2>1 DEF At
  <2>3. \A c : Passed(c)' <=> Passed(c)
    BY <2>1, <2>2 DEF Passed
  <2>4. TypeOK' /\ FunOK' /\ IndexOK' /\ ValueOK'
    BY <2>1, <2>2 DEF CInv, TypeOK, FunOK, IndexOK, ValueOK
  <2>5. ASSUME NEW c \in Channels PROVE WordOK(c)'
    <3>1. WordOK(c)
      BY DEF CInv
    <3> QED BY <2>1, <2>2, <2>3, <3>1 DEF WordOK
  <2>6. CountOK' /\ FlagsOK'
    BY <2>1, <2>2 DEF CInv, CountOK, FlagsOK
  <2>7. ReadyOK' /\ SelectOK'
    BY <2>1, <2>2, <2>3 DEF CInv, ReadyOK, SelectOK
  <2> QED BY <2>4, <2>5, <2>6, <2>7 DEF CInv
<1> QED BY <1>1, <1>2

\* The invariant holds throughout, for any number of channels, with the ALTs
\* that occ21 generates (Y_enbc3, X_ndisc).
THEOREM ChanAltInvariant ==
  ASSUME Style = "enbc3" PROVE Spec => []CInv
<1>1. Init => CInv
  BY InitCInv
<1>2. CInv /\ [Next]_vars => CInv'
  BY CInvStep
<1> QED BY <1>1, <1>2, PTL DEF Spec

\* The channel words, the count in State and the histories keep their types:
\* in particular the count never exceeds the guards plus one nor drops below 0.
THEOREM ChanAltTypes ==
  ASSUME Style = "enbc3" PROVE Spec => []TypeOK
<1>1. CInv => TypeOK
  BY DEF CInv
<1> QED BY <1>1, ChanAltInvariant, PTL

\* enqueue_process is called on a process only while it is blocked, and by one
\* thread: a trigger on Y_altwt's, Y_altend's or Y_xable's process, and an input
\* or an output on its partner, never put a process on two run queues.
THEOREM ChanAltEnqueues ==
  ASSUME Style = "enbc3" PROVE Spec => []EnqueueBlocked
<1>1. ASSUME CInv PROVE EnqueueBlocked
  <2>1. (\A c \in Channels : WordOK(c)) /\ (\A c, d \in Enqueuing : c = d) /\ IndexOK
    BY <1>1 DEF CInv, FlagsOK
  <2>2. Enqueuing # {} => pc[Reader] \in {"b_altwt", "b_altend", "b_xable"}
    BY <2>1 DEF Enqueuing, WordOK
  <2>3. Cardinality(Enqueuing) <= 1
    <3>1. CASE Enqueuing = {}
      BY <3>1, FS_EmptySet
    <3>2. CASE Enqueuing # {}
      <4>1. PICK c : Enqueuing = {c}
        BY <2>1, <3>2
      <4> QED BY <4>1, FS_Singleton
    <3> QED BY <3>1, <3>2
  <2>4. \A c \in Channels : pc[c] = "w_copy" => At("b_in") /\ i = c /\ Enqueuing = {}
    BY <2>1, <2>2 DEF WordOK, At
  <2>5. pc[Reader] \in {"r_enq", "x_enq"} => pc[i] = "b_out"
    BY <2>1 DEF IndexOK, OnChannelPC, WordOK
  <2> QED BY <2>2, <2>3, <2>4, <2>5 DEF EnqueueBlocked
<1> QED BY <1>1, ChanAltInvariant, PTL

\* The count in State is exact, whatever enables, triggers and disables are
\* under way, so kernel_altend waits for every trigger before the word becomes
\* Pointer; and a process blocked in an ALT or a Y_xable has a trigger to come.
THEOREM ChanAltState ==
  ASSUME Style = "enbc3" PROVE Spec => []StateSound
<1>1. ASSUME CInv PROVE StateSound
  <2>1. /\ CountOK /\ FlagsOK /\ ReadyOK /\ IndexOK /\ slot \in Slots
        /\ \A c \in Channels : WordOK(c)
    BY <1>1 DEF CInv, TypeOK, Slots
  <2>2. AltCount
    <3>1. pc[Reader] \notin AltPC \cup XablePC => InFlight = {} /\ Installed = {}
      BY <2>1 DEF WordOK, InFlight, Installed, At, XablePC
    <3> QED BY <2>1, <3>1 DEF AltCount, CountOK
  <2>3. ASSUME At("b_altwt"), Enqueuing = {}
        PROVE  slot.waiting /\ ~slot.enabling /\ Installed \cup InFlight # {}
    BY <2>1, <2>3 DEF FlagsOK, ReadyOK, IndexOK, AltPC, At
  <2>4. ASSUME At("b_xable"), Enqueuing = {}
        PROVE  slot.waiting /\ ~slot.enabling /\ Installed \cup InFlight # {}
    <3>1. i \in Channels /\ WordOK(i)
      BY <2>1, <2>4 DEF IndexOK, OnChannelPC, At
    <3>2. i \in Installed \cup InFlight
      BY <2>4, <3>1 DEF WordOK, At, Installed, InFlight, Enqueuing
    <3> QED BY <2>1, <2>4, <3>2 DEF FlagsOK, XablePC, At
  <2>5. ASSUME At("b_altend"), Enqueuing = {}
        PROVE  slot = Counted(Cardinality(InFlight)) /\ InFlight # {}
    <3>1. Installed = {}
      BY <2>1, <2>5 DEF WordOK, Installed, EndPC, At
    <3>2. slot.alt /\ slot.n + 0 = 0 + Cardinality(Installed) + Cardinality(InFlight) + 0
      BY <2>1, <2>5 DEF CountOK, AltPC, One, At
    <3>3. slot.n = Cardinality(InFlight)
      BY <2>1, <3>1, <3>2, CountFacts, ChanAltAssumption DEF Slots
    <3>4. InFlight # {} /\ ~slot.enabling /\ ~slot.waiting /\ ~slot.notReady
      BY <2>1, <2>5 DEF FlagsOK, EndPC, At
    <3>5. slot = [alt |-> TRUE, n |-> slot.n, enabling |-> FALSE, waiting |-> FALSE,
                  notReady |-> FALSE]
      BY <2>1, <3>2, <3>4 DEF Slots
    <3> QED BY <3>3, <3>4, <3>5 DEF Counted, State
  <2>6. AltResumable
    BY <2>3, <2>4, <2>5 DEF AltResumable, At
  <2> QED BY <2>2, <2>6 DEF StateSound
<1> QED BY <1>1, ChanAltInvariant, PTL

\* kernel_chan_io, Y_xin and X_xend copy each output exactly once before its
\* process goes on, whichever side came first and through an ALT or not.
THEOREM ChanAltDelivers ==
  ASSUME Style = "enbc3" PROVE Spec => []DeliveredOnce
<1>1. ASSUME CInv PROVE DeliveredOnce
  <2>1. ASSUME NEW c \in Channels
        PROVE  /\ pc[c] = "idle" => buf[c] = val[c]
               /\ pc[c] = "w_copy" => buf[c] # val[c]
               /\ pc[Reader] \in {"r_copy", "xin"} /\ i = c => buf[c] # val[c]
               /\ pc[c] \in {"w_swap", "w_trig", "w_cas", "w_enq"} => buf[c] # val[c]
    <3>1. /\ WordOK(c)
          /\ buf[c] # val[c] <=>
               pc[c] # "idle" /\ ~(c = i /\ pc[Reader] \in {"r_enq", "xend", "x_enq"})
      BY <1>1 DEF CInv, ValueOK
    <3> QED BY <3>1 DEF WordOK, At
  <2> QED BY <2>1 DEF DeliveredOnce
<1> QED BY <1>1, ChanAltInvariant, PTL

\* The guard that X_ndisc leaves in Temp is true and ready, so the branch's input
\* does not block, and a guard ready when the ALT began is passed over for none
\* of lower priority; an extended input finds its writer.
THEOREM ChanAltSelects ==
  ASSUME Style = "enbc3" PROVE Spec => []SelectionSound
<1>1. ASSUME CInv PROVE SelectionSound
  <2>1. SelectOK /\ IndexOK /\ \A c \in Channels : WordOK(c)
    BY <1>1 DEF CInv
  <2>2. At("sel") => temp \in guards /\ chan[temp] = "writer" /\ (first # 0 => temp <= first)
    BY <2>1 DEF SelectOK, At, DisablePC
  <2>3. At("xin") => chan[i] = "writer"
    BY <2>1 DEF IndexOK, OnChannelPC, WordOK, At
  <2> QED BY <2>2, <2>3 DEF SelectionSound, InputFindsWriter, PriorityKept
<1> QED BY <1>1, ChanAltInvariant, PTL
=============================================================================
