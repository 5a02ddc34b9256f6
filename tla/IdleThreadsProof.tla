---------------------------- MODULE IdleThreadsProof ----------------------------
(***************************************************************************)
(* Proofs about IdleThreads: the types, that a program which has shut down *)
(* and stopped does not stall, for any threads, processes, affinities and  *)
(* threads of the pool; and that a program is ended only when it has       *)
(* stopped, for one scheduler, and without system calls for two schedulers *)
(* or for any number if no process is bound to one.  It may be ended too   *)
(* early with two schedulers and a system call, and with three and bound   *)
(* processes (findings 8 and 5 of the README).                             *)
(*                                                                         *)
(* The shared words are inexact: a thread that runs may be marked as       *)
(* sleeping and one that sleeps may not be.  The invariant says how far    *)
(* they can be trusted:                                                    *)
(*   IdleOK    a thread's bit in idle_threads is set exactly while it      *)
(*             decides or waits;                                           *)
(*   PlaceOK   a thread is in a kernel call of one process, or has none,   *)
(*             and a thread with a queue of processes does not sleep;      *)
(*   CountOK   the count of calls is that of the processes in calls and of *)
(*             the threads of the pool that have still to uncount one;     *)
(*   AwakeOK   a thread on its way to read() that is not marked has a bit  *)
(*             in sync, or will have one, and one in read() has a byte in  *)
(*             its pipe, or will have one;                                 *)
(*   WatchOK   when all threads are idle and marked and the program is to  *)
(*             end, some thread still looks at the masks, or will;         *)
(*   MailOK    mail is signalled: by the sync bit, and to a sleeper by its *)
(*             mark having been taken away, or being about to;             *)
(*   SeenOK    a thread that has seen all threads idle finds them marked   *)
(*             only if the program has stopped.                            *)
(* SeenOK is for the theorem without system calls; ZeroOK and SureOK take  *)
(* its place for one scheduler.                                            *)
(***************************************************************************)
EXTENDS IdleThreads, FiniteSetTheorems, WellFoundedInduction, TLAPS

\* On the way to read(), with the bit in idle_threads, and in a process.
SleepPC == {"check", "idle", "pend", "look", "decide", "pause", "read"}
IdlePC  == {"pend", "look", "decide", "pause", "read", "unidle"}
RunPC   == Wakes \cup {"run"}

\* Some actor at one of the labels S is going to wake t.
Roused(t, S) == \E a \in Actors : pc[a] \in S /\ tgt[a] = t

ThreadPC == Wakes \cup {"top", "pick", "run", "check", "idle", "pend", "look", "decide",
                        "pause", "read", "unidle"}
PoolPC   == Wakes \cup {"none", "dec", "mitigate"}

\* The types, without the bound of the count of calls.
FunOK ==
  /\ ps \in [Procs -> {"on", "queued", "mail", "call", "blocked", "done"}]
  /\ th \in [Procs -> Threads] /\ aff \in [Procs -> SUBSET Threads]
  /\ DOMAIN pc = Actors
  /\ (\A t \in Threads : pc[t] \in ThreadPC) /\ (\A w \in Workers : pc[w] \in PoolPC)
  /\ sync \in [Threads -> SUBSET {"mail", "work"}] /\ pipe \in [Threads -> 0..PipeCap]
  /\ sleeping \subseteq Threads /\ idle \subseteq Threads
  /\ seen \in [Threads -> SUBSET Threads] /\ pending \in Nat
  /\ tgt \in [Actors -> Threads] /\ bit \in [Actors -> {"mail", "work"}]
  /\ shutdown \in BOOLEAN /\ exit \in {"no", "exit", "dead"}

IdleOK == \A t \in Threads : t \in idle <=> pc[t] \in IdlePC

PlaceOK ==
  /\ \A p, q \in Procs : ps[p] = "on" /\ ps[q] = "on" /\ th[p] = th[q] => p = q
  /\ \A t \in Threads : pc[t] \in RunPC <=> \E p \in Procs : ps[p] = "on" /\ th[p] = t
  /\ \A p \in Procs : ps[p] = "queued" => pc[th[p]] \notin SleepPC \cup {"unidle"}

InCall    == {p \in Procs : ps[p] = "call"}
Uncounted == {w \in Workers : pc[w] = "dec" \/ (pc[w] \in Wakes /\ bit[w] = "mail")}
CountOK   == pending = Cardinality(InCall) + Cardinality(Uncounted)

AwakeOK ==
  \A t \in Threads : t \notin sleeping =>
    /\ pc[t] \in SleepPC => sync[t] # {} \/ Roused(t, {"k_sync"})
    /\ pc[t] = "read" => pipe[t] > 0 \/ Roused(t, {"k_sync", "k_pipe"})

Watched == \/ \E t \in Threads : \/ pc[t] \in {"pend", "look"}
                                 \/ pc[t] = "decide" /\ seen[t] = Threads
           \/ \E w \in Workers : pc[w] \in {"mitigate", "k_clear"}
WatchOK == shutdown /\ exit = "no" /\ idle = Threads /\ sleeping = Threads =>
             pending > 0 \/ Watched

MailSent(p) ==
  ps[p] = "mail" =>
    /\ "mail" \in sync[th[p]] \/ Roused(th[p], {"m_sync"})
    /\ pc[th[p]] \in IdlePC \cup {"idle"} =>
         th[p] \notin sleeping \/ Roused(th[p], {"m_sync", "m_test", "k_clear"})
MailOK == \A p \in Procs : MailSent(p)

\* The inductive invariant, for all constants.
IInv == FunOK /\ IdleOK /\ PlaceOK /\ CountOK /\ AwakeOK /\ WatchOK /\ MailOK

\* For the theorem on the end of the program: no calls, and either at most two
\* schedulers or no process bound to one.
MailFor(t) == \E p \in Procs : ps[p] = "mail" /\ th[p] = t
Unmarked(t) == t \notin sleeping /\ (MailFor(t) => pc[t] \in IdlePC \cup {"top"})
Decides(t)  == pc[t] = "decide" /\ seen[t] = Threads
SeenOK ==
  \A t \in Threads : Decides(t) /\ ~Stopped =>
    NThreads <= 2 /\ (t \notin sleeping \/ \E u \in Threads \ {t} : Unmarked(u))
Unbound == Affinities = {{}} => \A p \in Procs : aff[p] = {} /\ ps[p] # "mail"
NoCalls == \A p \in Procs : ps[p] # "call"
EInv == IInv /\ SeenOK /\ Unbound /\ EndSound /\ NoCalls

\* For the same with one scheduler: the count of calls that it reads is still
\* zero when it decides, and mail it would not see comes from a call not yet
\* uncounted.
BitOK  == \A a \in Actors : pc[a] \in {"m_sync", "m_test"} => bit[a] = "mail"
ZeroOK == pc[0] \in {"look", "decide"} => pending = 0
SureOK == MailFor(0) /\ 0 \in sleeping /\ pc[0] \in IdlePC \cup {"idle"} =>
            \E w \in Workers : pc[w] \in {"m_sync", "m_test", "k_clear"} /\ bit[w] = "mail"
OInv == IInv /\ BitOK /\ ZeroOK /\ SureOK /\ EndSound

-----------------------------------------------------------------------------
(* Constants                                                               *)

\* Threads are numbers from 0, and not threads of the pool.
LEMMA ConstFacts ==
  /\ Threads \subseteq Nat /\ 0 \in Threads /\ Threads \cap Workers = {}
  /\ Threads \subseteq Actors /\ Workers \subseteq Actors /\ Actors = Threads \cup Workers
  /\ Affinities \subseteq SUBSET Threads /\ IsFiniteSet(Procs) /\ IsFiniteSet(Workers)
  BY IdleAssumption DEF Threads, Actors

\* A nonempty set of threads has a first one (bsf).
LEMMA MinIn == ASSUME NEW S, S \subseteq Threads, S # {} PROVE Min(S) \in S
<1> DEFINE R == {ss \in Nat \X Nat : ss[1] < ss[2]}
<1>1. IsWellFoundedOn(R, Nat)
  BY NatLessThanWellFounded DEF OpToRel
<1>2. S \subseteq Nat
  BY ConstFacts
<1> HIDE DEF R
<1>3. PICK x \in S : \A y \in S : <<y, x>> \notin R
  BY <1>1, <1>2, WFMin
<1>4. \A y \in S : ~(y < x)
  BY <1>2, <1>3 DEF R
<1>5. \A y \in S : x <= y
  BY <1>2, <1>3, <1>4
<1> QED BY <1>3, <1>5 DEF Min

\* Where an actor goes on after waking a thread.
LEMMA AfterIn ==
  /\ \A t \in Threads : After(t) = "run"
  /\ \A w \in Workers : After(w) = IF bit[w] = "mail" THEN "dec" ELSE "none"
  BY ConstFacts DEF After

-----------------------------------------------------------------------------
(* The parts of the invariant                                              *)

\* A step keeps the types.
LEMMA FunStep ==
  ASSUME IInv, [Next]_vars PROVE FunOK'
<1>1. FunOK
  BY DEF IInv
<1>2. /\ Threads \subseteq Nat /\ 0 \in Threads /\ Threads \cap Workers = {}
      /\ Actors = Threads \cup Workers
  BY ConstFacts
<1>100. ASSUME NEW a \in Actors, MailSync(a) PROVE FunOK'
  BY <1>100, <1>1, <1>2 DEF MailSync, At, Goto, prog, wake, rest, FunOK, ThreadPC, PoolPC,
     Wakes
<1>101. ASSUME NEW a \in Actors, MailTest(a) PROVE FunOK'
  <2>1. /\ DOMAIN pc' = Actors
        /\ \A x \in Threads : pc'[x] \in ThreadPC
        /\ \A x \in Workers : pc'[x] \in PoolPC
    BY <1>101, <1>1, <1>2, AfterIn DEF MailTest, At, Goto, FunOK, ThreadPC, PoolPC, Wakes
  <2>2. tgt' \in [Actors -> Threads] /\ bit' \in [Actors -> {"mail", "work"}]
    <3>1. \/ tgt' = tgt /\ bit' = bit
          \/ tgt' = [tgt EXCEPT ![a] = 0] /\ bit' = [bit EXCEPT ![a] = "work"]
      BY <1>101 DEF MailTest, Aim, NoAim, wake
    <3>2. CASE tgt' = tgt /\ bit' = bit
      BY <1>1, <3>2 DEF FunOK
    <3>3. CASE tgt' = [tgt EXCEPT ![a] = 0] /\ bit' = [bit EXCEPT ![a] = "work"]
      BY <1>1, <1>2, <3>3 DEF FunOK
    <3> QED BY <3>1, <3>2, <3>3
  <2> QED BY <1>101, <1>1, <2>1, <2>2 DEF MailTest, prog, signal, wake, rest, FunOK
<1>102. ASSUME NEW a \in Actors, WakeClear(a) PROVE FunOK'
  BY <1>102, <1>1, <1>2 DEF WakeClear, At, Goto, prog, wake, rest, FunOK, ThreadPC, PoolPC,
     Wakes
<1>103. ASSUME NEW a \in Actors, WakeSync(a) PROVE FunOK'
  BY <1>103, <1>1, <1>2 DEF WakeSync, At, Goto, prog, wake, rest, FunOK, ThreadPC, PoolPC,
     Wakes
<1>104. ASSUME NEW a \in Actors, WakePipe(a) PROVE FunOK'
  <2>1. PICK u \in Threads : u = tgt[a]
    BY <1>1 DEF FunOK
  <2>2. pipe' \in [Threads -> 0..PipeCap]
    <3>1. pipe' = [pipe EXCEPT ![u] = IF pipe[u] < PipeCap THEN pipe[u] + 1 ELSE pipe[u]]
      BY <1>104, <2>1 DEF WakePipe
    <3>2. pipe[u] \in 0..PipeCap /\ PipeCap \in Nat
      BY <1>1, <2>1, IdleAssumption DEF FunOK
    <3>3. (IF pipe[u] < PipeCap THEN pipe[u] + 1 ELSE pipe[u]) \in 0..PipeCap
      BY <3>2
    <3> QED BY <1>1, <3>1, <3>3 DEF FunOK
  <2>3. /\ DOMAIN pc' = Actors
        /\ \A x \in Threads : pc'[x] \in ThreadPC
        /\ \A x \in Workers : pc'[x] \in PoolPC
    BY <1>104, <1>1, <1>2, AfterIn DEF WakePipe, At, Goto, FunOK, ThreadPC, PoolPC, Wakes
  <2>4. tgt' \in [Actors -> Threads] /\ bit' \in [Actors -> {"mail", "work"}]
    BY <1>104, <1>1, <1>2 DEF WakePipe, Aim, NoAim, FunOK
  <2> QED BY <1>104, <1>1, <2>2, <2>3, <2>4 DEF WakePipe, prog, rest, FunOK
<1>105. ASSUME NEW t \in Threads, Top(t) PROVE FunOK'
  BY <1>105, <1>1, <1>2 DEF Top, At, Goto, wake, rest, FunOK, ThreadPC, PoolPC, Wakes
<1>106. ASSUME NEW t \in Threads, Sleep(t) PROVE FunOK'
  BY <1>106, <1>1, <1>2 DEF Sleep, At, Goto, Mine, prog, wake, rest, FunOK, ThreadPC, PoolPC,
     Wakes
<1>107. ASSUME NEW t \in Threads, Check(t) PROVE FunOK'
  <2>1. /\ DOMAIN pc' = Actors
        /\ \A x \in Threads : pc'[x] \in ThreadPC
        /\ \A x \in Workers : pc'[x] \in PoolPC
    BY <1>107, <1>1, <1>2 DEF Check, At, Goto, FunOK, ThreadPC, PoolPC, Wakes
  <2>2. sleeping' \subseteq Threads
    BY <1>107, <1>1, <1>2 DEF Check, At, Aim, NoAim, wake, signal, FunOK
  <2> QED BY <1>107, <1>1, <2>1, <2>2 DEF Check, prog, signal, wake, rest, FunOK
<1>108. ASSUME NEW t \in Threads, SetIdle(t) PROVE FunOK'
  BY <1>108, <1>1, <1>2 DEF SetIdle, At, Goto, prog, signal, wake, rest, FunOK, ThreadPC,
     PoolPC, Wakes
<1>109. ASSUME NEW t \in Threads, TestPending(t) PROVE FunOK'
  BY <1>109, <1>1, <1>2 DEF TestPending, At, Goto, prog, signal, wake, rest, FunOK, ThreadPC,
     PoolPC, Wakes
<1>110. ASSUME NEW t \in Threads, Look(t) PROVE FunOK'
  BY <1>110, <1>1, <1>2 DEF Look, At, Goto, prog, signal, wake, rest, FunOK, ThreadPC, PoolPC,
     Wakes
<1>111. ASSUME NEW t \in Threads, Decide(t) PROVE FunOK'
  BY <1>111, <1>1, <1>2 DEF Decide, At, Goto, prog, signal, wake, FunOK, ThreadPC, PoolPC,
     Wakes
<1>112. ASSUME NEW t \in Threads, Pause(t) PROVE FunOK'
  BY <1>112, <1>1, <1>2 DEF Pause, At, Goto, prog, signal, wake, rest, FunOK, ThreadPC, PoolPC,
     Wakes
<1>113. ASSUME NEW t \in Threads, Read(t) PROVE FunOK'
  BY <1>113, <1>1, <1>2, IdleAssumption DEF Read, At, Goto, prog, wake, rest, FunOK, ThreadPC, PoolPC, Wakes
<1>114. ASSUME NEW t \in Threads, ClearIdle(t) PROVE FunOK'
  BY <1>114, <1>1, <1>2 DEF ClearIdle, At, Goto, prog, signal, wake, rest, FunOK, ThreadPC,
     PoolPC, Wakes
<1>115. ASSUME NEW t \in Threads, NEW p \in Procs, Dispatch(t, p) PROVE FunOK'
  <2>1. sleeping # {} => Min(sleeping) \in Threads
    BY <1>1, MinIn DEF FunOK
  <2> DEFINE m == Min(sleeping)
  <2> HIDE DEF m
  <2>2. CASE Goto(t, "run") /\ UNCHANGED wake
    BY <1>115, <1>1, <1>2, <2>2 DEF Dispatch, At, Goto, wake, Set, signal, rest, FunOK,
       ThreadPC, PoolPC, Wakes
  <2>3. CASE sleeping # {} /\ Goto(t, "k_clear") /\ Aim(t, m, "work")
    BY <1>115, <1>1, <1>2, <2>1, <2>3 DEF Dispatch, At, Goto, Aim, Set, signal, rest, m,
       FunOK, ThreadPC, PoolPC, Wakes
  <2> QED BY <1>115, <2>2, <2>3 DEF Dispatch, m
<1>116. ASSUME NEW t \in Threads, NEW p \in Procs, Steal(t, p) PROVE FunOK'
  BY <1>116, <1>1, <1>2 DEF Steal, At, Goto, Set, Mine, signal, wake, rest, FunOK, ThreadPC,
     PoolPC, Wakes
<1>117. ASSUME NEW t \in Threads, NEW p \in Procs, Block(t, p) PROVE FunOK'
  BY <1>117, <1>1, <1>2 DEF Block, At, Goto, Set, On, signal, wake, rest, FunOK, ThreadPC,
     PoolPC, Wakes
<1>118. ASSUME NEW t \in Threads, NEW p \in Procs, Yield(t, p) PROVE FunOK'
  BY <1>118, <1>1, <1>2 DEF Yield, At, Goto, Set, On, signal, wake, rest, FunOK, ThreadPC,
     PoolPC, Wakes
<1>119. ASSUME NEW t \in Threads, NEW p \in Procs, Call(t, p) PROVE FunOK'
  BY <1>119, <1>1, <1>2 DEF Call, At, Goto, Set, On, signal, wake, FunOK, ThreadPC, PoolPC,
     Wakes
<1>120. ASSUME NEW t \in Threads, NEW p \in Procs, Shutdown(t, p) PROVE FunOK'
  BY <1>120, <1>1, <1>2 DEF Shutdown, At, Goto, Set, On, signal, wake, FunOK, ThreadPC, PoolPC,
     Wakes
<1>121. ASSUME NEW t \in Threads, NEW p \in Procs, Ready(t, p) PROVE FunOK'
  BY <1>121, <1>1, <1>2 DEF Ready, At, Set, signal, wake, rest, FunOK, ThreadPC, PoolPC, Wakes
<1>122. ASSUME NEW t \in Threads, NEW p \in Procs, NEW u \in Threads, Mail(t, p, u)
        PROVE  FunOK'
  BY <1>122, <1>1, <1>2 DEF Mail, At, Goto, Aim, Set, signal, rest, FunOK, ThreadPC, PoolPC,
     Wakes
<1>123. ASSUME NEW w \in Workers, Uncount(w) PROVE FunOK'
  <2>1. pending > 0
    <3>1. w \in Uncounted
      BY <1>123 DEF Uncounted, Uncount, At
    <3>2. IsFiniteSet(Uncounted) /\ IsFiniteSet(InCall)
      BY ConstFacts, FS_Subset DEF Uncounted, InCall
    <3>3. Cardinality(Uncounted) # 0
      BY <3>1, <3>2, FS_EmptySet
    <3>4. Cardinality(Uncounted) \in Nat /\ Cardinality(InCall) \in Nat
      BY <3>2, FS_CardinalityType
    <3> QED BY <3>3, <3>4 DEF IInv, CountOK
  <2> QED BY <1>123, <1>1, <1>2, <2>1 DEF Uncount, At, Goto, prog, signal, wake, FunOK, PoolPC
<1>124. ASSUME NEW w \in Workers, Mitigate(w) PROVE FunOK'
  <2>1. /\ DOMAIN pc' = Actors
        /\ \A x \in Threads : pc'[x] \in ThreadPC
        /\ \A x \in Workers : pc'[x] \in PoolPC
    BY <1>124, <1>1, <1>2 DEF Mitigate, At, Goto, FunOK, ThreadPC, PoolPC, Wakes
  <2>2. tgt' \in [Actors -> Threads] /\ bit' \in [Actors -> {"mail", "work"}]
    <3>1. \/ tgt' = tgt /\ bit' = bit
          \/ tgt' = [tgt EXCEPT ![w] = 0] /\ bit' = [bit EXCEPT ![w] = "work"]
      BY <1>124 DEF Mitigate, Aim, NoAim, wake
    <3>2. CASE tgt' = tgt /\ bit' = bit
      BY <1>1, <3>2 DEF FunOK
    <3>3. CASE tgt' = [tgt EXCEPT ![w] = 0] /\ bit' = [bit EXCEPT ![w] = "work"]
      BY <1>1, <1>2, <3>3 DEF FunOK
    <3> QED BY <3>1, <3>2, <3>3
  <2> QED BY <1>124, <1>1, <2>1, <2>2 DEF Mitigate, prog, signal, wake, rest, FunOK
<1>125. ASSUME NEW w \in Workers, NEW p \in Procs, NEW u \in Threads, Return(w, p, u)
        PROVE  FunOK'
  BY <1>125, <1>1, <1>2 DEF Return, At, Goto, Aim, Set, signal, rest, FunOK, ThreadPC, PoolPC,
     Wakes
<1>126. ASSUME UNCHANGED vars PROVE FunOK'
  BY <1>126, <1>1, <1>2 DEF vars, prog, signal, wake, rest, FunOK
<1> QED BY <1>100, <1>101, <1>102, <1>103, <1>104, <1>105, <1>106, <1>107, <1>108, <1>109,
   <1>110, <1>111, <1>112, <1>113, <1>114, <1>115, <1>116, <1>117, <1>118, <1>119, <1>120,
   <1>121, <1>122, <1>123, <1>124, <1>125, <1>126 DEF Next, WakeStep, SchedStep, ProgramStep,
   Leave, PoolStep, Ended

\* Only a thread itself changes its bit in idle_threads.
LEMMA IdleStep ==
  ASSUME IInv, [Next]_vars PROVE IdleOK'
<1>1. FunOK /\ IdleOK
  BY DEF IInv
<1>2. /\ Threads \subseteq Nat /\ 0 \in Threads /\ Threads \cap Workers = {}
      /\ Actors = Threads \cup Workers
  BY ConstFacts
<1>100. ASSUME NEW a \in Actors, MailSync(a) PROVE IdleOK'
  BY <1>100, <1>1, <1>2 DEF MailSync, At, Goto, FunOK, IdleOK, IdlePC, ThreadPC, PoolPC, Wakes
<1>101. ASSUME NEW a \in Actors, MailTest(a) PROVE IdleOK'
  BY <1>101, <1>1, <1>2, AfterIn DEF MailTest, At, Goto, FunOK, IdleOK, IdlePC, ThreadPC,
     PoolPC, Wakes
<1>102. ASSUME NEW a \in Actors, WakeClear(a) PROVE IdleOK'
  BY <1>102, <1>1, <1>2 DEF WakeClear, At, Goto, FunOK, IdleOK, IdlePC, ThreadPC, PoolPC, Wakes
<1>103. ASSUME NEW a \in Actors, WakeSync(a) PROVE IdleOK'
  BY <1>103, <1>1, <1>2 DEF WakeSync, At, Goto, FunOK, IdleOK, IdlePC, ThreadPC, PoolPC, Wakes
<1>104. ASSUME NEW a \in Actors, WakePipe(a) PROVE IdleOK'
  BY <1>104, <1>1, <1>2, AfterIn DEF WakePipe, At, Goto, FunOK, IdleOK, IdlePC, ThreadPC,
     PoolPC, Wakes
<1>105. ASSUME NEW t \in Threads, Top(t) PROVE IdleOK'
  BY <1>105, <1>1, <1>2 DEF Top, At, Goto, FunOK, IdleOK, IdlePC, ThreadPC, PoolPC, Wakes
<1>106. ASSUME NEW t \in Threads, Sleep(t) PROVE IdleOK'
  BY <1>106, <1>1, <1>2 DEF Sleep, At, Goto, FunOK, IdleOK, IdlePC, ThreadPC, PoolPC, Wakes
<1>107. ASSUME NEW t \in Threads, Check(t) PROVE IdleOK'
  BY <1>107, <1>1, <1>2 DEF Check, At, Goto, FunOK, IdleOK, IdlePC, ThreadPC, PoolPC, Wakes
<1>108. ASSUME NEW t \in Threads, SetIdle(t) PROVE IdleOK'
  BY <1>108, <1>1, <1>2 DEF SetIdle, At, Goto, FunOK, IdleOK, IdlePC, ThreadPC, PoolPC, Wakes
<1>109. ASSUME NEW t \in Threads, TestPending(t) PROVE IdleOK'
  BY <1>109, <1>1, <1>2 DEF TestPending, At, Goto, FunOK, IdleOK, IdlePC, ThreadPC, PoolPC,
     Wakes
<1>110. ASSUME NEW t \in Threads, Look(t) PROVE IdleOK'
  BY <1>110, <1>1, <1>2 DEF Look, At, Goto, FunOK, IdleOK, IdlePC, ThreadPC, PoolPC, Wakes
<1>111. ASSUME NEW t \in Threads, Decide(t) PROVE IdleOK'
  BY <1>111, <1>1, <1>2 DEF Decide, At, Goto, FunOK, IdleOK, IdlePC, ThreadPC, PoolPC, Wakes
<1>112. ASSUME NEW t \in Threads, Pause(t) PROVE IdleOK'
  BY <1>112, <1>1, <1>2 DEF Pause, At, Goto, FunOK, IdleOK, IdlePC, ThreadPC, PoolPC, Wakes
<1>113. ASSUME NEW t \in Threads, Read(t) PROVE IdleOK'
  BY <1>113, <1>1, <1>2 DEF Read, At, Goto, FunOK, IdleOK, IdlePC, ThreadPC, PoolPC, Wakes
<1>114. ASSUME NEW t \in Threads, ClearIdle(t) PROVE IdleOK'
  BY <1>114, <1>1, <1>2 DEF ClearIdle, At, Goto, FunOK, IdleOK, IdlePC, ThreadPC, PoolPC, Wakes
<1>115. ASSUME NEW t \in Threads, NEW p \in Procs, Dispatch(t, p) PROVE IdleOK'
  BY <1>115, <1>1, <1>2 DEF Dispatch, At, Goto, FunOK, IdleOK, IdlePC, ThreadPC, PoolPC, Wakes
<1>116. ASSUME NEW t \in Threads, NEW p \in Procs, Steal(t, p) PROVE IdleOK'
  BY <1>116, <1>1, <1>2 DEF Steal, At, Goto, FunOK, IdleOK, IdlePC, ThreadPC, PoolPC, Wakes
<1>117. ASSUME NEW t \in Threads, NEW p \in Procs, Block(t, p) PROVE IdleOK'
  BY <1>117, <1>1, <1>2 DEF Block, At, Goto, On, FunOK, IdleOK, IdlePC, ThreadPC, PoolPC, Wakes
<1>118. ASSUME NEW t \in Threads, NEW p \in Procs, Yield(t, p) PROVE IdleOK'
  BY <1>118, <1>1, <1>2 DEF Yield, At, Goto, On, FunOK, IdleOK, IdlePC, ThreadPC, PoolPC, Wakes
<1>119. ASSUME NEW t \in Threads, NEW p \in Procs, Call(t, p) PROVE IdleOK'
  BY <1>119, <1>1, <1>2 DEF Call, At, Goto, On, FunOK, IdleOK, IdlePC, ThreadPC, PoolPC, Wakes
<1>120. ASSUME NEW t \in Threads, NEW p \in Procs, Shutdown(t, p) PROVE IdleOK'
  BY <1>120, <1>1, <1>2 DEF Shutdown, At, Goto, On, FunOK, IdleOK, IdlePC, ThreadPC, PoolPC,
     Wakes
<1>121. ASSUME NEW t \in Threads, NEW p \in Procs, Ready(t, p) PROVE IdleOK'
  BY <1>121, <1>1, <1>2 DEF Ready, At, FunOK, IdleOK, IdlePC, ThreadPC, PoolPC, Wakes
<1>122. ASSUME NEW t \in Threads, NEW p \in Procs, NEW u \in Threads, Mail(t, p, u)
        PROVE  IdleOK'
  BY <1>122, <1>1, <1>2 DEF Mail, At, Goto, FunOK, IdleOK, IdlePC, ThreadPC, PoolPC, Wakes
<1>123. ASSUME NEW w \in Workers, Uncount(w) PROVE IdleOK'
  BY <1>123, <1>1, <1>2 DEF Uncount, At, Goto, FunOK, IdleOK, IdlePC, ThreadPC, PoolPC, Wakes
<1>124. ASSUME NEW w \in Workers, Mitigate(w) PROVE IdleOK'
  BY <1>124, <1>1, <1>2 DEF Mitigate, At, Goto, FunOK, IdleOK, IdlePC, ThreadPC, PoolPC, Wakes
<1>125. ASSUME NEW w \in Workers, NEW p \in Procs, NEW u \in Threads, Return(w, p, u)
        PROVE  IdleOK'
  BY <1>125, <1>1, <1>2 DEF Return, At, Goto, FunOK, IdleOK, IdlePC, ThreadPC, PoolPC, Wakes
<1>126. ASSUME UNCHANGED vars PROVE IdleOK'
  BY <1>126, <1>1, <1>2 DEF vars, FunOK, IdleOK, IdlePC
<1> QED BY <1>100, <1>101, <1>102, <1>103, <1>104, <1>105, <1>106, <1>107, <1>108, <1>109,
   <1>110, <1>111, <1>112, <1>113, <1>114, <1>115, <1>116, <1>117, <1>118, <1>119, <1>120,
   <1>121, <1>122, <1>123, <1>124, <1>125, <1>126 DEF Next, WakeStep, SchedStep, ProgramStep,
   Leave, PoolStep, Ended

\* A thread runs one process at a time, and does not sleep on a queue.
LEMMA PlaceStep ==
  ASSUME IInv, [Next]_vars PROVE PlaceOK'
<1>1. FunOK /\ PlaceOK
  BY DEF IInv
<1>2. /\ Threads \subseteq Nat /\ 0 \in Threads /\ Threads \cap Workers = {}
      /\ Actors = Threads \cup Workers
  BY ConstFacts
<1>100. ASSUME NEW a \in Actors, MailSync(a) PROVE PlaceOK'
  BY <1>100, <1>1, <1>2 DEF MailSync, At, Goto, prog, FunOK, PlaceOK, RunPC, SleepPC, ThreadPC,
     PoolPC, Wakes
<1>101. ASSUME NEW a \in Actors, MailTest(a) PROVE PlaceOK'
  BY <1>101, <1>1, <1>2, AfterIn DEF MailTest, At, Goto, prog, FunOK, PlaceOK, RunPC, SleepPC,
     ThreadPC, PoolPC, Wakes
<1>102. ASSUME NEW a \in Actors, WakeClear(a) PROVE PlaceOK'
  BY <1>102, <1>1, <1>2 DEF WakeClear, At, Goto, prog, FunOK, PlaceOK, RunPC, SleepPC,
     ThreadPC, PoolPC, Wakes
<1>103. ASSUME NEW a \in Actors, WakeSync(a) PROVE PlaceOK'
  BY <1>103, <1>1, <1>2 DEF WakeSync, At, Goto, prog, FunOK, PlaceOK, RunPC, SleepPC, ThreadPC,
     PoolPC, Wakes
<1>104. ASSUME NEW a \in Actors, WakePipe(a) PROVE PlaceOK'
  BY <1>104, <1>1, <1>2, AfterIn DEF WakePipe, At, Goto, prog, FunOK, PlaceOK, RunPC, SleepPC,
     ThreadPC, PoolPC, Wakes
<1>105. ASSUME NEW t \in Threads, Top(t) PROVE PlaceOK'
  BY <1>105, <1>1, <1>2 DEF Top, At, Goto, FunOK, PlaceOK, RunPC, SleepPC, ThreadPC, PoolPC,
     Wakes
<1>106. ASSUME NEW t \in Threads, Sleep(t) PROVE PlaceOK'
  BY <1>106, <1>1, <1>2 DEF Sleep, At, Goto, Mine, prog, FunOK, PlaceOK, RunPC, SleepPC,
     ThreadPC, PoolPC, Wakes
<1>107. ASSUME NEW t \in Threads, Check(t) PROVE PlaceOK'
  BY <1>107, <1>1, <1>2 DEF Check, At, Goto, prog, FunOK, PlaceOK, RunPC, SleepPC, ThreadPC,
     PoolPC, Wakes
<1>108. ASSUME NEW t \in Threads, SetIdle(t) PROVE PlaceOK'
  BY <1>108, <1>1, <1>2 DEF SetIdle, At, Goto, prog, FunOK, PlaceOK, RunPC, SleepPC, ThreadPC,
     PoolPC, Wakes
<1>109. ASSUME NEW t \in Threads, TestPending(t) PROVE PlaceOK'
  BY <1>109, <1>1, <1>2 DEF TestPending, At, Goto, prog, FunOK, PlaceOK, RunPC, SleepPC,
     ThreadPC, PoolPC, Wakes
<1>110. ASSUME NEW t \in Threads, Look(t) PROVE PlaceOK'
  BY <1>110, <1>1, <1>2 DEF Look, At, Goto, prog, FunOK, PlaceOK, RunPC, SleepPC, ThreadPC,
     PoolPC, Wakes
<1>111. ASSUME NEW t \in Threads, Decide(t) PROVE PlaceOK'
  BY <1>111, <1>1, <1>2 DEF Decide, At, Goto, prog, FunOK, PlaceOK, RunPC, SleepPC, ThreadPC,
     PoolPC, Wakes
<1>112. ASSUME NEW t \in Threads, Pause(t) PROVE PlaceOK'
  BY <1>112, <1>1, <1>2 DEF Pause, At, Goto, prog, FunOK, PlaceOK, RunPC, SleepPC, ThreadPC,
     PoolPC, Wakes
<1>113. ASSUME NEW t \in Threads, Read(t) PROVE PlaceOK'
  BY <1>113, <1>1, <1>2 DEF Read, At, Goto, prog, FunOK, PlaceOK, RunPC, SleepPC, ThreadPC,
     PoolPC, Wakes
<1>114. ASSUME NEW t \in Threads, ClearIdle(t) PROVE PlaceOK'
  BY <1>114, <1>1, <1>2 DEF ClearIdle, At, Goto, prog, FunOK, PlaceOK, RunPC, SleepPC,
     ThreadPC, PoolPC, Wakes
<1>115. ASSUME NEW t \in Threads, NEW p \in Procs, Dispatch(t, p) PROVE PlaceOK'
  BY <1>115, <1>1, <1>2 DEF Dispatch, At, Goto, Set, Mine, FunOK, PlaceOK, RunPC, SleepPC,
     ThreadPC, PoolPC, Wakes
<1>116. ASSUME NEW t \in Threads, NEW p \in Procs, Steal(t, p) PROVE PlaceOK'
  BY <1>116, <1>1, <1>2 DEF Steal, At, Goto, Set, Mine, FunOK, PlaceOK, RunPC, SleepPC,
     ThreadPC, PoolPC, Wakes
<1>117. ASSUME NEW t \in Threads, NEW p \in Procs, Block(t, p) PROVE PlaceOK'
  BY <1>117, <1>1, <1>2 DEF Block, At, Goto, Set, On, FunOK, PlaceOK, RunPC, SleepPC, ThreadPC,
     PoolPC, Wakes
<1>118. ASSUME NEW t \in Threads, NEW p \in Procs, Yield(t, p) PROVE PlaceOK'
  BY <1>118, <1>1, <1>2 DEF Yield, At, Goto, Set, On, FunOK, PlaceOK, RunPC, SleepPC, ThreadPC,
     PoolPC, Wakes
<1>119. ASSUME NEW t \in Threads, NEW p \in Procs, Call(t, p) PROVE PlaceOK'
  BY <1>119, <1>1, <1>2 DEF Call, At, Goto, Set, On, FunOK, PlaceOK, RunPC, SleepPC, ThreadPC,
     PoolPC, Wakes
<1>120. ASSUME NEW t \in Threads, NEW p \in Procs, Shutdown(t, p) PROVE PlaceOK'
  BY <1>120, <1>1, <1>2 DEF Shutdown, At, Goto, Set, On, FunOK, PlaceOK, RunPC, SleepPC,
     ThreadPC, PoolPC, Wakes
<1>121. ASSUME NEW t \in Threads, NEW p \in Procs, Ready(t, p) PROVE PlaceOK'
  BY <1>121, <1>1, <1>2 DEF Ready, At, Set, FunOK, PlaceOK, RunPC, SleepPC, ThreadPC, PoolPC,
     Wakes
<1>122. ASSUME NEW t \in Threads, NEW p \in Procs, NEW u \in Threads, Mail(t, p, u)
        PROVE  PlaceOK'
  BY <1>122, <1>1, <1>2 DEF Mail, At, Goto, Set, FunOK, PlaceOK, RunPC, SleepPC, ThreadPC,
     PoolPC, Wakes
<1>123. ASSUME NEW w \in Workers, Uncount(w) PROVE PlaceOK'
  BY <1>123, <1>1, <1>2 DEF Uncount, At, Goto, prog, FunOK, PlaceOK, RunPC, SleepPC, ThreadPC,
     PoolPC, Wakes
<1>124. ASSUME NEW w \in Workers, Mitigate(w) PROVE PlaceOK'
  BY <1>124, <1>1, <1>2 DEF Mitigate, At, Goto, prog, FunOK, PlaceOK, RunPC, SleepPC, ThreadPC,
     PoolPC, Wakes
<1>125. ASSUME NEW w \in Workers, NEW p \in Procs, NEW u \in Threads, Return(w, p, u)
        PROVE  PlaceOK'
  BY <1>125, <1>1, <1>2 DEF Return, At, Goto, Set, FunOK, PlaceOK, RunPC, SleepPC, ThreadPC,
     PoolPC, Wakes
<1>126. ASSUME UNCHANGED vars PROVE PlaceOK'
  BY <1>126, <1>1, <1>2 DEF vars, prog, FunOK, PlaceOK, RunPC, SleepPC
<1> QED BY <1>100, <1>101, <1>102, <1>103, <1>104, <1>105, <1>106, <1>107, <1>108, <1>109,
   <1>110, <1>111, <1>112, <1>113, <1>114, <1>115, <1>116, <1>117, <1>118, <1>119, <1>120,
   <1>121, <1>122, <1>123, <1>124, <1>125, <1>126 DEF Next, WakeStep, SchedStep, ProgramStep,
   Leave, PoolStep, Ended

\* The count of calls is changed when a call begins, and after its process was mailed.
LEMMA CountStep ==
  ASSUME IInv, [Next]_vars PROVE CountOK'
<1>1. FunOK /\ PlaceOK /\ CountOK
  BY DEF IInv
<1>2. /\ Threads \subseteq Nat /\ 0 \in Threads /\ Threads \cap Workers = {}
      /\ Actors = Threads \cup Workers
  BY ConstFacts
<1>3. IsFiniteSet(InCall) /\ IsFiniteSet(Uncounted)
  BY ConstFacts, FS_Subset DEF InCall, Uncounted
<1>4. Cardinality(InCall) \in Nat /\ Cardinality(Uncounted) \in Nat
  BY <1>3, FS_CardinalityType
<1>5. ASSUME InCall' = InCall, Uncounted' = Uncounted, pending' = pending PROVE CountOK'
  BY <1>1, <1>5 DEF CountOK
<1>100. ASSUME NEW a \in Actors, MailSync(a) PROVE CountOK'
  <2>1. InCall' = InCall /\ Uncounted' = Uncounted /\ pending' = pending
    BY <1>100, <1>1, <1>2, AfterIn DEF MailSync, At, Goto, Aim, NoAim, Set, On, prog, wake,
       rest, FunOK, InCall,
       Uncounted, ThreadPC, PoolPC, Wakes
  <2> QED BY <1>5, <2>1
<1>101. ASSUME NEW a \in Actors, MailTest(a) PROVE CountOK'
  <2>1. InCall' = InCall /\ pending' = pending
    BY <1>101 DEF MailTest, prog, rest, InCall
  <2>2. ASSUME NEW v \in Workers PROVE v \in Uncounted' <=> v \in Uncounted
    <3>1. CASE v # a
      <4>1. pc'[v] = pc[v] /\ bit'[v] = bit[v]
        <5>1. CASE tgt[a] \in sleeping
          BY <1>101, <1>1, <1>2, <3>1, <5>1 DEF MailTest, Goto, Aim, NoAim, wake, FunOK
        <5>2. CASE ~(tgt[a] \in sleeping)
          BY <1>101, <1>1, <1>2, <3>1, <5>2 DEF MailTest, Goto, Aim, NoAim, wake, FunOK
        <5> QED BY <5>1, <5>2
      <4> QED BY <4>1 DEF Uncounted
    <3>2. CASE v = a /\ tgt[a] \in sleeping
      <4>1. pc'[v] \in Wakes /\ pc[v] \in Wakes /\ bit'[v] = bit[v]
        BY <1>101, <1>1, <1>2, <3>2 DEF MailTest, At, Goto, Aim, NoAim, wake, FunOK, Wakes
      <4> QED BY <1>2, <4>1 DEF Uncounted, Wakes
    <3>3. CASE v = a /\ ~(tgt[a] \in sleeping)
      <4>1. pc[v] \in Wakes /\ bit'[v] = "work"
            /\ pc'[v] = IF bit[v] = "mail" THEN "dec" ELSE "none"
        BY <1>101, <1>1, <1>2, <3>3, AfterIn DEF MailTest, At, Goto, Aim, NoAim, wake,
           FunOK, Wakes
      <4> QED BY <4>1 DEF Uncounted, Wakes
    <3> QED BY <3>1, <3>2, <3>3
  <2>3. Uncounted' = Uncounted
    BY <2>2 DEF Uncounted
  <2> QED BY <1>5, <2>1, <2>3
<1>102. ASSUME NEW a \in Actors, WakeClear(a) PROVE CountOK'
  <2>1. InCall' = InCall /\ Uncounted' = Uncounted /\ pending' = pending
    BY <1>102, <1>1, <1>2, AfterIn DEF WakeClear, At, Goto, Aim, NoAim, Set, On, prog,
       wake, rest, FunOK, InCall,
       Uncounted, ThreadPC, PoolPC, Wakes
  <2> QED BY <1>5, <2>1
<1>103. ASSUME NEW a \in Actors, WakeSync(a) PROVE CountOK'
  <2>1. InCall' = InCall /\ Uncounted' = Uncounted /\ pending' = pending
    BY <1>103, <1>1, <1>2, AfterIn DEF WakeSync, At, Goto, Aim, NoAim, Set, On, prog, wake,
       rest, FunOK, InCall,
       Uncounted, ThreadPC, PoolPC, Wakes
  <2> QED BY <1>5, <2>1
<1>104. ASSUME NEW a \in Actors, WakePipe(a) PROVE CountOK'
  <2>1. InCall' = InCall /\ Uncounted' = Uncounted /\ pending' = pending
    BY <1>104, <1>1, <1>2, AfterIn DEF WakePipe, At, Goto, Aim, NoAim, Set, On, prog, wake,
       rest, FunOK, InCall,
       Uncounted, ThreadPC, PoolPC, Wakes
  <2> QED BY <1>5, <2>1
<1>105. ASSUME NEW t \in Threads, Top(t) PROVE CountOK'
  <2>1. InCall' = InCall /\ Uncounted' = Uncounted /\ pending' = pending
    BY <1>105, <1>1, <1>2, AfterIn DEF Top, At, Goto, Aim, NoAim, Set, On, prog, wake,
       rest, FunOK, InCall,
       Uncounted, ThreadPC, PoolPC, Wakes
  <2> QED BY <1>5, <2>1
<1>106. ASSUME NEW t \in Threads, Sleep(t) PROVE CountOK'
  <2>1. InCall' = InCall /\ Uncounted' = Uncounted /\ pending' = pending
    BY <1>106, <1>1, <1>2, AfterIn DEF Sleep, At, Goto, Aim, NoAim, Set, On, prog, wake,
       rest, FunOK, InCall,
       Uncounted, ThreadPC, PoolPC, Wakes
  <2> QED BY <1>5, <2>1
<1>107. ASSUME NEW t \in Threads, Check(t) PROVE CountOK'
  <2>1. InCall' = InCall /\ Uncounted' = Uncounted /\ pending' = pending
    BY <1>107, <1>1, <1>2, AfterIn DEF Check, At, Goto, Aim, NoAim, Set, On, prog, wake,
       rest, FunOK, InCall,
       Uncounted, ThreadPC, PoolPC, Wakes
  <2> QED BY <1>5, <2>1
<1>108. ASSUME NEW t \in Threads, SetIdle(t) PROVE CountOK'
  <2>1. InCall' = InCall /\ Uncounted' = Uncounted /\ pending' = pending
    BY <1>108, <1>1, <1>2, AfterIn DEF SetIdle, At, Goto, Aim, NoAim, Set, On, prog, wake,
       rest, FunOK, InCall,
       Uncounted, ThreadPC, PoolPC, Wakes
  <2> QED BY <1>5, <2>1
<1>109. ASSUME NEW t \in Threads, TestPending(t) PROVE CountOK'
  <2>1. InCall' = InCall /\ Uncounted' = Uncounted /\ pending' = pending
    BY <1>109, <1>1, <1>2, AfterIn DEF TestPending, At, Goto, Aim, NoAim, Set, On, prog,
       wake, rest, FunOK, InCall,
       Uncounted, ThreadPC, PoolPC, Wakes
  <2> QED BY <1>5, <2>1
<1>110. ASSUME NEW t \in Threads, Look(t) PROVE CountOK'
  <2>1. InCall' = InCall /\ Uncounted' = Uncounted /\ pending' = pending
    BY <1>110, <1>1, <1>2, AfterIn DEF Look, At, Goto, Aim, NoAim, Set, On, prog, wake,
       rest, FunOK, InCall,
       Uncounted, ThreadPC, PoolPC, Wakes
  <2> QED BY <1>5, <2>1
<1>111. ASSUME NEW t \in Threads, Decide(t) PROVE CountOK'
  <2>1. InCall' = InCall /\ Uncounted' = Uncounted /\ pending' = pending
    BY <1>111, <1>1, <1>2, AfterIn DEF Decide, At, Goto, Aim, NoAim, Set, On, prog, wake,
       rest, FunOK, InCall,
       Uncounted, ThreadPC, PoolPC, Wakes
  <2> QED BY <1>5, <2>1
<1>112. ASSUME NEW t \in Threads, Pause(t) PROVE CountOK'
  <2>1. InCall' = InCall /\ Uncounted' = Uncounted /\ pending' = pending
    BY <1>112, <1>1, <1>2, AfterIn DEF Pause, At, Goto, Aim, NoAim, Set, On, prog, wake,
       rest, FunOK, InCall,
       Uncounted, ThreadPC, PoolPC, Wakes
  <2> QED BY <1>5, <2>1
<1>113. ASSUME NEW t \in Threads, Read(t) PROVE CountOK'
  <2>1. InCall' = InCall /\ Uncounted' = Uncounted /\ pending' = pending
    BY <1>113, <1>1, <1>2, AfterIn DEF Read, At, Goto, Aim, NoAim, Set, On, prog, wake,
       rest, FunOK, InCall,
       Uncounted, ThreadPC, PoolPC, Wakes
  <2> QED BY <1>5, <2>1
<1>114. ASSUME NEW t \in Threads, ClearIdle(t) PROVE CountOK'
  <2>1. InCall' = InCall /\ Uncounted' = Uncounted /\ pending' = pending
    BY <1>114, <1>1, <1>2, AfterIn DEF ClearIdle, At, Goto, Aim, NoAim, Set, On, prog,
       wake, rest, FunOK, InCall,
       Uncounted, ThreadPC, PoolPC, Wakes
  <2> QED BY <1>5, <2>1
<1>115. ASSUME NEW t \in Threads, NEW p \in Procs, Dispatch(t, p) PROVE CountOK'
  <2>1. InCall' = InCall /\ pending' = pending
    BY <1>115, <1>1 DEF Dispatch, Mine, Set, rest, FunOK, InCall
  <2>2. ASSUME NEW w \in Workers PROVE pc'[w] = pc[w] /\ bit'[w] = bit[w]
    <3>1. /\ \E l : pc' = [pc EXCEPT ![t] = l]
          /\ bit' = bit \/ bit' = [bit EXCEPT ![t] = "work"]
      BY <1>115 DEF Dispatch, Goto, Aim, wake
    <3>2. pc'[w] = pc[w]
      BY <1>1, <1>2, <3>1 DEF FunOK
    <3>3. CASE bit' = bit
      BY <3>2, <3>3
    <3>4. CASE bit' = [bit EXCEPT ![t] = "work"]
      BY <1>1, <1>2, <3>2, <3>4 DEF FunOK
    <3> QED BY <3>1, <3>3, <3>4
  <2>3. Uncounted' = Uncounted
    BY <2>2 DEF Uncounted
  <2> QED BY <1>5, <2>1, <2>3
<1>116. ASSUME NEW t \in Threads, NEW p \in Procs, Steal(t, p) PROVE CountOK'
  <2>1. InCall' = InCall /\ Uncounted' = Uncounted /\ pending' = pending
    BY <1>116, <1>1, <1>2, AfterIn DEF Steal, At, Goto, Aim, NoAim, Set, On, prog, wake,
       rest, FunOK, InCall,
       Uncounted, ThreadPC, PoolPC, Wakes
  <2> QED BY <1>5, <2>1
<1>117. ASSUME NEW t \in Threads, NEW p \in Procs, Block(t, p) PROVE CountOK'
  <2>1. InCall' = InCall /\ Uncounted' = Uncounted /\ pending' = pending
    BY <1>117, <1>1, <1>2, AfterIn DEF Block, At, Goto, Aim, NoAim, Set, On, prog, wake,
       rest, FunOK, InCall,
       Uncounted, ThreadPC, PoolPC, Wakes
  <2> QED BY <1>5, <2>1
<1>118. ASSUME NEW t \in Threads, NEW p \in Procs, Yield(t, p) PROVE CountOK'
  <2>1. InCall' = InCall /\ Uncounted' = Uncounted /\ pending' = pending
    BY <1>118, <1>1, <1>2, AfterIn DEF Yield, At, Goto, Aim, NoAim, Set, On, prog, wake,
       rest, FunOK, InCall,
       Uncounted, ThreadPC, PoolPC, Wakes
  <2> QED BY <1>5, <2>1
<1>119. ASSUME NEW t \in Threads, NEW p \in Procs, Call(t, p) PROVE CountOK'
  <2>1. p \notin InCall /\ InCall' = InCall \cup {p} /\ Uncounted' = Uncounted
    BY <1>119, <1>1, <1>2 DEF Call, At, Goto, Aim, Set, On, prog, wake, FunOK, InCall,
       Uncounted, ThreadPC, PoolPC, Wakes
  <2>2. Cardinality(InCall') = Cardinality(InCall) + 1
    BY <1>3, <2>1, FS_AddElement
  <2>3. pending' = pending + 1
    BY <1>119 DEF Call
  <2> QED BY <1>1, <1>4, <2>1, <2>2, <2>3 DEF CountOK, FunOK
<1>120. ASSUME NEW t \in Threads, NEW p \in Procs, Shutdown(t, p) PROVE CountOK'
  <2>1. InCall' = InCall /\ Uncounted' = Uncounted /\ pending' = pending
    BY <1>120, <1>1, <1>2, AfterIn DEF Shutdown, At, Goto, Aim, NoAim, Set, On, prog, wake,
       rest, FunOK, InCall,
       Uncounted, ThreadPC, PoolPC, Wakes
  <2> QED BY <1>5, <2>1
<1>121. ASSUME NEW t \in Threads, NEW p \in Procs, Ready(t, p) PROVE CountOK'
  <2>1. InCall' = InCall /\ Uncounted' = Uncounted /\ pending' = pending
    BY <1>121, <1>1, <1>2, AfterIn DEF Ready, At, Goto, Aim, NoAim, Set, On, prog, wake,
       rest, FunOK, InCall,
       Uncounted, ThreadPC, PoolPC, Wakes
  <2> QED BY <1>5, <2>1
<1>122. ASSUME NEW t \in Threads, NEW p \in Procs, NEW u \in Threads, Mail(t, p, u)
        PROVE  CountOK'
  <2>1. InCall' = InCall /\ Uncounted' = Uncounted /\ pending' = pending
    BY <1>122, <1>1, <1>2, AfterIn DEF Mail, At, Goto, Aim, NoAim, Set, On, prog, wake,
       rest, FunOK, InCall,
       Uncounted, ThreadPC, PoolPC, Wakes
  <2> QED BY <1>5, <2>1
<1>123. ASSUME NEW w \in Workers, Uncount(w) PROVE CountOK'
  <2>1. InCall' = InCall /\ w \in Uncounted /\ Uncounted' = Uncounted \ {w}
    BY <1>123, <1>1, <1>2 DEF Uncount, At, Goto, Aim, Set, On, prog, wake, FunOK, InCall,
       Uncounted, ThreadPC, PoolPC, Wakes
  <2>2. Cardinality(Uncounted') = Cardinality(Uncounted) - 1
    BY <1>3, <2>1, FS_RemoveElement
  <2>3. pending' = pending - 1
    BY <1>123 DEF Uncount
  <2> QED BY <1>1, <1>4, <2>1, <2>2, <2>3 DEF CountOK, FunOK
<1>124. ASSUME NEW w \in Workers, Mitigate(w) PROVE CountOK'
  <2>1. InCall' = InCall /\ pending' = pending
    BY <1>124 DEF Mitigate, prog, rest, InCall
  <2>2. ASSUME NEW v \in Workers PROVE v \in Uncounted' <=> v \in Uncounted
    <3>1. CASE v # w
      <4>1. pc'[v] = pc[v] /\ bit'[v] = bit[v]
        <5>1. CASE shutdown
          <6>1. pc' = [pc EXCEPT ![w] = "k_clear"] /\ bit' = [bit EXCEPT ![w] = "work"]
            BY <1>124, <5>1 DEF Mitigate, Goto, Aim
          <6> QED BY <1>1, <1>2, <3>1, <6>1 DEF FunOK
        <5>2. CASE ~(shutdown)
          BY <1>124, <1>1, <1>2, <3>1, <5>2 DEF Mitigate, Goto, Aim, NoAim, wake, FunOK
        <5> QED BY <5>1, <5>2
      <4> QED BY <4>1 DEF Uncounted
    <3>2. CASE v = w /\ shutdown
      <4>1. bit'[v] = "work" /\ pc'[v] = "k_clear" /\ pc[v] = "mitigate"
        BY <1>124, <1>1, <1>2, <3>2 DEF Mitigate, At, Goto, Aim, NoAim, wake, FunOK, Wakes
      <4> QED BY <1>2, <4>1 DEF Uncounted, Wakes
    <3>3. CASE v = w /\ ~(shutdown)
      <4>1. pc'[v] = "none" /\ pc[v] = "mitigate"
        BY <1>124, <1>1, <1>2, <3>3, AfterIn DEF Mitigate, At, Goto, Aim, NoAim, wake,
           FunOK, Wakes
      <4> QED BY <4>1 DEF Uncounted, Wakes
    <3> QED BY <3>1, <3>2, <3>3
  <2>3. Uncounted' = Uncounted
    BY <2>2 DEF Uncounted
  <2> QED BY <1>5, <2>1, <2>3
<1>125. ASSUME NEW w \in Workers, NEW p \in Procs, NEW u \in Threads, Return(w, p, u)
        PROVE  CountOK'
  <2>1. /\ p \in InCall /\ InCall' = InCall \ {p}
        /\ w \notin Uncounted /\ Uncounted' = Uncounted \cup {w}
    BY <1>125, <1>1, <1>2 DEF Return, At, Goto, Aim, Set, On, prog, wake, FunOK, InCall,
       Uncounted, ThreadPC, PoolPC, Wakes
  <2>2. Cardinality(InCall') = Cardinality(InCall) - 1
    BY <1>3, <2>1, FS_RemoveElement
  <2>3. Cardinality(Uncounted') = Cardinality(Uncounted) + 1
    BY <1>3, <2>1, FS_AddElement
  <2>4. pending' = pending
    BY <1>125 DEF Return, rest
  <2> QED BY <1>1, <1>4, <2>2, <2>3, <2>4 DEF CountOK, FunOK
<1>126. ASSUME UNCHANGED vars PROVE CountOK'
  BY <1>126, <1>5 DEF vars, prog, wake, rest, InCall, Uncounted
<1> QED BY <1>100, <1>101, <1>102, <1>103, <1>104, <1>105, <1>106, <1>107, <1>108, <1>109,
   <1>110, <1>111, <1>112, <1>113, <1>114, <1>115, <1>116, <1>117, <1>118, <1>119, <1>120,
   <1>121, <1>122, <1>123, <1>124, <1>125, <1>126 DEF Next, WakeStep, SchedStep, ProgramStep,
   Leave, PoolStep, Ended

\* An unmarked thread on its way to read() has been signalled, or is about to be.
LEMMA AwakeStep ==
  ASSUME IInv, [Next]_vars PROVE AwakeOK'
<1>1. FunOK /\ IdleOK /\ AwakeOK
  BY DEF IInv
<1>2. /\ Threads \subseteq Nat /\ 0 \in Threads /\ Threads \cap Workers = {}
      /\ Actors = Threads \cup Workers
  BY ConstFacts
<1>100. ASSUME NEW a \in Actors, MailSync(a) PROVE AwakeOK'
  BY <1>100, <1>1, <1>2 DEF MailSync, At, Goto, wake, FunOK, AwakeOK, Roused, SleepPC,
     ThreadPC, PoolPC, Wakes
<1>101. ASSUME NEW a \in Actors, MailTest(a) PROVE AwakeOK'
  BY <1>101, <1>1, <1>2, AfterIn DEF MailTest, At, Goto, Aim, NoAim, signal, wake, FunOK,
     AwakeOK, Roused, SleepPC, ThreadPC, PoolPC, Wakes
<1>102. ASSUME NEW a \in Actors, WakeClear(a) PROVE AwakeOK'
  BY <1>102, <1>1, <1>2 DEF WakeClear, At, Goto, wake, FunOK, AwakeOK, Roused, SleepPC,
     ThreadPC, PoolPC, Wakes
<1>103. ASSUME NEW a \in Actors, WakeSync(a) PROVE AwakeOK'
  <2>1. /\ sync' = [sync EXCEPT ![tgt[a]] = sync[tgt[a]] \cup {bit[a]}] /\ pc[a] = "k_sync"
        /\ pc' = [pc EXCEPT ![a] = "k_pipe"] /\ tgt' = tgt
        /\ sleeping' = sleeping /\ pipe' = pipe
    BY <1>103 DEF WakeSync, At, Goto, wake
  <2>2. SUFFICES ASSUME NEW t \in Threads, t \notin sleeping
                 PROVE  /\ pc'[t] \in SleepPC => sync'[t] # {} \/ Roused(t, {"k_sync"})'
                        /\ pc'[t] = "read" => pipe'[t] > 0 \/ Roused(t, {"k_sync", "k_pipe"})'
    BY <2>1 DEF AwakeOK
  <2>3. pc'[t] \in SleepPC => pc[t] = pc'[t]
    BY <1>1, <2>1 DEF FunOK, SleepPC
  <2>4. CASE tgt[a] = t
    <3>1. sync'[t] # {}
      BY <1>1, <2>1, <2>4 DEF FunOK
    <3>2. Roused(t, {"k_sync", "k_pipe"})'
      BY <1>1, <2>1, <2>4 DEF FunOK, Roused
    <3> QED BY <3>1, <3>2
  <2>5. CASE tgt[a] # t
    <3>1. sync'[t] = sync[t]
      BY <1>1, <2>1, <2>5 DEF FunOK
    <3>2. /\ Roused(t, {"k_sync"}) => Roused(t, {"k_sync"})'
          /\ Roused(t, {"k_sync", "k_pipe"}) => Roused(t, {"k_sync", "k_pipe"})'
      BY <1>1, <2>1, <2>5 DEF FunOK, Roused
    <3>3. pc'[t] \in SleepPC => sync[t] # {} \/ Roused(t, {"k_sync"})
      BY <1>1, <2>2, <2>3 DEF AwakeOK
    <3>4. pc'[t] = "read" => pipe[t] > 0 \/ Roused(t, {"k_sync", "k_pipe"})
      BY <1>1, <2>2, <2>3 DEF AwakeOK, SleepPC
    <3> QED BY <2>1, <3>1, <3>2, <3>3, <3>4
  <2> QED BY <2>4, <2>5
<1>104. ASSUME NEW a \in Actors, WakePipe(a) PROVE AwakeOK'
  <2>1. PICK u \in Threads : u = tgt[a]
    BY <1>1 DEF FunOK
  <2>2. /\ pipe' = [pipe EXCEPT ![u] = IF pipe[u] < PipeCap THEN pipe[u] + 1 ELSE pipe[u]]
        /\ sync' = sync /\ sleeping' = sleeping /\ pc[a] = "k_pipe"
    BY <1>104, <2>1 DEF WakePipe, At
  <2>3. pipe'[u] > 0 /\ \A t \in Threads \ {u} : pipe'[t] = pipe[t]
    <3>1. pipe \in [Threads -> 0..PipeCap] /\ PipeCap \in Nat \ {0}
      BY <1>1, IdleAssumption DEF FunOK
    <3>2. (IF pipe[u] < PipeCap THEN pipe[u] + 1 ELSE pipe[u]) > 0
      BY <2>1, <3>1
    <3> QED BY <2>2, <3>1, <3>2
  <2>4. SUFFICES ASSUME NEW t \in Threads, t \notin sleeping
                 PROVE  /\ pc'[t] \in SleepPC => sync'[t] # {} \/ Roused(t, {"k_sync"})'
                        /\ pc'[t] = "read" => pipe'[t] > 0 \/ Roused(t, {"k_sync", "k_pipe"})'
    BY <2>2 DEF AwakeOK
  <2>5. pc'[t] \in SleepPC => pc[t] = pc'[t]
    BY <1>104, <1>1, <1>2, AfterIn DEF WakePipe, Goto, FunOK, SleepPC, ThreadPC, Wakes, After
  <2>6. Roused(t, {"k_sync"}) => Roused(t, {"k_sync"})'
    BY <1>104, <1>1, <1>2, <2>2 DEF WakePipe, Goto, Aim, NoAim, FunOK, Roused
  <2>7. t # u /\ Roused(t, {"k_sync", "k_pipe"}) => Roused(t, {"k_sync", "k_pipe"})'
    BY <1>104, <1>1, <1>2, <2>1, <2>2 DEF WakePipe, Goto, Aim, NoAim, FunOK, Roused
  <2>8. /\ pc'[t] \in SleepPC => sync[t] # {} \/ Roused(t, {"k_sync"})
        /\ pc'[t] = "read" => pipe[t] > 0 \/ Roused(t, {"k_sync", "k_pipe"})
    BY <1>1, <2>4, <2>5 DEF AwakeOK, SleepPC
  <2> QED BY <2>2, <2>3, <2>6, <2>7, <2>8
<1>105. ASSUME NEW t \in Threads, Top(t) PROVE AwakeOK'
  BY <1>105, <1>1, <1>2 DEF Top, At, Goto, wake, FunOK, AwakeOK, Roused, SleepPC, ThreadPC,
     PoolPC, Wakes
<1>106. ASSUME NEW t \in Threads, Sleep(t) PROVE AwakeOK'
  BY <1>106, <1>1, <1>2 DEF Sleep, At, Goto, wake, FunOK, AwakeOK, Roused, SleepPC, ThreadPC,
     PoolPC, Wakes
<1>107. ASSUME NEW t \in Threads, Check(t) PROVE AwakeOK'
  BY <1>107, <1>1, <1>2 DEF Check, At, Goto, wake, FunOK, AwakeOK, Roused, SleepPC, ThreadPC,
     PoolPC, Wakes
<1>108. ASSUME NEW t \in Threads, SetIdle(t) PROVE AwakeOK'
  BY <1>108, <1>1, <1>2 DEF SetIdle, At, Goto, signal, wake, FunOK, AwakeOK, Roused, SleepPC,
     ThreadPC, PoolPC, Wakes
<1>109. ASSUME NEW t \in Threads, TestPending(t) PROVE AwakeOK'
  BY <1>109, <1>1, <1>2 DEF TestPending, At, Goto, signal, wake, FunOK, AwakeOK, Roused,
     SleepPC, ThreadPC, PoolPC, Wakes
<1>110. ASSUME NEW t \in Threads, Look(t) PROVE AwakeOK'
  BY <1>110, <1>1, <1>2 DEF Look, At, Goto, signal, wake, FunOK, AwakeOK, Roused, SleepPC,
     ThreadPC, PoolPC, Wakes
<1>111. ASSUME NEW t \in Threads, Decide(t) PROVE AwakeOK'
  BY <1>111, <1>1, <1>2 DEF Decide, At, Goto, signal, wake, FunOK, AwakeOK, Roused, SleepPC,
     ThreadPC, PoolPC, Wakes
<1>112. ASSUME NEW t \in Threads, Pause(t) PROVE AwakeOK'
  BY <1>112, <1>1, <1>2 DEF Pause, At, Goto, signal, wake, FunOK, AwakeOK, Roused, SleepPC,
     ThreadPC, PoolPC, Wakes
<1>113. ASSUME NEW t \in Threads, Read(t) PROVE AwakeOK'
  BY <1>113, <1>1, <1>2 DEF Read, At, Goto, wake, FunOK, AwakeOK, Roused, SleepPC, ThreadPC,
     PoolPC, Wakes
<1>114. ASSUME NEW t \in Threads, ClearIdle(t) PROVE AwakeOK'
  BY <1>114, <1>1, <1>2 DEF ClearIdle, At, Goto, signal, wake, FunOK, AwakeOK, Roused, SleepPC,
     ThreadPC, PoolPC, Wakes
<1>115. ASSUME NEW t \in Threads, NEW p \in Procs, Dispatch(t, p) PROVE AwakeOK'
  BY <1>115, <1>1, <1>2 DEF Dispatch, At, Goto, Aim, signal, wake, FunOK, AwakeOK, Roused,
     SleepPC, ThreadPC, PoolPC, Wakes
<1>116. ASSUME NEW t \in Threads, NEW p \in Procs, Steal(t, p) PROVE AwakeOK'
  BY <1>116, <1>1, <1>2 DEF Steal, At, Goto, signal, wake, FunOK, AwakeOK, Roused, SleepPC,
     ThreadPC, PoolPC, Wakes
<1>117. ASSUME NEW t \in Threads, NEW p \in Procs, Block(t, p) PROVE AwakeOK'
  BY <1>117, <1>1, <1>2 DEF Block, At, Goto, On, signal, wake, FunOK, AwakeOK, Roused, SleepPC,
     ThreadPC, PoolPC, Wakes
<1>118. ASSUME NEW t \in Threads, NEW p \in Procs, Yield(t, p) PROVE AwakeOK'
  BY <1>118, <1>1, <1>2 DEF Yield, At, Goto, On, signal, wake, FunOK, AwakeOK, Roused, SleepPC,
     ThreadPC, PoolPC, Wakes
<1>119. ASSUME NEW t \in Threads, NEW p \in Procs, Call(t, p) PROVE AwakeOK'
  BY <1>119, <1>1, <1>2 DEF Call, At, Goto, On, signal, wake, FunOK, AwakeOK, Roused, SleepPC,
     ThreadPC, PoolPC, Wakes
<1>120. ASSUME NEW t \in Threads, NEW p \in Procs, Shutdown(t, p) PROVE AwakeOK'
  BY <1>120, <1>1, <1>2 DEF Shutdown, At, Goto, On, signal, wake, FunOK, AwakeOK, Roused,
     SleepPC, ThreadPC, PoolPC, Wakes
<1>121. ASSUME NEW t \in Threads, NEW p \in Procs, Ready(t, p) PROVE AwakeOK'
  BY <1>121, <1>1, <1>2 DEF Ready, At, signal, wake, FunOK, AwakeOK, Roused, SleepPC, ThreadPC,
     PoolPC, Wakes
<1>122. ASSUME NEW t \in Threads, NEW p \in Procs, NEW u \in Threads, Mail(t, p, u)
        PROVE  AwakeOK'
  BY <1>122, <1>1, <1>2 DEF Mail, At, Goto, Aim, signal, FunOK, AwakeOK, Roused, SleepPC,
     ThreadPC, PoolPC, Wakes
<1>123. ASSUME NEW w \in Workers, Uncount(w) PROVE AwakeOK'
  BY <1>123, <1>1, <1>2 DEF Uncount, At, Goto, signal, wake, FunOK, AwakeOK, Roused, SleepPC,
     ThreadPC, PoolPC, Wakes
<1>124. ASSUME NEW w \in Workers, Mitigate(w) PROVE AwakeOK'
  BY <1>124, <1>1, <1>2 DEF Mitigate, At, Goto, Aim, signal, wake, FunOK, AwakeOK, Roused,
     SleepPC, ThreadPC, PoolPC, Wakes
<1>125. ASSUME NEW w \in Workers, NEW p \in Procs, NEW u \in Threads, Return(w, p, u)
        PROVE  AwakeOK'
  BY <1>125, <1>1, <1>2 DEF Return, At, Goto, Aim, signal, FunOK, AwakeOK, Roused, SleepPC,
     ThreadPC, PoolPC, Wakes
<1>126. ASSUME UNCHANGED vars PROVE AwakeOK'
  BY <1>126, <1>1, <1>2 DEF vars, signal, wake, FunOK, AwakeOK, Roused, SleepPC
<1> QED BY <1>100, <1>101, <1>102, <1>103, <1>104, <1>105, <1>106, <1>107, <1>108, <1>109,
   <1>110, <1>111, <1>112, <1>113, <1>114, <1>115, <1>116, <1>117, <1>118, <1>119, <1>120,
   <1>121, <1>122, <1>123, <1>124, <1>125, <1>126 DEF Next, WakeStep, SchedStep, ProgramStep,
   Leave, PoolStep, Ended

\* When all threads are idle and marked, one of them will see it.
LEMMA WatchStep ==
  ASSUME IInv, [Next]_vars PROVE WatchOK'
<1>1. FunOK /\ IdleOK /\ WatchOK
  BY DEF IInv
<1>2. /\ Threads \subseteq Nat /\ 0 \in Threads /\ Threads \cap Workers = {}
      /\ Actors = Threads \cup Workers
  BY ConstFacts
<1>100. ASSUME NEW a \in Actors, MailSync(a) PROVE WatchOK'
  BY <1>100, <1>1, <1>2 DEF MailSync, At, Goto, rest, FunOK, IdleOK, WatchOK, Watched, IdlePC,
     ThreadPC, PoolPC, Wakes
<1>101. ASSUME NEW a \in Actors, MailTest(a) PROVE WatchOK'
  BY <1>101, <1>1, <1>2, AfterIn DEF MailTest, At, Goto, signal, rest, FunOK, IdleOK, WatchOK,
     Watched, IdlePC, ThreadPC, PoolPC, Wakes
<1>102. ASSUME NEW a \in Actors, WakeClear(a) PROVE WatchOK'
  BY <1>102, <1>1, <1>2 DEF WakeClear, At, Goto, rest, FunOK, IdleOK, WatchOK, Watched, IdlePC,
     ThreadPC, PoolPC, Wakes
<1>103. ASSUME NEW a \in Actors, WakeSync(a) PROVE WatchOK'
  BY <1>103, <1>1, <1>2 DEF WakeSync, At, Goto, rest, FunOK, IdleOK, WatchOK, Watched, IdlePC,
     ThreadPC, PoolPC, Wakes
<1>104. ASSUME NEW a \in Actors, WakePipe(a) PROVE WatchOK'
  BY <1>104, <1>1, <1>2, AfterIn DEF WakePipe, At, Goto, rest, FunOK, IdleOK, WatchOK, Watched,
     IdlePC, ThreadPC, PoolPC, Wakes
<1>105. ASSUME NEW t \in Threads, Top(t) PROVE WatchOK'
  BY <1>105, <1>1, <1>2 DEF Top, At, Goto, rest, FunOK, IdleOK, WatchOK, Watched, IdlePC,
     ThreadPC, PoolPC, Wakes
<1>106. ASSUME NEW t \in Threads, Sleep(t) PROVE WatchOK'
  BY <1>106, <1>1, <1>2 DEF Sleep, At, Goto, rest, FunOK, IdleOK, WatchOK, Watched, IdlePC,
     ThreadPC, PoolPC, Wakes
<1>107. ASSUME NEW t \in Threads, Check(t) PROVE WatchOK'
  BY <1>107, <1>1, <1>2 DEF Check, At, Goto, rest, FunOK, IdleOK, WatchOK, Watched, IdlePC,
     ThreadPC, PoolPC, Wakes
<1>108. ASSUME NEW t \in Threads, SetIdle(t) PROVE WatchOK'
  BY <1>108, <1>1, <1>2 DEF SetIdle, At, Goto, signal, rest, FunOK, IdleOK, WatchOK, Watched,
     IdlePC, ThreadPC, PoolPC, Wakes
<1>109. ASSUME NEW t \in Threads, TestPending(t) PROVE WatchOK'
  BY <1>109, <1>1, <1>2 DEF TestPending, At, Goto, signal, rest, FunOK, IdleOK, WatchOK,
     Watched, IdlePC, ThreadPC, PoolPC, Wakes
<1>110. ASSUME NEW t \in Threads, Look(t) PROVE WatchOK'
  BY <1>110, <1>1, <1>2 DEF Look, At, Goto, signal, rest, FunOK, IdleOK, WatchOK, Watched,
     IdlePC, ThreadPC, PoolPC, Wakes
<1>111. ASSUME NEW t \in Threads, Decide(t) PROVE WatchOK'
  BY <1>111, <1>1, <1>2 DEF Decide, At, Goto, signal, FunOK, IdleOK, WatchOK, Watched, IdlePC,
     ThreadPC, PoolPC, Wakes
<1>112. ASSUME NEW t \in Threads, Pause(t) PROVE WatchOK'
  BY <1>112, <1>1, <1>2 DEF Pause, At, Goto, signal, rest, FunOK, IdleOK, WatchOK, Watched,
     IdlePC, ThreadPC, PoolPC, Wakes
<1>113. ASSUME NEW t \in Threads, Read(t) PROVE WatchOK'
  BY <1>113, <1>1, <1>2 DEF Read, At, Goto, rest, FunOK, IdleOK, WatchOK, Watched, IdlePC,
     ThreadPC, PoolPC, Wakes
<1>114. ASSUME NEW t \in Threads, ClearIdle(t) PROVE WatchOK'
  BY <1>114, <1>1, <1>2 DEF ClearIdle, At, Goto, signal, rest, FunOK, IdleOK, WatchOK, Watched,
     IdlePC, ThreadPC, PoolPC, Wakes
<1>115. ASSUME NEW t \in Threads, NEW p \in Procs, Dispatch(t, p) PROVE WatchOK'
  BY <1>115, <1>1, <1>2 DEF Dispatch, At, Goto, signal, rest, FunOK, IdleOK, WatchOK, Watched,
     IdlePC, ThreadPC, PoolPC, Wakes
<1>116. ASSUME NEW t \in Threads, NEW p \in Procs, Steal(t, p) PROVE WatchOK'
  BY <1>116, <1>1, <1>2 DEF Steal, At, Goto, signal, rest, FunOK, IdleOK, WatchOK, Watched,
     IdlePC, ThreadPC, PoolPC, Wakes
<1>117. ASSUME NEW t \in Threads, NEW p \in Procs, Block(t, p) PROVE WatchOK'
  BY <1>117, <1>1, <1>2 DEF Block, At, Goto, On, signal, rest, FunOK, IdleOK, WatchOK, Watched,
     IdlePC, ThreadPC, PoolPC, Wakes
<1>118. ASSUME NEW t \in Threads, NEW p \in Procs, Yield(t, p) PROVE WatchOK'
  BY <1>118, <1>1, <1>2 DEF Yield, At, Goto, On, signal, rest, FunOK, IdleOK, WatchOK, Watched,
     IdlePC, ThreadPC, PoolPC, Wakes
<1>119. ASSUME NEW t \in Threads, NEW p \in Procs, Call(t, p) PROVE WatchOK'
  BY <1>119, <1>1, <1>2 DEF Call, At, Goto, On, signal, FunOK, IdleOK, WatchOK, Watched,
     IdlePC, ThreadPC, PoolPC, Wakes
<1>120. ASSUME NEW t \in Threads, NEW p \in Procs, Shutdown(t, p) PROVE WatchOK'
  BY <1>120, <1>1, <1>2 DEF Shutdown, At, Goto, On, signal, FunOK, IdleOK, WatchOK, Watched,
     IdlePC, ThreadPC, PoolPC, Wakes
<1>121. ASSUME NEW t \in Threads, NEW p \in Procs, Ready(t, p) PROVE WatchOK'
  BY <1>121, <1>1, <1>2 DEF Ready, At, signal, rest, FunOK, IdleOK, WatchOK, Watched, IdlePC,
     ThreadPC, PoolPC, Wakes
<1>122. ASSUME NEW t \in Threads, NEW p \in Procs, NEW u \in Threads, Mail(t, p, u)
        PROVE  WatchOK'
  BY <1>122, <1>1, <1>2 DEF Mail, At, Goto, signal, rest, FunOK, IdleOK, WatchOK, Watched,
     IdlePC, ThreadPC, PoolPC, Wakes
<1>123. ASSUME NEW w \in Workers, Uncount(w) PROVE WatchOK'
  BY <1>123, <1>1, <1>2 DEF Uncount, At, Goto, signal, FunOK, IdleOK, WatchOK, Watched, IdlePC,
     ThreadPC, PoolPC, Wakes
<1>124. ASSUME NEW w \in Workers, Mitigate(w) PROVE WatchOK'
  BY <1>124, <1>1, <1>2 DEF Mitigate, At, Goto, signal, rest, FunOK, IdleOK, WatchOK, Watched,
     IdlePC, ThreadPC, PoolPC, Wakes
<1>125. ASSUME NEW w \in Workers, NEW p \in Procs, NEW u \in Threads, Return(w, p, u)
        PROVE  WatchOK'
  BY <1>125, <1>1, <1>2 DEF Return, At, Goto, signal, rest, FunOK, IdleOK, WatchOK, Watched,
     IdlePC, ThreadPC, PoolPC, Wakes
<1>126. ASSUME UNCHANGED vars PROVE WatchOK'
  BY <1>126, <1>1, <1>2 DEF vars, signal, rest, FunOK, IdleOK, WatchOK, Watched, IdlePC
<1> QED BY <1>100, <1>101, <1>102, <1>103, <1>104, <1>105, <1>106, <1>107, <1>108, <1>109,
   <1>110, <1>111, <1>112, <1>113, <1>114, <1>115, <1>116, <1>117, <1>118, <1>119, <1>120,
   <1>121, <1>122, <1>123, <1>124, <1>125, <1>126 DEF Next, WakeStep, SchedStep, ProgramStep,
   Leave, PoolStep, Ended

\* Mail is signalled.
LEMMA MailStep ==
  ASSUME IInv, [Next]_vars PROVE MailOK'
<1>1. FunOK /\ PlaceOK /\ MailOK
  BY DEF IInv
<1>2. /\ Threads \subseteq Nat /\ 0 \in Threads /\ Threads \cap Workers = {}
      /\ Actors = Threads \cup Workers
  BY ConstFacts
<1>100. ASSUME NEW a \in Actors, MailSync(a) PROVE MailOK'
  BY <1>100, <1>1, <1>2 DEF MailSync, At, Goto, prog, wake, FunOK, MailOK, MailSent, Roused,
     IdlePC, ThreadPC, PoolPC, Wakes
<1>101. ASSUME NEW a \in Actors, MailTest(a) PROVE MailOK'
  BY <1>101, <1>1, <1>2, AfterIn DEF MailTest, At, Goto, Aim, NoAim, prog, signal, wake, FunOK,
     MailOK, MailSent, Roused, IdlePC, ThreadPC, PoolPC, Wakes
<1>102. ASSUME NEW a \in Actors, WakeClear(a) PROVE MailOK'
  BY <1>102, <1>1, <1>2 DEF WakeClear, At, Goto, prog, wake, FunOK, MailOK, MailSent, Roused,
     IdlePC, ThreadPC, PoolPC, Wakes
<1>103. ASSUME NEW a \in Actors, WakeSync(a) PROVE MailOK'
  BY <1>103, <1>1, <1>2 DEF WakeSync, At, Goto, prog, wake, FunOK, MailOK, MailSent, Roused,
     IdlePC, ThreadPC, PoolPC, Wakes
<1>104. ASSUME NEW a \in Actors, WakePipe(a) PROVE MailOK'
  BY <1>104, <1>1, <1>2, AfterIn DEF WakePipe, At, Goto, Aim, NoAim, prog, FunOK, MailOK,
     MailSent, Roused, IdlePC, ThreadPC, PoolPC, Wakes
<1>105. ASSUME NEW t \in Threads, Top(t) PROVE MailOK'
  BY <1>105, <1>1, <1>2 DEF Top, At, Goto, wake, FunOK, MailOK, MailSent, Roused, IdlePC,
     ThreadPC, PoolPC, Wakes
<1>106. ASSUME NEW t \in Threads, Sleep(t) PROVE MailOK'
  BY <1>106, <1>1, <1>2 DEF Sleep, At, Goto, Mine, prog, wake, FunOK, MailOK, MailSent, Roused,
     IdlePC, ThreadPC, PoolPC, Wakes
<1>107. ASSUME NEW t \in Threads, Check(t) PROVE MailOK'
  BY <1>107, <1>1, <1>2 DEF Check, At, Goto, prog, wake, FunOK, MailOK, MailSent, Roused,
     IdlePC, ThreadPC, PoolPC, Wakes
<1>108. ASSUME NEW t \in Threads, SetIdle(t) PROVE MailOK'
  BY <1>108, <1>1, <1>2 DEF SetIdle, At, Goto, prog, signal, wake, FunOK, MailOK, MailSent,
     Roused, IdlePC, ThreadPC, PoolPC, Wakes
<1>109. ASSUME NEW t \in Threads, TestPending(t) PROVE MailOK'
  BY <1>109, <1>1, <1>2 DEF TestPending, At, Goto, prog, signal, wake, FunOK, MailOK, MailSent,
     Roused, IdlePC, ThreadPC, PoolPC, Wakes
<1>110. ASSUME NEW t \in Threads, Look(t) PROVE MailOK'
  BY <1>110, <1>1, <1>2 DEF Look, At, Goto, prog, signal, wake, FunOK, MailOK, MailSent,
     Roused, IdlePC, ThreadPC, PoolPC, Wakes
<1>111. ASSUME NEW t \in Threads, Decide(t) PROVE MailOK'
  BY <1>111, <1>1, <1>2 DEF Decide, At, Goto, prog, signal, wake, FunOK, MailOK, MailSent,
     Roused, IdlePC, ThreadPC, PoolPC, Wakes
<1>112. ASSUME NEW t \in Threads, Pause(t) PROVE MailOK'
  BY <1>112, <1>1, <1>2 DEF Pause, At, Goto, prog, signal, wake, FunOK, MailOK, MailSent,
     Roused, IdlePC, ThreadPC, PoolPC, Wakes
<1>113. ASSUME NEW t \in Threads, Read(t) PROVE MailOK'
  BY <1>113, <1>1, <1>2 DEF Read, At, Goto, prog, wake, FunOK, MailOK, MailSent, Roused,
     IdlePC, ThreadPC, PoolPC, Wakes
<1>114. ASSUME NEW t \in Threads, ClearIdle(t) PROVE MailOK'
  BY <1>114, <1>1, <1>2 DEF ClearIdle, At, Goto, prog, signal, wake, FunOK, MailOK, MailSent,
     Roused, IdlePC, ThreadPC, PoolPC, Wakes
<1>115. ASSUME NEW t \in Threads, NEW p \in Procs, Dispatch(t, p) PROVE MailOK'
  BY <1>115, <1>1, <1>2 DEF Dispatch, At, Goto, Aim, Set, Mine, signal, wake, FunOK, MailOK,
     MailSent, Roused, IdlePC, ThreadPC, PoolPC, Wakes
<1>116. ASSUME NEW t \in Threads, NEW p \in Procs, Steal(t, p) PROVE MailOK'
  BY <1>116, <1>1, <1>2 DEF Steal, At, Goto, Set, Mine, signal, wake, FunOK, MailOK, MailSent,
     Roused, IdlePC, ThreadPC, PoolPC, Wakes
<1>117. ASSUME NEW t \in Threads, NEW p \in Procs, Block(t, p) PROVE MailOK'
  BY <1>117, <1>1, <1>2 DEF Block, At, Goto, Set, On, signal, wake, FunOK, MailOK, MailSent,
     Roused, IdlePC, ThreadPC, PoolPC, Wakes
<1>118. ASSUME NEW t \in Threads, NEW p \in Procs, Yield(t, p) PROVE MailOK'
  BY <1>118, <1>1, <1>2 DEF Yield, At, Goto, Set, On, signal, wake, FunOK, MailOK, MailSent,
     Roused, IdlePC, ThreadPC, PoolPC, Wakes
<1>119. ASSUME NEW t \in Threads, NEW p \in Procs, Call(t, p) PROVE MailOK'
  BY <1>119, <1>1, <1>2 DEF Call, At, Goto, Set, On, signal, wake, FunOK, MailOK, MailSent,
     Roused, IdlePC, ThreadPC, PoolPC, Wakes
<1>120. ASSUME NEW t \in Threads, NEW p \in Procs, Shutdown(t, p) PROVE MailOK'
  BY <1>120, <1>1, <1>2 DEF Shutdown, At, Goto, Set, On, signal, wake, FunOK, MailOK, MailSent,
     Roused, IdlePC, ThreadPC, PoolPC, Wakes
<1>121. ASSUME NEW t \in Threads, NEW p \in Procs, Ready(t, p) PROVE MailOK'
  BY <1>121, <1>1, <1>2 DEF Ready, At, Set, signal, wake, FunOK, MailOK, MailSent, Roused,
     IdlePC, ThreadPC, PoolPC, Wakes
<1>122. ASSUME NEW t \in Threads, NEW p \in Procs, NEW u \in Threads, Mail(t, p, u)
        PROVE  MailOK'
  BY <1>122, <1>1, <1>2 DEF Mail, At, Goto, Aim, Set, signal, FunOK, MailOK, MailSent, Roused,
     IdlePC, ThreadPC, PoolPC, Wakes
<1>123. ASSUME NEW w \in Workers, Uncount(w) PROVE MailOK'
  BY <1>123, <1>1, <1>2 DEF Uncount, At, Goto, prog, signal, wake, FunOK, MailOK, MailSent,
     Roused, IdlePC, ThreadPC, PoolPC, Wakes
<1>124. ASSUME NEW w \in Workers, Mitigate(w) PROVE MailOK'
  BY <1>124, <1>1, <1>2 DEF Mitigate, At, Goto, Aim, prog, signal, wake, FunOK, MailOK,
     MailSent, Roused, IdlePC, ThreadPC, PoolPC, Wakes
<1>125. ASSUME NEW w \in Workers, NEW p \in Procs, NEW u \in Threads, Return(w, p, u)
        PROVE  MailOK'
  <2>1. /\ ps' = [ps EXCEPT ![p] = "mail"] /\ th' = [th EXCEPT ![p] = u] /\ pc[w] = "none"
        /\ pc' = [pc EXCEPT ![w] = "m_sync"] /\ tgt' = [tgt EXCEPT ![w] = u]
        /\ sync' = sync /\ sleeping' = sleeping
    BY <1>125 DEF Return, At, Goto, Aim, Set, signal
  <2>2. SUFFICES ASSUME NEW q \in Procs PROVE MailSent(q)'
    BY DEF MailOK
  <2>3. CASE q = p
    <3>1. th'[q] = u /\ w \in Actors /\ pc'[w] = "m_sync" /\ tgt'[w] = u
      BY <1>1, <1>2, <2>1, <2>3 DEF FunOK
    <3> QED BY <3>1 DEF MailSent, Roused
  <2>4. CASE q # p
    <3>1. ps'[q] = ps[q] /\ th'[q] = th[q] /\ th[q] \in Threads /\ pc'[th[q]] = pc[th[q]]
      BY <1>1, <1>2, <2>1, <2>2, <2>4 DEF FunOK
    <3>2. /\ Roused(th[q], {"m_sync"}) => Roused(th[q], {"m_sync"})'
          /\ Roused(th[q], {"m_sync", "m_test", "k_clear"}) =>
               Roused(th[q], {"m_sync", "m_test", "k_clear"})'
      BY <1>1, <1>2, <2>1 DEF FunOK, Roused
    <3>3. MailSent(q) /\ th'[q] = th[q]
      BY <1>1, <3>1 DEF MailOK
    <3>4. /\ sync'[th'[q]] = sync[th[q]] /\ pc'[th'[q]] = pc[th[q]]
          /\ (th'[q] \in sleeping' <=> th[q] \in sleeping)
      BY <2>1, <3>1
    <3>5. /\ Roused(th[q], {"m_sync"}) => Roused(th[q], {"m_sync"})'
          /\ Roused(th[q], {"m_sync", "m_test", "k_clear"}) =>
                Roused(th[q], {"m_sync", "m_test", "k_clear"})'
      BY <3>1, <3>2
    <3> QED BY <3>1, <3>3, <3>4, <3>5 DEF MailSent
  <2> QED BY <2>3, <2>4
<1>126. ASSUME UNCHANGED vars PROVE MailOK'
  BY <1>126, <1>1, <1>2 DEF vars, prog, signal, wake, FunOK, MailOK, MailSent, Roused, IdlePC
<1> QED BY <1>100, <1>101, <1>102, <1>103, <1>104, <1>105, <1>106, <1>107, <1>108, <1>109,
   <1>110, <1>111, <1>112, <1>113, <1>114, <1>115, <1>116, <1>117, <1>118, <1>119, <1>120,
   <1>121, <1>122, <1>123, <1>124, <1>125, <1>126 DEF Next, WakeStep, SchedStep, ProgramStep,
   Leave, PoolStep, Ended

\* Nobody has done anything yet.
LEMMA InitIInv == ASSUME Init PROVE IInv
<1>1. PICK root \in Procs :
        /\ aff \in [Procs -> Affinities]
        /\ ps = [p \in Procs |-> IF p = root THEN "queued" ELSE "blocked"]
        /\ th = [p \in Procs |-> IF p = root THEN Min(Targets(aff[p])) ELSE 0]
        /\ pc = [a \in Actors |-> IF a \in Threads THEN "top" ELSE "none"]
        /\ sync = [t \in Threads |-> {}] /\ pipe = [t \in Threads |-> 0]
        /\ sleeping = {} /\ idle = {} /\ seen = [t \in Threads |-> {}]
        /\ tgt = [a \in Actors |-> 0] /\ bit = [a \in Actors |-> "work"]
        /\ pending = 0 /\ shutdown = FALSE /\ exit = "no"
  BY DEF Init
<1>2. \A p \in Procs : Min(Targets(aff[p])) \in Threads
  <2> SUFFICES ASSUME NEW p \in Procs PROVE Min(Targets(aff[p])) \in Threads
    OBVIOUS
  <2>1. aff[p] \in Affinities
    BY <1>1
  <2>2. Targets(aff[p]) \subseteq Threads /\ Targets(aff[p]) # {}
    BY <2>1, ConstFacts DEF Targets
  <2>3. Min(Targets(aff[p])) \in Targets(aff[p])
    BY <2>2, MinIn
  <2> QED BY <2>2, <2>3
<1>3. /\ \A t \in Threads : pc[t] = "top"
      /\ \A w \in Workers : pc[w] = "none"
  BY <1>1, ConstFacts
<1>4. aff \in [Procs -> SUBSET Threads]
  BY <1>1, ConstFacts
<1>5. FunOK
  <2>1. ps \in [Procs -> {"on", "queued", "mail", "call", "blocked", "done"}]
    BY <1>1
  <2>2. th \in [Procs -> Threads]
    BY <1>1, <1>2, ConstFacts
  <2>3. /\ DOMAIN pc = Actors
        /\ (\A t \in Threads : pc[t] \in ThreadPC) /\ (\A w \in Workers : pc[w] \in PoolPC)
    BY <1>1, <1>3 DEF ThreadPC, PoolPC
  <2>4. /\ sync \in [Threads -> SUBSET {"mail", "work"}] /\ pipe \in [Threads -> 0..PipeCap]
        /\ sleeping \subseteq Threads /\ idle \subseteq Threads
        /\ seen \in [Threads -> SUBSET Threads] /\ pending \in Nat
    BY <1>1, IdleAssumption
  <2>5. tgt \in [Actors -> Threads] /\ bit \in [Actors -> {"mail", "work"}]
    BY <1>1, ConstFacts
  <2> QED BY <1>1, <1>4, <2>1, <2>2, <2>3, <2>4, <2>5 DEF FunOK
<1>6. IdleOK /\ AwakeOK
  BY <1>1, <1>3 DEF IdleOK, AwakeOK, IdlePC, SleepPC
<1>7. PlaceOK
  BY <1>1, <1>2, <1>3, ConstFacts DEF PlaceOK, RunPC, Wakes, SleepPC
<1>8. CountOK
  <2>1. InCall = {} /\ Uncounted = {}
    BY <1>1, <1>3 DEF InCall, Uncounted, Wakes
  <2> QED BY <1>1, <2>1, FS_EmptySet DEF CountOK
<1>9. WatchOK /\ MailOK
  BY <1>1, ConstFacts DEF WatchOK, MailOK, MailSent
<1> QED BY <1>5, <1>6, <1>7, <1>8, <1>9 DEF IInv

\* Every step keeps the invariant.
LEMMA StepIInv == ASSUME IInv, [Next]_vars PROVE IInv'
  BY FunStep, IdleStep, PlaceStep, CountStep, AwakeStep, WatchStep, MailStep DEF IInv

\* The words through which schedulers and the threads of the pool go idle, wake one another
\* and notice the end (kernel_scheduler, ccsp_wake_thread, bsc_cleanup_job) satisfy IInv.
THEOREM IdleInvariant == Spec => []IInv
<1>1. Init => IInv
  BY InitIInv
<1>2. IInv /\ [Next]_vars => IInv'
  BY StepIInv
<1> QED BY <1>1, <1>2, PTL DEF Spec

\* The state words, masks and locals keep their types, and bsyscalls_pending () never
\* exceeds the processes and the threads of the pool.
THEOREM IdleTypes == Spec => []TypeOK
<1>1. ASSUME IInv PROVE TypeOK
  <2>1. /\ IsFiniteSet(Procs) /\ IsFiniteSet(Workers)
        /\ InCall \subseteq Procs /\ Uncounted \subseteq Workers
    BY ConstFacts DEF InCall, Uncounted
  <2>2. /\ Cardinality(InCall) <= Cardinality(Procs)
        /\ Cardinality(Uncounted) <= Cardinality(Workers)
        /\ Cardinality(InCall) \in Nat /\ Cardinality(Uncounted) \in Nat
        /\ Cardinality(Procs) \in Nat /\ Cardinality(Workers) \in Nat
    BY <2>1, FS_Subset, FS_CardinalityType
  <2>3. pending \in 0..(Cardinality(Procs) + Cardinality(Workers))
    BY <1>1, <2>2 DEF IInv, CountOK
  <2> QED BY <1>1, <2>3 DEF IInv, FunOK, TypeOK, ThreadPC, PoolPC
<1> QED BY <1>1, IdleInvariant, PTL

\* After Y_shutdown the schedulers never all wait in read () for a byte that nobody is
\* going to write, however calls end meanwhile (bsc_cleanup_job).
THEOREM IdleNotStalled == Spec => []ShutdownNotStalled
<1>1. ASSUME IInv, shutdown, Stopped, exit = "no",
             \A t \in Threads : pc[t] = "read" /\ ~(pipe[t] > 0),
             \A w \in Workers : pc[w] = "none"
      PROVE  FALSE
  <2>1. \A t \in Threads, S \in SUBSET Wakes : ~Roused(t, S)
    BY <1>1, ConstFacts DEF Roused, Wakes
  <2>2. \A t \in Threads : t \in sleeping
    <3>1. \A t \in Threads : ~Roused(t, {"k_sync", "k_pipe"})
      BY <2>1 DEF Wakes
    <3> QED BY <1>1, <3>1 DEF IInv, AwakeOK
  <2>3. sleeping = Threads /\ idle = Threads
    BY <1>1, <2>2 DEF IInv, FunOK, IdleOK, IdlePC
  <2>4. ~Watched
    BY <1>1 DEF Watched
  <2>5. InCall = {} /\ Uncounted = {}
    BY <1>1 DEF InCall, Uncounted, Stopped, Wakes
  <2>6. pending = 0
    BY <1>1, <2>5, FS_EmptySet DEF IInv, CountOK
  <2> QED BY <1>1, <2>3, <2>4, <2>6 DEF IInv, WatchOK
<1>2. IInv => ShutdownNotStalled
  BY <1>1 DEF ShutdownNotStalled
<1> QED BY <1>2, IdleInvariant, PTL

-----------------------------------------------------------------------------
(* The end of a program without system calls                               *)

\* The case in which the masks can be trusted.
Small == Workers = {} /\ (NThreads <= 2 \/ Affinities = {{}})

\* Initially.
LEMMA InitEInv == ASSUME Small, Init PROVE EInv
<1>1. IInv
  BY InitIInv
<1>2. PICK root \in Procs : /\ aff \in [Procs -> Affinities] /\ exit = "no"
                            /\ ps = [p \in Procs |-> IF p = root THEN "queued" ELSE "blocked"]
                            /\ pc = [a \in Actors |-> IF a \in Threads THEN "top" ELSE "none"]
  BY DEF Init
<1>3. SeenOK
  BY <1>2, ConstFacts DEF SeenOK, Decides
<1>4. Unbound
  BY <1>2 DEF Unbound
<1> QED BY <1>1, <1>2, <1>3, <1>4 DEF EInv, EndSound, NoCalls

\* With one other thread, that is the one.
LEMMA TheOther ==
  ASSUME NThreads <= 2, NEW t \in Threads, NEW u \in Threads, u # t
  PROVE  \A v \in Threads : v = t \/ v = u
  BY IdleAssumption DEF Threads

\* A program that has stopped does not go on.
LEMMA StoppedStays ==
  ASSUME EInv, Stopped, [Next]_vars PROVE Stopped'
<1>1. FunOK /\ PlaceOK /\ NoCalls
  BY DEF IInv, EInv, NoCalls
<1>2. \A t \in Threads : pc[t] # "run"
  BY <1>1 DEF PlaceOK, RunPC, Stopped
<1>100. ASSUME NEW a \in Actors, MailSync(a) PROVE Stopped'
  BY <1>100, <1>1, <1>2 DEF MailSync, At, prog, FunOK, NoCalls, Stopped
<1>101. ASSUME NEW a \in Actors, MailTest(a) PROVE Stopped'
  BY <1>101, <1>1, <1>2 DEF MailTest, At, prog, FunOK, NoCalls, Stopped
<1>102. ASSUME NEW a \in Actors, WakeClear(a) PROVE Stopped'
  BY <1>102, <1>1, <1>2 DEF WakeClear, At, prog, FunOK, NoCalls, Stopped
<1>103. ASSUME NEW a \in Actors, WakeSync(a) PROVE Stopped'
  BY <1>103, <1>1, <1>2 DEF WakeSync, At, prog, FunOK, NoCalls, Stopped
<1>104. ASSUME NEW a \in Actors, WakePipe(a) PROVE Stopped'
  BY <1>104, <1>1, <1>2 DEF WakePipe, At, prog, FunOK, NoCalls, Stopped
<1>105. ASSUME NEW t \in Threads, Top(t) PROVE Stopped'
  BY <1>105, <1>1, <1>2 DEF Top, At, FunOK, NoCalls, Stopped
<1>106. ASSUME NEW t \in Threads, Sleep(t) PROVE Stopped'
  BY <1>106, <1>1, <1>2 DEF Sleep, At, Mine, prog, FunOK, NoCalls, Stopped
<1>107. ASSUME NEW t \in Threads, Check(t) PROVE Stopped'
  BY <1>107, <1>1, <1>2 DEF Check, At, prog, FunOK, NoCalls, Stopped
<1>108. ASSUME NEW t \in Threads, SetIdle(t) PROVE Stopped'
  BY <1>108, <1>1, <1>2 DEF SetIdle, At, prog, FunOK, NoCalls, Stopped
<1>109. ASSUME NEW t \in Threads, TestPending(t) PROVE Stopped'
  BY <1>109, <1>1, <1>2 DEF TestPending, At, prog, FunOK, NoCalls, Stopped
<1>110. ASSUME NEW t \in Threads, Look(t) PROVE Stopped'
  BY <1>110, <1>1, <1>2 DEF Look, At, prog, FunOK, NoCalls, Stopped
<1>111. ASSUME NEW t \in Threads, Decide(t) PROVE Stopped'
  BY <1>111, <1>1, <1>2 DEF Decide, At, prog, FunOK, NoCalls, Stopped
<1>112. ASSUME NEW t \in Threads, Pause(t) PROVE Stopped'
  BY <1>112, <1>1, <1>2 DEF Pause, At, prog, FunOK, NoCalls, Stopped
<1>113. ASSUME NEW t \in Threads, Read(t) PROVE Stopped'
  BY <1>113, <1>1, <1>2 DEF Read, At, prog, FunOK, NoCalls, Stopped
<1>114. ASSUME NEW t \in Threads, ClearIdle(t) PROVE Stopped'
  BY <1>114, <1>1, <1>2 DEF ClearIdle, At, prog, FunOK, NoCalls, Stopped
<1>115. ASSUME NEW t \in Threads, NEW p \in Procs, Dispatch(t, p) PROVE Stopped'
  BY <1>115, <1>1, <1>2 DEF Dispatch, At, Set, Mine, FunOK, NoCalls, Stopped
<1>116. ASSUME NEW t \in Threads, NEW p \in Procs, Steal(t, p) PROVE Stopped'
  BY <1>116, <1>1, <1>2 DEF Steal, At, Set, Mine, FunOK, NoCalls, Stopped
<1>117. ASSUME NEW t \in Threads, NEW p \in Procs, Block(t, p) PROVE Stopped'
  BY <1>117, <1>1, <1>2 DEF Block, At, Set, On, FunOK, NoCalls, Stopped
<1>118. ASSUME NEW t \in Threads, NEW p \in Procs, Yield(t, p) PROVE Stopped'
  BY <1>118, <1>1, <1>2 DEF Yield, At, Set, On, FunOK, NoCalls, Stopped
<1>119. ASSUME NEW t \in Threads, NEW p \in Procs, Call(t, p) PROVE Stopped'
  BY <1>119, <1>1, <1>2 DEF Call, At, Set, On, FunOK, NoCalls, Stopped
<1>120. ASSUME NEW t \in Threads, NEW p \in Procs, Shutdown(t, p) PROVE Stopped'
  BY <1>120, <1>1, <1>2 DEF Shutdown, At, Set, On, FunOK, NoCalls, Stopped
<1>121. ASSUME NEW t \in Threads, NEW p \in Procs, Ready(t, p) PROVE Stopped'
  BY <1>121, <1>1, <1>2 DEF Ready, At, Set, FunOK, NoCalls, Stopped
<1>122. ASSUME NEW t \in Threads, NEW p \in Procs, NEW u \in Threads, Mail(t, p, u)
        PROVE  Stopped'
  BY <1>122, <1>1, <1>2 DEF Mail, At, Set, FunOK, NoCalls, Stopped
<1>123. ASSUME NEW w \in Workers, Uncount(w) PROVE Stopped'
  BY <1>123, <1>1, <1>2 DEF Uncount, At, prog, FunOK, NoCalls, Stopped
<1>124. ASSUME NEW w \in Workers, Mitigate(w) PROVE Stopped'
  BY <1>124, <1>1, <1>2 DEF Mitigate, At, prog, FunOK, NoCalls, Stopped
<1>125. ASSUME NEW w \in Workers, NEW p \in Procs, NEW u \in Threads, Return(w, p, u)
        PROVE  Stopped'
  BY <1>125, <1>1, <1>2 DEF Return, At, Set, FunOK, NoCalls, Stopped
<1>126. ASSUME UNCHANGED vars PROVE Stopped'
  BY <1>126, <1>1, <1>2 DEF vars, prog, FunOK, NoCalls, Stopped
<1> QED BY <1>100, <1>101, <1>102, <1>103, <1>104, <1>105, <1>106, <1>107, <1>108, <1>109,
   <1>110, <1>111, <1>112, <1>113, <1>114, <1>115, <1>116, <1>117, <1>118, <1>119, <1>120,
   <1>121, <1>122, <1>123, <1>124, <1>125, <1>126 DEF Next, WakeStep, SchedStep, ProgramStep,
   Leave, PoolStep, Ended

\* A thread that decides has seen all threads idle before.
LEMMA DecidesStep ==
  ASSUME EInv, NEW x \in Threads, ~Look(x), ~Decides(x), [Next]_vars PROVE ~Decides(x)'
<1>1. FunOK
  BY DEF IInv, EInv, NoCalls
<1>100. ASSUME NEW a \in Actors, MailSync(a) PROVE ~Decides(x)'
  BY <1>100, <1>1, ConstFacts DEF MailSync, At, Goto, FunOK, Decides, Wakes, ThreadPC
<1>101. ASSUME NEW a \in Actors, MailTest(a) PROVE ~Decides(x)'
  BY <1>101, <1>1, ConstFacts, AfterIn DEF MailTest, At, Goto, signal, FunOK, Decides, Wakes,
     ThreadPC
<1>102. ASSUME NEW a \in Actors, WakeClear(a) PROVE ~Decides(x)'
  BY <1>102, <1>1, ConstFacts DEF WakeClear, At, Goto, FunOK, Decides, Wakes, ThreadPC
<1>103. ASSUME NEW a \in Actors, WakeSync(a) PROVE ~Decides(x)'
  BY <1>103, <1>1, ConstFacts DEF WakeSync, At, Goto, FunOK, Decides, Wakes, ThreadPC
<1>104. ASSUME NEW a \in Actors, WakePipe(a) PROVE ~Decides(x)'
  BY <1>104, <1>1, ConstFacts, AfterIn DEF WakePipe, At, Goto, FunOK, Decides, Wakes, ThreadPC
<1>105. ASSUME NEW t \in Threads, Top(t) PROVE ~Decides(x)'
  BY <1>105, <1>1, ConstFacts DEF Top, At, Goto, FunOK, Decides, Wakes, ThreadPC
<1>106. ASSUME NEW t \in Threads, Sleep(t) PROVE ~Decides(x)'
  BY <1>106, <1>1, ConstFacts DEF Sleep, At, Goto, FunOK, Decides, Wakes, ThreadPC
<1>107. ASSUME NEW t \in Threads, Check(t) PROVE ~Decides(x)'
  BY <1>107, <1>1, ConstFacts DEF Check, At, Goto, FunOK, Decides, Wakes, ThreadPC
<1>108. ASSUME NEW t \in Threads, SetIdle(t) PROVE ~Decides(x)'
  BY <1>108, <1>1, ConstFacts DEF SetIdle, At, Goto, signal, FunOK, Decides, Wakes, ThreadPC
<1>109. ASSUME NEW t \in Threads, TestPending(t) PROVE ~Decides(x)'
  BY <1>109, <1>1, ConstFacts DEF TestPending, At, Goto, signal, FunOK, Decides, Wakes,
     ThreadPC
<1>110. ASSUME NEW t \in Threads, Look(t) PROVE ~Decides(x)'
  BY <1>110, <1>1, ConstFacts DEF Look, At, Goto, signal, FunOK, Decides, Wakes, ThreadPC
<1>111. ASSUME NEW t \in Threads, Decide(t) PROVE ~Decides(x)'
  BY <1>111, <1>1, ConstFacts DEF Decide, At, Goto, signal, FunOK, Decides, Wakes, ThreadPC
<1>112. ASSUME NEW t \in Threads, Pause(t) PROVE ~Decides(x)'
  BY <1>112, <1>1, ConstFacts DEF Pause, At, Goto, signal, FunOK, Decides, Wakes, ThreadPC
<1>113. ASSUME NEW t \in Threads, Read(t) PROVE ~Decides(x)'
  BY <1>113, <1>1, ConstFacts DEF Read, At, Goto, FunOK, Decides, Wakes, ThreadPC
<1>114. ASSUME NEW t \in Threads, ClearIdle(t) PROVE ~Decides(x)'
  BY <1>114, <1>1, ConstFacts DEF ClearIdle, At, Goto, signal, FunOK, Decides, Wakes, ThreadPC
<1>115. ASSUME NEW t \in Threads, NEW p \in Procs, Dispatch(t, p) PROVE ~Decides(x)'
  BY <1>115, <1>1, ConstFacts DEF Dispatch, At, Goto, signal, FunOK, Decides, Wakes, ThreadPC
<1>116. ASSUME NEW t \in Threads, NEW p \in Procs, Steal(t, p) PROVE ~Decides(x)'
  BY <1>116, <1>1, ConstFacts DEF Steal, At, Goto, signal, FunOK, Decides, Wakes, ThreadPC
<1>117. ASSUME NEW t \in Threads, NEW p \in Procs, Block(t, p) PROVE ~Decides(x)'
  BY <1>117, <1>1, ConstFacts DEF Block, At, Goto, signal, FunOK, Decides, Wakes, ThreadPC
<1>118. ASSUME NEW t \in Threads, NEW p \in Procs, Yield(t, p) PROVE ~Decides(x)'
  BY <1>118, <1>1, ConstFacts DEF Yield, At, Goto, signal, FunOK, Decides, Wakes, ThreadPC
<1>119. ASSUME NEW t \in Threads, NEW p \in Procs, Call(t, p) PROVE ~Decides(x)'
  BY <1>119, <1>1, ConstFacts DEF Call, At, Goto, signal, FunOK, Decides, Wakes, ThreadPC
<1>120. ASSUME NEW t \in Threads, NEW p \in Procs, Shutdown(t, p) PROVE ~Decides(x)'
  BY <1>120, <1>1, ConstFacts DEF Shutdown, At, Goto, signal, FunOK, Decides, Wakes, ThreadPC
<1>121. ASSUME NEW t \in Threads, NEW p \in Procs, Ready(t, p) PROVE ~Decides(x)'
  BY <1>121, <1>1, ConstFacts DEF Ready, At, signal, FunOK, Decides, Wakes, ThreadPC
<1>122. ASSUME NEW t \in Threads, NEW p \in Procs, NEW u \in Threads, Mail(t, p, u)
        PROVE  ~Decides(x)'
  BY <1>122, <1>1, ConstFacts DEF Mail, At, Goto, signal, FunOK, Decides, Wakes, ThreadPC
<1>123. ASSUME NEW w \in Workers, Uncount(w) PROVE ~Decides(x)'
  BY <1>123, <1>1, ConstFacts DEF Uncount, At, Goto, signal, FunOK, Decides, Wakes, ThreadPC
<1>124. ASSUME NEW w \in Workers, Mitigate(w) PROVE ~Decides(x)'
  BY <1>124, <1>1, ConstFacts DEF Mitigate, At, Goto, signal, FunOK, Decides, Wakes, ThreadPC
<1>125. ASSUME NEW w \in Workers, NEW p \in Procs, NEW u \in Threads, Return(w, p, u)
        PROVE  ~Decides(x)'
  BY <1>125, <1>1, ConstFacts DEF Return, At, Goto, signal, FunOK, Decides, Wakes, ThreadPC
<1>126. ASSUME UNCHANGED vars PROVE ~Decides(x)'
  BY <1>126, <1>1, ConstFacts DEF vars, signal, FunOK, Decides
<1> QED BY <1>100, <1>101, <1>102, <1>103, <1>104, <1>105, <1>106, <1>107, <1>108, <1>109,
   <1>110, <1>111, <1>112, <1>113, <1>114, <1>115, <1>116, <1>117, <1>118, <1>119, <1>120,
   <1>121, <1>122, <1>123, <1>124, <1>125, <1>126 DEF Next, WakeStep, SchedStep, ProgramStep,
   Leave, PoolStep, Ended

\* The other of two threads is not marked as sleeping while it may have mail.
LEMMA UnmarkedStep ==
  ASSUME Small, EInv, NThreads <= 2, NEW x \in Threads, NEW y \in Threads, x # y,
         Decides(x), Decides(x)', ~Stopped, x \in sleeping, Unmarked(y), [Next]_vars
  PROVE  Unmarked(y)'
<1>1. FunOK /\ PlaceOK /\ NoCalls /\ MailOK
  BY DEF IInv, EInv, NoCalls
<1>2. \A a \in Actors : a = x \/ a = y
  BY ConstFacts, TheOther DEF Small
<1>3. \A p \in Procs : th[p] = x \/ th[p] = y
  BY <1>1, <1>2, ConstFacts DEF FunOK
<1>4. y \notin sleeping /\ y \in Threads /\ pc[x] = "decide"
  BY DEF Unmarked, Decides
<1>100. ASSUME NEW a \in Actors, MailSync(a) PROVE Unmarked(y)'
  BY <1>100, <1>1, <1>2, <1>4, ConstFacts DEF MailSync, At, Goto, prog, FunOK, NoCalls,
     Unmarked,
     MailFor, Decides, IdlePC, Targets
<1>101. ASSUME NEW a \in Actors, MailTest(a) PROVE Unmarked(y)'
  BY <1>101, <1>1, <1>2, <1>4, ConstFacts, AfterIn DEF MailTest, At, Goto, prog, signal, FunOK,
     Unmarked, MailFor, Decides, IdlePC, Targets
<1>102. ASSUME NEW a \in Actors, WakeClear(a) PROVE Unmarked(y)'
  BY <1>102, <1>1, <1>2, <1>4, ConstFacts DEF WakeClear, At, Goto, prog, FunOK, NoCalls,
     Unmarked,
     MailFor, Decides, IdlePC, Targets
<1>103. ASSUME NEW a \in Actors, WakeSync(a) PROVE Unmarked(y)'
  BY <1>103, <1>1, <1>2, <1>4, ConstFacts DEF WakeSync, At, Goto, prog, FunOK, NoCalls,
     Unmarked,
     MailFor, Decides, IdlePC, Targets
<1>104. ASSUME NEW a \in Actors, WakePipe(a) PROVE Unmarked(y)'
  BY <1>104, <1>1, <1>2, <1>4, ConstFacts, AfterIn DEF WakePipe, At, Goto, prog, FunOK,
     Unmarked, MailFor, Decides, IdlePC, Targets
<1>105. ASSUME NEW t \in Threads, Top(t) PROVE Unmarked(y)'
  <2>1. t = y /\ pc[y] = "top"
    BY <1>105, <1>2, <1>4, ConstFacts DEF Top, At
  <2>2. ~Roused(y, {"m_sync"})
    BY <1>2, <1>4, <2>1 DEF Roused
  <2>3. \A p \in Procs : ps[p] = "mail" /\ th[p] = y => "mail" \in sync[y]
    BY <1>1, <2>2 DEF MailOK, MailSent
  <2>4. ~MailFor(y)'
    BY <1>105, <1>1, <2>1, <2>3 DEF Top, MailFor, FunOK
  <2> QED BY <1>105, <1>4, <2>4 DEF Top, Unmarked
<1>106. ASSUME NEW t \in Threads, Sleep(t) PROVE Unmarked(y)'
  <2>1. t = y /\ pc[y] = "pick" /\ Mine(y) = {}
    BY <1>106, <1>2, <1>4, ConstFacts DEF Sleep, At
  <2>2. ~MailFor(y)
    BY <2>1 DEF Unmarked, IdlePC
  <2>3. \A p \in Procs : ps[p] # "on"
    BY <1>1, <1>4, <1>3, <2>1 DEF PlaceOK, RunPC, Wakes
  <2>4. \A p \in Procs : ps[p] # "queued"
    BY <1>1, <1>4, <1>3, <2>1 DEF PlaceOK, SleepPC, Mine
  <2>5. PICK p \in Procs : ps[p] = "mail"
    BY <1>1, <2>3, <2>4 DEF FunOK, NoCalls, Stopped
  <2>6. th[p] = x
    BY <1>3, <2>2, <2>5 DEF MailFor
  <2>7. ~Roused(x, {"m_sync", "m_test", "k_clear"})
    BY <1>2, <1>4, <2>1 DEF Roused
  <2>8. x \notin sleeping
    BY <1>1, <1>4, <2>5, <2>6, <2>7 DEF MailOK, MailSent, IdlePC
  <2> QED BY <2>8
<1>107. ASSUME NEW t \in Threads, Check(t) PROVE Unmarked(y)'
  BY <1>107, <1>1, <1>2, <1>4, ConstFacts DEF Check, At, Goto, prog, FunOK, NoCalls,
     Unmarked, MailFor,
     Decides, IdlePC, Targets
<1>108. ASSUME NEW t \in Threads, SetIdle(t) PROVE Unmarked(y)'
  BY <1>108, <1>1, <1>2, <1>4, ConstFacts DEF SetIdle, At, Goto, prog, signal, FunOK,
     NoCalls, Unmarked,
     MailFor, Decides, IdlePC, Targets
<1>109. ASSUME NEW t \in Threads, TestPending(t) PROVE Unmarked(y)'
  BY <1>109, <1>1, <1>2, <1>4, ConstFacts DEF TestPending, At, Goto, prog, signal, FunOK,
     Unmarked, MailFor, Decides, IdlePC, Targets
<1>110. ASSUME NEW t \in Threads, Look(t) PROVE Unmarked(y)'
  BY <1>110, <1>1, <1>2, <1>4, ConstFacts DEF Look, At, Goto, prog, signal, FunOK, NoCalls,
     Unmarked,
     MailFor, Decides, IdlePC, Targets
<1>111. ASSUME NEW t \in Threads, Decide(t) PROVE Unmarked(y)'
  BY <1>111, <1>1, <1>2, <1>4, ConstFacts DEF Decide, At, Goto, prog, signal, FunOK, NoCalls,
     Unmarked,
     MailFor, Decides, IdlePC, Targets
<1>112. ASSUME NEW t \in Threads, Pause(t) PROVE Unmarked(y)'
  BY <1>112, <1>1, <1>2, <1>4, ConstFacts DEF Pause, At, Goto, prog, signal, FunOK, NoCalls,
     Unmarked,
     MailFor, Decides, IdlePC, Targets
<1>113. ASSUME NEW t \in Threads, Read(t) PROVE Unmarked(y)'
  BY <1>113, <1>1, <1>2, <1>4, ConstFacts DEF Read, At, Goto, prog, FunOK, NoCalls, Unmarked,
     MailFor,
     Decides, IdlePC, Targets
<1>114. ASSUME NEW t \in Threads, ClearIdle(t) PROVE Unmarked(y)'
  BY <1>114, <1>1, <1>2, <1>4, ConstFacts DEF ClearIdle, At, Goto, prog, signal, FunOK,
     Unmarked, MailFor, Decides, IdlePC, Targets
<1>115. ASSUME NEW t \in Threads, NEW p \in Procs, Dispatch(t, p) PROVE Unmarked(y)'
  BY <1>115, <1>1, <1>2, <1>4, ConstFacts DEF Dispatch, At, Goto, Set, Mine, signal, FunOK,
     Unmarked, MailFor, Decides, IdlePC, Targets
<1>116. ASSUME NEW t \in Threads, NEW p \in Procs, Steal(t, p) PROVE Unmarked(y)'
  BY <1>116, <1>1, <1>2, <1>4, ConstFacts DEF Steal, At, Goto, Set, Mine, signal, FunOK,
     Unmarked, MailFor, Decides, IdlePC, Targets
<1>117. ASSUME NEW t \in Threads, NEW p \in Procs, Block(t, p) PROVE Unmarked(y)'
  BY <1>117, <1>1, <1>2, <1>4, ConstFacts DEF Block, At, Goto, Set, On, signal, FunOK,
     Unmarked, MailFor, Decides, IdlePC, Targets
<1>118. ASSUME NEW t \in Threads, NEW p \in Procs, Yield(t, p) PROVE Unmarked(y)'
  BY <1>118, <1>1, <1>2, <1>4, ConstFacts DEF Yield, At, Goto, Set, On, signal, FunOK,
     Unmarked, MailFor, Decides, IdlePC, Targets
<1>119. ASSUME NEW t \in Threads, NEW p \in Procs, Call(t, p) PROVE Unmarked(y)'
  BY <1>119, <1>1, <1>2, <1>4, ConstFacts DEF Call, At, Goto, Set, On, signal, FunOK,
     NoCalls, Unmarked,
     MailFor, Decides, IdlePC, Targets
<1>120. ASSUME NEW t \in Threads, NEW p \in Procs, Shutdown(t, p) PROVE Unmarked(y)'
  BY <1>120, <1>1, <1>2, <1>4, ConstFacts DEF Shutdown, At, Goto, Set, On, signal, FunOK,
     Unmarked, MailFor, Decides, IdlePC, Targets
<1>121. ASSUME NEW t \in Threads, NEW p \in Procs, Ready(t, p) PROVE Unmarked(y)'
  BY <1>121, <1>1, <1>2, <1>4, ConstFacts DEF Ready, At, Set, signal, FunOK, NoCalls,
     Unmarked, MailFor,
     Decides, IdlePC, Targets
<1>122. ASSUME NEW t \in Threads, NEW p \in Procs, NEW u \in Threads, Mail(t, p, u)
        PROVE  Unmarked(y)'
  BY <1>122, <1>1, <1>2, <1>4, ConstFacts DEF Mail, At, Goto, Set, signal, FunOK, NoCalls,
     Unmarked,
     MailFor, Decides, IdlePC, Targets
<1>123. ASSUME NEW w \in Workers, Uncount(w) PROVE Unmarked(y)'
  BY <1>123, <1>1, <1>2, <1>4, ConstFacts DEF Uncount, At, Goto, prog, signal, FunOK,
     NoCalls, Unmarked,
     MailFor, Decides, IdlePC, Targets
<1>124. ASSUME NEW w \in Workers, Mitigate(w) PROVE Unmarked(y)'
  BY <1>124, <1>1, <1>2, <1>4, ConstFacts DEF Mitigate, At, Goto, prog, signal, FunOK,
     Unmarked, MailFor, Decides, IdlePC, Targets
<1>125. ASSUME NEW w \in Workers, NEW p \in Procs, NEW u \in Threads, Return(w, p, u)
        PROVE  Unmarked(y)'
  BY <1>125, <1>1, <1>2, <1>4, ConstFacts DEF Return, At, Goto, Set, signal, FunOK, NoCalls,
     Unmarked,
     MailFor, Decides, IdlePC, Targets
<1>126. ASSUME UNCHANGED vars PROVE Unmarked(y)'
  BY <1>126, <1>1, <1>2, <1>4, ConstFacts DEF vars, prog, signal, FunOK, NoCalls, Unmarked,
     MailFor,
     Decides, IdlePC, Targets
<1> QED BY <1>100, <1>101, <1>102, <1>103, <1>104, <1>105, <1>106, <1>107, <1>108, <1>109,
   <1>110, <1>111, <1>112, <1>113, <1>114, <1>115, <1>116, <1>117, <1>118, <1>119, <1>120,
   <1>121, <1>122, <1>123, <1>124, <1>125, <1>126 DEF Next, WakeStep, SchedStep, ProgramStep,
   Leave, PoolStep, Ended

\* A thread that is deciding is not marked again.
LEMMA MarkedStep ==
  ASSUME EInv, NEW x \in Threads, Decides(x), x \notin sleeping, [Next]_vars
  PROVE  (x \notin sleeping)'
<1>1. FunOK
  BY DEF IInv, EInv, NoCalls
<1>100. ASSUME NEW a \in Actors, MailSync(a) PROVE (x \notin sleeping)'
  BY <1>100, <1>1, ConstFacts DEF MailSync, At, FunOK, Decides
<1>101. ASSUME NEW a \in Actors, MailTest(a) PROVE (x \notin sleeping)'
  BY <1>101, <1>1, ConstFacts DEF MailTest, At, signal, FunOK, Decides
<1>102. ASSUME NEW a \in Actors, WakeClear(a) PROVE (x \notin sleeping)'
  BY <1>102, <1>1, ConstFacts DEF WakeClear, At, FunOK, Decides
<1>103. ASSUME NEW a \in Actors, WakeSync(a) PROVE (x \notin sleeping)'
  BY <1>103, <1>1, ConstFacts DEF WakeSync, At, FunOK, Decides
<1>104. ASSUME NEW a \in Actors, WakePipe(a) PROVE (x \notin sleeping)'
  BY <1>104, <1>1, ConstFacts DEF WakePipe, At, FunOK, Decides
<1>105. ASSUME NEW t \in Threads, Top(t) PROVE (x \notin sleeping)'
  BY <1>105, <1>1, ConstFacts DEF Top, At, FunOK, Decides
<1>106. ASSUME NEW t \in Threads, Sleep(t) PROVE (x \notin sleeping)'
  BY <1>106, <1>1, ConstFacts DEF Sleep, At, FunOK, Decides
<1>107. ASSUME NEW t \in Threads, Check(t) PROVE (x \notin sleeping)'
  BY <1>107, <1>1, ConstFacts DEF Check, At, FunOK, Decides
<1>108. ASSUME NEW t \in Threads, SetIdle(t) PROVE (x \notin sleeping)'
  BY <1>108, <1>1, ConstFacts DEF SetIdle, At, signal, FunOK, Decides
<1>109. ASSUME NEW t \in Threads, TestPending(t) PROVE (x \notin sleeping)'
  BY <1>109, <1>1, ConstFacts DEF TestPending, At, signal, FunOK, Decides
<1>110. ASSUME NEW t \in Threads, Look(t) PROVE (x \notin sleeping)'
  BY <1>110, <1>1, ConstFacts DEF Look, At, signal, FunOK, Decides
<1>111. ASSUME NEW t \in Threads, Decide(t) PROVE (x \notin sleeping)'
  BY <1>111, <1>1, ConstFacts DEF Decide, At, signal, FunOK, Decides
<1>112. ASSUME NEW t \in Threads, Pause(t) PROVE (x \notin sleeping)'
  BY <1>112, <1>1, ConstFacts DEF Pause, At, signal, FunOK, Decides
<1>113. ASSUME NEW t \in Threads, Read(t) PROVE (x \notin sleeping)'
  BY <1>113, <1>1, ConstFacts DEF Read, At, FunOK, Decides
<1>114. ASSUME NEW t \in Threads, ClearIdle(t) PROVE (x \notin sleeping)'
  BY <1>114, <1>1, ConstFacts DEF ClearIdle, At, signal, FunOK, Decides
<1>115. ASSUME NEW t \in Threads, NEW p \in Procs, Dispatch(t, p) PROVE (x \notin sleeping)'
  BY <1>115, <1>1, ConstFacts DEF Dispatch, At, signal, FunOK, Decides
<1>116. ASSUME NEW t \in Threads, NEW p \in Procs, Steal(t, p) PROVE (x \notin sleeping)'
  BY <1>116, <1>1, ConstFacts DEF Steal, At, signal, FunOK, Decides
<1>117. ASSUME NEW t \in Threads, NEW p \in Procs, Block(t, p) PROVE (x \notin sleeping)'
  BY <1>117, <1>1, ConstFacts DEF Block, At, signal, FunOK, Decides
<1>118. ASSUME NEW t \in Threads, NEW p \in Procs, Yield(t, p) PROVE (x \notin sleeping)'
  BY <1>118, <1>1, ConstFacts DEF Yield, At, signal, FunOK, Decides
<1>119. ASSUME NEW t \in Threads, NEW p \in Procs, Call(t, p) PROVE (x \notin sleeping)'
  BY <1>119, <1>1, ConstFacts DEF Call, At, signal, FunOK, Decides
<1>120. ASSUME NEW t \in Threads, NEW p \in Procs, Shutdown(t, p) PROVE (x \notin sleeping)'
  BY <1>120, <1>1, ConstFacts DEF Shutdown, At, signal, FunOK, Decides
<1>121. ASSUME NEW t \in Threads, NEW p \in Procs, Ready(t, p) PROVE (x \notin sleeping)'
  BY <1>121, <1>1, ConstFacts DEF Ready, At, signal, FunOK, Decides
<1>122. ASSUME NEW t \in Threads, NEW p \in Procs, NEW u \in Threads, Mail(t, p, u)
        PROVE  (x \notin sleeping)'
  BY <1>122, <1>1, ConstFacts DEF Mail, At, signal, FunOK, Decides
<1>123. ASSUME NEW w \in Workers, Uncount(w) PROVE (x \notin sleeping)'
  BY <1>123, <1>1, ConstFacts DEF Uncount, At, signal, FunOK, Decides
<1>124. ASSUME NEW w \in Workers, Mitigate(w) PROVE (x \notin sleeping)'
  BY <1>124, <1>1, ConstFacts DEF Mitigate, At, signal, FunOK, Decides
<1>125. ASSUME NEW w \in Workers, NEW p \in Procs, NEW u \in Threads, Return(w, p, u)
        PROVE  (x \notin sleeping)'
  BY <1>125, <1>1, ConstFacts DEF Return, At, signal, FunOK, Decides
<1>126. ASSUME UNCHANGED vars PROVE (x \notin sleeping)'
  BY <1>126, <1>1, ConstFacts DEF vars, signal, FunOK, Decides
<1> QED BY <1>100, <1>101, <1>102, <1>103, <1>104, <1>105, <1>106, <1>107, <1>108, <1>109,
   <1>110, <1>111, <1>112, <1>113, <1>114, <1>115, <1>116, <1>117, <1>118, <1>119, <1>120,
   <1>121, <1>122, <1>123, <1>124, <1>125, <1>126 DEF Next, WakeStep, SchedStep, ProgramStep,
   Leave, PoolStep, Ended

\* A process that is not bound to a scheduler is never mailed.
LEMMA UnboundStep ==
  ASSUME Small, EInv, [Next]_vars PROVE Unbound'
<1>1. FunOK /\ Unbound
  BY DEF IInv, EInv, NoCalls
<1>100. ASSUME NEW a \in Actors, MailSync(a) PROVE Unbound'
  BY <1>100, <1>1, ConstFacts DEF MailSync, At, prog, FunOK, Unbound, Targets, Small
<1>101. ASSUME NEW a \in Actors, MailTest(a) PROVE Unbound'
  BY <1>101, <1>1, ConstFacts DEF MailTest, At, prog, FunOK, Unbound, Targets, Small
<1>102. ASSUME NEW a \in Actors, WakeClear(a) PROVE Unbound'
  BY <1>102, <1>1, ConstFacts DEF WakeClear, At, prog, FunOK, Unbound, Targets, Small
<1>103. ASSUME NEW a \in Actors, WakeSync(a) PROVE Unbound'
  BY <1>103, <1>1, ConstFacts DEF WakeSync, At, prog, FunOK, Unbound, Targets, Small
<1>104. ASSUME NEW a \in Actors, WakePipe(a) PROVE Unbound'
  BY <1>104, <1>1, ConstFacts DEF WakePipe, At, prog, FunOK, Unbound, Targets, Small
<1>105. ASSUME NEW t \in Threads, Top(t) PROVE Unbound'
  BY <1>105, <1>1, ConstFacts DEF Top, At, FunOK, Unbound, Targets, Small
<1>106. ASSUME NEW t \in Threads, Sleep(t) PROVE Unbound'
  BY <1>106, <1>1, ConstFacts DEF Sleep, At, Mine, prog, FunOK, Unbound, Targets, Small
<1>107. ASSUME NEW t \in Threads, Check(t) PROVE Unbound'
  BY <1>107, <1>1, ConstFacts DEF Check, At, prog, FunOK, Unbound, Targets, Small
<1>108. ASSUME NEW t \in Threads, SetIdle(t) PROVE Unbound'
  BY <1>108, <1>1, ConstFacts DEF SetIdle, At, prog, FunOK, Unbound, Targets, Small
<1>109. ASSUME NEW t \in Threads, TestPending(t) PROVE Unbound'
  BY <1>109, <1>1, ConstFacts DEF TestPending, At, prog, FunOK, Unbound, Targets, Small
<1>110. ASSUME NEW t \in Threads, Look(t) PROVE Unbound'
  BY <1>110, <1>1, ConstFacts DEF Look, At, prog, FunOK, Unbound, Targets, Small
<1>111. ASSUME NEW t \in Threads, Decide(t) PROVE Unbound'
  BY <1>111, <1>1, ConstFacts DEF Decide, At, prog, FunOK, Unbound, Targets, Small
<1>112. ASSUME NEW t \in Threads, Pause(t) PROVE Unbound'
  BY <1>112, <1>1, ConstFacts DEF Pause, At, prog, FunOK, Unbound, Targets, Small
<1>113. ASSUME NEW t \in Threads, Read(t) PROVE Unbound'
  BY <1>113, <1>1, ConstFacts DEF Read, At, prog, FunOK, Unbound, Targets, Small
<1>114. ASSUME NEW t \in Threads, ClearIdle(t) PROVE Unbound'
  BY <1>114, <1>1, ConstFacts DEF ClearIdle, At, prog, FunOK, Unbound, Targets, Small
<1>115. ASSUME NEW t \in Threads, NEW p \in Procs, Dispatch(t, p) PROVE Unbound'
  BY <1>115, <1>1, ConstFacts DEF Dispatch, At, Set, Mine, FunOK, Unbound, Targets, Small
<1>116. ASSUME NEW t \in Threads, NEW p \in Procs, Steal(t, p) PROVE Unbound'
  BY <1>116, <1>1, ConstFacts DEF Steal, At, Set, Mine, FunOK, Unbound, Targets, Small
<1>117. ASSUME NEW t \in Threads, NEW p \in Procs, Block(t, p) PROVE Unbound'
  BY <1>117, <1>1, ConstFacts DEF Block, At, Set, On, FunOK, Unbound, Targets, Small
<1>118. ASSUME NEW t \in Threads, NEW p \in Procs, Yield(t, p) PROVE Unbound'
  BY <1>118, <1>1, ConstFacts DEF Yield, At, Set, On, FunOK, Unbound, Targets, Small
<1>119. ASSUME NEW t \in Threads, NEW p \in Procs, Call(t, p) PROVE Unbound'
  BY <1>119, <1>1, ConstFacts DEF Call, At, Set, On, FunOK, Unbound, Targets, Small
<1>120. ASSUME NEW t \in Threads, NEW p \in Procs, Shutdown(t, p) PROVE Unbound'
  BY <1>120, <1>1, ConstFacts DEF Shutdown, At, Set, On, FunOK, Unbound, Targets, Small
<1>121. ASSUME NEW t \in Threads, NEW p \in Procs, Ready(t, p) PROVE Unbound'
  BY <1>121, <1>1, ConstFacts DEF Ready, At, Set, FunOK, Unbound, Targets, Small
<1>122. ASSUME NEW t \in Threads, NEW p \in Procs, NEW u \in Threads, Mail(t, p, u)
        PROVE  Unbound'
  BY <1>122, <1>1, ConstFacts DEF Mail, At, Set, FunOK, Unbound, Targets, Small
<1>123. ASSUME NEW w \in Workers, Uncount(w) PROVE Unbound'
  BY <1>123, <1>1, ConstFacts DEF Uncount, At, prog, FunOK, Unbound, Targets, Small
<1>124. ASSUME NEW w \in Workers, Mitigate(w) PROVE Unbound'
  BY <1>124, <1>1, ConstFacts DEF Mitigate, At, prog, FunOK, Unbound, Targets, Small
<1>125. ASSUME NEW w \in Workers, NEW p \in Procs, NEW u \in Threads, Return(w, p, u)
        PROVE  Unbound'
  BY <1>125, <1>1, ConstFacts DEF Return, At, Set, FunOK, Unbound, Targets, Small
<1>126. ASSUME UNCHANGED vars PROVE Unbound'
  BY <1>126, <1>1, ConstFacts DEF vars, prog, FunOK, Unbound, Targets, Small
<1> QED BY <1>100, <1>101, <1>102, <1>103, <1>104, <1>105, <1>106, <1>107, <1>108, <1>109,
   <1>110, <1>111, <1>112, <1>113, <1>114, <1>115, <1>116, <1>117, <1>118, <1>119, <1>120,
   <1>121, <1>122, <1>123, <1>124, <1>125, <1>126 DEF Next, WakeStep, SchedStep, ProgramStep,
   Leave, PoolStep, Ended

\* Without a pool there are no calls.
LEMMA NoCallStep ==
  ASSUME Small, EInv, [Next]_vars PROVE NoCalls'
<1>1. FunOK /\ NoCalls
  BY DEF IInv, EInv, NoCalls
<1>100. ASSUME NEW a \in Actors, MailSync(a) PROVE NoCalls'
  BY <1>100, <1>1, ConstFacts DEF MailSync, At, prog, NoCalls, FunOK, Small
<1>101. ASSUME NEW a \in Actors, MailTest(a) PROVE NoCalls'
  BY <1>101, <1>1, ConstFacts DEF MailTest, At, prog, NoCalls, FunOK, Small
<1>102. ASSUME NEW a \in Actors, WakeClear(a) PROVE NoCalls'
  BY <1>102, <1>1, ConstFacts DEF WakeClear, At, prog, NoCalls, FunOK, Small
<1>103. ASSUME NEW a \in Actors, WakeSync(a) PROVE NoCalls'
  BY <1>103, <1>1, ConstFacts DEF WakeSync, At, prog, NoCalls, FunOK, Small
<1>104. ASSUME NEW a \in Actors, WakePipe(a) PROVE NoCalls'
  BY <1>104, <1>1, ConstFacts DEF WakePipe, At, prog, NoCalls, FunOK, Small
<1>105. ASSUME NEW t \in Threads, Top(t) PROVE NoCalls'
  BY <1>105, <1>1, ConstFacts DEF Top, At, NoCalls, FunOK, Small
<1>106. ASSUME NEW t \in Threads, Sleep(t) PROVE NoCalls'
  BY <1>106, <1>1, ConstFacts DEF Sleep, At, Mine, prog, NoCalls, FunOK, Small
<1>107. ASSUME NEW t \in Threads, Check(t) PROVE NoCalls'
  BY <1>107, <1>1, ConstFacts DEF Check, At, prog, NoCalls, FunOK, Small
<1>108. ASSUME NEW t \in Threads, SetIdle(t) PROVE NoCalls'
  BY <1>108, <1>1, ConstFacts DEF SetIdle, At, prog, NoCalls, FunOK, Small
<1>109. ASSUME NEW t \in Threads, TestPending(t) PROVE NoCalls'
  BY <1>109, <1>1, ConstFacts DEF TestPending, At, prog, NoCalls, FunOK, Small
<1>110. ASSUME NEW t \in Threads, Look(t) PROVE NoCalls'
  BY <1>110, <1>1, ConstFacts DEF Look, At, prog, NoCalls, FunOK, Small
<1>111. ASSUME NEW t \in Threads, Decide(t) PROVE NoCalls'
  BY <1>111, <1>1, ConstFacts DEF Decide, At, prog, NoCalls, FunOK, Small
<1>112. ASSUME NEW t \in Threads, Pause(t) PROVE NoCalls'
  BY <1>112, <1>1, ConstFacts DEF Pause, At, prog, NoCalls, FunOK, Small
<1>113. ASSUME NEW t \in Threads, Read(t) PROVE NoCalls'
  BY <1>113, <1>1, ConstFacts DEF Read, At, prog, NoCalls, FunOK, Small
<1>114. ASSUME NEW t \in Threads, ClearIdle(t) PROVE NoCalls'
  BY <1>114, <1>1, ConstFacts DEF ClearIdle, At, prog, NoCalls, FunOK, Small
<1>115. ASSUME NEW t \in Threads, NEW p \in Procs, Dispatch(t, p) PROVE NoCalls'
  BY <1>115, <1>1, ConstFacts DEF Dispatch, At, Set, Mine, NoCalls, FunOK, Small
<1>116. ASSUME NEW t \in Threads, NEW p \in Procs, Steal(t, p) PROVE NoCalls'
  BY <1>116, <1>1, ConstFacts DEF Steal, At, Set, Mine, NoCalls, FunOK, Small
<1>117. ASSUME NEW t \in Threads, NEW p \in Procs, Block(t, p) PROVE NoCalls'
  BY <1>117, <1>1, ConstFacts DEF Block, At, Set, On, NoCalls, FunOK, Small
<1>118. ASSUME NEW t \in Threads, NEW p \in Procs, Yield(t, p) PROVE NoCalls'
  BY <1>118, <1>1, ConstFacts DEF Yield, At, Set, On, NoCalls, FunOK, Small
<1>119. ASSUME NEW t \in Threads, NEW p \in Procs, Call(t, p) PROVE NoCalls'
  BY <1>119, <1>1, ConstFacts DEF Call, At, Set, On, NoCalls, FunOK, Small
<1>120. ASSUME NEW t \in Threads, NEW p \in Procs, Shutdown(t, p) PROVE NoCalls'
  BY <1>120, <1>1, ConstFacts DEF Shutdown, At, Set, On, NoCalls, FunOK, Small
<1>121. ASSUME NEW t \in Threads, NEW p \in Procs, Ready(t, p) PROVE NoCalls'
  BY <1>121, <1>1, ConstFacts DEF Ready, At, Set, NoCalls, FunOK, Small
<1>122. ASSUME NEW t \in Threads, NEW p \in Procs, NEW u \in Threads, Mail(t, p, u)
        PROVE  NoCalls'
  BY <1>122, <1>1, ConstFacts DEF Mail, At, Set, NoCalls, FunOK, Small
<1>123. ASSUME NEW w \in Workers, Uncount(w) PROVE NoCalls'
  BY <1>123, <1>1, ConstFacts DEF Uncount, At, prog, NoCalls, FunOK, Small
<1>124. ASSUME NEW w \in Workers, Mitigate(w) PROVE NoCalls'
  BY <1>124, <1>1, ConstFacts DEF Mitigate, At, prog, NoCalls, FunOK, Small
<1>125. ASSUME NEW w \in Workers, NEW p \in Procs, NEW u \in Threads, Return(w, p, u)
        PROVE  NoCalls'
  BY <1>125, <1>1, ConstFacts DEF Return, At, Set, NoCalls, FunOK, Small
<1>126. ASSUME UNCHANGED vars PROVE NoCalls'
  BY <1>126, <1>1, ConstFacts DEF vars, prog, NoCalls, FunOK, Small
<1> QED BY <1>100, <1>101, <1>102, <1>103, <1>104, <1>105, <1>106, <1>107, <1>108, <1>109,
   <1>110, <1>111, <1>112, <1>113, <1>114, <1>115, <1>116, <1>117, <1>118, <1>119, <1>120,
   <1>121, <1>122, <1>123, <1>124, <1>125, <1>126 DEF Next, WakeStep, SchedStep, ProgramStep,
   Leave, PoolStep, Ended

\* The program is ended only by a thread that finds all threads idle and marked.
LEMMA EndStep ==
  ASSUME FunOK, EndSound,
         \A t \in Threads : Decides(t) /\ sleeping = Threads => Stopped, [Next]_vars
  PROVE  EndSound'
<1>100. ASSUME NEW a \in Actors, MailSync(a) PROVE EndSound'
  BY <1>100 DEF MailSync, At, prog, rest, EndSound, Stopped
<1>101. ASSUME NEW a \in Actors, MailTest(a) PROVE EndSound'
  BY <1>101 DEF MailTest, At, prog, rest, EndSound, Stopped
<1>102. ASSUME NEW a \in Actors, WakeClear(a) PROVE EndSound'
  BY <1>102 DEF WakeClear, At, prog, rest, EndSound, Stopped
<1>103. ASSUME NEW a \in Actors, WakeSync(a) PROVE EndSound'
  BY <1>103 DEF WakeSync, At, prog, rest, EndSound, Stopped
<1>104. ASSUME NEW a \in Actors, WakePipe(a) PROVE EndSound'
  BY <1>104 DEF WakePipe, At, prog, rest, EndSound, Stopped
<1>105. ASSUME NEW t \in Threads, Top(t) PROVE EndSound'
  BY <1>105 DEF Top, At, rest, EndSound, Stopped
<1>106. ASSUME NEW t \in Threads, Sleep(t) PROVE EndSound'
  BY <1>106 DEF Sleep, At, Mine, prog, rest, EndSound, Stopped
<1>107. ASSUME NEW t \in Threads, Check(t) PROVE EndSound'
  BY <1>107 DEF Check, At, prog, rest, EndSound, Stopped
<1>108. ASSUME NEW t \in Threads, SetIdle(t) PROVE EndSound'
  BY <1>108 DEF SetIdle, At, prog, rest, EndSound, Stopped
<1>109. ASSUME NEW t \in Threads, TestPending(t) PROVE EndSound'
  BY <1>109 DEF TestPending, At, prog, rest, EndSound, Stopped
<1>110. ASSUME NEW t \in Threads, Look(t) PROVE EndSound'
  BY <1>110 DEF Look, At, prog, rest, EndSound, Stopped
<1>111. ASSUME NEW t \in Threads, Decide(t) PROVE EndSound'
  <2>1. CASE seen[t] \cap sleeping = Threads
    <3>1. Decides(t) /\ sleeping = Threads
      BY <1>111, <2>1 DEF Decide, At, Decides, FunOK
    <3>2. Stopped
      BY <3>1
    <3> QED BY <1>111, <3>2 DEF Decide, prog, EndSound, Stopped
  <2>2. CASE seen[t] \cap sleeping # Threads
    BY <1>111, <2>2 DEF Decide, At, prog, EndSound, Stopped
  <2> QED BY <2>1, <2>2
<1>112. ASSUME NEW t \in Threads, Pause(t) PROVE EndSound'
  BY <1>112 DEF Pause, At, prog, rest, EndSound, Stopped
<1>113. ASSUME NEW t \in Threads, Read(t) PROVE EndSound'
  BY <1>113 DEF Read, At, prog, rest, EndSound, Stopped
<1>114. ASSUME NEW t \in Threads, ClearIdle(t) PROVE EndSound'
  BY <1>114 DEF ClearIdle, At, prog, rest, EndSound, Stopped
<1>115. ASSUME NEW t \in Threads, NEW p \in Procs, Dispatch(t, p) PROVE EndSound'
  BY <1>115 DEF Dispatch, At, Set, Mine, rest, EndSound, Stopped
<1>116. ASSUME NEW t \in Threads, NEW p \in Procs, Steal(t, p) PROVE EndSound'
  BY <1>116 DEF Steal, At, Set, Mine, rest, EndSound, Stopped
<1>117. ASSUME NEW t \in Threads, NEW p \in Procs, Block(t, p) PROVE EndSound'
  BY <1>117 DEF Block, At, Set, On, rest, EndSound, Stopped
<1>118. ASSUME NEW t \in Threads, NEW p \in Procs, Yield(t, p) PROVE EndSound'
  BY <1>118 DEF Yield, At, Set, On, rest, EndSound, Stopped
<1>119. ASSUME NEW t \in Threads, NEW p \in Procs, Call(t, p) PROVE EndSound'
  BY <1>119 DEF Call, At, Set, On, EndSound, Stopped
<1>120. ASSUME NEW t \in Threads, NEW p \in Procs, Shutdown(t, p) PROVE EndSound'
  BY <1>120 DEF Shutdown, At, Set, On, EndSound, Stopped
<1>121. ASSUME NEW t \in Threads, NEW p \in Procs, Ready(t, p) PROVE EndSound'
  BY <1>121 DEF Ready, At, Set, rest, EndSound, Stopped
<1>122. ASSUME NEW t \in Threads, NEW p \in Procs, NEW u \in Threads, Mail(t, p, u)
        PROVE  EndSound'
  BY <1>122 DEF Mail, At, Set, rest, EndSound, Stopped
<1>123. ASSUME NEW w \in Workers, Uncount(w) PROVE EndSound'
  BY <1>123 DEF Uncount, At, prog, EndSound, Stopped
<1>124. ASSUME NEW w \in Workers, Mitigate(w) PROVE EndSound'
  BY <1>124 DEF Mitigate, At, prog, rest, EndSound, Stopped
<1>125. ASSUME NEW w \in Workers, NEW p \in Procs, NEW u \in Threads, Return(w, p, u)
        PROVE  EndSound'
  BY <1>125 DEF Return, At, Set, rest, EndSound, Stopped
<1>126. ASSUME UNCHANGED vars PROVE EndSound'
  BY <1>126 DEF vars, prog, rest, EndSound, Stopped
<1> QED BY <1>100, <1>101, <1>102, <1>103, <1>104, <1>105, <1>106, <1>107, <1>108, <1>109,
   <1>110, <1>111, <1>112, <1>113, <1>114, <1>115, <1>116, <1>117, <1>118, <1>119, <1>120,
   <1>121, <1>122, <1>123, <1>124, <1>125, <1>126 DEF Next, WakeStep, SchedStep, ProgramStep,
   Leave, PoolStep, Ended

\* A thread that sees all threads idle before the program has stopped: mail is left for
\* one that is not marked as sleeping.
LEMMA LookStep ==
  ASSUME Small, EInv, ~Stopped, NEW x \in Threads, Look(x), Decides(x)'
  PROVE  NThreads <= 2 /\ (x \notin sleeping \/ \E u \in Threads \ {x} : Unmarked(u))'
<1>1. FunOK /\ PlaceOK /\ NoCalls /\ MailOK /\ IdleOK /\ Unbound
  BY DEF IInv, EInv, NoCalls
<1>2. \A a \in Actors : a \in Threads /\ pc[a] \in IdlePC
  <2>1. idle = Threads
    BY <1>1 DEF Look, Decides, FunOK
  <2> QED BY <1>1, <2>1, ConstFacts DEF IdleOK, Small
<1>3. PICK p \in Procs : ps[p] = "mail"
  <2>1. \A p \in Procs : th[p] \in Threads /\ pc[th[p]] \in IdlePC
    BY <1>1, <1>2, ConstFacts DEF FunOK
  <2>2. \A p \in Procs : ps[p] # "on" /\ ps[p] # "queued"
    BY <1>1, <2>1 DEF PlaceOK, RunPC, Wakes, SleepPC, IdlePC
  <2> QED BY <1>1, <2>2 DEF FunOK, NoCalls, Stopped
<1>4. NThreads <= 2
  BY <1>1, <1>3 DEF Small, Unbound
<1>5. ~Roused(th[p], {"m_sync", "m_test", "k_clear"})
  BY <1>2 DEF Roused, IdlePC
<1>6. th[p] \in Threads /\ th[p] \notin sleeping /\ pc[th[p]] \in IdlePC
  BY <1>1, <1>2, <1>3, <1>5, ConstFacts DEF FunOK, MailOK, MailSent
<1>7. CASE th[p] = x
  BY <1>4, <1>6, <1>7 DEF Look, signal
<1>8. CASE th[p] # x
  <2>1. Unmarked(th[p])'
    <3>1. th'[p] = th[p] /\ sleeping' = sleeping
      BY DEF Look, signal, prog
    <3>2. pc'[th[p]] = pc[th[p]]
      BY <1>1, <1>6, <1>8, ConstFacts DEF Look, Goto, FunOK
    <3> QED BY <1>6, <3>1, <3>2 DEF Unmarked
  <2> QED BY <1>4, <1>6, <1>8, <2>1 DEF Look, prog
<1> QED BY <1>7, <1>8

\* A thread that decides has seen what allows it to be trusted.
LEMMA SeenStep == ASSUME Small, EInv, [Next]_vars PROVE SeenOK'
<1> SUFFICES ASSUME NEW x \in Threads, Decides(x)', ~Stopped'
             PROVE  NThreads <= 2
                    /\ (x \notin sleeping \/ \E u \in Threads \ {x} : Unmarked(u))'
  BY DEF SeenOK
<1>1. ~Stopped
  BY StoppedStays
<1>2. CASE Look(x)
  BY <1>1, <1>2, LookStep
<1>3. CASE Decides(x)
  <2>1. /\ NThreads <= 2
        /\ x \notin sleeping \/ \E u \in Threads \ {x} : Unmarked(u)
    BY <1>1, <1>3 DEF EInv, SeenOK
  <2>2. CASE x \notin sleeping
    <3>1. x \notin sleeping'
      BY <1>3, <2>2, MarkedStep
    <3> QED BY <2>1, <3>1
  <2>3. CASE x \in sleeping
    <3>1. PICK y \in Threads \ {x} : Unmarked(y)
      BY <2>1, <2>3
    <3>2. Unmarked(y)'
      BY <1>1, <1>3, <2>1, <2>3, <3>1, UnmarkedStep
    <3> QED BY <2>1, <3>1, <3>2
  <2> QED BY <2>2, <2>3
<1> QED BY <1>2, <1>3, DecidesStep

\* Without calls, and with the masks as above.
LEMMA StepEInv == ASSUME Small, EInv, [Next]_vars PROVE EInv'
<1>1. IInv'
  BY StepIInv DEF EInv
<1>2. SeenOK'
  BY SeenStep
<1>3. EndSound'
  <2>1. FunOK /\ EndSound /\ SeenOK
    BY DEF EInv, IInv
  <2>2. \A t \in Threads : Decides(t) /\ sleeping = Threads => Stopped
    BY <2>1 DEF SeenOK, Unmarked
  <2> QED BY <2>1, <2>2, EndStep
<1> QED BY <1>1, <1>2, <1>3, UnboundStep, NoCallStep DEF EInv

\* Without system calls, and with at most two schedulers or no process bound to one, the
\* program is ended, with a deadlock report or after Y_shutdown, only when no process is
\* ready or in the mail (kernel_scheduler's test of idle_threads & sleeping_threads).
THEOREM IdleEndsStopped == ASSUME Small PROVE Spec => []EndSound
<1>1. Init => EInv
  BY InitEInv
<1>2. EInv /\ [Next]_vars => EInv'
  BY StepEInv
<1>3. EInv => EndSound
  BY DEF EInv
<1> QED BY <1>1, <1>2, <1>3, PTL DEF Spec

-----------------------------------------------------------------------------
(* The end of a program with one scheduler                                 *)

\* One scheduler is number 0.
LEMMA OneThread ==
  ASSUME NThreads = 1
  PROVE  Threads = {0} /\ 0 \in Actors /\ 0 \notin Workers
  BY ConstFacts DEF Threads

\* Initially.
LEMMA InitOInv == ASSUME NThreads = 1, Init PROVE OInv
<1>1. IInv
  BY InitIInv
<1>2. /\ pc = [a \in Actors |-> IF a \in Threads THEN "top" ELSE "none"]
      /\ sleeping = {} /\ exit = "no"
  BY DEF Init
<1>3. (\A a \in Actors : pc[a] \in {"top", "none"}) /\ pc[0] = "top"
  BY <1>2, ConstFacts
<1> QED BY <1>1, <1>2, <1>3 DEF OInv, BitOK, ZeroOK, SureOK, EndSound

\* The count is zero only if nothing is in a call.
LEMMA UncountedSome ==
  ASSUME CountOK
  PROVE  /\ Uncounted # {} \/ InCall # {} => pending > 0
         /\ pending = 0 => InCall = {} /\ Uncounted = {}
<1>1. /\ IsFiniteSet(InCall) /\ IsFiniteSet(Uncounted)
  <2>1. InCall \subseteq Procs /\ Uncounted \subseteq Workers
    BY DEF InCall, Uncounted
  <2> QED BY <2>1, ConstFacts, FS_Subset
<1>2. /\ Cardinality(InCall) \in Nat /\ Cardinality(Uncounted) \in Nat
      /\ Cardinality(InCall) = 0 => InCall = {}
      /\ Cardinality(Uncounted) = 0 => Uncounted = {}
  BY <1>1, FS_CardinalityType, FS_EmptySet
<1> QED BY <1>2 DEF CountOK

\* Who is to set the sync bit has mail in hand.
LEMMA BitStep ==
  ASSUME OInv, [Next]_vars PROVE BitOK'
<1>1. FunOK /\ BitOK
  BY DEF IInv, OInv
<1>100. ASSUME NEW a \in Actors, MailSync(a) PROVE BitOK'
  BY <1>100, <1>1, ConstFacts DEF MailSync, At, Goto, wake, FunOK, BitOK
<1>101. ASSUME NEW a \in Actors, MailTest(a) PROVE BitOK'
  BY <1>101, <1>1, ConstFacts, AfterIn DEF MailTest, At, Goto, Aim, NoAim, wake, FunOK, BitOK
<1>102. ASSUME NEW a \in Actors, WakeClear(a) PROVE BitOK'
  BY <1>102, <1>1, ConstFacts DEF WakeClear, At, Goto, wake, FunOK, BitOK
<1>103. ASSUME NEW a \in Actors, WakeSync(a) PROVE BitOK'
  BY <1>103, <1>1, ConstFacts DEF WakeSync, At, Goto, wake, FunOK, BitOK
<1>104. ASSUME NEW a \in Actors, WakePipe(a) PROVE BitOK'
  BY <1>104, <1>1, ConstFacts, AfterIn DEF WakePipe, At, Goto, Aim, NoAim, FunOK, BitOK
<1>105. ASSUME NEW t \in Threads, Top(t) PROVE BitOK'
  BY <1>105, <1>1, ConstFacts DEF Top, At, Goto, wake, FunOK, BitOK
<1>106. ASSUME NEW t \in Threads, Sleep(t) PROVE BitOK'
  BY <1>106, <1>1, ConstFacts DEF Sleep, At, Goto, wake, FunOK, BitOK
<1>107. ASSUME NEW t \in Threads, Check(t) PROVE BitOK'
  BY <1>107, <1>1, ConstFacts DEF Check, At, Goto, wake, FunOK, BitOK
<1>108. ASSUME NEW t \in Threads, SetIdle(t) PROVE BitOK'
  BY <1>108, <1>1, ConstFacts DEF SetIdle, At, Goto, wake, FunOK, BitOK
<1>109. ASSUME NEW t \in Threads, TestPending(t) PROVE BitOK'
  BY <1>109, <1>1, ConstFacts DEF TestPending, At, Goto, wake, FunOK, BitOK
<1>110. ASSUME NEW t \in Threads, Look(t) PROVE BitOK'
  BY <1>110, <1>1, ConstFacts DEF Look, At, Goto, wake, FunOK, BitOK
<1>111. ASSUME NEW t \in Threads, Decide(t) PROVE BitOK'
  BY <1>111, <1>1, ConstFacts DEF Decide, At, Goto, wake, FunOK, BitOK
<1>112. ASSUME NEW t \in Threads, Pause(t) PROVE BitOK'
  BY <1>112, <1>1, ConstFacts DEF Pause, At, Goto, wake, FunOK, BitOK
<1>113. ASSUME NEW t \in Threads, Read(t) PROVE BitOK'
  BY <1>113, <1>1, ConstFacts DEF Read, At, Goto, wake, FunOK, BitOK
<1>114. ASSUME NEW t \in Threads, ClearIdle(t) PROVE BitOK'
  BY <1>114, <1>1, ConstFacts DEF ClearIdle, At, Goto, wake, FunOK, BitOK
<1>115. ASSUME NEW t \in Threads, NEW p \in Procs, Dispatch(t, p) PROVE BitOK'
  BY <1>115, <1>1, ConstFacts DEF Dispatch, At, Goto, Aim, wake, FunOK, BitOK
<1>116. ASSUME NEW t \in Threads, NEW p \in Procs, Steal(t, p) PROVE BitOK'
  BY <1>116, <1>1, ConstFacts DEF Steal, At, Goto, wake, FunOK, BitOK
<1>117. ASSUME NEW t \in Threads, NEW p \in Procs, Block(t, p) PROVE BitOK'
  BY <1>117, <1>1, ConstFacts DEF Block, At, Goto, wake, FunOK, BitOK
<1>118. ASSUME NEW t \in Threads, NEW p \in Procs, Yield(t, p) PROVE BitOK'
  BY <1>118, <1>1, ConstFacts DEF Yield, At, Goto, wake, FunOK, BitOK
<1>119. ASSUME NEW t \in Threads, NEW p \in Procs, Call(t, p) PROVE BitOK'
  BY <1>119, <1>1, ConstFacts DEF Call, At, Goto, wake, FunOK, BitOK
<1>120. ASSUME NEW t \in Threads, NEW p \in Procs, Shutdown(t, p) PROVE BitOK'
  BY <1>120, <1>1, ConstFacts DEF Shutdown, At, Goto, wake, FunOK, BitOK
<1>121. ASSUME NEW t \in Threads, NEW p \in Procs, Ready(t, p) PROVE BitOK'
  BY <1>121, <1>1, ConstFacts DEF Ready, At, wake, FunOK, BitOK
<1>122. ASSUME NEW t \in Threads, NEW p \in Procs, NEW u \in Threads, Mail(t, p, u)
        PROVE  BitOK'
  BY <1>122, <1>1, ConstFacts DEF Mail, At, Goto, Aim, FunOK, BitOK
<1>123. ASSUME NEW w \in Workers, Uncount(w) PROVE BitOK'
  BY <1>123, <1>1, ConstFacts DEF Uncount, At, Goto, wake, FunOK, BitOK
<1>124. ASSUME NEW w \in Workers, Mitigate(w) PROVE BitOK'
  BY <1>124, <1>1, ConstFacts DEF Mitigate, At, Goto, Aim, wake, FunOK, BitOK
<1>125. ASSUME NEW w \in Workers, NEW p \in Procs, NEW u \in Threads, Return(w, p, u)
        PROVE  BitOK'
  BY <1>125, <1>1, ConstFacts DEF Return, At, Goto, Aim, FunOK, BitOK
<1>126. ASSUME UNCHANGED vars PROVE BitOK'
  BY <1>126, <1>1, ConstFacts DEF vars, wake, FunOK, BitOK
<1> QED BY <1>100, <1>101, <1>102, <1>103, <1>104, <1>105, <1>106, <1>107, <1>108, <1>109,
   <1>110, <1>111, <1>112, <1>113, <1>114, <1>115, <1>116, <1>117, <1>118, <1>119, <1>120,
   <1>121, <1>122, <1>123, <1>124, <1>125, <1>126 DEF Next, WakeStep, SchedStep, ProgramStep,
   Leave, PoolStep, Ended

\* No call begins while the only scheduler is about to decide.
LEMMA ZeroStep ==
  ASSUME NThreads = 1, OInv, [Next]_vars PROVE ZeroOK'
<1>1. FunOK /\ ZeroOK /\ CountOK
  BY DEF IInv, OInv
<1>2. Threads = {0} /\ 0 \in Actors /\ 0 \notin Workers
  BY OneThread
<1>100. ASSUME NEW a \in Actors, MailSync(a) PROVE ZeroOK'
  BY <1>100, <1>1, <1>2 DEF MailSync, At, Goto, rest, FunOK, ZeroOK, Wakes
<1>101. ASSUME NEW a \in Actors, MailTest(a) PROVE ZeroOK'
  BY <1>101, <1>1, <1>2, AfterIn DEF MailTest, At, Goto, rest, FunOK, ZeroOK, Wakes
<1>102. ASSUME NEW a \in Actors, WakeClear(a) PROVE ZeroOK'
  BY <1>102, <1>1, <1>2 DEF WakeClear, At, Goto, rest, FunOK, ZeroOK, Wakes
<1>103. ASSUME NEW a \in Actors, WakeSync(a) PROVE ZeroOK'
  BY <1>103, <1>1, <1>2 DEF WakeSync, At, Goto, rest, FunOK, ZeroOK, Wakes
<1>104. ASSUME NEW a \in Actors, WakePipe(a) PROVE ZeroOK'
  BY <1>104, <1>1, <1>2, AfterIn DEF WakePipe, At, Goto, rest, FunOK, ZeroOK, Wakes
<1>105. ASSUME NEW t \in Threads, Top(t) PROVE ZeroOK'
  BY <1>105, <1>1, <1>2 DEF Top, At, Goto, rest, FunOK, ZeroOK, Wakes
<1>106. ASSUME NEW t \in Threads, Sleep(t) PROVE ZeroOK'
  BY <1>106, <1>1, <1>2 DEF Sleep, At, Goto, rest, FunOK, ZeroOK, Wakes
<1>107. ASSUME NEW t \in Threads, Check(t) PROVE ZeroOK'
  BY <1>107, <1>1, <1>2 DEF Check, At, Goto, rest, FunOK, ZeroOK, Wakes
<1>108. ASSUME NEW t \in Threads, SetIdle(t) PROVE ZeroOK'
  BY <1>108, <1>1, <1>2 DEF SetIdle, At, Goto, rest, FunOK, ZeroOK, Wakes
<1>109. ASSUME NEW t \in Threads, TestPending(t) PROVE ZeroOK'
  BY <1>109, <1>1, <1>2 DEF TestPending, At, Goto, rest, FunOK, ZeroOK, Wakes
<1>110. ASSUME NEW t \in Threads, Look(t) PROVE ZeroOK'
  BY <1>110, <1>1, <1>2 DEF Look, At, Goto, rest, FunOK, ZeroOK, Wakes
<1>111. ASSUME NEW t \in Threads, Decide(t) PROVE ZeroOK'
  BY <1>111, <1>1, <1>2 DEF Decide, At, Goto, FunOK, ZeroOK, Wakes
<1>112. ASSUME NEW t \in Threads, Pause(t) PROVE ZeroOK'
  BY <1>112, <1>1, <1>2 DEF Pause, At, Goto, rest, FunOK, ZeroOK, Wakes
<1>113. ASSUME NEW t \in Threads, Read(t) PROVE ZeroOK'
  BY <1>113, <1>1, <1>2 DEF Read, At, Goto, rest, FunOK, ZeroOK, Wakes
<1>114. ASSUME NEW t \in Threads, ClearIdle(t) PROVE ZeroOK'
  BY <1>114, <1>1, <1>2 DEF ClearIdle, At, Goto, rest, FunOK, ZeroOK, Wakes
<1>115. ASSUME NEW t \in Threads, NEW p \in Procs, Dispatch(t, p) PROVE ZeroOK'
  BY <1>115, <1>1, <1>2 DEF Dispatch, At, Goto, rest, FunOK, ZeroOK, Wakes
<1>116. ASSUME NEW t \in Threads, NEW p \in Procs, Steal(t, p) PROVE ZeroOK'
  BY <1>116, <1>1, <1>2 DEF Steal, At, Goto, rest, FunOK, ZeroOK, Wakes
<1>117. ASSUME NEW t \in Threads, NEW p \in Procs, Block(t, p) PROVE ZeroOK'
  BY <1>117, <1>1, <1>2 DEF Block, At, Goto, On, rest, FunOK, ZeroOK, Wakes
<1>118. ASSUME NEW t \in Threads, NEW p \in Procs, Yield(t, p) PROVE ZeroOK'
  BY <1>118, <1>1, <1>2 DEF Yield, At, Goto, On, rest, FunOK, ZeroOK, Wakes
<1>119. ASSUME NEW t \in Threads, NEW p \in Procs, Call(t, p) PROVE ZeroOK'
  BY <1>119, <1>1, <1>2 DEF Call, At, Goto, On, FunOK, ZeroOK, Wakes
<1>120. ASSUME NEW t \in Threads, NEW p \in Procs, Shutdown(t, p) PROVE ZeroOK'
  BY <1>120, <1>1, <1>2 DEF Shutdown, At, Goto, On, FunOK, ZeroOK, Wakes
<1>121. ASSUME NEW t \in Threads, NEW p \in Procs, Ready(t, p) PROVE ZeroOK'
  BY <1>121, <1>1, <1>2 DEF Ready, At, rest, FunOK, ZeroOK, Wakes
<1>122. ASSUME NEW t \in Threads, NEW p \in Procs, NEW u \in Threads, Mail(t, p, u)
        PROVE  ZeroOK'
  BY <1>122, <1>1, <1>2 DEF Mail, At, Goto, rest, FunOK, ZeroOK, Wakes
<1>123. ASSUME NEW w \in Workers, Uncount(w) PROVE ZeroOK'
  <2>1. pending > 0
    <3>1. w \in Uncounted
      BY <1>123 DEF Uncount, At, Uncounted
    <3> QED BY <1>1, <3>1, UncountedSome
  <2> QED BY <1>123, <1>1, <1>2, <2>1 DEF Uncount, At, Goto, FunOK, ZeroOK
<1>124. ASSUME NEW w \in Workers, Mitigate(w) PROVE ZeroOK'
  BY <1>124, <1>1, <1>2 DEF Mitigate, At, Goto, rest, FunOK, ZeroOK, Wakes
<1>125. ASSUME NEW w \in Workers, NEW p \in Procs, NEW u \in Threads, Return(w, p, u)
        PROVE  ZeroOK'
  BY <1>125, <1>1, <1>2 DEF Return, At, Goto, rest, FunOK, ZeroOK, Wakes
<1>126. ASSUME UNCHANGED vars PROVE ZeroOK'
  BY <1>126, <1>1, <1>2 DEF vars, rest, FunOK, ZeroOK
<1> QED BY <1>100, <1>101, <1>102, <1>103, <1>104, <1>105, <1>106, <1>107, <1>108, <1>109,
   <1>110, <1>111, <1>112, <1>113, <1>114, <1>115, <1>116, <1>117, <1>118, <1>119, <1>120,
   <1>121, <1>122, <1>123, <1>124, <1>125, <1>126 DEF Next, WakeStep, SchedStep, ProgramStep,
   Leave, PoolStep, Ended

\* Mail that the only scheduler would not see comes with the end of a call.
LEMMA SureStep ==
  ASSUME NThreads = 1, OInv, [Next]_vars PROVE SureOK'
<1>1. FunOK /\ SureOK /\ BitOK /\ MailOK
  BY DEF IInv, OInv
<1>2. Threads = {0} /\ 0 \in Actors /\ 0 \notin Workers
  BY OneThread
<1>100. ASSUME NEW a \in Actors, MailSync(a) PROVE SureOK'
  BY <1>100, <1>1, <1>2, ConstFacts DEF MailSync, At, Goto, prog, wake, FunOK, SureOK, MailFor,
     IdlePC
<1>101. ASSUME NEW a \in Actors, MailTest(a) PROVE SureOK'
  BY <1>101, <1>1, <1>2, ConstFacts, AfterIn DEF MailTest, At, Goto, Aim, NoAim, prog, signal,
     wake, FunOK, SureOK, MailFor, IdlePC
<1>102. ASSUME NEW a \in Actors, WakeClear(a) PROVE SureOK'
  BY <1>102, <1>1, <1>2, ConstFacts DEF WakeClear, At, Goto, prog, wake, FunOK, SureOK,
     MailFor, IdlePC
<1>103. ASSUME NEW a \in Actors, WakeSync(a) PROVE SureOK'
  BY <1>103, <1>1, <1>2, ConstFacts DEF WakeSync, At, Goto, prog, wake, FunOK, SureOK, MailFor,
     IdlePC
<1>104. ASSUME NEW a \in Actors, WakePipe(a) PROVE SureOK'
  BY <1>104, <1>1, <1>2, ConstFacts, AfterIn DEF WakePipe, At, Goto, Aim, NoAim, prog, FunOK,
     SureOK, MailFor, IdlePC
<1>105. ASSUME NEW t \in Threads, Top(t) PROVE SureOK'
  BY <1>105, <1>1, <1>2, ConstFacts DEF Top, At, Goto, wake, FunOK, SureOK, MailFor, IdlePC
<1>106. ASSUME NEW t \in Threads, Sleep(t) PROVE SureOK'
  BY <1>106, <1>1, <1>2, ConstFacts DEF Sleep, At, Goto, Mine, prog, wake, FunOK, SureOK,
     MailFor, IdlePC
<1>107. ASSUME NEW t \in Threads, Check(t) PROVE SureOK'
  <2>1. CASE sync[t] = {} /\ MailFor(0)
    <3>1. PICK p \in Procs : ps[p] = "mail" /\ th[p] = 0
      BY <2>1 DEF MailFor
    <3>2. PICK a \in Actors : pc[a] = "m_sync"
      BY <1>107, <1>1, <1>2, <2>1, <3>1 DEF MailOK, MailSent, Roused
    <3>3. a \in Workers /\ bit[a] = "mail"
      BY <1>107, <1>1, <1>2, <3>2, ConstFacts DEF Check, At, BitOK
    <3>4. pc'[a] = "m_sync" /\ bit'[a] = "mail"
      BY <1>107, <1>1, <1>2, <2>1, <3>2, <3>3 DEF Check, At, Goto, wake, FunOK
    <3> QED BY <3>3, <3>4 DEF SureOK
  <2>2. CASE sync[t] = {} /\ ~MailFor(0)
    BY <1>107, <2>2 DEF Check, prog, SureOK, MailFor
  <2>3. CASE sync[t] # {}
    BY <1>107, <1>1, <1>2, <2>3 DEF Check, SureOK
  <2> QED BY <2>1, <2>2, <2>3
<1>108. ASSUME NEW t \in Threads, SetIdle(t) PROVE SureOK'
  BY <1>108, <1>1, <1>2, ConstFacts DEF SetIdle, At, Goto, prog, signal, wake, FunOK, SureOK,
     MailFor, IdlePC
<1>109. ASSUME NEW t \in Threads, TestPending(t) PROVE SureOK'
  BY <1>109, <1>1, <1>2, ConstFacts DEF TestPending, At, Goto, prog, signal, wake, FunOK,
     SureOK, MailFor, IdlePC
<1>110. ASSUME NEW t \in Threads, Look(t) PROVE SureOK'
  BY <1>110, <1>1, <1>2, ConstFacts DEF Look, At, Goto, prog, signal, wake, FunOK, SureOK,
     MailFor, IdlePC
<1>111. ASSUME NEW t \in Threads, Decide(t) PROVE SureOK'
  BY <1>111, <1>1, <1>2, ConstFacts DEF Decide, At, Goto, prog, signal, wake, FunOK, SureOK,
     MailFor, IdlePC
<1>112. ASSUME NEW t \in Threads, Pause(t) PROVE SureOK'
  BY <1>112, <1>1, <1>2, ConstFacts DEF Pause, At, Goto, prog, signal, wake, FunOK, SureOK,
     MailFor, IdlePC
<1>113. ASSUME NEW t \in Threads, Read(t) PROVE SureOK'
  BY <1>113, <1>1, <1>2, ConstFacts DEF Read, At, Goto, prog, wake, FunOK, SureOK, MailFor,
     IdlePC
<1>114. ASSUME NEW t \in Threads, ClearIdle(t) PROVE SureOK'
  BY <1>114, <1>1, <1>2, ConstFacts DEF ClearIdle, At, Goto, prog, signal, wake, FunOK, SureOK,
     MailFor, IdlePC
<1>115. ASSUME NEW t \in Threads, NEW p \in Procs, Dispatch(t, p) PROVE SureOK'
  BY <1>115, <1>1, <1>2, ConstFacts DEF Dispatch, At, Goto, Aim, Set, Mine, signal, wake,
     FunOK, SureOK, MailFor, IdlePC
<1>116. ASSUME NEW t \in Threads, NEW p \in Procs, Steal(t, p) PROVE SureOK'
  BY <1>116, <1>1, <1>2, ConstFacts DEF Steal, At, Goto, Set, Mine, signal, wake, FunOK,
     SureOK, MailFor, IdlePC
<1>117. ASSUME NEW t \in Threads, NEW p \in Procs, Block(t, p) PROVE SureOK'
  BY <1>117, <1>1, <1>2, ConstFacts DEF Block, At, Goto, Set, On, signal, wake, FunOK, SureOK,
     MailFor, IdlePC
<1>118. ASSUME NEW t \in Threads, NEW p \in Procs, Yield(t, p) PROVE SureOK'
  BY <1>118, <1>1, <1>2, ConstFacts DEF Yield, At, Goto, Set, On, signal, wake, FunOK, SureOK,
     MailFor, IdlePC
<1>119. ASSUME NEW t \in Threads, NEW p \in Procs, Call(t, p) PROVE SureOK'
  BY <1>119, <1>1, <1>2, ConstFacts DEF Call, At, Goto, Set, On, signal, wake, FunOK, SureOK,
     MailFor, IdlePC
<1>120. ASSUME NEW t \in Threads, NEW p \in Procs, Shutdown(t, p) PROVE SureOK'
  BY <1>120, <1>1, <1>2, ConstFacts DEF Shutdown, At, Goto, Set, On, signal, wake, FunOK,
     SureOK, MailFor, IdlePC
<1>121. ASSUME NEW t \in Threads, NEW p \in Procs, Ready(t, p) PROVE SureOK'
  BY <1>121, <1>1, <1>2, ConstFacts DEF Ready, At, Set, signal, wake, FunOK, SureOK, MailFor,
     IdlePC
<1>122. ASSUME NEW t \in Threads, NEW p \in Procs, NEW u \in Threads, Mail(t, p, u)
        PROVE  SureOK'
  BY <1>122, <1>1, <1>2 DEF Mail, Targets, FunOK
<1>123. ASSUME NEW w \in Workers, Uncount(w) PROVE SureOK'
  BY <1>123, <1>1, <1>2, ConstFacts DEF Uncount, At, Goto, prog, signal, wake, FunOK, SureOK,
     MailFor, IdlePC
<1>124. ASSUME NEW w \in Workers, Mitigate(w) PROVE SureOK'
  BY <1>124, <1>1, <1>2, ConstFacts DEF Mitigate, At, Goto, Aim, prog, signal, wake, FunOK,
     SureOK, MailFor, IdlePC
<1>125. ASSUME NEW w \in Workers, NEW p \in Procs, NEW u \in Threads, Return(w, p, u)
        PROVE  SureOK'
  <2>1. pc'[w] = "m_sync" /\ bit'[w] = "mail"
    BY <1>125, <1>1, <1>2, ConstFacts DEF Return, Goto, Aim, FunOK
  <2> QED BY <2>1 DEF SureOK
<1>126. ASSUME UNCHANGED vars PROVE SureOK'
  BY <1>126, <1>1, <1>2, ConstFacts DEF vars, prog, signal, wake, FunOK, SureOK, MailFor,
     IdlePC
<1> QED BY <1>100, <1>101, <1>102, <1>103, <1>104, <1>105, <1>106, <1>107, <1>108, <1>109,
   <1>110, <1>111, <1>112, <1>113, <1>114, <1>115, <1>116, <1>117, <1>118, <1>119, <1>120,
   <1>121, <1>122, <1>123, <1>124, <1>125, <1>126 DEF Next, WakeStep, SchedStep, ProgramStep,
   Leave, PoolStep, Ended

\* Every step keeps the invariant.
LEMMA StepOInv == ASSUME NThreads = 1, OInv, [Next]_vars PROVE OInv'
<1>1. IInv'
  BY StepIInv DEF OInv
<1>2. ASSUME NEW t \in Threads, Decides(t), sleeping = Threads PROVE Stopped
  <2>1. FunOK /\ PlaceOK /\ CountOK /\ ZeroOK /\ SureOK /\ Threads = {0}
    BY OneThread DEF OInv, IInv
  <2>2. pc[0] = "decide" /\ pending = 0 /\ 0 \in sleeping
    BY <1>2, <2>1 DEF Decides, ZeroOK
  <2>3. InCall = {} /\ Uncounted = {}
    BY <2>1, <2>2, UncountedSome
  <2>4. ~MailFor(0)
    BY <2>1, <2>2, <2>3 DEF SureOK, IdlePC, Uncounted, Wakes
  <2>5. \A p \in Procs : th[p] = 0
    BY <2>1 DEF FunOK
  <2>6. \A p \in Procs : ps[p] \notin {"on", "queued", "mail", "call"}
    BY <2>1, <2>2, <2>3, <2>4, <2>5 DEF PlaceOK, RunPC, Wakes, SleepPC, MailFor, InCall
  <2> QED BY <2>1, <2>6 DEF FunOK, Stopped
<1>3. EndSound'
  BY <1>2, EndStep DEF OInv, IInv
<1> QED BY <1>1, <1>3, BitStep, ZeroStep, SureStep DEF OInv

\* With one scheduler, whatever calls are made, the program is ended only when no process is
\* ready, in the mail or in a call (kernel_scheduler's test of bsyscalls_pending () and of
\* the masks).
THEOREM IdleOneEndsStopped == ASSUME NThreads = 1 PROVE Spec => []EndSound
<1>1. Init => OInv
  BY InitOInv
<1>2. OInv /\ [Next]_vars => OInv'
  BY StepOInv
<1>3. OInv => EndSound
  BY DEF OInv
<1> QED BY <1>1, <1>2, <1>3, PTL DEF Spec
=============================================================================
