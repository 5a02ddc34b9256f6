---------------------------- MODULE BarrierProof ----------------------------
(***************************************************************************)
(* Proofs about Barrier, for any number of threads and any finite set of   *)
(* processes.                                                              *)
(*                                                                         *)
(* The argument: while a process that has called bar_sync or bar_resign is *)
(* not counted, the phase cannot end, so the tag it has read stays right.  *)
(* A completion starts when nobody is left who could call; every head is   *)
(* then of the old phase and has its bit set.  From there on a head of the *)
(* old phase is on the list of the completing thread, and one of the new   *)
(* phase has its bit set again (HeadsOK).  Each enrolled process is in one *)
(* place (PlacesOK), those that have come are in the heads of the current  *)
(* phase (SyncedOK), and the count is that of the others (CountOK).        *)
(***************************************************************************)
EXTENDS Barrier, FiniteSetTheorems, TLAPS

\* The labels of a process that calls, and of a thread that completes.
CallPC == {"head", "swap", "bit", "set", "join", "count", "resign", "rheads", "rlast", "rnone"}
DonePC == {"heads", "clear", "other", "own", "cas", "test", "next", "end"}

LocalsOK ==
  \A t \in Threads :
    /\ pc[t] = "idle" => cur[t] = None /\ tag[t] = None
    /\ pc[t] \in CallPC => cur[t] # None /\ tag[t] = None
    /\ pc[t] \in DonePC => cur[t] = None /\ tag[t] # None
    /\ pc[t] \in {"add", "release"} => (cur[t] = None <=> tag[t] # None)
    /\ idx[t] # None => tag[t] # None /\ pc[t] \in {"own", "cas", "add", "release", "other"}
    /\ pc[t] \in {"own", "cas"} => idx[t] # None
    /\ snap[t] # {} => /\ tag[t] # None
                       /\ pc[t] \in {"clear", "other", "own", "cas", "add", "release"}
    /\ taken[t] # {} => pc[t] \in {"add", "release"}

\* Whoever calls or completes has the tag of the phase; a completion starts
\* when all have come.
PhaseOK ==
  /\ OneCompleter
  /\ \A t \in Threads :
       /\ tag[t] # None => tag[t] = state.tag
       /\ cur[t] # None => st[t].tag = state.tag /\ (state.syncing => st[t].syncing)
       /\ pc[t] \in {"test", "next"} => st[t] = Completing(tag[t])
       /\ pc[t] = "heads" => ready = {} /\ \A u \in Threads \ {t} : pc[u] = "idle"
       /\ pc[t] \in {"rlast", "next"} => heads # {}

\* The last process resigns with the state it has tested.
ResignOK == \A t \in Threads : pc[t] \in {"rheads", "rlast", "rnone"} => Last(st[t], 1)

\* The head of t is the completing thread's own and has been taken.
OwnTaken(t) == tag[t] # None /\ idx[t] = None /\ pc[t] \in {"add", "release", "clear"}

\* The head of t is of the phase before: some thread completes it.
Listed(t) ==
  \/ OwnTaken(t)
  \/ \E c \in Threads : \/ pc[c] = "heads" /\ t \in heads
                        \/ t \in snap[c]
                        \/ pc[c] = "cas" /\ idx[c] = t

New(t) == head[t] # None /\ head[t].tag = state.tag
Old(t) == head[t] # None /\ head[t].tag # state.tag

HeadOK(t) ==
  /\ head[t] # None => head[t].ps # {} \/ pc[t] = "join"
  /\ New(t) => t \in heads /\ \A c \in Threads : pc[c] # "heads"
  /\ Old(t) => NextTag(head[t].tag) = state.tag /\ Listed(t)
  /\ Old(t) /\ t \in heads => \E c \in Threads : pc[c] = "heads"
  /\ t \in heads /\ head[t] = None => pc[t] = "set"
  /\ OwnTaken(t) => Old(t)
  /\ pc[t] \in {"bit", "set"} => head[t] = None
  /\ pc[t] \in {"add", "release"} /\ tag[t] = None => head[t] = None
  /\ pc[t] = "set" => t \in heads
  /\ pc[t] = "swap" => ~New(t)
  /\ pc[t] = "join" => New(t)
  /\ pc[t] = "count" => New(t) /\ cur[t] \in head[t].ps

\* The head that the completing thread c looks at.
ScanOK(c) == /\ pc[c] = "cas" => hd[c] \in Tags /\ NextTag(hd[c]) = state.tag
             /\ pc[c] = "own" => New(idx[c])

HeadsOK == \A t \in Threads : HeadOK(t) /\ ScanOK(t)

\* Where a process can be.
Live(t)      == head[t] # None /\ ~OwnTaken(t)
InHead(p, t) == Live(t) /\ p \in head[t].ps

CallerPlace ==
  \A t \in Threads : cur[t] # None =>
    cur[t] \in enrolled \ ready /\ \A u \in Threads : cur[u] = cur[t] => u = t

TakenPlace ==
  \A t \in Threads : \A p \in taken[t] :
    p \in enrolled \ ready /\ \A u \in Threads : cur[u] # p /\ (p \in taken[u] => u = t)

HeadPlace ==
  \A t \in Threads, p \in Procs : InHead(p, t) =>
    /\ p \in enrolled \ ready
    /\ \A u \in Threads : /\ p \notin taken[u] /\ (InHead(p, u) => u = t)
                          /\ cur[u] = p => u = t /\ pc[u] = "count"

SomePlace ==
  \A p \in enrolled :
    p \in ready \/ \E t \in Threads : cur[t] = p \/ InHead(p, t) \/ p \in taken[t]

PlacesOK == CallerPlace /\ TakenPlace /\ HeadPlace /\ SomePlace

\* Those that have come are in the heads of this phase.
SyncedOK ==
  /\ \A p \in synced : \E t \in Threads : New(t) /\ p \in head[t].ps
  /\ \A t \in Threads : New(t) => \A p \in head[t].ps : p \in synced \/ cur[t] = p
  /\ \A t \in Threads : cur[t] \notin synced

\* Those that have still to come and are in the count.
Called   == {cur[t] : t \in Calling}
Released == UNION {taken[t] : t \in {u \in Threads : pc[u] = "release"}}
Due      == ready \cup Called \cup Released
CountOK  == state.count = (IF state.syncing THEN 1 ELSE 0) + Cardinality(Due)

BInv == TypeOK /\ LocalsOK /\ PhaseOK /\ ResignOK /\ HeadsOK /\ PlacesOK /\ SyncedOK /\ CountOK

-----------------------------------------------------------------------------
LEMMA ConstFacts ==
  /\ None \notin Procs /\ None \notin Tags /\ None \notin Threads
  /\ \A g \in Tags : \A P \in SUBSET Procs : [tag |-> g, ps |-> P] # None
  /\ \A g \in Tags : NextTag(g) \in Tags /\ NextTag(g) # g
  /\ \A g, h \in Tags : NextTag(g) = NextTag(h) => g = h
  BY BarrierAssumption DEF Threads, Tags, NextTag

LEMMA LeastNatural ==
  ASSUME NEW T, T \subseteq Nat, T # {} PROVE \E x \in T : \A y \in T : x <= y
<1> DEFINE R == OpToRel(<, Nat)
<1>1. \E x \in T : \A y \in T : ~ (<<y, x>> \in R)
  <2> HIDE DEF R
  <2>1. IsWellFoundedOn(R, Nat)
    BY NatLessThanWellFounded DEF R
  <2> QED BY <2>1, WFMin
<1>2. PICK x \in T : \A y \in T : ~ (<<y, x>> \in R)
  BY <1>1
<1>3. ASSUME NEW y \in T PROVE x <= y
  <2>1. ~(<<y, x>> \in {ss \in Nat \X Nat : ss[1] < ss[2]})
    BY <1>2 DEF OpToRel
  <2>2. ~(y < x)
    BY <2>1
  <2> QED BY <2>2
<1> QED BY <1>3

\* The head that bar_complete looks at next.
LEMMA NextHead ==
  ASSUME TypeOK, NEW t \in Threads, snap[t] # {}
  PROVE  (CHOOSE u \in snap[t] : \A v \in snap[t] : u <= v) \in snap[t]
<1>1. \E u \in snap[t] : \A v \in snap[t] : u <= v
  <2>1. snap[t] \subseteq Nat
    BY BarrierAssumption DEF TypeOK, Threads
  <2> QED BY <2>1, LeastNatural
<1> QED BY <1>1

LEMMA LocalsStep == BInv /\ [Next]_vars => LocalsOK'
<1> SUFFICES ASSUME BInv, [Next]_vars PROVE LocalsOK'
  OBVIOUS
<1> USE ConstFacts DEF BInv, TypeOK, LocalsOK, CallPC, DonePC, Set, To, shared, member, local
<1>1. CASE UNCHANGED vars
  BY <1>1 DEF vars, shared, member, local
<1>2. CASE Enroll
  BY <1>2 DEF Enroll
<1>3. ASSUME NEW t \in Threads, Sync(t) \/ Resign(t) \/ Step(t) PROVE LocalsOK'
  <2>1. CASE Sync(t) BY <2>1 DEF Sync
  <2>2. CASE Resign(t) BY <2>2 DEF Resign
  <2>3. CASE ReadHead(t) BY <2>3 DEF ReadHead
  <2>4. CASE SwapOld(t) BY <2>4 DEF SwapOld
  <2>5. CASE SetBit(t) BY <2>5 DEF SetBit
  <2>6. CASE SetHead(t) BY <2>6 DEF SetHead
  <2>7. CASE Join(t) BY <2>7 DEF Join
  <2>8. CASE Count(t) BY <2>8 DEF Count, States
  <2>9. CASE ResignHeads(t) BY <2>9 DEF ResignHeads
  <2>10. CASE ResignCas(t) BY <2>10 DEF ResignCas, Resigned, States
  <2>11. CASE AddCount(t) BY <2>11 DEF AddCount
  <2>12. CASE Release(t) BY <2>12 DEF Release
  <2>13. CASE TakeHeads(t) BY <2>13 DEF TakeHeads
  <2>14. CASE ClearOwn(t) BY <2>14 DEF ClearOwn
  <2>15. CASE Other(t) BY <2>15, NextHead DEF Other
  <2>16. CASE KeepBit(t) BY <2>16 DEF KeepBit
  <2>17. CASE CasHead(t) BY <2>17 DEF CasHead
  <2>18. CASE Done(t) BY <2>18 DEF Done
  <2>19. CASE Test(t) BY <2>19 DEF Test
  <2>20. CASE NextPhase(t) BY <2>20 DEF NextPhase
  <2>21. CASE End(t) BY <2>21 DEF End
  <2> QED
    BY <1>3, <2>1, <2>2, <2>3, <2>4, <2>5, <2>6, <2>7, <2>8, <2>9, <2>10,
       <2>11, <2>12, <2>13, <2>14, <2>15, <2>16, <2>17, <2>18, <2>19, <2>20,
       <2>21
    DEF Step
<1> QED BY <1>1, <1>2, <1>3 DEF Next

-----------------------------------------------------------------------------
(* The longer actions, value by value                                      *)

Records == [tag : Tags, ps : SUBSET Procs]

LEMMA RecordFacts == /\ None \notin Records
                     /\ \A h \in HeadPtrs : h # None => h.tag \in Tags /\ h.ps \subseteq Procs
  BY BarrierAssumption DEF Records, HeadPtrs

LEMMA SwapOldEffect ==
  ASSUME TypeOK, NEW t \in Threads, SwapOld(t)
  PROVE  /\ pc[t] = "swap" /\ head'[t] = None
         /\ UNCHANGED <<state, heads, ready, enrolled, synced, cur, st, hd, snap, tag, idx>>
         /\ \A u \in Threads \ {t} : pc'[u] = pc[u] /\ head'[u] = head[u] /\ taken'[u] = taken[u]
         /\ \/ head[t] = None /\ pc'[t] = "bit" /\ taken' = taken
            \/ head[t] # None /\ pc'[t] = "add" /\ taken'[t] = head[t].ps
  BY DEF TypeOK, SwapOld, Set, To, member

LEMMA SetHeadEffect ==
  ASSUME TypeOK, NEW t \in Threads, SetHead(t)
  PROVE  /\ pc[t] = "set" /\ pc'[t] = "join"
         /\ head'[t] # None /\ head'[t].tag = st[t].tag /\ head'[t].ps = {}
         /\ UNCHANGED <<state, heads, ready, enrolled, synced, cur, st, hd, taken, snap, tag, idx>>
         /\ \A u \in Threads \ {t} : pc'[u] = pc[u] /\ head'[u] = head[u]
<1>1. /\ pc[t] = "set" /\ pc'[t] = "join" /\ head'[t] = [tag |-> st[t].tag, ps |-> {}]
      /\ UNCHANGED <<state, heads, ready, enrolled, synced, cur, st, hd, taken, snap, tag, idx>>
      /\ \A u \in Threads \ {t} : pc'[u] = pc[u] /\ head'[u] = head[u]
  BY DEF TypeOK, SetHead, Set, To, member, local
<1>2. st[t].tag \in Tags
  BY DEF TypeOK, States
<1>3. head'[t] # None
  BY <1>1, <1>2, ConstFacts
<1> QED BY <1>1, <1>3

LEMMA JoinEffect ==
  ASSUME TypeOK, NEW t \in Threads, Join(t), cur[t] # None
  PROVE  /\ pc[t] = "join" /\ pc'[t] = "count" /\ head[t] # None
         /\ head'[t] # None /\ head'[t].tag = head[t].tag /\ head'[t].ps = head[t].ps \cup {cur[t]}
         /\ UNCHANGED <<state, heads, ready, enrolled, synced, cur, st, hd, taken, snap, tag, idx>>
         /\ \A u \in Threads \ {t} : pc'[u] = pc[u] /\ head'[u] = head[u]
<1>1. /\ pc[t] = "join" /\ pc'[t] = "count" /\ head[t] # None
      /\ head'[t] = [head[t] EXCEPT !.ps = @ \cup {cur[t]}]
      /\ UNCHANGED <<state, heads, ready, enrolled, synced, cur, st, hd, taken, snap, tag, idx>>
      /\ \A u \in Threads \ {t} : pc'[u] = pc[u] /\ head'[u] = head[u]
  BY DEF TypeOK, Join, Set, To, member, local
<1>2. head[t] \in Records /\ cur[t] \in Procs
  BY <1>1 DEF TypeOK, HeadPtrs, Records
<1>3. /\ head'[t].tag = head[t].tag /\ head'[t].ps = head[t].ps \cup {cur[t]}
      /\ head'[t] \in Records
  BY <1>1, <1>2 DEF Records
<1> QED BY <1>1, <1>3, RecordFacts

LEMMA CountEffect ==
  ASSUME TypeOK, NEW t \in Threads, Count(t)
  PROVE  /\ pc[t] = "count"
         /\ UNCHANGED <<heads, head, ready, enrolled, hd, taken, snap, idx>>
         /\ \A u \in Threads \ {t} : /\ pc'[u] = pc[u] /\ cur'[u] = cur[u]
                                     /\ st'[u] = st[u] /\ tag'[u] = tag[u]
         /\ \/ /\ state = st[t] /\ Last(state, 1) /\ state' = Completing(NextTag(state.tag))
               /\ tag' = [tag EXCEPT ![t] = NextTag(state.tag)] /\ synced' = {}
               /\ pc' = [pc EXCEPT ![t] = "heads"] /\ cur' = [cur EXCEPT ![t] = None]
            \/ /\ ~Last(state, 1)
               /\ state'.count = state.count - 1 /\ state'.tag = state.tag
               /\ state'.syncing = state.syncing /\ tag' = tag
               /\ synced' = synced \cup {cur[t]} /\ pc'[t] = "idle" /\ cur'[t] = None
            \/ UNCHANGED <<state, synced, pc, cur, tag>> /\ st'[t] = state
  BY DEF TypeOK, States, Count, Set, To

LEMMA ResignCasEffect ==
  ASSUME TypeOK, ResignOK, NEW t \in Threads, ResignCas(t)
  PROVE  /\ pc[t] \in {"resign", "rlast", "rnone"}
         /\ UNCHANGED <<heads, head, ready, hd, taken, snap, idx>>
         /\ \A u \in Threads \ {t} : /\ pc'[u] = pc[u] /\ cur'[u] = cur[u]
                                     /\ st'[u] = st[u] /\ tag'[u] = tag[u]
         /\ \/ /\ pc[t] = "rlast" /\ Last(state, 1) /\ state' = Completing(NextTag(state.tag))
               /\ tag' = [tag EXCEPT ![t] = NextTag(state.tag)] /\ synced' = {}
               /\ enrolled' = enrolled \ {cur[t]}
               /\ pc' = [pc EXCEPT ![t] = "heads"] /\ cur' = [cur EXCEPT ![t] = None]
            \/ /\ pc[t] # "rlast" /\ state'.count = state.count - 1 /\ state'.tag = state.tag
               /\ state'.syncing = state.syncing /\ UNCHANGED <<tag, synced>>
               /\ enrolled' = enrolled \ {cur[t]} /\ pc'[t] = "idle" /\ cur'[t] = None
            \/ /\ UNCHANGED <<state, enrolled, synced, cur, tag>> /\ st'[t] = state
               /\ pc'[t] \in {"rheads", "resign"}
<1>1. pc[t] \in {"rheads", "rlast", "rnone"} => Last(st[t], 1)
  BY DEF ResignOK
<1>2. CASE state = st[t] /\ pc[t] = "rnone"
  <2>1. state.count = 1
    BY <1>1, <1>2 DEF Last
  <2> QED BY <1>2, <2>1 DEF TypeOK, States, ResignCas, Resigned, Set, To
<1>3. CASE state = st[t] /\ pc[t] # "rnone"
  BY <1>1, <1>3 DEF TypeOK, States, ResignCas, Resigned, Set, To
<1>4. CASE state # st[t]
  BY <1>4 DEF TypeOK, ResignCas, Set, To
<1> QED BY <1>2, <1>3, <1>4

LEMMA TakeHeadsEffect ==
  ASSUME TypeOK, NEW t \in Threads, TakeHeads(t)
  PROVE  /\ pc[t] = "heads" /\ heads' = {} /\ snap'[t] = heads \ {t}
         /\ UNCHANGED <<state, head, ready, enrolled, synced, cur, st, hd, tag, idx>>
         /\ \A u \in Threads \ {t} : pc'[u] = pc[u] /\ snap'[u] = snap[u] /\ taken'[u] = taken[u]
         /\ \/ t \in heads /\ pc'[t] = "add" /\ taken'[t] = head[t].ps
            \/ t \notin heads /\ pc'[t] = "other" /\ taken' = taken
  BY DEF TypeOK, TakeHeads, Set, To, member

LEMMA OtherEffect ==
  ASSUME TypeOK, NEW t \in Threads, Other(t)
  PROVE  /\ pc[t] = "other" /\ snap[t] # {}
         /\ UNCHANGED <<state, heads, head, ready, enrolled, synced, cur, st, taken, tag>>
         /\ \A u \in Threads \ {t} : /\ pc'[u] = pc[u] /\ snap'[u] = snap[u]
                                     /\ idx'[u] = idx[u] /\ hd'[u] = hd[u]
         /\ \E i \in snap[t] :
              /\ snap'[t] = snap[t] \ {i}
              /\ \/ /\ head[i] # None /\ head[i].tag # tag[t]
                    /\ pc'[t] = "cas" /\ idx'[t] = i /\ hd'[t] = head[i].tag
                 \/ /\ head[i] # None /\ head[i].tag = tag[t]
                    /\ pc'[t] = "own" /\ idx'[t] = i
                 \/ head[i] = None /\ pc'[t] = "other" /\ idx'[t] = None
<1> DEFINE i == CHOOSE u \in snap[t] : \A v \in snap[t] : u <= v
<1>1. i \in snap[t]
  BY NextHead DEF Other
<1>2. /\ pc[t] = "other" /\ snap[t] # {} /\ Set(snap, t, snap[t] \ {i})
      /\ IF head[i] # None /\ head[i].tag # tag[t]
         THEN To(t, "cas") /\ Set(idx, t, i) /\ Set(hd, t, head[i].tag)
         ELSE To(t, IF head[i] # None THEN "own" ELSE "other")
              /\ Set(idx, t, IF head[i] # None THEN i ELSE None) /\ UNCHANGED hd
      /\ UNCHANGED <<shared, member, cur, st, taken, tag>>
  BY DEF Other
<1> HIDE DEF i
<1>3. /\ UNCHANGED <<state, heads, head, ready, enrolled, synced, cur, st, taken, tag>>
      /\ snap'[t] = snap[t] \ {i}
      /\ \A u \in Threads \ {t} : /\ pc'[u] = pc[u] /\ snap'[u] = snap[u]
                                  /\ idx'[u] = idx[u] /\ hd'[u] = hd[u]
  BY <1>2 DEF TypeOK, shared, member, Set, To
<1>4. \/ /\ head[i] # None /\ head[i].tag # tag[t]
         /\ pc'[t] = "cas" /\ idx'[t] = i /\ hd'[t] = head[i].tag
      \/ /\ head[i] # None /\ head[i].tag = tag[t]
         /\ pc'[t] = "own" /\ idx'[t] = i
      \/ head[i] = None /\ pc'[t] = "other" /\ idx'[t] = None
  BY <1>2 DEF TypeOK, Set, To
<1> QED BY <1>1, <1>2, <1>3, <1>4

LEMMA CasHeadEffect ==
  ASSUME TypeOK, NEW t \in Threads, idx[t] \in Threads, CasHead(t)
  PROVE  /\ pc[t] = "cas"
         /\ UNCHANGED <<state, heads, ready, enrolled, synced, cur, st, snap, tag>>
         /\ \A u \in Threads \ {t} : /\ pc'[u] = pc[u] /\ idx'[u] = idx[u]
                                     /\ hd'[u] = hd[u] /\ taken'[u] = taken[u]
         /\ \A u \in Threads \ {idx[t]} : head'[u] = head[u]
         /\ \/ /\ head[idx[t]] # None /\ head[idx[t]].tag = hd[t] /\ head'[idx[t]] = None
               /\ taken'[t] = head[idx[t]].ps /\ pc'[t] = "add" /\ idx' = idx
            \/ /\ head[idx[t]] # None => head[idx[t]].tag # hd[t]
               /\ pc'[t] = "other" /\ idx'[t] = None /\ UNCHANGED <<head, taken>>
  BY DEF TypeOK, CasHead, Set, To, member

LEMMA NextPhaseEffect ==
  ASSUME TypeOK, PhaseOK, NEW t \in Threads, NextPhase(t)
  PROVE  /\ pc[t] = "next"
         /\ UNCHANGED <<heads, head, ready, enrolled, cur, hd, taken, snap, idx>>
         /\ \A u \in Threads \ {t} : pc'[u] = pc[u] /\ st'[u] = st[u] /\ tag'[u] = tag[u]
         /\ \/ /\ state = Completing(tag[t]) /\ state' = Completing(NextTag(tag[t]))
               /\ tag' = [tag EXCEPT ![t] = NextTag(tag[t])] /\ synced' = {}
               /\ pc' = [pc EXCEPT ![t] = "heads"]
            \/ pc'[t] = "other" /\ UNCHANGED <<state, tag, synced, st>>
<1>1. pc[t] = "next" => st[t] = Completing(tag[t])
  BY DEF PhaseOK
<1> QED BY <1>1 DEF TypeOK, NextPhase, Set, To, member

LEMMA EndEffect ==
  ASSUME TypeOK, NEW t \in Threads, End(t)
  PROVE  /\ pc[t] = "end"
         /\ UNCHANGED <<heads, head, ready, enrolled, synced, cur, hd, taken, snap, idx>>
         /\ \A u \in Threads \ {t} : pc'[u] = pc[u] /\ st'[u] = st[u] /\ tag'[u] = tag[u]
         /\ \/ /\ state'.count = state.count - 1 /\ state'.tag = tag[t] /\ state'.syncing = FALSE
               /\ tag'[t] = None /\ pc'[t] = "idle"
            \/ pc'[t] = "other" /\ UNCHANGED <<state, st, tag>>
  BY DEF TypeOK, End, Set, To, member

-----------------------------------------------------------------------------
(* When the count says that nobody else is left                            *)

LEMMA DueFinite == ASSUME TypeOK, PlacesOK
                   PROVE  Due \subseteq enrolled /\ IsFiniteSet(Due) /\ Cardinality(Due) \in Nat
<1>1. Due \subseteq enrolled
  BY DEF TypeOK, PlacesOK, CallerPlace, TakenPlace, Due, Called, Calling, Released
<1>2. enrolled \in SUBSET Procs /\ IsFiniteSet(Procs)
  BY BarrierAssumption DEF TypeOK
<1>3. IsFiniteSet(enrolled)
  BY <1>2, FS_Subset
<1>4. Due \in SUBSET enrolled
  BY <1>1
<1>5. IsFiniteSet(Due)
  BY <1>3, <1>4, FS_Subset
<1> QED BY <1>1, <1>5, FS_CardinalityType

\* A thread that neither calls nor completes is idle.
LEMMA IdleThread ==
  ASSUME TypeOK, LocalsOK, NEW u \in Threads, cur[u] = None, tag[u] = None
  PROVE  pc[u] = "idle"
<1>1. pc[u] \in Labels
  BY DEF TypeOK
<1> QED BY <1>1 DEF LocalsOK, Labels, CallPC, DonePC

LEMMA LastCaller ==
  ASSUME BInv, NEW t \in Threads, cur[t] # None, Last(state, 1)
  PROVE  /\ ready = {} /\ tag[t] = None /\ \A u \in Threads \ {t} : pc[u] = "idle"
         /\ Due = {cur[t]}
<1>1. IsFiniteSet(Due) /\ Cardinality(Due) \in Nat
  BY DueFinite DEF BInv
<1>2. Cardinality(Due) = 1
  BY <1>1 DEF BInv, CountOK, Last
<1>3. \E x : Due = {x}
  BY <1>1, <1>2, FS_Singleton
<1>4. cur[t] \in Due
  BY DEF Due, Called, Calling
<1>5. Due = {cur[t]}
  BY <1>3, <1>4
<1>6. ready = {}
  BY <1>5 DEF Due, BInv, PlacesOK, CallerPlace
<1>7. \A u \in Threads : cur[u] # None => u = t
  <2> SUFFICES ASSUME NEW u \in Threads, cur[u] # None PROVE u = t
    OBVIOUS
  <2>1. cur[u] \in Due
    BY DEF Due, Called, Calling
  <2> QED BY <1>5, <2>1 DEF BInv, PlacesOK, CallerPlace
<1>8. \A u \in Threads : tag[u] = None
  BY DEF BInv, PhaseOK, OneCompleter, Last
<1> QED BY <1>5, <1>6, <1>7, <1>8, IdleThread DEF BInv

LEMMA LastCompleter ==
  ASSUME BInv, NEW t \in Threads, tag[t] # None, state.count = 1
  PROVE  ready = {} /\ Due = {} /\ \A u \in Threads \ {t} : pc[u] = "idle"
<1>1. IsFiniteSet(Due) /\ Cardinality(Due) \in Nat
  BY DueFinite DEF BInv
<1>2. state.syncing
  BY DEF BInv, PhaseOK, OneCompleter
<1>3. Cardinality(Due) = 0
  BY <1>1, <1>2 DEF BInv, CountOK
<1>4. Due = {}
  BY <1>1, <1>3, FS_EmptySet
<1>5. \A u \in Threads : cur[u] = None
  BY <1>4 DEF Due, Called, Calling
<1>6. \A u \in Threads \ {t} : tag[u] = None
  BY DEF BInv, PhaseOK, OneCompleter
<1> QED BY <1>4, <1>5, <1>6, IdleThread DEF Due, BInv

\* While completion has not begun to take the heads, nobody else acts.
LEMMA TakesAlone ==
  ASSUME BInv, NEW c \in Threads, pc[c] = "heads"
  PROVE  ready = {} /\ \A u \in Threads \ {c} : pc[u] = "idle" /\ cur[u] = None /\ tag[u] = None
  BY DEF BInv, PhaseOK, LocalsOK

-----------------------------------------------------------------------------
\* The step that starts a completion, taken by t when all others are idle.
LEMMA PhaseStarts ==
  ASSUME TypeOK, LocalsOK, NEW t \in Threads, NEW g \in Tags,
         state' = Completing(g), tag' = [tag EXCEPT ![t] = g], pc' = [pc EXCEPT ![t] = "heads"],
         cur' = [cur EXCEPT ![t] = None], ready' = {},
         \A u \in Threads \ {t} : pc[u] = "idle"
  PROVE  PhaseOK'
<1>1. state'.syncing /\ state'.tag = g
  BY DEF Completing
<1>2. tag'[t] = g /\ g # None /\ cur'[t] = None /\ pc'[t] = "heads"
  BY ConstFacts DEF TypeOK
<1>3. \A u \in Threads \ {t} : tag'[u] = None /\ cur'[u] = None /\ pc'[u] = "idle"
  BY DEF TypeOK, LocalsOK
<1> QED BY <1>1, <1>2, <1>3 DEF PhaseOK, OneCompleter

\* A step of t within the phase.
LEMMA PhaseKept ==
  ASSUME PhaseOK, NEW t \in Threads, UNCHANGED <<tag, ready, heads>>,
         state'.tag = state.tag, state'.syncing = state.syncing,
         pc[t] \notin {"idle", "heads"}, pc'[t] \notin {"heads", "rlast", "next"},
         pc'[t] = "test" => st'[t] = Completing(tag[t]),
         cur'[t] # None => st'[t] = state,
         \A u \in Threads \ {t} : pc'[u] = pc[u] /\ cur'[u] = cur[u] /\ st'[u] = st[u]
  PROVE  PhaseOK'
<1>1. OneCompleter'
  BY DEF PhaseOK, OneCompleter
<1>2. \A u \in Threads : tag'[u] # None => tag'[u] = state'.tag
  BY DEF PhaseOK
<1>3. \A u \in Threads : cur'[u] # None => st'[u].tag = state'.tag /\ (state'.syncing => st'[u].syncing)
  BY DEF PhaseOK
<1>4. \A u \in Threads : pc'[u] \in {"test", "next"} => st'[u] = Completing(tag'[u])
  BY DEF PhaseOK
<1>5. \A u \in Threads : pc'[u] # "heads"
  BY DEF PhaseOK
<1>6. \A u \in Threads : pc'[u] \in {"rlast", "next"} => heads' # {}
  BY DEF PhaseOK
<1>7. (\A u \in Threads : pc[u] \in {"test", "next"} => st[u] = Completing(tag[u]))' 
  BY <1>4
<1> QED BY <1>1, <1>2, <1>3, <1>5, <1>6, <1>7 DEF PhaseOK

LEMMA PhaseCount == ASSUME BInv, NEW t \in Threads, Count(t) PROVE PhaseOK'
<1>1. TypeOK /\ LocalsOK /\ PhaseOK /\ PlacesOK
  BY DEF BInv
<1>2. pc[t] = "count" /\ cur[t] # None /\ tag[t] = None
  BY <1>1, CountEffect DEF LocalsOK, CallPC
<1>3. state.tag \in Tags
  BY <1>1 DEF TypeOK, States
<1>4. CASE pc' = [pc EXCEPT ![t] = "heads"]
  <2>1. pc'[t] = "heads"
    BY <1>1, <1>4 DEF TypeOK
  <2>2. /\ Last(state, 1) /\ state' = Completing(NextTag(state.tag)) /\ ready' = ready
        /\ tag' = [tag EXCEPT ![t] = NextTag(state.tag)] /\ cur' = [cur EXCEPT ![t] = None]
    BY <1>1, <1>2, <2>1, CountEffect
  <2>3. ready = {} /\ \A u \in Threads \ {t} : pc[u] = "idle"
    BY <1>2, <2>2, LastCaller
  <2>4. NextTag(state.tag) \in Tags
    BY <1>3, ConstFacts
  <2> QED BY <1>1, <1>4, <2>2, <2>3, <2>4, PhaseStarts
<1>5. CASE pc' # [pc EXCEPT ![t] = "heads"]
  <2>1. /\ state'.tag = state.tag /\ state'.syncing = state.syncing /\ UNCHANGED <<tag, ready, heads>>
        /\ pc'[t] \in {"idle", "count"} /\ (cur'[t] # None => st'[t] = state)
        /\ \A u \in Threads \ {t} : pc'[u] = pc[u] /\ cur'[u] = cur[u] /\ st'[u] = st[u]
    BY <1>1, <1>2, <1>5, CountEffect
  <2> QED BY <1>1, <1>2, <2>1, PhaseKept
<1> QED BY <1>4, <1>5

LEMMA PhaseResignCas == ASSUME BInv, NEW t \in Threads, ResignCas(t) PROVE PhaseOK'
<1>1. TypeOK /\ LocalsOK /\ PhaseOK /\ PlacesOK /\ ResignOK
  BY DEF BInv
<1>2. pc[t] \in {"resign", "rlast", "rnone"} /\ cur[t] # None /\ tag[t] = None
  BY <1>1, ResignCasEffect DEF LocalsOK, CallPC
<1>3. state.tag \in Tags
  BY <1>1 DEF TypeOK, States
<1>4. CASE pc' = [pc EXCEPT ![t] = "heads"]
  <2>1. pc'[t] = "heads"
    BY <1>1, <1>4 DEF TypeOK
  <2>2. /\ Last(state, 1) /\ state' = Completing(NextTag(state.tag)) /\ ready' = ready
        /\ tag' = [tag EXCEPT ![t] = NextTag(state.tag)] /\ cur' = [cur EXCEPT ![t] = None]
    BY <1>1, <1>2, <2>1, ResignCasEffect
  <2>3. ready = {} /\ \A u \in Threads \ {t} : pc[u] = "idle"
    BY <1>2, <2>2, LastCaller
  <2>4. NextTag(state.tag) \in Tags
    BY <1>3, ConstFacts
  <2> QED BY <1>1, <1>4, <2>2, <2>3, <2>4, PhaseStarts
<1>5. CASE pc' # [pc EXCEPT ![t] = "heads"]
  <2>1. /\ state'.tag = state.tag /\ state'.syncing = state.syncing /\ UNCHANGED <<tag, ready, heads>>
        /\ pc'[t] \in {"idle", "rheads", "resign"} /\ (cur'[t] # None => st'[t] = state)
        /\ \A u \in Threads \ {t} : pc'[u] = pc[u] /\ cur'[u] = cur[u] /\ st'[u] = st[u]
    BY <1>1, <1>2, <1>5, ResignCasEffect
  <2> QED BY <1>1, <1>2, <2>1, PhaseKept
<1> QED BY <1>4, <1>5

LEMMA PhaseNextPhase == ASSUME BInv, NEW t \in Threads, NextPhase(t) PROVE PhaseOK'
<1>1. TypeOK /\ LocalsOK /\ PhaseOK /\ PlacesOK
  BY DEF BInv
<1>2. pc[t] = "next" /\ cur[t] = None /\ tag[t] # None /\ tag[t] \in Tags
  BY <1>1, NextPhaseEffect DEF LocalsOK, DonePC, TypeOK
<1>3. CASE pc' = [pc EXCEPT ![t] = "heads"]
  <2>1. pc'[t] = "heads"
    BY <1>1, <1>3 DEF TypeOK
  <2>2. /\ state = Completing(tag[t]) /\ state' = Completing(NextTag(tag[t])) /\ ready' = ready
        /\ tag' = [tag EXCEPT ![t] = NextTag(tag[t])] /\ cur' = cur
    BY <1>1, <1>2, <2>1, NextPhaseEffect
  <2>3. cur' = [cur EXCEPT ![t] = None] /\ state.count = 1
    BY <1>1, <1>2, <2>2 DEF TypeOK, Completing
  <2>4. ready = {} /\ \A u \in Threads \ {t} : pc[u] = "idle"
    BY <1>2, <2>3, LastCompleter
  <2>5. NextTag(tag[t]) \in Tags
    BY <1>2, ConstFacts
  <2> QED BY <1>1, <1>3, <2>2, <2>3, <2>4, <2>5, PhaseStarts
<1>4. CASE pc' # [pc EXCEPT ![t] = "heads"]
  <2>1. /\ pc'[t] = "other" /\ UNCHANGED <<state, st, tag, cur, ready, heads>>
        /\ \A u \in Threads \ {t} : pc'[u] = pc[u]
    BY <1>1, <1>2, <1>4, NextPhaseEffect
  <2> QED BY <1>1, <1>2, <2>1, PhaseKept
<1> QED BY <1>3, <1>4

LEMMA PhaseEnd == ASSUME BInv, NEW t \in Threads, End(t) PROVE PhaseOK'
<1>1. TypeOK /\ LocalsOK /\ PhaseOK
  BY DEF BInv
<1>2. pc[t] = "end" /\ cur[t] = None /\ tag[t] # None
  BY <1>1, EndEffect DEF LocalsOK, DonePC
<1>3. \A u \in Threads \ {t} : tag[u] = None /\ pc[u] \notin {"heads", "test", "next"}
  BY <1>1, <1>2 DEF PhaseOK, OneCompleter, LocalsOK, DonePC
<1>4. CASE pc'[t] = "idle"
  <2>1. /\ state'.tag = state.tag /\ ~state'.syncing /\ tag'[t] = None
        /\ UNCHANGED <<heads, ready, cur>>
        /\ \A u \in Threads \ {t} : pc'[u] = pc[u] /\ st'[u] = st[u] /\ tag'[u] = tag[u]
    BY <1>1, <1>2, <1>4, EndEffect DEF PhaseOK
  <2>2. OneCompleter'
    BY <1>3, <2>1 DEF OneCompleter
  <2> QED BY <1>1, <1>2, <1>3, <1>4, <2>1, <2>2 DEF PhaseOK
<1>5. CASE pc'[t] # "idle"
  <2>1. /\ pc'[t] = "other" /\ UNCHANGED <<state, st, tag, cur, ready, heads>>
        /\ \A u \in Threads \ {t} : pc'[u] = pc[u]
    BY <1>1, <1>2, <1>5, EndEffect
  <2> QED BY <1>1, <1>2, <2>1, PhaseKept
<1> QED BY <1>4, <1>5

LEMMA PhaseDone == ASSUME BInv, NEW t \in Threads, Done(t) PROVE PhaseOK'
<1>1. TypeOK /\ LocalsOK /\ PhaseOK
  BY DEF BInv
<1>2. /\ pc[t] = "other" /\ st'[t] = state /\ pc'[t] \in {"test", "end"}
      /\ pc'[t] = "test" => state = Completing(tag[t])
      /\ UNCHANGED <<state, heads, ready, tag, cur>>
      /\ \A u \in Threads \ {t} : st'[u] = st[u] /\ pc'[u] = pc[u]
  BY <1>1 DEF TypeOK, Done, Set, To, shared, member
<1> QED BY <1>1, <1>2, PhaseKept

LEMMA PhaseSimple ==
  ASSUME BInv, NEW t \in Threads,
         Sync(t) \/ Resign(t) \/ ReadHead(t) \/ SwapOld(t) \/ SetBit(t) \/ SetHead(t) \/
         Join(t) \/ ResignHeads(t) \/ AddCount(t) \/ Release(t) \/ TakeHeads(t) \/
         ClearOwn(t) \/ Other(t) \/ KeepBit(t) \/ CasHead(t) \/ Test(t)
  PROVE  PhaseOK'
<1> USE ConstFacts DEF BInv, TypeOK, LocalsOK, CallPC, DonePC, PhaseOK, OneCompleter, States,
        Completing, Set, To, shared, member, local
<1>1. CASE Sync(t) BY <1>1 DEF Sync
<1>2. CASE Resign(t) BY <1>2 DEF Resign
<1>3. CASE ReadHead(t) BY <1>3 DEF ReadHead
<1>4. CASE SwapOld(t) BY <1>4 DEF SwapOld
<1>5. CASE SetBit(t) BY <1>5 DEF SetBit
<1>6. CASE SetHead(t) BY <1>6 DEF SetHead
<1>7. CASE Join(t) BY <1>7 DEF Join
<1>8. CASE ResignHeads(t) BY <1>8 DEF ResignHeads
<1>9. CASE AddCount(t) BY <1>9 DEF AddCount
<1>10. CASE Release(t) BY <1>10 DEF Release
<1>11. CASE TakeHeads(t) BY <1>11 DEF TakeHeads
<1>12. CASE ClearOwn(t) BY <1>12 DEF ClearOwn
<1>13. CASE Other(t) BY <1>13, NextHead DEF Other
<1>14. CASE KeepBit(t) BY <1>14 DEF KeepBit
<1>15. CASE CasHead(t) BY <1>15 DEF CasHead
<1>16. CASE Test(t) BY <1>16 DEF Test
<1> QED BY <1>1, <1>2, <1>3, <1>4, <1>5, <1>6, <1>7, <1>8, <1>9, <1>10, <1>11, <1>12,
           <1>13, <1>14, <1>15, <1>16

LEMMA PhaseStep == BInv /\ [Next]_vars => PhaseOK'
<1> SUFFICES ASSUME BInv, [Next]_vars PROVE PhaseOK'
  OBVIOUS
<1>1. CASE UNCHANGED vars
  BY <1>1 DEF vars, shared, member, local, BInv, PhaseOK, OneCompleter
<1>2. CASE Enroll
  BY <1>2 DEF Enroll, local, BInv, TypeOK, States, PhaseOK, OneCompleter
<1>3. ASSUME NEW t \in Threads, Sync(t) \/ Resign(t) \/ Step(t) PROVE PhaseOK'
  BY <1>3, PhaseSimple, PhaseCount, PhaseResignCas, PhaseNextPhase, PhaseEnd,
     PhaseDone DEF Step
<1> QED BY <1>1, <1>2, <1>3 DEF Next

LEMMA ResignSimple ==
  ASSUME BInv, NEW t \in Threads,
         Sync(t) \/ Resign(t) \/ ReadHead(t) \/ SwapOld(t) \/ SetBit(t) \/ SetHead(t) \/
         Join(t) \/ Count(t) \/ ResignHeads(t) \/ ResignCas(t) \/ AddCount(t) \/ Release(t)
         \/ TakeHeads(t) \/ ClearOwn(t) \/ Other(t) \/ KeepBit(t) \/ CasHead(t) \/ Done(t) \/
         Test(t) \/ NextPhase(t) \/ End(t)
  PROVE  ResignOK'
<1> USE ConstFacts DEF BInv, TypeOK, LocalsOK, CallPC, DonePC, ResignOK, Resigned, Set, To,
        shared, member, local
<1>1. CASE Sync(t) BY <1>1 DEF Sync
<1>2. CASE Resign(t) BY <1>2 DEF Resign
<1>3. CASE ReadHead(t) BY <1>3 DEF ReadHead
<1>4. CASE SwapOld(t) BY <1>4 DEF SwapOld
<1>5. CASE SetBit(t) BY <1>5 DEF SetBit
<1>6. CASE SetHead(t) BY <1>6 DEF SetHead
<1>7. CASE Join(t) BY <1>7 DEF Join
<1>8. CASE Count(t) BY <1>8 DEF Count
<1>9. CASE ResignHeads(t) BY <1>9 DEF ResignHeads
<1>10. CASE ResignCas(t) BY <1>10 DEF ResignCas
<1>11. CASE AddCount(t) BY <1>11 DEF AddCount
<1>12. CASE Release(t) BY <1>12 DEF Release
<1>13. CASE TakeHeads(t) BY <1>13 DEF TakeHeads
<1>14. CASE ClearOwn(t) BY <1>14 DEF ClearOwn
<1>15. CASE Other(t) BY <1>15, NextHead DEF Other
<1>16. CASE KeepBit(t) BY <1>16 DEF KeepBit
<1>17. CASE CasHead(t) BY <1>17 DEF CasHead
<1>18. CASE Done(t) BY <1>18 DEF Done
<1>19. CASE Test(t) BY <1>19 DEF Test
<1>20. CASE NextPhase(t) BY <1>20 DEF NextPhase
<1>21. CASE End(t) BY <1>21 DEF End
<1> QED BY <1>1, <1>2, <1>3, <1>4, <1>5, <1>6, <1>7, <1>8, <1>9, <1>10, <1>11, <1>12,
           <1>13, <1>14, <1>15, <1>16, <1>17, <1>18, <1>19, <1>20, <1>21

LEMMA ResignStep == BInv /\ [Next]_vars => ResignOK'
<1> SUFFICES ASSUME BInv, [Next]_vars PROVE ResignOK'
  OBVIOUS
<1>1. CASE UNCHANGED vars
  BY <1>1 DEF vars, local, BInv, ResignOK
<1>2. CASE Enroll
  BY <1>2 DEF Enroll, local, BInv, ResignOK
<1>3. ASSUME NEW t \in Threads, Sync(t) \/ Resign(t) \/ Step(t) PROVE ResignOK'
  BY <1>3, ResignSimple DEF Step
<1> QED BY <1>1, <1>2, <1>3 DEF Next

-----------------------------------------------------------------------------
(* The heads                                                               *)

\* A completion starts: the heads of this phase become those of the old one.
LEMMA HeadsStart ==
  ASSUME TypeOK, LocalsOK, PhaseOK, HeadsOK, NEW t \in Threads,
         pc[t] \in {"count", "rlast", "next"}, pc' = [pc EXCEPT ![t] = "heads"],
         \A u \in Threads \ {t} : pc[u] = "idle",
         state'.tag = NextTag(state.tag), UNCHANGED <<head, heads>>
  PROVE  HeadsOK'
<1>1. pc'[t] = "heads" /\ \A u \in Threads \ {t} : pc'[u] = "idle"
  BY DEF TypeOK
<1>2. \A u \in Threads : ~Old(u)
  <2>1. \A u \in Threads : snap[u] = {} /\ pc[u] # "cas" /\ pc[u] # "heads" /\ ~OwnTaken(u)
    BY DEF LocalsOK, OwnTaken
  <2> QED BY <2>1 DEF HeadsOK, HeadOK, Listed
<1>3. state.tag \in Tags
  BY DEF TypeOK, States
<1>4. \A u \in Threads : head[u] # None =>
        head[u].tag = state.tag /\ u \in heads /\ head[u].ps # {}
  BY <1>2 DEF HeadsOK, HeadOK, Old, New
<1>5. \A u \in Threads : u \in heads => head[u] # None
  BY DEF HeadsOK, HeadOK
<1>6. \A u \in Threads : ~New(u)'
  BY <1>3, <1>4, ConstFacts DEF New
<1>7. \A u \in Threads : Old(u)' => NextTag(head[u].tag) = state'.tag /\ Listed(u)'
  BY <1>1, <1>4 DEF Old, Listed
<1>8. \A u \in Threads : ~OwnTaken(u)'
  BY <1>1 DEF OwnTaken
<1> QED BY <1>1, <1>4, <1>5, <1>6, <1>7, <1>8 DEF HeadsOK, HeadOK, ScanOK

\* The heads that a step does not touch.
LEMMA HeadSame ==
  ASSUME NEW u \in Threads, HeadOK(u), state'.tag = state.tag, u \in heads' <=> u \in heads,
         head'[u] = head[u], pc'[u] = pc[u], tag'[u] = tag[u], idx'[u] = idx[u], cur'[u] = cur[u],
         \A c \in Threads : pc'[c] = "heads" <=> pc[c] = "heads",
         Old(u) => Listed(u)'
  PROVE  HeadOK(u)'
<1>1. /\ New(u)' <=> New(u)
      /\ Old(u)' <=> Old(u)
      /\ OwnTaken(u)' <=> OwnTaken(u)
  BY DEF New, Old, OwnTaken
<1> QED BY <1>1 DEF HeadOK

\* Nobody takes the heads while another thread is in the barrier.
LEMMA NotTaking ==
  ASSUME BInv, NEW t \in Threads, pc[t] \notin {"idle", "heads"}
  PROVE  \A c \in Threads : pc[c] # "heads"
  BY DEF BInv, PhaseOK

\* A call that changes nothing of the heads of others leaves them listed.
LEMMA ListedKept ==
  ASSUME BInv, NEW t \in Threads, cur[t] # None, NEW u \in Threads, u # t, Old(u),
         UNCHANGED <<tag, idx, snap>>, \A c \in Threads \ {t} : pc'[c] = pc[c]
  PROVE  Listed(u)'
<1>1. LocalsOK /\ HeadOK(u)
  BY DEF BInv, HeadsOK
<1>2. pc[t] \notin {"heads", "cas"} /\ pc[t] # "idle"
  BY <1>1 DEF LocalsOK, DonePC
<1>3. \A c \in Threads : pc[c] # "heads"
  BY <1>2, NotTaking
<1> QED BY <1>1, <1>2, <1>3 DEF HeadOK, Listed, OwnTaken

LEMMA HeadsSwapOld == ASSUME BInv, NEW t \in Threads, SwapOld(t) PROVE HeadsOK'
<1>1. TypeOK /\ LocalsOK /\ PhaseOK /\ HeadsOK
  BY DEF BInv
<1>2. pc[t] = "swap" /\ cur[t] # None /\ tag[t] = None
  BY <1>1, SwapOldEffect DEF LocalsOK, CallPC
<1>3. \A c \in Threads : pc[c] # "heads"
  BY <1>2, NotTaking
<1>4. \A c \in Threads : pc'[c] # "heads"
  BY <1>1, <1>3, SwapOldEffect
<1>5. t \notin heads
  BY <1>1, <1>2, <1>3 DEF HeadsOK, HeadOK, New, Old
<1>6. ASSUME NEW u \in Threads \ {t} PROVE HeadOK(u)'
  <2>1. Old(u) => Listed(u)'
    BY <1>1, <1>2, SwapOldEffect, ListedKept
  <2> QED BY <1>1, <1>3, <1>4, <2>1, HeadSame, SwapOldEffect DEF HeadsOK
<1>7. HeadOK(t)'
  BY <1>1, <1>2, <1>5, SwapOldEffect DEF HeadOK, New, Old, OwnTaken
<1>8. ASSUME NEW c \in Threads PROVE ScanOK(c)'
  <2>1. pc'[c] \in {"cas", "own"} => c # t /\ pc'[c] = pc[c]
    BY <1>1, SwapOldEffect
  <2>2. pc[c] = "own" => New(idx[c]) /\ idx[c] # t /\ idx[c] \in Threads
    BY <1>1, <1>2 DEF HeadsOK, HeadOK, ScanOK, LocalsOK, TypeOK
  <2> QED BY <1>1, <2>1, <2>2, SwapOldEffect DEF HeadsOK, ScanOK, New
<1> QED BY <1>6, <1>7, <1>8 DEF HeadsOK

LEMMA HeadsSetHead == ASSUME BInv, NEW t \in Threads, SetHead(t) PROVE HeadsOK'
<1>1. TypeOK /\ LocalsOK /\ PhaseOK /\ HeadsOK
  BY DEF BInv
<1>2. pc[t] = "set" /\ cur[t] # None /\ tag[t] = None /\ st[t].tag = state.tag /\ t \in heads
  BY <1>1, SetHeadEffect DEF LocalsOK, CallPC, PhaseOK, HeadsOK, HeadOK
<1>3. \A c \in Threads : pc[c] # "heads"
  BY <1>2, NotTaking
<1>4. \A c \in Threads : pc'[c] # "heads"
  BY <1>1, <1>3, SetHeadEffect
<1>5. New(t)' /\ ~Old(t)'
  BY <1>1, <1>2, SetHeadEffect DEF New, Old
<1>6. ASSUME NEW u \in Threads \ {t} PROVE HeadOK(u)'
  <2>1. Old(u) => Listed(u)'
    BY <1>1, <1>2, SetHeadEffect, ListedKept
  <2> QED BY <1>1, <1>3, <1>4, <2>1, HeadSame, SetHeadEffect DEF HeadsOK
<1>7. HeadOK(t)'
  BY <1>1, <1>2, <1>4, <1>5, SetHeadEffect DEF HeadOK, OwnTaken
<1>8. ASSUME NEW c \in Threads PROVE ScanOK(c)'
  <2>1. pc'[c] \in {"cas", "own"} => c # t /\ pc'[c] = pc[c] /\ (idx[c] # t => head'[idx[c]] = head[idx[c]])
    BY <1>1, SetHeadEffect DEF LocalsOK, TypeOK
  <2> QED BY <1>1, <1>5, <2>1, SetHeadEffect DEF HeadsOK, ScanOK, New
<1> QED BY <1>6, <1>7, <1>8 DEF HeadsOK

LEMMA HeadsJoin == ASSUME BInv, NEW t \in Threads, Join(t) PROVE HeadsOK'
<1>1. TypeOK /\ LocalsOK /\ PhaseOK /\ HeadsOK
  BY DEF BInv
<1>2. pc[t] = "join" /\ cur[t] # None /\ tag[t] = None /\ New(t) /\ t \in heads
  BY <1>1 DEF Join, LocalsOK, CallPC, HeadsOK, HeadOK
<1>3. \A c \in Threads : pc[c] # "heads"
  BY <1>2, NotTaking
<1>4. \A c \in Threads : pc'[c] # "heads"
  BY <1>1, <1>2, <1>3, JoinEffect
<1>5. New(t)' /\ ~Old(t)'
  BY <1>1, <1>2, JoinEffect DEF New, Old
<1>6. ASSUME NEW u \in Threads \ {t} PROVE HeadOK(u)'
  <2>1. Old(u) => Listed(u)'
    BY <1>1, <1>2, JoinEffect, ListedKept
  <2> QED BY <1>1, <1>2, <1>3, <1>4, <2>1, HeadSame, JoinEffect DEF HeadsOK
<1>7. HeadOK(t)'
  <2>1. /\ head'[t].ps # {} /\ pc'[t] = "count" /\ cur'[t] \in head'[t].ps
        /\ heads' = heads /\ tag'[t] = None /\ head'[t] # None
    BY <1>1, <1>2, JoinEffect
  <2> QED BY <1>2, <1>4, <1>5, <2>1 DEF HeadOK, OwnTaken
<1>8. ASSUME NEW c \in Threads PROVE ScanOK(c)'
  <2>1. pc'[c] \in {"cas", "own"} => c # t /\ pc'[c] = pc[c] /\ (idx[c] # t => head'[idx[c]] = head[idx[c]])
    BY <1>1, <1>2, JoinEffect DEF LocalsOK, TypeOK
  <2> QED BY <1>1, <1>2, <1>5, <2>1, JoinEffect DEF HeadsOK, ScanOK, New
<1> QED BY <1>6, <1>7, <1>8 DEF HeadsOK

LEMMA HeadsCount == ASSUME BInv, NEW t \in Threads, Count(t) PROVE HeadsOK'
<1>1. TypeOK /\ LocalsOK /\ PhaseOK /\ HeadsOK
  BY DEF BInv
<1>2. pc[t] = "count" /\ cur[t] # None /\ tag[t] = None
  BY <1>1, CountEffect DEF LocalsOK, CallPC
<1>3. CASE pc' = [pc EXCEPT ![t] = "heads"]
  <2>1. pc'[t] = "heads"
    BY <1>1, <1>3 DEF TypeOK
  <2>2. Last(state, 1) /\ state'.tag = NextTag(state.tag) /\ UNCHANGED <<head, heads>>
    BY <1>1, <1>2, <2>1, CountEffect DEF Completing
  <2>3. \A u \in Threads \ {t} : pc[u] = "idle"
    BY <1>2, <2>2, LastCaller
  <2> QED BY <1>1, <1>2, <1>3, <2>2, <2>3, HeadsStart
<1>4. CASE pc' # [pc EXCEPT ![t] = "heads"]
  <2>1. /\ pc'[t] \in {"count", "idle"} /\ state'.tag = state.tag
        /\ pc'[t] = "count" => cur'[t] = cur[t]
        /\ UNCHANGED <<head, heads, tag, idx, snap, hd>>
        /\ \A u \in Threads \ {t} : pc'[u] = pc[u] /\ cur'[u] = cur[u]
    BY <1>1, <1>2, <1>4, CountEffect
  <2>2. \A c \in Threads : pc[c] # "heads"
    BY <1>2, NotTaking
  <2>3. \A c \in Threads : pc'[c] # "heads"
    BY <2>1, <2>2
  <2>4. ASSUME NEW u \in Threads \ {t} PROVE HeadOK(u)'
    <3>1. Old(u) => Listed(u)'
      BY <1>2, <2>1, ListedKept
    <3> QED BY <1>1, <2>1, <2>2, <2>3, <3>1, HeadSame DEF HeadsOK
  <2>5. HeadOK(t)'
    BY <1>1, <1>2, <2>1, <2>3 DEF HeadsOK, HeadOK, OwnTaken, New, Old
  <2>6. \A c \in Threads : ScanOK(c)'
    BY <1>1, <1>2, <2>1 DEF HeadsOK, ScanOK, New
  <2> QED BY <2>4, <2>5, <2>6 DEF HeadsOK
<1> QED BY <1>3, <1>4

LEMMA HeadsResignCas == ASSUME BInv, NEW t \in Threads, ResignCas(t) PROVE HeadsOK'
<1>1. TypeOK /\ LocalsOK /\ PhaseOK /\ HeadsOK /\ ResignOK
  BY DEF BInv
<1>2. pc[t] \in {"resign", "rlast", "rnone"} /\ cur[t] # None /\ tag[t] = None
  BY <1>1, ResignCasEffect DEF LocalsOK, CallPC
<1>3. CASE pc' = [pc EXCEPT ![t] = "heads"]
  <2>1. pc'[t] = "heads"
    BY <1>1, <1>3 DEF TypeOK
  <2>2. pc[t] = "rlast" /\ Last(state, 1) /\ state'.tag = NextTag(state.tag) /\ UNCHANGED <<head, heads>>
    BY <1>1, <1>2, <2>1, ResignCasEffect DEF Completing
  <2>3. \A u \in Threads \ {t} : pc[u] = "idle"
    BY <1>2, <2>2, LastCaller
  <2> QED BY <1>1, <1>3, <2>2, <2>3, HeadsStart
<1>4. CASE pc' # [pc EXCEPT ![t] = "heads"]
  <2>1. /\ pc'[t] \in {"rheads", "resign", "idle"} /\ state'.tag = state.tag
        /\ UNCHANGED <<head, heads, tag, idx, snap, hd>>
        /\ \A u \in Threads \ {t} : pc'[u] = pc[u] /\ cur'[u] = cur[u]
    BY <1>1, <1>2, <1>4, ResignCasEffect
  <2>2. \A c \in Threads : pc[c] # "heads"
    BY <1>2, NotTaking
  <2>3. \A c \in Threads : pc'[c] # "heads"
    BY <2>1, <2>2
  <2>4. ASSUME NEW u \in Threads \ {t} PROVE HeadOK(u)'
    <3>1. Old(u) => Listed(u)'
      BY <1>2, <2>1, ListedKept
    <3> QED BY <1>1, <2>1, <2>2, <2>3, <3>1, HeadSame DEF HeadsOK
  <2>5. HeadOK(t)'
    <3>1. Old(t) => Listed(t)'
      <4>1. HeadOK(t)
        BY <1>1 DEF HeadsOK
      <4> QED BY <1>2, <2>1, <2>2, <4>1 DEF HeadOK, Listed, OwnTaken
    <3>2. Old(t)' <=> Old(t)
      BY <2>1 DEF Old
    <3>3. New(t)' <=> New(t)
      BY <2>1 DEF New
    <3>4. HeadOK(t)
      BY <1>1 DEF HeadsOK
    <3> QED BY <1>2, <2>1, <2>2, <2>3, <3>1, <3>2, <3>3, <3>4 DEF HeadOK, OwnTaken
  <2>6. \A c \in Threads : ScanOK(c)'
    BY <1>1, <1>2, <2>1 DEF HeadsOK, ScanOK, New
  <2> QED BY <2>4, <2>5, <2>6 DEF HeadsOK
<1> QED BY <1>3, <1>4

\* Only one thread completes.
LEMMA OthersDoNot ==
  ASSUME BInv, NEW t \in Threads, tag[t] # None
  PROVE  \A u \in Threads \ {t} : /\ tag[u] = None /\ snap[u] = {} /\ ~OwnTaken(u)
                                  /\ pc[u] \notin {"own", "cas", "heads"}
  BY DEF BInv, PhaseOK, OneCompleter, LocalsOK, DonePC, OwnTaken

LEMMA HeadsClearOwn == ASSUME BInv, NEW t \in Threads, ClearOwn(t) PROVE HeadsOK'
<1>1. TypeOK /\ LocalsOK /\ PhaseOK /\ HeadsOK
  BY DEF BInv
<1>2. /\ pc[t] = "clear" /\ pc'[t] = "other" /\ head'[t] = None
      /\ UNCHANGED <<state, heads, cur, idx, tag, snap, hd>>
      /\ \A u \in Threads \ {t} : pc'[u] = pc[u] /\ head'[u] = head[u]
  BY <1>1 DEF TypeOK, ClearOwn, Set, To, member, local
<1>3. tag[t] # None /\ idx[t] = None
  BY <1>1, <1>2 DEF LocalsOK, DonePC
<1>4. \A c \in Threads : pc[c] # "heads"
  BY <1>2, NotTaking
<1>5. \A c \in Threads : pc'[c] # "heads"
  BY <1>2, <1>4
<1>6. t \notin heads
  BY <1>1, <1>2, <1>3, <1>4 DEF HeadsOK, HeadOK, OwnTaken
<1>7. ASSUME NEW u \in Threads \ {t} PROVE HeadOK(u)'
  <2>1. HeadOK(u)
    BY <1>1 DEF HeadsOK
  <2>2. Old(u) => Listed(u)'
    BY <1>2, <1>3, <1>4, <2>1, OthersDoNot DEF HeadOK, Listed
  <2> QED BY <1>2, <1>4, <1>5, <2>1, <2>2, HeadSame
<1>8. HeadOK(t)'
  BY <1>2, <1>6 DEF HeadOK, New, Old, OwnTaken
<1>9. \A c \in Threads : ScanOK(c)'
  BY <1>1, <1>2, <1>3, OthersDoNot DEF ScanOK
<1> QED BY <1>7, <1>8, <1>9 DEF HeadsOK

LEMMA HeadsOther == ASSUME BInv, NEW t \in Threads, Other(t) PROVE HeadsOK'
<1>1. TypeOK /\ LocalsOK /\ PhaseOK /\ HeadsOK
  BY DEF BInv
<1>2. pc[t] = "other" /\ tag[t] # None /\ tag[t] = state.tag /\ cur[t] = None
  BY <1>1, OtherEffect DEF LocalsOK, DonePC, PhaseOK
<1>3. PICK i \in snap[t] :
        /\ snap'[t] = snap[t] \ {i}
        /\ \/ /\ head[i] # None /\ head[i].tag # tag[t]
              /\ pc'[t] = "cas" /\ idx'[t] = i /\ hd'[t] = head[i].tag
           \/ /\ head[i] # None /\ head[i].tag = tag[t]
              /\ pc'[t] = "own" /\ idx'[t] = i
           \/ head[i] = None /\ pc'[t] = "other" /\ idx'[t] = None
  BY <1>1, OtherEffect
<1>4. /\ UNCHANGED <<state, heads, head, cur, tag>>
      /\ \A u \in Threads \ {t} : /\ pc'[u] = pc[u] /\ snap'[u] = snap[u]
                                  /\ idx'[u] = idx[u] /\ hd'[u] = hd[u]
  BY <1>1, OtherEffect
<1>5. \A c \in Threads : pc[c] # "heads"
  BY <1>2, NotTaking
<1>6. \A c \in Threads : pc'[c] # "heads"
  BY <1>3, <1>4, <1>5
<1>7. \A u \in Threads : Old(u) => Listed(u)'
  <2> SUFFICES ASSUME NEW u \in Threads, Old(u) PROVE Listed(u)'
    OBVIOUS
  <2>1. HeadOK(u) /\ ~OwnTaken(t)
    BY <1>1, <1>2 DEF HeadsOK, OwnTaken
  <2>2. u \in snap[t]
    BY <1>2, <1>5, <2>1, OthersDoNot DEF HeadOK, Listed
  <2>3. CASE u = i
    <3>1. pc'[t] = "cas" /\ idx'[t] = u
      BY <1>2, <1>3, <2>3 DEF Old
    <3> QED BY <3>1 DEF Listed
  <2>4. CASE u # i
    <3>1. u \in snap'[t]
      BY <1>3, <2>2, <2>4
    <3> QED BY <3>1 DEF Listed
  <2> QED BY <2>3, <2>4
<1>8. ASSUME NEW u \in Threads \ {t} PROVE HeadOK(u)'
  BY <1>1, <1>4, <1>5, <1>6, <1>7, HeadSame DEF HeadsOK
<1>9. HeadOK(t)'
  <2>1. HeadOK(t)
    BY <1>1 DEF HeadsOK
  <2>2. (New(t)' <=> New(t)) /\ (Old(t)' <=> Old(t)) /\ pc'[t] \in {"cas", "own", "other"}
    BY <1>3, <1>4 DEF New, Old
  <2> QED BY <1>2, <1>4, <1>5, <1>6, <1>7, <2>1, <2>2 DEF HeadOK, OwnTaken
<1>10. ASSUME NEW c \in Threads PROVE ScanOK(c)'
  <2>1. CASE c = t
    <3>1. i \in Threads
      BY <1>1 DEF TypeOK
    <3>2. HeadOK(i) /\ head[i] \in HeadPtrs
      BY <1>1, <3>1 DEF HeadsOK, TypeOK
    <3> QED BY <1>2, <1>3, <1>4, <2>1, <3>2, RecordFacts DEF HeadOK, ScanOK, New, Old
  <2>2. CASE c # t
    BY <1>2, <1>4, <2>2, OthersDoNot DEF ScanOK
  <2> QED BY <2>1, <2>2
<1> QED BY <1>8, <1>9, <1>10 DEF HeadsOK

LEMMA HeadsCasHead == ASSUME BInv, NEW t \in Threads, CasHead(t) PROVE HeadsOK'
<1>1. TypeOK /\ LocalsOK /\ PhaseOK /\ HeadsOK
  BY DEF BInv
<1> PICK i \in Threads : i = idx[t]
  BY <1>1 DEF CasHead, LocalsOK, TypeOK
<1>2. pc[t] = "cas" /\ tag[t] # None /\ cur[t] = None /\ i = idx[t] /\ i # None
  BY <1>1, ConstFacts DEF CasHead, LocalsOK, DonePC
<1>3. hd[t] \in Tags /\ NextTag(hd[t]) = state.tag
  BY <1>1, <1>2 DEF HeadsOK, ScanOK
<1>4. /\ UNCHANGED <<state, heads, cur, tag, snap>> /\ pc'[t] \in {"add", "other"}
      /\ \A u \in Threads \ {t} : pc'[u] = pc[u] /\ idx'[u] = idx[u]
      /\ \A u \in Threads \ {i} : head'[u] = head[u]
  BY <1>1, <1>2, CasHeadEffect
<1>5. \A c \in Threads : pc[c] # "heads"
  BY <1>2, NotTaking
<1>6. \A c \in Threads : pc'[c] # "heads"
  BY <1>4, <1>5
<1>7. ASSUME NEW u \in Threads \ {i}, Old(u) PROVE Listed(u)'
  <2>1. HeadOK(u) /\ ~OwnTaken(t)
    BY <1>1, <1>2 DEF HeadsOK, OwnTaken
  <2>2. u \in snap[t]
    BY <1>2, <1>5, <1>7, <2>1, OthersDoNot DEF HeadOK, Listed
  <2> QED BY <1>4, <2>2 DEF Listed
<1>8. \A c \in Threads : ScanOK(c)'
  BY <1>2, <1>4, OthersDoNot DEF ScanOK
<1>9. HeadOK(t) /\ HeadOK(i) /\ head[i] \in HeadPtrs
  BY <1>1, <1>2 DEF HeadsOK, TypeOK
<1>10. CASE pc'[t] = "add"
  <2>1. head[i] # None /\ head[i].tag = hd[t] /\ head'[i] = None /\ idx'[t] = i
    BY <1>1, <1>2, <1>10, CasHeadEffect
  <2>2. Old(i) /\ ~New(i)
    BY <1>3, <2>1, ConstFacts DEF Old, New
  <2>3. i \notin heads /\ pc[i] \notin {"join", "count"}
    BY <1>5, <1>9, <2>2 DEF HeadOK
  <2>4. HeadOK(i)'
    <3>1. ~New(i)' /\ ~Old(i)' /\ i \notin heads'
      BY <1>4, <2>1, <2>3 DEF New, Old
    <3>2. ~OwnTaken(i)'
      BY <1>2, <1>4, <2>1, OthersDoNot DEF OwnTaken
    <3>3. pc'[i] \notin {"set", "join", "count"}
      <4>1. CASE i = t
        BY <1>10, <4>1
      <4>2. CASE i # t
        BY <1>2, <1>4, <1>9, <2>1, <2>3, <4>2 DEF HeadOK
      <4> QED BY <4>1, <4>2
    <3> QED BY <2>1, <3>1, <3>2, <3>3 DEF HeadOK
  <2>5. ASSUME NEW u \in Threads, u # i, u # t PROVE HeadOK(u)'
    <3>1. HeadOK(u)
      BY <1>1 DEF HeadsOK
    <3> QED BY <1>4, <1>5, <1>6, <1>7, <2>5, <3>1, HeadSame
  <2>6. ASSUME t # i PROVE HeadOK(t)'
    <3>1. (New(t)' <=> New(t)) /\ (Old(t)' <=> Old(t))
      BY <1>4, <2>6 DEF New, Old
    <3>2. Old(t) => Listed(t)'
      BY <1>7, <2>6
    <3>3. ~OwnTaken(t)' /\ tag'[t] # None
      BY <1>2, <1>4, <2>1 DEF OwnTaken
    <3>4. head'[t] = head[t] /\ heads' = heads /\ state' = state
      BY <1>4, <2>6
    <3> QED BY <1>2, <1>5, <1>6, <1>9, <1>10, <3>1, <3>2, <3>3, <3>4 DEF HeadOK
  <2> QED BY <1>8, <2>4, <2>5, <2>6 DEF HeadsOK
<1>11. CASE pc'[t] = "other"
  <2>1. (head[i] # None => head[i].tag # hd[t]) /\ idx'[t] = None /\ head' = head
    BY <1>1, <1>2, <1>11, CasHeadEffect
  <2>2. ~Old(i)
    BY <1>3, <1>9, <2>1, ConstFacts, RecordFacts DEF Old, HeadOK
  <2>3. \A u \in Threads : Old(u) => Listed(u)'
    BY <1>7, <2>2
  <2>4. ASSUME NEW u \in Threads, u # t PROVE HeadOK(u)'
    <3>1. HeadOK(u)
      BY <1>1 DEF HeadsOK
    <3> QED BY <1>4, <1>5, <1>6, <2>1, <2>3, <2>4, <3>1, HeadSame
  <2>5. HeadOK(t)'
    <3>1. (New(t)' <=> New(t)) /\ (Old(t)' <=> Old(t)) /\ ~OwnTaken(t)'
      BY <1>4, <1>11, <2>1 DEF New, Old, OwnTaken
    <3> QED BY <1>2, <1>4, <1>5, <1>6, <1>9, <1>11, <2>1, <2>3, <3>1 DEF HeadOK
  <2> QED BY <1>8, <2>4, <2>5 DEF HeadsOK
<1> QED BY <1>4, <1>10, <1>11

LEMMA HeadsNextPhase == ASSUME BInv, NEW t \in Threads, NextPhase(t) PROVE HeadsOK'
<1>1. TypeOK /\ LocalsOK /\ PhaseOK /\ HeadsOK
  BY DEF BInv
<1>2. pc[t] = "next" /\ tag[t] # None /\ tag[t] = state.tag
  BY <1>1, NextPhaseEffect DEF LocalsOK, DonePC, PhaseOK
<1>3. CASE pc' = [pc EXCEPT ![t] = "heads"]
  <2>1. pc'[t] = "heads"
    BY <1>1, <1>3 DEF TypeOK
  <2>2. state.count = 1 /\ state'.tag = NextTag(state.tag) /\ UNCHANGED <<head, heads>>
    BY <1>1, <1>2, <2>1, NextPhaseEffect DEF Completing
  <2>3. \A u \in Threads \ {t} : pc[u] = "idle"
    BY <1>2, <2>2, LastCompleter
  <2> QED BY <1>1, <1>2, <1>3, <2>2, <2>3, HeadsStart
<1>4. CASE pc' # [pc EXCEPT ![t] = "heads"]
  <2>1. /\ pc'[t] = "other" /\ UNCHANGED <<state, heads, head, cur, tag, snap, idx, hd>>
        /\ \A u \in Threads \ {t} : pc'[u] = pc[u]
    BY <1>1, <1>2, <1>4, NextPhaseEffect
  <2>2. \A c \in Threads : pc[c] # "heads"
    BY <1>2, NotTaking
  <2>3. \A u \in Threads : HeadOK(u) /\ ScanOK(u)
    BY <1>1 DEF HeadsOK
  <2>4. \A u \in Threads : ~Old(u)
    <3>1. ~OwnTaken(t) /\ snap[t] = {}
      BY <1>1, <1>2 DEF OwnTaken, LocalsOK
    <3> QED BY <1>2, <2>2, <2>3, <3>1, OthersDoNot DEF HeadOK, Listed
  <2>5. \A u \in Threads : (New(u)' <=> New(u)) /\ (Old(u)' <=> Old(u)) /\ (OwnTaken(u)' <=> OwnTaken(u))
    BY <1>2, <2>1 DEF New, Old, OwnTaken
  <2>6. \A u \in Threads : HeadOK(u)'
    BY <1>2, <2>1, <2>2, <2>3, <2>4, <2>5 DEF HeadOK
  <2>7. \A u \in Threads : ScanOK(u)'
    BY <1>2, <2>1, <2>3 DEF ScanOK, New
  <2> QED BY <2>6, <2>7 DEF HeadsOK
<1> QED BY <1>3, <1>4

LEMMA HeadsSimple ==
  ASSUME BInv, NEW t \in Threads,
         Sync(t) \/ Resign(t) \/ ReadHead(t) \/ SetBit(t) \/ ResignHeads(t) \/ AddCount(t) \/
         Release(t) \/ TakeHeads(t) \/ KeepBit(t) \/ Done(t) \/ Test(t) \/ End(t)
  PROVE  HeadsOK'
<1> USE ConstFacts
    DEF BInv, TypeOK, LocalsOK, CallPC, DonePC, PhaseOK, OneCompleter, HeadsOK, HeadOK, ScanOK,
        OwnTaken, Listed, New, Old, HeadPtrs, Set, To, shared, member, local
<1>1. CASE Sync(t) BY <1>1 DEF Sync
<1>2. CASE Resign(t) BY <1>2 DEF Resign
<1>3. CASE ReadHead(t) BY <1>3 DEF ReadHead
<1>4. CASE SetBit(t) BY <1>4 DEF SetBit
<1>5. CASE ResignHeads(t) BY <1>5 DEF ResignHeads
<1>6. CASE AddCount(t) BY <1>6 DEF AddCount
<1>7. CASE Release(t) BY <1>7 DEF Release
<1>8. CASE TakeHeads(t) BY <1>8 DEF TakeHeads
<1>9. CASE KeepBit(t) BY <1>9 DEF KeepBit
<1>10. CASE Done(t) BY <1>10 DEF Done
<1>11. CASE Test(t) BY <1>11 DEF Test
<1>12. CASE End(t) BY <1>12 DEF End
<1> QED BY <1>1, <1>2, <1>3, <1>4, <1>5, <1>6, <1>7, <1>8, <1>9, <1>10, <1>11, <1>12

LEMMA HeadsStep == BInv /\ [Next]_vars => HeadsOK'
<1> SUFFICES ASSUME BInv, [Next]_vars PROVE HeadsOK'
  OBVIOUS
<1>1. CASE UNCHANGED vars
  BY <1>1 DEF vars, shared, local, BInv, HeadsOK, HeadOK, ScanOK, OwnTaken, Listed, New, Old
<1>2. CASE Enroll
  BY <1>2 DEF Enroll, local, BInv, TypeOK, States, HeadsOK, HeadOK, ScanOK, OwnTaken, Listed,
              New, Old
<1>3. ASSUME NEW t \in Threads, Sync(t) \/ Resign(t) \/ Step(t) PROVE HeadsOK'
  BY <1>3, HeadsSimple, HeadsSwapOld, HeadsSetHead, HeadsJoin, HeadsCount,
     HeadsResignCas, HeadsClearOwn, HeadsOther, HeadsCasHead, HeadsNextPhase DEF Step
<1> QED BY <1>1, <1>2, <1>3 DEF Next

-----------------------------------------------------------------------------
(* The processes                                                           *)

LEMMA PlacesSwapOld == ASSUME BInv, NEW t \in Threads, SwapOld(t) PROVE PlacesOK'
<1>1. TypeOK /\ LocalsOK /\ PhaseOK /\ HeadsOK /\ PlacesOK
  BY DEF BInv
<1>2. pc[t] = "swap" /\ tag[t] = None /\ taken[t] = {}
  BY <1>1, SwapOldEffect DEF LocalsOK, CallPC
<1>3. \A p, u : u \in Threads => (InHead(p, u)' <=> InHead(p, u) /\ u # t)
  BY <1>1, <1>2, SwapOldEffect DEF InHead, Live, OwnTaken
<1>4. \A p \in taken'[t] : InHead(p, t) /\ p \in Procs
  BY <1>1, <1>2, SwapOldEffect, RecordFacts DEF InHead, Live, OwnTaken, TypeOK
<1>5. \A p : InHead(p, t) => p \in taken'[t]
  BY <1>1, SwapOldEffect DEF InHead, Live
<1>6. /\ UNCHANGED <<ready, enrolled, cur>>
      /\ \A u \in Threads \ {t} : taken'[u] = taken[u] /\ pc'[u] = pc[u]
  BY <1>1, SwapOldEffect
<1>7. CallerPlace'
  BY <1>1, <1>6 DEF PlacesOK, CallerPlace
<1>8. TakenPlace'
  BY <1>1, <1>2, <1>4, <1>6 DEF PlacesOK, TakenPlace, HeadPlace
<1>9. HeadPlace'
  BY <1>1, <1>2, <1>3, <1>4, <1>6 DEF PlacesOK, HeadPlace
<1>10. SomePlace'
  BY <1>1, <1>2, <1>3, <1>5, <1>6 DEF PlacesOK, SomePlace
<1> QED BY <1>7, <1>8, <1>9, <1>10 DEF PlacesOK

LEMMA PlacesSetHead == ASSUME BInv, NEW t \in Threads, SetHead(t) PROVE PlacesOK'
<1>1. TypeOK /\ LocalsOK /\ PhaseOK /\ HeadsOK /\ PlacesOK
  BY DEF BInv
<1>2. pc[t] = "set" /\ head[t] = None
  BY <1>1, SetHeadEffect DEF HeadsOK, HeadOK
<1>3. \A p, u : u \in Threads => (InHead(p, u)' <=> InHead(p, u))
  BY <1>1, <1>2, SetHeadEffect DEF InHead, Live, OwnTaken
<1>4. /\ UNCHANGED <<ready, enrolled, cur, taken>> /\ pc'[t] # "count"
      /\ \A u \in Threads \ {t} : pc'[u] = pc[u]
  BY <1>1, SetHeadEffect
<1>5. CallerPlace' /\ TakenPlace'
  BY <1>1, <1>4 DEF PlacesOK, CallerPlace, TakenPlace
<1>6. HeadPlace'
  BY <1>1, <1>2, <1>3, <1>4 DEF PlacesOK, HeadPlace
<1>7. SomePlace'
  BY <1>1, <1>3, <1>4 DEF PlacesOK, SomePlace
<1> QED BY <1>5, <1>6, <1>7 DEF PlacesOK

LEMMA PlacesJoin == ASSUME BInv, NEW t \in Threads, Join(t) PROVE PlacesOK'
<1>1. TypeOK /\ LocalsOK /\ PhaseOK /\ HeadsOK /\ PlacesOK
  BY DEF BInv
<1>2. pc[t] = "join" /\ cur[t] # None /\ tag[t] = None
  BY <1>1 DEF Join, LocalsOK, CallPC
<1>3. \A p, u : u \in Threads => (InHead(p, u)' <=> InHead(p, u) \/ (u = t /\ p = cur[t]))
  BY <1>1, <1>2, JoinEffect DEF InHead, Live, OwnTaken
<1>4. /\ UNCHANGED <<ready, enrolled, cur, taken>> /\ pc'[t] = "count"
      /\ \A u \in Threads \ {t} : pc'[u] = pc[u]
  BY <1>1, <1>2, JoinEffect
<1>5. CallerPlace' /\ TakenPlace'
  BY <1>1, <1>4 DEF PlacesOK, CallerPlace, TakenPlace
<1>6. HeadPlace'
  <2>1. \A u \in Threads : ~InHead(cur[t], u)
    BY <1>1, <1>2 DEF PlacesOK, HeadPlace, CallerPlace, TypeOK
  <2> QED BY <1>1, <1>2, <1>3, <1>4, <2>1 DEF PlacesOK, HeadPlace, CallerPlace, TakenPlace
<1>7. SomePlace'
  BY <1>1, <1>3, <1>4 DEF PlacesOK, SomePlace
<1> QED BY <1>5, <1>6, <1>7 DEF PlacesOK

LEMMA PlacesCount == ASSUME BInv, NEW t \in Threads, Count(t) PROVE PlacesOK'
<1>1. TypeOK /\ LocalsOK /\ PhaseOK /\ HeadsOK /\ PlacesOK
  BY DEF BInv
<1>2. pc[t] = "count" /\ tag[t] = None /\ cur[t] # None
  BY <1>1, CountEffect DEF LocalsOK, CallPC
<1>3. pc'[t] \in {"heads", "idle", "count"} /\ tag'[t] \in {None, NextTag(state.tag)}
  BY <1>1, <1>2, CountEffect DEF TypeOK
<1>4. \A p, u : u \in Threads => (InHead(p, u)' <=> InHead(p, u))
  BY <1>1, <1>2, <1>3, CountEffect DEF InHead, Live, OwnTaken
<1>5. /\ UNCHANGED <<ready, enrolled, taken>>
      /\ cur'[t] = None \/ (cur'[t] = cur[t] /\ pc'[t] = "count")
      /\ \A u \in Threads \ {t} : pc'[u] = pc[u] /\ cur'[u] = cur[u]
  BY <1>1, <1>2, CountEffect DEF TypeOK
<1>6. InHead(cur[t], t)
  BY <1>1, <1>2 DEF HeadsOK, HeadOK, InHead, Live, OwnTaken, New
<1>7. CallerPlace' /\ TakenPlace'
  BY <1>1, <1>2, <1>5, ConstFacts DEF PlacesOK, CallerPlace, TakenPlace, TypeOK
<1>8. HeadPlace'
  BY <1>1, <1>2, <1>4, <1>5, ConstFacts DEF PlacesOK, HeadPlace
<1>9. SomePlace'
  BY <1>1, <1>4, <1>5, <1>6 DEF PlacesOK, SomePlace
<1> QED BY <1>7, <1>8, <1>9 DEF PlacesOK

LEMMA PlacesTakeHeads == ASSUME BInv, NEW t \in Threads, TakeHeads(t) PROVE PlacesOK'
<1>1. TypeOK /\ LocalsOK /\ PhaseOK /\ HeadsOK /\ PlacesOK
  BY DEF BInv
<1>2. pc[t] = "heads" /\ tag[t] # None /\ taken[t] = {} /\ idx[t] = None /\ cur[t] = None
  BY <1>1, TakeHeadsEffect DEF LocalsOK, DonePC
<1>3. t \in heads => head[t] # None
  BY <1>1, <1>2 DEF HeadsOK, HeadOK
<1>4. /\ UNCHANGED <<ready, enrolled, cur>> /\ pc'[t] # "count"
      /\ \A u \in Threads \ {t} : taken'[u] = taken[u] /\ pc'[u] = pc[u]
  BY <1>1, TakeHeadsEffect
<1>5. CallerPlace'
  BY <1>1, <1>4 DEF PlacesOK, CallerPlace
<1>6. CASE t \in heads
  <2>1. \A p, u : u \in Threads => (InHead(p, u)' <=> InHead(p, u) /\ u # t)
    BY <1>1, <1>2, <1>6, TakeHeadsEffect DEF InHead, Live, OwnTaken
  <2>2. \A p : p \in taken'[t] <=> InHead(p, t)
    BY <1>1, <1>2, <1>3, <1>6, TakeHeadsEffect DEF InHead, Live, OwnTaken
  <2>3. \A p \in taken'[t] : p \in Procs
    BY <1>1, <1>3, <1>6, TakeHeadsEffect, RecordFacts DEF TypeOK
  <2>4. TakenPlace'
    BY <1>1, <1>2, <1>4, <2>2, <2>3 DEF PlacesOK, TakenPlace, HeadPlace
  <2>5. HeadPlace'
    BY <1>1, <1>2, <1>4, <2>1, <2>2, ConstFacts DEF PlacesOK, HeadPlace
  <2>6. SomePlace'
    BY <1>1, <1>2, <1>4, <2>1, <2>2 DEF PlacesOK, SomePlace
  <2> QED BY <1>5, <2>4, <2>5, <2>6 DEF PlacesOK
<1>7. CASE t \notin heads
  <2>1. taken' = taken /\ pc'[t] = "other"
    BY <1>1, <1>7, TakeHeadsEffect
  <2>2. \A p, u : u \in Threads => (InHead(p, u)' <=> InHead(p, u))
    BY <1>1, <1>2, <2>1, TakeHeadsEffect DEF InHead, Live, OwnTaken
  <2>3. TakenPlace' /\ HeadPlace' /\ SomePlace'
    BY <1>1, <1>2, <1>4, <2>1, <2>2, ConstFacts DEF PlacesOK, TakenPlace, HeadPlace, SomePlace
  <2> QED BY <1>5, <2>3 DEF PlacesOK
<1> QED BY <1>6, <1>7

LEMMA PlacesCasHead == ASSUME BInv, NEW t \in Threads, CasHead(t) PROVE PlacesOK'
<1>1. TypeOK /\ LocalsOK /\ PhaseOK /\ HeadsOK /\ PlacesOK
  BY DEF BInv
<1> PICK i \in Threads : i = idx[t]
  BY <1>1 DEF CasHead, LocalsOK, TypeOK
<1>2. pc[t] = "cas" /\ tag[t] # None /\ cur[t] = None /\ i = idx[t] /\ i # None /\ taken[t] = {}
  BY <1>1, ConstFacts DEF CasHead, LocalsOK, DonePC
<1>3. /\ UNCHANGED <<ready, enrolled, cur, tag>> /\ pc'[t] \in {"add", "other"}
      /\ \A u \in Threads \ {t} : pc'[u] = pc[u] /\ idx'[u] = idx[u] /\ taken'[u] = taken[u]
      /\ \A u \in Threads \ {i} : head'[u] = head[u]
  BY <1>1, <1>2, CasHeadEffect
<1>4. \A u \in Threads : ~OwnTaken(u)
  BY <1>2, OthersDoNot DEF OwnTaken
<1>5. CallerPlace'
  BY <1>1, <1>3 DEF PlacesOK, CallerPlace
<1>6. CASE pc'[t] = "add"
  <2>1. head[i] # None /\ head'[i] = None /\ taken'[t] = head[i].ps /\ idx' = idx
    BY <1>1, <1>2, <1>6, CasHeadEffect
  <2>2. \A u \in Threads : ~OwnTaken(u)'
    BY <1>2, <1>3, <1>4, <2>1 DEF OwnTaken
  <2>3. \A p, u : u \in Threads => (InHead(p, u)' <=> InHead(p, u) /\ u # i)
    BY <1>3, <1>4, <2>1, <2>2 DEF InHead, Live
  <2>4. \A p : p \in taken'[t] <=> InHead(p, i)
    BY <1>4, <2>1 DEF InHead, Live
  <2>5. \A p \in taken'[t] : p \in Procs
    BY <1>1, <2>1, RecordFacts DEF TypeOK
  <2>6. TakenPlace'
    <3> SUFFICES ASSUME NEW u \in Threads, NEW p \in taken'[u]
                 PROVE  p \in enrolled \ ready /\ \A v \in Threads : cur[v] # p /\ (p \in taken'[v] => v = u)
      BY <1>3 DEF TakenPlace
    <3>1. CASE u = t
      <4>1. InHead(p, i) /\ p \in Procs
        BY <2>4, <2>5, <3>1
      <4>2. p \in enrolled \ ready /\ \A v \in Threads : p \notin taken[v] /\ (cur[v] = p => v = i /\ pc[v] = "count")
        BY <1>1, <4>1 DEF PlacesOK, HeadPlace
      <4>3. pc[i] # "count"
        <5>1. Old(i)
          BY <1>1, <1>2, <2>1, CasHeadEffect, ConstFacts, <1>6 DEF HeadsOK, ScanOK, Old
        <5> QED BY <1>1, <5>1 DEF HeadsOK, HeadOK, New, Old
      <4> QED BY <1>3, <3>1, <4>2, <4>3
    <3>2. CASE u # t
      <4>1. p \in taken[u]
        BY <1>3, <3>2
      <4>2. ~InHead(p, i)
        BY <1>1, <4>1 DEF PlacesOK, HeadPlace, TakenPlace, TypeOK
      <4> QED BY <1>1, <1>3, <2>4, <4>1, <4>2 DEF PlacesOK, TakenPlace
    <3> QED BY <3>1, <3>2
  <2>7. HeadPlace'
    BY <1>1, <1>2, <1>3, <2>3, <2>4, ConstFacts DEF PlacesOK, HeadPlace
  <2>8. SomePlace'
    BY <1>1, <1>2, <1>3, <2>3, <2>4 DEF PlacesOK, SomePlace
  <2> QED BY <1>5, <2>6, <2>7, <2>8 DEF PlacesOK
<1>7. CASE pc'[t] = "other"
  <2>1. UNCHANGED <<head, taken>>
    BY <1>1, <1>2, <1>7, CasHeadEffect
  <2>2. \A u \in Threads : ~OwnTaken(u)'
    BY <1>3, <1>4, <1>7 DEF OwnTaken
  <2>3. \A p, u : u \in Threads => (InHead(p, u)' <=> InHead(p, u))
    BY <1>4, <2>1, <2>2 DEF InHead, Live
  <2>4. TakenPlace' /\ HeadPlace' /\ SomePlace'
    BY <1>1, <1>2, <1>3, <2>1, <2>3, ConstFacts DEF PlacesOK, TakenPlace, HeadPlace, SomePlace
  <2> QED BY <1>5, <2>4 DEF PlacesOK
<1> QED BY <1>3, <1>6, <1>7

LEMMA PlacesEnd == ASSUME BInv, NEW t \in Threads, End(t) PROVE PlacesOK'
<1>1. TypeOK /\ LocalsOK /\ PhaseOK /\ HeadsOK /\ PlacesOK
  BY DEF BInv
<1>2. pc[t] = "end" /\ cur[t] = None /\ pc'[t] \in {"idle", "other"}
  BY <1>1, EndEffect DEF LocalsOK, DonePC
<1>3. /\ UNCHANGED <<ready, enrolled, cur, taken, head, idx>>
      /\ \A u \in Threads \ {t} : pc'[u] = pc[u] /\ tag'[u] = tag[u]
  BY <1>1, EndEffect
<1>4. \A p, u : u \in Threads => (InHead(p, u)' <=> InHead(p, u))
  BY <1>2, <1>3 DEF InHead, Live, OwnTaken
<1>5. CallerPlace' /\ TakenPlace'
  BY <1>1, <1>3 DEF PlacesOK, CallerPlace, TakenPlace
<1>6. HeadPlace' /\ SomePlace'
  BY <1>1, <1>2, <1>3, <1>4, ConstFacts DEF PlacesOK, HeadPlace, SomePlace
<1> QED BY <1>5, <1>6 DEF PlacesOK

LEMMA PlacesSimple ==
  ASSUME BInv, NEW t \in Threads,
         Sync(t) \/ Resign(t) \/ ReadHead(t) \/ SetBit(t) \/ ResignHeads(t) \/ ResignCas(t)
         \/ AddCount(t) \/ Release(t) \/ ClearOwn(t) \/ Other(t) \/ KeepBit(t) \/ Done(t) \/
         Test(t) \/ NextPhase(t)
  PROVE  PlacesOK'
<1> USE ConstFacts
    DEF BInv, TypeOK, LocalsOK, CallPC, DonePC, PlacesOK, CallerPlace, TakenPlace, HeadPlace,
        SomePlace, InHead, Live, OwnTaken, Set, To, shared, member, local
<1>1. CASE Sync(t) BY <1>1 DEF Sync
<1>2. CASE Resign(t) BY <1>2 DEF Resign
<1>3. CASE ReadHead(t) BY <1>3 DEF ReadHead
<1>4. CASE SetBit(t) BY <1>4 DEF SetBit
<1>5. CASE ResignHeads(t) BY <1>5 DEF ResignHeads
<1>6. CASE ResignCas(t) BY <1>6, ResignCasEffect
<1>7. CASE AddCount(t) BY <1>7 DEF AddCount
<1>8. CASE Release(t) BY <1>8 DEF Release
<1>9. CASE ClearOwn(t) BY <1>9 DEF ClearOwn
<1>10. CASE Other(t) BY <1>10, OtherEffect
<1>11. CASE KeepBit(t) BY <1>11 DEF KeepBit
<1>12. CASE Done(t) BY <1>12 DEF Done
<1>13. CASE Test(t) BY <1>13 DEF Test
<1>14. CASE NextPhase(t) BY <1>14, NextPhaseEffect
<1> QED BY <1>1, <1>2, <1>3, <1>4, <1>5, <1>6, <1>7, <1>8, <1>9, <1>10, <1>11, <1>12,
           <1>13, <1>14

LEMMA PlacesStep == BInv /\ [Next]_vars => PlacesOK'
<1> SUFFICES ASSUME BInv, [Next]_vars PROVE PlacesOK'
  OBVIOUS
<1>1. CASE UNCHANGED vars
  BY <1>1 DEF vars, shared, member, local, BInv, PlacesOK, CallerPlace, TakenPlace, HeadPlace,
              SomePlace, InHead, Live, OwnTaken
<1>2. CASE Enroll
  BY <1>2 DEF Enroll, local, BInv, TypeOK, PlacesOK, CallerPlace, TakenPlace, HeadPlace,
              SomePlace, InHead, Live, OwnTaken
<1>3. ASSUME NEW t \in Threads, Sync(t) \/ Resign(t) \/ Step(t) PROVE PlacesOK'
  BY <1>3, PlacesSimple, PlacesSwapOld, PlacesSetHead, PlacesJoin, PlacesCount,
     PlacesTakeHeads, PlacesCasHead, PlacesEnd DEF Step
<1> QED BY <1>1, <1>2, <1>3 DEF Next

-----------------------------------------------------------------------------
(* Those that have come                                                    *)

\* A head of this phase has not been taken, so that whoever has come is in it
\* and nowhere else.
LEMMA NewLive ==
  ASSUME BInv, NEW t \in Threads, New(t)
  PROVE  Live(t) /\ \A p \in head[t].ps : p \in Procs /\ InHead(p, t)
<1>1. TypeOK /\ HeadOK(t)
  BY DEF BInv, HeadsOK
<1>2. ~OwnTaken(t) /\ head[t] # None
  BY <1>1 DEF HeadOK, New, Old
<1>3. head[t].ps \subseteq Procs
  BY <1>1, <1>2, RecordFacts DEF TypeOK
<1> QED BY <1>2, <1>3 DEF Live, InHead

LEMMA SyncedPlace ==
  ASSUME BInv, NEW p \in synced
  PROVE  p \notin ready /\ \A u \in Threads : cur[u] # p /\ p \notin taken[u]
<1>1. PICK t \in Threads : New(t) /\ p \in head[t].ps
  BY DEF BInv, SyncedOK
<1>2. p \in Procs /\ InHead(p, t)
  BY <1>1, NewLive
<1> QED BY <1>2 DEF BInv, SyncedOK, PlacesOK, HeadPlace

\* When a completion starts nobody has come in the new phase.
LEMMA SyncedStart ==
  ASSUME HeadsOK', NEW t \in Threads, pc'[t] = "heads", synced' = {}
  PROVE  SyncedOK'
<1>1. \A u \in Threads : ~New(u)'
  BY DEF HeadsOK, HeadOK
<1> QED BY <1>1 DEF SyncedOK

LEMMA SyncedSwapOld == ASSUME BInv, NEW t \in Threads, SwapOld(t) PROVE SyncedOK'
<1>1. TypeOK /\ SyncedOK /\ HeadOK(t)
  BY DEF BInv, HeadsOK
<1>2. ~New(t)
  BY <1>1, SwapOldEffect DEF HeadOK
<1>3. \A u \in Threads : New(u)' <=> New(u)
  BY <1>1, <1>2, SwapOldEffect DEF New
<1>4. UNCHANGED <<synced, cur>> /\ \A u \in Threads : New(u) => head'[u] = head[u]
  BY <1>1, <1>2, SwapOldEffect
<1> QED BY <1>1, <1>3, <1>4 DEF SyncedOK

LEMMA SyncedSetHead == ASSUME BInv, NEW t \in Threads, SetHead(t) PROVE SyncedOK'
<1>1. TypeOK /\ SyncedOK /\ HeadOK(t)
  BY DEF BInv, HeadsOK
<1>2. head[t] = None
  BY <1>1, SetHeadEffect DEF HeadOK
<1>3. \A u \in Threads \ {t} : (New(u)' <=> New(u)) /\ head'[u] = head[u]
  BY <1>1, SetHeadEffect DEF New
<1>4. UNCHANGED <<synced, cur>> /\ ~New(t) /\ head'[t].ps = {}
  BY <1>1, <1>2, SetHeadEffect DEF New
<1> QED BY <1>1, <1>3, <1>4 DEF SyncedOK

LEMMA SyncedJoin == ASSUME BInv, NEW t \in Threads, Join(t) PROVE SyncedOK'
<1>1. TypeOK /\ SyncedOK /\ HeadOK(t) /\ LocalsOK
  BY DEF BInv, HeadsOK
<1>2. cur[t] # None
  BY <1>1 DEF Join, LocalsOK, CallPC
<1>3. \A u \in Threads \ {t} : (New(u)' <=> New(u)) /\ head'[u] = head[u]
  BY <1>1, <1>2, JoinEffect DEF New
<1>4. New(t) /\ New(t)' /\ head'[t].ps = head[t].ps \cup {cur[t]} /\ UNCHANGED <<synced, cur>>
  BY <1>1, <1>2, JoinEffect DEF HeadOK, New
<1> QED BY <1>1, <1>3, <1>4 DEF SyncedOK

LEMMA SyncedCount == ASSUME BInv, NEW t \in Threads, Count(t) PROVE SyncedOK'
<1>1. TypeOK /\ SyncedOK /\ HeadOK(t) /\ LocalsOK /\ PlacesOK
  BY DEF BInv, HeadsOK
<1>2. pc[t] = "count" /\ cur[t] # None /\ New(t) /\ cur[t] \in head[t].ps
  BY <1>1, CountEffect DEF HeadOK, LocalsOK, CallPC
<1>3. CASE pc'[t] = "heads"
  <2>1. Count(t) => [Next]_vars
    BY DEF Next, Step
  <2>2. HeadsOK'
    BY <2>1, HeadsStep
  <2>3. synced' = {}
    BY <1>1, <1>2, <1>3, CountEffect
  <2> QED BY <1>3, <2>2, <2>3, SyncedStart
<1>4. CASE pc'[t] = "idle"
  <2>1. /\ head' = head /\ synced' = synced \cup {cur[t]} /\ cur'[t] = None /\ state'.tag = state.tag
        /\ \A u \in Threads \ {t} : cur'[u] = cur[u]
    BY <1>1, <1>2, <1>4, CountEffect DEF TypeOK
  <2>2. \A u \in Threads : New(u)' <=> New(u)
    BY <2>1 DEF New
  <2>3. \A u \in Threads \ {t} : cur[u] # cur[t]
    BY <1>1, <1>2 DEF PlacesOK, CallerPlace
  <2>4. None \notin synced
    BY <1>1, ConstFacts DEF TypeOK
  <2> QED BY <1>1, <1>2, <2>1, <2>2, <2>3, <2>4 DEF SyncedOK
<1>5. CASE pc'[t] = "count"
  <2>1. UNCHANGED <<head, synced, cur, state>>
    BY <1>1, <1>5, CountEffect DEF TypeOK
  <2> QED BY <1>1, <2>1 DEF SyncedOK, New
<1>6. pc'[t] \in {"heads", "idle", "count"}
  BY <1>1, CountEffect DEF TypeOK
<1> QED BY <1>3, <1>4, <1>5, <1>6

LEMMA SyncedResignCas == ASSUME BInv, NEW t \in Threads, ResignCas(t) PROVE SyncedOK'
<1>1. TypeOK /\ SyncedOK /\ ResignOK /\ LocalsOK /\ PlacesOK
  BY DEF BInv
<1>2. pc[t] \in {"resign", "rlast", "rnone"} /\ cur[t] # None /\ cur[t] \in Procs
  BY <1>1, ResignCasEffect DEF LocalsOK, CallPC, TypeOK
<1>3. CASE pc'[t] = "heads"
  <2>1. ResignCas(t) => [Next]_vars
    BY DEF Next, Step
  <2>2. HeadsOK'
    BY <2>1, HeadsStep
  <2>3. synced' = {}
    BY <1>1, <1>2, <1>3, ResignCasEffect
  <2> QED BY <1>3, <2>2, <2>3, SyncedStart
<1>4. CASE pc'[t] # "heads"
  <2>1. /\ UNCHANGED <<head, synced>> /\ state'.tag = state.tag /\ cur'[t] \in {None, cur[t]}
        /\ \A u \in Threads \ {t} : cur'[u] = cur[u]
    BY <1>1, <1>2, <1>4, ResignCasEffect DEF TypeOK
  <2>2. \A u \in Threads : New(u)' <=> New(u)
    BY <2>1 DEF New
  <2>3. \A u \in Threads : New(u) => cur[t] \notin head[u].ps
    <3> SUFFICES ASSUME NEW u \in Threads, New(u), cur[t] \in head[u].ps PROVE FALSE
      OBVIOUS
    <3>1. InHead(cur[t], u)
      BY NewLive
    <3> QED BY <1>1, <1>2, <3>1 DEF PlacesOK, HeadPlace
  <2>4. None \notin synced
    BY <1>1, ConstFacts DEF TypeOK
  <2> QED BY <1>1, <2>1, <2>2, <2>3, <2>4 DEF SyncedOK
<1> QED BY <1>3, <1>4

LEMMA SyncedNextPhase == ASSUME BInv, NEW t \in Threads, NextPhase(t) PROVE SyncedOK'
<1>1. TypeOK /\ SyncedOK /\ PhaseOK
  BY DEF BInv
<1>2. CASE pc'[t] = "heads"
  <2>1. NextPhase(t) => [Next]_vars
    BY DEF Next, Step
  <2>2. HeadsOK'
    BY <2>1, HeadsStep
  <2>3. synced' = {}
    BY <1>1, <1>2, NextPhaseEffect
  <2> QED BY <1>2, <2>2, <2>3, SyncedStart
<1>3. CASE pc'[t] # "heads"
  <2>1. UNCHANGED <<head, synced, cur, state>>
    BY <1>1, <1>3, NextPhaseEffect DEF TypeOK
  <2> QED BY <1>1, <2>1 DEF SyncedOK, New
<1> QED BY <1>2, <1>3

LEMMA SyncedClearOwn == ASSUME BInv, NEW t \in Threads, ClearOwn(t) PROVE SyncedOK'
<1>1. TypeOK /\ SyncedOK /\ HeadOK(t) /\ LocalsOK
  BY DEF BInv, HeadsOK
<1>2. /\ pc[t] = "clear" /\ head'[t] = None /\ UNCHANGED <<state, synced, cur>>
      /\ \A u \in Threads \ {t} : head'[u] = head[u]
  BY <1>1 DEF TypeOK, ClearOwn, Set, To, member, local
<1>3. ~New(t)
  BY <1>1, <1>2 DEF LocalsOK, DonePC, HeadOK, OwnTaken, New, Old
<1>4. \A u \in Threads : (New(u)' <=> New(u)) /\ (New(u) => head'[u] = head[u])
  BY <1>2, <1>3 DEF New
<1> QED BY <1>1, <1>2, <1>4 DEF SyncedOK

LEMMA SyncedCasHead == ASSUME BInv, NEW t \in Threads, CasHead(t) PROVE SyncedOK'
<1>1. TypeOK /\ SyncedOK /\ ScanOK(t) /\ LocalsOK
  BY DEF BInv, HeadsOK
<1> PICK i \in Threads : i = idx[t]
  BY <1>1 DEF CasHead, LocalsOK, TypeOK
<1>2. /\ pc[t] = "cas" /\ UNCHANGED <<state, synced, cur>>
      /\ \A u \in Threads \ {i} : head'[u] = head[u]
      /\ head' = head \/ (head[i] # None /\ head[i].tag = hd[t] /\ head'[i] = None)
  BY <1>1, CasHeadEffect
<1>3. head' = head \/ ~New(i)
  BY <1>1, <1>2, ConstFacts DEF ScanOK, New
<1>4. \A u \in Threads : (New(u)' <=> New(u)) /\ (New(u) => head'[u] = head[u])
  BY <1>2, <1>3 DEF New
<1> QED BY <1>1, <1>2, <1>4 DEF SyncedOK

LEMMA SyncedEnd == ASSUME BInv, NEW t \in Threads, End(t) PROVE SyncedOK'
<1>1. TypeOK /\ SyncedOK /\ PhaseOK /\ LocalsOK
  BY DEF BInv
<1>2. tag[t] = state.tag
  BY <1>1, EndEffect DEF PhaseOK, LocalsOK, DonePC
<1>3. UNCHANGED <<head, synced, cur>> /\ state'.tag = state.tag
  BY <1>1, <1>2, EndEffect
<1> QED BY <1>1, <1>3 DEF SyncedOK, New

\* A process that starts to call has not come in this phase.
LEMMA SyncedCall ==
  ASSUME BInv, NEW t \in Threads, Sync(t) \/ Resign(t) PROVE SyncedOK'
<1>1. TypeOK /\ SyncedOK /\ LocalsOK
  BY DEF BInv
<1>2. /\ UNCHANGED <<state, head, synced>> /\ cur'[t] \in ready /\ cur[t] = None
      /\ \A u \in Threads \ {t} : cur'[u] = cur[u]
  BY <1>1 DEF Sync, Resign, Set, shared, LocalsOK, TypeOK
<1>3. cur'[t] \notin synced
  BY <1>2, SyncedPlace
<1>4. \A u \in Threads : New(u) => \A p \in head[u].ps : p \in synced \/ (cur[u] = p /\ u # t)
  <2> SUFFICES ASSUME NEW u \in Threads, New(u), NEW p \in head[u].ps
               PROVE  p \in synced \/ (cur[u] = p /\ u # t)
    OBVIOUS
  <2>1. p # None
    BY NewLive, ConstFacts
  <2>2. p \in synced \/ cur[u] = p
    BY <1>1 DEF SyncedOK
  <2> QED BY <1>2, <2>1, <2>2
<1>5. \A u \in Threads : (New(u)' <=> New(u)) /\ cur'[u] \notin synced'
  BY <1>1, <1>2, <1>3 DEF SyncedOK, New
<1>6. \A u \in Threads : New(u)' => \A p \in head'[u].ps : p \in synced' \/ cur'[u] = p
  BY <1>2, <1>4, <1>5
<1>7. \A p \in synced' : \E u \in Threads : New(u)' /\ p \in head'[u].ps
  BY <1>1, <1>2, <1>5 DEF SyncedOK
<1> QED BY <1>5, <1>6, <1>7 DEF SyncedOK

LEMMA SyncedSimple ==
  ASSUME BInv, NEW t \in Threads,
         ReadHead(t) \/ SetBit(t) \/ ResignHeads(t) \/ AddCount(t) \/ Release(t)
         \/ TakeHeads(t) \/ Other(t) \/ KeepBit(t) \/ Done(t) \/ Test(t)
  PROVE  SyncedOK'
<1> USE DEF BInv, SyncedOK, New, Set, To, shared, member, local
<1>2. CASE ReadHead(t) BY <1>2 DEF ReadHead
<1>3. CASE SetBit(t) BY <1>3 DEF SetBit
<1>4. CASE ResignHeads(t) BY <1>4 DEF ResignHeads
<1>5. CASE AddCount(t) BY <1>5 DEF AddCount
<1>6. CASE Release(t) BY <1>6 DEF Release
<1>7. CASE TakeHeads(t) BY <1>7 DEF TakeHeads
<1>8. CASE Other(t) BY <1>8 DEF Other
<1>9. CASE KeepBit(t) BY <1>9 DEF KeepBit
<1>10. CASE Done(t) BY <1>10 DEF Done
<1>11. CASE Test(t) BY <1>11 DEF Test
<1> QED BY <1>2, <1>3, <1>4, <1>5, <1>6, <1>7, <1>8, <1>9, <1>10, <1>11

LEMMA SyncedStep == BInv /\ [Next]_vars => SyncedOK'
<1> SUFFICES ASSUME BInv, [Next]_vars PROVE SyncedOK'
  OBVIOUS
<1>1. CASE UNCHANGED vars
  BY <1>1 DEF vars, shared, member, local, BInv, SyncedOK, New
<1>2. CASE Enroll
  BY <1>2 DEF Enroll, local, BInv, TypeOK, States, SyncedOK, New
<1>3. ASSUME NEW t \in Threads, Sync(t) \/ Resign(t) \/ Step(t) PROVE SyncedOK'
  BY <1>3, SyncedSimple, SyncedSwapOld, SyncedSetHead, SyncedJoin, SyncedCount,
     SyncedResignCas, SyncedNextPhase, SyncedClearOwn, SyncedCasHead, SyncedEnd,
     SyncedCall DEF Step
<1> QED BY <1>1, <1>2, <1>3 DEF Next

-----------------------------------------------------------------------------
(* The count                                                               *)

LEMMA DueKept ==
  ASSUME ready' = ready, cur' = cur,
         \A u \in Threads : pc'[u] = "release" <=> pc[u] = "release",
         \A u \in Threads : pc[u] = "release" => taken'[u] = taken[u]
  PROVE  Due' = Due
<1>1. Called' = Called
  BY DEF Called, Calling
<1>2. \A p : p \in Released' <=> p \in Released
  BY DEF Released
<1> QED BY <1>1, <1>2 DEF Due

LEMMA CountKept ==
  ASSUME CountOK, Due' = Due, state'.count = state.count, state'.syncing = state.syncing
  PROVE  CountOK'
  BY DEF CountOK

\* One process more, or less.
LEMMA CountUp ==
  ASSUME TypeOK, PlacesOK, CountOK, NEW p, p \notin Due, Due' = Due \cup {p},
         state'.count = state.count + 1, state'.syncing = state.syncing
  PROVE  CountOK'
<1>1. IsFiniteSet(Due) /\ Cardinality(Due) \in Nat
  BY DueFinite
<1>2. Cardinality(Due \cup {p}) = Cardinality(Due) + 1
  BY <1>1, FS_AddElement
<1> QED BY <1>1, <1>2 DEF CountOK

LEMMA CountDown ==
  ASSUME TypeOK, PlacesOK, CountOK, NEW p, p \in Due, Due' = Due \ {p},
         state'.count = state.count - 1, state'.syncing = state.syncing
  PROVE  CountOK'
<1>1. IsFiniteSet(Due) /\ Cardinality(Due) \in Nat
  BY DueFinite
<1>2. Cardinality(Due \ {p}) = Cardinality(Due) - 1
  BY <1>1, FS_RemoveElement
<1> QED BY <1>1, <1>2 DEF CountOK

\* When a completion starts nobody is counted in yet.
LEMMA CountStart ==
  ASSUME Due' = {}, state'.count = 1, state'.syncing PROVE CountOK'
<1>1. Cardinality(Due') = 0
  BY FS_EmptySet
<1> QED BY <1>1 DEF CountOK

\* Whoever calls is due until it is counted.
LEMMA CallerDue ==
  ASSUME BInv, NEW t \in Threads, cur[t] # None, cur'[t] = None,
         UNCHANGED <<ready, taken>>,
         \A u \in Threads \ {t} : cur'[u] = cur[u] /\ pc'[u] = pc[u],
         pc[t] # "release", pc'[t] # "release"
  PROVE  cur[t] \in Due /\ Due' = Due \ {cur[t]}
<1>1. cur[t] \in Called
  BY DEF Called, Calling
<1>2. Called' = Called \ {cur[t]}
  BY DEF Called, Calling, BInv, PlacesOK, CallerPlace
<1>3. Released' = Released
  <2>1. \A p : p \in Released' <=> p \in Released
    BY DEF Released
  <2> QED BY <2>1
<1>4. cur[t] \notin ready /\ cur[t] \notin Released
  BY DEF BInv, PlacesOK, CallerPlace, TakenPlace, Released
<1> QED BY <1>1, <1>2, <1>3, <1>4 DEF Due

LEMMA CountEnroll == ASSUME BInv, Enroll PROVE CountOK'
<1>1. TypeOK /\ PlacesOK /\ CountOK
  BY DEF BInv
<1>2. PICK p \in Procs \ enrolled : /\ state' = [state EXCEPT !.count = @ + 1]
                                    /\ ready' = ready \cup {p}
  BY DEF Enroll
<1>3. UNCHANGED <<pc, cur, taken>>
  BY DEF Enroll, local
<1>4. Due' = Due \cup {p}
  BY <1>2, <1>3 DEF Due, Called, Calling, Released
<1>5. p \notin Due
  BY <1>1, DueFinite
<1>6. state'.count = state.count + 1 /\ state'.syncing = state.syncing
  BY <1>1, <1>2 DEF TypeOK, States
<1> QED BY <1>1, <1>4, <1>5, <1>6, CountUp

LEMMA CountCall == ASSUME BInv, NEW t \in Threads, Sync(t) \/ Resign(t) PROVE CountOK'
<1>1. TypeOK /\ LocalsOK /\ CountOK
  BY DEF BInv
<1>2. PICK p \in ready : cur' = [cur EXCEPT ![t] = p] /\ ready' = ready \ {p}
  BY DEF Sync, Resign, Set
<1>3. /\ UNCHANGED <<state, taken>> /\ cur[t] = None /\ pc[t] = "idle"
      /\ \A u \in Threads : pc'[u] = "release" <=> pc[u] = "release"
  BY <1>1 DEF Sync, Resign, Set, To, shared, TypeOK, LocalsOK
<1>4. p # None
  BY <1>1, ConstFacts DEF TypeOK
<1>5. cur'[t] = p /\ \A u \in Threads \ {t} : cur'[u] = cur[u]
  BY <1>1, <1>2 DEF TypeOK
<1>6. Called' = Called \cup {p}
  BY <1>3, <1>4, <1>5 DEF Called, Calling
<1>7. Released' = Released
  <2>1. \A q : q \in Released' <=> q \in Released
    BY <1>3 DEF Released
  <2> QED BY <2>1
<1>8. Due' = Due
  BY <1>2, <1>6, <1>7 DEF Due
<1> QED BY <1>1, <1>3, <1>8, CountKept

LEMMA CountCount == ASSUME BInv, NEW t \in Threads, Count(t) PROVE CountOK'
<1>1. TypeOK /\ LocalsOK /\ PlacesOK /\ CountOK
  BY DEF BInv
<1>2. pc[t] = "count" /\ cur[t] # None
  BY <1>1, CountEffect DEF LocalsOK, CallPC
<1>3. /\ UNCHANGED <<ready, taken>>
      /\ \A u \in Threads \ {t} : cur'[u] = cur[u] /\ pc'[u] = pc[u]
      /\ pc'[t] \in {"heads", "idle", "count"}
  BY <1>1, CountEffect DEF TypeOK
<1>4. CASE pc'[t] = "heads"
  <2>1. Last(state, 1) /\ cur'[t] = None /\ state' = Completing(NextTag(state.tag))
    BY <1>1, <1>2, <1>4, CountEffect DEF TypeOK
  <2>2. Due' = {}
    BY <1>2, <1>3, <1>4, <2>1, LastCaller, CallerDue
  <2> QED BY <2>1, <2>2, CountStart DEF Completing
<1>5. CASE pc'[t] = "idle"
  <2>1. /\ cur'[t] = None /\ state'.count = state.count - 1 /\ state'.syncing = state.syncing
    BY <1>1, <1>2, <1>5, CountEffect DEF TypeOK
  <2>2. cur[t] \in Due /\ Due' = Due \ {cur[t]}
    BY <1>2, <1>3, <1>5, <2>1, CallerDue
  <2> QED BY <1>1, <2>1, <2>2, CountDown
<1>6. CASE pc'[t] = "count"
  <2>1. UNCHANGED <<state, pc, cur>>
    BY <1>1, <1>6, CountEffect DEF TypeOK
  <2> QED BY <1>1, <1>3, <2>1, DueKept, CountKept
<1> QED BY <1>3, <1>4, <1>5, <1>6

LEMMA CountResignCas == ASSUME BInv, NEW t \in Threads, ResignCas(t) PROVE CountOK'
<1>1. TypeOK /\ LocalsOK /\ PlacesOK /\ CountOK /\ ResignOK
  BY DEF BInv
<1>2. pc[t] \in {"resign", "rlast", "rnone"} /\ cur[t] # None
  BY <1>1, ResignCasEffect DEF LocalsOK, CallPC
<1>3. /\ UNCHANGED <<ready, taken>>
      /\ \A u \in Threads \ {t} : cur'[u] = cur[u] /\ pc'[u] = pc[u]
      /\ pc'[t] \in {"heads", "idle", "rheads", "resign"}
  BY <1>1, ResignCasEffect DEF TypeOK
<1>4. CASE pc'[t] = "heads"
  <2>1. Last(state, 1) /\ cur'[t] = None /\ state' = Completing(NextTag(state.tag))
    BY <1>1, <1>2, <1>4, ResignCasEffect DEF TypeOK
  <2>2. Due' = {}
    BY <1>2, <1>3, <1>4, <2>1, LastCaller, CallerDue
  <2> QED BY <2>1, <2>2, CountStart DEF Completing
<1>5. CASE pc'[t] = "idle"
  <2>1. /\ cur'[t] = None /\ state'.count = state.count - 1 /\ state'.syncing = state.syncing
    BY <1>1, <1>2, <1>5, ResignCasEffect DEF TypeOK
  <2>2. cur[t] \in Due /\ Due' = Due \ {cur[t]}
    BY <1>2, <1>3, <1>5, <2>1, CallerDue
  <2> QED BY <1>1, <2>1, <2>2, CountDown
<1>6. CASE pc'[t] \in {"rheads", "resign"}
  <2>1. UNCHANGED <<state, cur>>
    BY <1>1, <1>6, ResignCasEffect DEF TypeOK
  <2> QED BY <1>1, <1>2, <1>3, <1>6, <2>1, DueKept, CountKept
<1> QED BY <1>3, <1>4, <1>5, <1>6

LEMMA CountAddCount == ASSUME BInv, NEW t \in Threads, AddCount(t) PROVE CountOK'
<1>1. TypeOK /\ PlacesOK /\ CountOK
  BY DEF BInv
<1>2. /\ pc[t] = "add" /\ pc'[t] = "release" /\ UNCHANGED <<ready, cur, taken>>
      /\ \A u \in Threads \ {t} : pc'[u] = pc[u]
      /\ state'.count = state.count + Cardinality(taken[t]) /\ state'.syncing = state.syncing
  BY <1>1 DEF TypeOK, States, AddCount, To, Set, member, local
<1>3. \A p : p \in Released' <=> p \in Released \/ p \in taken[t]
  BY <1>2 DEF Released
<1>4. Called' = Called
  BY <1>2 DEF Called, Calling
<1>5. Due' = Due \cup taken[t]
  BY <1>2, <1>3, <1>4 DEF Due
<1>6. Due \cap taken[t] = {}
  BY <1>1, <1>2 DEF PlacesOK, TakenPlace, Due, Called, Calling, Released
<1>7. IsFiniteSet(Due) /\ Cardinality(Due) \in Nat
  BY <1>1, DueFinite
<1>8. IsFiniteSet(taken[t]) /\ Cardinality(taken[t]) \in Nat
  <2>1. taken[t] \in SUBSET Procs
    BY <1>1 DEF TypeOK
  <2> QED BY <2>1, BarrierAssumption, FS_Subset, FS_CardinalityType
<1>9. Cardinality(Due \cup taken[t]) = Cardinality(Due) + Cardinality(taken[t]) - Cardinality({})
  BY <1>6, <1>7, <1>8, FS_Union
<1>10. Cardinality(Due') = Cardinality(Due) + Cardinality(taken[t])
  BY <1>5, <1>7, <1>8, <1>9, FS_EmptySet
<1> QED BY <1>1, <1>2, <1>7, <1>8, <1>10 DEF CountOK

LEMMA CountRelease == ASSUME BInv, NEW t \in Threads, Release(t) PROVE CountOK'
<1>1. TypeOK /\ PlacesOK /\ CountOK
  BY DEF BInv
<1>2. /\ pc[t] = "release" /\ pc'[t] # "release" /\ UNCHANGED <<state, cur>>
      /\ ready' = ready \cup taken[t] /\ taken'[t] = {}
      /\ \A u \in Threads \ {t} : pc'[u] = pc[u] /\ taken'[u] = taken[u]
  BY <1>1 DEF TypeOK, Release, To, Set, shared
<1>3. \A p : p \in Released <=> p \in Released' \/ p \in taken[t]
  BY <1>2 DEF Released
<1>4. Called' = Called
  BY <1>2 DEF Called, Calling
<1>5. Due' = Due
  BY <1>2, <1>3, <1>4 DEF Due
<1> QED BY <1>1, <1>2, <1>5, CountKept

LEMMA CountNextPhase == ASSUME BInv, NEW t \in Threads, NextPhase(t) PROVE CountOK'
<1>1. TypeOK /\ PhaseOK /\ LocalsOK /\ CountOK
  BY DEF BInv
<1>2. /\ pc[t] = "next" /\ tag[t] # None /\ UNCHANGED <<ready, cur, taken>>
      /\ \A u \in Threads \ {t} : pc'[u] = pc[u]
      /\ pc'[t] \in {"heads", "other"}
  BY <1>1, NextPhaseEffect DEF TypeOK, LocalsOK, DonePC
<1>3. Due' = Due
  BY <1>2, DueKept
<1>4. CASE pc'[t] = "heads"
  <2>1. state = Completing(tag[t]) /\ state' = Completing(NextTag(tag[t]))
    BY <1>1, <1>4, NextPhaseEffect
  <2>2. Due = {}
    BY <1>2, <2>1, LastCompleter DEF Completing
  <2> QED BY <1>3, <2>1, <2>2, CountStart DEF Completing
<1>5. CASE pc'[t] = "other"
  <2>1. state' = state
    BY <1>1, <1>5, NextPhaseEffect DEF TypeOK
  <2> QED BY <1>1, <1>3, <2>1, CountKept
<1> QED BY <1>2, <1>4, <1>5

LEMMA CountEnd == ASSUME BInv, NEW t \in Threads, End(t) PROVE CountOK'
<1>1. TypeOK /\ PhaseOK /\ LocalsOK /\ CountOK /\ PlacesOK
  BY DEF BInv
<1>2. /\ pc[t] = "end" /\ tag[t] # None /\ UNCHANGED <<ready, cur, taken>>
      /\ \A u \in Threads \ {t} : pc'[u] = pc[u]
      /\ pc'[t] \in {"idle", "other"}
  BY <1>1, EndEffect DEF LocalsOK, DonePC
<1>3. Due' = Due
  BY <1>2, DueKept
<1>4. CASE pc'[t] = "idle"
  <2>1. state'.count = state.count - 1 /\ state'.syncing = FALSE
    BY <1>1, <1>4, EndEffect
  <2>2. state.syncing
    BY <1>1, <1>2 DEF PhaseOK, OneCompleter
  <2>3. Cardinality(Due) \in Nat
    BY <1>1, DueFinite
  <2> QED BY <1>1, <1>3, <2>1, <2>2, <2>3 DEF CountOK
<1>5. CASE pc'[t] = "other"
  <2>1. state' = state
    BY <1>1, <1>5, EndEffect
  <2> QED BY <1>1, <1>3, <2>1, CountKept
<1> QED BY <1>2, <1>4, <1>5

\* The other actions change neither the count nor who is due.
LEMMA CountOthers ==
  ASSUME BInv, NEW t \in Threads,
         ReadHead(t) \/ SwapOld(t) \/ SetBit(t) \/ SetHead(t) \/ Join(t) \/ ResignHeads(t)
         \/ TakeHeads(t) \/ ClearOwn(t) \/ Other(t) \/ KeepBit(t) \/ CasHead(t) \/ Done(t)
         \/ Test(t)
  PROVE  CountOK'
<1>1. /\ UNCHANGED <<state, ready, cur>>
      /\ \A u \in Threads \ {t} : pc'[u] = pc[u] /\ taken'[u] = taken[u]
      /\ pc[t] # "release" /\ pc'[t] # "release"
  <2> USE DEF BInv, TypeOK, Set, To, shared, member, local
  <2>1. CASE ReadHead(t) BY <2>1 DEF ReadHead
  <2>2. CASE SwapOld(t) BY <2>2 DEF SwapOld
  <2>3. CASE SetBit(t) BY <2>3 DEF SetBit
  <2>4. CASE SetHead(t) BY <2>4 DEF SetHead
  <2>5. CASE Join(t) BY <2>5 DEF Join
  <2>6. CASE ResignHeads(t) BY <2>6 DEF ResignHeads
  <2>7. CASE TakeHeads(t) BY <2>7 DEF TakeHeads
  <2>8. CASE ClearOwn(t) BY <2>8 DEF ClearOwn
  <2>9. CASE Other(t) BY <2>9 DEF Other
  <2>10. CASE KeepBit(t) BY <2>10 DEF KeepBit
  <2>11. CASE CasHead(t) BY <2>11 DEF CasHead
  <2>12. CASE Done(t) BY <2>12 DEF Done
  <2>13. CASE Test(t) BY <2>13 DEF Test
  <2> QED BY <2>1, <2>2, <2>3, <2>4, <2>5, <2>6, <2>7, <2>8, <2>9, <2>10, <2>11, <2>12, <2>13
<1>2. Due' = Due
  BY <1>1, DueKept
<1> QED BY <1>1, <1>2, CountKept DEF BInv

LEMMA CountStep == BInv /\ [Next]_vars => CountOK'
<1> SUFFICES ASSUME BInv, [Next]_vars PROVE CountOK'
  OBVIOUS
<1>1. CASE UNCHANGED vars
  <2>1. UNCHANGED <<state, ready, cur, pc, taken>>
    BY <1>1 DEF vars, shared, member, local
  <2> QED BY <2>1, DueKept, CountKept DEF BInv
<1>2. CASE Enroll
  BY <1>2, CountEnroll
<1>3. ASSUME NEW t \in Threads, Sync(t) \/ Resign(t) \/ Step(t) PROVE CountOK'
  BY <1>3, CountCall, CountCount, CountResignCas, CountAddCount, CountRelease,
     CountNextPhase, CountEnd, CountOthers DEF Step
<1> QED BY <1>1, <1>2, <1>3 DEF Next

-----------------------------------------------------------------------------
(* The types; the range of the count follows from CountOK                  *)

TypeRest ==
  /\ heads \subseteq Threads /\ head \in [Threads -> HeadPtrs]
  /\ pc \in [Threads -> Labels] /\ cur \in [Threads -> Procs \cup {None}]
  /\ st \in [Threads -> States] /\ hd \in [Threads -> Tags \cup {None}]
  /\ taken \in [Threads -> SUBSET Procs] /\ snap \in [Threads -> SUBSET Threads]
  /\ tag \in [Threads -> Tags \cup {None}] /\ idx \in [Threads -> Threads \cup {None}]
  /\ ready \subseteq enrolled /\ synced \subseteq enrolled /\ enrolled \subseteq Procs
StateShape == state \in [count : Int, tag : Tags, syncing : BOOLEAN]

LEMMA TypeParts == TypeOK => TypeRest /\ StateShape
<1>1. Cardinality(Procs) \in Nat
  BY BarrierAssumption, FS_CardinalityType
<1> QED BY <1>1 DEF TypeOK, TypeRest, StateShape, States

LEMMA NoStateType == NoState \in States
<1>1. Cardinality(Procs) \in Nat
  BY BarrierAssumption, FS_CardinalityType
<1> QED BY <1>1 DEF NoState, States, Tags

LEMMA TypeSetHead == ASSUME BInv, NEW t \in Threads, SetHead(t) PROVE TypeRest'
<1>1. TypeOK /\ TypeRest
  BY TypeParts DEF BInv
<1>2. [tag |-> st[t].tag, ps |-> {}] \in HeadPtrs
  BY <1>1 DEF TypeRest, States, HeadPtrs
<1> QED BY <1>1, <1>2 DEF TypeRest, SetHead, Set, To, member, local, Labels

LEMMA TypeJoin == ASSUME BInv, NEW t \in Threads, Join(t) PROVE TypeRest'
<1>1. TypeOK /\ TypeRest /\ LocalsOK
  BY TypeParts DEF BInv
<1>2. cur[t] \in Procs /\ head[t] \in [tag : Tags, ps : SUBSET Procs]
  BY <1>1 DEF TypeRest, Join, LocalsOK, CallPC, HeadPtrs
<1>3. [head[t] EXCEPT !.ps = @ \cup {cur[t]}] \in HeadPtrs
  BY <1>2 DEF HeadPtrs
<1>4. head' = [head EXCEPT ![t] = [head[t] EXCEPT !.ps = @ \cup {cur[t]}]]
  BY DEF Join
<1>5. head' \in [Threads -> HeadPtrs]
  BY <1>1, <1>3, <1>4 DEF TypeRest
<1>6. pc' \in [Threads -> Labels]
  BY <1>1 DEF TypeRest, Join, To, Set, Labels
<1>7. UNCHANGED <<heads, ready, enrolled, synced, cur, st, hd, taken, snap, tag, idx>>
  BY DEF Join, member, local
<1> QED BY <1>1, <1>5, <1>6, <1>7 DEF TypeRest

LEMMA TypeNextPhase == ASSUME BInv, NEW t \in Threads, NextPhase(t) PROVE TypeRest'
<1>1. TypeRest /\ LocalsOK
  BY TypeParts DEF BInv
<1>2. NextTag(tag[t]) \in Tags
  BY <1>1, ConstFacts DEF NextPhase, TypeRest, LocalsOK, DonePC
<1>3. synced' \subseteq enrolled' /\ UNCHANGED <<heads, head, ready, enrolled, cur, hd, taken, snap, idx>>
  BY <1>1 DEF NextPhase, TypeRest
<1>4. pc' \in [Threads -> Labels]
  BY <1>1 DEF NextPhase, TypeRest, Set, To, Labels
<1>5. st' \in [Threads -> States] /\ tag' \in [Threads -> Tags \cup {None}]
  BY <1>1, <1>2, NoStateType DEF NextPhase, TypeRest, Set
<1> QED BY <1>1, <1>3, <1>4, <1>5 DEF TypeRest

LEMMA TypeTakeHeads == ASSUME BInv, NEW t \in Threads, TakeHeads(t) PROVE TypeRest'
<1>1. TypeRest /\ HeadOK(t)
  BY TypeParts DEF BInv, HeadsOK
<1>2. t \in heads => head[t].ps \subseteq Procs
  BY <1>1, RecordFacts DEF TakeHeads, HeadOK, TypeRest
<1> QED BY <1>1, <1>2 DEF TypeRest, TakeHeads, Set, To, member, Labels

LEMMA TypeCasHead == ASSUME BInv, NEW t \in Threads, CasHead(t) PROVE TypeRest'
<1>1. TypeRest /\ LocalsOK
  BY TypeParts DEF BInv
<1> PICK i \in Threads : i = idx[t]
  BY <1>1 DEF CasHead, LocalsOK, TypeRest
<1>2. head[i] # None => head[i].ps \subseteq Procs
  BY <1>1, RecordFacts DEF TypeRest
<1> QED BY <1>1, <1>2 DEF TypeRest, CasHead, Set, To, member, Labels, HeadPtrs

LEMMA TypeSwapOld == ASSUME BInv, NEW t \in Threads, SwapOld(t) PROVE TypeRest'
<1>1. TypeRest
  BY TypeParts DEF BInv
<1>2. head[t] # None => head[t].ps \subseteq Procs
  BY <1>1, RecordFacts DEF TypeRest
<1> QED BY <1>1, <1>2 DEF TypeRest, SwapOld, Set, To, member, Labels, HeadPtrs

LEMMA TypeCount == ASSUME BInv, NEW t \in Threads, Count(t) PROVE TypeRest'
<1>1. TypeOK /\ TypeRest /\ LocalsOK /\ PlacesOK /\ state.tag \in Tags
  BY TypeParts DEF BInv, TypeOK, States
<1>2. cur[t] \in enrolled /\ state \in States
  BY <1>1, CountEffect DEF LocalsOK, CallPC, PlacesOK, CallerPlace, TypeOK
<1>3. state = st[t] => NextTag(st[t].tag) \in Tags
  BY <1>1, ConstFacts
<1> QED BY <1>1, <1>2, <1>3, NoStateType DEF TypeRest, Count, Set, To, Labels

LEMMA TypeResignCas == ASSUME BInv, NEW t \in Threads, ResignCas(t) PROVE TypeRest'
<1>1. TypeOK /\ TypeRest /\ LocalsOK /\ PlacesOK /\ SyncedOK /\ state.tag \in Tags
  BY TypeParts DEF BInv, TypeOK, States
<1>2. cur[t] \notin ready /\ cur[t] \notin synced /\ state \in States
  BY <1>1 DEF ResignCas, LocalsOK, CallPC, PlacesOK, CallerPlace, SyncedOK, TypeOK
<1>3. state = st[t] => NextTag(st[t].tag) \in Tags
  BY <1>1, ConstFacts
<1> QED BY <1>1, <1>2, <1>3, NoStateType DEF TypeRest, ResignCas, Resigned, Set, To, Labels

LEMMA TypeSimple ==
  ASSUME BInv, NEW t \in Threads,
         Sync(t) \/ Resign(t) \/ ReadHead(t) \/ SetBit(t) \/ ResignHeads(t) \/ AddCount(t) \/
         Release(t) \/ ClearOwn(t) \/ Other(t) \/ KeepBit(t) \/ Done(t) \/ Test(t) \/ End(t)
  PROVE  TypeRest'
<1> USE ConstFacts, RecordFacts, NoStateType
    DEF BInv, TypeOK, TypeRest, LocalsOK, CallPC, DonePC, PlacesOK, TakenPlace, Labels, Set, To,
        shared, member, local
<1>1. CASE Sync(t) BY <1>1 DEF Sync
<1>2. CASE Resign(t) BY <1>2 DEF Resign
<1>3. CASE ReadHead(t) BY <1>3 DEF ReadHead
<1>4. CASE SetBit(t) BY <1>4 DEF SetBit
<1>5. CASE ResignHeads(t) BY <1>5 DEF ResignHeads
<1>6. CASE AddCount(t) BY <1>6 DEF AddCount
<1>7. CASE Release(t) BY <1>7 DEF Release
<1>8. CASE ClearOwn(t) BY <1>8 DEF ClearOwn, HeadPtrs
<1>9. CASE Other(t) BY <1>9, NextHead DEF Other
<1>10. CASE KeepBit(t) BY <1>10 DEF KeepBit
<1>11. CASE Done(t) BY <1>11 DEF Done
<1>12. CASE Test(t) BY <1>12 DEF Test
<1>13. CASE End(t) BY <1>13 DEF End
<1> QED BY <1>1, <1>2, <1>3, <1>4, <1>5, <1>6, <1>7, <1>8, <1>9, <1>10, <1>11, <1>12,
           <1>13

LEMMA TypeRestStep == BInv /\ [Next]_vars => TypeRest'
<1> SUFFICES ASSUME BInv, [Next]_vars PROVE TypeRest'
  OBVIOUS
<1>1. CASE UNCHANGED vars
  BY <1>1 DEF vars, shared, member, local, BInv, TypeOK, TypeRest
<1>2. CASE Enroll
  BY <1>2 DEF Enroll, local, BInv, TypeOK, TypeRest
<1>3. ASSUME NEW t \in Threads, Sync(t) \/ Resign(t) \/ Step(t) PROVE TypeRest'
  BY <1>3, TypeSimple, TypeSetHead, TypeSwapOld, TypeJoin, TypeTakeHeads, TypeCasHead,
     TypeNextPhase, TypeCount, TypeResignCas DEF Step
<1> QED BY <1>1, <1>2, <1>3 DEF Next

LEMMA ShapeStep == ASSUME BInv, [Next]_vars PROVE StateShape'
<1>1. TypeOK /\ TypeRest /\ StateShape /\ LocalsOK
  BY TypeParts DEF BInv
<1>2. \A t \in Threads : /\ NextTag(st[t].tag) \in Tags /\ Cardinality(taken[t]) \in Int
                         /\ tag[t] # None => tag[t] \in Tags /\ NextTag(tag[t]) \in Tags
  <2> TAKE t \in Threads
  <2>1. st[t].tag \in Tags /\ taken[t] \in SUBSET Procs
    BY <1>1 DEF TypeRest, States
  <2>2. IsFiniteSet(taken[t])
    BY <2>1, BarrierAssumption, FS_Subset
  <2>3. Cardinality(taken[t]) \in Int
    BY <2>2, FS_CardinalityType
  <2> QED BY <1>1, <2>1, <2>3, ConstFacts DEF TypeRest
<1>3. CASE UNCHANGED vars
  BY <1>1, <1>3 DEF vars, shared, StateShape
<1>4. CASE Enroll
  BY <1>1, <1>4 DEF Enroll, StateShape
<1> DEFINE Word == [count : Int, tag : Tags, syncing : BOOLEAN]
<1>w. /\ \A g \in Tags : Completing(g) \in Word
      /\ [state EXCEPT !.count = @ - 1] \in Word /\ [state EXCEPT !.count = 0] \in Word
  BY <1>1 DEF Completing, StateShape
<1>5. ASSUME NEW t \in Threads, Count(t) PROVE StateShape'
  <2>1. state' \in {Completing(NextTag(st[t].tag)), [state EXCEPT !.count = @ - 1], state}
    BY <1>5 DEF Count
  <2> QED BY <1>1, <1>2, <1>w, <2>1 DEF StateShape
<1>6. ASSUME NEW t \in Threads, ResignCas(t) PROVE StateShape'
  <2>1. state' \in {Completing(NextTag(st[t].tag)), [state EXCEPT !.count = @ - 1],
                    [state EXCEPT !.count = 0], state}
    BY <1>6 DEF ResignCas
  <2> QED BY <1>1, <1>2, <1>w, <2>1 DEF StateShape
<1>7. ASSUME NEW t \in Threads, AddCount(t) PROVE StateShape'
  BY <1>1, <1>2, <1>7 DEF AddCount, StateShape
<1>8. ASSUME NEW t \in Threads, NextPhase(t) \/ End(t) PROVE StateShape'
  <2>1. tag[t] \in Tags /\ NextTag(tag[t]) \in Tags
    BY <1>1, <1>2, <1>8 DEF NextPhase, End, LocalsOK, DonePC
  <2>2. state' \in {Completing(NextTag(tag[t])), state,
                    [count |-> state.count - 1, tag |-> tag[t], syncing |-> FALSE]}
    BY <1>8 DEF NextPhase, End
  <2>3. [count |-> state.count - 1, tag |-> tag[t], syncing |-> FALSE] \in Word
    BY <1>1, <2>1 DEF StateShape
  <2> QED BY <1>1, <1>w, <2>1, <2>2, <2>3 DEF StateShape
<1>9. ASSUME NEW t \in Threads,
             Sync(t) \/ Resign(t) \/ ReadHead(t) \/ SwapOld(t) \/ SetBit(t) \/ SetHead(t)
             \/ Join(t) \/ ResignHeads(t) \/ Release(t) \/ TakeHeads(t) \/ ClearOwn(t)
             \/ Other(t) \/ KeepBit(t) \/ CasHead(t) \/ Done(t) \/ Test(t)
      PROVE  StateShape'
  <2>1. state' = state
    BY <1>9 DEF Sync, Resign, ReadHead, SwapOld, SetBit, SetHead, Join, ResignHeads, Release,
                TakeHeads, ClearOwn, Other, KeepBit, CasHead, Done, Test, shared
  <2> QED BY <1>1, <2>1 DEF StateShape
<1> QED BY <1>3, <1>4, <1>5, <1>6, <1>7, <1>8, <1>9 DEF Next, Step

LEMMA TypeStep == BInv /\ [Next]_vars => TypeOK'
<1> SUFFICES ASSUME BInv, [Next]_vars PROVE TypeOK'
  OBVIOUS
<1>1. TypeRest' /\ StateShape' /\ PlacesOK' /\ CountOK'
  BY TypeRestStep, ShapeStep, PlacesStep, CountStep
<1>2. Due' \subseteq enrolled'
  BY <1>1 DEF TypeRest, PlacesOK, CallerPlace, TakenPlace, Due, Called, Calling, Released
<1>3. Due' \in SUBSET Procs
  BY <1>1, <1>2 DEF TypeRest
<1>4. Cardinality(Due') <= Cardinality(Procs) /\ IsFiniteSet(Due')
  BY <1>3, BarrierAssumption, FS_Subset
<1>5. Cardinality(Due') \in Nat /\ Cardinality(Procs) \in Nat
  BY <1>4, BarrierAssumption, FS_CardinalityType
<1>6. state'.count \in 0 .. Cardinality(Procs) + 1
  BY <1>1, <1>4, <1>5 DEF CountOK
<1>7. state' \in States
  BY <1>1, <1>6 DEF StateShape, States
<1> QED BY <1>1, <1>7 DEF TypeRest, TypeOK

-----------------------------------------------------------------------------
(* The invariant                                                           *)

LEMMA BarrierInit == Init => BInv
<1> SUFFICES ASSUME Init PROVE BInv
  OBVIOUS
<1>1. /\ state = [count |-> Cardinality(Initial), tag |-> 0, syncing |-> FALSE] /\ heads = {}
      /\ head = [t \in Threads |-> None] /\ pc = [t \in Threads |-> "idle"]
      /\ cur = [t \in Threads |-> None] /\ taken = [t \in Threads |-> {}]
      /\ snap = [t \in Threads |-> {}] /\ tag = [t \in Threads |-> None]
      /\ idx = [t \in Threads |-> None] /\ ready = Initial /\ enrolled = Initial /\ synced = {}
  BY DEF Init
<1>2. Due = Initial
  BY <1>1 DEF Due, Called, Calling, Released
<1>3. CountOK
  <2>1. IsFiniteSet(Initial) /\ Cardinality(Initial) \in Nat
    BY BarrierAssumption, FS_Subset, FS_CardinalityType
  <2> QED BY <1>1, <1>2, <2>1 DEF CountOK
<1>4. TypeOK
  <2>1. Cardinality(Initial) <= Cardinality(Procs) /\ IsFiniteSet(Initial)
    BY BarrierAssumption, FS_Subset
  <2>2. Cardinality(Initial) \in Nat /\ Cardinality(Procs) \in Nat
    BY <2>1, BarrierAssumption, FS_CardinalityType
  <2>3. state \in States
    BY <1>1, <2>1, <2>2 DEF States, Tags
  <2>4. NoState \in States
    BY NoStateType
  <2> QED BY <2>3, <2>4, BarrierAssumption DEF Init, TypeOK, HeadPtrs, Labels
<1>5. LocalsOK
  BY <1>1 DEF LocalsOK, CallPC, DonePC
<1>6. PhaseOK /\ ResignOK
  BY <1>1 DEF PhaseOK, OneCompleter, ResignOK
<1>7. HeadsOK
  BY <1>1 DEF HeadsOK, HeadOK, ScanOK, New, Old, OwnTaken
<1>8. PlacesOK
  BY <1>1 DEF PlacesOK, CallerPlace, TakenPlace, HeadPlace, SomePlace, InHead, Live
<1>9. SyncedOK
  BY <1>1 DEF SyncedOK, New
<1> QED BY <1>3, <1>4, <1>5, <1>6, <1>7, <1>8, <1>9 DEF BInv

\* The inductive invariant of the barrier.
THEOREM BarrierInvariant == Spec => []BInv
<1>1. BInv /\ [Next]_vars => BInv'
  BY TypeStep, LocalsStep, PhaseStep, ResignStep, HeadsStep, PlacesStep, SyncedStep, CountStep
  DEF BInv
<1> QED BY BarrierInit, <1>1, PTL DEF Spec

\* A process that has come in the current phase is neither made ready nor on
\* the way to it while bar_complete still completes the phase before.
THEOREM BarrierNoEarlyPass == Spec => []NoEarlyPass
<1>1. BInv => NoEarlyPass
  BY SyncedPlace DEF NoEarlyPass
<1> QED BY BarrierInvariant, <1>1, PTL

-----------------------------------------------------------------------------
(* The count, in the terms of CompletionSound                              *)

LEMMA CalledCount ==
  ASSUME BInv PROVE IsFiniteSet(Called) /\ Cardinality(Called) = Cardinality(Calling)
<1>1. IsFiniteSet(Calling)
  <2>1. IsFiniteSet(Threads)
    BY BarrierAssumption, FS_Interval DEF Threads
  <2> QED BY <2>1, FS_Subset DEF Calling
<1> DEFINE f == [t \in Calling |-> cur[t]]
<1>2. f \in Bijection(Calling, Called)
  <2>1. \A t, u \in Calling : cur[t] = cur[u] => t = u
    BY DEF BInv, PlacesOK, CallerPlace, Calling
  <2>2. f \in [Calling -> Called] /\ \A t \in Calling : f[t] = cur[t]
    BY DEF Called
  <2>3. \A p \in Called : \E t \in Calling : f[t] = p
    BY <2>2 DEF Called
  <2> HIDE DEF f
  <2> QED BY <2>1, <2>2, <2>3 DEF Bijection, Injection, IsInjective, Surjection
<1> QED BY <1>1, <1>2, FS_Bijection DEF ExistsBijection

LEMMA ExactCount == ASSUME BInv PROVE CountExact
<1>1. TypeOK /\ PlacesOK /\ CountOK
  BY DEF BInv
<1>2. IsFiniteSet(Due) /\ IsFiniteSet(Called) /\ Cardinality(Called) = Cardinality(Calling)
  BY <1>1, DueFinite, CalledCount
<1>3. ready \in SUBSET Due /\ Released \in SUBSET Due
  BY DEF Due
<1>4. IsFiniteSet(ready) /\ IsFiniteSet(Released)
  BY <1>2, <1>3, FS_Subset
<1>5. ready \cap Called = {} /\ (ready \cup Called) \cap Released = {}
  BY <1>1 DEF PlacesOK, CallerPlace, TakenPlace, Called, Calling, Released
<1>6. /\ IsFiniteSet(ready \cup Called)
      /\ Cardinality(ready \cup Called) = Cardinality(ready) + Cardinality(Called) - Cardinality({})
  BY <1>2, <1>4, <1>5, FS_Union
<1>7. Cardinality(Due) = Cardinality(ready \cup Called) + Cardinality(Released) - Cardinality({})
  BY <1>4, <1>5, <1>6, FS_Union DEF Due
<1>8. /\ Cardinality(ready) \in Nat /\ Cardinality(Called) \in Nat /\ Cardinality(Released) \in Nat
      /\ Cardinality({}) = 0
  BY <1>2, <1>4, FS_CardinalityType, FS_EmptySet
<1>9. Cardinality(Due) = Cardinality(ready) + Cardinality(Calling) + Cardinality(Released)
  BY <1>2, <1>6, <1>7, <1>8
<1> QED BY <1>1, <1>2, <1>8, <1>9 DEF CountOK, CountExact, Released

\* One thread completes the barrier, the count never leaves its range and is
\* that of the processes which have still to come, so that bar_complete starts
\* the next phase only when everybody is counted in.
THEOREM BarrierCompletion == Spec => []CompletionSound
<1>1. BInv => CompletionSound
  BY ExactCount DEF CompletionSound, BInv, PhaseOK
<1> QED BY BarrierInvariant, <1>1, PTL

-----------------------------------------------------------------------------
(* The places of a process, in the terms of NoneForgotten                  *)

LEMMA UniquePlace == ASSUME BInv, NEW p \in enrolled PROVE \E x : Places(p) = {x}
<1> DEFINE C == {u \in Calling : cur[u] = p /\ pc[u] # "count"}
           H == {u \in Threads : InHead(p, u)}
           T == {u \in Threads : p \in taken[u]}
<1>1. Places(p) = (IF p \in ready THEN {<<"ready">>} ELSE {}) \cup {<<"calling", t>> : t \in C}
                  \cup {<<"head", t>> : t \in H} \cup {<<"taken", t>> : t \in T}
  BY DEF Places, InHead, Live, OwnTaken
<1>2. PlacesOK /\ HeadsOK /\ LocalsOK /\ p \in Procs
  BY DEF BInv, TypeOK
<1>3. CASE p \in ready
  <2>1. C = {} /\ H = {} /\ T = {}
    BY <1>2, <1>3 DEF PlacesOK, CallerPlace, HeadPlace, TakenPlace, Calling
  <2>2. Places(p) = {<<"ready">>}
    BY <1>1, <1>3, <2>1
  <2> QED BY <2>2
<1>4. ASSUME NEW t \in Threads, cur[t] = p, pc[t] # "count" PROVE \E x : Places(p) = {x}
  <2>1. p \notin ready /\ H = {} /\ T = {}
    BY <1>2, <1>4, ConstFacts DEF PlacesOK, CallerPlace, HeadPlace, TakenPlace, Calling
  <2>2. C = {t}
    BY <1>2, <1>4, ConstFacts DEF PlacesOK, CallerPlace, Calling
  <2>3. Places(p) = {<<"calling", t>>}
    BY <1>1, <2>1, <2>2
  <2> QED BY <2>3
<1>5. ASSUME NEW t \in Threads, InHead(p, t) PROVE \E x : Places(p) = {x}
  <2>1. p \notin ready /\ C = {} /\ T = {}
    BY <1>2, <1>5 DEF PlacesOK, HeadPlace, Calling
  <2>2. H = {t}
    BY <1>2, <1>5 DEF PlacesOK, HeadPlace
  <2>3. Places(p) = {<<"head", t>>}
    BY <1>1, <2>1, <2>2
  <2> QED BY <2>3
<1>6. ASSUME NEW t \in Threads, p \in taken[t] PROVE \E x : Places(p) = {x}
  <2>1. p \notin ready /\ C = {} /\ H = {}
    BY <1>2, <1>6 DEF PlacesOK, TakenPlace, HeadPlace, Calling
  <2>2. T = {t}
    BY <1>2, <1>6 DEF PlacesOK, TakenPlace
  <2>3. Places(p) = {<<"taken", t>>}
    BY <1>1, <2>1, <2>2
  <2> QED BY <2>3
<1>7. ASSUME NEW t \in Threads, cur[t] = p, pc[t] = "count" PROVE InHead(p, t)
  BY <1>2, <1>7 DEF HeadsOK, HeadOK, New, Old, OwnTaken, InHead, Live
<1> QED BY <1>2, <1>3, <1>4, <1>5, <1>6, <1>7 DEF PlacesOK, SomePlace

\* Every enrolled process is in one place, and bar_complete will find the
\* heads: no process is forgotten or released twice.
THEOREM BarrierNoneForgotten == Spec => []NoneForgotten
<1>1. BInv => OnePlace
  <2> SUFFICES ASSUME BInv, NEW p \in enrolled PROVE Cardinality(Places(p)) = 1
    BY DEF OnePlace
  <2>1. PICK x : Places(p) = {x}
    BY UniquePlace
  <2> QED BY <2>1, FS_Singleton
<1>2. BInv => HeadFound
  <2> SUFFICES ASSUME BInv, NEW t \in Threads, head[t] # None
               PROVE  \/ t \in heads
                      \/ \E c \in Threads : t \in snap[c] \/ idx[c] = t
                      \/ tag[t] # None /\ pc[t] \in {"add", "release", "clear"}
    BY DEF HeadFound
  <2>1. HeadOK(t) /\ (New(t) \/ Old(t))
    BY DEF BInv, HeadsOK, New, Old
  <2> QED BY <2>1 DEF HeadOK, Listed, OwnTaken
<1> QED BY BarrierInvariant, <1>1, <1>2, PTL DEF NoneForgotten

-----------------------------------------------------------------------------
(* The refinement of PhaseBarrier                                          *)

\* When the last process calls, or nobody is left who could, all heads are of
\* this phase.
LEMMA AllHeadsNew ==
  ASSUME BInv, NEW t \in Threads, pc[t] \in {"count", "rlast", "next"},
         \A u \in Threads \ {t} : pc[u] = "idle"
  PROVE  \A u \in Threads : head[u] # None => New(u)
<1>1. \A u \in Threads : snap[u] = {} /\ pc[u] # "cas" /\ pc[u] # "heads" /\ ~OwnTaken(u)
  BY DEF BInv, LocalsOK, OwnTaken
<1> QED BY <1>1 DEF BInv, HeadsOK, HeadOK, Listed, New, Old

\* Everybody but the caller has come.
LEMMA AllCome ==
  ASSUME BInv, NEW t \in Threads, pc[t] \in {"count", "rlast", "next"}, ready = {},
         \A u \in Threads \ {t} : pc[u] = "idle"
  PROVE  enrolled \ synced = {cur[t]} \ {None}
<1>1. TypeOK /\ LocalsOK /\ PlacesOK /\ SyncedOK
  BY DEF BInv
<1>2. \A u \in Threads : taken[u] = {} /\ (u # t => cur[u] = None)
  BY <1>1 DEF LocalsOK
<1>3. ASSUME NEW p \in enrolled, p \notin synced PROVE p = cur[t] /\ p # None
  <2>1. p # None
    BY <1>1, ConstFacts DEF TypeOK
  <2>2. \E u \in Threads : cur[u] = p \/ InHead(p, u)
    BY <1>1, <1>2 DEF PlacesOK, SomePlace
  <2>3. ASSUME NEW u \in Threads, InHead(p, u) PROVE cur[u] = p
    <3>1. New(u) /\ p \in head[u].ps
      BY <2>3, AllHeadsNew DEF InHead, Live
    <3> QED BY <1>1, <1>3, <3>1 DEF SyncedOK
  <2> QED BY <1>2, <2>1, <2>2, <2>3
<1>4. cur[t] # None => cur[t] \in enrolled /\ cur[t] \notin synced
  BY <1>1 DEF PlacesOK, CallerPlace, SyncedOK
<1> QED BY <1>3, <1>4

\* A bit of heads stands for a process that has come.
LEMMA SomeCome ==
  ASSUME BInv, NEW t \in Threads, pc[t] \in {"rlast", "next"},
         \A u \in Threads \ {t} : pc[u] = "idle"
  PROVE  synced # {}
<1>1. TypeOK /\ LocalsOK /\ PlacesOK /\ SyncedOK /\ HeadsOK
  BY DEF BInv
<1>2. PICK u \in Threads : u \in heads
  BY <1>1 DEF BInv, PhaseOK, TypeOK
<1>3. head[u] # None
  BY <1>1, <1>2 DEF HeadsOK, HeadOK
<1>4. New(u)
  BY <1>3, AllHeadsNew
<1>5. PICK p \in head[u].ps : TRUE
  BY <1>1, <1>3 DEF HeadsOK, HeadOK
<1>6. InHead(p, u) /\ p \in Procs
  BY <1>4, <1>5, NewLive
<1>7. cur[u] # p
  BY <1>1, <1>6 DEF PlacesOK, HeadPlace
<1> QED BY <1>1, <1>4, <1>5, <1>7 DEF SyncedOK

LEMMA RefineEnroll == ASSUME BInv, Enroll PROVE Abstract!Enroll
<1>1. ready \subseteq enrolled /\ ready # {}
  BY DEF BInv, TypeOK, Enroll
<1>2. enrolled \ synced # {}
  BY <1>1, SyncedPlace
<1> QED BY <1>2 DEF Enroll, Abstract!Enroll

LEMMA RefineCount ==
  ASSUME BInv, NEW t \in Threads, Count(t) PROVE [Abstract!Next]_(Abstract!vars)
<1>1. TypeOK /\ LocalsOK /\ PlacesOK /\ SyncedOK
  BY DEF BInv
<1>2. /\ pc[t] = "count" /\ cur[t] # None /\ cur[t] \in Procs /\ cur[t] \in enrolled \ synced
      /\ enrolled' = enrolled
  BY <1>1, CountEffect DEF LocalsOK, CallPC, TypeOK, PlacesOK, CallerPlace, SyncedOK
<1>3. CASE Last(state, 1) /\ synced' = {}
  <2>1. ready = {} /\ \A u \in Threads \ {t} : pc[u] = "idle"
    BY <1>2, <1>3, LastCaller
  <2>2. enrolled \ synced = {cur[t]}
    BY <1>2, <2>1, AllCome
  <2>3. Abstract!ComeLast(cur[t])
    BY <1>2, <1>3, <2>2 DEF Abstract!ComeLast
  <2> QED BY <1>2, <2>3 DEF Abstract!Next
<1>4. CASE synced' = synced \cup {cur[t]}
  <2>1. Abstract!Come(cur[t])
    BY <1>2, <1>4 DEF Abstract!Come
  <2> QED BY <1>2, <2>1 DEF Abstract!Next
<1>5. CASE synced' = synced
  BY <1>2, <1>5 DEF Abstract!vars
<1> QED BY <1>1, <1>3, <1>4, <1>5, CountEffect

LEMMA RefineResignCas ==
  ASSUME BInv, NEW t \in Threads, ResignCas(t) PROVE [Abstract!Next]_(Abstract!vars)
<1>1. TypeOK /\ LocalsOK /\ PlacesOK /\ SyncedOK /\ ResignOK
  BY DEF BInv
<1>2. /\ pc[t] \in {"resign", "rlast", "rnone"} /\ cur[t] # None /\ cur[t] \in Procs
      /\ cur[t] \in enrolled \ synced
  BY <1>1, ResignCasEffect DEF LocalsOK, CallPC, TypeOK, PlacesOK, CallerPlace, SyncedOK
<1>3. CASE pc[t] = "rlast" /\ Last(state, 1) /\ synced' = {} /\ enrolled' = enrolled \ {cur[t]}
  <2>1. ready = {} /\ \A u \in Threads \ {t} : pc[u] = "idle"
    BY <1>2, <1>3, LastCaller
  <2>2. enrolled \ synced = {cur[t]}
    BY <1>2, <1>3, <2>1, AllCome
  <2>3. synced # {}
    BY <1>3, <2>1, SomeCome
  <2>4. Abstract!LeaveLast(cur[t])
    BY <1>2, <1>3, <2>2, <2>3 DEF Abstract!LeaveLast
  <2> QED BY <1>2, <2>4 DEF Abstract!Next
<1>4. CASE synced' = synced /\ enrolled' = enrolled \ {cur[t]}
  <2>1. Abstract!Leave(cur[t])
    BY <1>2, <1>4 DEF Abstract!Leave
  <2> QED BY <1>2, <2>1 DEF Abstract!Next
<1>5. CASE synced' = synced /\ enrolled' = enrolled
  BY <1>5 DEF Abstract!vars
<1> QED BY <1>1, <1>3, <1>4, <1>5, ResignCasEffect

LEMMA RefineNextPhase ==
  ASSUME BInv, NEW t \in Threads, NextPhase(t) PROVE [Abstract!Next]_(Abstract!vars)
<1>1. TypeOK /\ LocalsOK /\ PhaseOK
  BY DEF BInv
<1>2. pc[t] = "next" /\ cur[t] = None /\ tag[t] # None /\ enrolled' = enrolled
  BY <1>1, NextPhaseEffect DEF LocalsOK, DonePC
<1>3. CASE state = Completing(tag[t]) /\ synced' = {}
  <2>1. ready = {} /\ \A u \in Threads \ {t} : pc[u] = "idle"
    BY <1>2, <1>3, LastCompleter DEF Completing
  <2>2. enrolled \ synced = {}
    BY <1>2, <2>1, AllCome
  <2>3. synced # {} /\ synced \subseteq enrolled
    BY <1>1, <1>2, <2>1, SomeCome DEF TypeOK
  <2>4. Abstract!Pass
    BY <1>2, <1>3, <2>2, <2>3 DEF Abstract!Pass
  <2> QED BY <2>4 DEF Abstract!Next
<1>4. CASE synced' = synced
  BY <1>2, <1>4 DEF Abstract!vars
<1> QED BY <1>1, <1>3, <1>4, NextPhaseEffect

LEMMA RefineOthers ==
  ASSUME NEW t \in Threads,
         Sync(t) \/ Resign(t) \/ ReadHead(t) \/ SwapOld(t) \/ SetBit(t) \/ SetHead(t)
         \/ Join(t) \/ ResignHeads(t) \/ AddCount(t) \/ Release(t) \/ TakeHeads(t)
         \/ ClearOwn(t) \/ Other(t) \/ KeepBit(t) \/ CasHead(t) \/ Done(t) \/ Test(t) \/ End(t)
  PROVE  [Abstract!Next]_(Abstract!vars)
<1>1. UNCHANGED <<enrolled, synced>>
  BY DEF Sync, Resign, ReadHead, SwapOld, SetBit, SetHead, Join, ResignHeads, AddCount, Release,
         TakeHeads, ClearOwn, Other, KeepBit, CasHead, Done, Test, End, member
<1> QED BY <1>1 DEF Abstract!vars

\* The lock-free barrier implements the safety part of PhaseBarrier: enrolling,
\* coming and leaving are the steps that change bar->state, and a phase ends
\* only when everybody who is enrolled has come.
THEOREM BarrierRefines == Spec => Abstract!Init /\ [][Abstract!Next]_(Abstract!vars)
<1>1. Init => Abstract!Init
  BY BarrierAssumption DEF Init, Abstract!Init
<1>2. BInv /\ [Next]_vars => [Abstract!Next]_(Abstract!vars)
  <2> SUFFICES ASSUME BInv, [Next]_vars PROVE [Abstract!Next]_(Abstract!vars)
    OBVIOUS
  <2>1. CASE UNCHANGED vars
    BY <2>1 DEF vars, member, Abstract!vars
  <2>2. CASE Enroll
    BY <2>2, RefineEnroll DEF Abstract!Next
  <2>3. ASSUME NEW t \in Threads, Sync(t) \/ Resign(t) \/ Step(t)
        PROVE  [Abstract!Next]_(Abstract!vars)
    BY <2>3, RefineCount, RefineResignCas, RefineNextPhase, RefineOthers DEF Step
  <2> QED BY <2>1, <2>2, <2>3 DEF Next
<1> QED BY BarrierInvariant, <1>1, <1>2, PTL DEF Spec
=============================================================================
