---------------------------- MODULE TimerQueueProof ----------------------------
(***************************************************************************)
(* Proofs about TimerQueue: the types, that the queues are ordered, that   *)
(* the memory of a node is reused only when nothing refers to it, that the *)
(* count of an ALT is exact and it is triggered once, and that an ALT      *)
(* selects a guard whose time has come, for any threads, processes, number *)
(* of guards, nodes, period, delays and slack within half the period.      *)
(*                                                                         *)
(* Times are compared modulo the period.  Rel(now, x) is how far x lies    *)
(* after the clock, negative if it is past; where two times are less than  *)
(* half a period apart, After is the order of their offsets (AfterRel).    *)
(*                                                                         *)
(* The invariant:                                                          *)
(*   LinkOK    a node in a queue belongs to its thread and is not free;    *)
(*             it is dirty unless a timer input waits; while it is armed   *)
(*             for an ALT, that ALT's TLink is the node;                   *)
(*   OrderOK   a queue has each node once and is ordered by time, but for  *)
(*             the node in the hands of a walk;                            *)
(*   RefOK     the nodes that ALTs refer to, by TLink or to release them,  *)
(*             are in use, one for each ALT;                               *)
(*   WalkOK    the walk that challenges an ALT holds the first node of its *)
(*             queue, and one that has won will trigger an ALT which has   *)
(*             not ended, and no other walk will;                          *)
(*   CallOK    a thread in the middle of a kernel call does nothing else;  *)
(*   AltOK     what the state, the channel and the writer of an ALT tell   *)
(*             about each other;                                           *)
(*   CountExact  the count in State;                                       *)
(*   TimeOK    how far ahead or past the times that are compared can be,   *)
(*             so that no comparison wraps;                                *)
(*   SelOK     an ALT that disables its guards has selected one, or finds  *)
(*             a writer, or a guard that it has still to disable is due.   *)
(***************************************************************************)
EXTENDS TimerQueue, WellFoundedInduction, TLAPS

\* How far x lies after the time z.
Rel(z, x)  == IF Minus(x, z) < Half THEN Minus(x, z) ELSE Minus(x, z) - Period
Near(z, x) == Rel(z, x) \in -Slack .. MaxDelay
Past(z, x) == Rel(z, x) \in -Slack .. 0

\* The types, without the bound of the count of an ALT.
NodeT  == [wptr : Wptr, time : Times, dirty : BOOLEAN, owner : Threads]
WalkT  == [pc : {"off", "look", "swap", "trigger", "clean"}, now : Times, ptr : Wptr]
StateT == [n : Int, waiting : BOOLEAN, notReady : BOOLEAN]
FunOK ==
  /\ now \in Times /\ queue \in [Threads -> Seq(Nodes)]
  /\ node \in [Nodes -> NodeT]
  /\ free \subseteq Nodes /\ laundry \subseteq Nodes /\ sync \in [Threads -> BOOLEAN]
  /\ walk \in [Threads -> WalkT]
  /\ pc \in [Procs -> {"idle", "b_tin", "enbt", "taltwt", "cas", "b_altwt", "dist",
                       "release", "disc", "altend", "b_altend", "select"}]
  /\ on \in [Procs -> Threads]
  /\ state \in [Alts -> StateT]
  /\ tlink \in [Alts -> Nodes \cup {"notset", "set"}] /\ field \in [Alts -> Times]
  /\ held \in [Alts -> Nodes \cup {None}]
  /\ guards \in [Alts -> [1..Guards -> Times]] /\ k \in [Alts -> 1..Guards]
  /\ temp \in [Alts -> 0..Channel] /\ chan \in [Alts -> {"none", "alt", "writer"}]
  /\ trig \subseteq Alts

\* The nodes of a queue.
Listed(t) == ToSet(queue[t])

LinkAt(t, n) ==
  /\ node[n].owner = t /\ n \notin free
  /\ node[n].wptr \in Sleepers => ~node[n].dirty /\ \A p \in Alts : tlink[p] # n
  /\ node[n].wptr \notin Sleepers => node[n].dirty
  /\ node[n].wptr \in Alts => tlink[node[n].wptr] = n
  /\ node[n].wptr # None => n \notin laundry /\ \A p \in Alts : held[p] # n
LinkOK == \A t \in Threads : \A n \in Listed(t) : LinkAt(t, n)

\* Each node once; in the order of time from the place f.
Distinct(q) == \A i, j \in DOMAIN q : i # j => q[i] # q[j]
Rising(z, nodes, q, f) ==
  \A i, j \in DOMAIN q : f <= i /\ i < j => Rel(z, nodes[q[i]].time) <= Rel(z, nodes[q[j]].time)
First(t) == IF walk[t].pc \in {"off", "look"} THEN 1 ELSE 2
OrderOK  == \A t \in Threads : Distinct(queue[t]) /\ Rising(now, node, queue[t], First(t))

RefPC == {"cas", "b_altwt", "dist"}
RefAt(p) ==
  /\ tlink[p] \in Nodes =>
       /\ pc[p] \in RefPC /\ k[p] = Guards
       /\ tlink[p] \notin free \cup laundry /\ node[tlink[p]].wptr \in {p, None}
       /\ \A q \in Alts : held[q] # tlink[p] /\ (q # p => tlink[q] # tlink[p])
       /\ pc[p] = "cas" => node[tlink[p]].owner = on[p] /\ node[tlink[p]].wptr = p
  /\ pc[p] \in {"cas", "b_altwt"} => tlink[p] \in Nodes
  /\ held[p] # None <=> pc[p] = "release"
  /\ held[p] # None =>
       /\ held[p] \notin free \cup laundry /\ \A q \in Alts : q # p => held[q] # held[p]
       /\ node[held[p]].dirty => node[held[p]].wptr = None
RefOK == \A p \in Alts : RefAt(p)

TrigPC == {"b_altwt", "dist", "release", "disc", "altend", "b_altend"}
Triggers(t, p) == walk[t].pc = "trigger" /\ walk[t].ptr = p
WalkAt(t) ==
  /\ walk[t].pc \in {"swap", "trigger", "clean"} =>
       /\ queue[t] # <<>> /\ node[Head(queue[t])].dirty
       /\ walk[t].pc # "swap" => node[Head(queue[t])].wptr = None
       /\ node[Head(queue[t])].wptr \in Alts \cup {None}
  /\ walk[t].pc = "trigger" =>
       /\ walk[t].ptr \in Alts /\ pc[walk[t].ptr] \in TrigPC
       /\ tlink[walk[t].ptr] \in Nodes => node[tlink[walk[t].ptr]].wptr = None
       /\ \A u \in Threads : u # t => ~Triggers(u, walk[t].ptr)
WalkOK == \A t \in Threads : WalkAt(t)

CallAt(p) ==
  pc[p] \in InCall =>
    walk[on[p]].pc = "off" /\ \A q \in Procs : pc[q] \in InCall /\ on[q] = on[p] => q = p
CallOK == \A p \in Procs : CallAt(p)

ChanPC == {"enbt", "taltwt", "cas", "b_altwt", "dist", "release", "disc"}
EndPC  == {"altend", "b_altend", "select"}
AltAt(p) ==
  /\ pc[p] # "b_tin" /\ (state[p].waiting <=> pc[p] = "b_altwt")
  /\ chan[p] = "alt" => pc[p] \in ChanPC
  /\ p \in trig => chan[p] = "writer" /\ pc[p] \in ChanPC \cup {"altend", "b_altend"}
  /\ pc[p] \in {"enbt", "taltwt", "cas"} => state[p].notReady \/ chan[p] = "writer"
  /\ state[p].n \in 0..3
AltOK == (\A p \in Sleepers : pc[p] \in {"idle", "b_tin"}) /\ \A p \in Alts : AltAt(p)

\* CountExact of one ALT: its node is armed, or a walk is about to trigger it.
InQueue(p) == pc[p] \in {"b_altwt", "dist"} /\ tlink[p] \in Nodes /\ node[tlink[p]].wptr = p
InWalk(p)  == \E t \in Threads : Triggers(t, p)
CountAt(p) ==
  pc[p] \notin {"idle", "select"} =>
    state[p].n = Bit(pc[p] # "b_altend") + Bit(chan[p] = "alt" \/ p \in trig) + Bit(InQueue(p) \/ InWalk(p))

\* While guards are enabled the field is their minimum; at the swap it is the
\* time of the call.
GuardRel(p, g) == Rel(now, guards[p][g])
FieldRel(p)    == Rel(now, field[p])
EnableOK(p) ==
  /\ pc[p] = "enbt" => tlink[p] = (IF k[p] = 1 THEN "notset" ELSE "set")
  /\ pc[p] = "taltwt" => tlink[p] = "set" /\ k[p] = Guards
  /\ pc[p] \in {"enbt", "taltwt"} /\ tlink[p] = "set" =>
       /\ \E g \in 1..Guards : field[p] = guards[p][g]
       /\ \A g \in 1..Guards : g < k[p] \/ pc[p] = "taltwt" => FieldRel(p) <= GuardRel(p, g)
  /\ pc[p] = "cas" => /\ FieldRel(p) <= 0
                      /\ \A g \in 1..Guards : GuardRel(p, g) - FieldRel(p) \in 1..MaxDelay

\* The time at which a node fired, and no guard is far ahead of it.
Lags(p, x)  == \A g \in 1..Guards : GuardRel(p, g) - Rel(now, x) <= MaxDelay
Fired(p, x) == Rel(now, x) <= 0 /\ Lags(p, x)
ThreadTime(t) ==
  /\ \A n \in Listed(t) : Near(now, node[n].time)
  /\ walk[t].pc # "off" => Past(now, walk[t].now)
  /\ walk[t].pc = "swap" => node[Head(queue[t])].time = walk[t].now
AltTime(p) ==
  /\ pc[p] # "idle" => \A g \in 1..Guards : Near(now, guards[p][g])
  /\ EnableOK(p)
  /\ pc[p] \in {"dist", "release"} /\ tlink[p] = "set" => Fired(p, field[p])
  /\ tlink[p] \in Nodes =>
       /\ \E g \in 1..Guards : GuardRel(p, g) <= Rel(now, node[tlink[p]].time)
       /\ Lags(p, node[tlink[p]].time)
       /\ node[tlink[p]].wptr = None => Rel(now, node[tlink[p]].time) <= 0
TimeOK == (\A t \in Threads : ThreadTime(t)) /\ \A p \in Alts : AltTime(p)

\* A guard that is still to be disabled is due, and will be seen to be.
DueBefore(p, m) == tlink[p] = "set" /\ \E g \in 1..m : GuardRel(p, g) <= FieldRel(p)
Due(p) == \/ pc[p] = "dist" /\ DueBefore(p, k[p])
          \/ pc[p] = "dist" /\ tlink[p] \in Nodes /\ node[tlink[p]].wptr = None
          \/ pc[p] = "release" /\ DueBefore(p, k[p] - 1)
SelAt(p) ==
  /\ pc[p] \in {"enbt", "taltwt", "cas", "b_altwt"} => temp[p] = 0
  /\ pc[p] # "idle" /\ temp[p] \in 1..Guards => GuardRel(p, temp[p]) <= 0
  /\ pc[p] \in {"dist", "release", "disc"} => temp[p] # 0 \/ chan[p] = "writer" \/ Due(p)
  /\ pc[p] \in EndPC => temp[p] # 0
SelOK == \A p \in Alts : SelAt(p)

MemInv == FunOK /\ LinkOK /\ OrderOK /\ RefOK /\ WalkOK /\ CallOK /\ AltOK /\ CountExact
IInv == MemInv /\ TimeOK /\ SelOK

-----------------------------------------------------------------------------
(* Constants, and times                                                    *)

LEMMA ConstFacts ==
  /\ Sleepers \cap Alts = {} /\ None \notin Procs /\ None \notin Nodes
  /\ None \notin Alts /\ None \notin Sleepers /\ Sleepers \subseteq Procs /\ Alts \subseteq Procs
  /\ "set" \notin Nodes /\ "notset" \notin Nodes
  /\ Guards \in Nat /\ Guards >= 1 /\ Half \in Nat /\ Half > 0 /\ Period = 2 * Half
  /\ MaxDelay \in Nat /\ Slack \in Nat /\ MaxDelay >= 1 /\ Slack >= 1
  /\ MaxDelay + Slack < Half /\ Period \in Nat /\ Channel = Guards + 1 /\ Times = 0 .. Period - 1
<1>1. Half \in Int
  BY TimerAssumption DEF Half
<1> QED BY <1>1, TimerAssumption DEF Procs, Channel, Times

LEMMA Sizes ==
  /\ Half \in Nat /\ Half > 0 /\ Period \in Nat /\ Period = 2 * Half /\ Times = 0 .. Period - 1
  /\ MaxDelay \in Nat /\ Slack \in Nat /\ MaxDelay >= 1 /\ Slack >= 1 /\ MaxDelay + Slack < Half
  /\ Guards \in Nat /\ Guards >= 1 /\ Channel = Guards + 1
  BY ConstFacts

LEMMA AThread == AnyThread \in Threads
  BY TimerAssumption DEF AnyThread

\* A difference of less than a period, modulo the period.
LEMMA ModFacts ==
  ASSUME NEW x \in Int PROVE
  /\ 0 <= x /\ x < Period => x % Period = x
  /\ -Period <= x /\ x < 0 => x % Period = x + Period
  /\ Period <= x /\ x < 2 * Period => x % Period = x - Period
<1>1. Period \in Nat /\ Period > 0
  BY Sizes
<1>2. 0 <= x /\ x < Period => x % Period = x
  BY <1>1
<1>3. -Period <= x /\ x < 0 => x % Period = x + Period
  BY <1>1
<1>4. Period <= x /\ x < 2 * Period => x % Period = x - Period
  BY <1>1
<1> QED BY <1>2, <1>3, <1>4

\* The difference of two times, without the modulus.
LEMMA MinusIs ==
  ASSUME NEW x \in Times, NEW y \in Times
  PROVE  Minus(x, y) = IF x >= y THEN x - y ELSE x - y + Period
<1>1. x \in Int /\ y \in Int /\ 0 <= x /\ x < Period /\ 0 <= y /\ y < Period
  BY Sizes
<1>2. x - y \in Int /\ Period \in Nat
  BY <1>1, Sizes
<1>3. /\ 0 <= x - y /\ x - y < Period => (x - y) % Period = x - y
      /\ -Period <= x - y /\ x - y < 0 => (x - y) % Period = (x - y) + Period
  BY <1>2, ModFacts, Zenon
<1>4. Minus(x, y) = (x - y) % Period
  BY DEF Minus
<1> QED BY <1>1, <1>2, <1>3, <1>4

LEMMA RelIs ==
  ASSUME NEW z \in Times, NEW x \in Times
  PROVE  /\ Rel(z, x) \in Int /\ Rel(z, x) >= -Half /\ Rel(z, x) < Half
         /\ Rel(z, x) = x - z \/ Rel(z, x) = x - z + Period \/ Rel(z, x) = x - z - Period
<1>1. x \in Int /\ z \in Int /\ 0 <= x /\ x < Period /\ 0 <= z /\ z < Period
  BY Sizes
<1>2. Minus(x, z) = IF x >= z THEN x - z ELSE x - z + Period
  BY MinusIs
<1>3. Rel(z, x) = IF Minus(x, z) < Half THEN Minus(x, z) ELSE Minus(x, z) - Period
  BY DEF Rel
<1>4. CASE x >= z
  BY <1>1, <1>2, <1>3, <1>4, Sizes
<1>5. CASE x < z
  BY <1>1, <1>2, <1>3, <1>5, Sizes
<1> QED BY <1>1, <1>4, <1>5

LEMMA RelNow == ASSUME NEW z \in Times PROVE Rel(z, z) = 0
  BY Sizes, MinusIs DEF Rel

\* Times less than half a period apart are compared by their offsets.
LEMMA AfterRel ==
  ASSUME NEW z \in Times, NEW x \in Times, NEW y \in Times,
         Rel(z, x) - Rel(z, y) < Half, Rel(z, y) - Rel(z, x) < Half
  PROVE  After(x, y) <=> Rel(z, x) > Rel(z, y)
<1>1. /\ Rel(z, x) = x - z \/ Rel(z, x) = x - z + Period \/ Rel(z, x) = x - z - Period
      /\ Rel(z, y) = y - z \/ Rel(z, y) = y - z + Period \/ Rel(z, y) = y - z - Period
      /\ Rel(z, x) \in Int /\ Rel(z, y) \in Int
  BY RelIs
<1>2. Minus(y, x) = IF y >= x THEN y - x ELSE y - x + Period
  BY MinusIs
<1>3. x \in Int /\ y \in Int /\ z \in Int /\ 0 <= x /\ x < Period /\ 0 <= y /\ y < Period
  BY Sizes
<1>4. After(x, y) <=> Minus(y, x) >= Half
  BY DEF After
<1>5. PICK d \in Int : d = Rel(z, y) - Rel(z, x)
  BY <1>1
<1>6. d < Half /\ d > -Half
  BY <1>1, <1>5, Sizes
<1>7. d = y - x \/ d = y - x + Period \/ d = y - x - Period
  <2>1. Period = Half + Half /\ Half \in Int /\ Half > 0 /\ Period \in Int
    BY Sizes
  <2>2. CASE Rel(z, x) = x - z
    BY <1>1, <1>3, <1>5, <2>1, <2>2
  <2>3. CASE Rel(z, x) = x - z + Period
    BY <1>1, <1>3, <1>5, <1>6, <2>1, <2>3
  <2>4. CASE Rel(z, x) = x - z - Period
    BY <1>1, <1>3, <1>5, <1>6, <2>1, <2>4
  <2> QED BY <1>1, <2>2, <2>3, <2>4
<1>8. After(x, y) <=> d < 0
  <2>1. Period = Half + Half /\ Half \in Int /\ Half > 0
    BY Sizes
  <2>2. CASE d = y - x
    BY <1>2, <1>3, <1>4, <1>6, <2>1, <2>2
  <2>3. CASE d = y - x + Period
    BY <1>2, <1>3, <1>4, <1>6, <2>1, <2>3
  <2>4. CASE d = y - x - Period
    BY <1>2, <1>3, <1>4, <1>6, <2>1, <2>4
  <2> QED BY <1>7, <2>2, <2>3, <2>4
<1> QED BY <1>1, <1>5, <1>8

LEMMA FutureRel ==
  ASSUME now \in Times, NEW d \in 0 .. MaxDelay
  PROVE  Future(d) \in Times /\ Rel(now, Future(d)) = d
<1>1. now \in Int /\ 0 <= now /\ now < Period /\ d \in Int /\ 0 <= d /\ d < Half
  BY Sizes
<1>10. now + d \in Int
  BY <1>1
<1>2. /\ 0 <= now + d /\ now + d < Period => (now + d) % Period = now + d
      /\ Period <= now + d /\ now + d < 2 * Period => (now + d) % Period = (now + d) - Period
  BY <1>10, ModFacts, Zenon
<1>3. Future(d) = IF now + d < Period THEN now + d ELSE now + d - Period
  BY <1>1, <1>2, Sizes DEF Future
<1>4. Future(d) \in Times
  BY <1>1, <1>3, Sizes
<1>5. Minus(Future(d), now) = IF Future(d) >= now THEN Future(d) - now ELSE Future(d) - now + Period
  BY <1>4, MinusIs
<1> QED BY <1>1, <1>3, <1>4, <1>5, Sizes DEF Rel

\* The time after the one that Y_tin is given.
LEMMA NextRel ==
  ASSUME now \in Times, NEW x \in Times, Rel(now, x) \in 0 .. MaxDelay - 1
  PROVE  (x + 1) % Period \in Times /\ Rel(now, (x + 1) % Period) = Rel(now, x) + 1
<1>1. /\ now \in Int /\ 0 <= now /\ now < Period /\ x \in Int /\ 0 <= x /\ x < Period
  BY Sizes
<1>10. x + 1 \in Int
  BY <1>1
<1>2. /\ 0 <= x + 1 /\ x + 1 < Period => (x + 1) % Period = x + 1
      /\ Period <= x + 1 /\ x + 1 < 2 * Period => (x + 1) % Period = (x + 1) - Period
  BY <1>10, ModFacts, Zenon
<1> DEFINE y == (x + 1) % Period
<1>3. y = IF x + 1 < Period THEN x + 1 ELSE x + 1 - Period
  BY <1>1, <1>2, Sizes
<1>4. y \in Times
  BY <1>1, <1>3, Sizes
<1>5. Minus(y, now) = IF y >= now THEN y - now ELSE y - now + Period
  BY <1>4, MinusIs
<1>6. Minus(x, now) = IF x >= now THEN x - now ELSE x - now + Period
  BY MinusIs
<1> HIDE DEF y
<1>7. Rel(now, y) = Rel(now, x) + 1
  BY <1>1, <1>3, <1>4, <1>5, <1>6, Sizes DEF Rel
<1> QED BY <1>4, <1>7 DEF y

\* A tick of the clock brings every time one nearer.
LEMMA TickRel ==
  ASSUME now \in Times, now' = Future(1)
  PROVE  /\ now' \in Times
         /\ \A x \in Times : Rel(now, x) > -Half => Rel(now', x) = Rel(now, x) - 1
<1>1. now' \in Times /\ Rel(now, now') = 1
  BY FutureRel, Sizes
<1>2. ASSUME NEW x \in Times, Rel(now, x) > -Half PROVE Rel(now', x) = Rel(now, x) - 1
  <2>1. /\ Minus(x, now) = IF x >= now THEN x - now ELSE x - now + Period
        /\ Minus(x, now') = IF x >= now' THEN x - now' ELSE x - now' + Period
        /\ Minus(now', now) = IF now' >= now THEN now' - now ELSE now' - now + Period
    BY <1>1, MinusIs
  <2>2. now \in Int /\ now' \in Int /\ x \in Int /\ 0 <= x /\ x < Period
        /\ 0 <= now /\ now < Period /\ 0 <= now' /\ now' < Period
    BY <1>1, Sizes
  <2>3. now' = now + 1 \/ (now' = 0 /\ now = Period - 1)
    <3>1. Minus(now', now) = 1
      BY <1>1, <2>1, <2>2, Sizes DEF Rel
    <3> QED BY <2>1, <2>2, <3>1, Sizes
  <2>4. CASE now' = now + 1
    <3>1. CASE x >= now
      BY <1>2, <2>1, <2>2, <2>4, <3>1, Sizes DEF Rel
    <3>2. CASE x < now
      BY <1>2, <2>1, <2>2, <2>4, <3>2, Sizes DEF Rel
    <3> QED BY <2>2, <3>1, <3>2
  <2>5. CASE now' = 0 /\ now = Period - 1
    BY <1>2, <2>1, <2>2, <2>5, Sizes DEF Rel
  <2> QED BY <2>3, <2>4, <2>5
<1> QED BY <1>1, <1>2

\* A time that is not overdue can come one nearer.
LEMMA OverdueRel ==
  ASSUME now \in Times, NEW x \in Times, Rel(now, x) > -Half, ~Overdue(x)
  PROVE  Rel(now, x) > -Slack
<1>1. /\ Minus(x, now) = IF x >= now THEN x - now ELSE x - now + Period
      /\ Minus(now, x) = IF now >= x THEN now - x ELSE now - x + Period
  BY MinusIs
<1>2. now \in Int /\ x \in Int /\ 0 <= x /\ x < Period /\ 0 <= now /\ now < Period
  BY Sizes
<1> QED BY <1>1, <1>2, Sizes DEF Rel, Overdue

-----------------------------------------------------------------------------
(* Parts of sequences                                                      *)

\* A nonempty set of naturals has a least element.
LEMMA LeastNatural ==
  ASSUME NEW T, T \subseteq Nat, T # {} PROVE \E x \in T : \A y \in T : x <= y
<1> DEFINE R == {ss \in Nat \X Nat : ss[1] < ss[2]}
<1>1. IsWellFoundedOn(R, Nat)
  BY NatLessThanWellFounded DEF OpToRel
<1> HIDE DEF R
<1>2. PICK x \in T : \A y \in T : <<y, x>> \notin R
  BY <1>1, WFMin
<1>3. \A y \in T : ~(y < x)
  BY <1>2 DEF R
<1> QED BY <1>3

\* The function by which Keep is defined, up to m.
KeptTo(s, A, m, f) ==
  f = [i \in 0 .. m |-> IF i = 0 THEN <<>> ELSE IF s[i] \in A THEN Append(f[i-1], s[i]) ELSE f[i-1]]

LEMMA KeptExists ==
  ASSUME NEW s \in Seq(Nodes), NEW A PROVE \E f : KeptTo(s, A, Len(s), f)
<1> DEFINE Bad == {m \in 0 .. Len(s) : ~ \E f : KeptTo(s, A, m, f)}
<1>1. SUFFICES ASSUME Bad # {} PROVE FALSE
  <2>1. Len(s) \in 0 .. Len(s)
    OBVIOUS
  <2> QED BY <1>1, <2>1
<1>2. PICK c \in Bad : \A m \in Bad : c <= m
  <2>1. Bad \subseteq Nat
    OBVIOUS
  <2> HIDE DEF Bad
  <2> QED BY <1>1, <2>1, LeastNatural
<1>3. c \in 0 .. Len(s) /\ ~ \E f : KeptTo(s, A, c, f)
  BY <1>2
<1>4. CASE c = 0
  <2>1. KeptTo(s, A, 0, [i \in 0 .. 0 |-> <<>>])
    BY DEF KeptTo
  <2> QED BY <1>3, <1>4, <2>1
<1>5. CASE c # 0
  <2>1. c - 1 \in 0 .. Len(s) /\ c - 1 \notin Bad
    BY <1>2, <1>3, <1>5
  <2>2. PICK f : KeptTo(s, A, c - 1, f)
    BY <2>1
  <2> DEFINE g == [i \in 0 .. c |-> IF i < c THEN f[i]
                                    ELSE IF s[c] \in A THEN Append(f[c-1], s[c]) ELSE f[c-1]]
  <2>3. \A i \in 0 .. c - 1 : g[i] = f[i]
    BY <1>3
  <2>4. \A i \in 0 .. c : g[i] = IF i = 0 THEN <<>> ELSE IF s[i] \in A THEN Append(g[i-1], s[i]) ELSE g[i-1]
    <3>1. ASSUME NEW i \in 0 .. c - 1
          PROVE  f[i] = IF i = 0 THEN <<>> ELSE IF s[i] \in A THEN Append(f[i-1], s[i]) ELSE f[i-1]
      BY <2>2 DEF KeptTo
    <3>2. ASSUME NEW i \in 0 .. c, i < c
          PROVE  g[i] = IF i = 0 THEN <<>> ELSE IF s[i] \in A THEN Append(g[i-1], s[i]) ELSE g[i-1]
      <4> HIDE DEF g
      <4>1. i \in 0 .. c - 1 /\ (i # 0 => i - 1 \in 0 .. c - 1)
        BY <1>3, <3>2
      <4> QED BY <2>3, <3>1, <4>1
    <3>3. c - 1 \in 0 .. c - 1
      BY <1>3, <1>5
    <3>4. g[c] = IF s[c] \in A THEN Append(g[c-1], s[c]) ELSE g[c-1]
      BY <1>3, <2>3, <3>3
    <3> HIDE DEF g
    <3> QED BY <1>3, <1>5, <3>2, <3>4
  <2>5. KeptTo(s, A, c, g)
    <3>1. g = [i \in 0 .. c |-> g[i]]
      OBVIOUS
    <3> HIDE DEF g
    <3> QED BY <2>4, <3>1 DEF KeptTo
  <2> QED BY <1>3, <2>5
<1> QED BY <1>4, <1>5

LEMMA KeepIs ==
  ASSUME NEW s \in Seq(Nodes), NEW A
  PROVE  \E f : KeptTo(s, A, Len(s), f) /\ Keep(s, A) = f[Len(s)]
<1> DEFINE kept == CHOOSE f : KeptTo(s, A, Len(s), f)
<1>1. KeptTo(s, A, Len(s), kept)
  <2> HIDE DEF KeptTo
  <2> QED BY KeptExists
<1>2. Keep(s, A) = kept[Len(s)]
  BY DEF Keep, KeptTo
<1> QED BY <1>1, <1>2

\* r is a part of s: its elements are elements of s, in their order.
Within(r, s) ==
  \E f \in [DOMAIN r -> DOMAIN s] : /\ \A i \in DOMAIN r : r[i] = s[f[i]]
                                    /\ \A i, j \in DOMAIN r : i < j => f[i] < f[j]

\* What is kept is a part of s, in A.
Part(r, s, A, m) ==
  /\ r \in Seq(Nodes) /\ \A i \in DOMAIN r : r[i] \in A
  /\ \E f \in [DOMAIN r -> 1 .. m] : /\ \A i \in DOMAIN r : r[i] = s[f[i]]
                                     /\ \A i, j \in DOMAIN r : i < j => f[i] < f[j]
LEMMA PartAppend ==
  ASSUME NEW s \in Seq(Nodes), NEW A, NEW m \in 1 .. Len(s), NEW r, Part(r, s, A, m - 1), s[m] \in A
  PROVE  Part(Append(r, s[m]), s, A, m)
<1>1. PICK f \in [DOMAIN r -> 1 .. m-1] : /\ \A i \in DOMAIN r : r[i] = s[f[i]]
                                          /\ \A i, j \in DOMAIN r : i < j => f[i] < f[j]
  BY DEF Part
<1> DEFINE a == Append(r, s[m])
           g == [i \in DOMAIN a |-> IF i = Len(a) THEN m ELSE f[i]]
<1>2. /\ r \in Seq(Nodes) /\ a \in Seq(Nodes) /\ Len(a) = Len(r) + 1 /\ Len(r) \in Nat
      /\ DOMAIN a = 1 .. Len(r) + 1 /\ DOMAIN r = 1 .. Len(r) /\ a[Len(a)] = s[m]
      /\ \A i \in DOMAIN r : a[i] = r[i] /\ r[i] \in A
  BY DEF Part
<1> HIDE DEF a
<1>3. \A i \in DOMAIN r : f[i] \in 1 .. m - 1
  BY <1>1
<1>4. g \in [DOMAIN a -> 1 .. m]
  <2>1. ASSUME NEW i \in DOMAIN a PROVE (IF i = Len(a) THEN m ELSE f[i]) \in 1 .. m
    <3>1. i = Len(a) \/ i \in DOMAIN r
      BY <1>2
    <3> QED BY <1>2, <1>3, <3>1
  <2> QED BY <2>1
<1>5. /\ g[Len(a)] = m
      /\ \A i \in DOMAIN r : g[i] = f[i] /\ i \in DOMAIN a
      /\ \A i \in DOMAIN a : i \in DOMAIN r \/ i = Len(a)
  BY <1>2
<1> HIDE DEF g
<1>6. \A i \in DOMAIN a : a[i] = s[g[i]] /\ a[i] \in A
  BY <1>1, <1>2, <1>5
<1>7. \A i, j \in DOMAIN a : i < j => g[i] < g[j]
  <2>1. ASSUME NEW i \in DOMAIN a, NEW j \in DOMAIN a, i < j PROVE g[i] < g[j]
    <3>1. i \in DOMAIN r
      BY <1>2, <2>1
    <3>2. CASE j \in DOMAIN r
      BY <1>1, <1>5, <2>1, <3>1, <3>2
    <3>3. CASE j = Len(a)
      BY <1>3, <1>5, <3>1, <3>3
    <3> QED BY <1>5, <3>2, <3>3
  <2> QED BY <2>1
<1> QED BY <1>2, <1>4, <1>6, <1>7 DEF Part, a

LEMMA PartWider ==
  ASSUME NEW s \in Seq(Nodes), NEW A, NEW m \in 1 .. Len(s), NEW r, Part(r, s, A, m - 1)
  PROVE  Part(r, s, A, m)
<1>1. PICK f \in [DOMAIN r -> 1 .. m-1] : /\ \A i \in DOMAIN r : r[i] = s[f[i]]
                                          /\ \A i, j \in DOMAIN r : i < j => f[i] < f[j]
  BY DEF Part
<1>2. f \in [DOMAIN r -> 1 .. m]
  <2>1. 1 .. m - 1 \subseteq 1 .. m
    OBVIOUS
  <2> QED BY <2>1
<1> QED BY <1>1, <1>2 DEF Part

LEMMA KeepFacts ==
  ASSUME NEW s \in Seq(Nodes), NEW A
  PROVE  /\ Keep(s, A) \in Seq(Nodes) /\ Within(Keep(s, A), s)
         /\ \A i \in DOMAIN Keep(s, A) : Keep(s, A)[i] \in A
<1>1. PICK f : KeptTo(s, A, Len(s), f) /\ Keep(s, A) = f[Len(s)]
  BY KeepIs
<1>2. \A i \in 0 .. Len(s) : f[i] = IF i = 0 THEN <<>> ELSE IF s[i] \in A THEN Append(f[i-1], s[i]) ELSE f[i-1]
  BY <1>1 DEF KeptTo
<1> DEFINE Bad == {m \in 0 .. Len(s) : ~Part(f[m], s, A, m)}
<1>3. Bad = {}
  <2>1. SUFFICES ASSUME Bad # {} PROVE FALSE
    OBVIOUS
  <2>2. PICK c \in Bad : \A m \in Bad : c <= m
    <3>1. Bad \subseteq Nat
      OBVIOUS
    <3> HIDE DEF Bad
    <3> QED BY <2>1, <3>1, LeastNatural
  <2>3. c \in 0 .. Len(s) /\ ~Part(f[c], s, A, c)
    BY <2>2
  <2>4. CASE c = 0
    <3>1. Part(<<>>, s, A, 0)
      <4>1. DOMAIN <<>> = {} /\ <<>> \in Seq(Nodes)
        OBVIOUS
      <4>2. [i \in {} |-> 1] \in [{} -> 1 .. 0]
        OBVIOUS
      <4> QED BY <4>1, <4>2 DEF Part
    <3> QED BY <1>2, <2>3, <2>4, <3>1
  <2>5. CASE c # 0
    <3>1. c - 1 \in 0 .. Len(s) /\ c - 1 \notin Bad /\ c \in 1 .. Len(s)
      BY <2>2, <2>3, <2>5
    <3>2. Part(f[c-1], s, A, c - 1)
      BY <3>1
    <3>3. f[c] = IF s[c] \in A THEN Append(f[c-1], s[c]) ELSE f[c-1]
      BY <1>2, <2>3, <2>5
    <3> QED BY <2>3, <3>1, <3>2, <3>3, PartAppend, PartWider
  <2> QED BY <2>4, <2>5
<1>4. Part(Keep(s, A), s, A, Len(s))
  <2>1. Len(s) \in 0 .. Len(s)
    OBVIOUS
  <2>2. Len(s) \notin Bad
    BY <1>3
  <2> QED BY <1>1, <2>1, <2>2
<1>5. DOMAIN s = 1 .. Len(s)
  OBVIOUS
<1> QED BY <1>4, <1>5 DEF Part, Within

\* Parts of a queue have each node once, and are ordered, as it is.
LEMMA WithinFacts ==
  ASSUME NEW r \in Seq(Nodes), NEW s \in Seq(Nodes), Within(r, s)
  PROVE  /\ ToSet(r) \subseteq ToSet(s)
         /\ Distinct(s) => Distinct(r)
         /\ \A z, nodes : Rising(z, nodes, s, 1) => Rising(z, nodes, r, 1)
<1>1. PICK f \in [DOMAIN r -> DOMAIN s] : /\ \A i \in DOMAIN r : r[i] = s[f[i]]
                                          /\ \A i, j \in DOMAIN r : i < j => f[i] < f[j]
  BY DEF Within
<1>2. \A i \in DOMAIN r : i \in Int /\ i >= 1 /\ f[i] \in DOMAIN s /\ f[i] \in Int /\ f[i] >= 1
  BY <1>1
<1>3. ToSet(r) \subseteq ToSet(s)
  BY <1>1, <1>2 DEF ToSet
<1>4. Distinct(s) => Distinct(r)
  <2>1. ASSUME Distinct(s), NEW i \in DOMAIN r, NEW j \in DOMAIN r, i # j PROVE r[i] # r[j]
    <3>1. i < j \/ j < i
      BY <1>2, <2>1
    <3>2. f[i] # f[j]
      BY <1>1, <1>2, <3>1
    <3> QED BY <1>1, <1>2, <2>1, <3>2 DEF Distinct
  <2> QED BY <2>1 DEF Distinct
<1>5. ASSUME NEW z, NEW nodes, Rising(z, nodes, s, 1) PROVE Rising(z, nodes, r, 1)
  BY <1>1, <1>2, <1>5 DEF Rising
<1> QED BY <1>3, <1>4, <1>5

\* The rest of a queue: the first node is no longer in it.
LEMMA TailFacts ==
  ASSUME NEW s \in Seq(Nodes), s # <<>>
  PROVE  /\ Tail(s) \in Seq(Nodes) /\ Head(s) \in Nodes /\ Head(s) \in ToSet(s)
         /\ Distinct(s) => Distinct(Tail(s)) /\ ToSet(Tail(s)) = ToSet(s) \ {Head(s)}
         /\ \A z, nodes : Rising(z, nodes, s, 1) \/ Rising(z, nodes, s, 2) => Rising(z, nodes, Tail(s), 1)
<1> DEFINE r == Tail(s)
<1>1. /\ r \in Seq(Nodes) /\ Head(s) = s[1] /\ Len(s) \in Nat /\ Len(s) >= 1 /\ 1 \in DOMAIN s
      /\ DOMAIN s = 1 .. Len(s) /\ DOMAIN r = 1 .. Len(s) - 1
      /\ \A i \in DOMAIN r : r[i] = s[i + 1] /\ i + 1 \in DOMAIN s
  OBVIOUS
<1> HIDE DEF r
<1>2. Head(s) \in Nodes /\ Head(s) \in ToSet(s)
  BY <1>1 DEF ToSet
<1>3. Distinct(s) => Distinct(r)
  BY <1>1 DEF Distinct
<1>4. ASSUME Distinct(s) PROVE ToSet(r) = ToSet(s) \ {Head(s)}
  <2>1. ASSUME NEW n \in ToSet(r) PROVE n \in ToSet(s) /\ n # Head(s)
    <3>1. PICK i \in DOMAIN r : n = r[i]
      BY <2>1 DEF ToSet
    <3>2. i + 1 \in DOMAIN s /\ i + 1 # 1 /\ n = s[i + 1]
      BY <1>1, <3>1
    <3> QED BY <1>1, <1>4, <3>2 DEF ToSet, Distinct
  <2>2. ASSUME NEW n \in ToSet(s), n # Head(s) PROVE n \in ToSet(r)
    <3>1. PICK i \in DOMAIN s : n = s[i]
      BY <2>2 DEF ToSet
    <3>2. i - 1 \in DOMAIN r /\ r[i - 1] = s[i]
      <4>1. i \in 1 .. Len(s) /\ i # 1
        BY <1>1, <2>2, <3>1
      <4>2. i - 1 \in DOMAIN r /\ (i - 1) + 1 = i
        BY <1>1, <4>1
      <4> QED BY <1>1, <4>2
    <3> QED BY <3>1, <3>2 DEF ToSet
  <2> QED BY <2>1, <2>2
<1>5. ASSUME NEW z, NEW nodes, Rising(z, nodes, s, 1) \/ Rising(z, nodes, s, 2)
      PROVE  Rising(z, nodes, r, 1)
  <2>1. ASSUME NEW i \in DOMAIN r, NEW j \in DOMAIN r, i < j
        PROVE  Rel(z, nodes[r[i]].time) <= Rel(z, nodes[r[j]].time)
    <3>1. /\ i + 1 \in DOMAIN s /\ j + 1 \in DOMAIN s /\ i + 1 >= 2 /\ i + 1 >= 1 /\ i + 1 < j + 1
          /\ r[i] = s[i + 1] /\ r[j] = s[j + 1]
      BY <1>1, <2>1
    <3> QED BY <1>5, <3>1 DEF Rising
  <2> QED BY <2>1 DEF Rising
<1> QED BY <1>1, <1>2, <1>3, <1>4, <1>5 DEF r

\* A new node at the place m.
LEMMA InsertFacts ==
  ASSUME NEW s \in Seq(Nodes), NEW m \in 1 .. Len(s) + 1, NEW n \in Nodes, n \notin ToSet(s),
         Distinct(s)
  PROVE  /\ InsertAt(s, m, n) \in Seq(Nodes) /\ ToSet(InsertAt(s, m, n)) = ToSet(s) \cup {n}
         /\ Distinct(InsertAt(s, m, n))
         /\ \A z, nodes :
              /\ Rising(z, nodes, s, 1)
              /\ \A i \in DOMAIN s : IF i < m THEN Rel(z, nodes[s[i]].time) <= Rel(z, nodes[n].time)
                                              ELSE Rel(z, nodes[n].time) <= Rel(z, nodes[s[i]].time)
              => Rising(z, nodes, InsertAt(s, m, n), 1)
<1> DEFINE r == InsertAt(s, m, n)
<1>1. /\ Len(s) \in Nat /\ DOMAIN s = 1 .. Len(s) /\ m \in Int /\ m >= 1 /\ m <= Len(s) + 1
      /\ \A i \in DOMAIN s : s[i] \in Nodes /\ i \in Int
  OBVIOUS
<1>2. /\ r \in Seq(Nodes) /\ DOMAIN r = 1 .. Len(s) + 1
      /\ \A i \in 1 .. Len(s) + 1 : r[i] = IF i < m THEN s[i] ELSE IF i = m THEN n ELSE s[i - 1]
  <2> DEFINE a == SubSeq(s, 1, m - 1)
             b == SubSeq(s, m, Len(s))
             c == a \o <<n>>
  <2>1. a \in Seq(Nodes) /\ Len(a) = m - 1 /\ \A i \in 1 .. m - 1 : a[i] = s[i]
    BY <1>1
  <2>2. b \in Seq(Nodes) /\ Len(b) = Len(s) + 1 - m /\ \A i \in 1 .. Len(s) + 1 - m : b[i] = s[m + i - 1]
    BY <1>1
  <2> HIDE DEF a, b
  <2>3. c \in Seq(Nodes) /\ Len(c) = m /\ c[m] = n /\ \A i \in 1 .. m - 1 : c[i] = s[i]
    <3>1. c = Append(a, n)
      BY <2>1
    <3> QED BY <1>1, <2>1, <3>1
  <2>4. r = c \o b
    BY DEF InsertAt, a, b
  <2> HIDE DEF c, r
  <2>5. r \in Seq(Nodes) /\ Len(r) = Len(s) + 1
    <3>1. r \in Seq(Nodes) /\ Len(r) = Len(c) + Len(b)
      BY <2>2, <2>3, <2>4
    <3> QED BY <1>1, <2>2, <2>3, <3>1
  <2>6. ASSUME NEW i \in 1 .. Len(s) + 1
        PROVE  r[i] = IF i < m THEN s[i] ELSE IF i = m THEN n ELSE s[i - 1]
    <3>1. r[i] = IF i <= Len(c) THEN c[i] ELSE b[i - Len(c)]
      BY <1>1, <2>2, <2>3, <2>4
    <3>2. CASE i <= m
      BY <1>1, <2>3, <3>1, <3>2
    <3>3. CASE i > m
      <4>1. i - m \in 1 .. Len(s) + 1 - m /\ m + (i - m) - 1 = i - 1
        BY <1>1, <3>3
      <4> QED BY <1>1, <2>2, <2>3, <3>1, <3>3, <4>1
    <3> QED BY <1>1, <3>2, <3>3
  <2> QED BY <2>5, <2>6
<1>3. DOMAIN r = 1 .. Len(s) + 1
  BY <1>2
<1>4. r \in Seq(Nodes)
  BY <1>2
<1>5. \A i \in DOMAIN r : \/ i = m /\ r[i] = n
                          \/ i < m /\ i \in DOMAIN s /\ r[i] = s[i]
                          \/ i > m /\ i - 1 \in DOMAIN s /\ i - 1 >= m /\ r[i] = s[i - 1]
  BY <1>1, <1>2
<1>6. m \in DOMAIN r /\ r[m] = n
  BY <1>1, <1>2
<1>7. \A i \in DOMAIN s : IF i < m THEN i \in DOMAIN r /\ r[i] = s[i]
                                   ELSE i + 1 \in DOMAIN r /\ r[i + 1] = s[i]
  BY <1>1, <1>2
<1> HIDE DEF r
<1>8. ToSet(r) = ToSet(s) \cup {n}
  <2>1. ToSet(r) \subseteq ToSet(s) \cup {n}
    BY <1>5 DEF ToSet
  <2>2. n \in ToSet(r)
    BY <1>6 DEF ToSet
  <2>3. ToSet(s) \subseteq ToSet(r)
    BY <1>7 DEF ToSet
  <2> QED BY <2>1, <2>2, <2>3
<1>9. Distinct(r)
  <2>1. \A i \in DOMAIN s : s[i] # n
    BY DEF ToSet
  <2>2. ASSUME NEW i \in DOMAIN r, NEW j \in DOMAIN r, i # j PROVE r[i] # r[j]
    <3>1. i \in Int /\ j \in Int
      BY <1>3
    <3> QED BY <1>1, <1>5, <2>1, <2>2, <3>1 DEF Distinct
  <2> QED BY <2>2 DEF Distinct
<1>10. ASSUME NEW z, NEW nodes, Rising(z, nodes, s, 1),
              \A i \in DOMAIN s : IF i < m THEN Rel(z, nodes[s[i]].time) <= Rel(z, nodes[n].time)
                                           ELSE Rel(z, nodes[n].time) <= Rel(z, nodes[s[i]].time)
       PROVE  Rising(z, nodes, r, 1)
  <2>1. ASSUME NEW i \in DOMAIN r, NEW j \in DOMAIN r, i < j
        PROVE  Rel(z, nodes[r[i]].time) <= Rel(z, nodes[r[j]].time)
    <3>1. i \in Int /\ j \in Int /\ i >= 1
      BY <1>3
    <3>2. CASE i = m
      BY <1>1, <1>5, <1>6, <1>10, <2>1, <3>1, <3>2
    <3>3. CASE j = m
      BY <1>1, <1>5, <1>6, <1>10, <2>1, <3>1, <3>3
    <3>4. CASE i # m /\ j # m
      BY <1>1, <1>5, <1>10, <2>1, <3>1, <3>4 DEF Rising
    <3> QED BY <3>2, <3>3, <3>4
  <2> QED BY <2>1 DEF Rising
<1> QED BY <1>4, <1>8, <1>9, <1>10 DEF r

\* The search from both ends stops, and the place of the new time is after
\* all that are not later and before all that are not earlier.
LEMMA SearchFacts ==
  ASSUME NEW z \in Times, NEW x \in Times, Near(z, x), NEW ts \in Seq(Times), ts # <<>>,
         \A i \in DOMAIN ts : Near(z, ts[i]),
         \A i, j \in DOMAIN ts : i < j => Rel(z, ts[i]) <= Rel(z, ts[j])
  PROVE  /\ Stop(ts, x) \in DOMAIN ts /\ Place(ts, x) \in 1 .. Len(ts) + 1
         /\ \A i \in DOMAIN ts : IF i < Place(ts, x) THEN Rel(z, ts[i]) <= Rel(z, x)
                                                     ELSE Rel(z, x) <= Rel(z, ts[i])
<1>1. Len(ts) \in Nat /\ Len(ts) >= 1 /\ DOMAIN ts = 1 .. Len(ts) /\ \A i \in DOMAIN ts : ts[i] \in Times
  OBVIOUS
<1>2. \A i \in DOMAIN ts : Rel(z, ts[i]) \in Int /\ (After(ts[i], x) <=> Rel(z, ts[i]) > Rel(z, x))
  <2>1. ASSUME NEW i \in DOMAIN ts
        PROVE  Rel(z, ts[i]) \in Int /\ (After(ts[i], x) <=> Rel(z, ts[i]) > Rel(z, x))
    <3>1. ts[i] \in Times /\ Rel(z, ts[i]) \in Int /\ Rel(z, x) \in Int
      BY <1>1, RelIs
    <3>2. Rel(z, ts[i]) - Rel(z, x) < Half /\ Rel(z, x) - Rel(z, ts[i]) < Half
      BY <3>1, Sizes DEF Near
    <3> QED BY <3>1, <3>2, AfterRel
  <2> QED BY <2>1
<1>3. Rel(z, x) \in Int
  BY RelIs
<1> DEFINE T == {i \in DOMAIN ts : Stops(ts, x, i)}
           s == Step(ts, x)
<1>4. Len(ts) \in T
  <2>1. Len(ts) \in DOMAIN ts /\ Len(ts) + 1 - Len(ts) = 1 /\ 1 \in DOMAIN ts
    BY <1>1
  <2>2. Rel(z, ts[1]) <= Rel(z, ts[Len(ts)])
    BY <1>1, <1>2, <2>1
  <2> QED BY <1>2, <1>3, <2>1, <2>2 DEF Stops
<1>5. PICK i \in T : \A j \in T : i <= j
  <2>1. T \subseteq Nat /\ T # {}
    BY <1>1, <1>4
  <2> HIDE DEF T
  <2> QED BY <2>1, LeastNatural
<1>6. i \in DOMAIN ts /\ Stops(ts, x, i) /\ \A j \in 1 .. i - 1 : ~Stops(ts, x, j)
  <2>1. i \in 1 .. Len(ts) /\ Stops(ts, x, i)
    BY <1>1, <1>5
  <2>2. ASSUME NEW j \in 1 .. i - 1 PROVE ~Stops(ts, x, j)
    <3>1. j \in DOMAIN ts /\ ~(i <= j)
      BY <1>1, <2>1
    <3> QED BY <1>5, <3>1
  <2> QED BY <1>1, <2>1, <2>2
<1>7. s \in DOMAIN ts /\ Stops(ts, x, s) /\ \A j \in 1 .. s - 1 : ~Stops(ts, x, j)
  <2> HIDE DEF T
  <2> QED BY <1>6 DEF Step
<1> HIDE DEF s, T
<1>8. \A j \in 1 .. s - 1 : Rel(z, ts[j]) <= Rel(z, x) /\ Rel(z, ts[Len(ts) + 1 - j]) > Rel(z, x)
  <2>1. ASSUME NEW j \in 1 .. s - 1
        PROVE  Rel(z, ts[j]) <= Rel(z, x) /\ Rel(z, ts[Len(ts) + 1 - j]) > Rel(z, x)
    <3>1. j \in DOMAIN ts /\ Len(ts) + 1 - j \in DOMAIN ts
      BY <1>1, <1>7
    <3>2. ~After(ts[j], x) /\ After(ts[Len(ts) + 1 - j], x)
      BY <1>7 DEF Stops
    <3> QED BY <1>2, <1>3, <3>1, <3>2
  <2> QED BY <2>1
<1>9. CASE AtFront(ts, x)
  <2>1. Stop(ts, x) = s /\ Place(ts, x) = s /\ Rel(z, ts[s]) > Rel(z, x)
    BY <1>2, <1>7, <1>9 DEF Stop, Place, AtFront, s
  <2>2. ASSUME NEW j \in DOMAIN ts
        PROVE  IF j < s THEN Rel(z, ts[j]) <= Rel(z, x) ELSE Rel(z, x) <= Rel(z, ts[j])
    <3>1. j \in Int /\ j >= 1 /\ s \in Int
      BY <1>1, <1>7
    <3>2. CASE j < s
      BY <1>8, <3>1, <3>2
    <3>3. CASE j >= s
      <4>1. Rel(z, ts[s]) <= Rel(z, ts[j])
        BY <1>2, <1>7, <3>1, <3>3
      <4> QED BY <1>2, <1>3, <1>7, <2>1, <3>1, <3>3, <4>1
    <3> QED BY <3>1, <3>2, <3>3
  <2> QED BY <1>1, <1>7, <2>1, <2>2
<1>10. CASE ~AtFront(ts, x)
  <2> DEFINE e == Len(ts) + 1 - s
  <2>1. e \in DOMAIN ts /\ e \in Int
    BY <1>1, <1>7
  <2>2. Stop(ts, x) = e /\ Place(ts, x) = e + 1 /\ ~After(ts[s], x)
    BY <1>10 DEF Stop, Place, AtFront, s
  <2>3. Rel(z, ts[e]) <= Rel(z, x)
    BY <1>2, <1>3, <1>7, <2>1, <2>2 DEF Stops
  <2>4. ASSUME NEW j \in DOMAIN ts
        PROVE  IF j < e + 1 THEN Rel(z, ts[j]) <= Rel(z, x) ELSE Rel(z, x) <= Rel(z, ts[j])
    <3>1. j \in Int /\ j >= 1 /\ s \in Int /\ j <= Len(ts)
      BY <1>1, <1>7
    <3>2. CASE j <= e
      <4>1. Rel(z, ts[j]) <= Rel(z, ts[e])
        BY <1>2, <2>1, <3>1, <3>2
      <4> QED BY <1>2, <1>3, <2>1, <2>3, <3>1, <3>2, <4>1
    <3>3. CASE j > e
      <4>1. Len(ts) + 1 - j \in 1 .. s - 1 /\ Len(ts) + 1 - (Len(ts) + 1 - j) = j
        BY <1>1, <3>1, <3>3
      <4> QED BY <1>2, <1>3, <1>8, <3>1, <3>3, <4>1
    <3> QED BY <2>1, <3>1, <3>2, <3>3
  <2> HIDE DEF e
  <2> QED BY <1>1, <2>1, <2>2, <2>4
<1> QED BY <1>9, <1>10

-----------------------------------------------------------------------------
(* Steps.  Next in the form in which the proofs use it: what a step does   *)
(* to a queue is said by the nodes that it adds and removes, and steps     *)
(* that go two ways are apart.                                             *)

\* A node for p comes into the queue of t, and nowhere else.
Grown(t, p, x, n) ==
  /\ n \in free \cup Washed /\ \A u \in Threads : n \notin Listed(u)
  /\ free' = free \ {n} /\ laundry' = laundry \ {n}
  /\ node' = [node EXCEPT ![n] = [wptr |-> p, time |-> x, dirty |-> p \in Alts, owner |-> t]]
  /\ queue' \in [Threads -> Seq(Nodes)] /\ \A u \in Threads : u # t => queue'[u] = queue[u]
  /\ ToSet(queue'[t]) = Listed(t) \cup {n}
  /\ Distinct(queue'[t]) /\ Rising(now, node', queue'[t], 1)

\* Nodes leave the queue of t, those in D among them.
Shrunk(t, D) ==
  /\ queue' \in [Threads -> Seq(Nodes)] /\ \A u \in Threads : u # t => queue'[u] = queue[u]
  /\ ToSet(queue'[t]) \subseteq Listed(t) \ D
  /\ Distinct(queue'[t]) /\ Rising(now, node, queue'[t], 1)

\* Tin and FastTin
TimerWaits(p, t, x, n) ==
  /\ pc[p] = "idle" /\ Free(t) /\ Near(now, x) /\ Grown(t, p, x, n)
  /\ pc' = [pc EXCEPT ![p] = "b_tin"] /\ on' = [on EXCEPT ![p] = t]
  /\ UNCHANGED <<now, sync, walk, alt, chan, trig>>

\* Talt, EnbT, Disc and AltEnd, each in two.
Starts(p, t, g, n, b, l) ==
  /\ pc[p] = "idle" /\ Free(t)
  /\ state' = [state EXCEPT ![p] = [n |-> n, waiting |-> FALSE, notReady |-> b]]
  /\ pc' = [pc EXCEPT ![p] = l] /\ on' = [on EXCEPT ![p] = t]
  /\ tlink' = [tlink EXCEPT ![p] = "notset"] /\ guards' = [guards EXCEPT ![p] = g]
  /\ k' = [k EXCEPT ![p] = 1] /\ temp' = [temp EXCEPT ![p] = 0]
  /\ UNCHANGED <<now, sync, walk, trig, mem, field, held>>
TaltEnables(p, t, g) ==
  Starts(p, t, g, 2, TRUE, "enbt") /\ chan[p] = "none" /\ chan' = [chan EXCEPT ![p] = "alt"]
TaltWritten(p, t, g) ==
  Starts(p, t, g, 1, FALSE, "disc") /\ chan[p] = "writer" /\ UNCHANGED chan

Enables(p) ==
  /\ Runs(p, "enbt") /\ tlink' = [tlink EXCEPT ![p] = "set"]
  /\ UNCHANGED <<now, sync, walk, trig, mem, on, guards, held, temp, chan>>
EnbReady(p) ==
  /\ Enables(p) /\ ~After(guards[p][k[p]], now) /\ GoesOn(p, now) /\ UNCHANGED k
EnbField(p) ==
  IF tlink[p] = "notset" \/ After(field[p], guards[p][k[p]]) THEN guards[p][k[p]] ELSE field[p]
EnbLater(p) ==
  /\ Enables(p) /\ After(guards[p][k[p]], now) /\ UNCHANGED state
  /\ field' = [field EXCEPT ![p] = EnbField(p)]
EnbNext(p) == EnbLater(p) /\ k[p] < Guards /\ k' = [k EXCEPT ![p] = k[p] + 1] /\ UNCHANGED pc
EnbLast(p) == EnbLater(p) /\ ~(k[p] < Guards) /\ UNCHANGED k /\ pc' = [pc EXCEPT ![p] = "taltwt"]

\* DistSet and ReleaseHeld, with another guard to disable or none.
NextGuard(p) == k[p] > 1 /\ k' = [k EXCEPT ![p] = k[p] - 1] /\ pc' = [pc EXCEPT ![p] = "dist"]
LastGuard(p) == ~(k[p] > 1) /\ UNCHANGED k /\ pc' = [pc EXCEPT ![p] = "disc"]
Reached(p)   == tlink[p] = "set" /\ ~After(guards[p][k[p]], field[p])
DistSets(p) ==
  /\ Runs(p, "dist") /\ tlink[p] \in {"set", "notset"}
  /\ temp' = [temp EXCEPT ![p] = IF Reached(p) THEN k[p] ELSE temp[p]]
  /\ UNCHANGED <<now, sync, walk, trig, mem, on, state, tlink, field, guards, held, chan>>
Releases(p) ==
  /\ Runs(p, "release") /\ Release(held[p], node[held[p]].dirty)
  /\ held' = [held EXCEPT ![p] = None]
  /\ UNCHANGED <<now, sync, walk, trig, queue, node, on, state, tlink, field, guards, temp, chan>>

Discs(p) ==
  /\ Runs(p, "disc") /\ pc' = [pc EXCEPT ![p] = "altend"]
  /\ UNCHANGED <<now, sync, walk, trig, mem, on, tlink, field, guards, held, k>>
DiscAlt(p) ==
  /\ Discs(p) /\ chan[p] = "alt" /\ chan' = [chan EXCEPT ![p] = "none"] /\ UNCHANGED temp
  /\ state' = [state EXCEPT ![p] = [state[p] EXCEPT !.n = state[p].n - 1]]
DiscWriter(p) ==
  /\ Discs(p) /\ chan[p] = "writer" /\ temp' = [temp EXCEPT ![p] = Channel]
  /\ UNCHANGED <<chan, state>>

Ends(p) ==
  /\ Runs(p, "altend")
  /\ UNCHANGED <<now, sync, walk, trig, mem, on, tlink, field, guards, held, k, temp, chan>>
EndsNow(p) ==
  Ends(p) /\ state[p].n = 1 /\ pc' = [pc EXCEPT ![p] = "select"] /\ UNCHANGED state
EndWaits(p) ==
  /\ Ends(p) /\ state[p].n # 1 /\ pc' = [pc EXCEPT ![p] = "b_altend"]
  /\ state' = [state EXCEPT ![p] = [state[p] EXCEPT !.n = state[p].n - 1]]

TaltwtWaits(p, n) ==
  /\ Runs(p, "taltwt") /\ state[p].notReady /\ After(field[p], now)
  /\ Grown(on[p], p, field[p], n)
  /\ tlink' = [tlink EXCEPT ![p] = n] /\ field' = [field EXCEPT ![p] = now]
  /\ temp' = [temp EXCEPT ![p] = 0] /\ pc' = [pc EXCEPT ![p] = "cas"]
  /\ UNCHANGED <<now, sync, walk, trig, on, state, guards, held, k, chan>>
TaltwtGoes(p) ==
  /\ Runs(p, "taltwt") /\ ~(state[p].notReady /\ After(field[p], now))
  /\ GoesOn(p, now) /\ temp' = [temp EXCEPT ![p] = 0]
  /\ UNCHANGED <<now, sync, walk, trig, mem, tlink, on, guards, held, k, chan>>

CasWaits(p) ==
  /\ Runs(p, "cas") /\ state[p].notReady
  /\ state' = [state EXCEPT ![p] = [n |-> state[p].n + 1, waiting |-> TRUE, notReady |-> FALSE]]
  /\ pc' = [pc EXCEPT ![p] = "b_altwt"]
  /\ UNCHANGED <<now, sync, walk, trig, mem, tlink, field, on, guards, held, k, temp, chan>>
CasGoes(p) ==
  /\ Runs(p, "cas") /\ ~state[p].notReady /\ Shrunk(on[p], {tlink[p]})
  /\ tlink' = [tlink EXCEPT ![p] = "set"]
  /\ node' = [node EXCEPT ![tlink[p]] = [node[tlink[p]] EXCEPT !.dirty = FALSE]]
  /\ free' = free \cup {tlink[p]} /\ GoesOn(p, field[p])
  /\ UNCHANGED <<now, sync, walk, trig, laundry, on, guards, held, k, temp, chan>>

DistTakes(p) ==
  /\ Runs(p, "dist") /\ tlink[p] \in Nodes /\ node[tlink[p]].wptr = p
  /\ state' = [state EXCEPT ![p] = [state[p] EXCEPT !.n = state[p].n - 1]]
  /\ held' = [held EXCEPT ![p] = tlink[p]] /\ tlink' = [tlink EXCEPT ![p] = "notset"]
  /\ pc' = [pc EXCEPT ![p] = "release"]
  /\ UNCHANGED <<now, walk, trig, free, laundry, on, field, guards, k, temp, chan>>
DistHere(p) ==
  /\ DistTakes(p) /\ node[tlink[p]].owner = on[p] /\ Shrunk(on[p], {tlink[p]})
  /\ node' = [node EXCEPT ![tlink[p]] = [node[tlink[p]] EXCEPT !.dirty = FALSE]] /\ UNCHANGED sync
DistThere(p) ==
  /\ DistTakes(p) /\ node[tlink[p]].owner # on[p]
  /\ node' = [node EXCEPT ![tlink[p]] = [node[tlink[p]] EXCEPT !.wptr = None]]
  /\ sync' = [sync EXCEPT ![node[tlink[p]].owner] = TRUE] /\ UNCHANGED queue

\* TriggerAlt: the ALT goes on after it waited for a guard, or at its end, or
\* has not come to wait.
Counted(p) ==
  state' = [state EXCEPT ![p] = [n |-> state[p].n - 1, waiting |-> FALSE, notReady |-> FALSE]]
GuardComes(p, u) ==
  /\ pc[p] = "b_altwt" /\ state[p].waiting /\ Counted(p)
  /\ pc' = [pc EXCEPT ![p] = "dist"] /\ on' = [on EXCEPT ![p] = u]
EndComes(p, u) ==
  /\ pc[p] = "b_altend" /\ ~state[p].waiting /\ state[p].n = 1 /\ Counted(p)
  /\ pc' = [pc EXCEPT ![p] = "select"] /\ on' = [on EXCEPT ![p] = u]
NoneComes(p) ==
  /\ ~state[p].waiting /\ state[p].n # 1 /\ Counted(p) /\ UNCHANGED where
Written(p) ==
  /\ p \in trig /\ trig' = trig \ {p}
  /\ UNCHANGED <<now, mem, sync, walk, tlink, field, guards, held, k, temp, chan>>
Timed(t, p) ==
  /\ Triggers(t, p)
  /\ walk' = [walk EXCEPT ![t] = [walk[t] EXCEPT !.pc = "clean", !.ptr = None]]
  /\ UNCHANGED <<now, mem, sync, tlink, field, guards, held, k, temp, chan, trig>>

\* WalkWake
SleeperWakes(t, n, p, u) ==
  /\ Expired(t) /\ n = Head(queue[t]) /\ node[n].wptr = p /\ Shrunk(t, {n})
  /\ pc' = [pc EXCEPT ![p] = "idle"] /\ on' = [on EXCEPT ![p] = u] /\ free' = free \cup {n}
  /\ UNCHANGED <<now, node, laundry, sync, walk, alt, chan, trig>>

\* SyncTq and Idle
Sweeps(t) ==
  /\ Free(t) /\ Shrunk(t, DeadIn(t)) /\ sync' \in [Threads -> BOOLEAN]
  /\ node' = [n \in Nodes |-> IF n \in DeadIn(t) THEN [node[n] EXCEPT !.dirty = FALSE] ELSE node[n]]
  /\ Started(t) \/ UNCHANGED walk
  /\ UNCHANGED <<now, free, laundry, where, alt, chan, trig>>

AltForm(p) ==
  \/ EnbReady(p) \/ EnbNext(p) \/ EnbLast(p) \/ DistFired(p)
  \/ (DistSets(p) /\ NextGuard(p)) \/ (DistSets(p) /\ LastGuard(p))
  \/ (Releases(p) /\ NextGuard(p)) \/ (Releases(p) /\ LastGuard(p))
  \/ DiscAlt(p) \/ DiscWriter(p) \/ EndsNow(p) \/ EndWaits(p) \/ Select(p) \/ Write(p)
  \/ TaltwtGoes(p) \/ CasWaits(p) \/ CasGoes(p) \/ DistHere(p) \/ DistThere(p)
  \/ (\E n \in Nodes : TaltwtWaits(p, n))
  \/ (Written(p) /\ NoneComes(p))
  \/ (\E u \in Threads : Written(p) /\ GuardComes(p, u))
  \/ (\E u \in Threads : Written(p) /\ EndComes(p, u))
WalkForm(t) ==
  \/ Check(t) \/ EndWalk(t) \/ WalkAlt(t) \/ WalkSwap(t) \/ Sweeps(t)
  \/ (WalkDead(t) /\ Shrunk(t, {Head(queue[t])})) \/ (WalkClean(t) /\ Shrunk(t, {Head(queue[t])}))
  \/ (\E n \in Nodes, p \in Sleepers, u \in Threads : SleeperWakes(t, n, p, u))
  \/ (\E p \in Alts : Timed(t, p) /\ NoneComes(p))
  \/ (\E p \in Alts, u \in Threads : Timed(t, p) /\ GuardComes(p, u))
  \/ (\E p \in Alts, u \in Threads : Timed(t, p) /\ EndComes(p, u))
Delays == [1..Guards -> {Future(d) : d \in 1..MaxDelay}]
Form ==
  \/ Tick \/ UNCHANGED vars
  \/ (\E p \in Sleepers, t \in Threads, x \in Times, n \in Nodes : TimerWaits(p, t, x, n))
  \/ (\E p \in Alts, t \in Threads, g \in Delays : TaltEnables(p, t, g))
  \/ (\E p \in Alts, t \in Threads, g \in Delays : TaltWritten(p, t, g))
  \/ (\E p \in Alts : AltForm(p))
  \/ (\E t \in Threads : WalkForm(t))

LEMMA TypesOfNode ==
  ASSUME FunOK, NEW n \in Nodes
  PROVE  /\ node[n].wptr \in Wptr /\ node[n].time \in Times /\ node[n].dirty \in BOOLEAN
         /\ node[n].owner \in Threads
  BY DEF FunOK, NodeT

LEMMA TypesOfQueue ==
  ASSUME FunOK, NEW t \in Threads
  PROVE  /\ queue[t] \in Seq(Nodes) /\ Listed(t) \subseteq Nodes
         /\ queue[t] # <<>> => Head(queue[t]) \in Listed(t) /\ Head(queue[t]) \in Nodes
<1>1. queue[t] \in Seq(Nodes)
  BY DEF FunOK
<1>2. Listed(t) \subseteq Nodes
  BY <1>1 DEF Listed, ToSet
<1> QED BY <1>1, <1>2, TailFacts DEF Listed

\* A node that can be allocated is in no queue.
LEMMA NotListed ==
  ASSUME FunOK, LinkOK, NEW n \in free \cup Washed, NEW u \in Threads PROVE n \notin Listed(u)
  BY ConstFacts DEF LinkOK, LinkAt, Washed

\* No node of a queue is unused, so that a new one is always linked.
LEMMA AddFacts ==
  ASSUME FunOK, LinkOK, OrderOK, TimeOK, NEW t \in Threads, NEW p \in Procs, NEW x \in Times,
         Near(now, x), walk[t].pc = "off", NEW n \in Nodes, Add(t, p, x, n)
  PROVE  Grown(t, p, x, n)
<1> DEFINE q == queue[t]
           ts == TimesOf(q)
           m == Place(ts, x)
           new == [wptr |-> p, time |-> x, dirty |-> p \in Alts, owner |-> t]
<1>1. q \in Seq(Nodes) /\ Listed(t) = ToSet(q) /\ Distinct(q) /\ Rising(now, node, q, 1)
  BY TypesOfQueue DEF OrderOK, First, Listed
<1>2. /\ ts \in Seq(Times) /\ Len(ts) = Len(q) /\ DOMAIN ts = DOMAIN q
      /\ \A i \in DOMAIN q : ts[i] = node[q[i]].time
  <2>1. \A i \in DOMAIN q : q[i] \in Nodes /\ node[q[i]].time \in Times
    BY <1>1, TypesOfNode
  <2>2. DOMAIN q = 1 .. Len(q) /\ Len(q) \in Nat
    BY <1>1
  <2> HIDE DEF q
  <2>3. ts = [i \in 1 .. Len(q) |-> node[q[i]].time]
    BY <2>2 DEF TimesOf
  <2> HIDE DEF ts
  <2> QED BY <2>1, <2>2, <2>3
<1>3. \A i \in DOMAIN q : q[i] \in Listed(t) /\ q[i] \in Nodes
  BY <1>1 DEF ToSet
<1>4. /\ \A i \in DOMAIN ts : Near(now, ts[i])
      /\ \A i, j \in DOMAIN ts : i < j => Rel(now, ts[i]) <= Rel(now, ts[j])
  <2>1. \A i \in DOMAIN ts : i \in Int /\ 1 <= i
    BY <1>1, <1>2
  <2> HIDE DEF q, ts
  <2> QED BY <1>1, <1>2, <1>3, <2>1 DEF Rising, TimeOK, ThreadTime, AltTime
<1>5. now \in Times
  BY DEF FunOK
<1>6. q # <<>> => /\ Stop(ts, x) \in DOMAIN ts /\ m \in 1 .. Len(ts) + 1
                  /\ \A i \in DOMAIN ts : IF i < m THEN Rel(now, ts[i]) <= Rel(now, x)
                                                   ELSE Rel(now, x) <= Rel(now, ts[i])
  <2>1. ASSUME q # <<>> PROVE ts # <<>>
    <3>1. Len(q) # 0
      BY <1>1, <2>1
    <3> QED BY <1>2, <3>1
  <2> HIDE DEF q, ts
  <2> QED BY <1>2, <1>4, <1>5, <2>1, SearchFacts
<1>7. q # <<>> => ~Unused(q[Stop(ts, x)])
  <2>1. ASSUME q # <<>> PROVE q[Stop(ts, x)] \in Listed(t)
    BY <1>2, <1>3, <1>6, <2>1
  <2> HIDE DEF q, ts
  <2> QED BY <2>1, ConstFacts DEF LinkOK, LinkAt, Unused
<1>8. /\ Allocate(n) /\ queue' = [queue EXCEPT ![t] = InsertAt(q, m, n)]
      /\ node' = [node EXCEPT ![n] = new]
  BY <1>7 DEF Add, Set
<1>9. n \in free \cup Washed /\ free' = free \ {n} /\ laundry' = laundry \ {n}
  BY <1>8 DEF Allocate
<1>10. \A u \in Threads : n \notin Listed(u)
  BY <1>9, NotListed
<1>11. m \in 1 .. Len(q) + 1
  <2>1. CASE q = <<>>
    <3>1. Len(q) = 0
      BY <2>1
    <3>2. ts = <<>>
      BY <1>2, <3>1
    <3> QED BY <3>1, <3>2 DEF Place
  <2>2. CASE q # <<>>
    BY <1>2, <1>6, <2>2
  <2> QED BY <2>1, <2>2
<1>12. /\ InsertAt(q, m, n) \in Seq(Nodes) /\ ToSet(InsertAt(q, m, n)) = ToSet(q) \cup {n}
       /\ Distinct(InsertAt(q, m, n))
       /\ \A z, nodes :
            /\ Rising(z, nodes, q, 1)
            /\ \A i \in DOMAIN q : IF i < m THEN Rel(z, nodes[q[i]].time) <= Rel(z, nodes[n].time)
                                            ELSE Rel(z, nodes[n].time) <= Rel(z, nodes[q[i]].time)
            => Rising(z, nodes, InsertAt(q, m, n), 1)
  <2> HIDE DEF q, m
  <2> QED BY <1>1, <1>10, <1>11, InsertFacts
<1>13. queue'[t] = InsertAt(q, m, n) /\ \A u \in Threads : u # t => queue'[u] = queue[u]
  BY <1>8 DEF FunOK
<1>14. queue' \in [Threads -> Seq(Nodes)]
  BY <1>8, <1>12 DEF FunOK
<1>15. node'[n].time = x /\ \A i \in DOMAIN q : node'[q[i]] = node[q[i]]
  <2>1. \A i \in DOMAIN q : q[i] # n
    BY <1>3, <1>10
  <2> HIDE DEF q
  <2> QED BY <1>3, <1>8, <2>1 DEF FunOK
<1>16. Rising(now, node', InsertAt(q, m, n), 1)
  <2>1. Rising(now, node', q, 1)
    <3> HIDE DEF q
    <3> QED BY <1>1, <1>15 DEF Rising
  <2>2. \A i \in DOMAIN q :
          IF i < m THEN Rel(now, node'[q[i]].time) <= Rel(now, node'[n].time)
                   ELSE Rel(now, node'[n].time) <= Rel(now, node'[q[i]].time)
    <3>1. ASSUME NEW i \in DOMAIN q PROVE q # <<>>
      BY <3>1
    <3> HIDE DEF q, ts, m
    <3> QED BY <1>2, <1>6, <1>15, <3>1
  <2> HIDE DEF q, m
  <2> QED BY <1>12, <2>1, <2>2
<1> QED BY <1>1, <1>8, <1>9, <1>10, <1>12, <1>13, <1>14, <1>16 DEF Grown

LEMMA KeepShrinks ==
  ASSUME FunOK, OrderOK, NEW t \in Threads, walk[t].pc = "off", NEW A, NEW D, A \cap D = {},
         queue' = [queue EXCEPT ![t] = Keep(queue[t], A)]
  PROVE  Shrunk(t, D)
<1> DEFINE r == Keep(queue[t], A)
<1>1. queue[t] \in Seq(Nodes) /\ Distinct(queue[t]) /\ Rising(now, node, queue[t], 1)
  BY TypesOfQueue DEF OrderOK, First
<1>2. r \in Seq(Nodes) /\ Within(r, queue[t]) /\ \A i \in DOMAIN r : r[i] \in A
  BY <1>1, KeepFacts
<1>3. queue' \in [Threads -> Seq(Nodes)] /\ queue'[t] = r
      /\ \A u \in Threads : u # t => queue'[u] = queue[u]
  BY <1>2 DEF FunOK
<1> HIDE DEF r
<1>4. ToSet(r) \subseteq ToSet(queue[t]) /\ Distinct(r) /\ Rising(now, node, r, 1)
  BY <1>1, <1>2, WithinFacts
<1>5. ToSet(r) \cap D = {}
  BY <1>2 DEF ToSet
<1> QED BY <1>3, <1>4, <1>5 DEF Shrunk, Listed

LEMMA TailShrinks ==
  ASSUME FunOK, OrderOK, NEW t \in Threads, queue[t] # <<>>,
         queue' = [queue EXCEPT ![t] = Tail(queue[t])]
  PROVE  Shrunk(t, {Head(queue[t])})
<1>1. queue[t] \in Seq(Nodes) /\ Distinct(queue[t]) /\ Rising(now, node, queue[t], First(t))
  BY TypesOfQueue DEF OrderOK
<1>2. First(t) = 1 \/ First(t) = 2
  BY DEF First
<1>3. Tail(queue[t]) \in Seq(Nodes)
  BY <1>1, TailFacts
<1>4. queue' \in [Threads -> Seq(Nodes)] /\ queue'[t] = Tail(queue[t])
      /\ \A u \in Threads : u # t => queue'[u] = queue[u]
  BY <1>3 DEF FunOK
<1> QED BY <1>1, <1>2, <1>4, TailFacts DEF Shrunk, Listed

\* The ALT that a walk has taken, or a writer, has not ended, and while the
\* other may still trigger it its count is not that of the last.
LEMMA Blocks ==
  ASSUME FunOK, WalkOK, AltOK, CountExact, NEW p \in Alts,
         p \in trig \/ \E t \in Threads : Triggers(t, p), Wakes(p)
  PROVE  \/ pc[p] = "b_altwt" /\ state[p].waiting
         \/ pc[p] = "b_altend" /\ ~state[p].waiting /\ state[p].n = 1
<1>1. state[p].waiting <=> pc[p] = "b_altwt"
  BY DEF AltOK, AltAt
<1>2. pc[p] \notin {"idle", "select"}
  BY DEF AltOK, AltAt, WalkOK, WalkAt, ChanPC, TrigPC, Triggers
<1>3. (p \in trig => Bit(chan[p] = "alt" \/ p \in trig) = 1)
      /\ ((\E t \in Threads : Triggers(t, p)) => Bit(Armed(p)) = 1)
  BY DEF Bit, Armed, Triggers
<1>4. Bit(chan[p] = "alt" \/ p \in trig) \in 0..1 /\ Bit(Armed(p)) \in 0..1
  BY DEF Bit
<1>5. state[p].n = Bit(pc[p] # "b_altend") + Bit(chan[p] = "alt" \/ p \in trig) + Bit(Armed(p))
  BY <1>2 DEF CountExact
<1>6. ASSUME ~state[p].waiting PROVE pc[p] = "b_altend" /\ state[p].n = 1
  <2>1. state[p].n = 1
    BY <1>6 DEF Wakes
  <2>2. Bit(pc[p] # "b_altend") # 1
    BY <1>3, <1>4, <1>5, <2>1 DEF Bit
  <2> QED BY <1>1, <1>6, <2>1, <2>2 DEF Bit
<1> QED BY <1>1, <1>6

LEMMA TriggerForm ==
  ASSUME FunOK, WalkOK, AltOK, CountExact, NEW p \in Alts,
         p \in trig \/ \E t \in Threads : Triggers(t, p), TriggerAlt(p)
  PROVE  NoneComes(p) \/ \E u \in Threads : GuardComes(p, u) \/ EndComes(p, u)
<1>1. Counted(p)
  BY DEF TriggerAlt, Set, Counted
<1>2. CASE Wakes(p)
  <2>1. PICK u \in Threads : pc' = [pc EXCEPT ![p] = Goes(pc[p])] /\ on' = [on EXCEPT ![p] = u]
    BY <1>2 DEF TriggerAlt, Enqueue, Set
  <2>2. Goes("b_altwt") = "dist" /\ Goes("b_altend") = "select"
    BY DEF Goes
  <2> QED BY <1>1, <1>2, <2>1, <2>2, Blocks DEF GuardComes, EndComes
<1>3. CASE ~Wakes(p)
  BY <1>1, <1>3 DEF TriggerAlt, Wakes, NoneComes
<1> QED BY <1>2, <1>3

LEMMA NextRange ==
  ASSUME now \in Times, NEW d \in 1 .. MaxDelay
  PROVE  /\ Future(d) \in Times /\ Near(now, Future(d))
         /\ (Future(d - 1) + 1) % Period \in Times /\ Near(now, (Future(d - 1) + 1) % Period)
<1>1. d \in 0 .. MaxDelay /\ d - 1 \in 0 .. MaxDelay
  BY Sizes
<1>2. /\ Future(d) \in Times /\ Rel(now, Future(d)) = d
      /\ Future(d - 1) \in Times /\ Rel(now, Future(d - 1)) = d - 1
  BY <1>1, FutureRel
<1>3. Rel(now, Future(d - 1)) \in 0 .. MaxDelay - 1
  BY <1>2, Sizes
<1>4. /\ (Future(d - 1) + 1) % Period \in Times
      /\ Rel(now, (Future(d - 1) + 1) % Period) = Rel(now, Future(d - 1)) + 1
  BY <1>2, <1>3, NextRel
<1> QED BY <1>2, <1>4, Sizes DEF Near

LEMMA WaitForm ==
  ASSUME IInv, NEW p \in Sleepers, NEW t \in Threads, NEW d \in 1 .. MaxDelay,
         Tin(p, t, Future(d - 1)) \/ FastTin(p, t, Future(d))
  PROVE  \E x \in Times, n \in Nodes : TimerWaits(p, t, x, n)
<1>1. now \in Times /\ p \in Procs
  BY ConstFacts DEF IInv, MemInv, FunOK
<1>2. Free(t) /\ walk[t].pc = "off" /\ pc[p] = "idle"
  BY DEF Tin, FastTin, Free
<1>3. PICK x \in Times, n \in Nodes : Near(now, x) /\ Add(t, p, x, n)
  <2>1. CASE Tin(p, t, Future(d - 1))
    <3>1. PICK x \in Times : x = (Future(d - 1) + 1) % Period /\ Near(now, x)
      BY <1>1, NextRange
    <3>2. \E n \in Nodes : Add(t, p, x, n)
      BY <2>1, <3>1 DEF Tin, Add, Set
    <3> QED BY <3>1, <3>2
  <2>2. CASE FastTin(p, t, Future(d))
    <3>1. PICK x \in Times : x = Future(d) /\ Near(now, x)
      BY <1>1, NextRange
    <3>2. \E n \in Nodes : Add(t, p, x, n)
      BY <2>2, <3>1 DEF FastTin, Add, Set
    <3> QED BY <3>1, <3>2
  <2> QED BY <2>1, <2>2
<1>4. Grown(t, p, x, n)
  BY <1>1, <1>2, <1>3, AddFacts DEF IInv, MemInv
<1>5. /\ pc' = [pc EXCEPT ![p] = "b_tin"] /\ on' = [on EXCEPT ![p] = t]
      /\ UNCHANGED <<now, sync, walk, alt, chan, trig>>
  BY DEF Tin, FastTin, Set
<1> QED BY <1>2, <1>3, <1>4, <1>5 DEF TimerWaits

\* The field of an ALT that is about to wait is the time of a guard.
LEMMA FieldNear ==
  ASSUME FunOK, TimeOK, NEW p \in Alts, pc[p] = "taltwt"
  PROVE  /\ field[p] \in Times /\ Near(now, field[p])
         /\ After(field[p], now) <=> FieldRel(p) > 0
<1>1. field[p] \in Times /\ now \in Times
  BY DEF FunOK
<1>2. Near(now, field[p])
  BY DEF TimeOK, ThreadTime, AltTime, EnableOK
<1>3. Rel(now, now) = 0 /\ Rel(now, field[p]) \in Int
  BY <1>1, RelNow, RelIs
<1>4. After(field[p], now) <=> Rel(now, field[p]) > Rel(now, now)
  BY <1>1, <1>2, <1>3, AfterRel, Sizes DEF Near
<1> QED BY <1>1, <1>2, <1>3, <1>4 DEF FieldRel

LEMMA TaltwtForm ==
  ASSUME IInv, NEW p \in Alts, Taltwt(p)
  PROVE  TaltwtGoes(p) \/ \E n \in Nodes : TaltwtWaits(p, n)
<1>1. Runs(p, "taltwt") /\ temp' = [temp EXCEPT ![p] = 0]
      /\ UNCHANGED <<now, sync, walk, trig, on, guards, held, k, chan>>
  BY DEF Taltwt, AltStep, Set
<1>2. pc[p] = "taltwt" /\ walk[on[p]].pc = "off" /\ on[p] \in Threads /\ p \in Procs
  BY <1>1, ConstFacts DEF Runs, Free, InCall, IInv, MemInv, FunOK
<1>3. CASE state[p].notReady /\ After(field[p], now)
  <2>1. PICK n \in Nodes : Add(on[p], p, field[p], n) /\ tlink' = [tlink EXCEPT ![p] = n]
    BY <1>3 DEF Taltwt, Set
  <2>2. Grown(on[p], p, field[p], n)
    <3>1. PICK t \in Threads, x \in Times : t = on[p] /\ x = field[p] /\ Near(now, x)
      BY <1>2, FieldNear DEF IInv, MemInv
    <3>2. Add(t, p, x, n)
      BY <2>1, <3>1 DEF Add, Set
    <3>3. Grown(t, p, x, n)
      BY <1>2, <3>1, <3>2, AddFacts DEF IInv, MemInv
    <3> QED BY <3>1, <3>3 DEF Grown
  <2>3. field' = [field EXCEPT ![p] = now] /\ pc' = [pc EXCEPT ![p] = "cas"] /\ UNCHANGED state
    BY <1>3 DEF Taltwt, Set
  <2> QED BY <1>1, <1>3, <2>1, <2>2, <2>3 DEF TaltwtWaits
<1>4. CASE ~(state[p].notReady /\ After(field[p], now))
  BY <1>1, <1>4 DEF Taltwt, TaltwtGoes
<1> QED BY <1>3, <1>4

\* A node taken out of the queue of a thread that does not walk.
LEMMA Unlinks ==
  ASSUME FunOK, OrderOK, NEW t \in Threads, walk[t].pc = "off", NEW n,
         Set(queue, t, Unlinked(t, n))
  PROVE  Shrunk(t, {n})
<1>1. (Nodes \ {n}) \cap {n} = {}
  OBVIOUS
<1> QED BY <1>1, KeepShrinks DEF Set, Unlinked

LEMMA CasForm ==
  ASSUME IInv, NEW p \in Alts, TaltwtCas(p) PROVE CasWaits(p) \/ CasGoes(p)
<1>1. Runs(p, "cas") /\ pc[p] = "cas" /\ p \in Procs /\ on[p] \in Threads
  BY ConstFacts DEF TaltwtCas, Runs, IInv, MemInv, FunOK
<1>2. walk[on[p]].pc = "off"
  BY <1>1 DEF IInv, MemInv, CallOK, CallAt, InCall
<1>3. CASE state[p].notReady
  BY <1>1, <1>3 DEF TaltwtCas, CasWaits, Set, AltStep
<1>4. CASE ~state[p].notReady
  <2>1. Set(queue, on[p], Unlinked(on[p], tlink[p]))
    BY <1>4 DEF TaltwtCas
  <2>2. Shrunk(on[p], {tlink[p]})
    BY <1>1, <1>2, <2>1, Unlinks DEF IInv, MemInv
  <2> QED BY <1>1, <1>4, <2>2 DEF TaltwtCas, CasGoes, Set, AltStep, Release
<1> QED BY <1>3, <1>4

LEMMA DistForm ==
  ASSUME IInv, NEW p \in Alts, DistArmed(p) PROVE DistHere(p) \/ DistThere(p)
<1>1. Runs(p, "dist") /\ pc[p] = "dist" /\ p \in Procs /\ on[p] \in Threads
  BY ConstFacts DEF DistArmed, Runs, IInv, MemInv, FunOK
<1>2. walk[on[p]].pc = "off"
  BY <1>1 DEF Runs, Free, InCall
<1>3. DistTakes(p)
  BY <1>1 DEF DistArmed, DistTakes, Set
<1>4. CASE node[tlink[p]].owner = on[p]
  <2>1. Set(queue, on[p], Unlinked(on[p], tlink[p]))
    BY <1>4 DEF DistArmed, RemoveNode
  <2>2. Shrunk(on[p], {tlink[p]})
    BY <1>1, <1>2, <2>1, Unlinks DEF IInv, MemInv
  <2> QED BY <1>3, <1>4, <2>2 DEF DistArmed, RemoveNode, DistHere, Set
<1>5. CASE node[tlink[p]].owner # on[p]
  BY <1>3, <1>5 DEF DistArmed, RemoveNode, DistThere, Set
<1> QED BY <1>4, <1>5

LEMMA AltForms ==
  ASSUME IInv, NEW p \in Alts, AltAction(p) \/ Write(p) \/ WriteTrigger(p) PROVE AltForm(p)
<1>1. CASE WriteTrigger(p)
  <2>1. Written(p) /\ TriggerAlt(p)
    BY <1>1 DEF WriteTrigger, Written
  <2>2. NoneComes(p) \/ \E u \in Threads : GuardComes(p, u) \/ EndComes(p, u)
    BY <2>1, TriggerForm DEF IInv, MemInv, Written
  <2> QED BY <2>1, <2>2 DEF AltForm
<1>2. CASE Taltwt(p)
  BY <1>2, TaltwtForm DEF AltForm
<1>3. CASE TaltwtCas(p)
  BY <1>3, CasForm DEF AltForm
<1>4. CASE DistArmed(p)
  BY <1>4, DistForm DEF AltForm
<1>5. CASE EnbT(p)
  <2>1. Enables(p)
    BY <1>5 DEF EnbT, AltStep, Set, Enables
  <2>2. CASE After(guards[p][k[p]], now)
    BY <1>5, <2>1, <2>2 DEF EnbT, Set, EnbLater, EnbField, EnbNext, EnbLast, AltForm
  <2>3. CASE ~After(guards[p][k[p]], now)
    BY <1>5, <2>1, <2>3 DEF EnbT, Set, EnbReady, GoesOn, AltForm
  <2> QED BY <2>2, <2>3
<1>6. CASE Disc(p)
  BY <1>6 DEF Disc, AltStep, Set, Discs, DiscAlt, DiscWriter, AltForm
<1>7. CASE AltEnd(p)
  BY <1>7 DEF AltEnd, AltStep, Set, Ends, EndsNow, EndWaits, AltForm
<1>8. CASE DistSet(p)
  BY <1>8 DEF DistSet, Later, AltStep, Set, DistSets, Reached, NextGuard, LastGuard, AltForm
<1>9. CASE ReleaseHeld(p)
  BY <1>9 DEF ReleaseHeld, Later, AltStep, Set, Releases, NextGuard, LastGuard, AltForm
<1> QED BY <1>1, <1>2, <1>3, <1>4, <1>5, <1>6, <1>7, <1>8, <1>9 DEF AltAction, AltForm

\* A walk finds its queue not empty.
LEMMA WakeForm ==
  ASSUME IInv, NEW t \in Threads, WalkWake(t)
  PROVE  \E n \in Nodes, p \in Sleepers, u \in Threads : SleeperWakes(t, n, p, u)
<1> DEFINE n == Head(queue[t])
           p == node[n].wptr
<1>1. queue[t] # <<>> /\ Expired(t) /\ p \in Sleepers /\ queue' = [queue EXCEPT ![t] = Tail(queue[t])]
  BY DEF WalkWake, Expired, Set
<1>2. n \in Nodes /\ n \in Listed(t)
  BY <1>1, TypesOfQueue DEF IInv, MemInv
<1>3. ~node[n].dirty
  BY <1>1, <1>2 DEF IInv, MemInv, LinkOK, LinkAt
<1>4. Shrunk(t, {n})
  BY <1>1, TailShrinks DEF IInv, MemInv
<1>5. Goes(pc[p]) = "idle"
  BY <1>1 DEF IInv, MemInv, AltOK, AltAt, Goes
<1>6. PICK u \in Threads : pc' = [pc EXCEPT ![p] = Goes(pc[p])] /\ on' = [on EXCEPT ![p] = u]
  BY DEF WalkWake, Enqueue, Set
<1>7. free' = free \cup {n} /\ UNCHANGED <<now, node, laundry, sync, walk, alt, chan, trig>>
  BY <1>3 DEF WalkWake, Release
<1>8. SleeperWakes(t, n, p, u)
  BY <1>1, <1>4, <1>5, <1>6, <1>7 DEF SleeperWakes
<1> QED BY <1>1, <1>2, <1>8

LEMMA SweepForm ==
  ASSUME IInv, NEW t \in Threads, SyncTq(t) \/ Idle(t) PROVE Sweeps(t)
<1>1. Free(t) /\ walk[t].pc = "off" /\ Clean(t)
  BY DEF SyncTq, Idle, Free
<1>2. {n \in Nodes : node[n].wptr # None} \cap DeadIn(t) = {}
  BY DEF DeadIn
<1>3. Shrunk(t, DeadIn(t))
  BY <1>1, <1>2, KeepShrinks DEF Clean, Set, Live, IInv, MemInv
<1>4. sync' \in [Threads -> BOOLEAN]
  BY DEF SyncTq, Idle, Set, IInv, MemInv, FunOK
<1>5. (Started(t) \/ UNCHANGED walk) /\ UNCHANGED <<now, free, laundry, where, alt, chan, trig>>
  BY DEF SyncTq, Idle
<1>6. node' = [n \in Nodes |-> IF n \in DeadIn(t) THEN [node[n] EXCEPT !.dirty = FALSE] ELSE node[n]]
  BY <1>1 DEF Clean
<1> QED BY <1>1, <1>3, <1>4, <1>5, <1>6 DEF Sweeps

LEMMA WalkForms ==
  ASSUME IInv, NEW t \in Threads, Check(t) \/ WalkStep(t) \/ SyncTq(t) \/ Idle(t)
  PROVE  WalkForm(t)
<1>1. CASE WalkTrigger(t)
  <2>1. PICK p \in Alts : p = walk[t].ptr
    BY <1>1 DEF WalkTrigger, IInv, MemInv, WalkOK, WalkAt
  <2>4. walk[t].pc = "trigger" /\ TriggerAlt(p)
    BY <1>1, <2>1 DEF WalkTrigger, TriggerAlt, Enqueue, Set
  <2>2. Timed(t, p) /\ Triggers(t, p)
    BY <1>1, <2>1, <2>4 DEF WalkTrigger, Timed, Triggers, Set
  <2>3. NoneComes(p) \/ \E u \in Threads : GuardComes(p, u) \/ EndComes(p, u)
    BY <2>2, <2>4, TriggerForm DEF IInv, MemInv
  <2> QED BY <2>1, <2>2, <2>3 DEF WalkForm
<1>2. CASE WalkWake(t)
  BY <1>2, WakeForm DEF WalkForm
<1>3. CASE WalkDead(t)
  <2>1. queue[t] # <<>> /\ queue' = [queue EXCEPT ![t] = Tail(queue[t])]
    BY <1>3 DEF WalkDead, Expired, Set
  <2> QED BY <1>3, <2>1, TailShrinks DEF WalkForm, IInv, MemInv
<1>4. CASE WalkClean(t)
  <2>1. queue[t] # <<>> /\ queue' = [queue EXCEPT ![t] = Tail(queue[t])]
    BY <1>4 DEF WalkClean, Set, IInv, MemInv, WalkOK, WalkAt
  <2> QED BY <1>4, <2>1, TailShrinks DEF WalkForm, IInv, MemInv
<1>5. CASE SyncTq(t) \/ Idle(t)
  BY <1>5, SweepForm DEF WalkForm
<1> QED BY <1>1, <1>2, <1>3, <1>4, <1>5 DEF WalkStep, WalkForm

LEMMA Forms == ASSUME IInv, [Next]_vars PROVE Form
<1>1. ASSUME NEW p \in Sleepers, NEW t \in Threads, NEW d \in 1 .. MaxDelay,
             Tin(p, t, Future(d - 1)) \/ FastTin(p, t, Future(d)) PROVE Form
  BY <1>1, WaitForm DEF Form
<1>2. ASSUME NEW p \in Alts, AltAction(p) \/ Write(p) \/ WriteTrigger(p) PROVE Form
  BY <1>2, AltForms DEF Form
<1>3. ASSUME NEW t \in Threads, Check(t) \/ WalkStep(t) \/ SyncTq(t) \/ Idle(t) PROVE Form
  BY <1>3, WalkForms DEF Form
<1>4. ASSUME NEW p \in Alts, NEW t \in Threads,
             NEW g \in [1..Guards -> {Future(d) : d \in 1..MaxDelay}], Talt(p, t, g) PROVE Form
  <2>1. g \in Delays
    BY DEF Delays
  <2>2. TaltEnables(p, t, g) \/ TaltWritten(p, t, g)
    BY <1>4 DEF Talt, AltStep, Set, Starts, TaltEnables, TaltWritten
  <2> QED BY <2>1, <2>2 DEF Form
<1>5. ASSUME Tick \/ UNCHANGED vars PROVE Form
  BY <1>5 DEF Form
<1> QED BY <1>1, <1>2, <1>3, <1>4, <1>5 DEF Next

-----------------------------------------------------------------------------
(* The parts of the invariant are kept by every step                       *)

\* Records with a field changed.
LEMMA StateEdits ==
  /\ \A r \in StateT : /\ [r EXCEPT !.notReady = FALSE] \in StateT
                       /\ [r EXCEPT !.n = r.n - 1] \in StateT
  /\ \A r \in StateT : r.n \in Int /\ r.waiting \in BOOLEAN /\ r.notReady \in BOOLEAN
<1>1. ASSUME NEW r \in StateT
      PROVE  /\ [r EXCEPT !.notReady = FALSE] \in StateT
             /\ r.n \in Int /\ r.waiting \in BOOLEAN /\ r.notReady \in BOOLEAN
  BY DEF StateT
<1>2. ASSUME NEW r \in StateT PROVE [r EXCEPT !.n = r.n - 1] \in StateT
  BY DEF StateT
<1> QED BY <1>1, <1>2

LEMMA StateNew ==
  /\ [n |-> 2, waiting |-> FALSE, notReady |-> TRUE] \in StateT
  /\ [n |-> 1, waiting |-> FALSE, notReady |-> FALSE] \in StateT
  /\ \A m \in Int : /\ [n |-> m, waiting |-> FALSE, notReady |-> FALSE] \in StateT
                    /\ [n |-> m, waiting |-> TRUE, notReady |-> FALSE] \in StateT
  BY DEF StateT

LEMMA NodeEdits ==
  /\ \A r \in NodeT : /\ [r EXCEPT !.dirty = FALSE] \in NodeT
                      /\ [r EXCEPT !.wptr = None] \in NodeT
                      /\ \A x \in Times : [r EXCEPT !.time = x] \in NodeT
  /\ \A r \in NodeT : r.wptr \in Wptr /\ r.time \in Times /\ r.dirty \in BOOLEAN /\ r.owner \in Threads
<1>1. \A r \in NodeT : /\ [r EXCEPT !.dirty = FALSE] \in NodeT
                       /\ [r EXCEPT !.wptr = None] \in NodeT
                       /\ \A x \in Times : [r EXCEPT !.time = x] \in NodeT
  BY DEF NodeT, Wptr
<1>2. \A r \in NodeT : r.wptr \in Wptr /\ r.time \in Times /\ r.dirty \in BOOLEAN /\ r.owner \in Threads
  BY DEF NodeT
<1> QED BY <1>1, <1>2

LEMMA NodeNew ==
  ASSUME NEW p \in Procs, NEW x \in Times, NEW t \in Threads
  PROVE  [wptr |-> p, time |-> x, dirty |-> p \in Alts, owner |-> t] \in NodeT
  BY DEF NodeT, Wptr

LEMMA WalkEdits ==
  /\ \A r \in WalkT : \A x \in Times : [r EXCEPT !.pc = "look", !.now = x] \in WalkT
  /\ \A r \in WalkT : [r EXCEPT !.pc = "off"] \in WalkT /\ [r EXCEPT !.pc = "swap"] \in WalkT
  /\ \A r \in WalkT : [r EXCEPT !.pc = "look"] \in WalkT
  /\ \A r \in WalkT : [r EXCEPT !.pc = "clean", !.ptr = None] \in WalkT
  /\ \A r \in WalkT, w \in Wptr :
       [r EXCEPT !.pc = IF w = None THEN "clean" ELSE "trigger", !.ptr = w] \in WalkT
  /\ \A r \in WalkT : r.now \in Times /\ r.ptr \in Wptr
<1>1. \A r \in WalkT : \A x \in Times : [r EXCEPT !.pc = "look", !.now = x] \in WalkT
  BY DEF WalkT
<1>2. \A r \in WalkT : [r EXCEPT !.pc = "off"] \in WalkT /\ [r EXCEPT !.pc = "swap"] \in WalkT
  BY DEF WalkT
<1>3. \A r \in WalkT : [r EXCEPT !.pc = "look"] \in WalkT
  BY DEF WalkT
<1>4. \A r \in WalkT : [r EXCEPT !.pc = "clean", !.ptr = None] \in WalkT
  BY DEF WalkT, Wptr
<1>5. \A r \in WalkT, w \in Wptr :
        [r EXCEPT !.pc = IF w = None THEN "clean" ELSE "trigger", !.ptr = w] \in WalkT
  BY DEF WalkT
<1>6. \A r \in WalkT : r.now \in Times /\ r.ptr \in Wptr
  BY DEF WalkT
<1> QED BY <1>1, <1>2, <1>3, <1>4, <1>5, <1>6

\* The types.
LEMMA FunStep ==
  ASSUME IInv, Form PROVE FunOK'
<1>1. FunOK
  BY DEF IInv, MemInv
<1>2. /\ None \in Wptr /\ (\A x \in Alts : x \in Procs) /\ (\A x \in Sleepers : x \in Procs)
      /\ Channel = Guards + 1 /\ Guards \in Nat /\ Guards >= 1
  BY ConstFacts, Sizes DEF Wptr, Procs
<1>3. /\ \A p \in Alts : (pc[p] = "cas" => tlink[p] \in Nodes) /\ (pc[p] = "release" => held[p] \in Nodes)
      /\ \A t \in Threads : walk[t].pc = "swap" => Head(queue[t]) \in Nodes
  BY TypesOfQueue DEF IInv, MemInv, FunOK, RefOK, RefAt, WalkOK, WalkAt
<1>4. now \in Times /\ \A d \in 1 .. MaxDelay : Future(d) \in Times
  BY <1>1, NextRange DEF FunOK
<1>7. \A p \in Alts : /\ k[p] > 1 => k[p] - 1 \in 1..Guards
                      /\ k[p] < Guards => k[p] + 1 \in 1..Guards
                      /\ guards[p][k[p]] \in Times /\ k[p] \in 0..Channel
                      /\ EnbField(p) \in Times
                      /\ (IF Reached(p) THEN k[p] ELSE temp[p]) \in 0..Channel
  <2>1. \A p \in Alts : /\ k[p] \in 1..Guards /\ guards[p] \in [1..Guards -> Times]
                        /\ field[p] \in Times /\ temp[p] \in 0..Channel
    BY <1>1 DEF FunOK
  <2>2. \A p \in Alts : guards[p][k[p]] \in Times /\ k[p] \in 0..Channel
    BY <1>2, <2>1
  <2>3. \A p \in Alts : EnbField(p) \in Times
    BY <2>1, <2>2 DEF EnbField
  <2> QED BY <1>2, <2>1, <2>2, <2>3
<1>8. k \in [Alts -> 1..Guards] /\ field \in [Alts -> Times] /\ temp \in [Alts -> 0..Channel]
  BY <1>1 DEF FunOK
<1>6. \A p \in Alts : /\ [n |-> state[p].n + 1, waiting |-> TRUE, notReady |-> FALSE] \in StateT
                      /\ [n |-> state[p].n - 1, waiting |-> FALSE, notReady |-> FALSE] \in StateT
  <2>1. \A p \in Alts : state[p].n + 1 \in Int /\ state[p].n - 1 \in Int
    BY <1>1, StateEdits DEF FunOK
  <2> QED BY <2>1, StateNew
<1>5. \A g \in Delays : g \in [1..Guards -> Times]
  BY <1>4 DEF Delays
<1>101. ASSUME Tick PROVE FunOK'
  BY <1>101, <1>1, <1>2, <1>4, Sizes DEF Tick, mem, where, alt, FunOK
<1>102. ASSUME NEW p \in Sleepers, NEW t \in Threads, NEW x \in Times, NEW n \in Nodes, TimerWaits(p, t, x, n)
       PROVE  FunOK'
  BY <1>102, <1>1, <1>2, NodeNew DEF TimerWaits, Grown, alt, InCall, FunOK
<1>103. ASSUME NEW p \in Alts, NEW t \in Threads, NEW g \in Delays, TaltEnables(p, t, g)
       PROVE  FunOK'
  <2>1. state' \in [Alts -> StateT]
    BY <1>103, <1>1, StateNew DEF TaltEnables, alt, Starts, mem, InCall, FunOK
  <2>2. guards' \in [Alts -> [1..Guards -> Times]]
    BY <1>103, <1>1, <1>5 DEF TaltEnables, alt, Starts, mem, InCall, FunOK
  <2>3. k' \in [Alts -> 1..Guards]
    BY <1>103, <1>1, <1>2 DEF TaltEnables, alt, Starts, mem, InCall, FunOK
  <2>4. temp' \in [Alts -> 0..Channel]
    BY <1>103, <1>1, <1>2 DEF TaltEnables, alt, Starts, mem, InCall, FunOK
  <2> QED BY <1>103, <1>1, <1>2, <2>1, <2>2, <2>3, <2>4 DEF TaltEnables, alt, Starts, mem, InCall,
     FunOK
<1>104. ASSUME NEW p \in Alts, NEW t \in Threads, NEW g \in Delays, TaltWritten(p, t, g)
       PROVE  FunOK'
  <2>1. state' \in [Alts -> StateT]
    BY <1>104, <1>1, StateNew DEF TaltWritten, Starts, mem, InCall, FunOK
  <2>2. guards' \in [Alts -> [1..Guards -> Times]]
    BY <1>104, <1>1, <1>5 DEF TaltWritten, Starts, mem, InCall, FunOK
  <2>3. k' \in [Alts -> 1..Guards]
    BY <1>104, <1>1, <1>2 DEF TaltWritten, Starts, mem, InCall, FunOK
  <2>4. temp' \in [Alts -> 0..Channel]
    BY <1>104, <1>1, <1>2 DEF TaltWritten, Starts, mem, InCall, FunOK
  <2> QED BY <1>104, <1>1, <1>2, <2>1, <2>2, <2>3, <2>4 DEF TaltWritten, Starts, mem, InCall, FunOK
<1>105. ASSUME NEW p \in Alts, EnbReady(p) PROVE FunOK'
  BY <1>105, <1>1, <1>2, StateEdits DEF EnbReady, GoesOn, Enables, Set, Runs, mem, InCall,
     FunOK
<1>106. ASSUME NEW p \in Alts, EnbNext(p) PROVE FunOK'
  <2>1. k' \in [Alts -> 1..Guards]
    <3>1. k' = [k EXCEPT ![p] = k[p] + 1]
      BY <1>106 DEF EnbNext
    <3>2. k[p] + 1 \in 1..Guards
      BY <1>106, <1>7 DEF EnbNext
    <3> QED BY <1>8, <3>1, <3>2
  <2>2. field' \in [Alts -> Times]
    <3>1. field' = [field EXCEPT ![p] = EnbField(p)]
      BY <1>106 DEF EnbNext, EnbLater
    <3>2. EnbField(p) \in Times
      BY <1>106, <1>7 DEF EnbNext, EnbLater
    <3> QED BY <1>8, <3>1, <3>2
  <2> QED BY <1>106, <1>1, <1>2, <2>1, <2>2 DEF EnbNext, EnbLater, EnbField, Enables, Runs, mem,
     InCall, FunOK
<1>107. ASSUME NEW p \in Alts, EnbLast(p) PROVE FunOK'
  <2>1. field' \in [Alts -> Times]
    <3>1. field' = [field EXCEPT ![p] = EnbField(p)]
      BY <1>107 DEF EnbLast, EnbLater
    <3>2. EnbField(p) \in Times
      BY <1>107, <1>7 DEF EnbLast, EnbLater
    <3> QED BY <1>8, <3>1, <3>2
  <2> QED BY <1>107, <1>1, <1>2, <2>1 DEF EnbLast, EnbLater, EnbField, Enables, Runs, mem, InCall,
     FunOK
<1>108. ASSUME NEW p \in Alts, DistFired(p) PROVE FunOK'
  <2>1. temp' \in [Alts -> 0..Channel]
    BY <1>108, <1>1, <1>2 DEF DistFired, Runs, Set, AltStep, mem, InCall, FunOK
  <2>2. field' \in [Alts -> Times]
    BY <1>108, <1>1, NodeEdits DEF DistFired, Runs, Set, AltStep, mem, InCall, FunOK
  <2> QED BY <1>108, <1>1, <1>2, <2>1, <2>2 DEF DistFired, Runs, Set, AltStep, mem, InCall, FunOK
<1>109. ASSUME NEW p \in Alts, DiscAlt(p) PROVE FunOK'
  BY <1>109, <1>1, <1>2, StateEdits DEF DiscAlt, alt, Discs, Runs, mem, InCall, FunOK
<1>110. ASSUME NEW p \in Alts, DiscWriter(p) PROVE FunOK'
  BY <1>110, <1>1, <1>2 DEF DiscWriter, Discs, Runs, mem, InCall, FunOK
<1>111. ASSUME NEW p \in Alts, EndsNow(p) PROVE FunOK'
  BY <1>111, <1>1, <1>2 DEF EndsNow, Ends, Runs, mem, InCall, FunOK
<1>112. ASSUME NEW p \in Alts, EndWaits(p) PROVE FunOK'
  BY <1>112, <1>1, <1>2, StateEdits DEF EndWaits, Ends, Runs, mem, InCall, FunOK
<1>113. ASSUME NEW p \in Alts, Select(p) PROVE FunOK'
  BY <1>113, <1>1, <1>2 DEF Select, Runs, Set, AltStep, mem, alt, InCall, FunOK
<1>114. ASSUME NEW p \in Alts, Write(p) PROVE FunOK'
  BY <1>114, <1>1, <1>2 DEF Write, Set, mem, where, alt, FunOK
<1>115. ASSUME NEW p \in Alts, TaltwtGoes(p) PROVE FunOK'
  <2>1. state' \in [Alts -> StateT]
    BY <1>115, <1>1, StateEdits DEF TaltwtGoes, Runs, GoesOn, mem, InCall, Set, FunOK
  <2>2. temp' \in [Alts -> 0..Channel]
    BY <1>115, <1>1, <1>2 DEF TaltwtGoes, Runs, GoesOn, mem, InCall, Set, FunOK
  <2> QED BY <1>115, <1>1, <1>2, <2>1, <2>2 DEF TaltwtGoes, Runs, GoesOn, mem, InCall, Set, FunOK
<1>116. ASSUME NEW p \in Alts, CasWaits(p) PROVE FunOK'
  <2>1. state' \in [Alts -> StateT]
    BY <1>116, <1>1, <1>6 DEF CasWaits, Runs, mem, InCall, FunOK
  <2> QED BY <1>116, <1>1, <1>2, <2>1 DEF CasWaits, Runs, mem, InCall, FunOK
<1>117. ASSUME NEW p \in Alts, CasGoes(p) PROVE FunOK'
  BY <1>117, <1>1, <1>2, <1>3, StateEdits, NodeEdits DEF CasGoes, Shrunk, Runs, GoesOn, InCall,
     Set, FunOK
<1>118. ASSUME NEW p \in Alts, DistHere(p) PROVE FunOK'
  BY <1>118, <1>1, <1>2, StateEdits, NodeEdits DEF DistHere, Shrunk, DistTakes, Runs, InCall,
     FunOK
<1>119. ASSUME NEW p \in Alts, DistThere(p) PROVE FunOK'
  BY <1>119, <1>1, <1>2, StateEdits, NodeEdits DEF DistThere, DistTakes, Runs, InCall, FunOK
<1>120. ASSUME NEW p \in Alts, DistSets(p), NextGuard(p) PROVE FunOK'
  <2>1. k' \in [Alts -> 1..Guards]
    <3>1. k' = [k EXCEPT ![p] = k[p] - 1]
      BY <1>120 DEF NextGuard
    <3>2. k[p] - 1 \in 1..Guards
      BY <1>120, <1>7 DEF NextGuard
    <3> QED BY <1>8, <3>1, <3>2
  <2>2. temp' \in [Alts -> 0..Channel]
    <3>1. temp' = [temp EXCEPT ![p] = IF Reached(p) THEN k[p] ELSE temp[p]]
      BY <1>120 DEF DistSets
    <3>2. (IF Reached(p) THEN k[p] ELSE temp[p]) \in 0..Channel
      BY <1>120, <1>7 DEF DistSets
    <3> QED BY <1>8, <3>1, <3>2
  <2> QED BY <1>120, <1>1, <1>2, <2>1, <2>2 DEF DistSets, NextGuard, Runs, mem, Reached, InCall,
     FunOK
<1>121. ASSUME NEW p \in Alts, DistSets(p), LastGuard(p) PROVE FunOK'
  <2>1. temp' \in [Alts -> 0..Channel]
    <3>1. temp' = [temp EXCEPT ![p] = IF Reached(p) THEN k[p] ELSE temp[p]]
      BY <1>121 DEF DistSets
    <3>2. (IF Reached(p) THEN k[p] ELSE temp[p]) \in 0..Channel
      BY <1>121, <1>7 DEF DistSets
    <3> QED BY <1>8, <3>1, <3>2
  <2> QED BY <1>121, <1>1, <1>2, <2>1 DEF DistSets, LastGuard, Runs, mem, Reached, InCall, FunOK
<1>122. ASSUME NEW p \in Alts, Releases(p), NextGuard(p) PROVE FunOK'
  <2>1. k' \in [Alts -> 1..Guards]
    <3>1. k' = [k EXCEPT ![p] = k[p] - 1]
      BY <1>122 DEF NextGuard
    <3>2. k[p] - 1 \in 1..Guards
      BY <1>122, <1>7 DEF NextGuard
    <3> QED BY <1>8, <3>1, <3>2
  <2> QED BY <1>122, <1>1, <1>2, <1>3, <2>1 DEF Releases, NextGuard, Runs, Release, InCall, FunOK
<1>123. ASSUME NEW p \in Alts, Releases(p), LastGuard(p) PROVE FunOK'
  BY <1>123, <1>1, <1>2, <1>3 DEF Releases, LastGuard, Runs, Release, InCall, FunOK
<1>124. ASSUME NEW p \in Alts, NEW n \in Nodes, TaltwtWaits(p, n) PROVE FunOK'
  BY <1>124, <1>1, <1>2, NodeNew DEF TaltwtWaits, Grown, Runs, InCall, FunOK
<1>125. ASSUME NEW p \in Alts, Written(p), NoneComes(p) PROVE FunOK'
  <2>1. state' \in [Alts -> StateT]
    BY <1>125, <1>1, <1>6 DEF Written, NoneComes, mem, where, Counted, FunOK
  <2> QED BY <1>125, <1>1, <1>2, <2>1 DEF Written, NoneComes, mem, where, Counted, FunOK
<1>126. ASSUME NEW p \in Alts, NEW u \in Threads, Written(p), GuardComes(p, u) PROVE FunOK'
  <2>1. state' \in [Alts -> StateT]
    BY <1>126, <1>1, <1>6 DEF Written, GuardComes, mem, Counted, FunOK
  <2> QED BY <1>126, <1>1, <1>2, <2>1 DEF Written, GuardComes, mem, Counted, FunOK
<1>127. ASSUME NEW p \in Alts, NEW u \in Threads, Written(p), EndComes(p, u) PROVE FunOK'
  <2>1. state' \in [Alts -> StateT]
    BY <1>127, <1>1, <1>6 DEF Written, EndComes, mem, Counted, FunOK
  <2> QED BY <1>127, <1>1, <1>2, <2>1 DEF Written, EndComes, mem, Counted, FunOK
<1>128. ASSUME NEW t \in Threads, Check(t) PROVE FunOK'
  BY <1>128, <1>1, <1>2, WalkEdits DEF Check, mem, where, alt, Started, InCall, Set, FunOK
<1>129. ASSUME NEW t \in Threads, EndWalk(t) PROVE FunOK'
  BY <1>129, <1>1, <1>2, WalkEdits DEF EndWalk, mem, where, alt, Walk, Set, FunOK
<1>130. ASSUME NEW t \in Threads, WalkAlt(t) PROVE FunOK'
  BY <1>130, <1>1, <1>2, NodeEdits, WalkEdits DEF WalkAlt, Set, where, alt, Walk, FunOK
<1>131. ASSUME NEW t \in Threads, WalkSwap(t) PROVE FunOK'
  BY <1>131, <1>1, <1>2, <1>3, NodeEdits, WalkEdits DEF WalkSwap, Set, where, alt, FunOK
<1>132. ASSUME NEW t \in Threads, Sweeps(t) PROVE FunOK'
  <2>1. node' \in [Nodes -> NodeT]
    BY <1>132, <1>1, NodeEdits DEF Sweeps, FunOK
  <2>2. walk' \in [Threads -> WalkT]
    <3>1. CASE Started(t)
      BY <1>132, <1>1, <3>1, WalkEdits DEF Started, Set, FunOK
    <3>2. CASE UNCHANGED walk
      BY <1>1, <3>2 DEF FunOK
    <3> QED BY <1>132, <3>1, <3>2 DEF Sweeps
  <2> QED BY <1>132, <1>1, <2>1, <2>2 DEF Sweeps, Shrunk, where, alt, FunOK
<1>133. ASSUME NEW t \in Threads, WalkDead(t), Shrunk(t, {Head(queue[t])}) PROVE FunOK'
  BY <1>133, <1>1, <1>2, NodeEdits, WalkEdits DEF WalkDead, Shrunk, Set, where, alt, FunOK
<1>134. ASSUME NEW t \in Threads, WalkClean(t), Shrunk(t, {Head(queue[t])}) PROVE FunOK'
  BY <1>134, <1>1, <1>2, NodeEdits, WalkEdits DEF WalkClean, Shrunk, Set, where, alt, Walk,
     FunOK
<1>135. ASSUME NEW t \in Threads, NEW n \in Nodes, NEW p \in Sleepers, NEW u \in Threads, SleeperWakes(t, n, p, u)
       PROVE  FunOK'
  BY <1>135, <1>1, <1>2 DEF SleeperWakes, Shrunk, alt, FunOK
<1>136. ASSUME NEW t \in Threads, NEW p \in Alts, Timed(t, p), NoneComes(p) PROVE FunOK'
  <2>1. state' \in [Alts -> StateT]
    BY <1>136, <1>1, <1>6 DEF Timed, NoneComes, mem, where, Counted, FunOK
  <2>2. walk' \in [Threads -> WalkT]
    BY <1>136, <1>1, WalkEdits DEF Timed, NoneComes, mem, where, Counted, FunOK
  <2> QED BY <1>136, <1>1, <1>2, <2>1, <2>2 DEF Timed, NoneComes, mem, where, Counted, FunOK
<1>137. ASSUME NEW t \in Threads, NEW p \in Alts, NEW u \in Threads, Timed(t, p), GuardComes(p, u)
       PROVE  FunOK'
  <2>1. state' \in [Alts -> StateT]
    BY <1>137, <1>1, <1>6 DEF Timed, GuardComes, mem, Counted, FunOK
  <2>2. walk' \in [Threads -> WalkT]
    BY <1>137, <1>1, WalkEdits DEF Timed, GuardComes, mem, Counted, FunOK
  <2> QED BY <1>137, <1>1, <1>2, <2>1, <2>2 DEF Timed, GuardComes, mem, Counted, FunOK
<1>138. ASSUME NEW t \in Threads, NEW p \in Alts, NEW u \in Threads, Timed(t, p), EndComes(p, u)
       PROVE  FunOK'
  <2>1. state' \in [Alts -> StateT]
    BY <1>138, <1>1, <1>6 DEF Timed, EndComes, mem, Counted, FunOK
  <2>2. walk' \in [Threads -> WalkT]
    BY <1>138, <1>1, WalkEdits DEF Timed, EndComes, mem, Counted, FunOK
  <2> QED BY <1>138, <1>1, <1>2, <2>1, <2>2 DEF Timed, EndComes, mem, Counted, FunOK
<1>139. ASSUME UNCHANGED vars PROVE FunOK'
  BY <1>139, <1>1, <1>2 DEF vars, mem, where, alt, FunOK
<1> QED BY <1>101, <1>102, <1>103, <1>104, <1>105, <1>106, <1>107, <1>108, <1>109, <1>110,
   <1>111, <1>112, <1>113, <1>114, <1>115, <1>116, <1>117, <1>118, <1>119, <1>120, <1>121,
   <1>122, <1>123, <1>124, <1>125, <1>126, <1>127, <1>128, <1>129, <1>130, <1>131, <1>132,
   <1>133, <1>134, <1>135, <1>136, <1>137, <1>138, <1>139 DEF Form, AltForm, WalkForm

\* What a changed record holds.
LEMMA NodeReads ==
  \A r \in NodeT :
    /\ LET s == [r EXCEPT !.dirty = FALSE]
       IN  s.wptr = r.wptr /\ s.time = r.time /\ s.owner = r.owner /\ s.dirty = FALSE
    /\ LET s == [r EXCEPT !.wptr = None]
       IN  s.wptr = None /\ s.time = r.time /\ s.owner = r.owner /\ s.dirty = r.dirty
    /\ \A x : LET s == [r EXCEPT !.time = x]
              IN  s.wptr = r.wptr /\ s.time = x /\ s.owner = r.owner /\ s.dirty = r.dirty
  BY DEF NodeT

LEMMA StateReads ==
  \A r \in StateT :
    /\ LET s == [r EXCEPT !.notReady = FALSE]
       IN  s.n = r.n /\ s.waiting = r.waiting /\ s.notReady = FALSE
    /\ LET s == [r EXCEPT !.n = r.n - 1]
       IN  s.n = r.n - 1 /\ s.waiting = r.waiting /\ s.notReady = r.notReady
<1>1. ASSUME NEW r \in StateT
      PROVE  LET s == [r EXCEPT !.notReady = FALSE]
             IN  s.n = r.n /\ s.waiting = r.waiting /\ s.notReady = FALSE
  BY DEF StateT
<1>2. ASSUME NEW r \in StateT
      PROVE  LET s == [r EXCEPT !.n = r.n - 1]
             IN  s.n = r.n - 1 /\ s.waiting = r.waiting /\ s.notReady = r.notReady
  BY DEF StateT
<1> QED BY <1>1, <1>2

LEMMA WalkReads ==
  /\ \A r \in WalkT : \A x :
       LET s == [r EXCEPT !.pc = "look", !.now = x] IN s.pc = "look" /\ s.now = x /\ s.ptr = r.ptr
  /\ \A r \in WalkT : \A l :
       LET s == [r EXCEPT !.pc = l] IN s.pc = l /\ s.now = r.now /\ s.ptr = r.ptr
  /\ \A r \in WalkT : \A l, w :
       LET s == [r EXCEPT !.pc = l, !.ptr = w] IN s.pc = l /\ s.now = r.now /\ s.ptr = w
<1>1. \A r \in WalkT : \A x :
        LET s == [r EXCEPT !.pc = "look", !.now = x] IN s.pc = "look" /\ s.now = x /\ s.ptr = r.ptr
  BY DEF WalkT
<1>2. \A r \in WalkT : \A l :
        LET s == [r EXCEPT !.pc = l] IN s.pc = l /\ s.now = r.now /\ s.ptr = r.ptr
  BY DEF WalkT
<1>3. \A r \in WalkT : \A l, w :
        LET s == [r EXCEPT !.pc = l, !.ptr = w] IN s.pc = l /\ s.now = r.now /\ s.ptr = w
  BY DEF WalkT
<1> QED BY <1>1, <1>2, <1>3

LEMMA NodeMade ==
  ASSUME NEW p, NEW x, NEW t
  PROVE  LET r == [wptr |-> p, time |-> x, dirty |-> p \in Alts, owner |-> t]
         IN  r.wptr = p /\ r.time = x /\ r.owner = t /\ (r.dirty <=> p \in Alts)
  OBVIOUS

\* The nodes of the queues.
LEMMA LinkStep ==
  ASSUME IInv, Form PROVE LinkOK'
<1>1. FunOK /\ LinkOK
  BY DEF IInv, MemInv
<1>2. /\ Sleepers \cap Alts = {} /\ Sleepers \subseteq Procs /\ Alts \subseteq Procs
      /\ None \notin Procs /\ None \notin Nodes /\ "set" \notin Nodes /\ "notset" \notin Nodes
  BY ConstFacts
<1>3. /\ \A t \in Threads : Listed(t) \subseteq Nodes
      /\ \A t \in Threads : queue[t] # <<>> => Head(queue[t]) \in Listed(t)
  BY <1>1, TypesOfQueue
<1>4. \A p \in Alts : tlink[p] \in Nodes => pc[p] \in RefPC
  BY DEF IInv, MemInv, RefOK, RefAt
<1>5. \A p \in Alts : held[p] # None <=> pc[p] = "release"
  BY DEF IInv, MemInv, RefOK, RefAt
<1>6. \A n \in Nodes : node[n] \in NodeT
  BY <1>1 DEF FunOK
<1>7. \A t \in Threads : \A n \in Listed(t) : LinkAt(t, n)
  BY <1>1 DEF LinkOK
<1>8. /\ \A p \in Alts : tlink[p] \in Nodes => tlink[p] \notin free \cup laundry
      /\ \A p \in Alts : held[p] # None => held[p] \notin free \cup laundry
  BY DEF IInv, MemInv, RefOK, RefAt
<1>10. \A p \in Alts : pc[p] = "cas" => /\ tlink[p] \in Nodes /\ node[tlink[p]].wptr = p
                                        /\ node[tlink[p]].owner = on[p]
  BY DEF IInv, MemInv, RefOK, RefAt
<1>11. \A t \in Threads : Expired(t) => Head(queue[t]) \in Listed(t)
  BY <1>3 DEF Expired
<1>12. \A t \in Threads : walk[t].pc = "swap" => queue[t] # <<>> /\ node[Head(queue[t])].dirty
  BY DEF IInv, MemInv, WalkOK, WalkAt
<1>101. ASSUME Tick PROVE LinkOK'
  BY <1>101, <1>1, <1>2, <1>3, <1>4, <1>5, <1>6 DEF Tick, mem, where, alt, LinkOK, LinkAt,
     Listed, FunOK, RefPC
<1>102. ASSUME NEW p \in Sleepers, NEW t \in Threads, NEW x \in Times, NEW n \in Nodes, TimerWaits(p, t, x, n)
       PROVE  LinkOK'
  <2> SUFFICES ASSUME NEW u \in Threads, NEW m \in ToSet(queue'[u]) PROVE LinkAt(u, m)'
    BY DEF LinkOK, Listed
  <2>1. CASE m = n
    <3>1. u = t
      BY <1>102, <2>1 DEF TimerWaits, Grown, Listed
    <3>2. node'[n] = [wptr |-> p, time |-> x, dirty |-> p \in Alts, owner |-> t]
      BY <1>102, <1>1 DEF TimerWaits, Grown, FunOK
    <3>3. n \notin free' /\ n \notin laundry' /\ \A q \in Alts : held'[q] # n /\ tlink[q] # n
      BY <1>102, <1>2, <1>8 DEF TimerWaits, Grown, alt, Washed
    <3>4. node'[n].wptr = p /\ node'[n].owner = t /\ (node'[n].dirty <=> p \in Alts)
      BY <3>2, NodeMade
    <3> QED BY <1>102, <1>1, <1>2, <2>1, <3>1, <3>3, <3>4 DEF TimerWaits, LinkAt, alt, FunOK
  <2>2. CASE m # n
    <3>1. m \in Listed(u) /\ m \in Nodes /\ LinkAt(u, m)
      <4>1. CASE u = t
        BY <1>102, <1>1, <1>2, <1>3, <2>2, <4>1 DEF TimerWaits, Grown, LinkOK, Listed
      <4>2. CASE u # t
        BY <1>102, <1>1, <1>2, <1>3, <4>2 DEF TimerWaits, Grown, LinkOK, Listed
      <4> QED BY <4>1, <4>2
    <3>2. node'[m] = node[m] /\ (m \in free' => m \in free) /\ (m \in laundry' => m \in laundry)
      BY <1>102, <1>1, <2>2, <3>1 DEF TimerWaits, Grown, FunOK
    <3>3. \A q \in Alts : held'[q] = held[q] /\ (tlink'[q] = tlink[q] \/ (tlink[q] \notin Nodes /\ tlink'[q] = n))
      BY <1>102, <1>1, <1>2, <1>4 DEF TimerWaits, alt, Runs, RefPC, FunOK
    <3> QED BY <1>1, <1>2, <2>2, <3>1, <3>2, <3>3 DEF LinkAt
  <2> QED BY <2>1, <2>2
<1>103. ASSUME NEW p \in Alts, NEW t \in Threads, NEW g \in Delays, TaltEnables(p, t, g)
       PROVE  LinkOK'
  <2> SUFFICES ASSUME NEW u \in Threads, NEW m \in ToSet(queue'[u]) PROVE LinkAt(u, m)'
    BY DEF LinkOK, Listed
  <2>1. m \in Listed(u) /\ m \in Nodes /\ LinkAt(u, m)
    BY <1>103, <1>1, <1>2, <1>3 DEF TaltEnables, Starts, mem, LinkOK, Listed
  <2>2. \A q \in Alts : tlink[q] = tlink'[q] \/ (tlink[q] \notin Nodes /\ tlink'[q] \notin Nodes)
    BY <1>103, <1>1, <1>2, <1>3, <1>4 DEF TaltEnables, Starts, mem, FunOK, RefPC
  <2> QED BY <1>103, <1>1, <1>2, <2>1, <2>2 DEF TaltEnables, Starts, mem, LinkAt, FunOK
<1>104. ASSUME NEW p \in Alts, NEW t \in Threads, NEW g \in Delays, TaltWritten(p, t, g)
       PROVE  LinkOK'
  <2> SUFFICES ASSUME NEW u \in Threads, NEW m \in ToSet(queue'[u]) PROVE LinkAt(u, m)'
    BY DEF LinkOK, Listed
  <2>1. m \in Listed(u) /\ m \in Nodes /\ LinkAt(u, m)
    BY <1>104, <1>1, <1>2, <1>3 DEF TaltWritten, Starts, mem, LinkOK, Listed
  <2>2. \A q \in Alts : tlink[q] = tlink'[q] \/ (tlink[q] \notin Nodes /\ tlink'[q] \notin Nodes)
    BY <1>104, <1>1, <1>2, <1>3, <1>4 DEF TaltWritten, Starts, mem, FunOK, RefPC
  <2> QED BY <1>104, <1>1, <1>2, <2>1, <2>2 DEF TaltWritten, Starts, mem, LinkAt, FunOK
<1>105. ASSUME NEW p \in Alts, EnbReady(p) PROVE LinkOK'
  <2> SUFFICES ASSUME NEW u \in Threads, NEW m \in ToSet(queue'[u]) PROVE LinkAt(u, m)'
    BY DEF LinkOK, Listed
  <2>1. m \in Listed(u) /\ m \in Nodes /\ LinkAt(u, m)
    BY <1>105, <1>1, <1>2, <1>3 DEF EnbReady, Enables, GoesOn, Runs, mem, InCall, LinkOK, Listed
  <2>2. \A q \in Alts : tlink[q] = tlink'[q] \/ (tlink[q] \notin Nodes /\ tlink'[q] \notin Nodes)
    BY <1>105, <1>1, <1>2, <1>3, <1>4 DEF EnbReady, Enables, GoesOn, Runs, mem, InCall, FunOK, RefPC
  <2> QED BY <1>105, <1>1, <1>2, <2>1, <2>2 DEF EnbReady, Enables, GoesOn, Runs, mem, InCall, LinkAt, FunOK
<1>106. ASSUME NEW p \in Alts, EnbNext(p) PROVE LinkOK'
  <2> SUFFICES ASSUME NEW u \in Threads, NEW m \in ToSet(queue'[u]) PROVE LinkAt(u, m)'
    BY DEF LinkOK, Listed
  <2>1. m \in Listed(u) /\ m \in Nodes /\ LinkAt(u, m)
    BY <1>106, <1>1, <1>2, <1>3 DEF EnbNext, EnbLater, Enables, Runs, mem, InCall, LinkOK, Listed
  <2>2. \A q \in Alts : tlink[q] = tlink'[q] \/ (tlink[q] \notin Nodes /\ tlink'[q] \notin Nodes)
    BY <1>106, <1>1, <1>2, <1>3, <1>4 DEF EnbNext, EnbLater, Enables, Runs, mem, InCall, FunOK, RefPC
  <2> QED BY <1>106, <1>1, <1>2, <2>1, <2>2 DEF EnbNext, EnbLater, Enables, Runs, mem, InCall, LinkAt, FunOK
<1>107. ASSUME NEW p \in Alts, EnbLast(p) PROVE LinkOK'
  <2> SUFFICES ASSUME NEW u \in Threads, NEW m \in ToSet(queue'[u]) PROVE LinkAt(u, m)'
    BY DEF LinkOK, Listed
  <2>1. m \in Listed(u) /\ m \in Nodes /\ LinkAt(u, m)
    BY <1>107, <1>1, <1>2, <1>3 DEF EnbLast, EnbLater, Enables, Runs, mem, InCall, LinkOK, Listed
  <2>2. \A q \in Alts : tlink[q] = tlink'[q] \/ (tlink[q] \notin Nodes /\ tlink'[q] \notin Nodes)
    BY <1>107, <1>1, <1>2, <1>3, <1>4 DEF EnbLast, EnbLater, Enables, Runs, mem, InCall, FunOK, RefPC
  <2> QED BY <1>107, <1>1, <1>2, <2>1, <2>2 DEF EnbLast, EnbLater, Enables, Runs, mem, InCall, LinkAt, FunOK
<1>108. ASSUME NEW p \in Alts, DistFired(p) PROVE LinkOK'
  BY <1>108, <1>1, <1>2, <1>3, <1>4, <1>5, <1>6 DEF DistFired, Runs, Set, AltStep, mem, InCall,
     LinkOK, LinkAt, Listed, FunOK, RefPC
<1>109. ASSUME NEW p \in Alts, DiscAlt(p) PROVE LinkOK'
  BY <1>109, <1>1, <1>2, <1>3, <1>4, <1>5, <1>6 DEF DiscAlt, alt, Discs, Runs, mem, InCall,
     LinkOK, LinkAt, Listed, FunOK, RefPC
<1>110. ASSUME NEW p \in Alts, DiscWriter(p) PROVE LinkOK'
  BY <1>110, <1>1, <1>2, <1>3, <1>4, <1>5, <1>6 DEF DiscWriter, Discs, Runs, mem, InCall,
     LinkOK, LinkAt, Listed, FunOK, RefPC
<1>111. ASSUME NEW p \in Alts, EndsNow(p) PROVE LinkOK'
  BY <1>111, <1>1, <1>2, <1>3, <1>4, <1>5, <1>6 DEF EndsNow, Ends, Runs, mem, InCall, LinkOK,
     LinkAt, Listed, FunOK, RefPC
<1>112. ASSUME NEW p \in Alts, EndWaits(p) PROVE LinkOK'
  BY <1>112, <1>1, <1>2, <1>3, <1>4, <1>5, <1>6 DEF EndWaits, Ends, Runs, mem, InCall, LinkOK,
     LinkAt, Listed, FunOK, RefPC
<1>113. ASSUME NEW p \in Alts, Select(p) PROVE LinkOK'
  BY <1>113, <1>1, <1>2, <1>3, <1>4, <1>5, <1>6 DEF Select, Runs, Set, AltStep, mem, alt,
     InCall, LinkOK, LinkAt, Listed, FunOK, RefPC
<1>114. ASSUME NEW p \in Alts, Write(p) PROVE LinkOK'
  BY <1>114, <1>1, <1>2, <1>3, <1>4, <1>5, <1>6 DEF Write, Set, mem, where, alt, LinkOK,
     LinkAt, Listed, FunOK, RefPC
<1>115. ASSUME NEW p \in Alts, TaltwtGoes(p) PROVE LinkOK'
  BY <1>115, <1>1, <1>2, <1>3, <1>4, <1>5, <1>6 DEF TaltwtGoes, Runs, GoesOn, mem, InCall, Set,
     LinkOK, LinkAt, Listed, FunOK, RefPC
<1>116. ASSUME NEW p \in Alts, CasWaits(p) PROVE LinkOK'
  BY <1>116, <1>1, <1>2, <1>3, <1>4, <1>5, <1>6 DEF CasWaits, Runs, mem, InCall, LinkOK,
     LinkAt, Listed, FunOK, RefPC
<1>117. ASSUME NEW p \in Alts, CasGoes(p) PROVE LinkOK'
  <2> SUFFICES ASSUME NEW u \in Threads, NEW m \in ToSet(queue'[u]) PROVE LinkAt(u, m)'
    BY DEF LinkOK, Listed
  <2>1. m \in Listed(u) /\ m \in Nodes /\ LinkAt(u, m)
    BY <1>117, <1>1, <1>2, <1>3 DEF CasGoes, GoesOn, Runs, Shrunk, LinkOK, Listed
  <2>2. m # tlink[p]
    <3>1. CASE u = on[p]
      BY <1>117, <3>1 DEF CasGoes, GoesOn, Runs, Shrunk
    <3>2. CASE u # on[p]
      BY <1>117, <1>1, <2>1, <3>2, <1>10 DEF CasGoes, GoesOn, Runs, LinkAt
    <3> QED BY <3>1, <3>2
  <2>3. node'[m] = node[m]
    BY <1>117, <1>1, <2>1, <2>2 DEF CasGoes, GoesOn, Runs, FunOK, alt
  <2> QED BY <1>117, <1>1, <1>2, <2>1, <2>2, <2>3, <1>4, <1>5 DEF CasGoes, GoesOn, Runs, LinkAt, FunOK
<1>118. ASSUME NEW p \in Alts, DistHere(p) PROVE LinkOK'
  <2> SUFFICES ASSUME NEW u \in Threads, NEW m \in ToSet(queue'[u]) PROVE LinkAt(u, m)'
    BY DEF LinkOK, Listed
  <2>1. m \in Listed(u) /\ m \in Nodes /\ LinkAt(u, m)
    BY <1>118, <1>1, <1>2, <1>3 DEF DistHere, DistTakes, Runs, Shrunk, LinkOK, Listed
  <2>2. m # tlink[p]
    <3>1. CASE u = on[p]
      BY <1>118, <3>1 DEF DistHere, DistTakes, Runs, Shrunk
    <3>2. CASE u # on[p]
      BY <1>118, <1>1, <2>1, <3>2 DEF DistHere, DistTakes, Runs, LinkAt
    <3> QED BY <3>1, <3>2
  <2>3. node'[m] = node[m]
    BY <1>118, <1>1, <2>1, <2>2 DEF DistHere, DistTakes, Runs, FunOK, alt
  <2> QED BY <1>118, <1>1, <1>2, <2>1, <2>2, <2>3, <1>4, <1>5 DEF DistHere, DistTakes, Runs, LinkAt, FunOK
<1>119. ASSUME NEW p \in Alts, DistThere(p) PROVE LinkOK'
  BY <1>119, <1>1, <1>2, <1>3, <1>4, <1>5, <1>6, NodeReads DEF DistThere, DistTakes, Runs,
     InCall, LinkOK, LinkAt, Listed, FunOK, RefPC
<1>120. ASSUME NEW p \in Alts, DistSets(p), NextGuard(p) PROVE LinkOK'
  BY <1>120, <1>1, <1>2, <1>3, <1>4, <1>5, <1>6 DEF DistSets, NextGuard, Runs, mem, Reached,
     InCall, LinkOK, LinkAt, Listed, FunOK, RefPC
<1>121. ASSUME NEW p \in Alts, DistSets(p), LastGuard(p) PROVE LinkOK'
  BY <1>121, <1>1, <1>2, <1>3, <1>4, <1>5, <1>6 DEF DistSets, LastGuard, Runs, mem, Reached,
     InCall, LinkOK, LinkAt, Listed, FunOK, RefPC
<1>122. ASSUME NEW p \in Alts, Releases(p), NextGuard(p) PROVE LinkOK'
  BY <1>122, <1>1, <1>2, <1>3, <1>4, <1>5, <1>6 DEF Releases, NextGuard, Runs, Release, InCall,
     LinkOK, LinkAt, Listed, FunOK, RefPC
<1>123. ASSUME NEW p \in Alts, Releases(p), LastGuard(p) PROVE LinkOK'
  BY <1>123, <1>1, <1>2, <1>3, <1>4, <1>5, <1>6 DEF Releases, LastGuard, Runs, Release, InCall,
     LinkOK, LinkAt, Listed, FunOK, RefPC
<1>124. ASSUME NEW p \in Alts, NEW n \in Nodes, TaltwtWaits(p, n) PROVE LinkOK'
  <2> SUFFICES ASSUME NEW u \in Threads, NEW m \in ToSet(queue'[u]) PROVE LinkAt(u, m)'
    BY DEF LinkOK, Listed
  <2>1. CASE m = n
    <3>1. u = on[p]
      BY <1>124, <2>1 DEF TaltwtWaits, Grown, Listed
    <3>2. node'[n] = [wptr |-> p, time |-> field[p], dirty |-> p \in Alts, owner |-> on[p]]
      BY <1>124, <1>1 DEF TaltwtWaits, Grown, FunOK
    <3>3. n \notin free' /\ n \notin laundry' /\ \A q \in Alts : held'[q] # n /\ tlink[q] # n
      BY <1>124, <1>2, <1>8 DEF TaltwtWaits, Grown, alt, Washed
    <3>4. node'[n].wptr = p /\ node'[n].owner = on[p] /\ (node'[n].dirty <=> p \in Alts)
      BY <3>2, NodeMade
    <3> QED BY <1>124, <1>1, <1>2, <2>1, <3>1, <3>3, <3>4 DEF TaltwtWaits, LinkAt, alt, FunOK
  <2>2. CASE m # n
    <3>1. m \in Listed(u) /\ m \in Nodes /\ LinkAt(u, m)
      <4>1. CASE u = on[p]
        BY <1>124, <1>1, <1>2, <1>3, <2>2, <4>1 DEF TaltwtWaits, Grown, LinkOK, Listed
      <4>2. CASE u # on[p]
        BY <1>124, <1>1, <1>2, <1>3, <4>2 DEF TaltwtWaits, Grown, LinkOK, Listed
      <4> QED BY <4>1, <4>2
    <3>2. node'[m] = node[m] /\ (m \in free' => m \in free) /\ (m \in laundry' => m \in laundry)
      BY <1>124, <1>1, <2>2, <3>1 DEF TaltwtWaits, Grown, FunOK
    <3>3. \A q \in Alts : held'[q] = held[q] /\ (tlink'[q] = tlink[q] \/ (tlink[q] \notin Nodes /\ tlink'[q] = n))
      BY <1>124, <1>1, <1>2, <1>4 DEF TaltwtWaits, alt, Runs, RefPC, FunOK
    <3> QED BY <1>1, <1>2, <2>2, <3>1, <3>2, <3>3 DEF LinkAt
  <2> QED BY <2>1, <2>2
<1>125. ASSUME NEW p \in Alts, Written(p), NoneComes(p) PROVE LinkOK'
  BY <1>125, <1>1, <1>2, <1>3, <1>4, <1>5, <1>6 DEF Written, NoneComes, mem, where, Counted,
     LinkOK, LinkAt, Listed, FunOK, RefPC
<1>126. ASSUME NEW p \in Alts, NEW u \in Threads, Written(p), GuardComes(p, u) PROVE LinkOK'
  BY <1>126, <1>1, <1>2, <1>3, <1>4, <1>5, <1>6 DEF Written, GuardComes, mem, Counted, LinkOK,
     LinkAt, Listed, FunOK, RefPC
<1>127. ASSUME NEW p \in Alts, NEW u \in Threads, Written(p), EndComes(p, u) PROVE LinkOK'
  BY <1>127, <1>1, <1>2, <1>3, <1>4, <1>5, <1>6 DEF Written, EndComes, mem, Counted, LinkOK,
     LinkAt, Listed, FunOK, RefPC
<1>128. ASSUME NEW t \in Threads, Check(t) PROVE LinkOK'
  BY <1>128, <1>1, <1>2, <1>3, <1>4, <1>5, <1>6 DEF Check, mem, where, alt, Started, InCall,
     Set, LinkOK, LinkAt, Listed, FunOK, RefPC
<1>129. ASSUME NEW t \in Threads, EndWalk(t) PROVE LinkOK'
  BY <1>129, <1>1, <1>2, <1>3, <1>4, <1>5, <1>6 DEF EndWalk, mem, where, alt, Walk, Set,
     LinkOK, LinkAt, Listed, FunOK, RefPC
<1>130. ASSUME NEW t \in Threads, WalkAlt(t) PROVE LinkOK'
  BY <1>130, <1>1, <1>2, <1>3, <1>4, <1>5, <1>6, NodeReads DEF WalkAlt, Set, where, alt, Walk,
     LinkOK, LinkAt, Listed, FunOK, RefPC
<1>131. ASSUME NEW t \in Threads, WalkSwap(t) PROVE LinkOK'
  <2> SUFFICES ASSUME NEW u \in Threads, NEW m \in ToSet(queue'[u]) PROVE LinkAt(u, m)'
    BY DEF LinkOK, Listed
  <2>1. m \in Listed(u) /\ m \in Nodes /\ LinkAt(u, m)
    BY <1>131, <1>1, <1>2, <1>3 DEF WalkSwap, LinkOK, Listed
  <2>2. CASE m = Head(queue[t])
    <3>1. node'[m] = [node[m] EXCEPT !.wptr = None] /\ node[m].dirty
      BY <1>131, <1>1, <1>12, <2>1, <2>2 DEF WalkSwap, Set, FunOK
    <3> QED BY <1>131, <1>1, <1>2, <1>6, <2>1, <2>2, <3>1, NodeReads DEF WalkSwap, alt, LinkAt
  <2>3. CASE m # Head(queue[t])
    <3>1. node'[m] = node[m]
      BY <1>131, <1>1, <2>1, <2>3 DEF WalkSwap, Set, FunOK
    <3> QED BY <1>131, <2>1, <3>1 DEF WalkSwap, alt, LinkAt
  <2> QED BY <2>2, <2>3
<1>132. ASSUME NEW t \in Threads, Sweeps(t) PROVE LinkOK'
  <2> SUFFICES ASSUME NEW u \in Threads, NEW m \in ToSet(queue'[u]) PROVE LinkAt(u, m)'
    BY DEF LinkOK, Listed
  <2>1. m \in Listed(u) /\ m \in Nodes /\ LinkAt(u, m)
    BY <1>132, <1>1, <1>2, <1>3 DEF Sweeps, Shrunk, LinkOK, Listed
  <2>2. m \notin DeadIn(t)
    <3>1. CASE u = t
      BY <1>132, <3>1 DEF Sweeps, Shrunk
    <3>2. CASE u # t
      BY <1>1, <1>2, <1>3, <2>1, <3>2 DEF LinkOK, LinkAt, DeadIn, Listed
    <3> QED BY <3>1, <3>2
  <2>3. node'[m] = node[m]
    BY <1>132, <2>1, <2>2 DEF Sweeps
  <2> QED BY <1>132, <2>1, <2>3 DEF Sweeps, alt, LinkAt
<1>133. ASSUME NEW t \in Threads, WalkDead(t), Shrunk(t, {Head(queue[t])}) PROVE LinkOK'
  BY <1>133, <1>1, <1>2, <1>3, <1>4, <1>5, <1>6, NodeReads DEF WalkDead, Shrunk, Set, where,
     alt, LinkOK, LinkAt, Listed, FunOK, RefPC
<1>134. ASSUME NEW t \in Threads, WalkClean(t), Shrunk(t, {Head(queue[t])}) PROVE LinkOK'
  BY <1>134, <1>1, <1>2, <1>3, <1>4, <1>5, <1>6, NodeReads DEF WalkClean, Shrunk, Set, where,
     alt, Walk, LinkOK, LinkAt, Listed, FunOK, RefPC
<1>135. ASSUME NEW t \in Threads, NEW n \in Nodes, NEW p \in Sleepers, NEW v \in Threads, SleeperWakes(t, n, p, v)
       PROVE  LinkOK'
  <2> SUFFICES ASSUME NEW u \in Threads, NEW m \in ToSet(queue'[u]) PROVE LinkAt(u, m)'
    BY DEF LinkOK, Listed
  <2>1. m \in Listed(u) /\ m \in Nodes /\ LinkAt(u, m)
    BY <1>135, <1>1, <1>2, <1>3 DEF SleeperWakes, Shrunk, LinkOK, Listed
  <2>2. m # n
    <3>1. CASE u = t
      BY <1>135, <3>1 DEF SleeperWakes, Shrunk
    <3>2. CASE u # t
      BY <1>135, <1>1, <2>1, <3>2, <1>11, <1>7 DEF SleeperWakes, LinkAt
    <3> QED BY <3>1, <3>2
  <2>3. node'[m] = node[m]
    BY <1>135, <1>1, <2>1, <2>2 DEF SleeperWakes, FunOK, alt
  <2> QED BY <1>135, <1>1, <1>2, <2>1, <2>2, <2>3 DEF SleeperWakes, alt, LinkAt, FunOK
<1>136. ASSUME NEW t \in Threads, NEW p \in Alts, Timed(t, p), NoneComes(p) PROVE LinkOK'
  BY <1>136, <1>1, <1>2, <1>3, <1>4, <1>5, <1>6 DEF Timed, NoneComes, mem, where, Counted,
     LinkOK, LinkAt, Listed, FunOK, RefPC
<1>137. ASSUME NEW t \in Threads, NEW p \in Alts, NEW u \in Threads, Timed(t, p), GuardComes(p, u)
       PROVE  LinkOK'
  BY <1>137, <1>1, <1>2, <1>3, <1>4, <1>5, <1>6 DEF Timed, GuardComes, mem, Counted, LinkOK,
     LinkAt, Listed, FunOK, RefPC
<1>138. ASSUME NEW t \in Threads, NEW p \in Alts, NEW u \in Threads, Timed(t, p), EndComes(p, u)
       PROVE  LinkOK'
  BY <1>138, <1>1, <1>2, <1>3, <1>4, <1>5, <1>6 DEF Timed, EndComes, mem, Counted, LinkOK,
     LinkAt, Listed, FunOK, RefPC
<1>139. ASSUME UNCHANGED vars PROVE LinkOK'
  BY <1>139, <1>1, <1>2, <1>3, <1>4, <1>5, <1>6 DEF vars, mem, where, alt, LinkOK, LinkAt,
     Listed, FunOK, RefPC
<1> QED BY <1>101, <1>102, <1>103, <1>104, <1>105, <1>106, <1>107, <1>108, <1>109, <1>110,
   <1>111, <1>112, <1>113, <1>114, <1>115, <1>116, <1>117, <1>118, <1>119, <1>120, <1>121,
   <1>122, <1>123, <1>124, <1>125, <1>126, <1>127, <1>128, <1>129, <1>130, <1>131, <1>132,
   <1>133, <1>134, <1>135, <1>136, <1>137, <1>138, <1>139 DEF Form, AltForm, WalkForm

\* The order depends on the clock and on the times of the nodes.
LEMMA PlaceListed ==
  ASSUME FunOK, NEW t \in Threads
  PROVE  \A i \in DOMAIN queue[t] : i \in Nat /\ i >= 1 /\ queue[t][i] \in Listed(t) /\ queue[t][i] \in Nodes
<1>1. queue[t] \in Seq(Nodes)
  BY TypesOfQueue
<1>2. \A i \in DOMAIN queue[t] : i \in Nat /\ i >= 1 /\ queue[t][i] \in Nodes
  BY <1>1
<1> QED BY <1>2 DEF Listed, ToSet

LEMMA OrderHere ==
  ASSUME FunOK, OrderOK, NEW t \in Threads, UNCHANGED now, queue'[t] = queue[t],
         \A n \in Listed(t) : node'[n].time = node[n].time,
         walk'[t].pc \in {"off", "look"} => walk[t].pc \in {"off", "look"}
  PROVE  Distinct(queue'[t]) /\ Rising(now', node', queue'[t], First(t)')
<1>1. Distinct(queue[t]) /\ Rising(now, node, queue[t], First(t))
  BY DEF OrderOK
<1>2. First(t)' \in {1, 2} /\ First(t) \in {1, 2} /\ First(t) <= First(t)'
  BY DEF First
<1> QED BY <1>1, <1>2, PlaceListed DEF Rising

LEMMA OrderSame ==
  ASSUME FunOK, OrderOK, UNCHANGED <<now, queue>>,
         \A n \in Nodes : node'[n].time = node[n].time,
         \A t \in Threads : walk'[t].pc \in {"off", "look"} => walk[t].pc \in {"off", "look"}
  PROVE  OrderOK'
<1>1. ASSUME NEW t \in Threads
      PROVE  Distinct(queue'[t]) /\ Rising(now', node', queue'[t], First(t)')
  BY OrderHere, TypesOfQueue
<1> QED BY <1>1 DEF OrderOK

LEMMA OrderGrows ==
  ASSUME FunOK, OrderOK, NEW t \in Threads, NEW p, NEW x, NEW n \in Nodes, Grown(t, p, x, n),
         UNCHANGED <<now, walk>>, walk[t].pc = "off"
  PROVE  OrderOK'
<1>1. ASSUME NEW u \in Threads, u # t
      PROVE  Distinct(queue'[u]) /\ Rising(now', node', queue'[u], First(u)')
  <2>1. queue'[u] = queue[u] /\ \A m \in Listed(u) : node'[m] = node[m]
    BY <1>1, TypesOfQueue DEF Grown, FunOK
  <2> QED BY <2>1, OrderHere
<1>2. Distinct(queue'[t]) /\ Rising(now', node', queue'[t], First(t)')
  BY DEF Grown, First
<1> QED BY <1>1, <1>2 DEF OrderOK

LEMMA OrderShrinks ==
  ASSUME FunOK, OrderOK, NEW t \in Threads, NEW D, Shrunk(t, D), UNCHANGED now,
         \A u \in Threads : u # t => walk'[u] = walk[u],
         \A n \in Nodes : node'[n].time = node[n].time
  PROVE  OrderOK'
<1>1. ASSUME NEW u \in Threads, u # t
      PROVE  Distinct(queue'[u]) /\ Rising(now', node', queue'[u], First(u)')
  <2>1. queue'[u] = queue[u] /\ Listed(u) \subseteq Nodes
    BY <1>1, TypesOfQueue DEF Shrunk
  <2> QED BY <1>1, <2>1, OrderHere
<1>2. Distinct(queue'[t]) /\ Rising(now', node', queue'[t], First(t)')
  <2>1. /\ queue'[t] \in Seq(Nodes) /\ Distinct(queue'[t]) /\ Rising(now, node, queue'[t], 1)
    BY DEF Shrunk
  <2>2. \A i \in DOMAIN queue'[t] : queue'[t][i] \in Nodes /\ i >= 1
    BY <2>1
  <2>3. First(t)' \in {1, 2}
    BY DEF First
  <2> QED BY <2>1, <2>2, <2>3 DEF Rising
<1> QED BY <1>1, <1>2 DEF OrderOK

\* Whose times are not far apart keep their order when the clock ticks.
LEMMA OrderTicks ==
  ASSUME FunOK, OrderOK, TimeOK, Tick PROVE OrderOK'
<1>1. UNCHANGED <<queue, node, walk>> /\ now' = Future(1) /\ now \in Times
  BY DEF Tick, mem, FunOK
<1>2. ASSUME NEW t \in Threads, NEW n \in Listed(t)
      PROVE  Rel(now', node[n].time) = Rel(now, node[n].time) - 1 /\ Rel(now, node[n].time) \in Int
  <2>1. node[n].time \in Times /\ Near(now, node[n].time)
    BY <1>2, TypesOfQueue, TypesOfNode DEF TimeOK, ThreadTime, AltTime
  <2>2. Rel(now, node[n].time) > -Half
    BY <2>1, Sizes DEF Near
  <2> QED BY <1>1, <2>1, <2>2, TickRel, RelIs
<1>3. ASSUME NEW t \in Threads
      PROVE  Distinct(queue[t]) /\ Rising(now', node, queue[t], First(t))
  <2>1. Distinct(queue[t]) /\ Rising(now, node, queue[t], First(t))
    BY DEF OrderOK
  <2> QED BY <1>2, <2>1, PlaceListed DEF Rising
<1> QED BY <1>1, <1>3 DEF OrderOK, First

\* The order of the queues.
LEMMA OrderStep ==
  ASSUME IInv, Form PROVE OrderOK'
<1>1. FunOK /\ OrderOK /\ TimeOK
  BY DEF IInv, MemInv
<1>2. \A n \in Nodes : node[n] \in NodeT
  BY <1>1 DEF FunOK
<1>3. \A t \in Threads : queue[t] # <<>> => Head(queue[t]) \in Nodes
  BY <1>1, TypesOfQueue
<1>4. \A t, u \in Threads : queue[t] # <<>> /\ t # u => Head(queue[t]) \notin Listed(u)
  <2>1. LinkOK
    BY DEF IInv, MemInv
  <2> QED BY <1>1, <2>1, TypesOfQueue DEF LinkOK, LinkAt
<1>5. \A t \in Threads : walk[t] \in WalkT
  BY <1>1 DEF FunOK
<1>101. ASSUME Tick PROVE OrderOK'
  BY <1>101, <1>1, OrderTicks
<1>102. ASSUME NEW p \in Sleepers, NEW t \in Threads, NEW x \in Times, NEW n \in Nodes, TimerWaits(p, t, x, n)
       PROVE  OrderOK'
  <2>1. walk[t].pc = "off"
    BY <1>102 DEF TimerWaits, Free
  <2> QED BY <1>102, <1>1, <2>1, OrderGrows DEF TimerWaits
<1>103. ASSUME NEW p \in Alts, NEW t \in Threads, NEW g \in Delays, TaltEnables(p, t, g)
       PROVE  OrderOK'
  BY <1>103, <1>1, OrderSame DEF TaltEnables, alt, Starts, mem, InCall, FunOK
<1>104. ASSUME NEW p \in Alts, NEW t \in Threads, NEW g \in Delays, TaltWritten(p, t, g)
       PROVE  OrderOK'
  BY <1>104, <1>1, OrderSame DEF TaltWritten, Starts, mem, InCall, FunOK
<1>105. ASSUME NEW p \in Alts, EnbReady(p) PROVE OrderOK'
  BY <1>105, <1>1, OrderSame DEF EnbReady, GoesOn, Enables, Set, Runs, mem, InCall, FunOK
<1>106. ASSUME NEW p \in Alts, EnbNext(p) PROVE OrderOK'
  BY <1>106, <1>1, OrderSame DEF EnbNext, EnbLater, EnbField, Enables, Runs, mem, InCall, FunOK
<1>107. ASSUME NEW p \in Alts, EnbLast(p) PROVE OrderOK'
  BY <1>107, <1>1, OrderSame DEF EnbLast, EnbLater, EnbField, Enables, Runs, mem, InCall, FunOK
<1>108. ASSUME NEW p \in Alts, DistFired(p) PROVE OrderOK'
  BY <1>108, <1>1, OrderSame DEF DistFired, Runs, Set, AltStep, mem, InCall, FunOK
<1>109. ASSUME NEW p \in Alts, DiscAlt(p) PROVE OrderOK'
  BY <1>109, <1>1, OrderSame DEF DiscAlt, alt, Discs, Runs, mem, InCall, FunOK
<1>110. ASSUME NEW p \in Alts, DiscWriter(p) PROVE OrderOK'
  BY <1>110, <1>1, OrderSame DEF DiscWriter, Discs, Runs, mem, InCall, FunOK
<1>111. ASSUME NEW p \in Alts, EndsNow(p) PROVE OrderOK'
  BY <1>111, <1>1, OrderSame DEF EndsNow, Ends, Runs, mem, InCall, FunOK
<1>112. ASSUME NEW p \in Alts, EndWaits(p) PROVE OrderOK'
  BY <1>112, <1>1, OrderSame DEF EndWaits, Ends, Runs, mem, InCall, FunOK
<1>113. ASSUME NEW p \in Alts, Select(p) PROVE OrderOK'
  BY <1>113, <1>1, OrderSame DEF Select, Runs, Set, AltStep, mem, alt, InCall, FunOK
<1>114. ASSUME NEW p \in Alts, Write(p) PROVE OrderOK'
  BY <1>114, <1>1, OrderSame DEF Write, Set, mem, where, alt, FunOK
<1>115. ASSUME NEW p \in Alts, TaltwtGoes(p) PROVE OrderOK'
  BY <1>115, <1>1, OrderSame DEF TaltwtGoes, Runs, GoesOn, mem, InCall, Set, FunOK
<1>116. ASSUME NEW p \in Alts, CasWaits(p) PROVE OrderOK'
  BY <1>116, <1>1, OrderSame DEF CasWaits, Runs, mem, InCall, FunOK
<1>117. ASSUME NEW p \in Alts, CasGoes(p) PROVE OrderOK'
  <2>1. on[p] \in Threads /\ UNCHANGED now /\ \A u \in Threads : u # on[p] => walk'[u] = walk[u]
    BY <1>117, <1>1, ConstFacts DEF CasGoes, FunOK
  <2>2. \A m \in Nodes : node'[m].time = node[m].time
    BY <1>117, <1>1, <1>2, <1>3, NodeReads DEF CasGoes, FunOK
  <2> QED BY <1>117, <1>1, <2>1, <2>2, OrderShrinks DEF CasGoes
<1>118. ASSUME NEW p \in Alts, DistHere(p) PROVE OrderOK'
  <2>1. on[p] \in Threads /\ UNCHANGED now /\ \A u \in Threads : u # on[p] => walk'[u] = walk[u]
    BY <1>118, <1>1, ConstFacts DEF DistHere, DistTakes, FunOK
  <2>2. \A m \in Nodes : node'[m].time = node[m].time
    BY <1>118, <1>1, <1>2, <1>3, NodeReads DEF DistHere, DistTakes, FunOK
  <2> QED BY <1>118, <1>1, <2>1, <2>2, OrderShrinks DEF DistHere, DistTakes
<1>119. ASSUME NEW p \in Alts, DistThere(p) PROVE OrderOK'
  BY <1>119, <1>1, OrderSame, <1>2, NodeReads DEF DistThere, DistTakes, Runs, InCall, FunOK
<1>120. ASSUME NEW p \in Alts, DistSets(p), NextGuard(p) PROVE OrderOK'
  BY <1>120, <1>1, OrderSame DEF DistSets, NextGuard, Runs, mem, Reached, InCall, FunOK
<1>121. ASSUME NEW p \in Alts, DistSets(p), LastGuard(p) PROVE OrderOK'
  BY <1>121, <1>1, OrderSame DEF DistSets, LastGuard, Runs, mem, Reached, InCall, FunOK
<1>122. ASSUME NEW p \in Alts, Releases(p), NextGuard(p) PROVE OrderOK'
  BY <1>122, <1>1, OrderSame DEF Releases, NextGuard, Runs, Release, InCall, FunOK
<1>123. ASSUME NEW p \in Alts, Releases(p), LastGuard(p) PROVE OrderOK'
  BY <1>123, <1>1, OrderSame DEF Releases, LastGuard, Runs, Release, InCall, FunOK
<1>124. ASSUME NEW p \in Alts, NEW n \in Nodes, TaltwtWaits(p, n) PROVE OrderOK'
  <2>1. on[p] \in Threads /\ walk[on[p]].pc = "off"
    BY <1>124, <1>1, ConstFacts DEF TaltwtWaits, Runs, InCall, Free, FunOK
  <2> QED BY <1>124, <1>1, <2>1, OrderGrows DEF TaltwtWaits
<1>125. ASSUME NEW p \in Alts, Written(p), NoneComes(p) PROVE OrderOK'
  BY <1>125, <1>1, OrderSame DEF Written, NoneComes, mem, where, Counted, FunOK
<1>126. ASSUME NEW p \in Alts, NEW u \in Threads, Written(p), GuardComes(p, u) PROVE OrderOK'
  BY <1>126, <1>1, OrderSame DEF Written, GuardComes, mem, Counted, FunOK
<1>127. ASSUME NEW p \in Alts, NEW u \in Threads, Written(p), EndComes(p, u) PROVE OrderOK'
  BY <1>127, <1>1, OrderSame DEF Written, EndComes, mem, Counted, FunOK
<1>128. ASSUME NEW t \in Threads, Check(t) PROVE OrderOK'
  BY <1>128, <1>1, OrderSame, <1>5, WalkReads DEF Check, mem, where, alt, Started, InCall, Set,
     FunOK, Free
<1>129. ASSUME NEW t \in Threads, EndWalk(t) PROVE OrderOK'
  BY <1>129, <1>1, OrderSame, <1>5, WalkReads DEF EndWalk, mem, where, alt, Walk, Set, FunOK
<1>130. ASSUME NEW t \in Threads, WalkAlt(t) PROVE OrderOK'
  <2>1. /\ UNCHANGED <<now, queue>> /\ queue[t] # <<>> /\ queue[t] \in Seq(Nodes)
        /\ node' = [node EXCEPT ![Head(queue[t])] = [node[Head(queue[t])] EXCEPT !.time = walk[t].now]]
        /\ walk' = [walk EXCEPT ![t] = [walk[t] EXCEPT !.pc = "swap"]]
    BY <1>130, TypesOfQueue, <1>1 DEF WalkAlt, Walk, Set, Expired
  <2>2. Distinct(queue[t]) /\ Rising(now, node, queue[t], First(t)) /\ First(t) \in {1, 2}
    BY <1>1 DEF OrderOK, First
  <2>3. ASSUME NEW u \in Threads
        PROVE  Distinct(queue'[u]) /\ Rising(now', node', queue'[u], First(u)')
    <3>1. CASE u = t
      <4>1. First(u)' = 2
        BY <1>1, <1>5, <2>1, <3>1, WalkReads DEF First, FunOK
      <4>2. \A i \in DOMAIN queue[t] : i >= 2 => node'[queue[t][i]] = node[queue[t][i]]
        <5>1. ASSUME NEW i \in DOMAIN queue[t], i >= 2 PROVE queue[t][i] # Head(queue[t])
          <6>1. 1 \in DOMAIN queue[t] /\ Head(queue[t]) = queue[t][1] /\ i # 1
            BY <2>1, <5>1
          <6> QED BY <2>2, <6>1 DEF Distinct
        <5>2. \A i \in DOMAIN queue[t] : queue[t][i] \in Nodes
          BY <1>1, PlaceListed
        <5> QED BY <1>1, <2>1, <5>1, <5>2 DEF FunOK
      <4>3. \A i \in DOMAIN queue[t] : i \in Nat
        BY <2>1
      <4>4. Rising(now, node', queue[t], 2)
        <5>1. Rising(now, node, queue[t], 2)
          BY <2>2, <4>3 DEF Rising
        <5> QED BY <4>2, <4>3, <5>1 DEF Rising
      <4> QED BY <2>1, <2>2, <3>1, <4>1, <4>4, Zenon
    <3>2. CASE u # t
      <4>1. walk'[u] = walk[u] /\ \A m \in Listed(u) : node'[m] = node[m]
        <5>1. Head(queue[t]) \notin Listed(u)
          BY <1>4, <2>1, <3>2
        <5> QED BY <1>1, <2>1, <3>2, <5>1, TypesOfQueue DEF FunOK
      <4> QED BY <1>1, <2>1, <4>1, OrderHere
    <3> QED BY <3>1, <3>2
  <2> QED BY <2>3 DEF OrderOK
<1>131. ASSUME NEW t \in Threads, WalkSwap(t) PROVE OrderOK'
  BY <1>131, <1>1, OrderSame, <1>2, <1>5, NodeReads, WalkReads DEF WalkSwap, Set, where, alt,
     FunOK
<1>132. ASSUME NEW t \in Threads, Sweeps(t) PROVE OrderOK'
  <2>1. t \in Threads /\ UNCHANGED now /\ \A u \in Threads : u # t => walk'[u] = walk[u]
    BY <1>132, <1>1, ConstFacts DEF Sweeps, Started, Set, FunOK
  <2>2. \A m \in Nodes : node'[m].time = node[m].time
    BY <1>132, <1>1, <1>2, <1>3, NodeReads DEF Sweeps, Started, Set, FunOK
  <2> QED BY <1>132, <1>1, <2>1, <2>2, OrderShrinks DEF Sweeps, Started, Set
<1>133. ASSUME NEW t \in Threads, WalkDead(t), Shrunk(t, {Head(queue[t])}) PROVE OrderOK'
  <2>1. t \in Threads /\ UNCHANGED now /\ \A u \in Threads : u # t => walk'[u] = walk[u]
    BY <1>133, <1>1, ConstFacts DEF WalkDead, Set, FunOK
  <2>2. \A m \in Nodes : node'[m].time = node[m].time
    BY <1>133, <1>1, <1>2, <1>3, NodeReads DEF WalkDead, Set, FunOK
  <2> QED BY <1>133, <1>1, <2>1, <2>2, OrderShrinks DEF WalkDead, Set
<1>134. ASSUME NEW t \in Threads, WalkClean(t), Shrunk(t, {Head(queue[t])}) PROVE OrderOK'
  <2>1. t \in Threads /\ UNCHANGED now /\ \A u \in Threads : u # t => walk'[u] = walk[u]
    BY <1>134, <1>1, ConstFacts DEF WalkClean, Walk, Set, FunOK
  <2>2. \A m \in Nodes : node'[m].time = node[m].time
    BY <1>134, <1>1, <1>2, <1>3, NodeReads DEF WalkClean, Walk, Set, FunOK
  <2> QED BY <1>134, <1>1, <2>1, <2>2, OrderShrinks DEF WalkClean, Walk, Set
<1>135. ASSUME NEW t \in Threads, NEW n \in Nodes, NEW p \in Sleepers, NEW u \in Threads, SleeperWakes(t, n, p, u)
       PROVE  OrderOK'
  <2>1. t \in Threads /\ UNCHANGED now /\ \A v \in Threads : v # t => walk'[v] = walk[v]
    BY <1>135, <1>1, ConstFacts DEF SleeperWakes, FunOK
  <2>2. \A m \in Nodes : node'[m].time = node[m].time
    BY <1>135, <1>1, <1>2, <1>3, NodeReads DEF SleeperWakes, FunOK
  <2> QED BY <1>135, <1>1, <2>1, <2>2, OrderShrinks DEF SleeperWakes
<1>136. ASSUME NEW t \in Threads, NEW p \in Alts, Timed(t, p), NoneComes(p) PROVE OrderOK'
  BY <1>136, <1>1, OrderSame, <1>5, WalkReads DEF Timed, NoneComes, mem, where, Counted, FunOK
<1>137. ASSUME NEW t \in Threads, NEW p \in Alts, NEW u \in Threads, Timed(t, p), GuardComes(p, u)
       PROVE  OrderOK'
  BY <1>137, <1>1, OrderSame, <1>5, WalkReads DEF Timed, GuardComes, mem, Counted, FunOK
<1>138. ASSUME NEW t \in Threads, NEW p \in Alts, NEW u \in Threads, Timed(t, p), EndComes(p, u)
       PROVE  OrderOK'
  BY <1>138, <1>1, OrderSame, <1>5, WalkReads DEF Timed, EndComes, mem, Counted, FunOK
<1>139. ASSUME UNCHANGED vars PROVE OrderOK'
  BY <1>139, <1>1, OrderSame DEF vars, mem, where, alt, FunOK
<1> QED BY <1>101, <1>102, <1>103, <1>104, <1>105, <1>106, <1>107, <1>108, <1>109, <1>110,
   <1>111, <1>112, <1>113, <1>114, <1>115, <1>116, <1>117, <1>118, <1>119, <1>120, <1>121,
   <1>122, <1>123, <1>124, <1>125, <1>126, <1>127, <1>128, <1>129, <1>130, <1>131, <1>132,
   <1>133, <1>134, <1>135, <1>136, <1>137, <1>138, <1>139 DEF Form, AltForm, WalkForm

\* The nodes that ALTs refer to.
LEMMA RefStep ==
  ASSUME IInv, Form PROVE RefOK'
<1>1. FunOK /\ (\A q \in Alts : RefAt(q))
  BY DEF IInv, MemInv, RefOK
<1>2. /\ Sleepers \cap Alts = {} /\ Alts \subseteq Procs
      /\ None \notin Procs /\ None \notin Nodes /\ "set" \notin Nodes /\ "notset" \notin Nodes
  BY ConstFacts
<1>3. \A t \in Threads : queue[t] # <<>> => Head(queue[t]) \in Nodes /\ LinkAt(t, Head(queue[t]))
  BY <1>1, TypesOfQueue DEF IInv, MemInv, LinkOK
<1>4. \A n \in Nodes : node[n] \in NodeT
  BY <1>1 DEF FunOK
<1>101. ASSUME Tick PROVE RefOK'
  <2> SUFFICES ASSUME NEW q \in Alts PROVE RefAt(q)'
    BY DEF RefOK
  <2> QED BY <1>101, <1>1, <1>2, <1>3 DEF Tick, mem, where, alt, RefAt, FunOK, RefPC
<1>102. ASSUME NEW p \in Sleepers, NEW t \in Threads, NEW x \in Times, NEW n \in Nodes, TimerWaits(p, t, x, n)
       PROVE  RefOK'
  <2> SUFFICES ASSUME NEW q \in Alts PROVE RefAt(q)'
    BY DEF RefOK
  <2>1. free' \cup laundry' \subseteq free \cup laundry /\ n \in free \cup laundry /\ n \notin free' \cup laundry'
    BY <1>102 DEF TimerWaits, Grown, Washed
  <2>2. \A r \in Alts : tlink[r] # n /\ held[r] # n
    BY <1>1, <1>2, <2>1 DEF RefAt
  <2>3. /\ tlink[q] \in Nodes => node'[tlink[q]] = node[tlink[q]]
        /\ held[q] # None => held[q] \in Nodes /\ node'[held[q]] = node[held[q]]
    BY <1>102, <1>1, <2>2 DEF TimerWaits, Grown, FunOK
  <2>4. /\ pc'[q] = pc[q] /\ on'[q] = on[q] /\ k'[q] = k[q] /\ UNCHANGED <<tlink, held>>
    BY <1>102, <1>1, <1>2 DEF TimerWaits, alt, FunOK
  <2> QED BY <1>1, <2>1, <2>3, <2>4 DEF RefAt
<1>103. ASSUME NEW p \in Alts, NEW t \in Threads, NEW g \in Delays, TaltEnables(p, t, g)
       PROVE  RefOK'
  <2> SUFFICES ASSUME NEW q \in Alts PROVE RefAt(q)'
    BY DEF RefOK
  <2> QED BY <1>103, <1>1, <1>2, <1>3 DEF TaltEnables, alt, Starts, mem, InCall, RefAt, FunOK,
     RefPC
<1>104. ASSUME NEW p \in Alts, NEW t \in Threads, NEW g \in Delays, TaltWritten(p, t, g)
       PROVE  RefOK'
  <2> SUFFICES ASSUME NEW q \in Alts PROVE RefAt(q)'
    BY DEF RefOK
  <2> QED BY <1>104, <1>1, <1>2, <1>3 DEF TaltWritten, Starts, mem, InCall, RefAt, FunOK, RefPC
<1>105. ASSUME NEW p \in Alts, EnbReady(p) PROVE RefOK'
  <2> SUFFICES ASSUME NEW q \in Alts PROVE RefAt(q)'
    BY DEF RefOK
  <2> QED BY <1>105, <1>1, <1>2, <1>3 DEF EnbReady, GoesOn, Enables, Set, Runs, mem, InCall, RefAt,
     FunOK, RefPC
<1>106. ASSUME NEW p \in Alts, EnbNext(p) PROVE RefOK'
  <2> SUFFICES ASSUME NEW q \in Alts PROVE RefAt(q)'
    BY DEF RefOK
  <2> QED BY <1>106, <1>1, <1>2, <1>3 DEF EnbNext, EnbLater, EnbField, Enables, Runs, mem, InCall,
     RefAt, FunOK, RefPC
<1>107. ASSUME NEW p \in Alts, EnbLast(p) PROVE RefOK'
  <2> SUFFICES ASSUME NEW q \in Alts PROVE RefAt(q)'
    BY DEF RefOK
  <2> QED BY <1>107, <1>1, <1>2, <1>3 DEF EnbLast, EnbLater, EnbField, Enables, Runs, mem, InCall,
     RefAt, FunOK, RefPC
<1>108. ASSUME NEW p \in Alts, DistFired(p) PROVE RefOK'
  <2> SUFFICES ASSUME NEW q \in Alts PROVE RefAt(q)'
    BY DEF RefOK
  <2> QED BY <1>108, <1>1, <1>2, <1>3 DEF DistFired, Runs, Set, AltStep, mem, InCall, RefAt, FunOK,
     RefPC
<1>109. ASSUME NEW p \in Alts, DiscAlt(p) PROVE RefOK'
  <2> SUFFICES ASSUME NEW q \in Alts PROVE RefAt(q)'
    BY DEF RefOK
  <2> QED BY <1>109, <1>1, <1>2, <1>3 DEF DiscAlt, alt, Discs, Runs, mem, InCall, RefAt, FunOK,
     RefPC
<1>110. ASSUME NEW p \in Alts, DiscWriter(p) PROVE RefOK'
  <2> SUFFICES ASSUME NEW q \in Alts PROVE RefAt(q)'
    BY DEF RefOK
  <2> QED BY <1>110, <1>1, <1>2, <1>3 DEF DiscWriter, Discs, Runs, mem, InCall, RefAt, FunOK, RefPC
<1>111. ASSUME NEW p \in Alts, EndsNow(p) PROVE RefOK'
  <2> SUFFICES ASSUME NEW q \in Alts PROVE RefAt(q)'
    BY DEF RefOK
  <2> QED BY <1>111, <1>1, <1>2, <1>3 DEF EndsNow, Ends, Runs, mem, InCall, RefAt, FunOK, RefPC
<1>112. ASSUME NEW p \in Alts, EndWaits(p) PROVE RefOK'
  <2> SUFFICES ASSUME NEW q \in Alts PROVE RefAt(q)'
    BY DEF RefOK
  <2> QED BY <1>112, <1>1, <1>2, <1>3 DEF EndWaits, Ends, Runs, mem, InCall, RefAt, FunOK, RefPC
<1>113. ASSUME NEW p \in Alts, Select(p) PROVE RefOK'
  <2> SUFFICES ASSUME NEW q \in Alts PROVE RefAt(q)'
    BY DEF RefOK
  <2> QED BY <1>113, <1>1, <1>2, <1>3 DEF Select, Runs, Set, AltStep, mem, alt, InCall, RefAt,
     FunOK, RefPC
<1>114. ASSUME NEW p \in Alts, Write(p) PROVE RefOK'
  <2> SUFFICES ASSUME NEW q \in Alts PROVE RefAt(q)'
    BY DEF RefOK
  <2> QED BY <1>114, <1>1, <1>2, <1>3 DEF Write, Set, mem, where, alt, RefAt, FunOK, RefPC
<1>115. ASSUME NEW p \in Alts, TaltwtGoes(p) PROVE RefOK'
  <2> SUFFICES ASSUME NEW q \in Alts PROVE RefAt(q)'
    BY DEF RefOK
  <2> QED BY <1>115, <1>1, <1>2, <1>3 DEF TaltwtGoes, Runs, GoesOn, mem, InCall, Set, RefAt, FunOK,
     RefPC
<1>116. ASSUME NEW p \in Alts, CasWaits(p) PROVE RefOK'
  <2> SUFFICES ASSUME NEW q \in Alts PROVE RefAt(q)'
    BY DEF RefOK
  <2> QED BY <1>116, <1>1, <1>2, <1>3 DEF CasWaits, Runs, mem, InCall, RefAt, FunOK, RefPC
<1>117. ASSUME NEW p \in Alts, CasGoes(p) PROVE RefOK'
  <2> SUFFICES ASSUME NEW q \in Alts PROVE RefAt(q)'
    BY DEF RefOK
  <2> QED BY <1>117, <1>1, <1>2, <1>3, <1>4, NodeReads DEF CasGoes, Shrunk, Runs, GoesOn, InCall,
     Set, RefAt, FunOK, RefPC
<1>118. ASSUME NEW p \in Alts, DistHere(p) PROVE RefOK'
  <2> SUFFICES ASSUME NEW q \in Alts PROVE RefAt(q)'
    BY DEF RefOK
  <2> QED BY <1>118, <1>1, <1>2, <1>3, <1>4, NodeReads DEF DistHere, Shrunk, DistTakes, Runs,
     InCall, RefAt, FunOK, RefPC
<1>119. ASSUME NEW p \in Alts, DistThere(p) PROVE RefOK'
  <2> SUFFICES ASSUME NEW q \in Alts PROVE RefAt(q)'
    BY DEF RefOK
  <2> QED BY <1>119, <1>1, <1>2, <1>3, <1>4, NodeReads DEF DistThere, DistTakes, Runs, InCall,
     RefAt, FunOK, RefPC
<1>120. ASSUME NEW p \in Alts, DistSets(p), NextGuard(p) PROVE RefOK'
  <2> SUFFICES ASSUME NEW q \in Alts PROVE RefAt(q)'
    BY DEF RefOK
  <2> QED BY <1>120, <1>1, <1>2, <1>3 DEF DistSets, NextGuard, Runs, mem, Reached, InCall, RefAt,
     FunOK, RefPC
<1>121. ASSUME NEW p \in Alts, DistSets(p), LastGuard(p) PROVE RefOK'
  <2> SUFFICES ASSUME NEW q \in Alts PROVE RefAt(q)'
    BY DEF RefOK
  <2> QED BY <1>121, <1>1, <1>2, <1>3 DEF DistSets, LastGuard, Runs, mem, Reached, InCall, RefAt,
     FunOK, RefPC
<1>122. ASSUME NEW p \in Alts, Releases(p), NextGuard(p) PROVE RefOK'
  <2> SUFFICES ASSUME NEW q \in Alts PROVE RefAt(q)'
    BY DEF RefOK
  <2> QED BY <1>122, <1>1, <1>2, <1>3 DEF Releases, NextGuard, Runs, Release, InCall, RefAt, FunOK,
     RefPC
<1>123. ASSUME NEW p \in Alts, Releases(p), LastGuard(p) PROVE RefOK'
  <2> SUFFICES ASSUME NEW q \in Alts PROVE RefAt(q)'
    BY DEF RefOK
  <2> QED BY <1>123, <1>1, <1>2, <1>3 DEF Releases, LastGuard, Runs, Release, InCall, RefAt, FunOK,
     RefPC
<1>124. ASSUME NEW p \in Alts, NEW n \in Nodes, TaltwtWaits(p, n) PROVE RefOK'
  <2> SUFFICES ASSUME NEW q \in Alts PROVE RefAt(q)'
    BY DEF RefOK
  <2>1. free' \cup laundry' \subseteq free \cup laundry /\ n \in free \cup laundry /\ n \notin free' \cup laundry'
    BY <1>124 DEF TaltwtWaits, Grown, Washed
  <2>2. \A r \in Alts : tlink[r] # n /\ held[r] # n
    BY <1>1, <1>2, <2>1 DEF RefAt
  <2>3. /\ tlink[q] \in Nodes => node'[tlink[q]] = node[tlink[q]]
        /\ held[q] # None => held[q] \in Nodes /\ node'[held[q]] = node[held[q]]
    BY <1>124, <1>1, <2>2 DEF TaltwtWaits, Grown, FunOK
  <2>4. UNCHANGED <<held, on, k>> /\ pc[p] = "taltwt" /\ pc'[p] = "cas" /\ tlink'[p] = n
        /\ \A r \in Alts : r # p => tlink'[r] = tlink[r] /\ pc'[r] = pc[r]
    BY <1>124, <1>1, <1>2 DEF TaltwtWaits, Runs, FunOK
  <2>5. CASE q # p
    BY <1>1, <2>1, <2>2, <2>3, <2>4, <2>5 DEF RefAt
  <2>6. CASE q = p
    <3>1. k[p] = Guards
      BY <2>4 DEF IInv, TimeOK, ThreadTime, AltTime, EnableOK
    <3>2. node'[n].wptr = p /\ node'[n].owner = on[p]
      <4>1. node' = [node EXCEPT ![n] = [wptr |-> p, time |-> field[p], dirty |-> p \in Alts, owner |-> on[p]]]
        BY <1>124 DEF TaltwtWaits, Grown
      <4> QED BY <1>1, <4>1 DEF FunOK
    <3>3. held[p] = None
      BY <1>1, <2>4 DEF RefAt
    <3> QED BY <1>1, <1>2, <2>1, <2>2, <2>4, <2>6, <3>1, <3>2, <3>3 DEF RefAt, RefPC
  <2> QED BY <2>5, <2>6
<1>125. ASSUME NEW p \in Alts, Written(p), NoneComes(p) PROVE RefOK'
  <2> SUFFICES ASSUME NEW q \in Alts PROVE RefAt(q)'
    BY DEF RefOK
  <2> QED BY <1>125, <1>1, <1>2, <1>3 DEF Written, NoneComes, mem, where, Counted, RefAt, FunOK,
     RefPC
<1>126. ASSUME NEW p \in Alts, NEW u \in Threads, Written(p), GuardComes(p, u) PROVE RefOK'
  <2> SUFFICES ASSUME NEW q \in Alts PROVE RefAt(q)'
    BY DEF RefOK
  <2> QED BY <1>126, <1>1, <1>2, <1>3 DEF Written, GuardComes, mem, Counted, RefAt, FunOK, RefPC
<1>127. ASSUME NEW p \in Alts, NEW u \in Threads, Written(p), EndComes(p, u) PROVE RefOK'
  <2> SUFFICES ASSUME NEW q \in Alts PROVE RefAt(q)'
    BY DEF RefOK
  <2> QED BY <1>127, <1>1, <1>2, <1>3 DEF Written, EndComes, mem, Counted, RefAt, FunOK, RefPC
<1>128. ASSUME NEW t \in Threads, Check(t) PROVE RefOK'
  <2> SUFFICES ASSUME NEW q \in Alts PROVE RefAt(q)'
    BY DEF RefOK
  <2> QED BY <1>128, <1>1, <1>2, <1>3 DEF Check, mem, where, alt, Started, InCall, Set, RefAt,
     FunOK, RefPC
<1>129. ASSUME NEW t \in Threads, EndWalk(t) PROVE RefOK'
  <2> SUFFICES ASSUME NEW q \in Alts PROVE RefAt(q)'
    BY DEF RefOK
  <2> QED BY <1>129, <1>1, <1>2, <1>3 DEF EndWalk, mem, where, alt, Walk, Set, RefAt, FunOK, RefPC
<1>130. ASSUME NEW t \in Threads, WalkAlt(t) PROVE RefOK'
  <2> SUFFICES ASSUME NEW q \in Alts PROVE RefAt(q)'
    BY DEF RefOK
  <2> QED BY <1>130, <1>1, <1>2, <1>3, <1>4, NodeReads DEF WalkAlt, Set, where, alt, Walk, RefAt,
     FunOK, RefPC
<1>131. ASSUME NEW t \in Threads, WalkSwap(t) PROVE RefOK'
  <2> SUFFICES ASSUME NEW q \in Alts PROVE RefAt(q)'
    BY DEF RefOK
  <2>1. queue[t] # <<>> /\ \A r \in Alts : pc[r] = "cas" => on[r] # t
    BY <1>131, <1>2 DEF WalkSwap, IInv, MemInv, WalkOK, WalkAt, CallOK, CallAt, InCall
  <2>2. /\ node' = [node EXCEPT ![Head(queue[t])] = [node[Head(queue[t])] EXCEPT !.wptr = None]]
        /\ UNCHANGED <<free, laundry, pc, on, tlink, held, k>>
    BY <1>131 DEF WalkSwap, Set, where, alt
  <2>3. \A n \in Nodes : /\ node'[n].owner = node[n].owner /\ node'[n].dirty = node[n].dirty
                         /\ n # Head(queue[t]) => node'[n].wptr = node[n].wptr
                         /\ n = Head(queue[t]) => node'[n].wptr = None
    BY <1>1, <1>4, <2>2, NodeReads DEF FunOK
  <2>4. tlink[q] \in Nodes /\ pc[q] = "cas" => tlink[q] # Head(queue[t])
    BY <1>1, <1>3, <2>1 DEF RefAt, LinkAt
  <2>5. held[q] # None => held[q] \in Nodes
    BY <1>1 DEF FunOK
  <2> QED BY <1>1, <2>2, <2>3, <2>4, <2>5 DEF RefAt
<1>132. ASSUME NEW t \in Threads, Sweeps(t) PROVE RefOK'
  <2> SUFFICES ASSUME NEW q \in Alts PROVE RefAt(q)'
    BY DEF RefOK
  <2> QED BY <1>132, <1>1, <1>2, <1>3, <1>4, NodeReads DEF Sweeps, Shrunk, where, alt, Started,
     InCall, Set, RefAt, FunOK, RefPC
<1>133. ASSUME NEW t \in Threads, WalkDead(t), Shrunk(t, {Head(queue[t])}) PROVE RefOK'
  <2> SUFFICES ASSUME NEW q \in Alts PROVE RefAt(q)'
    BY DEF RefOK
  <2> QED BY <1>133, <1>1, <1>2, <1>3, <1>4, NodeReads DEF WalkDead, Shrunk, Set, where, alt,
     RefAt, FunOK, RefPC
<1>134. ASSUME NEW t \in Threads, WalkClean(t), Shrunk(t, {Head(queue[t])}) PROVE RefOK'
  <2> SUFFICES ASSUME NEW q \in Alts PROVE RefAt(q)'
    BY DEF RefOK
  <2> QED BY <1>134, <1>1, <1>2, <1>3, <1>4, NodeReads DEF WalkClean, Shrunk, Set, where, alt,
     Walk, RefAt, FunOK, RefPC
<1>135. ASSUME NEW t \in Threads, NEW n \in Nodes, NEW p \in Sleepers, NEW u \in Threads, SleeperWakes(t, n, p, u)
       PROVE  RefOK'
  <2> SUFFICES ASSUME NEW q \in Alts PROVE RefAt(q)'
    BY DEF RefOK
  <2>1. \A r \in Alts : tlink[r] # n /\ held[r] # n
    BY <1>135, <1>2, <1>3 DEF SleeperWakes, Expired, LinkAt, Procs
  <2>2. /\ pc'[q] = pc[q] /\ on'[q] = on[q] /\ UNCHANGED <<node, laundry, tlink, held, k>>
        /\ free' = free \cup {n}
    BY <1>135, <1>1, <1>2 DEF SleeperWakes, alt, FunOK
  <2> QED BY <1>1, <2>1, <2>2 DEF RefAt
<1>136. ASSUME NEW t \in Threads, NEW p \in Alts, Timed(t, p), NoneComes(p) PROVE RefOK'
  <2> SUFFICES ASSUME NEW q \in Alts PROVE RefAt(q)'
    BY DEF RefOK
  <2> QED BY <1>136, <1>1, <1>2, <1>3 DEF Timed, NoneComes, mem, where, Counted, RefAt, FunOK,
     RefPC
<1>137. ASSUME NEW t \in Threads, NEW p \in Alts, NEW u \in Threads, Timed(t, p), GuardComes(p, u)
       PROVE  RefOK'
  <2> SUFFICES ASSUME NEW q \in Alts PROVE RefAt(q)'
    BY DEF RefOK
  <2> QED BY <1>137, <1>1, <1>2, <1>3 DEF Timed, GuardComes, mem, Counted, RefAt, FunOK, RefPC
<1>138. ASSUME NEW t \in Threads, NEW p \in Alts, NEW u \in Threads, Timed(t, p), EndComes(p, u)
       PROVE  RefOK'
  <2> SUFFICES ASSUME NEW q \in Alts PROVE RefAt(q)'
    BY DEF RefOK
  <2> QED BY <1>138, <1>1, <1>2, <1>3 DEF Timed, EndComes, mem, Counted, RefAt, FunOK, RefPC
<1>139. ASSUME UNCHANGED vars PROVE RefOK'
  BY <1>139, <1>1 DEF vars, mem, where, alt, RefOK, RefAt
<1> QED BY <1>101, <1>102, <1>103, <1>104, <1>105, <1>106, <1>107, <1>108, <1>109, <1>110,
   <1>111, <1>112, <1>113, <1>114, <1>115, <1>116, <1>117, <1>118, <1>119, <1>120, <1>121,
   <1>122, <1>123, <1>124, <1>125, <1>126, <1>127, <1>128, <1>129, <1>130, <1>131, <1>132,
   <1>133, <1>134, <1>135, <1>136, <1>137, <1>138, <1>139 DEF Form, AltForm, WalkForm

\* A thread in the middle of a call.
LEMMA CallStep ==
  ASSUME IInv, Form PROVE CallOK'
<1>1. FunOK /\ (\A q \in Procs : CallAt(q))
  BY DEF IInv, MemInv, CallOK
<1>2. /\ Sleepers \cap Alts = {} /\ Alts \subseteq Procs /\ Sleepers \subseteq Procs
  BY ConstFacts
<1>3. \A t \in Threads : walk[t] \in WalkT
  BY <1>1 DEF FunOK
<1>101. ASSUME Tick PROVE CallOK'
  <2> SUFFICES ASSUME NEW q \in Procs PROVE CallAt(q)'
    BY DEF CallOK
  <2> QED BY <1>101, <1>1, <1>2 DEF Tick, mem, where, alt, Free, InCall, CallAt, FunOK
<1>102. ASSUME NEW p \in Sleepers, NEW t \in Threads, NEW x \in Times, NEW n \in Nodes, TimerWaits(p, t, x, n)
       PROVE  CallOK'
  <2> SUFFICES ASSUME NEW q \in Procs PROVE CallAt(q)'
    BY DEF CallOK
  <2> QED BY <1>102, <1>1, <1>2 DEF TimerWaits, Free, alt, InCall, CallAt, FunOK
<1>103. ASSUME NEW p \in Alts, NEW t \in Threads, NEW g \in Delays, TaltEnables(p, t, g)
       PROVE  CallOK'
  <2> SUFFICES ASSUME NEW q \in Procs PROVE CallAt(q)'
    BY DEF CallOK
  <2> QED BY <1>103, <1>1, <1>2 DEF TaltEnables, alt, Starts, Free, mem, InCall, CallAt, FunOK
<1>104. ASSUME NEW p \in Alts, NEW t \in Threads, NEW g \in Delays, TaltWritten(p, t, g)
       PROVE  CallOK'
  <2> SUFFICES ASSUME NEW q \in Procs PROVE CallAt(q)'
    BY DEF CallOK
  <2> QED BY <1>104, <1>1, <1>2 DEF TaltWritten, Starts, Free, mem, InCall, CallAt, FunOK
<1>105. ASSUME NEW p \in Alts, EnbReady(p) PROVE CallOK'
  <2> SUFFICES ASSUME NEW q \in Procs PROVE CallAt(q)'
    BY DEF CallOK
  <2> QED BY <1>105, <1>1, <1>2 DEF EnbReady, GoesOn, Enables, Set, Runs, mem, Free, InCall,
     CallAt, FunOK
<1>106. ASSUME NEW p \in Alts, EnbNext(p) PROVE CallOK'
  <2> SUFFICES ASSUME NEW q \in Procs PROVE CallAt(q)'
    BY DEF CallOK
  <2> QED BY <1>106, <1>1, <1>2 DEF EnbNext, EnbLater, EnbField, Enables, Runs, mem, Free, InCall,
     CallAt, FunOK
<1>107. ASSUME NEW p \in Alts, EnbLast(p) PROVE CallOK'
  <2> SUFFICES ASSUME NEW q \in Procs PROVE CallAt(q)'
    BY DEF CallOK
  <2> QED BY <1>107, <1>1, <1>2 DEF EnbLast, EnbLater, EnbField, Enables, Runs, mem, Free, InCall,
     CallAt, FunOK
<1>108. ASSUME NEW p \in Alts, DistFired(p) PROVE CallOK'
  <2> SUFFICES ASSUME NEW q \in Procs PROVE CallAt(q)'
    BY DEF CallOK
  <2> QED BY <1>108, <1>1, <1>2 DEF DistFired, Runs, Set, AltStep, mem, Free, InCall, CallAt, FunOK
<1>109. ASSUME NEW p \in Alts, DiscAlt(p) PROVE CallOK'
  <2> SUFFICES ASSUME NEW q \in Procs PROVE CallAt(q)'
    BY DEF CallOK
  <2> QED BY <1>109, <1>1, <1>2 DEF DiscAlt, alt, Discs, Runs, mem, Free, InCall, CallAt, FunOK
<1>110. ASSUME NEW p \in Alts, DiscWriter(p) PROVE CallOK'
  <2> SUFFICES ASSUME NEW q \in Procs PROVE CallAt(q)'
    BY DEF CallOK
  <2> QED BY <1>110, <1>1, <1>2 DEF DiscWriter, Discs, Runs, mem, Free, InCall, CallAt, FunOK
<1>111. ASSUME NEW p \in Alts, EndsNow(p) PROVE CallOK'
  <2> SUFFICES ASSUME NEW q \in Procs PROVE CallAt(q)'
    BY DEF CallOK
  <2> QED BY <1>111, <1>1, <1>2 DEF EndsNow, Ends, Runs, mem, Free, InCall, CallAt, FunOK
<1>112. ASSUME NEW p \in Alts, EndWaits(p) PROVE CallOK'
  <2> SUFFICES ASSUME NEW q \in Procs PROVE CallAt(q)'
    BY DEF CallOK
  <2> QED BY <1>112, <1>1, <1>2 DEF EndWaits, Ends, Runs, mem, Free, InCall, CallAt, FunOK
<1>113. ASSUME NEW p \in Alts, Select(p) PROVE CallOK'
  <2> SUFFICES ASSUME NEW q \in Procs PROVE CallAt(q)'
    BY DEF CallOK
  <2> QED BY <1>113, <1>1, <1>2 DEF Select, Runs, Set, AltStep, mem, alt, Free, InCall, CallAt,
     FunOK
<1>114. ASSUME NEW p \in Alts, Write(p) PROVE CallOK'
  <2> SUFFICES ASSUME NEW q \in Procs PROVE CallAt(q)'
    BY DEF CallOK
  <2> QED BY <1>114, <1>1, <1>2 DEF Write, Set, mem, where, alt, Free, InCall, CallAt, FunOK
<1>115. ASSUME NEW p \in Alts, TaltwtGoes(p) PROVE CallOK'
  <2> SUFFICES ASSUME NEW q \in Procs PROVE CallAt(q)'
    BY DEF CallOK
  <2> QED BY <1>115, <1>1, <1>2 DEF TaltwtGoes, Runs, GoesOn, mem, Free, InCall, Set, CallAt, FunOK
<1>116. ASSUME NEW p \in Alts, CasWaits(p) PROVE CallOK'
  <2> SUFFICES ASSUME NEW q \in Procs PROVE CallAt(q)'
    BY DEF CallOK
  <2> QED BY <1>116, <1>1, <1>2 DEF CasWaits, Runs, mem, Free, InCall, CallAt, FunOK
<1>117. ASSUME NEW p \in Alts, CasGoes(p) PROVE CallOK'
  <2> SUFFICES ASSUME NEW q \in Procs PROVE CallAt(q)'
    BY DEF CallOK
  <2> QED BY <1>117, <1>1, <1>2 DEF CasGoes, Runs, GoesOn, Free, InCall, Set, CallAt, FunOK
<1>118. ASSUME NEW p \in Alts, DistHere(p) PROVE CallOK'
  <2> SUFFICES ASSUME NEW q \in Procs PROVE CallAt(q)'
    BY DEF CallOK
  <2> QED BY <1>118, <1>1, <1>2 DEF DistHere, DistTakes, Runs, Free, InCall, CallAt, FunOK
<1>119. ASSUME NEW p \in Alts, DistThere(p) PROVE CallOK'
  <2> SUFFICES ASSUME NEW q \in Procs PROVE CallAt(q)'
    BY DEF CallOK
  <2> QED BY <1>119, <1>1, <1>2 DEF DistThere, DistTakes, Runs, Free, InCall, CallAt, FunOK
<1>120. ASSUME NEW p \in Alts, DistSets(p), NextGuard(p) PROVE CallOK'
  <2> SUFFICES ASSUME NEW q \in Procs PROVE CallAt(q)'
    BY DEF CallOK
  <2> QED BY <1>120, <1>1, <1>2 DEF DistSets, NextGuard, Runs, mem, Reached, Free, InCall, CallAt,
     FunOK
<1>121. ASSUME NEW p \in Alts, DistSets(p), LastGuard(p) PROVE CallOK'
  <2> SUFFICES ASSUME NEW q \in Procs PROVE CallAt(q)'
    BY DEF CallOK
  <2> QED BY <1>121, <1>1, <1>2 DEF DistSets, LastGuard, Runs, mem, Reached, Free, InCall, CallAt,
     FunOK
<1>122. ASSUME NEW p \in Alts, Releases(p), NextGuard(p) PROVE CallOK'
  <2> SUFFICES ASSUME NEW q \in Procs PROVE CallAt(q)'
    BY DEF CallOK
  <2> QED BY <1>122, <1>1, <1>2 DEF Releases, NextGuard, Runs, Release, Free, InCall, CallAt, FunOK
<1>123. ASSUME NEW p \in Alts, Releases(p), LastGuard(p) PROVE CallOK'
  <2> SUFFICES ASSUME NEW q \in Procs PROVE CallAt(q)'
    BY DEF CallOK
  <2> QED BY <1>123, <1>1, <1>2 DEF Releases, LastGuard, Runs, Release, Free, InCall, CallAt, FunOK
<1>124. ASSUME NEW p \in Alts, NEW n \in Nodes, TaltwtWaits(p, n) PROVE CallOK'
  <2> SUFFICES ASSUME NEW q \in Procs PROVE CallAt(q)'
    BY DEF CallOK
  <2> QED BY <1>124, <1>1, <1>2 DEF TaltwtWaits, Runs, Free, InCall, CallAt, FunOK
<1>125. ASSUME NEW p \in Alts, Written(p), NoneComes(p) PROVE CallOK'
  <2> SUFFICES ASSUME NEW q \in Procs PROVE CallAt(q)'
    BY DEF CallOK
  <2> QED BY <1>125, <1>1, <1>2 DEF Written, NoneComes, mem, where, Counted, Free, InCall, CallAt,
     FunOK
<1>126. ASSUME NEW p \in Alts, NEW u \in Threads, Written(p), GuardComes(p, u) PROVE CallOK'
  <2> SUFFICES ASSUME NEW q \in Procs PROVE CallAt(q)'
    BY DEF CallOK
  <2> QED BY <1>126, <1>1, <1>2 DEF Written, GuardComes, mem, Counted, Free, InCall, CallAt, FunOK
<1>127. ASSUME NEW p \in Alts, NEW u \in Threads, Written(p), EndComes(p, u) PROVE CallOK'
  <2> SUFFICES ASSUME NEW q \in Procs PROVE CallAt(q)'
    BY DEF CallOK
  <2> QED BY <1>127, <1>1, <1>2 DEF Written, EndComes, mem, Counted, Free, InCall, CallAt, FunOK
<1>128. ASSUME NEW t \in Threads, Check(t) PROVE CallOK'
  <2> SUFFICES ASSUME NEW q \in Procs PROVE CallAt(q)'
    BY DEF CallOK
  <2> QED BY <1>128, <1>1, <1>2, <1>3, WalkReads DEF Check, Free, mem, where, alt, Started, InCall,
     Set, CallAt, FunOK
<1>129. ASSUME NEW t \in Threads, EndWalk(t) PROVE CallOK'
  <2> SUFFICES ASSUME NEW q \in Procs PROVE CallAt(q)'
    BY DEF CallOK
  <2> QED BY <1>129, <1>1, <1>2, <1>3, WalkReads DEF EndWalk, mem, where, alt, Walk, Set, Free,
     InCall, CallAt, FunOK
<1>130. ASSUME NEW t \in Threads, WalkAlt(t) PROVE CallOK'
  <2> SUFFICES ASSUME NEW q \in Procs PROVE CallAt(q)'
    BY DEF CallOK
  <2> QED BY <1>130, <1>1, <1>2, <1>3, WalkReads DEF WalkAlt, Set, where, alt, Walk, Free, InCall,
     Expired, CallAt, FunOK
<1>131. ASSUME NEW t \in Threads, WalkSwap(t) PROVE CallOK'
  <2> SUFFICES ASSUME NEW q \in Procs PROVE CallAt(q)'
    BY DEF CallOK
  <2> QED BY <1>131, <1>1, <1>2, <1>3, WalkReads DEF WalkSwap, Set, where, alt, Free, InCall,
     CallAt, FunOK
<1>132. ASSUME NEW t \in Threads, Sweeps(t) PROVE CallOK'
  <2> SUFFICES ASSUME NEW q \in Procs PROVE CallAt(q)'
    BY DEF CallOK
  <2> QED BY <1>132, <1>1, <1>2, <1>3, WalkReads DEF Sweeps, Free, where, alt, Started, InCall,
     Set, CallAt, FunOK
<1>133. ASSUME NEW t \in Threads, WalkDead(t), Shrunk(t, {Head(queue[t])}) PROVE CallOK'
  <2> SUFFICES ASSUME NEW q \in Procs PROVE CallAt(q)'
    BY DEF CallOK
  <2> QED BY <1>133, <1>1, <1>2, <1>3, WalkReads DEF WalkDead, Set, where, alt, Free, InCall,
     CallAt, FunOK
<1>134. ASSUME NEW t \in Threads, WalkClean(t), Shrunk(t, {Head(queue[t])}) PROVE CallOK'
  <2> SUFFICES ASSUME NEW q \in Procs PROVE CallAt(q)'
    BY DEF CallOK
  <2> QED BY <1>134, <1>1, <1>2, <1>3, WalkReads DEF WalkClean, Set, where, alt, Walk, Free,
     InCall, CallAt, FunOK
<1>135. ASSUME NEW t \in Threads, NEW n \in Nodes, NEW p \in Sleepers, NEW u \in Threads, SleeperWakes(t, n, p, u)
       PROVE  CallOK'
  <2> SUFFICES ASSUME NEW q \in Procs PROVE CallAt(q)'
    BY DEF CallOK
  <2> QED BY <1>135, <1>1, <1>2 DEF SleeperWakes, alt, Free, InCall, CallAt, FunOK
<1>136. ASSUME NEW t \in Threads, NEW p \in Alts, Timed(t, p), NoneComes(p) PROVE CallOK'
  <2> SUFFICES ASSUME NEW q \in Procs PROVE CallAt(q)'
    BY DEF CallOK
  <2> QED BY <1>136, <1>1, <1>2, <1>3, WalkReads DEF Timed, NoneComes, mem, Triggers, where,
     Counted, Free, InCall, CallAt, FunOK
<1>137. ASSUME NEW t \in Threads, NEW p \in Alts, NEW u \in Threads, Timed(t, p), GuardComes(p, u)
       PROVE  CallOK'
  <2> SUFFICES ASSUME NEW q \in Procs PROVE CallAt(q)'
    BY DEF CallOK
  <2> QED BY <1>137, <1>1, <1>2, <1>3, WalkReads DEF Timed, GuardComes, mem, Triggers, Counted,
     Free, InCall, CallAt, FunOK
<1>138. ASSUME NEW t \in Threads, NEW p \in Alts, NEW u \in Threads, Timed(t, p), EndComes(p, u)
       PROVE  CallOK'
  <2> SUFFICES ASSUME NEW q \in Procs PROVE CallAt(q)'
    BY DEF CallOK
  <2> QED BY <1>138, <1>1, <1>2, <1>3, WalkReads DEF Timed, EndComes, mem, Triggers, Counted, Free,
     InCall, CallAt, FunOK
<1>139. ASSUME UNCHANGED vars PROVE CallOK'
  BY <1>139, <1>1 DEF vars, mem, where, alt, CallOK, CallAt
<1> QED BY <1>101, <1>102, <1>103, <1>104, <1>105, <1>106, <1>107, <1>108, <1>109, <1>110,
   <1>111, <1>112, <1>113, <1>114, <1>115, <1>116, <1>117, <1>118, <1>119, <1>120, <1>121,
   <1>122, <1>123, <1>124, <1>125, <1>126, <1>127, <1>128, <1>129, <1>130, <1>131, <1>132,
   <1>133, <1>134, <1>135, <1>136, <1>137, <1>138, <1>139 DEF Form, AltForm, WalkForm

\* The node in the hands of a walk.
LEMMA WalkKeeps ==
  ASSUME IInv, Form PROVE WalkOK'
<1>1. FunOK /\ \A u \in Threads : WalkAt(u)
  BY DEF IInv, MemInv, WalkOK
<1>2. /\ Sleepers \cap Alts = {} /\ Alts \subseteq Procs /\ Sleepers \subseteq Procs /\ None \notin Procs
      /\ None \notin Nodes /\ "set" \notin Nodes /\ "notset" \notin Nodes
  BY ConstFacts
<1>3. \A t \in Threads : walk[t] \in WalkT
  BY <1>1 DEF FunOK
<1>4. \A n \in Nodes : node[n] \in NodeT
  BY <1>1 DEF FunOK
<1>5. \A t \in Threads : queue[t] # <<>> => Head(queue[t]) \in Listed(t) /\ Head(queue[t]) \in Nodes /\ LinkAt(t, Head(queue[t]))
  BY <1>1, TypesOfQueue DEF IInv, MemInv, LinkOK
<1>6. \A p \in Alts : RefAt(p)
  BY DEF IInv, MemInv, RefOK
<1>7. \A p \in Procs : CallAt(p)
  BY DEF IInv, MemInv, CallOK
<1>8. ASSUME NEW p \in Alts, NEW t \in Threads, Triggers(t, p)
      PROVE  (pc[p] = "altend" => state[p].n # 1) /\ (pc[p] = "b_altend" /\ state[p].n = 1 => p \notin trig)
  <2>1. Bit(Armed(p)) = 1
    BY <1>8 DEF Bit, Armed, Triggers
  <2>2. pc[p] # "b_altend" => Bit(pc[p] # "b_altend") = 1
    BY DEF Bit
  <2>3. p \in trig => Bit(chan[p] = "alt" \/ p \in trig) = 1
    BY DEF Bit
  <2>4. /\ Bit(pc[p] # "b_altend") \in {0, 1} /\ Bit(chan[p] = "alt" \/ p \in trig) \in {0, 1}
        /\ pc[p] = "b_altend" => Bit(pc[p] # "b_altend") = 0
    BY DEF Bit
  <2>5. pc[p] \notin {"idle", "select"} =>
          state[p].n = Bit(pc[p] # "b_altend") + Bit(chan[p] = "alt" \/ p \in trig) + Bit(Armed(p))
    BY DEF IInv, MemInv, CountExact
  <2> QED BY <2>1, <2>2, <2>3, <2>4, <2>5
<1>9. \A t, v \in Threads : t # v /\ queue[v] # <<>> =>
        Head(queue[v]) \notin Listed(t) /\ node[Head(queue[v])].owner = v
  BY <1>1, <1>5 DEF IInv, MemInv, LinkOK, LinkAt
<1>10. \A t \in Threads, p \in Alts : Triggers(t, p) => pc[p] \in TrigPC /\ walk[t].pc = "trigger"
  BY <1>1 DEF WalkAt, Triggers
<1>11. \A t \in Threads : Started(t) \/ UNCHANGED walk =>
          /\ walk'[t].pc = "look" \/ walk'[t] = walk[t]
          /\ \A u \in Threads : u # t => walk'[u] = walk[u]
          /\ \A u \in Threads : \A r : walk[t].pc = "off" /\ Triggers(u, r)' => Triggers(u, r)
  <2>1. ASSUME NEW t \in Threads, Started(t)
        PROVE  walk'[t].pc = "look" /\ \A u \in Threads : u # t => walk'[u] = walk[u]
    BY <1>1, <1>3, <2>1, WalkReads DEF Started, Set, FunOK
  <2> QED BY <2>1 DEF Triggers
<1>101. ASSUME Tick PROVE WalkOK'
  <2> SUFFICES ASSUME NEW v \in Threads PROVE WalkAt(v)'
    BY DEF WalkOK
  <2> QED BY <1>101, <1>1, <1>2 DEF Tick, mem, where, alt, Free, InCall, Triggers, TrigPC, WalkAt,
     FunOK
<1>102. ASSUME NEW p \in Sleepers, NEW t \in Threads, NEW x \in Times, NEW n \in Nodes, TimerWaits(p, t, x, n)
       PROVE  WalkOK'
  <2> SUFFICES ASSUME NEW v \in Threads PROVE WalkAt(v)'
    BY DEF WalkOK
  <2>1. CASE v = t
    <3>1. walk'[v].pc = "off"
      BY <1>102, <1>1, <1>2, <2>1 DEF TimerWaits, Runs, Free, InCall, FunOK
    <3> QED BY <3>1 DEF WalkAt
  <2>2. CASE v # t
    <3>1. /\ UNCHANGED walk /\ queue'[v] = queue[v] /\ n \in free \cup laundry
          /\ \A m \in Nodes : m # n => node'[m] = node[m]
      BY <1>102, <1>1, <2>2 DEF TimerWaits, Grown, FunOK, Washed
    <3>2. queue[v] # <<>> => node'[Head(queue[v])] = node[Head(queue[v])]
      BY <1>102, <1>1, <1>5, <3>1, NotListed DEF TimerWaits, Grown
    <3>3. \A r \in Alts : tlink[r] \in Nodes => node'[tlink[r]] = node[tlink[r]]
      BY <1>1, <1>6, <3>1 DEF RefAt
    <3>4. \A r \in Alts : pc[r] \in TrigPC => pc'[r] = pc[r] /\ tlink'[r] = tlink[r]
      BY <1>102, <1>1, <1>2 DEF TimerWaits, alt, Runs, TrigPC, FunOK
    <3> QED BY <1>1, <3>1, <3>2, <3>3, <3>4 DEF WalkAt, Triggers
  <2> QED BY <2>1, <2>2
<1>103. ASSUME NEW p \in Alts, NEW t \in Threads, NEW g \in Delays, TaltEnables(p, t, g)
       PROVE  WalkOK'
  <2> SUFFICES ASSUME NEW v \in Threads PROVE WalkAt(v)'
    BY DEF WalkOK
  <2> QED BY <1>103, <1>1, <1>2 DEF TaltEnables, alt, Starts, Free, mem, InCall, Triggers, TrigPC,
     WalkAt, FunOK
<1>104. ASSUME NEW p \in Alts, NEW t \in Threads, NEW g \in Delays, TaltWritten(p, t, g)
       PROVE  WalkOK'
  <2> SUFFICES ASSUME NEW v \in Threads PROVE WalkAt(v)'
    BY DEF WalkOK
  <2> QED BY <1>104, <1>1, <1>2 DEF TaltWritten, Starts, Free, mem, InCall, Triggers, TrigPC,
     WalkAt, FunOK
<1>105. ASSUME NEW p \in Alts, EnbReady(p) PROVE WalkOK'
  <2> SUFFICES ASSUME NEW v \in Threads PROVE WalkAt(v)'
    BY DEF WalkOK
  <2> QED BY <1>105, <1>1, <1>2 DEF EnbReady, GoesOn, Enables, Set, Runs, mem, Free, InCall,
     Triggers, TrigPC, WalkAt, FunOK
<1>106. ASSUME NEW p \in Alts, EnbNext(p) PROVE WalkOK'
  <2> SUFFICES ASSUME NEW v \in Threads PROVE WalkAt(v)'
    BY DEF WalkOK
  <2> QED BY <1>106, <1>1, <1>2 DEF EnbNext, EnbLater, EnbField, Enables, Runs, mem, Free, InCall,
     Triggers, TrigPC, WalkAt, FunOK
<1>107. ASSUME NEW p \in Alts, EnbLast(p) PROVE WalkOK'
  <2> SUFFICES ASSUME NEW v \in Threads PROVE WalkAt(v)'
    BY DEF WalkOK
  <2> QED BY <1>107, <1>1, <1>2 DEF EnbLast, EnbLater, EnbField, Enables, Runs, mem, Free, InCall,
     Triggers, TrigPC, WalkAt, FunOK
<1>108. ASSUME NEW p \in Alts, DistFired(p) PROVE WalkOK'
  <2> SUFFICES ASSUME NEW v \in Threads PROVE WalkAt(v)'
    BY DEF WalkOK
  <2>1. UNCHANGED <<walk, queue, node>> /\ (\A r \in Alts : r # p => pc'[r] = pc[r] /\ tlink'[r] = tlink[r])
        /\ pc'[p] \in TrigPC /\ tlink'[p] \notin Nodes
    BY <1>108, <1>1, <1>2 DEF DistFired, Runs, Set, AltStep, mem, TrigPC, FunOK
  <2> QED BY <1>1, <2>1 DEF WalkAt, Triggers
<1>109. ASSUME NEW p \in Alts, DiscAlt(p) PROVE WalkOK'
  <2> SUFFICES ASSUME NEW v \in Threads PROVE WalkAt(v)'
    BY DEF WalkOK
  <2> QED BY <1>109, <1>1, <1>2 DEF DiscAlt, alt, Discs, Runs, mem, Free, InCall, Triggers, TrigPC,
     WalkAt, FunOK
<1>110. ASSUME NEW p \in Alts, DiscWriter(p) PROVE WalkOK'
  <2> SUFFICES ASSUME NEW v \in Threads PROVE WalkAt(v)'
    BY DEF WalkOK
  <2> QED BY <1>110, <1>1, <1>2 DEF DiscWriter, Discs, Runs, mem, Free, InCall, Triggers, TrigPC,
     WalkAt, FunOK
<1>111. ASSUME NEW p \in Alts, EndsNow(p) PROVE WalkOK'
  <2> SUFFICES ASSUME NEW v \in Threads PROVE WalkAt(v)'
    BY DEF WalkOK
  <2>1. ~Triggers(v, p)
    BY <1>111, <1>8 DEF EndsNow, Ends, Runs, Written
  <2>2. UNCHANGED <<walk, queue, node, tlink>> /\ \A r \in Alts : r # p => pc'[r] = pc[r]
    BY <1>111, <1>1 DEF EndsNow, Ends, Written, mem, FunOK
  <2> QED BY <1>1, <2>1, <2>2 DEF WalkAt, Triggers
<1>112. ASSUME NEW p \in Alts, EndWaits(p) PROVE WalkOK'
  <2> SUFFICES ASSUME NEW v \in Threads PROVE WalkAt(v)'
    BY DEF WalkOK
  <2> QED BY <1>112, <1>1, <1>2 DEF EndWaits, Ends, Runs, mem, Free, InCall, Triggers, TrigPC,
     WalkAt, FunOK
<1>113. ASSUME NEW p \in Alts, Select(p) PROVE WalkOK'
  <2> SUFFICES ASSUME NEW v \in Threads PROVE WalkAt(v)'
    BY DEF WalkOK
  <2> QED BY <1>113, <1>1, <1>2 DEF Select, Runs, Set, AltStep, mem, alt, Free, InCall, Triggers,
     TrigPC, WalkAt, FunOK
<1>114. ASSUME NEW p \in Alts, Write(p) PROVE WalkOK'
  <2> SUFFICES ASSUME NEW v \in Threads PROVE WalkAt(v)'
    BY DEF WalkOK
  <2> QED BY <1>114, <1>1, <1>2 DEF Write, Set, mem, where, alt, Free, InCall, Triggers, TrigPC,
     WalkAt, FunOK
<1>115. ASSUME NEW p \in Alts, TaltwtGoes(p) PROVE WalkOK'
  <2> SUFFICES ASSUME NEW v \in Threads PROVE WalkAt(v)'
    BY DEF WalkOK
  <2> QED BY <1>115, <1>1, <1>2 DEF TaltwtGoes, Runs, GoesOn, mem, Free, InCall, Set, Triggers,
     TrigPC, WalkAt, FunOK
<1>116. ASSUME NEW p \in Alts, CasWaits(p) PROVE WalkOK'
  <2> SUFFICES ASSUME NEW v \in Threads PROVE WalkAt(v)'
    BY DEF WalkOK
  <2> QED BY <1>116, <1>1, <1>2 DEF CasWaits, Runs, mem, Free, InCall, Triggers, TrigPC, WalkAt,
     FunOK
<1>117. ASSUME NEW p \in Alts, CasGoes(p) PROVE WalkOK'
  <2> SUFFICES ASSUME NEW v \in Threads PROVE WalkAt(v)'
    BY DEF WalkOK
  <2>1. CASE v = on[p]
    <3>1. walk'[v].pc = "off"
      BY <1>117, <1>1, <1>2, <1>7, <2>1 DEF CasGoes, GoesOn, Set, Runs, Free, InCall, CallAt, FunOK
    <3> QED BY <3>1 DEF WalkAt
  <2>2. CASE v # on[p]
    <3>1. UNCHANGED walk /\ queue'[v] = queue[v]
      BY <1>117, <1>1, <1>2, <2>2 DEF CasGoes, GoesOn, Set, Shrunk, FunOK
    <3>5. /\ tlink[p] \in Nodes /\ node[tlink[p]].owner = on[p]
          /\ node' = [node EXCEPT ![tlink[p]] = [node[tlink[p]] EXCEPT !.dirty = FALSE]]
      BY <1>117, <1>1, <1>2, <1>6 DEF CasGoes, GoesOn, Set, Runs, RefAt, FunOK
    <3>2. queue[v] # <<>> => node'[Head(queue[v])] = node[Head(queue[v])]
      <4>1. queue[v] # <<>> => Head(queue[v]) # tlink[p]
        BY <1>5, <2>2, <3>5 DEF LinkAt
      <4> QED BY <1>1, <1>5, <3>5, <4>1 DEF FunOK
    <3>3. \A m \in Nodes : node'[m].wptr = node[m].wptr
      BY <1>1, <1>4, <3>5, NodeReads DEF FunOK
    <3>4. \A r \in Alts : pc[r] \in TrigPC => pc'[r] \in TrigPC /\ (tlink'[r] = tlink[r] \/ tlink'[r] \notin Nodes)
      BY <1>117, <1>1, <1>2 DEF CasGoes, GoesOn, Set, Runs, TrigPC, FunOK
    <3>6. walk[v].pc = "trigger" => \A u \in Threads : u # v => ~Triggers(u, walk[v].ptr)'
      BY <1>1, <3>1 DEF WalkAt, Triggers
    <3>7. walk[v].pc = "trigger" =>
            /\ walk[v].ptr \in Alts /\ pc'[walk[v].ptr] \in TrigPC
            /\ tlink'[walk[v].ptr] \in Nodes => node'[tlink'[walk[v].ptr]].wptr = None
      BY <1>1, <3>3, <3>4 DEF WalkAt
    <3>8. walk[v].pc \in {"swap", "trigger", "clean"} => WalkAt(v)'
      BY <1>1, <3>1, <3>2, <3>6, <3>7 DEF WalkAt
    <3> QED BY <3>1, <3>8 DEF WalkAt
  <2> QED BY <2>1, <2>2
<1>118. ASSUME NEW p \in Alts, DistHere(p) PROVE WalkOK'
  <2> SUFFICES ASSUME NEW v \in Threads PROVE WalkAt(v)'
    BY DEF WalkOK
  <2>1. CASE v = on[p]
    <3>1. walk'[v].pc = "off"
      BY <1>118, <1>1, <1>2, <1>7, <2>1 DEF DistHere, DistTakes, Runs, Free, InCall, CallAt, FunOK
    <3> QED BY <3>1 DEF WalkAt
  <2>2. CASE v # on[p]
    <3>1. UNCHANGED walk /\ queue'[v] = queue[v]
      BY <1>118, <1>1, <1>2, <2>2 DEF DistHere, DistTakes, Shrunk, FunOK
    <3>5. /\ tlink[p] \in Nodes /\ node[tlink[p]].owner = on[p]
          /\ node' = [node EXCEPT ![tlink[p]] = [node[tlink[p]] EXCEPT !.dirty = FALSE]]
      BY <1>118, <1>1, <1>2, <1>6 DEF DistHere, DistTakes, Runs, RefAt, FunOK
    <3>2. queue[v] # <<>> => node'[Head(queue[v])] = node[Head(queue[v])]
      <4>1. queue[v] # <<>> => Head(queue[v]) # tlink[p]
        BY <1>5, <2>2, <3>5 DEF LinkAt
      <4> QED BY <1>1, <1>5, <3>5, <4>1 DEF FunOK
    <3>3. \A m \in Nodes : node'[m].wptr = node[m].wptr
      BY <1>1, <1>4, <3>5, NodeReads DEF FunOK
    <3>4. \A r \in Alts : pc[r] \in TrigPC => pc'[r] \in TrigPC /\ (tlink'[r] = tlink[r] \/ tlink'[r] \notin Nodes)
      BY <1>118, <1>1, <1>2 DEF DistHere, DistTakes, Runs, TrigPC, FunOK
    <3>6. walk[v].pc = "trigger" => \A u \in Threads : u # v => ~Triggers(u, walk[v].ptr)'
      BY <1>1, <3>1 DEF WalkAt, Triggers
    <3>7. walk[v].pc = "trigger" =>
            /\ walk[v].ptr \in Alts /\ pc'[walk[v].ptr] \in TrigPC
            /\ tlink'[walk[v].ptr] \in Nodes => node'[tlink'[walk[v].ptr]].wptr = None
      BY <1>1, <3>3, <3>4 DEF WalkAt
    <3>8. walk[v].pc \in {"swap", "trigger", "clean"} => WalkAt(v)'
      BY <1>1, <3>1, <3>2, <3>6, <3>7 DEF WalkAt
    <3> QED BY <3>1, <3>8 DEF WalkAt
  <2> QED BY <2>1, <2>2
<1>119. ASSUME NEW p \in Alts, DistThere(p) PROVE WalkOK'
  <2> SUFFICES ASSUME NEW v \in Threads PROVE WalkAt(v)'
    BY DEF WalkOK
  <2> QED BY <1>119, <1>1, <1>2 DEF DistThere, DistTakes, Runs, Free, InCall, Triggers, TrigPC,
     WalkAt, FunOK
<1>120. ASSUME NEW p \in Alts, DistSets(p), NextGuard(p) PROVE WalkOK'
  <2> SUFFICES ASSUME NEW v \in Threads PROVE WalkAt(v)'
    BY DEF WalkOK
  <2> QED BY <1>120, <1>1, <1>2 DEF DistSets, NextGuard, Runs, mem, Reached, Free, InCall,
     Triggers, TrigPC, WalkAt, FunOK
<1>121. ASSUME NEW p \in Alts, DistSets(p), LastGuard(p) PROVE WalkOK'
  <2> SUFFICES ASSUME NEW v \in Threads PROVE WalkAt(v)'
    BY DEF WalkOK
  <2> QED BY <1>121, <1>1, <1>2 DEF DistSets, LastGuard, Runs, mem, Reached, Free, InCall,
     Triggers, TrigPC, WalkAt, FunOK
<1>122. ASSUME NEW p \in Alts, Releases(p), NextGuard(p) PROVE WalkOK'
  <2> SUFFICES ASSUME NEW v \in Threads PROVE WalkAt(v)'
    BY DEF WalkOK
  <2> QED BY <1>122, <1>1, <1>2 DEF Releases, NextGuard, Runs, Release, Free, InCall, Triggers,
     TrigPC, WalkAt, FunOK
<1>123. ASSUME NEW p \in Alts, Releases(p), LastGuard(p) PROVE WalkOK'
  <2> SUFFICES ASSUME NEW v \in Threads PROVE WalkAt(v)'
    BY DEF WalkOK
  <2> QED BY <1>123, <1>1, <1>2 DEF Releases, LastGuard, Runs, Release, Free, InCall, Triggers,
     TrigPC, WalkAt, FunOK
<1>124. ASSUME NEW p \in Alts, NEW n \in Nodes, TaltwtWaits(p, n) PROVE WalkOK'
  <2> SUFFICES ASSUME NEW v \in Threads PROVE WalkAt(v)'
    BY DEF WalkOK
  <2>1. CASE v = on[p]
    <3>1. walk'[v].pc = "off"
      BY <1>124, <1>1, <1>2, <2>1 DEF TaltwtWaits, Runs, Free, InCall, FunOK
    <3> QED BY <3>1 DEF WalkAt
  <2>2. CASE v # on[p]
    <3>1. /\ UNCHANGED walk /\ queue'[v] = queue[v] /\ n \in free \cup laundry
          /\ \A m \in Nodes : m # n => node'[m] = node[m]
      BY <1>124, <1>1, <2>2 DEF TaltwtWaits, Grown, FunOK, Washed
    <3>2. queue[v] # <<>> => node'[Head(queue[v])] = node[Head(queue[v])]
      BY <1>124, <1>1, <1>5, <3>1, NotListed DEF TaltwtWaits, Grown
    <3>3. \A r \in Alts : tlink[r] \in Nodes => node'[tlink[r]] = node[tlink[r]]
      BY <1>1, <1>6, <3>1 DEF RefAt
    <3>4. \A r \in Alts : pc[r] \in TrigPC => pc'[r] = pc[r] /\ tlink'[r] = tlink[r]
      BY <1>124, <1>1, <1>2 DEF TaltwtWaits, alt, Runs, TrigPC, FunOK
    <3> QED BY <1>1, <3>1, <3>2, <3>3, <3>4 DEF WalkAt, Triggers
  <2> QED BY <2>1, <2>2
<1>125. ASSUME NEW p \in Alts, Written(p), NoneComes(p) PROVE WalkOK'
  <2> SUFFICES ASSUME NEW v \in Threads PROVE WalkAt(v)'
    BY DEF WalkOK
  <2> QED BY <1>125, <1>1, <1>2 DEF Written, NoneComes, mem, where, Counted, Free, InCall,
     Triggers, TrigPC, WalkAt, FunOK
<1>126. ASSUME NEW p \in Alts, NEW u \in Threads, Written(p), GuardComes(p, u) PROVE WalkOK'
  <2> SUFFICES ASSUME NEW v \in Threads PROVE WalkAt(v)'
    BY DEF WalkOK
  <2> QED BY <1>126, <1>1, <1>2 DEF Written, GuardComes, mem, Counted, Free, InCall, Triggers,
     TrigPC, WalkAt, FunOK
<1>127. ASSUME NEW p \in Alts, NEW u \in Threads, Written(p), EndComes(p, u) PROVE WalkOK'
  <2> SUFFICES ASSUME NEW v \in Threads PROVE WalkAt(v)'
    BY DEF WalkOK
  <2>1. ~Triggers(v, p)
    BY <1>127, <1>8 DEF EndComes, Ends, Runs, Written
  <2>2. UNCHANGED <<walk, queue, node, tlink>> /\ \A r \in Alts : r # p => pc'[r] = pc[r]
    BY <1>127, <1>1 DEF EndComes, Ends, Written, mem, FunOK
  <2> QED BY <1>1, <2>1, <2>2 DEF WalkAt, Triggers
<1>128. ASSUME NEW t \in Threads, Check(t) PROVE WalkOK'
  <2> SUFFICES ASSUME NEW v \in Threads PROVE WalkAt(v)'
    BY DEF WalkOK
  <2> QED BY <1>128, <1>1, <1>2, <1>3, WalkReads DEF Check, Free, mem, where, alt, Started, InCall,
     Set, Triggers, TrigPC, WalkAt, FunOK
<1>129. ASSUME NEW t \in Threads, EndWalk(t) PROVE WalkOK'
  <2> SUFFICES ASSUME NEW v \in Threads PROVE WalkAt(v)'
    BY DEF WalkOK
  <2> QED BY <1>129, <1>1, <1>2, <1>3, WalkReads DEF EndWalk, mem, where, alt, Walk, Set, Free,
     InCall, Triggers, TrigPC, WalkAt, FunOK
<1>130. ASSUME NEW t \in Threads, WalkAlt(t) PROVE WalkOK'
  <2> SUFFICES ASSUME NEW v \in Threads PROVE WalkAt(v)'
    BY DEF WalkOK
  <2>1. CASE v = t
    <3>1. /\ queue' = queue /\ queue[t] # <<>> /\ node[Head(queue[t])].wptr \in Alts
          /\ node' = [node EXCEPT ![Head(queue[t])] = [node[Head(queue[t])] EXCEPT !.time = walk[t].now]]
          /\ walk'[t].pc = "swap"
      BY <1>130, <1>1, <1>3, WalkReads DEF WalkAlt, Expired, Walk, Set, FunOK
    <3>2. node[Head(queue[t])].dirty
      BY <1>2, <1>5, <3>1 DEF LinkAt
    <3>3. node'[Head(queue[t])].dirty /\ node'[Head(queue[t])].wptr = node[Head(queue[t])].wptr
      BY <1>1, <1>4, <1>5, <3>1, <3>2, NodeReads DEF FunOK
    <3> QED BY <2>1, <3>1, <3>3 DEF WalkAt
  <2>2. CASE v # t
    <3>1. /\ walk'[v] = walk[v] /\ queue'[v] = queue[v] /\ UNCHANGED tlink
          /\ \A u \in Threads : \A r : Triggers(u, r)' => Triggers(u, r)
      BY <1>130, <1>1, <1>3, <2>2, WalkReads DEF WalkAlt, Expired, Walk, Set, alt, Triggers, FunOK
    <3>2. queue[v] # <<>> => node'[Head(queue[v])] = node[Head(queue[v])]
      BY <1>130, <1>1, <1>5, <1>9, <2>2 DEF WalkAlt, Expired, Walk, Set, FunOK
    <3>3. \A m \in Nodes : node'[m].wptr = node[m].wptr
      BY <1>130, <1>1, <1>4, <1>5, NodeReads DEF WalkAlt, Expired, Walk, Set, FunOK
    <3>4. \A r \in Alts : pc'[r] = pc[r]
      BY <1>130, <1>1, <1>2 DEF WalkAlt, Expired, Walk, Set, where, FunOK
    <3> QED BY <1>1, <2>2, <3>1, <3>2, <3>3, <3>4 DEF WalkAt, Triggers
  <2> QED BY <2>1, <2>2
<1>131. ASSUME NEW t \in Threads, WalkSwap(t) PROVE WalkOK'
  <2> SUFFICES ASSUME NEW v \in Threads PROVE WalkAt(v)'
    BY DEF WalkOK
  <2> DEFINE h == Head(queue[t])
  <2>1. /\ queue' = queue /\ queue[t] # <<>> /\ h \in Nodes /\ node[h].wptr \in Alts \cup {None}
        /\ node[h].dirty /\ UNCHANGED <<pc, tlink>>
        /\ node' = [node EXCEPT ![h] = [node[h] EXCEPT !.wptr = None]]
        /\ walk[t].pc = "swap" /\ \A u \in Threads : u # t => walk'[u] = walk[u]
        /\ walk'[t].pc = (IF node[h].wptr = None THEN "clean" ELSE "trigger") /\ walk'[t].ptr = node[h].wptr
    BY <1>131, <1>1, <1>3, <1>5, WalkReads DEF WalkSwap, Set, where, alt, WalkAt, FunOK
  <2> HIDE DEF h
  <2>2. \A m \in Nodes : /\ node'[m].dirty = node[m].dirty
                         /\ m # h => node'[m].wptr = node[m].wptr
                         /\ m = h => node'[m].wptr = None
    BY <1>1, <1>4, <2>1, NodeReads DEF FunOK
  <2>3. \A r \in Alts : node[h].wptr = r =>
          /\ tlink[r] = h /\ pc[r] \in TrigPC /\ \A u \in Threads : ~Triggers(u, r)
    <3>1. ASSUME NEW r \in Alts, node[h].wptr = r PROVE tlink[r] = h
      BY <1>5, <2>1, <3>1 DEF LinkAt, h
    <3>2. ASSUME NEW r \in Alts, node[h].wptr = r PROVE pc[r] \in TrigPC
      <4>1. pc[r] \in RefPC /\ (pc[r] = "cas" => node[h].owner = on[r])
        BY <1>6, <2>1, <3>1, <3>2 DEF RefAt
      <4>2. node[h].owner = t
        BY <1>5, <2>1 DEF LinkAt, h
      <4>3. pc[r] # "cas"
        BY <1>2, <1>7, <2>1, <4>1, <4>2 DEF CallAt, InCall
      <4> QED BY <4>1, <4>3 DEF RefPC, TrigPC
    <3>3. ASSUME NEW r \in Alts, node[h].wptr = r, NEW u \in Threads PROVE ~Triggers(u, r)
      BY <1>1, <1>2, <2>1, <3>1, <3>3 DEF WalkAt, Triggers
    <3> QED BY <3>1, <3>2, <3>3
  <2>4. CASE v = t
    BY <1>2, <2>1, <2>2, <2>3, <2>4 DEF WalkAt, Triggers, h
  <2>5. CASE v # t
    <3>1. queue[v] # <<>> => Head(queue[v]) \in Nodes /\ Head(queue[v]) # h
      BY <1>5, <1>9, <2>1, <2>5 DEF h
    <3>2. walk[v].pc = "trigger" => node[h].wptr # walk[v].ptr
      BY <1>1, <2>1, <2>3 DEF WalkAt, Triggers
    <3> QED BY <1>1, <1>2, <2>1, <2>2, <2>5, <3>1, <3>2 DEF WalkAt, Triggers
  <2> QED BY <2>4, <2>5
<1>132. ASSUME NEW t \in Threads, Sweeps(t) PROVE WalkOK'
  <2> SUFFICES ASSUME NEW v \in Threads PROVE WalkAt(v)'
    BY DEF WalkOK
  <2>1. CASE v = t
    <3>1. walk'[v].pc \in {"off", "look"}
      BY <1>132, <1>11, <2>1 DEF Sweeps, Free
    <3> QED BY <3>1 DEF WalkAt
  <2>2. CASE v # t
    <3>1. /\ walk'[v] = walk[v] /\ queue'[v] = queue[v] /\ UNCHANGED tlink
          /\ \A u \in Threads : \A r : Triggers(u, r)' => Triggers(u, r)
      BY <1>132, <1>1, <1>11, <2>2 DEF Sweeps, Shrunk, alt, Triggers, FunOK
    <3>2. queue[v] # <<>> => node'[Head(queue[v])] = node[Head(queue[v])]
      BY <1>132, <1>1, <1>5, <1>9, <2>2 DEF Sweeps, FunOK, DeadIn, Listed
    <3>3. \A m \in Nodes : node'[m].wptr = node[m].wptr
      BY <1>132, <1>1, <1>4, <1>5, NodeReads DEF Sweeps, FunOK
    <3>4. \A r \in Alts : pc'[r] = pc[r]
      BY <1>132, <1>1, <1>2 DEF Sweeps, where, FunOK
    <3> QED BY <1>1, <2>2, <3>1, <3>2, <3>3, <3>4 DEF WalkAt, Triggers
  <2> QED BY <2>1, <2>2
<1>133. ASSUME NEW t \in Threads, WalkDead(t), Shrunk(t, {Head(queue[t])}) PROVE WalkOK'
  <2> SUFFICES ASSUME NEW v \in Threads PROVE WalkAt(v)'
    BY DEF WalkOK
  <2>1. CASE v = t
    <3>1. walk'[v].pc \in {"off", "look"}
      BY <1>133, <1>1, <1>3, <2>1, WalkReads DEF WalkDead, Expired, Set, Free, FunOK
    <3> QED BY <3>1 DEF WalkAt
  <2>2. CASE v # t
    <3>1. /\ walk'[v] = walk[v] /\ queue'[v] = queue[v] /\ UNCHANGED tlink
          /\ \A u \in Threads : \A r : Triggers(u, r)' => Triggers(u, r)
      BY <1>133, <1>1, <1>3, <2>2, WalkReads DEF WalkDead, Expired, Set, Shrunk, alt, Triggers, FunOK
    <3>2. queue[v] # <<>> => node'[Head(queue[v])] = node[Head(queue[v])]
      BY <1>133, <1>1, <1>5, <1>9, <2>2 DEF WalkDead, Expired, Set, FunOK
    <3>3. \A m \in Nodes : node'[m].wptr = node[m].wptr
      BY <1>133, <1>1, <1>4, <1>5, NodeReads DEF WalkDead, Expired, Set, FunOK
    <3>4. \A r \in Alts : pc'[r] = pc[r]
      BY <1>133, <1>1, <1>2 DEF WalkDead, Expired, Set, where, FunOK
    <3> QED BY <1>1, <2>2, <3>1, <3>2, <3>3, <3>4 DEF WalkAt, Triggers
  <2> QED BY <2>1, <2>2
<1>134. ASSUME NEW t \in Threads, WalkClean(t), Shrunk(t, {Head(queue[t])}) PROVE WalkOK'
  <2> SUFFICES ASSUME NEW v \in Threads PROVE WalkAt(v)'
    BY DEF WalkOK
  <2>1. CASE v = t
    <3>1. walk'[v].pc \in {"off", "look"}
      BY <1>134, <1>1, <1>3, <2>1, WalkReads DEF WalkClean, Walk, Set, Free, FunOK
    <3> QED BY <3>1 DEF WalkAt
  <2>2. CASE v # t
    <3>1. /\ walk'[v] = walk[v] /\ queue'[v] = queue[v] /\ UNCHANGED tlink
          /\ \A u \in Threads : \A r : Triggers(u, r)' => Triggers(u, r)
      BY <1>134, <1>1, <1>3, <2>2, WalkReads DEF WalkClean, Walk, Set, Shrunk, alt, Triggers, FunOK
    <3>2. queue[v] # <<>> => node'[Head(queue[v])] = node[Head(queue[v])]
      BY <1>134, <1>1, <1>5, <1>9, <2>2 DEF WalkAt, WalkClean, Walk, Set, FunOK
    <3>3. \A m \in Nodes : node'[m].wptr = node[m].wptr
      BY <1>134, <1>1, <1>4, <1>5, NodeReads DEF WalkAt, WalkClean, Walk, Set, FunOK
    <3>4. \A r \in Alts : pc'[r] = pc[r]
      BY <1>134, <1>1, <1>2 DEF WalkClean, Walk, Set, where, FunOK
    <3> QED BY <1>1, <2>2, <3>1, <3>2, <3>3, <3>4 DEF WalkAt, Triggers
  <2> QED BY <2>1, <2>2
<1>135. ASSUME NEW t \in Threads, NEW n \in Nodes, NEW p \in Sleepers, NEW u \in Threads, SleeperWakes(t, n, p, u)
       PROVE  WalkOK'
  <2> SUFFICES ASSUME NEW v \in Threads PROVE WalkAt(v)'
    BY DEF WalkOK
  <2>1. CASE v = t
    <3>1. walk'[v].pc \in {"off", "look"}
      BY <1>135, <1>1, <1>3, <2>1, WalkReads DEF SleeperWakes, Expired, Free, FunOK
    <3> QED BY <3>1 DEF WalkAt
  <2>2. CASE v # t
    <3>1. /\ walk'[v] = walk[v] /\ queue'[v] = queue[v] /\ UNCHANGED tlink
          /\ \A w \in Threads : \A r : Triggers(w, r)' => Triggers(w, r)
      BY <1>135, <1>1, <1>3, <2>2, WalkReads DEF SleeperWakes, Shrunk, alt, Triggers, FunOK
    <3>2. queue[v] # <<>> => node'[Head(queue[v])] = node[Head(queue[v])]
      BY <1>135, <1>1, <1>5, <1>9, <2>2 DEF SleeperWakes, FunOK
    <3>3. \A m \in Nodes : node'[m].wptr = node[m].wptr
      BY <1>135, <1>1, <1>4, <1>5, NodeReads DEF SleeperWakes, FunOK
    <3>4. \A r \in Alts : pc'[r] = pc[r]
      BY <1>135, <1>1, <1>2 DEF SleeperWakes, where, FunOK
    <3> QED BY <1>1, <2>2, <3>1, <3>2, <3>3, <3>4 DEF WalkAt, Triggers
  <2> QED BY <2>1, <2>2
<1>136. ASSUME NEW t \in Threads, NEW p \in Alts, Timed(t, p), NoneComes(p) PROVE WalkOK'
  <2> SUFFICES ASSUME NEW v \in Threads PROVE WalkAt(v)'
    BY DEF WalkOK
  <2> QED BY <1>136, <1>1, <1>2, <1>3, WalkReads DEF Timed, NoneComes, mem, Triggers, where,
     Counted, Free, InCall, TrigPC, WalkAt, FunOK
<1>137. ASSUME NEW t \in Threads, NEW p \in Alts, NEW u \in Threads, Timed(t, p), GuardComes(p, u)
       PROVE  WalkOK'
  <2> SUFFICES ASSUME NEW v \in Threads PROVE WalkAt(v)'
    BY DEF WalkOK
  <2> QED BY <1>137, <1>1, <1>2, <1>3, WalkReads DEF Timed, GuardComes, mem, Triggers, Counted,
     Free, InCall, TrigPC, WalkAt, FunOK
<1>138. ASSUME NEW t \in Threads, NEW p \in Alts, NEW u \in Threads, Timed(t, p), EndComes(p, u)
       PROVE  WalkOK'
  <2> SUFFICES ASSUME NEW v \in Threads PROVE WalkAt(v)'
    BY DEF WalkOK
  <2> QED BY <1>138, <1>1, <1>2, <1>3, WalkReads DEF Timed, EndComes, mem, Triggers, Counted, Free,
     InCall, TrigPC, WalkAt, FunOK
<1>139. ASSUME UNCHANGED vars PROVE WalkOK'
  BY <1>139, <1>1 DEF vars, mem, where, alt, WalkOK, WalkAt, Triggers
<1> QED BY <1>101, <1>102, <1>103, <1>104, <1>105, <1>106, <1>107, <1>108, <1>109, <1>110,
   <1>111, <1>112, <1>113, <1>114, <1>115, <1>116, <1>117, <1>118, <1>119, <1>120, <1>121,
   <1>122, <1>123, <1>124, <1>125, <1>126, <1>127, <1>128, <1>129, <1>130, <1>131, <1>132,
   <1>133, <1>134, <1>135, <1>136, <1>137, <1>138, <1>139 DEF Form, AltForm, WalkForm

LEMMA CountIs ==
  /\ CountExact <=> \A p \in Alts : CountAt(p)
  /\ IInv => \A p \in Alts : InQueue(p) => ~InWalk(p)
<1>1. \A p \in Alts : Armed(p) <=> InQueue(p) \/ InWalk(p)
  BY DEF Armed, InQueue, InWalk, Triggers
<1>2. ASSUME IInv, NEW p \in Alts, InQueue(p) PROVE ~InWalk(p)
  BY <1>2, ConstFacts DEF InQueue, InWalk, Triggers, IInv, MemInv, WalkOK, WalkAt
<1>3. ASSUME NEW p \in Alts PROVE Bit(Armed(p)) = Bit(InQueue(p) \/ InWalk(p))
  BY <1>1 DEF Bit
<1> QED BY <1>2, <1>3 DEF CountExact, CountAt

LEMMA CountFrame ==
  ASSUME NEW q \in Alts, CountAt(q), state'[q].n = state[q].n, pc'[q] = pc[q], chan'[q] = chan[q],
         q \in trig' <=> q \in trig, InQueue(q)' <=> InQueue(q), InWalk(q)' <=> InWalk(q)
  PROVE  CountAt(q)'
  BY DEF CountAt, Bit

\* The counts.
LEMMA CountStep ==
  ASSUME IInv, Form PROVE (\A q \in Alts : CountAt(q))'
<1>1. FunOK /\ (\A q \in Alts : CountAt(q)) /\ (\A q \in Alts : InQueue(q) => ~InWalk(q))
  BY CountIs DEF IInv, MemInv
<1>2. /\ Sleepers \cap Alts = {} /\ Alts \subseteq Procs /\ Sleepers \subseteq Procs /\ None \notin Procs
      /\ None \notin Nodes /\ "set" \notin Nodes /\ "notset" \notin Nodes
  BY ConstFacts
<1>3. \A t \in Threads : walk[t] \in WalkT
  BY <1>1 DEF FunOK
<1>4. \A n \in Nodes : node[n] \in NodeT
  BY <1>1 DEF FunOK
<1>5. \A q \in Alts : state[q] \in StateT /\ state[q].n \in Int
  BY <1>1, StateEdits DEF FunOK
<1>6. \A q \in Alts : RefAt(q)
  BY DEF IInv, MemInv, RefOK
<1>7. \A q \in Alts : AltAt(q)
  BY DEF IInv, MemInv, AltOK
<1>8. \A t \in Threads : WalkAt(t)
  BY DEF IInv, MemInv, WalkOK
<1>9. \A q \in Alts : InWalk(q) => /\ pc[q] \in TrigPC
                                   /\ tlink[q] \in Nodes => node[tlink[q]].wptr = None
  BY <1>8 DEF InWalk, Triggers, WalkAt
<1>10. \A t \in Threads : queue[t] # <<>> => Head(queue[t]) \in Nodes /\ LinkAt(t, Head(queue[t]))
  BY <1>1, TypesOfQueue DEF IInv, MemInv, LinkOK
<1>11. \A q \in Alts : pc[q] \notin RefPC => tlink[q] \notin Nodes
  BY <1>6 DEF RefAt
<1>101. ASSUME Tick PROVE (\A q \in Alts : CountAt(q))'
  <2> SUFFICES ASSUME NEW q \in Alts PROVE CountAt(q)'
    OBVIOUS
  <2> QED BY <1>101, <1>1, <1>2, <1>5 DEF Tick, mem, where, alt, CountAt, InQueue, InWalk,
     Triggers, Bit, FunOK
<1>102. ASSUME NEW p \in Sleepers, NEW t \in Threads, NEW x \in Times, NEW n \in Nodes, TimerWaits(p, t, x, n)
       PROVE  (\A q \in Alts : CountAt(q))'
  <2> SUFFICES ASSUME NEW q \in Alts PROVE CountAt(q)'
    OBVIOUS
  <2>2. tlink[q] \in Nodes => node'[tlink[q]] = node[tlink[q]]
    <3>1. tlink[q] \in Nodes => tlink[q] # n
      BY <1>102, <1>6 DEF TimerWaits, Grown, Washed, RefAt
    <3> QED BY <1>102, <1>1, <3>1 DEF TimerWaits, Grown, FunOK
  <2>3. UNCHANGED <<walk, state, chan, trig, tlink>> /\ pc'[q] = pc[q]
    BY <1>102, <1>1, <1>2 DEF TimerWaits, alt, FunOK
  <2>4. (InQueue(q)' <=> InQueue(q)) /\ (InWalk(q)' <=> InWalk(q))
    BY <2>2, <2>3 DEF InQueue, InWalk, Triggers
  <2> QED BY <1>1, <2>3, <2>4, CountFrame
<1>103. ASSUME NEW p \in Alts, NEW t \in Threads, NEW g \in Delays, TaltEnables(p, t, g)
       PROVE  (\A q \in Alts : CountAt(q))'
  <2> SUFFICES ASSUME NEW q \in Alts PROVE CountAt(q)'
    OBVIOUS
  <2>1. q # p => /\ pc'[q] = pc[q] /\ state'[q] = state[q] /\ chan'[q] = chan[q] /\ tlink'[q] = tlink[q]
                 /\ q \in trig' <=> q \in trig
    BY <1>103, <1>1, <1>2 DEF TaltEnables, alt, Starts, mem, InCall, FunOK
  <2>2. tlink[q] \in Nodes => node'[tlink[q]] = node[tlink[q]]
    BY <1>103 DEF TaltEnables, alt, Starts, mem, InCall
  <2>3. q # p => (InWalk(q)' <=> InWalk(q))
    BY <1>103, <1>1 DEF TaltEnables, alt, Starts, mem, InCall, InWalk, Triggers, FunOK
  <2>4. CASE q # p
    <3>1. InQueue(q)' <=> InQueue(q)
      BY <2>1, <2>2, <2>4 DEF InQueue
    <3> QED BY <1>1, <2>1, <2>3, <2>4, <3>1, CountFrame
  <2>5. CASE q = p
    <3>1. ~InQueue(p) /\ ~InQueue(p)'
      BY <1>103, <1>1, <1>2, <1>6, <1>9, <1>11 DEF TaltEnables, alt, Starts, mem, InCall, InQueue, RefAt, RefPC, FunOK
    <3>2. ~InWalk(p) /\ ~InWalk(p)'
      BY <1>103, <1>1, <1>8, <1>9 DEF TaltEnables, alt, Starts, mem, InCall, TrigPC, InWalk, Triggers, WalkAt, FunOK
    <3> QED BY <1>103, <1>1, <1>2, <1>5, <1>7, <2>5, <3>1, <3>2 DEF TaltEnables, alt, Starts, mem, InCall, CountAt, AltAt, Bit, FunOK
  <2> QED BY <2>4, <2>5
<1>104. ASSUME NEW p \in Alts, NEW t \in Threads, NEW g \in Delays, TaltWritten(p, t, g)
       PROVE  (\A q \in Alts : CountAt(q))'
  <2> SUFFICES ASSUME NEW q \in Alts PROVE CountAt(q)'
    OBVIOUS
  <2>1. q # p => /\ pc'[q] = pc[q] /\ state'[q] = state[q] /\ chan'[q] = chan[q] /\ tlink'[q] = tlink[q]
                 /\ q \in trig' <=> q \in trig
    BY <1>104, <1>1, <1>2 DEF TaltWritten, Starts, mem, InCall, FunOK
  <2>2. tlink[q] \in Nodes => node'[tlink[q]] = node[tlink[q]]
    BY <1>104 DEF TaltWritten, Starts, mem, InCall
  <2>3. q # p => (InWalk(q)' <=> InWalk(q))
    BY <1>104, <1>1 DEF TaltWritten, Starts, mem, InCall, InWalk, Triggers, FunOK
  <2>4. CASE q # p
    <3>1. InQueue(q)' <=> InQueue(q)
      BY <2>1, <2>2, <2>4 DEF InQueue
    <3> QED BY <1>1, <2>1, <2>3, <2>4, <3>1, CountFrame
  <2>5. CASE q = p
    <3>1. ~InQueue(p) /\ ~InQueue(p)'
      BY <1>104, <1>1, <1>2, <1>6, <1>9, <1>11 DEF TaltWritten, Starts, mem, InCall, InQueue, RefAt, RefPC, FunOK
    <3>2. ~InWalk(p) /\ ~InWalk(p)'
      BY <1>104, <1>1, <1>8, <1>9 DEF TaltWritten, Starts, mem, InCall, TrigPC, InWalk, Triggers, WalkAt, FunOK
    <3>3. state'[p].n = 1 /\ chan'[p] = "writer" /\ p \notin trig' /\ pc'[p] = "disc" 
      BY <1>104, <1>1, <1>2, <1>5, <1>7 DEF TaltWritten, Starts, mem, InCall, AltAt, ChanPC, FunOK
    <3>4. /\ state[p].n \in Int /\ CountAt(p)
      BY <1>1, <1>5
    <3> QED BY <2>5, <3>1, <3>2, <3>3, <3>4 DEF CountAt, Bit
  <2> QED BY <2>4, <2>5
<1>105. ASSUME NEW p \in Alts, EnbReady(p) PROVE (\A q \in Alts : CountAt(q))'
  <2> SUFFICES ASSUME NEW q \in Alts PROVE CountAt(q)'
    OBVIOUS
  <2> QED BY <1>105, <1>1, <1>2, <1>5, StateReads DEF EnbReady, GoesOn, Enables, Set, Runs, mem,
     InCall, CountAt, InQueue, InWalk, Triggers, Bit, FunOK
<1>106. ASSUME NEW p \in Alts, EnbNext(p) PROVE (\A q \in Alts : CountAt(q))'
  <2> SUFFICES ASSUME NEW q \in Alts PROVE CountAt(q)'
    OBVIOUS
  <2> QED BY <1>106, <1>1, <1>2, <1>5 DEF EnbNext, EnbLater, EnbField, Enables, Runs, mem, InCall,
     CountAt, InQueue, InWalk, Triggers, Bit, FunOK
<1>107. ASSUME NEW p \in Alts, EnbLast(p) PROVE (\A q \in Alts : CountAt(q))'
  <2> SUFFICES ASSUME NEW q \in Alts PROVE CountAt(q)'
    OBVIOUS
  <2> QED BY <1>107, <1>1, <1>2, <1>5 DEF EnbLast, EnbLater, EnbField, Enables, Runs, mem, InCall,
     CountAt, InQueue, InWalk, Triggers, Bit, FunOK
<1>108. ASSUME NEW p \in Alts, DistFired(p) PROVE (\A q \in Alts : CountAt(q))'
  <2> SUFFICES ASSUME NEW q \in Alts PROVE CountAt(q)'
    OBVIOUS
  <2> QED BY <1>108, <1>1, <1>2, <1>5 DEF DistFired, Runs, Set, AltStep, mem, InCall, CountAt,
     InQueue, InWalk, Triggers, Bit, FunOK
<1>109. ASSUME NEW p \in Alts, DiscAlt(p) PROVE (\A q \in Alts : CountAt(q))'
  <2> SUFFICES ASSUME NEW q \in Alts PROVE CountAt(q)'
    OBVIOUS
  <2>1. q # p => /\ pc'[q] = pc[q] /\ state'[q] = state[q] /\ chan'[q] = chan[q] /\ tlink'[q] = tlink[q]
                 /\ q \in trig' <=> q \in trig
    BY <1>109, <1>1, <1>2 DEF DiscAlt, alt, Discs, Runs, mem, InCall, FunOK
  <2>2. tlink[q] \in Nodes => node'[tlink[q]] = node[tlink[q]]
    BY <1>109 DEF DiscAlt, alt, Discs, Runs, mem, InCall
  <2>3. q # p => (InWalk(q)' <=> InWalk(q))
    BY <1>109, <1>1 DEF DiscAlt, alt, Discs, Runs, mem, InCall, InWalk, Triggers, FunOK
  <2>4. CASE q # p
    <3>1. InQueue(q)' <=> InQueue(q)
      BY <2>1, <2>2, <2>4 DEF InQueue
    <3> QED BY <1>1, <2>1, <2>3, <2>4, <3>1, CountFrame
  <2>5. CASE q = p
    <3>1. ~InQueue(p) /\ ~InQueue(p)'
      BY <1>109, <1>1, <1>2, <1>6, <1>9, <1>11 DEF DiscAlt, alt, Discs, Runs, mem, InCall, InQueue, RefAt, RefPC, FunOK
    <3>2. InWalk(p)' <=> InWalk(p)
      BY <1>109, <1>1, <1>8, <1>9 DEF DiscAlt, alt, Discs, Runs, mem, InCall, TrigPC, InWalk, Triggers, WalkAt, FunOK
    <3>3. /\ state'[p].n = state[p].n - 1 /\ pc[p] = "disc" /\ pc'[p] = "altend"
          /\ chan[p] = "alt" /\ chan'[p] = "none" /\ p \notin trig'
      BY <1>109, <1>1, <1>2, <1>5, <1>7, StateReads DEF DiscAlt, alt, Discs, Runs, mem, InCall, AltAt, ChanPC, FunOK
    <3>4. /\ state[p].n \in Int /\ CountAt(p)
      BY <1>1, <1>5
    <3> QED BY <2>5, <3>1, <3>2, <3>3, <3>4 DEF CountAt, Bit
  <2> QED BY <2>4, <2>5
<1>110. ASSUME NEW p \in Alts, DiscWriter(p) PROVE (\A q \in Alts : CountAt(q))'
  <2> SUFFICES ASSUME NEW q \in Alts PROVE CountAt(q)'
    OBVIOUS
  <2>1. q # p => /\ pc'[q] = pc[q] /\ state'[q] = state[q] /\ chan'[q] = chan[q] /\ tlink'[q] = tlink[q]
                 /\ q \in trig' <=> q \in trig
    BY <1>110, <1>1, <1>2 DEF DiscWriter, Discs, Runs, mem, InCall, FunOK
  <2>2. UNCHANGED <<node, tlink, walk>>
    BY <1>110 DEF DiscWriter, Discs, Runs, mem, InCall
  <2>3. InWalk(q)' <=> InWalk(q)
    BY <2>2 DEF InWalk, Triggers
  <2>4. CASE q # p
    <3>1. InQueue(q)' <=> InQueue(q)
      BY <2>1, <2>2, <2>4 DEF InQueue
    <3> QED BY <1>1, <2>1, <2>3, <2>4, <3>1, CountFrame
  <2>5. CASE q = p
    <3>1. /\ pc[p] = "disc" /\ pc'[p] = "altend" /\ UNCHANGED <<state, chan, trig>>
      BY <1>110, <1>1, <1>2 DEF DiscWriter, Discs, Runs, mem, InCall, FunOK
    <3>2. ~InQueue(p) /\ ~InQueue(p)'
      BY <1>6, <1>9, <2>2, <3>1 DEF InQueue, RefAt, RefPC
    <3>3. CountAt(p)
      BY <1>1
    <3> QED BY <2>3, <2>5, <3>1, <3>2, <3>3 DEF CountAt, Bit
  <2> QED BY <2>4, <2>5
<1>111. ASSUME NEW p \in Alts, EndsNow(p) PROVE (\A q \in Alts : CountAt(q))'
  <2> SUFFICES ASSUME NEW q \in Alts PROVE CountAt(q)'
    OBVIOUS
  <2> QED BY <1>111, <1>1, <1>2, <1>5 DEF EndsNow, Ends, Runs, mem, InCall, CountAt, InQueue,
     InWalk, Triggers, Bit, FunOK
<1>112. ASSUME NEW p \in Alts, EndWaits(p) PROVE (\A q \in Alts : CountAt(q))'
  <2> SUFFICES ASSUME NEW q \in Alts PROVE CountAt(q)'
    OBVIOUS
  <2>1. q # p => /\ pc'[q] = pc[q] /\ state'[q] = state[q] /\ chan'[q] = chan[q] /\ tlink'[q] = tlink[q]
                 /\ q \in trig' <=> q \in trig
    BY <1>112, <1>1, <1>2 DEF EndWaits, Ends, Runs, mem, InCall, FunOK
  <2>2. tlink[q] \in Nodes => node'[tlink[q]] = node[tlink[q]]
    BY <1>112 DEF EndWaits, Ends, Runs, mem, InCall
  <2>3. q # p => (InWalk(q)' <=> InWalk(q))
    BY <1>112, <1>1 DEF EndWaits, Ends, Runs, mem, InCall, InWalk, Triggers, FunOK
  <2>4. CASE q # p
    <3>1. InQueue(q)' <=> InQueue(q)
      BY <2>1, <2>2, <2>4 DEF InQueue
    <3> QED BY <1>1, <2>1, <2>3, <2>4, <3>1, CountFrame
  <2>5. CASE q = p
    <3>1. ~InQueue(p) /\ ~InQueue(p)'
      BY <1>112, <1>1, <1>2, <1>6, <1>9, <1>11 DEF EndWaits, Ends, Runs, mem, InCall, InQueue, RefAt, RefPC, FunOK
    <3>2. InWalk(p)' <=> InWalk(p)
      BY <1>112, <1>1, <1>8, <1>9 DEF EndWaits, Ends, Runs, mem, InCall, TrigPC, InWalk, Triggers, WalkAt, FunOK
    <3>3. /\ state'[p].n = state[p].n - 1 /\ pc[p] = "altend" /\ pc'[p] = "b_altend"
          /\ UNCHANGED <<chan, trig>>
      BY <1>112, <1>1, <1>2, <1>5, <1>7, StateReads DEF EndWaits, Ends, Runs, mem, InCall, AltAt, ChanPC, FunOK
    <3>4. /\ state[p].n \in Int /\ CountAt(p)
      BY <1>1, <1>5
    <3> QED BY <2>5, <3>1, <3>2, <3>3, <3>4 DEF CountAt, Bit
  <2> QED BY <2>4, <2>5
<1>113. ASSUME NEW p \in Alts, Select(p) PROVE (\A q \in Alts : CountAt(q))'
  <2> SUFFICES ASSUME NEW q \in Alts PROVE CountAt(q)'
    OBVIOUS
  <2>1. q # p => /\ pc'[q] = pc[q] /\ state'[q] = state[q] /\ chan'[q] = chan[q] /\ tlink'[q] = tlink[q]
                 /\ q \in trig' <=> q \in trig
    BY <1>113, <1>1, <1>2 DEF Select, Runs, Set, AltStep, mem, alt, InCall, FunOK
  <2>2. UNCHANGED <<node, tlink, walk>>
    BY <1>113 DEF Select, Runs, Set, AltStep, mem, alt, InCall
  <2>3. InWalk(q)' <=> InWalk(q)
    BY <2>2 DEF InWalk, Triggers
  <2>4. CASE q # p
    <3>1. InQueue(q)' <=> InQueue(q)
      BY <2>1, <2>2, <2>4 DEF InQueue
    <3> QED BY <1>1, <2>1, <2>3, <2>4, <3>1, CountFrame
  <2>5. CASE q = p
    <3>1. pc'[p] = "idle"
      BY <1>113, <1>1, <1>2 DEF Select, Set, FunOK
    <3> QED BY <2>5, <3>1 DEF CountAt
  <2> QED BY <2>4, <2>5
<1>114. ASSUME NEW p \in Alts, Write(p) PROVE (\A q \in Alts : CountAt(q))'
  <2> SUFFICES ASSUME NEW q \in Alts PROVE CountAt(q)'
    OBVIOUS
  <2>1. q # p => /\ pc'[q] = pc[q] /\ state'[q] = state[q] /\ chan'[q] = chan[q] /\ tlink'[q] = tlink[q]
                 /\ q \in trig' <=> q \in trig
    BY <1>114, <1>1, <1>2 DEF Write, Set, mem, where, alt, FunOK
  <2>2. UNCHANGED <<node, tlink, walk>>
    BY <1>114 DEF Write, Set, mem, where, alt
  <2>3. InWalk(q)' <=> InWalk(q)
    BY <2>2 DEF InWalk, Triggers
  <2>4. CASE q # p
    <3>1. InQueue(q)' <=> InQueue(q)
      BY <2>1, <2>2, <2>4 DEF InQueue
    <3> QED BY <1>1, <2>1, <2>3, <2>4, <3>1, CountFrame
  <2>5. CASE q = p
    <3>1. /\ UNCHANGED <<pc, state>> /\ chan'[p] = "writer" /\ p \notin trig
          /\ p \in trig' <=> chan[p] = "alt"
      BY <1>114, <1>1 DEF Write, Set, where, alt, FunOK
    <3>2. InQueue(p)' <=> InQueue(p)
      BY <2>2, <3>1 DEF InQueue
    <3>3. CountAt(p)
      BY <1>1
    <3> QED BY <2>3, <2>5, <3>1, <3>2, <3>3 DEF CountAt, Bit
  <2> QED BY <2>4, <2>5
<1>115. ASSUME NEW p \in Alts, TaltwtGoes(p) PROVE (\A q \in Alts : CountAt(q))'
  <2> SUFFICES ASSUME NEW q \in Alts PROVE CountAt(q)'
    OBVIOUS
  <2>1. q # p => /\ pc'[q] = pc[q] /\ state'[q] = state[q] /\ chan'[q] = chan[q] /\ tlink'[q] = tlink[q]
                 /\ q \in trig' <=> q \in trig
    BY <1>115, <1>1, <1>2 DEF TaltwtGoes, Runs, GoesOn, mem, InCall, Set, FunOK
  <2>2. tlink[q] \in Nodes => node'[tlink[q]] = node[tlink[q]]
    BY <1>115 DEF TaltwtGoes, Runs, GoesOn, mem, InCall, Set
  <2>3. q # p => (InWalk(q)' <=> InWalk(q))
    BY <1>115, <1>1 DEF TaltwtGoes, Runs, GoesOn, mem, InCall, Set, InWalk, Triggers, FunOK
  <2>4. CASE q # p
    <3>1. InQueue(q)' <=> InQueue(q)
      BY <2>1, <2>2, <2>4 DEF InQueue
    <3> QED BY <1>1, <2>1, <2>3, <2>4, <3>1, CountFrame
  <2>5. CASE q = p
    <3>1. ~InQueue(p) /\ ~InQueue(p)'
      BY <1>115, <1>1, <1>2, <1>6, <1>9, <1>11 DEF TaltwtGoes, Runs, GoesOn, mem, InCall, Set, InQueue, RefAt, RefPC, FunOK
    <3>2. InWalk(p)' <=> InWalk(p)
      BY <1>115, <1>1, <1>8, <1>9 DEF TaltwtGoes, Runs, GoesOn, mem, InCall, Set, TrigPC, InWalk, Triggers, WalkAt, FunOK
    <3>3. state'[p].n = state[p].n /\ pc[p] = "taltwt" /\ pc'[p] = "dist" /\ UNCHANGED <<chan, trig>>
      BY <1>115, <1>1, <1>2, <1>5, <1>7, StateReads DEF TaltwtGoes, Runs, GoesOn, mem, InCall, Set, AltAt, ChanPC, FunOK
    <3>4. /\ state[p].n \in Int /\ CountAt(p)
      BY <1>1, <1>5
    <3> QED BY <2>5, <3>1, <3>2, <3>3, <3>4 DEF CountAt, Bit
  <2> QED BY <2>4, <2>5
<1>116. ASSUME NEW p \in Alts, CasWaits(p) PROVE (\A q \in Alts : CountAt(q))'
  <2> SUFFICES ASSUME NEW q \in Alts PROVE CountAt(q)'
    OBVIOUS
  <2>1. q # p => /\ pc'[q] = pc[q] /\ state'[q] = state[q] /\ chan'[q] = chan[q] /\ tlink'[q] = tlink[q]
                 /\ q \in trig' <=> q \in trig
    BY <1>116, <1>1, <1>2 DEF CasWaits, Runs, mem, InCall, FunOK
  <2>2. tlink[q] \in Nodes => node'[tlink[q]] = node[tlink[q]]
    BY <1>116 DEF CasWaits, Runs, mem, InCall
  <2>3. q # p => (InWalk(q)' <=> InWalk(q))
    BY <1>116, <1>1 DEF CasWaits, Runs, mem, InCall, InWalk, Triggers, FunOK
  <2>4. CASE q # p
    <3>1. InQueue(q)' <=> InQueue(q)
      BY <2>1, <2>2, <2>4 DEF InQueue
    <3> QED BY <1>1, <2>1, <2>3, <2>4, <3>1, CountFrame
  <2>5. CASE q = p
    <3>1. ~InQueue(p) /\ InQueue(p)'
      BY <1>116, <1>1, <1>2, <1>6, <1>9, <1>11 DEF CasWaits, Runs, mem, InCall, InQueue, RefAt, RefPC, FunOK
    <3>2. ~InWalk(p) /\ ~InWalk(p)'
      BY <1>116, <1>1, <1>8, <1>9 DEF CasWaits, Runs, mem, InCall, TrigPC, InWalk, Triggers, WalkAt, FunOK
    <3>3. state'[p].n = state[p].n + 1 /\ pc[p] = "cas" /\ pc'[p] = "b_altwt" /\ UNCHANGED <<chan, trig>>
      BY <1>116, <1>1, <1>2, <1>5, <1>7 DEF CasWaits, Runs, mem, InCall, AltAt, ChanPC, FunOK
    <3>4. /\ state[p].n \in Int /\ CountAt(p)
      BY <1>1, <1>5
    <3> QED BY <2>5, <3>1, <3>2, <3>3, <3>4 DEF CountAt, Bit
  <2> QED BY <2>4, <2>5
<1>117. ASSUME NEW p \in Alts, CasGoes(p) PROVE (\A q \in Alts : CountAt(q))'
  <2> SUFFICES ASSUME NEW q \in Alts PROVE CountAt(q)'
    OBVIOUS
  <2> QED BY <1>117, <1>1, <1>2, <1>5, <1>4, NodeReads, StateReads DEF CasGoes, Runs, GoesOn,
     InCall, Set, CountAt, InQueue, InWalk, Triggers, Bit, FunOK
<1>118. ASSUME NEW p \in Alts, DistHere(p) PROVE (\A q \in Alts : CountAt(q))'
  <2> SUFFICES ASSUME NEW q \in Alts PROVE CountAt(q)'
    OBVIOUS
  <2> QED BY <1>118, <1>1, <1>2, <1>5, <1>4, NodeReads, StateReads DEF DistHere, DistTakes, Runs,
     InCall, CountAt, InQueue, InWalk, Triggers, Bit, FunOK
<1>119. ASSUME NEW p \in Alts, DistThere(p) PROVE (\A q \in Alts : CountAt(q))'
  <2> SUFFICES ASSUME NEW q \in Alts PROVE CountAt(q)'
    OBVIOUS
  <2> QED BY <1>119, <1>1, <1>2, <1>5, <1>4, NodeReads, StateReads DEF DistThere, DistTakes, Runs,
     InCall, CountAt, InQueue, InWalk, Triggers, Bit, FunOK
<1>120. ASSUME NEW p \in Alts, DistSets(p), NextGuard(p) PROVE (\A q \in Alts : CountAt(q))'
  <2> SUFFICES ASSUME NEW q \in Alts PROVE CountAt(q)'
    OBVIOUS
  <2> QED BY <1>120, <1>1, <1>2, <1>5 DEF DistSets, NextGuard, Runs, mem, Reached, InCall, CountAt,
     InQueue, InWalk, Triggers, Bit, FunOK
<1>121. ASSUME NEW p \in Alts, DistSets(p), LastGuard(p) PROVE (\A q \in Alts : CountAt(q))'
  <2> SUFFICES ASSUME NEW q \in Alts PROVE CountAt(q)'
    OBVIOUS
  <2> QED BY <1>121, <1>1, <1>2, <1>5 DEF DistSets, LastGuard, Runs, mem, Reached, InCall, CountAt,
     InQueue, InWalk, Triggers, Bit, FunOK
<1>122. ASSUME NEW p \in Alts, Releases(p), NextGuard(p) PROVE (\A q \in Alts : CountAt(q))'
  <2> SUFFICES ASSUME NEW q \in Alts PROVE CountAt(q)'
    OBVIOUS
  <2>1. q # p => /\ pc'[q] = pc[q] /\ state'[q] = state[q] /\ chan'[q] = chan[q] /\ tlink'[q] = tlink[q]
                 /\ q \in trig' <=> q \in trig
    BY <1>122, <1>1, <1>2 DEF Releases, NextGuard, Runs, Release, InCall, FunOK
  <2>2. tlink[q] \in Nodes => node'[tlink[q]] = node[tlink[q]]
    BY <1>122 DEF Releases, NextGuard, Runs, Release, InCall
  <2>3. q # p => (InWalk(q)' <=> InWalk(q))
    BY <1>122, <1>1 DEF Releases, NextGuard, Runs, Release, InCall, InWalk, Triggers, FunOK
  <2>4. CASE q # p
    <3>1. InQueue(q)' <=> InQueue(q)
      BY <2>1, <2>2, <2>4 DEF InQueue
    <3> QED BY <1>1, <2>1, <2>3, <2>4, <3>1, CountFrame
  <2>5. CASE q = p
    <3>1. ~InQueue(p) /\ ~InQueue(p)'
      BY <1>122, <1>1, <1>2, <1>6, <1>9, <1>11 DEF Releases, NextGuard, Runs, Release, InCall, InQueue, RefAt, RefPC, FunOK
    <3>2. InWalk(p)' <=> InWalk(p)
      BY <1>122, <1>1, <1>8, <1>9 DEF Releases, NextGuard, Runs, Release, InCall, TrigPC, InWalk, Triggers, WalkAt, FunOK
    <3> QED BY <1>122, <1>1, <1>2, <1>5, <1>7, <2>5, <3>1, <3>2 DEF Releases, NextGuard, Runs, Release, InCall, CountAt, AltAt, Bit, FunOK
  <2> QED BY <2>4, <2>5
<1>123. ASSUME NEW p \in Alts, Releases(p), LastGuard(p) PROVE (\A q \in Alts : CountAt(q))'
  <2> SUFFICES ASSUME NEW q \in Alts PROVE CountAt(q)'
    OBVIOUS
  <2> QED BY <1>123, <1>1, <1>2, <1>5 DEF Releases, LastGuard, Runs, Release, InCall, CountAt,
     InQueue, InWalk, Triggers, Bit, FunOK
<1>124. ASSUME NEW p \in Alts, NEW n \in Nodes, TaltwtWaits(p, n)
       PROVE  (\A q \in Alts : CountAt(q))'
  <2> SUFFICES ASSUME NEW q \in Alts PROVE CountAt(q)'
    OBVIOUS
  <2>1. q # p => /\ pc'[q] = pc[q] /\ state'[q] = state[q] /\ chan'[q] = chan[q] /\ tlink'[q] = tlink[q]
                 /\ q \in trig' <=> q \in trig
    BY <1>124, <1>1, <1>2 DEF TaltwtWaits, Runs, InCall, FunOK
  <2>2. tlink[q] \in Nodes => node'[tlink[q]] = node[tlink[q]]
    <3>1. tlink[q] \in Nodes => tlink[q] # n
      BY <1>124, <1>6 DEF TaltwtWaits, Grown, Washed, RefAt
    <3> QED BY <1>124, <1>1, <3>1 DEF TaltwtWaits, Grown, FunOK
  <2>3. q # p => (InWalk(q)' <=> InWalk(q))
    BY <1>124, <1>1 DEF TaltwtWaits, Runs, InCall, InWalk, Triggers, FunOK
  <2>4. CASE q # p
    <3>1. InQueue(q)' <=> InQueue(q)
      BY <2>1, <2>2, <2>4 DEF InQueue
    <3> QED BY <1>1, <2>1, <2>3, <2>4, <3>1, CountFrame
  <2>5. CASE q = p
    <3>1. ~InQueue(p) /\ ~InQueue(p)'
      BY <1>124, <1>1, <1>2, <1>6, <1>9, <1>11 DEF TaltwtWaits, Runs, InCall, InQueue, RefAt, RefPC, FunOK
    <3>2. InWalk(p)' <=> InWalk(p)
      BY <1>124, <1>1, <1>8, <1>9 DEF TaltwtWaits, Runs, InCall, TrigPC, InWalk, Triggers, WalkAt, FunOK
    <3> QED BY <1>124, <1>1, <1>2, <1>5, <1>7, <2>5, <3>1, <3>2 DEF TaltwtWaits, Runs, InCall, CountAt, AltAt, Bit, FunOK
  <2> QED BY <2>4, <2>5
<1>125. ASSUME NEW p \in Alts, Written(p), NoneComes(p) PROVE (\A q \in Alts : CountAt(q))'
  <2> SUFFICES ASSUME NEW q \in Alts PROVE CountAt(q)'
    OBVIOUS
  <2>1. q # p => /\ pc'[q] = pc[q] /\ state'[q] = state[q] /\ chan'[q] = chan[q] /\ tlink'[q] = tlink[q]
                 /\ q \in trig' <=> q \in trig
    BY <1>125, <1>1, <1>2 DEF Written, NoneComes, mem, where, Counted, FunOK
  <2>2. tlink[q] \in Nodes => node'[tlink[q]] = node[tlink[q]]
    BY <1>125 DEF Written, NoneComes, mem, where, Counted
  <2>3. q # p => (InWalk(q)' <=> InWalk(q))
    BY <1>125, <1>1 DEF Written, NoneComes, mem, where, Counted, InWalk, Triggers, FunOK
  <2>4. CASE q # p
    <3>1. InQueue(q)' <=> InQueue(q)
      BY <2>1, <2>2, <2>4 DEF InQueue
    <3> QED BY <1>1, <2>1, <2>3, <2>4, <3>1, CountFrame
  <2>5. CASE q = p
    <3>1. InQueue(p)' <=> InQueue(p)
      BY <1>125, <1>1, <1>2, <1>6, <1>9, <1>11 DEF Written, NoneComes, mem, where, Counted, InQueue, RefAt, RefPC, FunOK
    <3>2. InWalk(p)' <=> InWalk(p)
      BY <1>125, <1>1, <1>8, <1>9 DEF Written, NoneComes, mem, where, Counted, TrigPC, InWalk, Triggers, WalkAt, FunOK
    <3> QED BY <1>125, <1>1, <1>2, <1>5, <1>7, <2>5, <3>1, <3>2 DEF Written, NoneComes, mem, where, Counted, CountAt, AltAt, Bit, FunOK
  <2> QED BY <2>4, <2>5
<1>126. ASSUME NEW p \in Alts, NEW u \in Threads, Written(p), GuardComes(p, u)
       PROVE  (\A q \in Alts : CountAt(q))'
  <2> SUFFICES ASSUME NEW q \in Alts PROVE CountAt(q)'
    OBVIOUS
  <2>1. q # p => /\ pc'[q] = pc[q] /\ state'[q] = state[q] /\ chan'[q] = chan[q] /\ tlink'[q] = tlink[q]
                 /\ q \in trig' <=> q \in trig
    BY <1>126, <1>1, <1>2 DEF Written, GuardComes, mem, Counted, FunOK
  <2>2. tlink[q] \in Nodes => node'[tlink[q]] = node[tlink[q]]
    BY <1>126 DEF Written, GuardComes, mem, Counted
  <2>3. q # p => (InWalk(q)' <=> InWalk(q))
    BY <1>126, <1>1 DEF Written, GuardComes, mem, Counted, InWalk, Triggers, FunOK
  <2>4. CASE q # p
    <3>1. InQueue(q)' <=> InQueue(q)
      BY <2>1, <2>2, <2>4 DEF InQueue
    <3> QED BY <1>1, <2>1, <2>3, <2>4, <3>1, CountFrame
  <2>5. CASE q = p
    <3>1. InQueue(p)' <=> InQueue(p)
      BY <1>126, <1>1, <1>2, <1>6, <1>9, <1>11 DEF Written, GuardComes, mem, Counted, InQueue, RefAt, RefPC, FunOK
    <3>2. InWalk(p)' <=> InWalk(p)
      BY <1>126, <1>1, <1>8, <1>9 DEF Written, GuardComes, mem, Counted, TrigPC, InWalk, Triggers, WalkAt, FunOK
    <3>3. /\ state'[p].n = state[p].n - 1 /\ pc[p] = "b_altwt" /\ pc'[p] = "dist"
          /\ chan[p] = "writer" /\ chan'[p] = "writer" /\ p \in trig /\ p \notin trig'
      BY <1>126, <1>1, <1>2, <1>5, <1>7 DEF Written, GuardComes, mem, Counted, AltAt, ChanPC, FunOK
    <3>4. /\ state[p].n \in Int /\ CountAt(p)
      BY <1>1, <1>5
    <3> QED BY <2>5, <3>1, <3>2, <3>3, <3>4 DEF CountAt, Bit
  <2> QED BY <2>4, <2>5
<1>127. ASSUME NEW p \in Alts, NEW u \in Threads, Written(p), EndComes(p, u)
       PROVE  (\A q \in Alts : CountAt(q))'
  <2> SUFFICES ASSUME NEW q \in Alts PROVE CountAt(q)'
    OBVIOUS
  <2> QED BY <1>127, <1>1, <1>2, <1>5 DEF Written, EndComes, mem, Counted, CountAt, InQueue,
     InWalk, Triggers, Bit, FunOK
<1>128. ASSUME NEW t \in Threads, Check(t) PROVE (\A q \in Alts : CountAt(q))'
  <2> SUFFICES ASSUME NEW q \in Alts PROVE CountAt(q)'
    OBVIOUS
  <2>1. \A m \in Nodes : node'[m].wptr = node[m].wptr
    BY <1>128, <1>1, <1>4, <1>10, NodeReads DEF Check, mem, FunOK
  <2>2. \A u \in Threads : Triggers(u, q)' <=> Triggers(u, q)
    BY <1>128, <1>1, <1>3, WalkReads DEF Check, Free, Started, Set, Triggers, FunOK
  <2>3. UNCHANGED <<pc, state, chan, trig, tlink>>
    BY <1>128 DEF Check, where, alt
  <2>4. (InQueue(q)' <=> InQueue(q)) /\ (InWalk(q)' <=> InWalk(q))
    BY <2>1, <2>2, <2>3 DEF InQueue, InWalk
  <2> QED BY <1>1, <2>3, <2>4, CountFrame
<1>129. ASSUME NEW t \in Threads, EndWalk(t) PROVE (\A q \in Alts : CountAt(q))'
  <2> SUFFICES ASSUME NEW q \in Alts PROVE CountAt(q)'
    OBVIOUS
  <2> QED BY <1>129, <1>1, <1>2, <1>5, <1>3, WalkReads DEF EndWalk, mem, where, alt, Walk, Set,
     CountAt, InQueue, InWalk, Triggers, Bit, FunOK
<1>130. ASSUME NEW t \in Threads, WalkAlt(t) PROVE (\A q \in Alts : CountAt(q))'
  <2> SUFFICES ASSUME NEW q \in Alts PROVE CountAt(q)'
    OBVIOUS
  <2>1. \A m \in Nodes : node'[m].wptr = node[m].wptr
    BY <1>130, <1>1, <1>4, <1>10, NodeReads DEF WalkAlt, Expired, Set, mem, FunOK
  <2>2. \A u \in Threads : Triggers(u, q)' <=> Triggers(u, q)
    BY <1>130, <1>1, <1>3, WalkReads DEF WalkAlt, Expired, Walk, Set, Triggers, FunOK
  <2>3. UNCHANGED <<pc, state, chan, trig, tlink>>
    BY <1>130 DEF WalkAlt, Expired, Set, where, alt
  <2>4. (InQueue(q)' <=> InQueue(q)) /\ (InWalk(q)' <=> InWalk(q))
    BY <2>1, <2>2, <2>3 DEF InQueue, InWalk
  <2> QED BY <1>1, <2>3, <2>4, CountFrame
<1>131. ASSUME NEW t \in Threads, WalkSwap(t) PROVE (\A q \in Alts : CountAt(q))'
  <2> SUFFICES ASSUME NEW q \in Alts PROVE CountAt(q)'
    OBVIOUS
  <2> DEFINE h == Head(queue[t])
  <2>1. /\ queue[t] # <<>> /\ h \in Nodes /\ node[h].wptr \in Alts \cup {None}
        /\ UNCHANGED <<pc, tlink, state, chan, trig>>
        /\ node' = [node EXCEPT ![h] = [node[h] EXCEPT !.wptr = None]]
        /\ walk[t].pc = "swap" /\ \A u \in Threads : u # t => walk'[u] = walk[u]
        /\ walk'[t].pc = (IF node[h].wptr = None THEN "clean" ELSE "trigger") /\ walk'[t].ptr = node[h].wptr
    BY <1>131, <1>1, <1>3, <1>8, <1>10, WalkReads DEF WalkSwap, Set, where, alt, WalkAt, FunOK
  <2>2. \A r \in Alts : node[h].wptr = r => tlink[r] = h /\ (pc[r] \in {"b_altwt", "dist"})
    <3>1. ASSUME NEW r \in Alts, node[h].wptr = r PROVE tlink[r] = h
      BY <1>10, <2>1, <3>1 DEF LinkAt
    <3>2. ASSUME NEW r \in Alts, node[h].wptr = r PROVE pc[r] \in {"b_altwt", "dist"}
      <4>1. pc[r] \in RefPC /\ (pc[r] = "cas" => node[h].owner = on[r])
        BY <1>6, <2>1, <3>1, <3>2 DEF RefAt
      <4>2. node[h].owner = t
        BY <1>10, <2>1 DEF LinkAt
      <4>3. pc[r] # "cas"
        BY <1>2, <2>1, <4>1, <4>2 DEF IInv, MemInv, CallOK, CallAt, InCall
      <4> QED BY <4>1, <4>3 DEF RefPC
    <3> QED BY <3>1, <3>2
  <2> HIDE DEF h
  <2>3. \A m \in Nodes : (m # h => node'[m].wptr = node[m].wptr) /\ (m = h => node'[m].wptr = None)
    BY <1>1, <1>4, <2>1, NodeReads DEF FunOK
  <2>4. InWalk(q)' <=> InWalk(q) \/ node[h].wptr = q
    BY <1>2, <2>1 DEF InWalk, Triggers
  <2>5. InQueue(q)' <=> InQueue(q) /\ node[h].wptr # q
    BY <1>2, <2>1, <2>2, <2>3 DEF InQueue
  <2>6. node[h].wptr = q => InQueue(q)
    BY <2>1, <2>2 DEF InQueue
  <2> QED BY <1>1, <2>1, <2>4, <2>5, <2>6 DEF CountAt
<1>132. ASSUME NEW t \in Threads, Sweeps(t) PROVE (\A q \in Alts : CountAt(q))'
  <2> SUFFICES ASSUME NEW q \in Alts PROVE CountAt(q)'
    OBVIOUS
  <2>1. \A m \in Nodes : node'[m].wptr = node[m].wptr
    BY <1>132, <1>1, <1>4, <1>10, NodeReads DEF Sweeps, mem, FunOK
  <2>2. \A u \in Threads : Triggers(u, q)' <=> Triggers(u, q)
    <3>1. CASE Started(t)
      BY <1>132, <1>1, <1>3, <3>1, WalkReads DEF Sweeps, Free, Started, Set, Triggers, FunOK
    <3>2. CASE UNCHANGED walk
      BY <3>2 DEF Triggers
    <3> QED BY <1>132, <3>1, <3>2 DEF Sweeps
  <2>3. UNCHANGED <<pc, state, chan, trig, tlink>>
    BY <1>132 DEF Sweeps, where, alt
  <2>4. (InQueue(q)' <=> InQueue(q)) /\ (InWalk(q)' <=> InWalk(q))
    BY <2>1, <2>2, <2>3 DEF InQueue, InWalk
  <2> QED BY <1>1, <2>3, <2>4, CountFrame
<1>133. ASSUME NEW t \in Threads, WalkDead(t), Shrunk(t, {Head(queue[t])})
       PROVE  (\A q \in Alts : CountAt(q))'
  <2> SUFFICES ASSUME NEW q \in Alts PROVE CountAt(q)'
    OBVIOUS
  <2>1. \A m \in Nodes : node'[m].wptr = node[m].wptr
    BY <1>133, <1>1, <1>4, <1>10, NodeReads DEF WalkDead, Expired, Set, mem, FunOK
  <2>2. \A u \in Threads : Triggers(u, q)' <=> Triggers(u, q)
    BY <1>133, <1>1, <1>3, WalkReads DEF WalkDead, Triggers, FunOK
  <2>3. UNCHANGED <<pc, state, chan, trig, tlink>>
    BY <1>133 DEF WalkDead, Expired, Set, where, alt
  <2>4. (InQueue(q)' <=> InQueue(q)) /\ (InWalk(q)' <=> InWalk(q))
    BY <2>1, <2>2, <2>3 DEF InQueue, InWalk
  <2> QED BY <1>1, <2>3, <2>4, CountFrame
<1>134. ASSUME NEW t \in Threads, WalkClean(t), Shrunk(t, {Head(queue[t])})
       PROVE  (\A q \in Alts : CountAt(q))'
  <2> SUFFICES ASSUME NEW q \in Alts PROVE CountAt(q)'
    OBVIOUS
  <2>1. \A m \in Nodes : node'[m].wptr = node[m].wptr
    BY <1>134, <1>1, <1>4, <1>8, <1>10, NodeReads DEF WalkClean, Set, WalkAt, FunOK
  <2>2. \A u \in Threads : Triggers(u, q)' <=> Triggers(u, q)
    BY <1>134, <1>1, <1>3, WalkReads DEF WalkClean, Walk, Set, Triggers, FunOK
  <2>3. UNCHANGED <<pc, state, chan, trig, tlink>>
    BY <1>134 DEF WalkClean, Set, where, alt
  <2>4. (InQueue(q)' <=> InQueue(q)) /\ (InWalk(q)' <=> InWalk(q))
    BY <2>1, <2>2, <2>3 DEF InQueue, InWalk
  <2> QED BY <1>1, <2>3, <2>4, CountFrame
<1>135. ASSUME NEW t \in Threads, NEW n \in Nodes, NEW p \in Sleepers, NEW u \in Threads, SleeperWakes(t, n, p, u)
       PROVE  (\A q \in Alts : CountAt(q))'
  <2> SUFFICES ASSUME NEW q \in Alts PROVE CountAt(q)'
    OBVIOUS
  <2> QED BY <1>135, <1>1, <1>2, <1>5 DEF SleeperWakes, alt, CountAt, InQueue, InWalk, Triggers,
     Bit, FunOK
<1>136. ASSUME NEW t \in Threads, NEW p \in Alts, Timed(t, p), NoneComes(p)
       PROVE  (\A q \in Alts : CountAt(q))'
  <2> SUFFICES ASSUME NEW q \in Alts PROVE CountAt(q)'
    OBVIOUS
  <2>1. q # p => /\ pc'[q] = pc[q] /\ state'[q] = state[q] /\ chan'[q] = chan[q] /\ tlink'[q] = tlink[q]
                 /\ q \in trig' <=> q \in trig
    BY <1>136, <1>1, <1>2 DEF Timed, NoneComes, mem, Triggers, where, Counted, FunOK
  <2>2. tlink[q] \in Nodes => node'[tlink[q]] = node[tlink[q]]
    BY <1>136 DEF Timed, NoneComes, mem, Triggers, where, Counted
  <2>3. q # p => (InWalk(q)' <=> InWalk(q))
    BY <1>136, <1>1, <1>3, WalkReads DEF Timed, NoneComes, mem, Triggers, where, Counted, InWalk, Triggers, FunOK
  <2>4. CASE q # p
    <3>1. InQueue(q)' <=> InQueue(q)
      BY <2>1, <2>2, <2>4 DEF InQueue
    <3> QED BY <1>1, <2>1, <2>3, <2>4, <3>1, CountFrame
  <2>5. CASE q = p
    <3>0. InWalk(p)
      BY <1>136 DEF Timed, InWalk
    <3>1. ~InQueue(p) /\ ~InQueue(p)'
      BY <1>136, <1>1, <1>2, <1>6, <1>9, <1>11, <3>0 DEF Timed, NoneComes, mem, Triggers, where, Counted, InQueue, RefAt, RefPC, FunOK
    <3>2. InWalk(p) /\ ~InWalk(p)'
      BY <1>136, <1>1, <1>8, <1>9, <1>3, WalkReads DEF Timed, NoneComes, mem, Triggers, where, Counted, TrigPC, InWalk, Triggers, WalkAt, FunOK
    <3>3. state'[p].n = state[p].n - 1 /\ pc'[p] = pc[p] /\ UNCHANGED <<chan, trig>>
      BY <1>136, <1>1, <1>2, <1>5, <1>7 DEF Timed, NoneComes, mem, Triggers, where, Counted, AltAt, ChanPC, FunOK
    <3>4. /\ state[p].n \in Int /\ CountAt(p)
      BY <1>1, <1>5
    <3> QED BY <2>5, <3>1, <3>2, <3>3, <3>4 DEF CountAt, Bit
  <2> QED BY <2>4, <2>5
<1>137. ASSUME NEW t \in Threads, NEW p \in Alts, NEW u \in Threads, Timed(t, p), GuardComes(p, u)
       PROVE  (\A q \in Alts : CountAt(q))'
  <2> SUFFICES ASSUME NEW q \in Alts PROVE CountAt(q)'
    OBVIOUS
  <2>1. q # p => /\ pc'[q] = pc[q] /\ state'[q] = state[q] /\ chan'[q] = chan[q] /\ tlink'[q] = tlink[q]
                 /\ q \in trig' <=> q \in trig
    BY <1>137, <1>1, <1>2 DEF Timed, GuardComes, mem, Triggers, Counted, FunOK
  <2>2. tlink[q] \in Nodes => node'[tlink[q]] = node[tlink[q]]
    BY <1>137 DEF Timed, GuardComes, mem, Triggers, Counted
  <2>3. q # p => (InWalk(q)' <=> InWalk(q))
    BY <1>137, <1>1, <1>3, WalkReads DEF Timed, GuardComes, mem, Triggers, Counted, InWalk, Triggers, FunOK
  <2>4. CASE q # p
    <3>1. InQueue(q)' <=> InQueue(q)
      BY <2>1, <2>2, <2>4 DEF InQueue
    <3> QED BY <1>1, <2>1, <2>3, <2>4, <3>1, CountFrame
  <2>5. CASE q = p
    <3>0. InWalk(p)
      BY <1>137 DEF Timed, InWalk
    <3>1. ~InQueue(p) /\ ~InQueue(p)'
      BY <1>137, <1>1, <1>2, <1>6, <1>9, <1>11, <3>0 DEF Timed, GuardComes, mem, Triggers, Counted, InQueue, RefAt, RefPC, FunOK
    <3>2. InWalk(p) /\ ~InWalk(p)'
      BY <1>137, <1>1, <1>8, <1>9, <1>3, WalkReads DEF Timed, GuardComes, mem, Triggers, Counted, TrigPC, InWalk, Triggers, WalkAt, FunOK
    <3>3. state'[p].n = state[p].n - 1 /\ pc[p] = "b_altwt" /\ pc'[p] = "dist" /\ UNCHANGED <<chan, trig>>
      BY <1>137, <1>1, <1>2, <1>5, <1>7 DEF Timed, GuardComes, mem, Triggers, Counted, AltAt, ChanPC, FunOK
    <3>4. /\ state[p].n \in Int /\ CountAt(p)
      BY <1>1, <1>5
    <3> QED BY <2>5, <3>1, <3>2, <3>3, <3>4 DEF CountAt, Bit
  <2> QED BY <2>4, <2>5
<1>138. ASSUME NEW t \in Threads, NEW p \in Alts, NEW u \in Threads, Timed(t, p), EndComes(p, u)
       PROVE  (\A q \in Alts : CountAt(q))'
  <2> SUFFICES ASSUME NEW q \in Alts PROVE CountAt(q)'
    OBVIOUS
  <2> QED BY <1>138, <1>1, <1>2, <1>5, <1>3, WalkReads DEF Timed, EndComes, mem, Triggers, Counted,
     CountAt, InQueue, InWalk, Triggers, Bit, FunOK
<1>139. ASSUME UNCHANGED vars PROVE (\A q \in Alts : CountAt(q))'
  BY <1>139, <1>1 DEF vars, mem, where, alt, CountAt, InQueue, InWalk, Triggers
<1> QED BY <1>101, <1>102, <1>103, <1>104, <1>105, <1>106, <1>107, <1>108, <1>109, <1>110,
   <1>111, <1>112, <1>113, <1>114, <1>115, <1>116, <1>117, <1>118, <1>119, <1>120, <1>121,
   <1>122, <1>123, <1>124, <1>125, <1>126, <1>127, <1>128, <1>129, <1>130, <1>131, <1>132,
   <1>133, <1>134, <1>135, <1>136, <1>137, <1>138, <1>139 DEF Form, AltForm, WalkForm

\* The state, the channel and the writer of an ALT.
LEMMA AltStepOK ==
  ASSUME IInv, Form PROVE AltOK'
<1>1. FunOK /\ (\A q \in Alts : AltAt(q) /\ CountAt(q)) /\ (\A q \in Sleepers : pc[q] \in {"idle", "b_tin"})
  BY CountIs DEF IInv, MemInv, AltOK
<1>2. /\ Sleepers \cap Alts = {} /\ Alts \subseteq Procs /\ Sleepers \subseteq Procs /\ None \notin Procs
  BY ConstFacts
<1>5. \A q \in Alts : state[q] \in StateT /\ state[q].n \in 0..3
  BY <1>1 DEF AltAt, FunOK
<1>8. \A q \in Alts : pc'[q] \notin {"idle", "select"} => state'[q].n \in 0..3
  BY CountStep DEF CountAt, Bit
<1>9. \A q \in Alts : state[q].n = 1 => /\ pc[q] = "altend" => q \notin trig
                                        /\ pc[q] = "b_altend" /\ InWalk(q) => q \notin trig
  BY <1>1 DEF CountAt, Bit
<1>10. \A q \in Alts, t \in Threads : Triggers(t, q) => pc[q] \in TrigPC /\ InWalk(q)
  BY DEF IInv, MemInv, WalkOK, WalkAt, Triggers, InWalk
<1>101. ASSUME Tick PROVE AltOK'
  <2>1. \A s \in Sleepers : pc'[s] \in {"idle", "b_tin"}
    BY <1>101, <1>1, <1>2 DEF Tick, mem, where, alt, FunOK
  <2>2. ASSUME NEW q \in Alts PROVE AltAt(q)'
    BY <1>101, <1>1, <1>2, <1>5, <1>8, <1>9, <1>10 DEF Tick, mem, where, alt, AltAt, ChanPC,
       TrigPC, FunOK
  <2> QED BY <2>1, <2>2 DEF AltOK
<1>102. ASSUME NEW p \in Sleepers, NEW t \in Threads, NEW x \in Times, NEW n \in Nodes, TimerWaits(p, t, x, n)
       PROVE  AltOK'
  <2>1. \A s \in Sleepers : pc'[s] \in {"idle", "b_tin"}
    BY <1>102, <1>1, <1>2 DEF TimerWaits, alt, InCall, FunOK
  <2>2. ASSUME NEW q \in Alts PROVE AltAt(q)'
    BY <1>102, <1>1, <1>2, <1>5, <1>8, <1>9, <1>10 DEF TimerWaits, alt, InCall, AltAt, ChanPC,
       TrigPC, FunOK
  <2> QED BY <2>1, <2>2 DEF AltOK
<1>103. ASSUME NEW p \in Alts, NEW t \in Threads, NEW g \in Delays, TaltEnables(p, t, g)
       PROVE  AltOK'
  <2>1. \A s \in Sleepers : pc'[s] \in {"idle", "b_tin"}
    BY <1>103, <1>1, <1>2 DEF TaltEnables, alt, Starts, mem, InCall, FunOK
  <2>2. ASSUME NEW q \in Alts PROVE AltAt(q)'
    BY <1>103, <1>1, <1>2, <1>5, <1>8, <1>9, <1>10 DEF TaltEnables, alt, Starts, mem, InCall,
       AltAt, ChanPC, TrigPC, FunOK
  <2> QED BY <2>1, <2>2 DEF AltOK
<1>104. ASSUME NEW p \in Alts, NEW t \in Threads, NEW g \in Delays, TaltWritten(p, t, g)
       PROVE  AltOK'
  <2>1. \A s \in Sleepers : pc'[s] \in {"idle", "b_tin"}
    BY <1>104, <1>1, <1>2 DEF TaltWritten, Starts, mem, InCall, FunOK
  <2>2. ASSUME NEW q \in Alts PROVE AltAt(q)'
    BY <1>104, <1>1, <1>2, <1>5, <1>8, <1>9, <1>10 DEF TaltWritten, Starts, mem, InCall, AltAt,
       ChanPC, TrigPC, FunOK
  <2> QED BY <2>1, <2>2 DEF AltOK
<1>105. ASSUME NEW p \in Alts, EnbReady(p) PROVE AltOK'
  <2>1. \A s \in Sleepers : pc'[s] \in {"idle", "b_tin"}
    BY <1>105, <1>1, <1>2 DEF EnbReady, GoesOn, Enables, Set, Runs, mem, InCall, FunOK
  <2>2. ASSUME NEW q \in Alts PROVE AltAt(q)'
    BY <1>105, <1>1, <1>2, <1>5, <1>8, <1>9, <1>10, StateReads DEF EnbReady, GoesOn, Enables, Set,
       Runs, mem, InCall, AltAt, ChanPC, TrigPC, FunOK
  <2> QED BY <2>1, <2>2 DEF AltOK
<1>106. ASSUME NEW p \in Alts, EnbNext(p) PROVE AltOK'
  <2>1. \A s \in Sleepers : pc'[s] \in {"idle", "b_tin"}
    BY <1>106, <1>1, <1>2 DEF EnbNext, EnbLater, EnbField, Enables, Runs, mem, InCall, FunOK
  <2>2. ASSUME NEW q \in Alts PROVE AltAt(q)'
    BY <1>106, <1>1, <1>2, <1>5, <1>8, <1>9, <1>10 DEF EnbNext, EnbLater, EnbField, Enables, Runs,
       mem, InCall, AltAt, ChanPC, TrigPC, FunOK
  <2> QED BY <2>1, <2>2 DEF AltOK
<1>107. ASSUME NEW p \in Alts, EnbLast(p) PROVE AltOK'
  <2>1. \A s \in Sleepers : pc'[s] \in {"idle", "b_tin"}
    BY <1>107, <1>1, <1>2 DEF EnbLast, EnbLater, EnbField, Enables, Runs, mem, InCall, FunOK
  <2>2. ASSUME NEW q \in Alts PROVE AltAt(q)'
    BY <1>107, <1>1, <1>2, <1>5, <1>8, <1>9, <1>10 DEF EnbLast, EnbLater, EnbField, Enables, Runs,
       mem, InCall, AltAt, ChanPC, TrigPC, FunOK
  <2> QED BY <2>1, <2>2 DEF AltOK
<1>108. ASSUME NEW p \in Alts, DistFired(p) PROVE AltOK'
  <2>1. \A s \in Sleepers : pc'[s] \in {"idle", "b_tin"}
    BY <1>108, <1>1, <1>2 DEF DistFired, Runs, Set, AltStep, mem, InCall, FunOK
  <2>2. ASSUME NEW q \in Alts PROVE AltAt(q)'
    BY <1>108, <1>1, <1>2, <1>5, <1>8, <1>9, <1>10 DEF DistFired, Runs, Set, AltStep, mem, InCall,
       AltAt, ChanPC, TrigPC, FunOK
  <2> QED BY <2>1, <2>2 DEF AltOK
<1>109. ASSUME NEW p \in Alts, DiscAlt(p) PROVE AltOK'
  <2>1. \A s \in Sleepers : pc'[s] \in {"idle", "b_tin"}
    BY <1>109, <1>1, <1>2 DEF DiscAlt, alt, Discs, Runs, mem, InCall, FunOK
  <2>2. ASSUME NEW q \in Alts PROVE AltAt(q)'
    BY <1>109, <1>1, <1>2, <1>5, <1>8, <1>9, <1>10, StateReads DEF DiscAlt, alt, Discs, Runs, mem,
       InCall, AltAt, ChanPC, TrigPC, FunOK
  <2> QED BY <2>1, <2>2 DEF AltOK
<1>110. ASSUME NEW p \in Alts, DiscWriter(p) PROVE AltOK'
  <2>1. \A s \in Sleepers : pc'[s] \in {"idle", "b_tin"}
    BY <1>110, <1>1, <1>2 DEF DiscWriter, Discs, Runs, mem, InCall, FunOK
  <2>2. ASSUME NEW q \in Alts PROVE AltAt(q)'
    BY <1>110, <1>1, <1>2, <1>5, <1>8, <1>9, <1>10 DEF DiscWriter, Discs, Runs, mem, InCall, AltAt,
       ChanPC, TrigPC, FunOK
  <2> QED BY <2>1, <2>2 DEF AltOK
<1>111. ASSUME NEW p \in Alts, EndsNow(p) PROVE AltOK'
  <2>1. \A s \in Sleepers : pc'[s] \in {"idle", "b_tin"}
    BY <1>111, <1>1, <1>2 DEF EndsNow, Ends, Runs, mem, InCall, FunOK
  <2>2. ASSUME NEW q \in Alts PROVE AltAt(q)'
    BY <1>111, <1>1, <1>2, <1>5, <1>8, <1>9, <1>10 DEF EndsNow, Ends, Runs, mem, InCall, AltAt,
       ChanPC, TrigPC, FunOK
  <2> QED BY <2>1, <2>2 DEF AltOK
<1>112. ASSUME NEW p \in Alts, EndWaits(p) PROVE AltOK'
  <2>1. \A s \in Sleepers : pc'[s] \in {"idle", "b_tin"}
    BY <1>112, <1>1, <1>2 DEF EndWaits, Ends, Runs, mem, InCall, FunOK
  <2>2. ASSUME NEW q \in Alts PROVE AltAt(q)'
    BY <1>112, <1>1, <1>2, <1>5, <1>8, <1>9, <1>10, StateReads DEF EndWaits, Ends, Runs, mem,
       InCall, AltAt, ChanPC, TrigPC, FunOK
  <2> QED BY <2>1, <2>2 DEF AltOK
<1>113. ASSUME NEW p \in Alts, Select(p) PROVE AltOK'
  <2>1. \A s \in Sleepers : pc'[s] \in {"idle", "b_tin"}
    BY <1>113, <1>1, <1>2 DEF Select, Runs, Set, AltStep, mem, alt, InCall, FunOK
  <2>2. ASSUME NEW q \in Alts PROVE AltAt(q)'
    BY <1>113, <1>1, <1>2, <1>5, <1>8, <1>9, <1>10 DEF Select, Runs, Set, AltStep, mem, alt,
       InCall, AltAt, ChanPC, TrigPC, FunOK
  <2> QED BY <2>1, <2>2 DEF AltOK
<1>114. ASSUME NEW p \in Alts, Write(p) PROVE AltOK'
  <2>1. \A s \in Sleepers : pc'[s] \in {"idle", "b_tin"}
    BY <1>114, <1>1, <1>2 DEF Write, Set, mem, where, alt, FunOK
  <2>2. ASSUME NEW q \in Alts PROVE AltAt(q)'
    BY <1>114, <1>1, <1>2, <1>5, <1>8, <1>9, <1>10 DEF Write, Set, mem, where, alt, AltAt, ChanPC,
       TrigPC, FunOK
  <2> QED BY <2>1, <2>2 DEF AltOK
<1>115. ASSUME NEW p \in Alts, TaltwtGoes(p) PROVE AltOK'
  <2>1. \A s \in Sleepers : pc'[s] \in {"idle", "b_tin"}
    BY <1>115, <1>1, <1>2 DEF TaltwtGoes, Runs, GoesOn, mem, InCall, Set, FunOK
  <2>2. ASSUME NEW q \in Alts PROVE AltAt(q)'
    BY <1>115, <1>1, <1>2, <1>5, <1>8, <1>9, <1>10, StateReads DEF TaltwtGoes, Runs, GoesOn, mem,
       InCall, Set, AltAt, ChanPC, TrigPC, FunOK
  <2> QED BY <2>1, <2>2 DEF AltOK
<1>116. ASSUME NEW p \in Alts, CasWaits(p) PROVE AltOK'
  <2>1. \A s \in Sleepers : pc'[s] \in {"idle", "b_tin"}
    BY <1>116, <1>1, <1>2 DEF CasWaits, Runs, mem, InCall, FunOK
  <2>2. ASSUME NEW q \in Alts PROVE AltAt(q)'
    BY <1>116, <1>1, <1>2, <1>5, <1>8, <1>9, <1>10 DEF CasWaits, Runs, mem, InCall, AltAt, ChanPC,
       TrigPC, FunOK
  <2> QED BY <2>1, <2>2 DEF AltOK
<1>117. ASSUME NEW p \in Alts, CasGoes(p) PROVE AltOK'
  <2>1. \A s \in Sleepers : pc'[s] \in {"idle", "b_tin"}
    BY <1>117, <1>1, <1>2 DEF CasGoes, Runs, GoesOn, InCall, Set, FunOK
  <2>2. ASSUME NEW q \in Alts PROVE AltAt(q)'
    BY <1>117, <1>1, <1>2, <1>5, <1>8, <1>9, <1>10, StateReads DEF CasGoes, Runs, GoesOn, InCall,
       Set, AltAt, ChanPC, TrigPC, FunOK
  <2> QED BY <2>1, <2>2 DEF AltOK
<1>118. ASSUME NEW p \in Alts, DistHere(p) PROVE AltOK'
  <2>1. \A s \in Sleepers : pc'[s] \in {"idle", "b_tin"}
    BY <1>118, <1>1, <1>2 DEF DistHere, DistTakes, Runs, InCall, FunOK
  <2>2. ASSUME NEW q \in Alts PROVE AltAt(q)'
    BY <1>118, <1>1, <1>2, <1>5, <1>8, <1>9, <1>10, StateReads DEF DistHere, DistTakes, Runs,
       InCall, AltAt, ChanPC, TrigPC, FunOK
  <2> QED BY <2>1, <2>2 DEF AltOK
<1>119. ASSUME NEW p \in Alts, DistThere(p) PROVE AltOK'
  <2>1. \A s \in Sleepers : pc'[s] \in {"idle", "b_tin"}
    BY <1>119, <1>1, <1>2 DEF DistThere, DistTakes, Runs, InCall, FunOK
  <2>2. ASSUME NEW q \in Alts PROVE AltAt(q)'
    BY <1>119, <1>1, <1>2, <1>5, <1>8, <1>9, <1>10, StateReads DEF DistThere, DistTakes, Runs,
       InCall, AltAt, ChanPC, TrigPC, FunOK
  <2> QED BY <2>1, <2>2 DEF AltOK
<1>120. ASSUME NEW p \in Alts, DistSets(p), NextGuard(p) PROVE AltOK'
  <2>1. \A s \in Sleepers : pc'[s] \in {"idle", "b_tin"}
    BY <1>120, <1>1, <1>2 DEF DistSets, NextGuard, Runs, mem, Reached, InCall, FunOK
  <2>2. ASSUME NEW q \in Alts PROVE AltAt(q)'
    BY <1>120, <1>1, <1>2, <1>5, <1>8, <1>9, <1>10 DEF DistSets, NextGuard, Runs, mem, Reached,
       InCall, AltAt, ChanPC, TrigPC, FunOK
  <2> QED BY <2>1, <2>2 DEF AltOK
<1>121. ASSUME NEW p \in Alts, DistSets(p), LastGuard(p) PROVE AltOK'
  <2>1. \A s \in Sleepers : pc'[s] \in {"idle", "b_tin"}
    BY <1>121, <1>1, <1>2 DEF DistSets, LastGuard, Runs, mem, Reached, InCall, FunOK
  <2>2. ASSUME NEW q \in Alts PROVE AltAt(q)'
    BY <1>121, <1>1, <1>2, <1>5, <1>8, <1>9, <1>10 DEF DistSets, LastGuard, Runs, mem, Reached,
       InCall, AltAt, ChanPC, TrigPC, FunOK
  <2> QED BY <2>1, <2>2 DEF AltOK
<1>122. ASSUME NEW p \in Alts, Releases(p), NextGuard(p) PROVE AltOK'
  <2>1. \A s \in Sleepers : pc'[s] \in {"idle", "b_tin"}
    BY <1>122, <1>1, <1>2 DEF Releases, NextGuard, Runs, Release, InCall, FunOK
  <2>2. ASSUME NEW q \in Alts PROVE AltAt(q)'
    BY <1>122, <1>1, <1>2, <1>5, <1>8, <1>9, <1>10 DEF Releases, NextGuard, Runs, Release, InCall,
       AltAt, ChanPC, TrigPC, FunOK
  <2> QED BY <2>1, <2>2 DEF AltOK
<1>123. ASSUME NEW p \in Alts, Releases(p), LastGuard(p) PROVE AltOK'
  <2>1. \A s \in Sleepers : pc'[s] \in {"idle", "b_tin"}
    BY <1>123, <1>1, <1>2 DEF Releases, LastGuard, Runs, Release, InCall, FunOK
  <2>2. ASSUME NEW q \in Alts PROVE AltAt(q)'
    BY <1>123, <1>1, <1>2, <1>5, <1>8, <1>9, <1>10 DEF Releases, LastGuard, Runs, Release, InCall,
       AltAt, ChanPC, TrigPC, FunOK
  <2> QED BY <2>1, <2>2 DEF AltOK
<1>124. ASSUME NEW p \in Alts, NEW n \in Nodes, TaltwtWaits(p, n) PROVE AltOK'
  <2>1. \A s \in Sleepers : pc'[s] \in {"idle", "b_tin"}
    BY <1>124, <1>1, <1>2 DEF TaltwtWaits, Runs, InCall, FunOK
  <2>2. ASSUME NEW q \in Alts PROVE AltAt(q)'
    BY <1>124, <1>1, <1>2, <1>5, <1>8, <1>9, <1>10 DEF TaltwtWaits, Runs, InCall, AltAt, ChanPC,
       TrigPC, FunOK
  <2> QED BY <2>1, <2>2 DEF AltOK
<1>125. ASSUME NEW p \in Alts, Written(p), NoneComes(p) PROVE AltOK'
  <2>1. \A s \in Sleepers : pc'[s] \in {"idle", "b_tin"}
    BY <1>125, <1>1, <1>2 DEF Written, NoneComes, mem, where, Counted, FunOK
  <2>2. ASSUME NEW q \in Alts PROVE AltAt(q)'
    BY <1>125, <1>1, <1>2, <1>5, <1>8, <1>9, <1>10 DEF Written, NoneComes, mem, where, Counted,
       AltAt, ChanPC, TrigPC, FunOK
  <2> QED BY <2>1, <2>2 DEF AltOK
<1>126. ASSUME NEW p \in Alts, NEW u \in Threads, Written(p), GuardComes(p, u) PROVE AltOK'
  <2>1. \A s \in Sleepers : pc'[s] \in {"idle", "b_tin"}
    BY <1>126, <1>1, <1>2 DEF Written, GuardComes, mem, Counted, FunOK
  <2>2. ASSUME NEW q \in Alts PROVE AltAt(q)'
    BY <1>126, <1>1, <1>2, <1>5, <1>8, <1>9, <1>10 DEF Written, GuardComes, mem, Counted, AltAt,
       ChanPC, TrigPC, FunOK
  <2> QED BY <2>1, <2>2 DEF AltOK
<1>127. ASSUME NEW p \in Alts, NEW u \in Threads, Written(p), EndComes(p, u) PROVE AltOK'
  <2>1. \A s \in Sleepers : pc'[s] \in {"idle", "b_tin"}
    BY <1>127, <1>1, <1>2 DEF Written, EndComes, mem, Counted, FunOK
  <2>2. ASSUME NEW q \in Alts PROVE AltAt(q)'
    BY <1>127, <1>1, <1>2, <1>5, <1>8, <1>9, <1>10 DEF Written, EndComes, mem, Counted, AltAt,
       ChanPC, TrigPC, FunOK
  <2> QED BY <2>1, <2>2 DEF AltOK
<1>128. ASSUME NEW t \in Threads, Check(t) PROVE AltOK'
  <2>1. \A s \in Sleepers : pc'[s] \in {"idle", "b_tin"}
    BY <1>128, <1>1, <1>2 DEF Check, mem, where, alt, Started, InCall, Set, FunOK
  <2>2. ASSUME NEW q \in Alts PROVE AltAt(q)'
    BY <1>128, <1>1, <1>2, <1>5, <1>8, <1>9, <1>10 DEF Check, mem, where, alt, Started, InCall,
       Set, AltAt, ChanPC, TrigPC, FunOK
  <2> QED BY <2>1, <2>2 DEF AltOK
<1>129. ASSUME NEW t \in Threads, EndWalk(t) PROVE AltOK'
  <2>1. \A s \in Sleepers : pc'[s] \in {"idle", "b_tin"}
    BY <1>129, <1>1, <1>2 DEF EndWalk, mem, where, alt, Walk, Set, FunOK
  <2>2. ASSUME NEW q \in Alts PROVE AltAt(q)'
    BY <1>129, <1>1, <1>2, <1>5, <1>8, <1>9, <1>10 DEF EndWalk, mem, where, alt, Walk, Set, AltAt,
       ChanPC, TrigPC, FunOK
  <2> QED BY <2>1, <2>2 DEF AltOK
<1>130. ASSUME NEW t \in Threads, WalkAlt(t) PROVE AltOK'
  <2>1. \A s \in Sleepers : pc'[s] \in {"idle", "b_tin"}
    BY <1>130, <1>1, <1>2 DEF WalkAlt, Set, where, alt, Walk, FunOK
  <2>2. ASSUME NEW q \in Alts PROVE AltAt(q)'
    BY <1>130, <1>1, <1>2, <1>5, <1>8, <1>9, <1>10 DEF WalkAlt, Set, where, alt, Walk, AltAt,
       ChanPC, TrigPC, FunOK
  <2> QED BY <2>1, <2>2 DEF AltOK
<1>131. ASSUME NEW t \in Threads, WalkSwap(t) PROVE AltOK'
  <2>1. \A s \in Sleepers : pc'[s] \in {"idle", "b_tin"}
    BY <1>131, <1>1, <1>2 DEF WalkSwap, Set, where, alt, FunOK
  <2>2. ASSUME NEW q \in Alts PROVE AltAt(q)'
    BY <1>131, <1>1, <1>2, <1>5, <1>8, <1>9, <1>10 DEF WalkSwap, Set, where, alt, AltAt, ChanPC,
       TrigPC, FunOK
  <2> QED BY <2>1, <2>2 DEF AltOK
<1>132. ASSUME NEW t \in Threads, Sweeps(t) PROVE AltOK'
  <2>1. \A s \in Sleepers : pc'[s] \in {"idle", "b_tin"}
    BY <1>132, <1>1, <1>2 DEF Sweeps, where, alt, Started, InCall, Set, FunOK
  <2>2. ASSUME NEW q \in Alts PROVE AltAt(q)'
    BY <1>132, <1>1, <1>2, <1>5, <1>8, <1>9, <1>10 DEF Sweeps, where, alt, Started, InCall, Set,
       AltAt, ChanPC, TrigPC, FunOK
  <2> QED BY <2>1, <2>2 DEF AltOK
<1>133. ASSUME NEW t \in Threads, WalkDead(t), Shrunk(t, {Head(queue[t])}) PROVE AltOK'
  <2>1. \A s \in Sleepers : pc'[s] \in {"idle", "b_tin"}
    BY <1>133, <1>1, <1>2 DEF WalkDead, Set, where, alt, FunOK
  <2>2. ASSUME NEW q \in Alts PROVE AltAt(q)'
    BY <1>133, <1>1, <1>2, <1>5, <1>8, <1>9, <1>10 DEF WalkDead, Set, where, alt, AltAt, ChanPC,
       TrigPC, FunOK
  <2> QED BY <2>1, <2>2 DEF AltOK
<1>134. ASSUME NEW t \in Threads, WalkClean(t), Shrunk(t, {Head(queue[t])}) PROVE AltOK'
  <2>1. \A s \in Sleepers : pc'[s] \in {"idle", "b_tin"}
    BY <1>134, <1>1, <1>2 DEF WalkClean, Set, where, alt, Walk, FunOK
  <2>2. ASSUME NEW q \in Alts PROVE AltAt(q)'
    BY <1>134, <1>1, <1>2, <1>5, <1>8, <1>9, <1>10 DEF WalkClean, Set, where, alt, Walk, AltAt,
       ChanPC, TrigPC, FunOK
  <2> QED BY <2>1, <2>2 DEF AltOK
<1>135. ASSUME NEW t \in Threads, NEW n \in Nodes, NEW p \in Sleepers, NEW u \in Threads, SleeperWakes(t, n, p, u)
       PROVE  AltOK'
  <2>1. \A s \in Sleepers : pc'[s] \in {"idle", "b_tin"}
    BY <1>135, <1>1, <1>2 DEF SleeperWakes, alt, FunOK
  <2>2. ASSUME NEW q \in Alts PROVE AltAt(q)'
    BY <1>135, <1>1, <1>2, <1>5, <1>8, <1>9, <1>10 DEF SleeperWakes, alt, AltAt, ChanPC, TrigPC,
       FunOK
  <2> QED BY <2>1, <2>2 DEF AltOK
<1>136. ASSUME NEW t \in Threads, NEW p \in Alts, Timed(t, p), NoneComes(p) PROVE AltOK'
  <2>1. \A s \in Sleepers : pc'[s] \in {"idle", "b_tin"}
    BY <1>136, <1>1, <1>2 DEF Timed, NoneComes, mem, where, Counted, FunOK
  <2>2. ASSUME NEW q \in Alts PROVE AltAt(q)'
    BY <1>136, <1>1, <1>2, <1>5, <1>8, <1>9, <1>10 DEF Timed, NoneComes, mem, where, Counted,
       AltAt, ChanPC, TrigPC, FunOK
  <2> QED BY <2>1, <2>2 DEF AltOK
<1>137. ASSUME NEW t \in Threads, NEW p \in Alts, NEW u \in Threads, Timed(t, p), GuardComes(p, u)
       PROVE  AltOK'
  <2>1. \A s \in Sleepers : pc'[s] \in {"idle", "b_tin"}
    BY <1>137, <1>1, <1>2 DEF Timed, GuardComes, mem, Counted, FunOK
  <2>2. ASSUME NEW q \in Alts PROVE AltAt(q)'
    BY <1>137, <1>1, <1>2, <1>5, <1>8, <1>9, <1>10 DEF Timed, GuardComes, mem, Counted, AltAt,
       ChanPC, TrigPC, FunOK
  <2> QED BY <2>1, <2>2 DEF AltOK
<1>138. ASSUME NEW t \in Threads, NEW p \in Alts, NEW u \in Threads, Timed(t, p), EndComes(p, u)
       PROVE  AltOK'
  <2>1. \A s \in Sleepers : pc'[s] \in {"idle", "b_tin"}
    BY <1>138, <1>1, <1>2 DEF Timed, EndComes, mem, Counted, FunOK
  <2>2. ASSUME NEW q \in Alts PROVE AltAt(q)'
    BY <1>138, <1>1, <1>2, <1>5, <1>8, <1>9, <1>10 DEF Timed, EndComes, mem, Counted, AltAt,
       ChanPC, TrigPC, FunOK
  <2> QED BY <2>1, <2>2 DEF AltOK
<1>139. ASSUME UNCHANGED vars PROVE AltOK'
  BY <1>139, <1>1 DEF vars, mem, where, alt, AltOK, AltAt
<1> QED BY <1>101, <1>102, <1>103, <1>104, <1>105, <1>106, <1>107, <1>108, <1>109, <1>110,
   <1>111, <1>112, <1>113, <1>114, <1>115, <1>116, <1>117, <1>118, <1>119, <1>120, <1>121,
   <1>122, <1>123, <1>124, <1>125, <1>126, <1>127, <1>128, <1>129, <1>130, <1>131, <1>132,
   <1>133, <1>134, <1>135, <1>136, <1>137, <1>138, <1>139 DEF Form, AltForm, WalkForm

\* The times in the queues and in the walks.
LEMMA ThreadStep ==
  ASSUME IInv, Form PROVE (\A v \in Threads : ThreadTime(v))'
<1>1. FunOK /\ \A t \in Threads : ThreadTime(t)
  BY DEF IInv, TimeOK, MemInv
<1>2. /\ Sleepers \cap Alts = {} /\ Alts \subseteq Procs /\ Sleepers \subseteq Procs /\ None \notin Procs
  BY ConstFacts
<1>3. \A t \in Threads : walk[t] \in WalkT /\ walk[t].now \in Times
  BY <1>1, WalkEdits DEF FunOK
<1>4. \A n \in Nodes : node[n] \in NodeT
  BY <1>1 DEF FunOK
<1>5. \A t \in Threads : /\ Listed(t) \subseteq Nodes
                         /\ queue[t] # <<>> => Head(queue[t]) \in Nodes /\ Head(queue[t]) \in Listed(t)
  BY <1>1, TypesOfQueue
<1>6. \A t \in Threads : WalkAt(t)
  BY DEF IInv, MemInv, WalkOK
<1>7. now \in Times /\ Rel(now, now) = 0 /\ -Slack <= 0 /\ 0 <= MaxDelay /\ Slack \in Nat /\ MaxDelay \in Nat
  BY <1>1, RelNow, Sizes DEF FunOK
<1>8. \A t, v \in Threads : t # v /\ queue[v] # <<>> => Head(queue[v]) \notin Listed(t)
  BY <1>5 DEF IInv, MemInv, LinkOK, LinkAt
<1>9. \A p \in Alts : pc[p] = "taltwt" => Near(now, field[p])
  BY DEF IInv, TimeOK, AltTime, EnableOK
<1>10. \A p \in Procs : CallAt(p)
  BY DEF IInv, MemInv, CallOK
<1>101. ASSUME Tick PROVE (\A v \in Threads : ThreadTime(v))'
  <2> SUFFICES ASSUME NEW v \in Threads PROVE ThreadTime(v)'
    OBVIOUS
  <2>1. UNCHANGED <<queue, node, walk>> /\ now' = Future(1)
    BY <1>101 DEF Tick, mem
  <2>2. \A x \in Times : Near(now, x) /\ ~Overdue(x) =>
          Rel(now, x) \in 1 - Slack .. MaxDelay /\ Rel(now', x) = Rel(now, x) - 1
    <3>1. ASSUME NEW x \in Times, Near(now, x), ~Overdue(x)
          PROVE  Rel(now, x) \in 1 - Slack .. MaxDelay /\ Rel(now', x) = Rel(now, x) - 1
      <4>1. Rel(now, x) \in Int /\ Rel(now, x) > -Half /\ Rel(now, x) <= MaxDelay
        BY <1>7, <3>1, RelIs, Sizes DEF Near
      <4>2. Rel(now, x) > -Slack
        BY <1>7, <3>1, <4>1, OverdueRel
      <4> QED BY <1>7, <2>1, <4>1, <4>2, TickRel
    <3> QED BY <3>1
  <2>3. ASSUME NEW n \in Listed(v) PROVE Near(now', node[n].time)
    <3>1. node[n].time \in Times /\ Near(now, node[n].time) /\ ~Overdue(node[n].time)
      BY <1>101, <1>1, <1>5, TypesOfNode DEF Tick, ThreadTime, Listed
    <3> QED BY <1>7, <2>2, <3>1 DEF Near
  <2>4. walk[v].pc # "off" => Past(now', walk[v].now)
    <3>1. walk[v].pc # "off" => Past(now, walk[v].now) /\ ~Overdue(walk[v].now)
      BY <1>101, <1>1 DEF Tick, ThreadTime
    <3>2. Past(now, walk[v].now) => Near(now, walk[v].now)
      BY <1>7 DEF Past, Near
    <3> QED BY <1>3, <1>7, <2>2, <3>1, <3>2 DEF Past
  <2> QED BY <1>1, <2>1, <2>3, <2>4 DEF ThreadTime, Listed
<1>102. ASSUME NEW p \in Sleepers, NEW t \in Threads, NEW x \in Times, NEW n \in Nodes, TimerWaits(p, t, x, n)
       PROVE  (\A v \in Threads : ThreadTime(v))'
  <2> SUFFICES ASSUME NEW v \in Threads PROVE ThreadTime(v)'
    OBVIOUS
  <2>1. CASE v = t
    <3>1. walk'[v].pc = "off"
      BY <1>102, <1>1, <1>2, <2>1 DEF TimerWaits, Runs, Free, InCall, FunOK
    <3>2. node'[n].time = x /\ \A m \in Nodes : m # n => node'[m] = node[m]
      BY <1>102, <1>1 DEF TimerWaits, Grown, FunOK
    <3>3. Near(now, x) /\ UNCHANGED now
      BY <1>102 DEF TimerWaits, Runs
    <3>4. ToSet(queue'[v]) = Listed(v) \cup {n}
      BY <1>102, <2>1 DEF TimerWaits, Grown
    <3> QED BY <1>1, <1>5, <3>1, <3>2, <3>3, <3>4 DEF ThreadTime, Listed
  <2>2. CASE v # t
    <3>1. UNCHANGED <<now, walk>> /\ queue'[v] = queue[v] /\ \A m \in Listed(v) : node'[m] = node[m]
      BY <1>102, <1>1, <1>5, <2>2 DEF TimerWaits, Grown, FunOK
    <3>2. walk[v].pc = "swap" => Head(queue[v]) \in Listed(v)
      BY <1>5, <1>6 DEF WalkAt
    <3> QED BY <1>1, <3>1, <3>2 DEF ThreadTime, Listed
  <2> QED BY <2>1, <2>2
<1>103. ASSUME NEW p \in Alts, NEW t \in Threads, NEW g \in Delays, TaltEnables(p, t, g)
       PROVE  (\A v \in Threads : ThreadTime(v))'
  <2> SUFFICES ASSUME NEW v \in Threads PROVE ThreadTime(v)'
    OBVIOUS
  <2> QED BY <1>103, <1>1, <1>5 DEF TaltEnables, alt, Starts, mem, InCall, ThreadTime, Listed,
     FunOK
<1>104. ASSUME NEW p \in Alts, NEW t \in Threads, NEW g \in Delays, TaltWritten(p, t, g)
       PROVE  (\A v \in Threads : ThreadTime(v))'
  <2> SUFFICES ASSUME NEW v \in Threads PROVE ThreadTime(v)'
    OBVIOUS
  <2> QED BY <1>104, <1>1, <1>5 DEF TaltWritten, Starts, mem, InCall, ThreadTime, Listed, FunOK
<1>105. ASSUME NEW p \in Alts, EnbReady(p) PROVE (\A v \in Threads : ThreadTime(v))'
  <2> SUFFICES ASSUME NEW v \in Threads PROVE ThreadTime(v)'
    OBVIOUS
  <2> QED BY <1>105, <1>1, <1>5 DEF EnbReady, GoesOn, Enables, Set, Runs, mem, InCall, ThreadTime,
     Listed, FunOK
<1>106. ASSUME NEW p \in Alts, EnbNext(p) PROVE (\A v \in Threads : ThreadTime(v))'
  <2> SUFFICES ASSUME NEW v \in Threads PROVE ThreadTime(v)'
    OBVIOUS
  <2> QED BY <1>106, <1>1, <1>5 DEF EnbNext, EnbLater, EnbField, Enables, Runs, mem, InCall,
     ThreadTime, Listed, FunOK
<1>107. ASSUME NEW p \in Alts, EnbLast(p) PROVE (\A v \in Threads : ThreadTime(v))'
  <2> SUFFICES ASSUME NEW v \in Threads PROVE ThreadTime(v)'
    OBVIOUS
  <2> QED BY <1>107, <1>1, <1>5 DEF EnbLast, EnbLater, EnbField, Enables, Runs, mem, InCall,
     ThreadTime, Listed, FunOK
<1>108. ASSUME NEW p \in Alts, DistFired(p) PROVE (\A v \in Threads : ThreadTime(v))'
  <2> SUFFICES ASSUME NEW v \in Threads PROVE ThreadTime(v)'
    OBVIOUS
  <2> QED BY <1>108, <1>1, <1>5 DEF DistFired, Runs, Set, AltStep, mem, InCall, ThreadTime, Listed,
     FunOK
<1>109. ASSUME NEW p \in Alts, DiscAlt(p) PROVE (\A v \in Threads : ThreadTime(v))'
  <2> SUFFICES ASSUME NEW v \in Threads PROVE ThreadTime(v)'
    OBVIOUS
  <2> QED BY <1>109, <1>1, <1>5 DEF DiscAlt, alt, Discs, Runs, mem, InCall, ThreadTime, Listed,
     FunOK
<1>110. ASSUME NEW p \in Alts, DiscWriter(p) PROVE (\A v \in Threads : ThreadTime(v))'
  <2> SUFFICES ASSUME NEW v \in Threads PROVE ThreadTime(v)'
    OBVIOUS
  <2> QED BY <1>110, <1>1, <1>5 DEF DiscWriter, Discs, Runs, mem, InCall, ThreadTime, Listed, FunOK
<1>111. ASSUME NEW p \in Alts, EndsNow(p) PROVE (\A v \in Threads : ThreadTime(v))'
  <2> SUFFICES ASSUME NEW v \in Threads PROVE ThreadTime(v)'
    OBVIOUS
  <2> QED BY <1>111, <1>1, <1>5 DEF EndsNow, Ends, Runs, mem, InCall, ThreadTime, Listed, FunOK
<1>112. ASSUME NEW p \in Alts, EndWaits(p) PROVE (\A v \in Threads : ThreadTime(v))'
  <2> SUFFICES ASSUME NEW v \in Threads PROVE ThreadTime(v)'
    OBVIOUS
  <2> QED BY <1>112, <1>1, <1>5 DEF EndWaits, Ends, Runs, mem, InCall, ThreadTime, Listed, FunOK
<1>113. ASSUME NEW p \in Alts, Select(p) PROVE (\A v \in Threads : ThreadTime(v))'
  <2> SUFFICES ASSUME NEW v \in Threads PROVE ThreadTime(v)'
    OBVIOUS
  <2> QED BY <1>113, <1>1, <1>5 DEF Select, Runs, Set, AltStep, mem, alt, InCall, ThreadTime,
     Listed, FunOK
<1>114. ASSUME NEW p \in Alts, Write(p) PROVE (\A v \in Threads : ThreadTime(v))'
  <2> SUFFICES ASSUME NEW v \in Threads PROVE ThreadTime(v)'
    OBVIOUS
  <2> QED BY <1>114, <1>1, <1>5 DEF Write, Set, mem, where, alt, ThreadTime, Listed, FunOK
<1>115. ASSUME NEW p \in Alts, TaltwtGoes(p) PROVE (\A v \in Threads : ThreadTime(v))'
  <2> SUFFICES ASSUME NEW v \in Threads PROVE ThreadTime(v)'
    OBVIOUS
  <2> QED BY <1>115, <1>1, <1>5 DEF TaltwtGoes, Runs, GoesOn, mem, InCall, Set, ThreadTime, Listed,
     FunOK
<1>116. ASSUME NEW p \in Alts, CasWaits(p) PROVE (\A v \in Threads : ThreadTime(v))'
  <2> SUFFICES ASSUME NEW v \in Threads PROVE ThreadTime(v)'
    OBVIOUS
  <2> QED BY <1>116, <1>1, <1>5 DEF CasWaits, Runs, mem, InCall, ThreadTime, Listed, FunOK
<1>117. ASSUME NEW p \in Alts, CasGoes(p) PROVE (\A v \in Threads : ThreadTime(v))'
  <2> SUFFICES ASSUME NEW v \in Threads PROVE ThreadTime(v)'
    OBVIOUS
  <2>1. \A m \in Nodes : node'[m].time = node[m].time
    BY <1>117, <1>1, <1>4, <1>5, NodeReads DEF CasGoes, GoesOn, Set, FunOK
  <2>2. UNCHANGED now /\ on[p] \in Threads
    BY <1>117, <1>1, <1>2 DEF CasGoes, GoesOn, Set, FunOK
  <2>3. CASE v = on[p]
    <3>1. walk'[v].pc # "swap" /\ (walk'[v].pc = "off" \/ (walk[v].pc # "off" /\ walk'[v].now = walk[v].now))
      BY <1>117, <1>1, <1>2, <1>3, <2>3, WalkReads, <1>10 DEF CasGoes, GoesOn, Set, Runs, Free, InCall, CallAt, FunOK
    <3>2. ToSet(queue'[v]) \subseteq Listed(v)
      BY <1>117, <2>3 DEF CasGoes, GoesOn, Set, Shrunk
    <3> QED BY <1>1, <1>5, <2>1, <2>2, <3>1, <3>2 DEF ThreadTime, Listed
  <2>4. CASE v # on[p]
    <3>1. queue'[v] = queue[v] /\ walk'[v] = walk[v]
      BY <1>117, <1>1, <2>2, <2>4 DEF CasGoes, GoesOn, Set, Shrunk, FunOK
    <3>2. walk[v].pc = "swap" => Head(queue[v]) \in Nodes
      BY <1>5, <1>6 DEF WalkAt
    <3> QED BY <1>1, <1>5, <2>1, <2>2, <3>1, <3>2 DEF ThreadTime, Listed
  <2> QED BY <2>3, <2>4
<1>118. ASSUME NEW p \in Alts, DistHere(p) PROVE (\A v \in Threads : ThreadTime(v))'
  <2> SUFFICES ASSUME NEW v \in Threads PROVE ThreadTime(v)'
    OBVIOUS
  <2>1. \A m \in Nodes : node'[m].time = node[m].time
    BY <1>118, <1>1, <1>4, <1>5, NodeReads DEF DistHere, DistTakes, FunOK
  <2>2. UNCHANGED now /\ on[p] \in Threads
    BY <1>118, <1>1, <1>2 DEF DistHere, DistTakes, FunOK
  <2>3. CASE v = on[p]
    <3>1. walk'[v].pc # "swap" /\ (walk'[v].pc = "off" \/ (walk[v].pc # "off" /\ walk'[v].now = walk[v].now))
      BY <1>118, <1>1, <1>2, <1>3, <2>3, WalkReads, <1>10 DEF DistHere, DistTakes, Runs, Free, InCall, CallAt, FunOK
    <3>2. ToSet(queue'[v]) \subseteq Listed(v)
      BY <1>118, <2>3 DEF DistHere, DistTakes, Shrunk
    <3> QED BY <1>1, <1>5, <2>1, <2>2, <3>1, <3>2 DEF ThreadTime, Listed
  <2>4. CASE v # on[p]
    <3>1. queue'[v] = queue[v] /\ walk'[v] = walk[v]
      BY <1>118, <1>1, <2>2, <2>4 DEF DistHere, DistTakes, Shrunk, FunOK
    <3>2. walk[v].pc = "swap" => Head(queue[v]) \in Nodes
      BY <1>5, <1>6 DEF WalkAt
    <3> QED BY <1>1, <1>5, <2>1, <2>2, <3>1, <3>2 DEF ThreadTime, Listed
  <2> QED BY <2>3, <2>4
<1>119. ASSUME NEW p \in Alts, DistThere(p) PROVE (\A v \in Threads : ThreadTime(v))'
  <2> SUFFICES ASSUME NEW v \in Threads PROVE ThreadTime(v)'
    OBVIOUS
  <2> QED BY <1>119, <1>1, <1>5, <1>4, NodeReads DEF DistThere, DistTakes, Runs, InCall,
     ThreadTime, Listed, FunOK
<1>120. ASSUME NEW p \in Alts, DistSets(p), NextGuard(p)
       PROVE  (\A v \in Threads : ThreadTime(v))'
  <2> SUFFICES ASSUME NEW v \in Threads PROVE ThreadTime(v)'
    OBVIOUS
  <2> QED BY <1>120, <1>1, <1>5 DEF DistSets, NextGuard, Runs, mem, Reached, InCall, ThreadTime,
     Listed, FunOK
<1>121. ASSUME NEW p \in Alts, DistSets(p), LastGuard(p)
       PROVE  (\A v \in Threads : ThreadTime(v))'
  <2> SUFFICES ASSUME NEW v \in Threads PROVE ThreadTime(v)'
    OBVIOUS
  <2> QED BY <1>121, <1>1, <1>5 DEF DistSets, LastGuard, Runs, mem, Reached, InCall, ThreadTime,
     Listed, FunOK
<1>122. ASSUME NEW p \in Alts, Releases(p), NextGuard(p)
       PROVE  (\A v \in Threads : ThreadTime(v))'
  <2> SUFFICES ASSUME NEW v \in Threads PROVE ThreadTime(v)'
    OBVIOUS
  <2> QED BY <1>122, <1>1, <1>5 DEF Releases, NextGuard, Runs, Release, InCall, ThreadTime, Listed,
     FunOK
<1>123. ASSUME NEW p \in Alts, Releases(p), LastGuard(p)
       PROVE  (\A v \in Threads : ThreadTime(v))'
  <2> SUFFICES ASSUME NEW v \in Threads PROVE ThreadTime(v)'
    OBVIOUS
  <2> QED BY <1>123, <1>1, <1>5 DEF Releases, LastGuard, Runs, Release, InCall, ThreadTime, Listed,
     FunOK
<1>124. ASSUME NEW p \in Alts, NEW n \in Nodes, TaltwtWaits(p, n)
       PROVE  (\A v \in Threads : ThreadTime(v))'
  <2> SUFFICES ASSUME NEW v \in Threads PROVE ThreadTime(v)'
    OBVIOUS
  <2>1. CASE v = on[p]
    <3>1. walk'[v].pc = "off"
      BY <1>124, <1>1, <1>2, <2>1 DEF TaltwtWaits, Runs, Free, InCall, FunOK
    <3>2. node'[n].time = field[p] /\ \A m \in Nodes : m # n => node'[m] = node[m]
      BY <1>124, <1>1 DEF TaltwtWaits, Grown, FunOK
    <3>3. Near(now, field[p]) /\ UNCHANGED now
      BY <1>124, <1>9 DEF TaltwtWaits, Runs
    <3>4. ToSet(queue'[v]) = Listed(v) \cup {n}
      BY <1>124, <2>1 DEF TaltwtWaits, Grown
    <3> QED BY <1>1, <1>5, <3>1, <3>2, <3>3, <3>4 DEF ThreadTime, Listed
  <2>2. CASE v # on[p]
    <3>1. UNCHANGED <<now, walk>> /\ queue'[v] = queue[v] /\ \A m \in Listed(v) : node'[m] = node[m]
      BY <1>124, <1>1, <1>5, <2>2 DEF TaltwtWaits, Grown, FunOK
    <3>2. walk[v].pc = "swap" => Head(queue[v]) \in Listed(v)
      BY <1>5, <1>6 DEF WalkAt
    <3> QED BY <1>1, <3>1, <3>2 DEF ThreadTime, Listed
  <2> QED BY <2>1, <2>2
<1>125. ASSUME NEW p \in Alts, Written(p), NoneComes(p)
       PROVE  (\A v \in Threads : ThreadTime(v))'
  <2> SUFFICES ASSUME NEW v \in Threads PROVE ThreadTime(v)'
    OBVIOUS
  <2> QED BY <1>125, <1>1, <1>5 DEF Written, NoneComes, mem, where, Counted, ThreadTime, Listed,
     FunOK
<1>126. ASSUME NEW p \in Alts, NEW u \in Threads, Written(p), GuardComes(p, u)
       PROVE  (\A v \in Threads : ThreadTime(v))'
  <2> SUFFICES ASSUME NEW v \in Threads PROVE ThreadTime(v)'
    OBVIOUS
  <2> QED BY <1>126, <1>1, <1>5 DEF Written, GuardComes, mem, Counted, ThreadTime, Listed, FunOK
<1>127. ASSUME NEW p \in Alts, NEW u \in Threads, Written(p), EndComes(p, u)
       PROVE  (\A v \in Threads : ThreadTime(v))'
  <2> SUFFICES ASSUME NEW v \in Threads PROVE ThreadTime(v)'
    OBVIOUS
  <2> QED BY <1>127, <1>1, <1>5 DEF Written, EndComes, mem, Counted, ThreadTime, Listed, FunOK
<1>128. ASSUME NEW t \in Threads, Check(t) PROVE (\A v \in Threads : ThreadTime(v))'
  <2> SUFFICES ASSUME NEW v \in Threads PROVE ThreadTime(v)'
    OBVIOUS
  <2>1. /\ walk'[t].pc = "look" /\ walk'[t].now = now /\ \A u \in Threads : u # t => walk'[u] = walk[u]
    BY <1>128, <1>1, <1>3, WalkReads DEF Check, Started, Set, FunOK
  <2>2. UNCHANGED <<now, queue, node>>
    BY <1>128 DEF Check, mem
  <2> QED BY <1>1, <1>7, <2>1, <2>2 DEF ThreadTime, Listed, Past
<1>129. ASSUME NEW t \in Threads, EndWalk(t) PROVE (\A v \in Threads : ThreadTime(v))'
  <2> SUFFICES ASSUME NEW v \in Threads PROVE ThreadTime(v)'
    OBVIOUS
  <2> QED BY <1>129, <1>1, <1>5, <1>3, <1>6, WalkReads DEF EndWalk, mem, where, alt, Walk, Set,
     ThreadTime, Listed, FunOK, WalkAt
<1>130. ASSUME NEW t \in Threads, WalkAlt(t) PROVE (\A v \in Threads : ThreadTime(v))'
  <2> SUFFICES ASSUME NEW v \in Threads PROVE ThreadTime(v)'
    OBVIOUS
  <2> DEFINE h == Head(queue[t])
  <2>1. /\ UNCHANGED <<now, queue>> /\ queue[t] # <<>> /\ walk[t].pc = "look" /\ h \in Nodes
        /\ node' = [node EXCEPT ![h] = [node[h] EXCEPT !.time = walk[t].now]]
        /\ walk'[t].pc = "swap" /\ walk'[t].now = walk[t].now /\ \A u \in Threads : u # t => walk'[u] = walk[u]
    BY <1>130, <1>1, <1>3, <1>5, WalkReads DEF WalkAlt, Expired, Walk, Set, FunOK
  <2>2. \A v2 \in Threads : v2 # t /\ walk[v2].pc = "swap" => Head(queue[v2]) # h /\ Head(queue[v2]) \in Nodes
    BY <1>5, <1>6, <1>8, <2>1 DEF WalkAt
  <2> HIDE DEF h
  <2>3. node'[h].time = walk[t].now /\ \A m \in Nodes : m # h => node'[m] = node[m]
    BY <1>1, <1>4, <2>1, NodeReads DEF FunOK
  <2>4. Past(now, walk[t].now) /\ Near(now, walk[t].now)
    <3>1. Past(now, walk[t].now)
      BY <1>1, <2>1 DEF ThreadTime
    <3> QED BY <1>7, <3>1 DEF Past, Near
  <2>5. \A n \in Listed(v) : Near(now', node'[n].time)
    BY <1>1, <1>5, <2>1, <2>3, <2>4 DEF ThreadTime
  <2>6. CASE v = t
    BY <2>1, <2>3, <2>4, <2>5, <2>6 DEF ThreadTime, Listed, h
  <2>7. CASE v # t
    BY <1>1, <2>1, <2>2, <2>3, <2>5, <2>7 DEF ThreadTime, Listed
  <2> QED BY <2>6, <2>7
<1>131. ASSUME NEW t \in Threads, WalkSwap(t) PROVE (\A v \in Threads : ThreadTime(v))'
  <2> SUFFICES ASSUME NEW v \in Threads PROVE ThreadTime(v)'
    OBVIOUS
  <2> QED BY <1>131, <1>1, <1>5, <1>3, <1>6, WalkReads, <1>4, NodeReads DEF WalkSwap, Set, where,
     alt, ThreadTime, Listed, FunOK, WalkAt
<1>132. ASSUME NEW t \in Threads, Sweeps(t) PROVE (\A v \in Threads : ThreadTime(v))'
  <2> SUFFICES ASSUME NEW v \in Threads PROVE ThreadTime(v)'
    OBVIOUS
  <2>1. \A m \in Nodes : node'[m].time = node[m].time
    BY <1>132, <1>1, <1>4, NodeReads DEF Sweeps
  <2>2. UNCHANGED now
    BY <1>132 DEF Sweeps
  <2>3. CASE v = t
    <3>1. ToSet(queue'[v]) \subseteq Listed(v) /\ walk[v].pc = "off"
      BY <1>132, <2>3 DEF Sweeps, Shrunk, Free
    <3>2. CASE Started(t)
      <4>1. walk'[v].pc = "look" /\ walk'[v].now = now
        BY <1>1, <1>3, <2>3, <3>2, WalkReads DEF Started, Set, FunOK
      <4> QED BY <1>1, <1>5, <1>7, <2>1, <2>2, <3>1, <4>1 DEF ThreadTime, Listed, Past
    <3>3. CASE UNCHANGED walk
      BY <1>1, <1>5, <2>1, <2>2, <3>1, <3>3 DEF ThreadTime, Listed
    <3> QED BY <1>132, <3>2, <3>3 DEF Sweeps
  <2>4. CASE v # t
    <3>1. queue'[v] = queue[v]
      BY <1>132, <2>4 DEF Sweeps, Shrunk
    <3>3. walk'[v] = walk[v]
      <4>1. ASSUME Started(t) PROVE walk'[v] = walk[v]
        BY <1>1, <2>4, <4>1 DEF Started, Set, FunOK
      <4> QED BY <1>132, <4>1 DEF Sweeps
    <3>4. walk[v].pc = "swap" => Head(queue[v]) \in Nodes
      BY <1>5, <1>6 DEF WalkAt
    <3> QED BY <1>1, <1>5, <2>1, <2>2, <3>1, <3>3, <3>4 DEF ThreadTime, Listed
  <2> QED BY <2>3, <2>4
<1>133. ASSUME NEW t \in Threads, WalkDead(t), Shrunk(t, {Head(queue[t])})
       PROVE  (\A v \in Threads : ThreadTime(v))'
  <2> SUFFICES ASSUME NEW v \in Threads PROVE ThreadTime(v)'
    OBVIOUS
  <2>1. \A m \in Nodes : node'[m].time = node[m].time
    BY <1>133, <1>1, <1>4, <1>5, NodeReads DEF WalkDead, Expired, Set, FunOK
  <2>2. UNCHANGED now /\ t \in Threads
    BY <1>133, <1>1, <1>2 DEF WalkDead, Expired, Set, FunOK
  <2>3. CASE v = t
    <3>1. walk'[v].pc # "swap" /\ (walk'[v].pc = "off" \/ (walk[v].pc # "off" /\ walk'[v].now = walk[v].now))
      BY <1>133, <1>1, <1>2, <1>3, <2>3, WalkReads DEF WalkDead, Expired, Set, Runs, Free, InCall, CallAt, FunOK
    <3>2. ToSet(queue'[v]) \subseteq Listed(v)
      BY <1>133, <2>3 DEF WalkDead, Expired, Set, Shrunk
    <3> QED BY <1>1, <1>5, <2>1, <2>2, <3>1, <3>2 DEF ThreadTime, Listed
  <2>4. CASE v # t
    <3>1. queue'[v] = queue[v] /\ walk'[v] = walk[v]
      BY <1>133, <1>1, <2>2, <2>4 DEF WalkDead, Expired, Set, Shrunk, FunOK
    <3>2. walk[v].pc = "swap" => Head(queue[v]) \in Nodes
      BY <1>5, <1>6 DEF WalkAt
    <3> QED BY <1>1, <1>5, <2>1, <2>2, <3>1, <3>2 DEF ThreadTime, Listed
  <2> QED BY <2>3, <2>4
<1>134. ASSUME NEW t \in Threads, WalkClean(t), Shrunk(t, {Head(queue[t])})
       PROVE  (\A v \in Threads : ThreadTime(v))'
  <2> SUFFICES ASSUME NEW v \in Threads PROVE ThreadTime(v)'
    OBVIOUS
  <2>1. \A m \in Nodes : node'[m].time = node[m].time
    BY <1>134, <1>1, <1>4, <1>5, <1>6, NodeReads DEF WalkClean, Walk, Set, WalkAt, FunOK
  <2>2. UNCHANGED now /\ t \in Threads
    BY <1>134, <1>1, <1>2 DEF WalkClean, Walk, Set, WalkAt, FunOK
  <2>3. CASE v = t
    <3>1. walk'[v].pc # "swap" /\ (walk'[v].pc = "off" \/ (walk[v].pc # "off" /\ walk'[v].now = walk[v].now))
      BY <1>134, <1>1, <1>2, <1>3, <2>3, WalkReads, <1>6 DEF WalkClean, Walk, Set, WalkAt, Runs, Free, InCall, CallAt, FunOK
    <3>2. ToSet(queue'[v]) \subseteq Listed(v)
      BY <1>134, <2>3 DEF WalkClean, Walk, Set, WalkAt, Shrunk
    <3> QED BY <1>1, <1>5, <2>1, <2>2, <3>1, <3>2 DEF ThreadTime, Listed
  <2>4. CASE v # t
    <3>1. queue'[v] = queue[v] /\ walk'[v] = walk[v]
      BY <1>134, <1>1, <2>2, <2>4 DEF WalkClean, Walk, Set, WalkAt, Shrunk, FunOK
    <3>2. walk[v].pc = "swap" => Head(queue[v]) \in Nodes
      BY <1>5, <1>6 DEF WalkAt
    <3> QED BY <1>1, <1>5, <2>1, <2>2, <3>1, <3>2 DEF ThreadTime, Listed
  <2> QED BY <2>3, <2>4
<1>135. ASSUME NEW t \in Threads, NEW n \in Nodes, NEW p \in Sleepers, NEW u \in Threads, SleeperWakes(t, n, p, u)
       PROVE  (\A v \in Threads : ThreadTime(v))'
  <2> SUFFICES ASSUME NEW v \in Threads PROVE ThreadTime(v)'
    OBVIOUS
  <2>1. \A m \in Nodes : node'[m].time = node[m].time
    BY <1>135, <1>1, <1>4, <1>5, NodeReads DEF SleeperWakes, Expired, FunOK
  <2>2. UNCHANGED now /\ t \in Threads
    BY <1>135, <1>1, <1>2 DEF SleeperWakes, Expired, FunOK
  <2>3. CASE v = t
    <3>1. walk'[v].pc # "swap" /\ (walk'[v].pc = "off" \/ (walk[v].pc # "off" /\ walk'[v].now = walk[v].now))
      BY <1>135, <1>1, <1>2, <1>3, <2>3, WalkReads DEF SleeperWakes, Expired, Runs, Free, InCall, CallAt, FunOK
    <3>2. ToSet(queue'[v]) \subseteq Listed(v)
      BY <1>135, <2>3 DEF SleeperWakes, Expired, Shrunk
    <3> QED BY <1>1, <1>5, <2>1, <2>2, <3>1, <3>2 DEF ThreadTime, Listed
  <2>4. CASE v # t
    <3>1. queue'[v] = queue[v] /\ walk'[v] = walk[v]
      BY <1>135, <1>1, <2>2, <2>4 DEF SleeperWakes, Expired, Shrunk, FunOK
    <3>2. walk[v].pc = "swap" => Head(queue[v]) \in Nodes
      BY <1>5, <1>6 DEF WalkAt
    <3> QED BY <1>1, <1>5, <2>1, <2>2, <3>1, <3>2 DEF ThreadTime, Listed
  <2> QED BY <2>3, <2>4
<1>136. ASSUME NEW t \in Threads, NEW p \in Alts, Timed(t, p), NoneComes(p)
       PROVE  (\A v \in Threads : ThreadTime(v))'
  <2> SUFFICES ASSUME NEW v \in Threads PROVE ThreadTime(v)'
    OBVIOUS
  <2> QED BY <1>136, <1>1, <1>5, <1>3, <1>6, WalkReads DEF Timed, NoneComes, mem, Triggers, where,
     Counted, ThreadTime, Listed, FunOK, WalkAt
<1>137. ASSUME NEW t \in Threads, NEW p \in Alts, NEW u \in Threads, Timed(t, p), GuardComes(p, u)
       PROVE  (\A v \in Threads : ThreadTime(v))'
  <2> SUFFICES ASSUME NEW v \in Threads PROVE ThreadTime(v)'
    OBVIOUS
  <2> QED BY <1>137, <1>1, <1>5, <1>3, <1>6, WalkReads DEF Timed, GuardComes, mem, Triggers,
     Counted, ThreadTime, Listed, FunOK, WalkAt
<1>138. ASSUME NEW t \in Threads, NEW p \in Alts, NEW u \in Threads, Timed(t, p), EndComes(p, u)
       PROVE  (\A v \in Threads : ThreadTime(v))'
  <2> SUFFICES ASSUME NEW v \in Threads PROVE ThreadTime(v)'
    OBVIOUS
  <2> QED BY <1>138, <1>1, <1>5, <1>3, <1>6, WalkReads DEF Timed, EndComes, mem, Triggers, Counted,
     ThreadTime, Listed, FunOK, WalkAt
<1>139. ASSUME UNCHANGED vars PROVE (\A v \in Threads : ThreadTime(v))'
  BY <1>139, <1>1 DEF vars, mem, where, alt, ThreadTime, Listed
<1> QED BY <1>101, <1>102, <1>103, <1>104, <1>105, <1>106, <1>107, <1>108, <1>109, <1>110,
   <1>111, <1>112, <1>113, <1>114, <1>115, <1>116, <1>117, <1>118, <1>119, <1>120, <1>121,
   <1>122, <1>123, <1>124, <1>125, <1>126, <1>127, <1>128, <1>129, <1>130, <1>131, <1>132,
   <1>133, <1>134, <1>135, <1>136, <1>137, <1>138, <1>139 DEF Form, AltForm, WalkForm

\* What an ALT's times depend on.
LEMMA AltTimeSame ==
  ASSUME NEW q \in Alts, AltTime(q), UNCHANGED now, pc'[q] = pc[q], guards'[q] = guards[q],
         field'[q] = field[q], tlink'[q] = tlink[q], k'[q] = k[q],
         tlink[q] \in Nodes => /\ node'[tlink[q]].time = node[tlink[q]].time
                               /\ node'[tlink[q]].wptr = None => node[tlink[q]].wptr = None
  PROVE  AltTime(q)'
<1>1. EnableOK(q)'
  BY DEF AltTime, EnableOK, GuardRel, FieldRel
<1>2. pc'[q] \in {"dist", "release"} /\ tlink'[q] = "set" => Fired(q, field[q])'
  BY DEF AltTime, Fired, Lags, GuardRel
<1>3. tlink'[q] \in Nodes =>
        /\ \E g \in 1..Guards : GuardRel(q, g)' <= Rel(now', node'[tlink'[q]].time)
        /\ Lags(q, node[tlink[q]].time)'
        /\ node'[tlink'[q]].wptr = None => Rel(now', node'[tlink'[q]].time) <= 0
  BY DEF AltTime, Lags, GuardRel
<1>4. pc'[q] # "idle" => \A g \in 1..Guards : Near(now', guards'[q][g])
  BY DEF AltTime
<1> QED BY <1>1, <1>2, <1>3, <1>4 DEF AltTime

LEMMA AltTimeMoves ==
  ASSUME NEW q \in Alts, AltTime(q), UNCHANGED now, guards'[q] = guards[q], field'[q] = field[q],
         pc[q] # "idle", pc'[q] \notin {"enbt", "taltwt", "cas"},
         tlink'[q] = tlink[q] \/ tlink'[q] \notin Nodes \cup {"set"},
         pc'[q] \in {"dist", "release"} /\ tlink'[q] = "set" => pc[q] \in {"dist", "release"},
         tlink'[q] \in Nodes => node'[tlink[q]] = node[tlink[q]]
  PROVE  AltTime(q)'
<1>1. EnableOK(q)'
  BY DEF EnableOK
<1>2. pc'[q] \in {"dist", "release"} /\ tlink'[q] = "set" => Fired(q, field[q])'
  BY DEF AltTime, Fired, Lags, GuardRel
<1>3. tlink'[q] \in Nodes =>
        /\ \E g \in 1..Guards : GuardRel(q, g)' <= Rel(now', node'[tlink'[q]].time)
        /\ Lags(q, node[tlink[q]].time)'
        /\ node'[tlink'[q]].wptr = None => Rel(now', node'[tlink'[q]].time) <= 0
  BY DEF AltTime, Lags, GuardRel
<1>4. pc'[q] # "idle" => \A g \in 1..Guards : Near(now', guards'[q][g])
  BY DEF AltTime
<1> QED BY <1>1, <1>2, <1>3, <1>4 DEF AltTime

LEMMA AltTimeGoes ==
  ASSUME NEW q \in Alts, AltTime(q), UNCHANGED now, guards'[q] = guards[q], pc[q] # "idle",
         pc'[q] \in {"dist", "release"}, tlink'[q] \notin Nodes, NEW x, field'[q] = x, Fired(q, x)
  PROVE  AltTime(q)'
<1>1. EnableOK(q)'
  BY DEF EnableOK
<1>2. Fired(q, field[q])'
  BY DEF Fired, Lags, GuardRel
<1>4. pc'[q] # "idle" => \A g \in 1..Guards : Near(now', guards'[q][g])
  BY DEF AltTime
<1> QED BY <1>1, <1>2, <1>4 DEF AltTime

\* The times of an ALT.
LEMMA AltTimeStep ==
  ASSUME IInv, Form PROVE (\A q \in Alts : AltTime(q))'
<1>1. FunOK /\ \A q \in Alts : AltTime(q)
  BY DEF IInv, TimeOK, MemInv
<1>2. /\ Sleepers \cap Alts = {} /\ Alts \subseteq Procs /\ Sleepers \subseteq Procs
      /\ None \notin Procs /\ None \notin Nodes /\ "set" \notin Nodes /\ "notset" \notin Nodes
  BY ConstFacts
<1>3. \A q \in Alts, g \in 1..Guards : /\ guards[q][g] \in Times /\ GuardRel(q, g) \in Int /\ GuardRel(q, g) = Rel(now, guards[q][g])
                                       /\ pc[q] # "idle" => GuardRel(q, g) \in -Slack .. MaxDelay
  <2>1. \A q \in Alts, g \in 1..Guards : guards[q][g] \in Times
    BY <1>1 DEF FunOK
  <2> QED BY <1>1, <2>1, RelIs DEF FunOK, AltTime, Near, GuardRel
<1>4. \A n \in Nodes : node[n] \in NodeT /\ node[n].time \in Times
  BY <1>1, TypesOfNode DEF FunOK
<1>5. \A q \in Alts : field[q] \in Times /\ FieldRel(q) \in Int /\ k[q] \in 1..Guards
  BY <1>1, RelIs DEF FunOK, FieldRel
<1>6. \A q \in Alts : RefAt(q)
  BY DEF IInv, MemInv, RefOK
<1>7. /\ now \in Times /\ Rel(now, now) = 0 /\ Slack \in Nat /\ MaxDelay \in Nat /\ MaxDelay + Slack < Half
      /\ Half \in Nat /\ Guards \in Nat /\ Guards >= 1 /\ MaxDelay >= 1
  BY <1>1, RelNow, Sizes DEF FunOK
<1>8. \A x, y \in Times : /\ Rel(now, x) \in Int /\ Rel(now, y) \in Int
                          /\ Rel(now, x) - Rel(now, y) < Half /\ Rel(now, y) - Rel(now, x) < Half
                               => (After(x, y) <=> Rel(now, x) > Rel(now, y))
  BY <1>7, AfterRel, RelIs
<1>9. \A t \in Threads : queue[t] # <<>> => Head(queue[t]) \in Nodes /\ LinkAt(t, Head(queue[t]))
  BY TypesOfQueue DEF IInv, MemInv, FunOK, LinkOK
<1>11. \A q \in Alts : pc[q] \notin RefPC => tlink[q] \notin Nodes
  BY <1>6 DEF RefAt
<1>10. \A g \in Delays, i \in 1..Guards : Near(now, g[i])
  <2>1. \A d \in 1..MaxDelay : Near(now, Future(d))
    BY <1>7, NextRange
  <2> QED BY <2>1 DEF Delays
<1>12. ASSUME NEW t \in Threads
       PROVE  /\ walk[t].pc # "off" => Past(now, walk[t].now)
              /\ walk[t].pc = "swap" => node[Head(queue[t])].time = walk[t].now /\ queue[t] # <<>>
  BY DEF IInv, MemInv, TimeOK, ThreadTime, WalkOK, WalkAt
<1>13. \A t \in Threads : queue[t] # <<>> => Near(now, node[Head(queue[t])].time)
  BY TypesOfQueue DEF IInv, MemInv, TimeOK, ThreadTime
<1>101. ASSUME Tick PROVE (\A q \in Alts : AltTime(q))'
  <2> SUFFICES ASSUME NEW q \in Alts PROVE AltTime(q)'
    OBVIOUS
  <2>1. UNCHANGED <<pc, guards, field, tlink, k, node>> /\ now' = Future(1)
    BY <1>101 DEF Tick, mem, where, alt
  <2>2. \A x \in Times : Rel(now, x) > -Half => Rel(now', x) = Rel(now, x) - 1
    BY <1>7, <2>1, TickRel
  <2>3. \A x \in Times : Rel(now, x) \in Int /\ (Rel(now, x) > -Half /\ ~Overdue(x) => Rel(now, x) > -Slack)
    BY <1>7, OverdueRel, RelIs
  <2>4. ASSUME pc[q] # "idle", NEW g \in 1..Guards
        PROVE  GuardRel(q, g)' = GuardRel(q, g) - 1 /\ Near(now', guards'[q][g])
    <3>1. ~Overdue(guards[q][g])
      BY <1>101, <2>4 DEF Tick, Uses
    <3>2. GuardRel(q, g) \in -Slack .. MaxDelay /\ GuardRel(q, g) = Rel(now, guards[q][g]) /\ guards[q][g] \in Times
      BY <1>3, <2>4
    <3>3. Rel(now', guards[q][g]) = Rel(now, guards[q][g]) - 1 /\ Rel(now, guards[q][g]) > -Slack
      BY <1>7, <2>2, <2>3, <3>1, <3>2
    <3> QED BY <1>7, <2>1, <3>2, <3>3 DEF Near, GuardRel
  <2>5. ASSUME NEW x \in Times, Lags(q, x), pc[q] # "idle" PROVE Rel(now', x) = Rel(now, x) - 1
    <3>1. 1 \in 1..Guards
      BY <1>7
    <3>2. GuardRel(q, 1) \in -Slack .. MaxDelay /\ GuardRel(q, 1) - Rel(now, x) <= MaxDelay
      BY <1>3, <2>5, <3>1 DEF Lags
    <3> QED BY <1>7, <2>2, <2>3, <3>2
  <2>6. EnableOK(q)'
    <3>1. ASSUME pc[q] \in {"enbt", "taltwt"}, tlink[q] = "set"
          PROVE  FieldRel(q)' = FieldRel(q) - 1 /\ \E g \in 1..Guards : field[q] = guards[q][g]
      <4>1. PICK h \in 1..Guards : field[q] = guards[q][h]
        BY <1>1, <3>1 DEF AltTime, EnableOK
      <4> QED BY <2>1, <2>4, <3>1, <4>1 DEF FieldRel, GuardRel
    <3>2. ASSUME pc[q] = "cas" PROVE FieldRel(q)' = FieldRel(q) - 1
      <4>1. Lags(q, field[q])
        BY <1>1, <1>3, <1>5, <3>2 DEF AltTime, EnableOK, Lags, FieldRel
      <4> QED BY <1>5, <2>1, <2>5, <3>2, <4>1 DEF FieldRel
    <3>3. EnableOK(q)
      BY <1>1 DEF AltTime
    <3>4. pc[q] \in {"enbt", "taltwt"} /\ tlink[q] = "set" =>
            \A g \in 1..Guards : g < k[q] \/ pc[q] = "taltwt" => FieldRel(q)' <= GuardRel(q, g)'
      BY <1>3, <1>5, <2>4, <3>1, <3>3 DEF EnableOK
    <3>5. pc[q] = "cas" => /\ FieldRel(q)' <= 0
                           /\ \A g \in 1..Guards : GuardRel(q, g)' - FieldRel(q)' \in 1..MaxDelay
      BY <1>3, <1>5, <2>4, <3>2, <3>3 DEF EnableOK
    <3> QED BY <2>1, <3>1, <3>3, <3>4, <3>5 DEF EnableOK
  <2>7. ASSUME NEW x \in Times, Lags(q, x), pc[q] # "idle"
        PROVE  \A g \in 1..Guards : GuardRel(q, g)' - Rel(now', x) <= MaxDelay
    BY <1>3, <2>3, <2>4, <2>5, <2>7 DEF Lags
  <2>8. pc[q] \in {"dist", "release"} /\ tlink[q] = "set" => Fired(q, field[q])'
    <3>1. ASSUME pc[q] \in {"dist", "release"}, tlink[q] = "set" PROVE Fired(q, field[q])'
      <4>1. Fired(q, field[q]) /\ field[q] \in Times /\ pc[q] # "idle"
        BY <1>1, <1>5, <3>1 DEF AltTime
      <4>2. Rel(now', field[q]) = Rel(now, field[q]) - 1
        BY <2>5, <4>1 DEF Fired
      <4>3. \A g \in 1..Guards : GuardRel(q, g)' - Rel(now', field[q]) <= MaxDelay
        BY <2>7, <4>1 DEF Fired
      <4> QED BY <2>1, <2>3, <4>1, <4>2, <4>3 DEF Fired, Lags
    <3> QED BY <3>1
  <2>9. ASSUME tlink[q] \in Nodes
        PROVE  /\ \E g \in 1..Guards : GuardRel(q, g)' <= Rel(now', node'[tlink'[q]].time)
               /\ Lags(q, node[tlink[q]].time)'
               /\ node'[tlink'[q]].wptr = None => Rel(now', node'[tlink'[q]].time) <= 0
    <3> DEFINE x == node[tlink[q]].time
    <3>1. /\ x \in Times /\ Lags(q, x) /\ pc[q] # "idle" /\ \E g \in 1..Guards : GuardRel(q, g) <= Rel(now, x)
          /\ node[tlink[q]].wptr = None => Rel(now, x) <= 0
      BY <1>1, <1>4, <1>6, <2>9 DEF AltTime, RefAt, RefPC
    <3>2. node'[tlink'[q]] = node[tlink[q]]
      BY <2>1
    <3>3. x' = x
      BY <2>1
    <3> HIDE DEF x
    <3>4. Rel(now', x) = Rel(now, x) - 1 /\ \A g \in 1..Guards : GuardRel(q, g)' - Rel(now', x) <= MaxDelay
      BY <2>5, <2>7, <3>1
    <3>5. \E g \in 1..Guards : GuardRel(q, g)' <= Rel(now', x)
      BY <1>3, <2>3, <2>4, <3>1, <3>4
    <3>6. Lags(q, x)'
      BY <3>3, <3>4 DEF Lags
    <3>7. node[tlink[q]].wptr = None => Rel(now', x) <= 0
      BY <2>3, <3>1, <3>4
    <3> QED BY <3>2, <3>3, <3>5, <3>6, <3>7 DEF x
  <2> QED BY <2>1, <2>4, <2>6, <2>8, <2>9 DEF AltTime
<1>102. ASSUME NEW p \in Sleepers, NEW t \in Threads, NEW x \in Times, NEW n \in Nodes, TimerWaits(p, t, x, n)
       PROVE  (\A q \in Alts : AltTime(q))'
  <2> SUFFICES ASSUME NEW q \in Alts PROVE AltTime(q)'
    OBVIOUS
  <2>1. tlink[q] \in Nodes =>
          /\ node'[tlink[q]].time = node[tlink[q]].time
          /\ node'[tlink[q]].wptr = None => node[tlink[q]].wptr = None
    <3>1. tlink[q] \in Nodes => tlink[q] # n
      BY <1>102, <1>6 DEF TimerWaits, Grown, Washed, RefAt
    <3> QED BY <1>102, <1>1, <3>1 DEF TimerWaits, Grown, FunOK
  <2>2. /\ pc'[q] = pc[q] /\ guards'[q] = guards[q] /\ field'[q] = field[q]
        /\ tlink'[q] = tlink[q] /\ k'[q] = k[q]
    BY <1>102, <1>1, <1>2 DEF TimerWaits, alt, InCall, FunOK
  <2>3. UNCHANGED now
    BY <1>102 DEF TimerWaits, alt, InCall
  <2> QED BY <1>1, <2>1, <2>2, <2>3, AltTimeSame
<1>103. ASSUME NEW p \in Alts, NEW t \in Threads, NEW g \in Delays, TaltEnables(p, t, g)
       PROVE  (\A q \in Alts : AltTime(q))'
  <2> SUFFICES ASSUME NEW q \in Alts PROVE AltTime(q)'
    OBVIOUS
  <2>1. tlink[q] \in Nodes /\ q # p =>
          /\ node'[tlink[q]].time = node[tlink[q]].time
          /\ node'[tlink[q]].wptr = None => node[tlink[q]].wptr = None
    BY <1>103, <1>1, <1>4, <1>6 DEF TaltEnables, alt, Starts, mem, InCall, RefAt, FunOK
  <2>2. q # p => /\ pc'[q] = pc[q] /\ guards'[q] = guards[q] /\ field'[q] = field[q]
                 /\ tlink'[q] = tlink[q] /\ k'[q] = k[q]
    BY <1>103, <1>1, <1>2 DEF TaltEnables, alt, Starts, mem, InCall, FunOK
  <2>3. UNCHANGED now
    BY <1>103 DEF TaltEnables, alt, Starts, mem, InCall
  <2>4. CASE q # p
    BY <1>1, <2>1, <2>2, <2>3, <2>4, AltTimeSame
  <2>5. CASE q = p
    <3>1. /\ guards'[p] = g /\ k'[p] = 1 /\ tlink'[p] = "notset"
          /\ pc'[p] = "enbt"
      BY <1>103, <1>1, <1>2 DEF TaltEnables, alt, Starts, mem, InCall, FunOK
    <3>2. \A i \in 1..Guards : Near(now, g[i])
      BY <1>103, <1>10
    <3> QED BY <1>2, <2>3, <2>5, <3>1, <3>2 DEF AltTime, EnableOK
  <2> QED BY <2>4, <2>5
<1>104. ASSUME NEW p \in Alts, NEW t \in Threads, NEW g \in Delays, TaltWritten(p, t, g)
       PROVE  (\A q \in Alts : AltTime(q))'
  <2> SUFFICES ASSUME NEW q \in Alts PROVE AltTime(q)'
    OBVIOUS
  <2>1. tlink[q] \in Nodes /\ q # p =>
          /\ node'[tlink[q]].time = node[tlink[q]].time
          /\ node'[tlink[q]].wptr = None => node[tlink[q]].wptr = None
    BY <1>104, <1>1, <1>4, <1>6 DEF TaltWritten, Starts, mem, InCall, RefAt, FunOK
  <2>2. q # p => /\ pc'[q] = pc[q] /\ guards'[q] = guards[q] /\ field'[q] = field[q]
                 /\ tlink'[q] = tlink[q] /\ k'[q] = k[q]
    BY <1>104, <1>1, <1>2 DEF TaltWritten, Starts, mem, InCall, FunOK
  <2>3. UNCHANGED now
    BY <1>104 DEF TaltWritten, Starts, mem, InCall
  <2>4. CASE q # p
    BY <1>1, <2>1, <2>2, <2>3, <2>4, AltTimeSame
  <2>5. CASE q = p
    <3>1. /\ guards'[p] = g /\ k'[p] = 1 /\ tlink'[p] = "notset"
          /\ pc'[p] = "disc"
      BY <1>104, <1>1, <1>2 DEF TaltWritten, Starts, mem, InCall, FunOK
    <3>2. \A i \in 1..Guards : Near(now, g[i])
      BY <1>104, <1>10
    <3> QED BY <1>2, <2>3, <2>5, <3>1, <3>2 DEF AltTime, EnableOK
  <2> QED BY <2>4, <2>5
<1>105. ASSUME NEW p \in Alts, EnbReady(p) PROVE (\A q \in Alts : AltTime(q))'
  <2> SUFFICES ASSUME NEW q \in Alts PROVE AltTime(q)'
    OBVIOUS
  <2>1. tlink[q] \in Nodes /\ q # p =>
          /\ node'[tlink[q]].time = node[tlink[q]].time
          /\ node'[tlink[q]].wptr = None => node[tlink[q]].wptr = None
    BY <1>105, <1>1, <1>4, <1>6 DEF EnbReady, GoesOn, Enables, Set, Runs, mem, InCall, RefAt, FunOK
  <2>2. q # p => /\ pc'[q] = pc[q] /\ guards'[q] = guards[q] /\ field'[q] = field[q]
                 /\ tlink'[q] = tlink[q] /\ k'[q] = k[q]
    BY <1>105, <1>1, <1>2 DEF EnbReady, GoesOn, Enables, Set, Runs, mem, InCall, FunOK
  <2>3. UNCHANGED now
    BY <1>105 DEF EnbReady, GoesOn, Enables, Set, Runs, mem, InCall
  <2>4. CASE q # p
    BY <1>1, <2>1, <2>2, <2>3, <2>4, AltTimeSame
  <2>5. CASE q = p
    <3>1. /\ guards'[p] = guards[p] /\ field'[p] = now /\ pc[p] # "idle" /\ pc'[p] \in {"dist", "release"}
          /\ tlink'[p] \notin Nodes
      BY <1>105, <1>1, <1>2 DEF EnbReady, GoesOn, Enables, Set, Runs, mem, InCall, FunOK
    <3>2. Fired(p, now)
      BY <1>3, <1>7, <3>1 DEF Fired, Lags
    <3> QED BY <1>1, <2>3, <2>5, <3>1, <3>2, AltTimeGoes
  <2> QED BY <2>4, <2>5
<1>106. ASSUME NEW p \in Alts, EnbNext(p) PROVE (\A q \in Alts : AltTime(q))'
  <2> SUFFICES ASSUME NEW q \in Alts PROVE AltTime(q)'
    OBVIOUS
  <2>1. tlink[q] \in Nodes /\ q # p =>
          /\ node'[tlink[q]].time = node[tlink[q]].time
          /\ node'[tlink[q]].wptr = None => node[tlink[q]].wptr = None
    BY <1>106, <1>1, <1>4, <1>6 DEF EnbNext, EnbLater, EnbField, Enables, Runs, mem, InCall, RefAt,
       FunOK
  <2>2. q # p => /\ pc'[q] = pc[q] /\ guards'[q] = guards[q] /\ field'[q] = field[q]
                 /\ tlink'[q] = tlink[q] /\ k'[q] = k[q]
    BY <1>106, <1>1, <1>2 DEF EnbNext, EnbLater, EnbField, Enables, Runs, mem, InCall, FunOK
  <2>3. UNCHANGED now
    BY <1>106 DEF EnbNext, EnbLater, EnbField, Enables, Runs, mem, InCall
  <2>4. CASE q # p
    BY <1>1, <2>1, <2>2, <2>3, <2>4, AltTimeSame
  <2>5. CASE q = p
    <3>1. /\ guards'[p] = guards[p] /\ field'[p] = EnbField(p) /\ tlink'[p] = "set" /\ pc[p] = "enbt"
          /\ pc'[p] = "enbt" /\ k[p] < Guards /\ k'[p] = k[p] + 1
      BY <1>106, <1>1, <1>2 DEF EnbNext, EnbLater, Enables, Runs, mem, InCall, FunOK
    <3>2. /\ k[p] \in 1..Guards /\ tlink[p] = (IF k[p] = 1 THEN "notset" ELSE "set")
          /\ tlink[p] = "set" => /\ \E g \in 1..Guards : field[p] = guards[p][g]
                                 /\ \A g \in 1..Guards : g < k[p] => FieldRel(p) <= GuardRel(p, g)
      BY <1>1, <1>5, <3>1 DEF AltTime, EnableOK
    <3>3. /\ \E g \in 1..Guards : EnbField(p) = guards[p][g]
          /\ \A g \in 1..Guards : g < k[p] + 1 => Rel(now, EnbField(p)) <= GuardRel(p, g)
      <4>1. CASE tlink[p] = "notset"
        <5>1. EnbField(p) = guards[p][k[p]] /\ k[p] = 1
          BY <3>2, <4>1 DEF EnbField
        <5>2. Rel(now, EnbField(p)) = GuardRel(p, 1)
          BY <5>1 DEF GuardRel
        <5> QED BY <1>3, <1>7, <3>2, <5>1, <5>2
      <4>2. CASE tlink[p] = "set"
        <5>1. PICK h \in 1..Guards : field[p] = guards[p][h]
          BY <3>2, <4>2
        <5>2. FieldRel(p) = GuardRel(p, h)
          BY <5>1 DEF FieldRel, GuardRel
        <5>3. /\ GuardRel(p, h) \in -Slack .. MaxDelay /\ GuardRel(p, k[p]) \in -Slack .. MaxDelay
              /\ GuardRel(p, k[p]) = Rel(now, guards[p][k[p]]) /\ guards[p][k[p]] \in Times
          BY <1>3, <3>1, <3>2
        <5>4. After(field[p], guards[p][k[p]]) <=> FieldRel(p) > GuardRel(p, k[p])
          BY <1>5, <1>7, <1>8, <5>2, <5>3 DEF FieldRel
        <5>5. CASE After(field[p], guards[p][k[p]])
          <6>1. EnbField(p) = guards[p][k[p]] /\ Rel(now, EnbField(p)) = GuardRel(p, k[p])
            BY <5>3, <5>5 DEF EnbField
          <6> QED BY <1>3, <1>5, <3>2, <4>2, <5>4, <5>5, <6>1
        <5>6. CASE ~After(field[p], guards[p][k[p]])
          <6>1. EnbField(p) = field[p] /\ Rel(now, EnbField(p)) = FieldRel(p)
            BY <4>2, <5>6 DEF EnbField, FieldRel
          <6> QED BY <1>3, <1>5, <3>2, <4>2, <5>1, <5>4, <5>6, <6>1
        <5> QED BY <5>5, <5>6
      <4> QED BY <3>2, <4>1, <4>2
    <3>4. EnableOK(p)'
      BY <1>7, <2>3, <3>1, <3>2, <3>3 DEF EnableOK, FieldRel, GuardRel
    <3> QED BY <1>1, <1>2, <2>3, <2>5, <3>1, <3>4 DEF AltTime
  <2> QED BY <2>4, <2>5
<1>107. ASSUME NEW p \in Alts, EnbLast(p) PROVE (\A q \in Alts : AltTime(q))'
  <2> SUFFICES ASSUME NEW q \in Alts PROVE AltTime(q)'
    OBVIOUS
  <2>1. tlink[q] \in Nodes /\ q # p =>
          /\ node'[tlink[q]].time = node[tlink[q]].time
          /\ node'[tlink[q]].wptr = None => node[tlink[q]].wptr = None
    BY <1>107, <1>1, <1>4, <1>6 DEF EnbLast, EnbLater, EnbField, Enables, Runs, mem, InCall, RefAt,
       FunOK
  <2>2. q # p => /\ pc'[q] = pc[q] /\ guards'[q] = guards[q] /\ field'[q] = field[q]
                 /\ tlink'[q] = tlink[q] /\ k'[q] = k[q]
    BY <1>107, <1>1, <1>2 DEF EnbLast, EnbLater, EnbField, Enables, Runs, mem, InCall, FunOK
  <2>3. UNCHANGED now
    BY <1>107 DEF EnbLast, EnbLater, EnbField, Enables, Runs, mem, InCall
  <2>4. CASE q # p
    BY <1>1, <2>1, <2>2, <2>3, <2>4, AltTimeSame
  <2>5. CASE q = p
    <3>1. /\ guards'[p] = guards[p] /\ field'[p] = EnbField(p) /\ tlink'[p] = "set" /\ pc[p] = "enbt"
          /\ pc'[p] = "taltwt" /\ ~(k[p] < Guards) /\ k'[p] = k[p]
      BY <1>107, <1>1, <1>2 DEF EnbLast, EnbLater, Enables, Runs, mem, InCall, FunOK
    <3>2. /\ k[p] \in 1..Guards /\ tlink[p] = (IF k[p] = 1 THEN "notset" ELSE "set")
          /\ tlink[p] = "set" => /\ \E g \in 1..Guards : field[p] = guards[p][g]
                                 /\ \A g \in 1..Guards : g < k[p] => FieldRel(p) <= GuardRel(p, g)
      BY <1>1, <1>5, <3>1 DEF AltTime, EnableOK
    <3>3. /\ \E g \in 1..Guards : EnbField(p) = guards[p][g]
          /\ \A g \in 1..Guards : g < k[p] + 1 => Rel(now, EnbField(p)) <= GuardRel(p, g)
      <4>1. CASE tlink[p] = "notset"
        <5>1. EnbField(p) = guards[p][k[p]] /\ k[p] = 1
          BY <3>2, <4>1 DEF EnbField
        <5>2. Rel(now, EnbField(p)) = GuardRel(p, 1)
          BY <5>1 DEF GuardRel
        <5> QED BY <1>3, <1>7, <3>2, <5>1, <5>2
      <4>2. CASE tlink[p] = "set"
        <5>1. PICK h \in 1..Guards : field[p] = guards[p][h]
          BY <3>2, <4>2
        <5>2. FieldRel(p) = GuardRel(p, h)
          BY <5>1 DEF FieldRel, GuardRel
        <5>3. /\ GuardRel(p, h) \in -Slack .. MaxDelay /\ GuardRel(p, k[p]) \in -Slack .. MaxDelay
              /\ GuardRel(p, k[p]) = Rel(now, guards[p][k[p]]) /\ guards[p][k[p]] \in Times
          BY <1>3, <3>1, <3>2
        <5>4. After(field[p], guards[p][k[p]]) <=> FieldRel(p) > GuardRel(p, k[p])
          BY <1>5, <1>7, <1>8, <5>2, <5>3 DEF FieldRel
        <5>5. CASE After(field[p], guards[p][k[p]])
          <6>1. EnbField(p) = guards[p][k[p]] /\ Rel(now, EnbField(p)) = GuardRel(p, k[p])
            BY <5>3, <5>5 DEF EnbField
          <6> QED BY <1>3, <1>5, <3>2, <4>2, <5>4, <5>5, <6>1
        <5>6. CASE ~After(field[p], guards[p][k[p]])
          <6>1. EnbField(p) = field[p] /\ Rel(now, EnbField(p)) = FieldRel(p)
            BY <4>2, <5>6 DEF EnbField, FieldRel
          <6> QED BY <1>3, <1>5, <3>2, <4>2, <5>1, <5>4, <5>6, <6>1
        <5> QED BY <5>5, <5>6
      <4> QED BY <3>2, <4>1, <4>2
    <3>4. EnableOK(p)'
      BY <1>7, <2>3, <3>1, <3>2, <3>3 DEF EnableOK, FieldRel, GuardRel
    <3> QED BY <1>1, <1>2, <2>3, <2>5, <3>1, <3>4 DEF AltTime
  <2> QED BY <2>4, <2>5
<1>108. ASSUME NEW p \in Alts, DistFired(p) PROVE (\A q \in Alts : AltTime(q))'
  <2> SUFFICES ASSUME NEW q \in Alts PROVE AltTime(q)'
    OBVIOUS
  <2>1. tlink[q] \in Nodes /\ q # p =>
          /\ node'[tlink[q]].time = node[tlink[q]].time
          /\ node'[tlink[q]].wptr = None => node[tlink[q]].wptr = None
    BY <1>108, <1>1, <1>4, <1>6 DEF DistFired, Runs, Set, AltStep, mem, InCall, RefAt, FunOK
  <2>2. q # p => /\ pc'[q] = pc[q] /\ guards'[q] = guards[q] /\ field'[q] = field[q]
                 /\ tlink'[q] = tlink[q] /\ k'[q] = k[q]
    BY <1>108, <1>1, <1>2 DEF DistFired, Runs, Set, AltStep, mem, InCall, FunOK
  <2>3. UNCHANGED now
    BY <1>108 DEF DistFired, Runs, Set, AltStep, mem, InCall
  <2>4. CASE q # p
    BY <1>1, <2>1, <2>2, <2>3, <2>4, AltTimeSame
  <2>5. CASE q = p
    <3>1. /\ guards'[p] = guards[p] /\ field'[p] = node[tlink[p]].time /\ pc[p] # "idle" /\ pc'[p] \in {"dist", "release"}
          /\ tlink'[p] \notin Nodes
      BY <1>108, <1>1, <1>2 DEF DistFired, Runs, Set, AltStep, mem, InCall, FunOK
    <3>2. Fired(p, node[tlink[p]].time)
      BY <1>108, <1>1 DEF DistFired, AltTime, Fired
    <3> QED BY <1>1, <2>3, <2>5, <3>1, <3>2, AltTimeGoes
  <2> QED BY <2>4, <2>5
<1>109. ASSUME NEW p \in Alts, DiscAlt(p) PROVE (\A q \in Alts : AltTime(q))'
  <2> SUFFICES ASSUME NEW q \in Alts PROVE AltTime(q)'
    OBVIOUS
  <2>1. tlink[q] \in Nodes /\ q # p =>
          /\ node'[tlink[q]].time = node[tlink[q]].time
          /\ node'[tlink[q]].wptr = None => node[tlink[q]].wptr = None
    BY <1>109, <1>1, <1>4, <1>6 DEF DiscAlt, alt, Discs, Runs, mem, InCall, RefAt, FunOK
  <2>2. q # p => /\ pc'[q] = pc[q] /\ guards'[q] = guards[q] /\ field'[q] = field[q]
                 /\ tlink'[q] = tlink[q] /\ k'[q] = k[q]
    BY <1>109, <1>1, <1>2 DEF DiscAlt, alt, Discs, Runs, mem, InCall, FunOK
  <2>3. UNCHANGED now
    BY <1>109 DEF DiscAlt, alt, Discs, Runs, mem, InCall
  <2>4. CASE q # p
    BY <1>1, <2>1, <2>2, <2>3, <2>4, AltTimeSame
  <2>5. CASE q = p
    <3>1. /\ guards'[p] = guards[p] /\ field'[p] = field[p] /\ pc[p] # "idle" /\ pc'[p] \notin {"enbt", "taltwt", "cas"}
          /\ tlink'[p] = tlink[p] \/ tlink'[p] \notin Nodes \cup {"set"}
          /\ tlink'[p] \in Nodes => node'[tlink[p]] = node[tlink[p]]
      BY <1>109, <1>1, <1>2 DEF DiscAlt, alt, Discs, Runs, mem, InCall, FunOK
    <3>2. pc'[p] \in {"dist", "release"} /\ tlink'[p] = "set" => pc[p] \in {"dist", "release"}
      BY <1>109, <1>1, <1>2, <1>6 DEF DiscAlt, alt, Discs, Runs, mem, InCall, FunOK, RefAt
    <3> QED BY <1>1, <2>3, <2>5, <3>1, <3>2, AltTimeMoves
  <2> QED BY <2>4, <2>5
<1>110. ASSUME NEW p \in Alts, DiscWriter(p) PROVE (\A q \in Alts : AltTime(q))'
  <2> SUFFICES ASSUME NEW q \in Alts PROVE AltTime(q)'
    OBVIOUS
  <2>1. tlink[q] \in Nodes /\ q # p =>
          /\ node'[tlink[q]].time = node[tlink[q]].time
          /\ node'[tlink[q]].wptr = None => node[tlink[q]].wptr = None
    BY <1>110, <1>1, <1>4, <1>6 DEF DiscWriter, Discs, Runs, mem, InCall, RefAt, FunOK
  <2>2. q # p => /\ pc'[q] = pc[q] /\ guards'[q] = guards[q] /\ field'[q] = field[q]
                 /\ tlink'[q] = tlink[q] /\ k'[q] = k[q]
    BY <1>110, <1>1, <1>2 DEF DiscWriter, Discs, Runs, mem, InCall, FunOK
  <2>3. UNCHANGED now
    BY <1>110 DEF DiscWriter, Discs, Runs, mem, InCall
  <2>4. CASE q # p
    BY <1>1, <2>1, <2>2, <2>3, <2>4, AltTimeSame
  <2>5. CASE q = p
    <3>1. /\ guards'[p] = guards[p] /\ field'[p] = field[p] /\ pc[p] # "idle" /\ pc'[p] \notin {"enbt", "taltwt", "cas"}
          /\ tlink'[p] = tlink[p] \/ tlink'[p] \notin Nodes \cup {"set"}
          /\ tlink'[p] \in Nodes => node'[tlink[p]] = node[tlink[p]]
      BY <1>110, <1>1, <1>2 DEF DiscWriter, Discs, Runs, mem, InCall, FunOK
    <3>2. pc'[p] \in {"dist", "release"} /\ tlink'[p] = "set" => pc[p] \in {"dist", "release"}
      BY <1>110, <1>1, <1>2, <1>6 DEF DiscWriter, Discs, Runs, mem, InCall, FunOK, RefAt
    <3> QED BY <1>1, <2>3, <2>5, <3>1, <3>2, AltTimeMoves
  <2> QED BY <2>4, <2>5
<1>111. ASSUME NEW p \in Alts, EndsNow(p) PROVE (\A q \in Alts : AltTime(q))'
  <2> SUFFICES ASSUME NEW q \in Alts PROVE AltTime(q)'
    OBVIOUS
  <2>1. tlink[q] \in Nodes /\ q # p =>
          /\ node'[tlink[q]].time = node[tlink[q]].time
          /\ node'[tlink[q]].wptr = None => node[tlink[q]].wptr = None
    BY <1>111, <1>1, <1>4, <1>6 DEF EndsNow, Ends, Runs, mem, InCall, RefAt, FunOK
  <2>2. q # p => /\ pc'[q] = pc[q] /\ guards'[q] = guards[q] /\ field'[q] = field[q]
                 /\ tlink'[q] = tlink[q] /\ k'[q] = k[q]
    BY <1>111, <1>1, <1>2 DEF EndsNow, Ends, Runs, mem, InCall, FunOK
  <2>3. UNCHANGED now
    BY <1>111 DEF EndsNow, Ends, Runs, mem, InCall
  <2>4. CASE q # p
    BY <1>1, <2>1, <2>2, <2>3, <2>4, AltTimeSame
  <2>5. CASE q = p
    <3>1. /\ guards'[p] = guards[p] /\ field'[p] = field[p] /\ pc[p] # "idle" /\ pc'[p] \notin {"enbt", "taltwt", "cas"}
          /\ tlink'[p] = tlink[p] \/ tlink'[p] \notin Nodes \cup {"set"}
          /\ tlink'[p] \in Nodes => node'[tlink[p]] = node[tlink[p]]
      BY <1>111, <1>1, <1>2 DEF EndsNow, Ends, Runs, mem, InCall, FunOK
    <3>2. pc'[p] \in {"dist", "release"} /\ tlink'[p] = "set" => pc[p] \in {"dist", "release"}
      BY <1>111, <1>1, <1>2, <1>6 DEF EndsNow, Ends, Runs, mem, InCall, FunOK, RefAt
    <3> QED BY <1>1, <2>3, <2>5, <3>1, <3>2, AltTimeMoves
  <2> QED BY <2>4, <2>5
<1>112. ASSUME NEW p \in Alts, EndWaits(p) PROVE (\A q \in Alts : AltTime(q))'
  <2> SUFFICES ASSUME NEW q \in Alts PROVE AltTime(q)'
    OBVIOUS
  <2>1. tlink[q] \in Nodes /\ q # p =>
          /\ node'[tlink[q]].time = node[tlink[q]].time
          /\ node'[tlink[q]].wptr = None => node[tlink[q]].wptr = None
    BY <1>112, <1>1, <1>4, <1>6 DEF EndWaits, Ends, Runs, mem, InCall, RefAt, FunOK
  <2>2. q # p => /\ pc'[q] = pc[q] /\ guards'[q] = guards[q] /\ field'[q] = field[q]
                 /\ tlink'[q] = tlink[q] /\ k'[q] = k[q]
    BY <1>112, <1>1, <1>2 DEF EndWaits, Ends, Runs, mem, InCall, FunOK
  <2>3. UNCHANGED now
    BY <1>112 DEF EndWaits, Ends, Runs, mem, InCall
  <2>4. CASE q # p
    BY <1>1, <2>1, <2>2, <2>3, <2>4, AltTimeSame
  <2>5. CASE q = p
    <3>1. /\ guards'[p] = guards[p] /\ field'[p] = field[p] /\ pc[p] # "idle" /\ pc'[p] \notin {"enbt", "taltwt", "cas"}
          /\ tlink'[p] = tlink[p] \/ tlink'[p] \notin Nodes \cup {"set"}
          /\ tlink'[p] \in Nodes => node'[tlink[p]] = node[tlink[p]]
      BY <1>112, <1>1, <1>2 DEF EndWaits, Ends, Runs, mem, InCall, FunOK
    <3>2. pc'[p] \in {"dist", "release"} /\ tlink'[p] = "set" => pc[p] \in {"dist", "release"}
      BY <1>112, <1>1, <1>2, <1>6 DEF EndWaits, Ends, Runs, mem, InCall, FunOK, RefAt
    <3> QED BY <1>1, <2>3, <2>5, <3>1, <3>2, AltTimeMoves
  <2> QED BY <2>4, <2>5
<1>113. ASSUME NEW p \in Alts, Select(p) PROVE (\A q \in Alts : AltTime(q))'
  <2> SUFFICES ASSUME NEW q \in Alts PROVE AltTime(q)'
    OBVIOUS
  <2>1. tlink[q] \in Nodes /\ q # p =>
          /\ node'[tlink[q]].time = node[tlink[q]].time
          /\ node'[tlink[q]].wptr = None => node[tlink[q]].wptr = None
    BY <1>113, <1>1, <1>4, <1>6 DEF Select, Runs, Set, AltStep, mem, alt, InCall, RefAt, FunOK
  <2>2. q # p => /\ pc'[q] = pc[q] /\ guards'[q] = guards[q] /\ field'[q] = field[q]
                 /\ tlink'[q] = tlink[q] /\ k'[q] = k[q]
    BY <1>113, <1>1, <1>2 DEF Select, Runs, Set, AltStep, mem, alt, InCall, FunOK
  <2>3. UNCHANGED now
    BY <1>113 DEF Select, Runs, Set, AltStep, mem, alt, InCall
  <2>4. CASE q # p
    BY <1>1, <2>1, <2>2, <2>3, <2>4, AltTimeSame
  <2>5. CASE q = p
    <3>1. /\ guards'[p] = guards[p] /\ field'[p] = field[p] /\ pc[p] # "idle" /\ pc'[p] \notin {"enbt", "taltwt", "cas"}
          /\ tlink'[p] = tlink[p] \/ tlink'[p] \notin Nodes \cup {"set"}
          /\ tlink'[p] \in Nodes => node'[tlink[p]] = node[tlink[p]]
      BY <1>113, <1>1, <1>2 DEF Select, Runs, Set, AltStep, mem, alt, InCall, FunOK
    <3>2. pc'[p] \in {"dist", "release"} /\ tlink'[p] = "set" => pc[p] \in {"dist", "release"}
      BY <1>113, <1>1, <1>2, <1>6 DEF Select, Runs, Set, AltStep, mem, alt, InCall, FunOK, RefAt
    <3> QED BY <1>1, <2>3, <2>5, <3>1, <3>2, AltTimeMoves
  <2> QED BY <2>4, <2>5
<1>114. ASSUME NEW p \in Alts, Write(p) PROVE (\A q \in Alts : AltTime(q))'
  <2> SUFFICES ASSUME NEW q \in Alts PROVE AltTime(q)'
    OBVIOUS
  <2>1. tlink[q] \in Nodes /\ q # p =>
          /\ node'[tlink[q]].time = node[tlink[q]].time
          /\ node'[tlink[q]].wptr = None => node[tlink[q]].wptr = None
    BY <1>114, <1>1, <1>4, <1>6 DEF Write, Set, mem, where, alt, RefAt, FunOK
  <2>2. q # p => /\ pc'[q] = pc[q] /\ guards'[q] = guards[q] /\ field'[q] = field[q]
                 /\ tlink'[q] = tlink[q] /\ k'[q] = k[q]
    BY <1>114, <1>1, <1>2 DEF Write, Set, mem, where, alt, FunOK
  <2>3. UNCHANGED now
    BY <1>114 DEF Write, Set, mem, where, alt
  <2>4. CASE q # p
    BY <1>1, <2>1, <2>2, <2>3, <2>4, AltTimeSame
  <2>5. CASE q = p
    BY <1>114, <1>1, <1>2, <1>6, <2>3, <2>5 DEF Write, Set, mem, where, alt, AltTime, EnableOK,
       Fired, Lags, GuardRel, FieldRel, RefAt, RefPC, FunOK
  <2> QED BY <2>4, <2>5
<1>115. ASSUME NEW p \in Alts, TaltwtGoes(p) PROVE (\A q \in Alts : AltTime(q))'
  <2> SUFFICES ASSUME NEW q \in Alts PROVE AltTime(q)'
    OBVIOUS
  <2>1. tlink[q] \in Nodes /\ q # p =>
          /\ node'[tlink[q]].time = node[tlink[q]].time
          /\ node'[tlink[q]].wptr = None => node[tlink[q]].wptr = None
    BY <1>115, <1>1, <1>4, <1>6 DEF TaltwtGoes, Runs, GoesOn, mem, InCall, Set, RefAt, FunOK
  <2>2. q # p => /\ pc'[q] = pc[q] /\ guards'[q] = guards[q] /\ field'[q] = field[q]
                 /\ tlink'[q] = tlink[q] /\ k'[q] = k[q]
    BY <1>115, <1>1, <1>2 DEF TaltwtGoes, Runs, GoesOn, mem, InCall, Set, FunOK
  <2>3. UNCHANGED now
    BY <1>115 DEF TaltwtGoes, Runs, GoesOn, mem, InCall, Set
  <2>4. CASE q # p
    BY <1>1, <2>1, <2>2, <2>3, <2>4, AltTimeSame
  <2>5. CASE q = p
    <3>1. /\ guards'[p] = guards[p] /\ field'[p] = now /\ pc[p] # "idle" /\ pc'[p] \in {"dist", "release"}
          /\ tlink'[p] \notin Nodes
      BY <1>115, <1>1, <1>2, <1>11 DEF TaltwtGoes, Runs, GoesOn, mem, InCall, Set, RefPC, FunOK
    <3>2. Fired(p, now)
      BY <1>3, <1>7, <3>1 DEF Fired, Lags
    <3> QED BY <1>1, <2>3, <2>5, <3>1, <3>2, AltTimeGoes
  <2> QED BY <2>4, <2>5
<1>116. ASSUME NEW p \in Alts, CasWaits(p) PROVE (\A q \in Alts : AltTime(q))'
  <2> SUFFICES ASSUME NEW q \in Alts PROVE AltTime(q)'
    OBVIOUS
  <2>1. tlink[q] \in Nodes /\ q # p =>
          /\ node'[tlink[q]].time = node[tlink[q]].time
          /\ node'[tlink[q]].wptr = None => node[tlink[q]].wptr = None
    BY <1>116, <1>1, <1>4, <1>6 DEF CasWaits, Runs, mem, InCall, RefAt, FunOK
  <2>2. q # p => /\ pc'[q] = pc[q] /\ guards'[q] = guards[q] /\ field'[q] = field[q]
                 /\ tlink'[q] = tlink[q] /\ k'[q] = k[q]
    BY <1>116, <1>1, <1>2 DEF CasWaits, Runs, mem, InCall, FunOK
  <2>3. UNCHANGED now
    BY <1>116 DEF CasWaits, Runs, mem, InCall
  <2>4. CASE q # p
    BY <1>1, <2>1, <2>2, <2>3, <2>4, AltTimeSame
  <2>5. CASE q = p
    <3>1. /\ guards'[p] = guards[p] /\ field'[p] = field[p] /\ pc[p] # "idle" /\ pc'[p] \notin {"enbt", "taltwt", "cas"}
          /\ tlink'[p] = tlink[p] \/ tlink'[p] \notin Nodes \cup {"set"}
          /\ tlink'[p] \in Nodes => node'[tlink[p]] = node[tlink[p]]
      BY <1>116, <1>1, <1>2 DEF CasWaits, Runs, mem, InCall, FunOK
    <3>2. pc'[p] \in {"dist", "release"} /\ tlink'[p] = "set" => pc[p] \in {"dist", "release"}
      BY <1>116, <1>1, <1>2, <1>6 DEF CasWaits, Runs, mem, InCall, FunOK, RefAt
    <3> QED BY <1>1, <2>3, <2>5, <3>1, <3>2, AltTimeMoves
  <2> QED BY <2>4, <2>5
<1>117. ASSUME NEW p \in Alts, CasGoes(p) PROVE (\A q \in Alts : AltTime(q))'
  <2> SUFFICES ASSUME NEW q \in Alts PROVE AltTime(q)'
    OBVIOUS
  <2>1. tlink[q] \in Nodes /\ q # p =>
          /\ node'[tlink[q]].time = node[tlink[q]].time
          /\ node'[tlink[q]].wptr = None => node[tlink[q]].wptr = None
    BY <1>117, <1>1, <1>4, <1>6, NodeReads, TypesOfQueue DEF CasGoes, Runs, GoesOn, InCall, Set,
       RefAt, FunOK
  <2>2. q # p => /\ pc'[q] = pc[q] /\ guards'[q] = guards[q] /\ field'[q] = field[q]
                 /\ tlink'[q] = tlink[q] /\ k'[q] = k[q]
    BY <1>117, <1>1, <1>2 DEF CasGoes, Runs, GoesOn, InCall, Set, FunOK
  <2>3. UNCHANGED now
    BY <1>117 DEF CasGoes, Runs, GoesOn, InCall, Set
  <2>4. CASE q # p
    BY <1>1, <2>1, <2>2, <2>3, <2>4, AltTimeSame
  <2>5. CASE q = p
    <3>1. /\ guards'[p] = guards[p] /\ field'[p] = field[p] /\ pc[p] # "idle" /\ pc'[p] \in {"dist", "release"}
          /\ tlink'[p] \notin Nodes
      BY <1>117, <1>1, <1>2 DEF CasGoes, Runs, GoesOn, InCall, Set, FunOK
    <3>2. Fired(p, field[p])
      <4>1. EnableOK(p) /\ pc[p] = "cas"
        BY <1>117, <1>1 DEF AltTime, CasGoes, Runs
      <4> QED BY <1>3, <1>5, <1>7, <3>1, <4>1 DEF EnableOK, Fired, Lags, FieldRel
    <3> QED BY <1>1, <2>3, <2>5, <3>1, <3>2, AltTimeGoes
  <2> QED BY <2>4, <2>5
<1>118. ASSUME NEW p \in Alts, DistHere(p) PROVE (\A q \in Alts : AltTime(q))'
  <2> SUFFICES ASSUME NEW q \in Alts PROVE AltTime(q)'
    OBVIOUS
  <2>1. tlink[q] \in Nodes /\ q # p =>
          /\ node'[tlink[q]].time = node[tlink[q]].time
          /\ node'[tlink[q]].wptr = None => node[tlink[q]].wptr = None
    BY <1>118, <1>1, <1>4, <1>6, NodeReads, TypesOfQueue DEF DistHere, DistTakes, Runs, InCall,
       RefAt, FunOK
  <2>2. q # p => /\ pc'[q] = pc[q] /\ guards'[q] = guards[q] /\ field'[q] = field[q]
                 /\ tlink'[q] = tlink[q] /\ k'[q] = k[q]
    BY <1>118, <1>1, <1>2 DEF DistHere, DistTakes, Runs, InCall, FunOK
  <2>3. UNCHANGED now
    BY <1>118 DEF DistHere, DistTakes, Runs, InCall
  <2>4. CASE q # p
    BY <1>1, <2>1, <2>2, <2>3, <2>4, AltTimeSame
  <2>5. CASE q = p
    <3>1. /\ guards'[p] = guards[p] /\ field'[p] = field[p] /\ pc[p] # "idle" /\ pc'[p] \notin {"enbt", "taltwt", "cas"}
          /\ tlink'[p] = tlink[p] \/ tlink'[p] \notin Nodes \cup {"set"}
          /\ tlink'[p] \in Nodes => node'[tlink[p]] = node[tlink[p]]
      BY <1>118, <1>1, <1>2 DEF DistHere, DistTakes, Runs, InCall, FunOK
    <3>2. pc'[p] \in {"dist", "release"} /\ tlink'[p] = "set" => pc[p] \in {"dist", "release"}
      BY <1>118, <1>1, <1>2, <1>6 DEF DistHere, DistTakes, Runs, InCall, FunOK, RefAt
    <3> QED BY <1>1, <2>3, <2>5, <3>1, <3>2, AltTimeMoves
  <2> QED BY <2>4, <2>5
<1>119. ASSUME NEW p \in Alts, DistThere(p) PROVE (\A q \in Alts : AltTime(q))'
  <2> SUFFICES ASSUME NEW q \in Alts PROVE AltTime(q)'
    OBVIOUS
  <2>1. tlink[q] \in Nodes /\ q # p =>
          /\ node'[tlink[q]].time = node[tlink[q]].time
          /\ node'[tlink[q]].wptr = None => node[tlink[q]].wptr = None
    BY <1>119, <1>1, <1>4, <1>6, NodeReads, TypesOfQueue DEF DistThere, DistTakes, Runs, InCall,
       RefAt, FunOK
  <2>2. q # p => /\ pc'[q] = pc[q] /\ guards'[q] = guards[q] /\ field'[q] = field[q]
                 /\ tlink'[q] = tlink[q] /\ k'[q] = k[q]
    BY <1>119, <1>1, <1>2 DEF DistThere, DistTakes, Runs, InCall, FunOK
  <2>3. UNCHANGED now
    BY <1>119 DEF DistThere, DistTakes, Runs, InCall
  <2>4. CASE q # p
    BY <1>1, <2>1, <2>2, <2>3, <2>4, AltTimeSame
  <2>5. CASE q = p
    <3>1. /\ guards'[p] = guards[p] /\ field'[p] = field[p] /\ pc[p] # "idle" /\ pc'[p] \notin {"enbt", "taltwt", "cas"}
          /\ tlink'[p] = tlink[p] \/ tlink'[p] \notin Nodes \cup {"set"}
          /\ tlink'[p] \in Nodes => node'[tlink[p]] = node[tlink[p]]
      BY <1>119, <1>1, <1>2 DEF DistThere, DistTakes, Runs, InCall, FunOK
    <3>2. pc'[p] \in {"dist", "release"} /\ tlink'[p] = "set" => pc[p] \in {"dist", "release"}
      BY <1>119, <1>1, <1>2, <1>6 DEF DistThere, DistTakes, Runs, InCall, FunOK, RefAt
    <3> QED BY <1>1, <2>3, <2>5, <3>1, <3>2, AltTimeMoves
  <2> QED BY <2>4, <2>5
<1>120. ASSUME NEW p \in Alts, DistSets(p), NextGuard(p) PROVE (\A q \in Alts : AltTime(q))'
  <2> SUFFICES ASSUME NEW q \in Alts PROVE AltTime(q)'
    OBVIOUS
  <2>1. tlink[q] \in Nodes /\ q # p =>
          /\ node'[tlink[q]].time = node[tlink[q]].time
          /\ node'[tlink[q]].wptr = None => node[tlink[q]].wptr = None
    BY <1>120, <1>1, <1>4, <1>6 DEF DistSets, NextGuard, Runs, mem, Reached, InCall, RefAt, FunOK
  <2>2. q # p => /\ pc'[q] = pc[q] /\ guards'[q] = guards[q] /\ field'[q] = field[q]
                 /\ tlink'[q] = tlink[q] /\ k'[q] = k[q]
    BY <1>120, <1>1, <1>2 DEF DistSets, NextGuard, Runs, mem, Reached, InCall, FunOK
  <2>3. UNCHANGED now
    BY <1>120 DEF DistSets, NextGuard, Runs, mem, Reached, InCall
  <2>4. CASE q # p
    BY <1>1, <2>1, <2>2, <2>3, <2>4, AltTimeSame
  <2>5. CASE q = p
    <3>1. /\ guards'[p] = guards[p] /\ field'[p] = field[p] /\ pc[p] # "idle" /\ pc'[p] \notin {"enbt", "taltwt", "cas"}
          /\ tlink'[p] = tlink[p] \/ tlink'[p] \notin Nodes \cup {"set"}
          /\ tlink'[p] \in Nodes => node'[tlink[p]] = node[tlink[p]]
      BY <1>120, <1>1, <1>2 DEF DistSets, NextGuard, Runs, mem, Reached, InCall, FunOK
    <3>2. pc'[p] \in {"dist", "release"} /\ tlink'[p] = "set" => pc[p] \in {"dist", "release"}
      BY <1>120, <1>1, <1>2, <1>6 DEF DistSets, NextGuard, Runs, mem, Reached, InCall, FunOK, RefAt
    <3> QED BY <1>1, <2>3, <2>5, <3>1, <3>2, AltTimeMoves
  <2> QED BY <2>4, <2>5
<1>121. ASSUME NEW p \in Alts, DistSets(p), LastGuard(p) PROVE (\A q \in Alts : AltTime(q))'
  <2> SUFFICES ASSUME NEW q \in Alts PROVE AltTime(q)'
    OBVIOUS
  <2>1. tlink[q] \in Nodes /\ q # p =>
          /\ node'[tlink[q]].time = node[tlink[q]].time
          /\ node'[tlink[q]].wptr = None => node[tlink[q]].wptr = None
    BY <1>121, <1>1, <1>4, <1>6 DEF DistSets, LastGuard, Runs, mem, Reached, InCall, RefAt, FunOK
  <2>2. q # p => /\ pc'[q] = pc[q] /\ guards'[q] = guards[q] /\ field'[q] = field[q]
                 /\ tlink'[q] = tlink[q] /\ k'[q] = k[q]
    BY <1>121, <1>1, <1>2 DEF DistSets, LastGuard, Runs, mem, Reached, InCall, FunOK
  <2>3. UNCHANGED now
    BY <1>121 DEF DistSets, LastGuard, Runs, mem, Reached, InCall
  <2>4. CASE q # p
    BY <1>1, <2>1, <2>2, <2>3, <2>4, AltTimeSame
  <2>5. CASE q = p
    <3>1. /\ guards'[p] = guards[p] /\ field'[p] = field[p] /\ pc[p] # "idle" /\ pc'[p] \notin {"enbt", "taltwt", "cas"}
          /\ tlink'[p] = tlink[p] \/ tlink'[p] \notin Nodes \cup {"set"}
          /\ tlink'[p] \in Nodes => node'[tlink[p]] = node[tlink[p]]
      BY <1>121, <1>1, <1>2 DEF DistSets, LastGuard, Runs, mem, Reached, InCall, FunOK
    <3>2. pc'[p] \in {"dist", "release"} /\ tlink'[p] = "set" => pc[p] \in {"dist", "release"}
      BY <1>121, <1>1, <1>2, <1>6 DEF DistSets, LastGuard, Runs, mem, Reached, InCall, FunOK, RefAt
    <3> QED BY <1>1, <2>3, <2>5, <3>1, <3>2, AltTimeMoves
  <2> QED BY <2>4, <2>5
<1>122. ASSUME NEW p \in Alts, Releases(p), NextGuard(p) PROVE (\A q \in Alts : AltTime(q))'
  <2> SUFFICES ASSUME NEW q \in Alts PROVE AltTime(q)'
    OBVIOUS
  <2>1. tlink[q] \in Nodes /\ q # p =>
          /\ node'[tlink[q]].time = node[tlink[q]].time
          /\ node'[tlink[q]].wptr = None => node[tlink[q]].wptr = None
    BY <1>122, <1>1, <1>4, <1>6 DEF Releases, NextGuard, Runs, Release, InCall, RefAt, FunOK
  <2>2. q # p => /\ pc'[q] = pc[q] /\ guards'[q] = guards[q] /\ field'[q] = field[q]
                 /\ tlink'[q] = tlink[q] /\ k'[q] = k[q]
    BY <1>122, <1>1, <1>2 DEF Releases, NextGuard, Runs, Release, InCall, FunOK
  <2>3. UNCHANGED now
    BY <1>122 DEF Releases, NextGuard, Runs, Release, InCall
  <2>4. CASE q # p
    BY <1>1, <2>1, <2>2, <2>3, <2>4, AltTimeSame
  <2>5. CASE q = p
    <3>1. /\ guards'[p] = guards[p] /\ field'[p] = field[p] /\ pc[p] # "idle" /\ pc'[p] \notin {"enbt", "taltwt", "cas"}
          /\ tlink'[p] = tlink[p] \/ tlink'[p] \notin Nodes \cup {"set"}
          /\ tlink'[p] \in Nodes => node'[tlink[p]] = node[tlink[p]]
      BY <1>122, <1>1, <1>2 DEF Releases, NextGuard, Runs, Release, InCall, FunOK
    <3>2. pc'[p] \in {"dist", "release"} /\ tlink'[p] = "set" => pc[p] \in {"dist", "release"}
      BY <1>122, <1>1, <1>2, <1>6 DEF Releases, NextGuard, Runs, Release, InCall, FunOK, RefAt
    <3> QED BY <1>1, <2>3, <2>5, <3>1, <3>2, AltTimeMoves
  <2> QED BY <2>4, <2>5
<1>123. ASSUME NEW p \in Alts, Releases(p), LastGuard(p) PROVE (\A q \in Alts : AltTime(q))'
  <2> SUFFICES ASSUME NEW q \in Alts PROVE AltTime(q)'
    OBVIOUS
  <2>1. tlink[q] \in Nodes /\ q # p =>
          /\ node'[tlink[q]].time = node[tlink[q]].time
          /\ node'[tlink[q]].wptr = None => node[tlink[q]].wptr = None
    BY <1>123, <1>1, <1>4, <1>6 DEF Releases, LastGuard, Runs, Release, InCall, RefAt, FunOK
  <2>2. q # p => /\ pc'[q] = pc[q] /\ guards'[q] = guards[q] /\ field'[q] = field[q]
                 /\ tlink'[q] = tlink[q] /\ k'[q] = k[q]
    BY <1>123, <1>1, <1>2 DEF Releases, LastGuard, Runs, Release, InCall, FunOK
  <2>3. UNCHANGED now
    BY <1>123 DEF Releases, LastGuard, Runs, Release, InCall
  <2>4. CASE q # p
    BY <1>1, <2>1, <2>2, <2>3, <2>4, AltTimeSame
  <2>5. CASE q = p
    <3>1. /\ guards'[p] = guards[p] /\ field'[p] = field[p] /\ pc[p] # "idle" /\ pc'[p] \notin {"enbt", "taltwt", "cas"}
          /\ tlink'[p] = tlink[p] \/ tlink'[p] \notin Nodes \cup {"set"}
          /\ tlink'[p] \in Nodes => node'[tlink[p]] = node[tlink[p]]
      BY <1>123, <1>1, <1>2 DEF Releases, LastGuard, Runs, Release, InCall, FunOK
    <3>2. pc'[p] \in {"dist", "release"} /\ tlink'[p] = "set" => pc[p] \in {"dist", "release"}
      BY <1>123, <1>1, <1>2, <1>6 DEF Releases, LastGuard, Runs, Release, InCall, FunOK, RefAt
    <3> QED BY <1>1, <2>3, <2>5, <3>1, <3>2, AltTimeMoves
  <2> QED BY <2>4, <2>5
<1>124. ASSUME NEW p \in Alts, NEW n \in Nodes, TaltwtWaits(p, n)
       PROVE  (\A q \in Alts : AltTime(q))'
  <2> SUFFICES ASSUME NEW q \in Alts PROVE AltTime(q)'
    OBVIOUS
  <2>1. tlink[q] \in Nodes /\ q # p =>
          /\ node'[tlink[q]].time = node[tlink[q]].time
          /\ node'[tlink[q]].wptr = None => node[tlink[q]].wptr = None
    <3>1. tlink[q] \in Nodes => tlink[q] # n
      BY <1>124, <1>6 DEF TaltwtWaits, Grown, Washed, RefAt
    <3> QED BY <1>124, <1>1, <3>1 DEF TaltwtWaits, Grown, FunOK
  <2>2. q # p => /\ pc'[q] = pc[q] /\ guards'[q] = guards[q] /\ field'[q] = field[q]
                 /\ tlink'[q] = tlink[q] /\ k'[q] = k[q]
    BY <1>124, <1>1, <1>2 DEF TaltwtWaits, Runs, InCall, FunOK
  <2>3. UNCHANGED now
    BY <1>124 DEF TaltwtWaits, Runs, InCall
  <2>4. CASE q # p
    BY <1>1, <2>1, <2>2, <2>3, <2>4, AltTimeSame
  <2>5. CASE q = p
    <3>1. /\ guards'[p] = guards[p] /\ field'[p] = now /\ tlink'[p] = n /\ pc[p] = "taltwt" /\ pc'[p] = "cas"
          /\ After(field[p], now)
      BY <1>124, <1>1, <1>2 DEF TaltwtWaits, Runs, InCall, FunOK
    <3>2. node'[n].time = field[p] /\ node'[n].wptr # None
      <4>1. node' = [node EXCEPT ![n] = [wptr |-> p, time |-> field[p], dirty |-> p \in Alts, owner |-> on[p]]]
        BY <1>124 DEF TaltwtWaits, Grown
      <4> QED BY <1>1, <1>2, <4>1 DEF FunOK
    <3>3. PICK h \in 1..Guards : field[p] = guards[p][h] /\ \A g \in 1..Guards : FieldRel(p) <= GuardRel(p, g)
      BY <1>1, <3>1 DEF AltTime, EnableOK
    <3>4. FieldRel(p) = GuardRel(p, h) /\ GuardRel(p, h) \in -Slack .. MaxDelay
      BY <1>3, <3>1, <3>3 DEF FieldRel, GuardRel
    <3>5. FieldRel(p) > 0
      BY <1>5, <1>7, <1>8, <3>1, <3>4 DEF FieldRel
    <3>6. \A g \in 1..Guards : GuardRel(p, g) \in 1 .. MaxDelay /\ GuardRel(p, g) - FieldRel(p) <= MaxDelay
      BY <1>3, <1>5, <1>7, <3>1, <3>3, <3>5
    <3>7. EnableOK(p)'
      BY <1>3, <1>7, <2>3, <3>1, <3>6 DEF EnableOK, FieldRel, GuardRel
    <3>8. /\ \E g \in 1..Guards : GuardRel(p, g) <= Rel(now, node'[n].time)
          /\ Lags(p, node'[n].time)
      BY <1>3, <3>2, <3>4, <3>6 DEF Lags, FieldRel
    <3>9. /\ \E g \in 1..Guards : GuardRel(p, g)' <= Rel(now', node'[tlink'[p]].time)
          /\ Lags(p, node[tlink[p]].time)'
      BY <2>3, <3>1, <3>8 DEF Lags, GuardRel
    <3>10. \A g \in 1..Guards : Near(now', guards'[p][g])
      BY <1>1, <2>3, <3>1 DEF AltTime
    <3> QED BY <1>2, <2>5, <3>1, <3>2, <3>7, <3>9, <3>10 DEF AltTime
  <2> QED BY <2>4, <2>5
<1>125. ASSUME NEW p \in Alts, Written(p), NoneComes(p) PROVE (\A q \in Alts : AltTime(q))'
  <2> SUFFICES ASSUME NEW q \in Alts PROVE AltTime(q)'
    OBVIOUS
  <2>1. tlink[q] \in Nodes /\ q # p =>
          /\ node'[tlink[q]].time = node[tlink[q]].time
          /\ node'[tlink[q]].wptr = None => node[tlink[q]].wptr = None
    BY <1>125, <1>1, <1>4, <1>6 DEF Written, NoneComes, mem, where, Counted, RefAt, FunOK
  <2>2. q # p => /\ pc'[q] = pc[q] /\ guards'[q] = guards[q] /\ field'[q] = field[q]
                 /\ tlink'[q] = tlink[q] /\ k'[q] = k[q]
    BY <1>125, <1>1, <1>2 DEF Written, NoneComes, mem, where, Counted, FunOK
  <2>3. UNCHANGED now
    BY <1>125 DEF Written, NoneComes, mem, where, Counted
  <2>4. CASE q # p
    BY <1>1, <2>1, <2>2, <2>3, <2>4, AltTimeSame
  <2>5. CASE q = p
    BY <1>125, <1>1, <1>2, <1>6, <2>3, <2>5 DEF Written, NoneComes, mem, where, Counted, AltTime,
       EnableOK, Fired, Lags, GuardRel, FieldRel, RefAt, RefPC, FunOK
  <2> QED BY <2>4, <2>5
<1>126. ASSUME NEW p \in Alts, NEW u \in Threads, Written(p), GuardComes(p, u)
       PROVE  (\A q \in Alts : AltTime(q))'
  <2> SUFFICES ASSUME NEW q \in Alts PROVE AltTime(q)'
    OBVIOUS
  <2>1. tlink[q] \in Nodes /\ q # p =>
          /\ node'[tlink[q]].time = node[tlink[q]].time
          /\ node'[tlink[q]].wptr = None => node[tlink[q]].wptr = None
    BY <1>126, <1>1, <1>4, <1>6 DEF Written, GuardComes, mem, Counted, RefAt, FunOK
  <2>2. q # p => /\ pc'[q] = pc[q] /\ guards'[q] = guards[q] /\ field'[q] = field[q]
                 /\ tlink'[q] = tlink[q] /\ k'[q] = k[q]
    BY <1>126, <1>1, <1>2 DEF Written, GuardComes, mem, Counted, FunOK
  <2>3. UNCHANGED now
    BY <1>126 DEF Written, GuardComes, mem, Counted
  <2>4. CASE q # p
    BY <1>1, <2>1, <2>2, <2>3, <2>4, AltTimeSame
  <2>5. CASE q = p
    <3>1. /\ guards'[p] = guards[p] /\ field'[p] = field[p] /\ pc[p] # "idle" /\ pc'[p] \notin {"enbt", "taltwt", "cas"}
          /\ tlink'[p] = tlink[p] \/ tlink'[p] \notin Nodes \cup {"set"}
          /\ tlink'[p] \in Nodes => node'[tlink[p]] = node[tlink[p]]
      BY <1>126, <1>1, <1>2 DEF Written, GuardComes, mem, Counted, FunOK
    <3>2. pc'[p] \in {"dist", "release"} /\ tlink'[p] = "set" => pc[p] \in {"dist", "release"}
      BY <1>126, <1>1, <1>2, <1>6 DEF Written, GuardComes, mem, Counted, FunOK, RefAt
    <3> QED BY <1>1, <2>3, <2>5, <3>1, <3>2, AltTimeMoves
  <2> QED BY <2>4, <2>5
<1>127. ASSUME NEW p \in Alts, NEW u \in Threads, Written(p), EndComes(p, u)
       PROVE  (\A q \in Alts : AltTime(q))'
  <2> SUFFICES ASSUME NEW q \in Alts PROVE AltTime(q)'
    OBVIOUS
  <2>1. tlink[q] \in Nodes /\ q # p =>
          /\ node'[tlink[q]].time = node[tlink[q]].time
          /\ node'[tlink[q]].wptr = None => node[tlink[q]].wptr = None
    BY <1>127, <1>1, <1>4, <1>6 DEF Written, EndComes, mem, Counted, RefAt, FunOK
  <2>2. q # p => /\ pc'[q] = pc[q] /\ guards'[q] = guards[q] /\ field'[q] = field[q]
                 /\ tlink'[q] = tlink[q] /\ k'[q] = k[q]
    BY <1>127, <1>1, <1>2 DEF Written, EndComes, mem, Counted, FunOK
  <2>3. UNCHANGED now
    BY <1>127 DEF Written, EndComes, mem, Counted
  <2>4. CASE q # p
    BY <1>1, <2>1, <2>2, <2>3, <2>4, AltTimeSame
  <2>5. CASE q = p
    <3>1. /\ guards'[p] = guards[p] /\ field'[p] = field[p] /\ pc[p] # "idle" /\ pc'[p] \notin {"enbt", "taltwt", "cas"}
          /\ tlink'[p] = tlink[p] \/ tlink'[p] \notin Nodes \cup {"set"}
          /\ tlink'[p] \in Nodes => node'[tlink[p]] = node[tlink[p]]
      BY <1>127, <1>1, <1>2 DEF Written, EndComes, mem, Counted, FunOK
    <3>2. pc'[p] \in {"dist", "release"} /\ tlink'[p] = "set" => pc[p] \in {"dist", "release"}
      BY <1>127, <1>1, <1>2, <1>6 DEF Written, EndComes, mem, Counted, FunOK, RefAt
    <3> QED BY <1>1, <2>3, <2>5, <3>1, <3>2, AltTimeMoves
  <2> QED BY <2>4, <2>5
<1>128. ASSUME NEW t \in Threads, Check(t) PROVE (\A q \in Alts : AltTime(q))'
  <2> SUFFICES ASSUME NEW q \in Alts PROVE AltTime(q)'
    OBVIOUS
  <2>1. tlink[q] \in Nodes =>
          /\ node'[tlink[q]].time = node[tlink[q]].time
          /\ node'[tlink[q]].wptr = None => node[tlink[q]].wptr = None
    BY <1>128, <1>1, <1>4, <1>6 DEF Check, mem, where, alt, Started, InCall, Set, RefAt, FunOK
  <2>2. /\ pc'[q] = pc[q] /\ guards'[q] = guards[q] /\ field'[q] = field[q]
        /\ tlink'[q] = tlink[q] /\ k'[q] = k[q]
    BY <1>128, <1>1, <1>2 DEF Check, mem, where, alt, Started, InCall, Set, FunOK
  <2>3. UNCHANGED now
    BY <1>128 DEF Check, mem, where, alt, Started, InCall, Set
  <2> QED BY <1>1, <2>1, <2>2, <2>3, AltTimeSame
<1>129. ASSUME NEW t \in Threads, EndWalk(t) PROVE (\A q \in Alts : AltTime(q))'
  <2> SUFFICES ASSUME NEW q \in Alts PROVE AltTime(q)'
    OBVIOUS
  <2>1. tlink[q] \in Nodes =>
          /\ node'[tlink[q]].time = node[tlink[q]].time
          /\ node'[tlink[q]].wptr = None => node[tlink[q]].wptr = None
    BY <1>129, <1>1, <1>4, <1>6 DEF EndWalk, mem, where, alt, Walk, Set, RefAt, FunOK
  <2>2. /\ pc'[q] = pc[q] /\ guards'[q] = guards[q] /\ field'[q] = field[q]
        /\ tlink'[q] = tlink[q] /\ k'[q] = k[q]
    BY <1>129, <1>1, <1>2 DEF EndWalk, mem, where, alt, Walk, Set, FunOK
  <2>3. UNCHANGED now
    BY <1>129 DEF EndWalk, mem, where, alt, Walk, Set
  <2> QED BY <1>1, <2>1, <2>2, <2>3, AltTimeSame
<1>130. ASSUME NEW t \in Threads, WalkAlt(t) PROVE (\A q \in Alts : AltTime(q))'
  <2> SUFFICES ASSUME NEW q \in Alts PROVE AltTime(q)'
    OBVIOUS
  <2> DEFINE h == Head(queue[t])
  <2>1. /\ UNCHANGED <<now, pc, guards, field, tlink, k>> /\ queue[t] # <<>> /\ h \in Nodes /\ walk[t].now \in Times
        /\ node' = [node EXCEPT ![h] = [node[h] EXCEPT !.time = walk[t].now]] /\ Past(now, walk[t].now)
        /\ node[h].wptr # None /\ ~After(node[h].time, walk[t].now)
    BY <1>130, <1>1, <1>2, <1>9, <1>12, WalkEdits DEF WalkAlt, Expired, Set, where, alt, FunOK
  <2>2. \A m \in Nodes : m # h => node'[m] = node[m]
    BY <1>1, <2>1 DEF FunOK
  <2>3. node'[h].time = walk[t].now /\ node'[h].wptr = node[h].wptr
    BY <1>1, <1>4, <2>1, NodeReads DEF FunOK
  <2> HIDE DEF h
  <2>4. CASE tlink[q] # h
    BY <1>1, <2>1, <2>2, <2>4, AltTimeSame
  <2>5. CASE tlink[q] = h
    <3>1. /\ \E g \in 1..Guards : GuardRel(q, g) <= Rel(now, node[h].time)
          /\ Lags(q, node[h].time) /\ pc[q] # "idle"
      BY <1>1, <1>6, <2>1, <2>5 DEF AltTime, RefAt, RefPC
    <3>2. node'[h].wptr # None
      BY <2>1, <2>3
    <3>3. /\ \E g \in 1..Guards : GuardRel(q, g) <= Rel(now, walk[t].now)
          /\ Lags(q, walk[t].now)
      <4>1. Rel(now, node[h].time) \in -Slack .. MaxDelay
        BY <1>13, <2>1 DEF h, Near
      <4>2. Rel(now, walk[t].now) \in -Slack .. 0
        BY <2>1 DEF Past
      <4>3. Rel(now, node[h].time) <= Rel(now, walk[t].now)
        BY <1>4, <1>7, <1>8, <2>1, <4>1, <4>2
      <4>4. PICK g \in 1..Guards : GuardRel(q, g) <= Rel(now, node[h].time)
        BY <3>1
      <4>5. GuardRel(q, g) <= Rel(now, walk[t].now)
        BY <1>3, <4>1, <4>2, <4>3, <4>4
      <4>6. ASSUME NEW i \in 1..Guards PROVE GuardRel(q, i) - Rel(now, walk[t].now) <= MaxDelay
        BY <1>3, <1>7, <3>1, <4>1, <4>2, <4>3, <4>6 DEF Lags
      <4> QED BY <4>5, <4>6 DEF Lags
    <3>4. EnableOK(q)' /\ (pc'[q] \in {"dist", "release"} /\ tlink'[q] = "set" => Fired(q, field[q])')
      BY <1>1, <2>1 DEF AltTime, EnableOK, Fired, Lags, GuardRel, FieldRel
    <3>5. /\ \E g \in 1..Guards : GuardRel(q, g)' <= Rel(now', node'[tlink'[q]].time)
          /\ Lags(q, node[tlink[q]].time)'
      BY <2>1, <2>3, <2>5, <3>3 DEF Lags, GuardRel
    <3>6. pc'[q] # "idle" => \A g \in 1..Guards : Near(now', guards'[q][g])
      BY <1>1, <2>1 DEF AltTime
    <3> QED BY <2>1, <2>3, <2>5, <3>2, <3>4, <3>5, <3>6 DEF AltTime
  <2> QED BY <2>4, <2>5
<1>131. ASSUME NEW t \in Threads, WalkSwap(t) PROVE (\A q \in Alts : AltTime(q))'
  <2> SUFFICES ASSUME NEW q \in Alts PROVE AltTime(q)'
    OBVIOUS
  <2> DEFINE h == Head(queue[t])
  <2>1. /\ UNCHANGED <<now, pc, guards, field, tlink, k>> /\ queue[t] # <<>> /\ h \in Nodes /\ walk[t].now \in Times
        /\ node' = [node EXCEPT ![h] = [node[h] EXCEPT !.wptr = None]] /\ Past(now, walk[t].now)
        /\ node[h].time = walk[t].now
    BY <1>131, <1>1, <1>2, <1>9, <1>12, WalkEdits DEF WalkSwap, Set, where, alt, FunOK
  <2>2. \A m \in Nodes : m # h => node'[m] = node[m]
    BY <1>1, <2>1 DEF FunOK
  <2>3. node'[h].time = node[h].time /\ node'[h].wptr = None
    BY <1>1, <1>4, <2>1, NodeReads DEF FunOK
  <2> HIDE DEF h
  <2>4. CASE tlink[q] # h
    BY <1>1, <2>1, <2>2, <2>4, AltTimeSame
  <2>5. CASE tlink[q] = h
    <3>2. Rel(now, node[h].time) <= 0
      BY <2>1 DEF Past
    <3>3. /\ \E g \in 1..Guards : GuardRel(q, g) <= Rel(now, node[h].time)
          /\ Lags(q, node[h].time)
      BY <1>1, <2>1, <2>5 DEF AltTime
    <3>4. EnableOK(q)' /\ (pc'[q] \in {"dist", "release"} /\ tlink'[q] = "set" => Fired(q, field[q])')
      BY <1>1, <2>1 DEF AltTime, EnableOK, Fired, Lags, GuardRel, FieldRel
    <3>5. /\ \E g \in 1..Guards : GuardRel(q, g)' <= Rel(now', node'[tlink'[q]].time)
          /\ Lags(q, node[tlink[q]].time)'
      BY <2>1, <2>3, <2>5, <3>3 DEF Lags, GuardRel
    <3>6. pc'[q] # "idle" => \A g \in 1..Guards : Near(now', guards'[q][g])
      BY <1>1, <2>1 DEF AltTime
    <3> QED BY <2>1, <2>3, <2>5, <3>2, <3>4, <3>5, <3>6 DEF AltTime
  <2> QED BY <2>4, <2>5
<1>132. ASSUME NEW t \in Threads, Sweeps(t) PROVE (\A q \in Alts : AltTime(q))'
  <2> SUFFICES ASSUME NEW q \in Alts PROVE AltTime(q)'
    OBVIOUS
  <2>1. tlink[q] \in Nodes =>
          /\ node'[tlink[q]].time = node[tlink[q]].time
          /\ node'[tlink[q]].wptr = None => node[tlink[q]].wptr = None
    BY <1>132, <1>1, <1>4, <1>6, NodeReads, TypesOfQueue DEF Sweeps, where, alt, Started, InCall,
       Set, RefAt, FunOK
  <2>2. /\ pc'[q] = pc[q] /\ guards'[q] = guards[q] /\ field'[q] = field[q]
        /\ tlink'[q] = tlink[q] /\ k'[q] = k[q]
    BY <1>132, <1>1, <1>2 DEF Sweeps, where, alt, Started, InCall, Set, FunOK
  <2>3. UNCHANGED now
    BY <1>132 DEF Sweeps, where, alt, Started, InCall, Set
  <2> QED BY <1>1, <2>1, <2>2, <2>3, AltTimeSame
<1>133. ASSUME NEW t \in Threads, WalkDead(t), Shrunk(t, {Head(queue[t])})
       PROVE  (\A q \in Alts : AltTime(q))'
  <2> SUFFICES ASSUME NEW q \in Alts PROVE AltTime(q)'
    OBVIOUS
  <2>1. tlink[q] \in Nodes =>
          /\ node'[tlink[q]].time = node[tlink[q]].time
          /\ node'[tlink[q]].wptr = None => node[tlink[q]].wptr = None
    BY <1>133, <1>1, <1>4, <1>6, NodeReads, TypesOfQueue DEF WalkDead, Set, where, alt, RefAt,
       FunOK
  <2>2. /\ pc'[q] = pc[q] /\ guards'[q] = guards[q] /\ field'[q] = field[q]
        /\ tlink'[q] = tlink[q] /\ k'[q] = k[q]
    BY <1>133, <1>1, <1>2 DEF WalkDead, Set, where, alt, FunOK
  <2>3. UNCHANGED now
    BY <1>133 DEF WalkDead, Set, where, alt
  <2> QED BY <1>1, <2>1, <2>2, <2>3, AltTimeSame
<1>134. ASSUME NEW t \in Threads, WalkClean(t), Shrunk(t, {Head(queue[t])})
       PROVE  (\A q \in Alts : AltTime(q))'
  <2> SUFFICES ASSUME NEW q \in Alts PROVE AltTime(q)'
    OBVIOUS
  <2>1. tlink[q] \in Nodes =>
          /\ node'[tlink[q]].time = node[tlink[q]].time
          /\ node'[tlink[q]].wptr = None => node[tlink[q]].wptr = None
    BY <1>134, <1>1, <1>4, <1>6, NodeReads, TypesOfQueue DEF WalkClean, Set, where, alt, Walk,
       RefAt, FunOK
  <2>2. /\ pc'[q] = pc[q] /\ guards'[q] = guards[q] /\ field'[q] = field[q]
        /\ tlink'[q] = tlink[q] /\ k'[q] = k[q]
    BY <1>134, <1>1, <1>2 DEF WalkClean, Set, where, alt, Walk, FunOK
  <2>3. UNCHANGED now
    BY <1>134 DEF WalkClean, Set, where, alt, Walk
  <2> QED BY <1>1, <2>1, <2>2, <2>3, AltTimeSame
<1>135. ASSUME NEW t \in Threads, NEW n \in Nodes, NEW p \in Sleepers, NEW u \in Threads, SleeperWakes(t, n, p, u)
       PROVE  (\A q \in Alts : AltTime(q))'
  <2> SUFFICES ASSUME NEW q \in Alts PROVE AltTime(q)'
    OBVIOUS
  <2>1. tlink[q] \in Nodes =>
          /\ node'[tlink[q]].time = node[tlink[q]].time
          /\ node'[tlink[q]].wptr = None => node[tlink[q]].wptr = None
    BY <1>135, <1>1, <1>4, <1>6 DEF SleeperWakes, alt, RefAt, FunOK
  <2>2. /\ pc'[q] = pc[q] /\ guards'[q] = guards[q] /\ field'[q] = field[q]
        /\ tlink'[q] = tlink[q] /\ k'[q] = k[q]
    BY <1>135, <1>1, <1>2 DEF SleeperWakes, alt, FunOK
  <2>3. UNCHANGED now
    BY <1>135 DEF SleeperWakes, alt
  <2> QED BY <1>1, <2>1, <2>2, <2>3, AltTimeSame
<1>136. ASSUME NEW t \in Threads, NEW p \in Alts, Timed(t, p), NoneComes(p)
       PROVE  (\A q \in Alts : AltTime(q))'
  <2> SUFFICES ASSUME NEW q \in Alts PROVE AltTime(q)'
    OBVIOUS
  <2>1. tlink[q] \in Nodes /\ q # p =>
          /\ node'[tlink[q]].time = node[tlink[q]].time
          /\ node'[tlink[q]].wptr = None => node[tlink[q]].wptr = None
    BY <1>136, <1>1, <1>4, <1>6 DEF Timed, NoneComes, mem, Triggers, where, Counted, RefAt, FunOK
  <2>2. q # p => /\ pc'[q] = pc[q] /\ guards'[q] = guards[q] /\ field'[q] = field[q]
                 /\ tlink'[q] = tlink[q] /\ k'[q] = k[q]
    BY <1>136, <1>1, <1>2 DEF Timed, NoneComes, mem, Triggers, where, Counted, FunOK
  <2>3. UNCHANGED now
    BY <1>136 DEF Timed, NoneComes, mem, Triggers, where, Counted
  <2>4. CASE q # p
    BY <1>1, <2>1, <2>2, <2>3, <2>4, AltTimeSame
  <2>5. CASE q = p
    <3>1. /\ pc'[p] = pc[p] /\ guards'[p] = guards[p] /\ field'[p] = field[p] /\ tlink'[p] = tlink[p]
          /\ k'[p] = k[p] /\ node' = node
      BY <1>136, <1>1 DEF Timed, NoneComes, mem, where
    <3> QED BY <1>1, <2>3, <2>5, <3>1, AltTimeSame
  <2> QED BY <2>4, <2>5
<1>137. ASSUME NEW t \in Threads, NEW p \in Alts, NEW u \in Threads, Timed(t, p), GuardComes(p, u)
       PROVE  (\A q \in Alts : AltTime(q))'
  <2> SUFFICES ASSUME NEW q \in Alts PROVE AltTime(q)'
    OBVIOUS
  <2>1. tlink[q] \in Nodes /\ q # p =>
          /\ node'[tlink[q]].time = node[tlink[q]].time
          /\ node'[tlink[q]].wptr = None => node[tlink[q]].wptr = None
    BY <1>137, <1>1, <1>4, <1>6 DEF Timed, GuardComes, mem, Triggers, Counted, RefAt, FunOK
  <2>2. q # p => /\ pc'[q] = pc[q] /\ guards'[q] = guards[q] /\ field'[q] = field[q]
                 /\ tlink'[q] = tlink[q] /\ k'[q] = k[q]
    BY <1>137, <1>1, <1>2 DEF Timed, GuardComes, mem, Triggers, Counted, FunOK
  <2>3. UNCHANGED now
    BY <1>137 DEF Timed, GuardComes, mem, Triggers, Counted
  <2>4. CASE q # p
    BY <1>1, <2>1, <2>2, <2>3, <2>4, AltTimeSame
  <2>5. CASE q = p
    <3>1. /\ guards'[p] = guards[p] /\ field'[p] = field[p] /\ pc[p] # "idle" /\ pc'[p] \notin {"enbt", "taltwt", "cas"}
          /\ tlink'[p] = tlink[p] \/ tlink'[p] \notin Nodes \cup {"set"}
          /\ tlink'[p] \in Nodes => node'[tlink[p]] = node[tlink[p]]
      BY <1>137, <1>1, <1>2 DEF Timed, GuardComes, mem, Triggers, Counted, FunOK
    <3>2. pc'[p] \in {"dist", "release"} /\ tlink'[p] = "set" => pc[p] \in {"dist", "release"}
      BY <1>137, <1>1, <1>2, <1>6 DEF Timed, GuardComes, mem, Triggers, Counted, FunOK, RefAt
    <3> QED BY <1>1, <2>3, <2>5, <3>1, <3>2, AltTimeMoves
  <2> QED BY <2>4, <2>5
<1>138. ASSUME NEW t \in Threads, NEW p \in Alts, NEW u \in Threads, Timed(t, p), EndComes(p, u)
       PROVE  (\A q \in Alts : AltTime(q))'
  <2> SUFFICES ASSUME NEW q \in Alts PROVE AltTime(q)'
    OBVIOUS
  <2>1. tlink[q] \in Nodes /\ q # p =>
          /\ node'[tlink[q]].time = node[tlink[q]].time
          /\ node'[tlink[q]].wptr = None => node[tlink[q]].wptr = None
    BY <1>138, <1>1, <1>4, <1>6 DEF Timed, EndComes, mem, Triggers, Counted, RefAt, FunOK
  <2>2. q # p => /\ pc'[q] = pc[q] /\ guards'[q] = guards[q] /\ field'[q] = field[q]
                 /\ tlink'[q] = tlink[q] /\ k'[q] = k[q]
    BY <1>138, <1>1, <1>2 DEF Timed, EndComes, mem, Triggers, Counted, FunOK
  <2>3. UNCHANGED now
    BY <1>138 DEF Timed, EndComes, mem, Triggers, Counted
  <2>4. CASE q # p
    BY <1>1, <2>1, <2>2, <2>3, <2>4, AltTimeSame
  <2>5. CASE q = p
    <3>1. /\ guards'[p] = guards[p] /\ field'[p] = field[p] /\ pc[p] # "idle" /\ pc'[p] \notin {"enbt", "taltwt", "cas"}
          /\ tlink'[p] = tlink[p] \/ tlink'[p] \notin Nodes \cup {"set"}
          /\ tlink'[p] \in Nodes => node'[tlink[p]] = node[tlink[p]]
      BY <1>138, <1>1, <1>2 DEF Timed, EndComes, mem, Triggers, Counted, FunOK
    <3>2. pc'[p] \in {"dist", "release"} /\ tlink'[p] = "set" => pc[p] \in {"dist", "release"}
      BY <1>138, <1>1, <1>2, <1>6 DEF Timed, EndComes, mem, Triggers, Counted, FunOK, RefAt
    <3> QED BY <1>1, <2>3, <2>5, <3>1, <3>2, AltTimeMoves
  <2> QED BY <2>4, <2>5
<1>139. ASSUME UNCHANGED vars PROVE (\A q \in Alts : AltTime(q))'
  BY <1>139, <1>1 DEF vars, mem, where, alt, AltTime, EnableOK, Fired, Lags, GuardRel, FieldRel
<1> QED BY <1>101, <1>102, <1>103, <1>104, <1>105, <1>106, <1>107, <1>108, <1>109, <1>110,
   <1>111, <1>112, <1>113, <1>114, <1>115, <1>116, <1>117, <1>118, <1>119, <1>120, <1>121,
   <1>122, <1>123, <1>124, <1>125, <1>126, <1>127, <1>128, <1>129, <1>130, <1>131, <1>132,
   <1>133, <1>134, <1>135, <1>136, <1>137, <1>138, <1>139 DEF Form, AltForm, WalkForm

\* What the selection of an ALT depends on.
LEMMA SelSame ==
  ASSUME NEW q \in Alts, SelAt(q), UNCHANGED now, pc'[q] = pc[q], guards'[q] = guards[q],
         field'[q] = field[q], tlink'[q] = tlink[q], k'[q] = k[q], temp'[q] = temp[q],
         chan'[q] \in {chan[q], "writer"},
         tlink[q] \in Nodes /\ node[tlink[q]].wptr = None => node'[tlink[q]].wptr = None
  PROVE  SelAt(q)'
<1>1. \A m : DueBefore(q, m)' = DueBefore(q, m)
  BY DEF DueBefore, GuardRel, FieldRel
<1>2. Due(q) => Due(q)'
  <2>1. DueBefore(q, k[q])' = DueBefore(q, k[q]) /\ DueBefore(q, k[q] - 1)' = DueBefore(q, k[q] - 1)
    BY DEF DueBefore, GuardRel, FieldRel
  <2> QED BY <2>1 DEF Due
<1>3. pc'[q] # "idle" /\ temp'[q] \in 1..Guards => GuardRel(q, temp[q])' <= 0
  BY DEF SelAt, GuardRel
<1> QED BY <1>2, <1>3 DEF SelAt

\* One tick of the clock, as an ALT sees it.
LEMMA TickTimes ==
  ASSUME IInv, Tick, NEW q \in Alts, pc[q] # "idle"
  PROVE  /\ \A g \in 1..Guards : GuardRel(q, g) \in Int /\ GuardRel(q, g)' = GuardRel(q, g) - 1
         /\ \A x \in Times : Lags(q, x) => Rel(now, x) \in Int /\ Rel(now', x) = Rel(now, x) - 1
<1>1. FunOK /\ AltTime(q)
  BY DEF IInv, MemInv, TimeOK
<1>2. now \in Times /\ UNCHANGED <<pc, guards>> /\ now' = Future(1) /\ q \in Procs
  BY <1>1, ConstFacts DEF FunOK, Tick, mem, where, alt
<1>3. \A x \in Times : Rel(now, x) > -Half => Rel(now', x) = Rel(now, x) - 1
  BY <1>2, TickRel
<1>4. \A g \in 1..Guards : guards[q][g] \in Times /\ GuardRel(q, g) = Rel(now, guards[q][g])
  BY <1>1 DEF FunOK, GuardRel
<1>5. \A g \in 1..Guards : GuardRel(q, g) \in -Slack .. MaxDelay
  BY <1>1, <1>4 DEF AltTime, Near
<1>6. ASSUME NEW g \in 1..Guards PROVE GuardRel(q, g)' = GuardRel(q, g) - 1
  <2>1. Rel(now', guards[q][g]) = Rel(now, guards[q][g]) - 1
    BY <1>3, <1>4, <1>5, Sizes
  <2> QED BY <1>2, <1>4, <2>1 DEF GuardRel
<1>7. ASSUME NEW x \in Times, Lags(q, x) PROVE Rel(now, x) \in Int /\ Rel(now', x) = Rel(now, x) - 1
  <2>1. 1 \in 1..Guards /\ Rel(now, x) \in Int
    BY <1>2, Sizes, RelIs
  <2>2. GuardRel(q, 1) \in -Slack .. MaxDelay /\ GuardRel(q, 1) - Rel(now, x) <= MaxDelay
    BY <1>5, <1>7, <2>1 DEF Lags
  <2>3. Rel(now, x) > -Half
    BY <2>1, <2>2, Sizes
  <2> QED BY <1>3, <2>1, <2>3
<1>8. \A g \in 1..Guards : GuardRel(q, g) \in Int
  BY <1>5, Sizes
<1> QED BY <1>6, <1>7, <1>8

\* An ALT selects.
LEMMA SelStep ==
  ASSUME IInv, Form PROVE (\A q \in Alts : SelAt(q))'
<1>1. FunOK /\ \A q \in Alts : SelAt(q)
  BY DEF IInv, SelOK, MemInv
<1>2. /\ Sleepers \cap Alts = {} /\ Alts \subseteq Procs /\ Sleepers \subseteq Procs
      /\ None \notin Procs /\ None \notin Nodes /\ "set" \notin Nodes /\ "notset" \notin Nodes
  BY ConstFacts
<1>3. \A q \in Alts, g \in 1..Guards :
        /\ guards[q][g] \in Times /\ GuardRel(q, g) \in Int /\ GuardRel(q, g) = Rel(now, guards[q][g])
        /\ pc[q] # "idle" => GuardRel(q, g) \in -Slack .. MaxDelay
  <2>1. \A q \in Alts, g \in 1..Guards : guards[q][g] \in Times
    BY <1>1 DEF FunOK
  <2>2. \A q \in Alts, g \in 1..Guards : pc[q] # "idle" => Near(now, guards[q][g])
    BY DEF IInv, TimeOK, AltTime
  <2> QED BY <1>1, <2>1, <2>2, RelIs DEF FunOK, Near, GuardRel
<1>4. \A n \in Nodes : node[n] \in NodeT /\ node[n].time \in Times
  BY <1>1, TypesOfNode DEF FunOK
<1>5. \A q \in Alts : field[q] \in Times /\ FieldRel(q) \in Int /\ k[q] \in 1..Guards /\ temp[q] \in 0..Channel
  BY <1>1, RelIs DEF FunOK, FieldRel
<1>6. \A q \in Alts : RefAt(q) /\ AltAt(q) /\ AltTime(q)
  BY DEF IInv, MemInv, RefOK, AltOK, TimeOK
<1>7. /\ now \in Times /\ Rel(now, now) = 0 /\ Slack \in Nat /\ MaxDelay \in Nat /\ MaxDelay + Slack < Half
      /\ Half \in Nat /\ Guards \in Nat /\ Guards >= 1 /\ MaxDelay >= 1 /\ Channel = Guards + 1
  BY <1>1, RelNow, Sizes DEF FunOK
<1>8. \A x, y \in Times : /\ Rel(now, x) \in Int /\ Rel(now, y) \in Int
                          /\ Rel(now, x) - Rel(now, y) < Half /\ Rel(now, y) - Rel(now, x) < Half
                               => (After(x, y) <=> Rel(now, x) > Rel(now, y))
  BY <1>7, AfterRel, RelIs
<1>9. \A t \in Threads : queue[t] # <<>> => Head(queue[t]) \in Nodes /\ LinkAt(t, Head(queue[t]))
  BY TypesOfQueue DEF IInv, MemInv, FunOK, LinkOK
<1>10. ASSUME NEW q \in Alts, NEW g \in 1..Guards, NEW x \in Times, Fired(q, x), pc[q] # "idle"
       PROVE  After(guards[q][g], x) <=> GuardRel(q, g) > Rel(now, x)
  <2>1. /\ Rel(now, x) \in Int /\ Rel(now, x) <= 0 /\ GuardRel(q, g) - Rel(now, x) <= MaxDelay
        /\ GuardRel(q, g) \in -Slack .. MaxDelay /\ GuardRel(q, g) = Rel(now, guards[q][g]) /\ guards[q][g] \in Times
    BY <1>3, <1>8, <1>10 DEF Fired, Lags
  <2> QED BY <1>7, <1>8, <1>10, <2>1
<1>11. \A t \in Threads : WalkAt(t)
  BY DEF IInv, MemInv, WalkOK
<1>12. \A t \in Threads, p \in Alts : Triggers(t, p) /\ tlink[p] \in Nodes => node[tlink[p]].wptr = None
  BY <1>11 DEF WalkAt, Triggers
<1>101. ASSUME Tick PROVE (\A q \in Alts : SelAt(q))'
  <2> SUFFICES ASSUME NEW q \in Alts PROVE SelAt(q)'
    OBVIOUS
  <2>1. UNCHANGED <<pc, guards, field, tlink, k, node, temp, chan>>
    BY <1>101 DEF Tick, mem, where, alt
  <2>2. CASE pc[q] = "idle"
    BY <2>1, <2>2 DEF SelAt, EndPC
  <2>3. CASE pc[q] # "idle"
    <3>1. \A g \in 1..Guards : GuardRel(q, g) \in Int /\ GuardRel(q, g)' = GuardRel(q, g) - 1
      BY <1>101, <2>3, TickTimes
    <3>2. pc[q] \in {"dist", "release"} /\ tlink[q] = "set" => FieldRel(q)' = FieldRel(q) - 1
      <4>1. ASSUME pc[q] \in {"dist", "release"}, tlink[q] = "set" PROVE Lags(q, field[q])
        BY <1>6, <4>1 DEF AltTime, Fired
      <4>2. pc[q] \in {"dist", "release"} /\ tlink[q] = "set" => Rel(now', field[q]) = Rel(now, field[q]) - 1
        BY <1>101, <1>5, <2>3, <4>1, TickTimes
      <4> QED BY <2>1, <4>2 DEF FieldRel
    <3>3. ASSUME NEW m \in 0..Guards, DueBefore(q, m), pc[q] \in {"dist", "release"}
          PROVE  tlink[q] = "set" /\ \E g \in 1..m : GuardRel(q, g)' <= FieldRel(q)'
      <4>1. PICK g \in 1..m : GuardRel(q, g) <= FieldRel(q)
        BY <3>3 DEF DueBefore
      <4>2. tlink[q] = "set" /\ g \in 1..Guards
        BY <1>7, <3>3 DEF DueBefore
      <4>3. GuardRel(q, g)' <= FieldRel(q)'
        BY <1>5, <3>1, <3>2, <3>3, <4>1, <4>2
      <4> QED BY <4>2, <4>3
    <3>4. Due(q) => Due(q)'
      <4>1. k[q] \in 0..Guards /\ k[q] - 1 \in 0..Guards
        BY <1>5, <1>7
      <4>2. pc[q] \in {"dist", "release"} /\ DueBefore(q, k[q])
            => tlink'[q] = "set" /\ \E g \in 1..k'[q] : GuardRel(q, g)' <= FieldRel(q)'
        BY <2>1, <3>3, <4>1
      <4>3. pc[q] \in {"dist", "release"} /\ DueBefore(q, k[q] - 1)
            => tlink'[q] = "set" /\ \E g \in 1..(k'[q] - 1) : GuardRel(q, g)' <= FieldRel(q)'
        BY <2>1, <3>3, <4>1
      <4>4. CASE pc[q] = "dist" /\ DueBefore(q, k[q])
        BY <2>1, <4>2, <4>4 DEF Due, DueBefore
      <4>5. CASE pc[q] = "dist" /\ tlink[q] \in Nodes /\ node[tlink[q]].wptr = None
        BY <2>1, <4>5 DEF Due
      <4>6. CASE pc[q] = "release" /\ DueBefore(q, k[q] - 1)
        BY <2>1, <4>3, <4>6 DEF Due, DueBefore
      <4>7. Due(q) => \/ pc[q] = "dist" /\ DueBefore(q, k[q])
                      \/ pc[q] = "dist" /\ tlink[q] \in Nodes /\ node[tlink[q]].wptr = None
                      \/ pc[q] = "release" /\ DueBefore(q, k[q] - 1)
        BY DEF Due
      <4> QED BY <4>4, <4>5, <4>6, <4>7
    <3>5. ASSUME NEW g \in 1..Guards, temp[q] = g PROVE GuardRel(q, g)' <= 0
      <4>1. GuardRel(q, g) <= 0
        BY <1>1, <2>3, <3>5 DEF SelAt
      <4> QED BY <3>1, <4>1
    <3>6. temp'[q] \in 1..Guards => GuardRel(q, temp[q])' <= 0
      BY <2>1, <3>5 DEF GuardRel
    <3> QED BY <1>1, <2>1, <3>4, <3>6 DEF SelAt
  <2> QED BY <2>2, <2>3
<1>102. ASSUME NEW p \in Sleepers, NEW t \in Threads, NEW x \in Times, NEW n \in Nodes, TimerWaits(p, t, x, n)
       PROVE  (\A q \in Alts : SelAt(q))'
  <2> SUFFICES ASSUME NEW q \in Alts PROVE SelAt(q)'
    OBVIOUS
  <2>1. tlink[q] \in Nodes /\ node[tlink[q]].wptr = None => node'[tlink[q]].wptr = None
    <3>1. tlink[q] \in Nodes => tlink[q] # n
      BY <1>102, <1>6 DEF TimerWaits, Grown, Washed, RefAt
    <3> QED BY <1>102, <1>1, <3>1 DEF TimerWaits, Grown, FunOK
  <2>2. /\ pc'[q] = pc[q] /\ guards'[q] = guards[q] /\ field'[q] = field[q] /\ temp'[q] = temp[q]
        /\ tlink'[q] = tlink[q] /\ k'[q] = k[q] /\ chan'[q] = chan[q]
    BY <1>102, <1>1, <1>2 DEF TimerWaits, alt, InCall, FunOK
  <2>3. UNCHANGED now
    BY <1>102 DEF TimerWaits, alt, InCall
  <2> QED BY <1>1, <2>1, <2>2, <2>3, SelSame
<1>103. ASSUME NEW p \in Alts, NEW t \in Threads, NEW g \in Delays, TaltEnables(p, t, g)
       PROVE  (\A q \in Alts : SelAt(q))'
  <2> SUFFICES ASSUME NEW q \in Alts PROVE SelAt(q)'
    OBVIOUS
  <2>1. tlink[q] \in Nodes /\ q # p /\ node[tlink[q]].wptr = None => node'[tlink[q]].wptr = None
    BY <1>103, <1>1, <1>4, <1>9 DEF TaltEnables, alt, Starts, mem, InCall, FunOK
  <2>2. q # p => /\ pc'[q] = pc[q] /\ guards'[q] = guards[q] /\ field'[q] = field[q] /\ temp'[q] = temp[q]
                 /\ tlink'[q] = tlink[q] /\ k'[q] = k[q] /\ chan'[q] = chan[q]
    BY <1>103, <1>1, <1>2 DEF TaltEnables, alt, Starts, mem, InCall, FunOK
  <2>3. UNCHANGED now
    BY <1>103 DEF TaltEnables, alt, Starts, mem, InCall
  <2>4. CASE q # p
    BY <1>1, <2>1, <2>2, <2>3, <2>4, SelSame
  <2>5. CASE q = p
    <3>1. temp'[p] = 0 /\ pc'[p] = "enbt"
      BY <1>103, <1>1, <1>2 DEF TaltEnables, alt, Starts, mem, InCall, FunOK
    <3> QED BY <2>5, <3>1 DEF SelAt, EndPC
  <2> QED BY <2>4, <2>5
<1>104. ASSUME NEW p \in Alts, NEW t \in Threads, NEW g \in Delays, TaltWritten(p, t, g)
       PROVE  (\A q \in Alts : SelAt(q))'
  <2> SUFFICES ASSUME NEW q \in Alts PROVE SelAt(q)'
    OBVIOUS
  <2>1. tlink[q] \in Nodes /\ q # p /\ node[tlink[q]].wptr = None => node'[tlink[q]].wptr = None
    BY <1>104, <1>1, <1>4, <1>9 DEF TaltWritten, Starts, mem, InCall, FunOK
  <2>2. q # p => /\ pc'[q] = pc[q] /\ guards'[q] = guards[q] /\ field'[q] = field[q] /\ temp'[q] = temp[q]
                 /\ tlink'[q] = tlink[q] /\ k'[q] = k[q] /\ chan'[q] = chan[q]
    BY <1>104, <1>1, <1>2 DEF TaltWritten, Starts, mem, InCall, FunOK
  <2>3. UNCHANGED now
    BY <1>104 DEF TaltWritten, Starts, mem, InCall
  <2>4. CASE q # p
    BY <1>1, <2>1, <2>2, <2>3, <2>4, SelSame
  <2>5. CASE q = p
    <3>1. temp'[p] = 0 /\ pc'[p] = "disc" /\ chan'[p] = "writer"
      BY <1>104, <1>1, <1>2 DEF TaltWritten, Starts, mem, InCall, FunOK
    <3> QED BY <2>5, <3>1 DEF SelAt, EndPC
  <2> QED BY <2>4, <2>5
<1>105. ASSUME NEW p \in Alts, EnbReady(p) PROVE (\A q \in Alts : SelAt(q))'
  <2> SUFFICES ASSUME NEW q \in Alts PROVE SelAt(q)'
    OBVIOUS
  <2>1. tlink[q] \in Nodes /\ q # p /\ node[tlink[q]].wptr = None => node'[tlink[q]].wptr = None
    BY <1>105, <1>1, <1>4, <1>9 DEF EnbReady, GoesOn, Enables, Set, Runs, mem, InCall, FunOK
  <2>2. q # p => /\ pc'[q] = pc[q] /\ guards'[q] = guards[q] /\ field'[q] = field[q] /\ temp'[q] = temp[q]
                 /\ tlink'[q] = tlink[q] /\ k'[q] = k[q] /\ chan'[q] = chan[q]
    BY <1>105, <1>1, <1>2 DEF EnbReady, GoesOn, Enables, Set, Runs, mem, InCall, FunOK
  <2>3. UNCHANGED now
    BY <1>105 DEF EnbReady, GoesOn, Enables, Set, Runs, mem, InCall
  <2>4. CASE q # p
    BY <1>1, <2>1, <2>2, <2>3, <2>4, SelSame
  <2>5. CASE q = p
    <3>1. /\ guards'[p] = guards[p] /\ pc[p] # "idle" /\ temp'[p] = temp[p] /\ pc[p] = "enbt" /\ pc'[p] = "dist"
          /\ tlink'[p] = "set" /\ field'[p] = now /\ k'[p] = k[p] /\ ~After(guards[p][k[p]], now)
      BY <1>105, <1>1, <1>2 DEF EnbReady, GoesOn, Enables, Set, Runs, mem, InCall, FunOK
    <3>2. temp[p] = 0
      BY <1>1, <3>1 DEF SelAt
    <3>3. Fired(p, now)
      BY <1>3, <1>7, <3>1 DEF Fired, Lags
    <3>4. GuardRel(p, k[p]) <= 0
      BY <1>3, <1>5, <1>7, <1>10, <3>1, <3>3
    <3>5. GuardRel(p, k[p])' <= FieldRel(p)' /\ k'[p] \in 1..k'[p]
      BY <1>5, <1>7, <2>3, <3>1, <3>4 DEF GuardRel, FieldRel
    <3>6. Due(p)'
      BY <1>5, <3>1, <3>5 DEF Due, DueBefore
    <3> QED BY <2>5, <3>1, <3>2, <3>6 DEF SelAt, EndPC
  <2> QED BY <2>4, <2>5
<1>106. ASSUME NEW p \in Alts, EnbNext(p) PROVE (\A q \in Alts : SelAt(q))'
  <2> SUFFICES ASSUME NEW q \in Alts PROVE SelAt(q)'
    OBVIOUS
  <2>1. tlink[q] \in Nodes /\ q # p /\ node[tlink[q]].wptr = None => node'[tlink[q]].wptr = None
    BY <1>106, <1>1, <1>4, <1>9 DEF EnbNext, EnbLater, EnbField, Enables, Runs, mem, InCall, FunOK
  <2>2. q # p => /\ pc'[q] = pc[q] /\ guards'[q] = guards[q] /\ field'[q] = field[q] /\ temp'[q] = temp[q]
                 /\ tlink'[q] = tlink[q] /\ k'[q] = k[q] /\ chan'[q] = chan[q]
    BY <1>106, <1>1, <1>2 DEF EnbNext, EnbLater, EnbField, Enables, Runs, mem, InCall, FunOK
  <2>3. UNCHANGED now
    BY <1>106 DEF EnbNext, EnbLater, EnbField, Enables, Runs, mem, InCall
  <2>4. CASE q # p
    BY <1>1, <2>1, <2>2, <2>3, <2>4, SelSame
  <2>5. CASE q = p
    <3>1. /\ guards'[p] = guards[p] /\ pc[p] # "idle" /\ temp'[p] = temp[p]
          /\ pc[p] = "enbt" /\ pc'[p] = "enbt"
      BY <1>106, <1>1, <1>2 DEF EnbNext, EnbLater, EnbField, Enables, Runs, mem, InCall, FunOK
    <3> QED BY <1>1, <2>3, <2>5, <3>1 DEF SelAt, EndPC, GuardRel
  <2> QED BY <2>4, <2>5
<1>107. ASSUME NEW p \in Alts, EnbLast(p) PROVE (\A q \in Alts : SelAt(q))'
  <2> SUFFICES ASSUME NEW q \in Alts PROVE SelAt(q)'
    OBVIOUS
  <2>1. tlink[q] \in Nodes /\ q # p /\ node[tlink[q]].wptr = None => node'[tlink[q]].wptr = None
    BY <1>107, <1>1, <1>4, <1>9 DEF EnbLast, EnbLater, EnbField, Enables, Runs, mem, InCall, FunOK
  <2>2. q # p => /\ pc'[q] = pc[q] /\ guards'[q] = guards[q] /\ field'[q] = field[q] /\ temp'[q] = temp[q]
                 /\ tlink'[q] = tlink[q] /\ k'[q] = k[q] /\ chan'[q] = chan[q]
    BY <1>107, <1>1, <1>2 DEF EnbLast, EnbLater, EnbField, Enables, Runs, mem, InCall, FunOK
  <2>3. UNCHANGED now
    BY <1>107 DEF EnbLast, EnbLater, EnbField, Enables, Runs, mem, InCall
  <2>4. CASE q # p
    BY <1>1, <2>1, <2>2, <2>3, <2>4, SelSame
  <2>5. CASE q = p
    <3>1. /\ guards'[p] = guards[p] /\ pc[p] # "idle" /\ temp'[p] = temp[p]
          /\ pc[p] = "enbt" /\ pc'[p] = "taltwt"
      BY <1>107, <1>1, <1>2 DEF EnbLast, EnbLater, EnbField, Enables, Runs, mem, InCall, FunOK
    <3> QED BY <1>1, <2>3, <2>5, <3>1 DEF SelAt, EndPC, GuardRel
  <2> QED BY <2>4, <2>5
<1>108. ASSUME NEW p \in Alts, DistFired(p) PROVE (\A q \in Alts : SelAt(q))'
  <2> SUFFICES ASSUME NEW q \in Alts PROVE SelAt(q)'
    OBVIOUS
  <2>1. tlink[q] \in Nodes /\ q # p /\ node[tlink[q]].wptr = None => node'[tlink[q]].wptr = None
    BY <1>108, <1>1, <1>4, <1>9 DEF DistFired, Runs, Set, AltStep, mem, InCall, FunOK
  <2>2. q # p => /\ pc'[q] = pc[q] /\ guards'[q] = guards[q] /\ field'[q] = field[q] /\ temp'[q] = temp[q]
                 /\ tlink'[q] = tlink[q] /\ k'[q] = k[q] /\ chan'[q] = chan[q]
    BY <1>108, <1>1, <1>2 DEF DistFired, Runs, Set, AltStep, mem, InCall, FunOK
  <2>3. UNCHANGED now
    BY <1>108 DEF DistFired, Runs, Set, AltStep, mem, InCall
  <2>4. CASE q # p
    BY <1>1, <2>1, <2>2, <2>3, <2>4, SelSame
  <2>5. CASE q = p
    <3> DEFINE x == node[tlink[p]].time
    <3>1. /\ guards'[p] = guards[p] /\ pc[p] # "idle" /\ pc[p] = "dist" /\ pc'[p] = "release" /\ chan'[p] = chan[p] /\ field'[p] = x
          /\ tlink[p] \in Nodes /\ node[tlink[p]].wptr = None /\ k'[p] = k[p]
          /\ temp'[p] = (IF ~After(guards[p][k[p]], x) THEN k[p] ELSE temp[p])
          /\ tlink'[p] = (IF ~After(guards[p][k[p]], x) THEN "notset" ELSE "set")
      BY <1>108, <1>1, <1>2 DEF DistFired, Runs, Set, AltStep, mem, InCall, FunOK
    <3>2. /\ x \in Times /\ Fired(p, x) /\ k[p] = Guards
          /\ \E g \in 1..Guards : GuardRel(p, g) <= Rel(now, x)
      BY <1>4, <1>6, <3>1 DEF AltTime, Fired, RefAt
    <3> HIDE DEF x
    <3>3. After(guards[p][k[p]], x) <=> GuardRel(p, k[p]) > Rel(now, x)
      BY <1>5, <1>10, <3>1, <3>2
    <3>4. Rel(now, x) \in Int /\ Rel(now, x) <= 0 /\ GuardRel(p, k[p]) \in Int
      BY <1>3, <1>5, <1>8, <3>2 DEF Fired
    <3>5. temp'[p] \in 1..Guards => GuardRel(p, temp'[p]) <= 0
      BY <1>1, <1>3, <1>5, <3>1, <3>3, <3>4 DEF SelAt
    <3>6. pc'[p] # "idle" /\ temp'[p] \in 1..Guards => GuardRel(p, temp[p])' <= 0
      BY <2>3, <3>1, <3>5 DEF GuardRel
    <3>7. CASE ~After(guards[p][k[p]], x)
      BY <1>5, <2>5, <3>1, <3>6, <3>7 DEF SelAt, EndPC
    <3>8. CASE After(guards[p][k[p]], x)
      <4>1. \E g \in 1..(k[p] - 1) : GuardRel(p, g) <= Rel(now, x)
        <5>1. PICK g \in 1..Guards : GuardRel(p, g) <= Rel(now, x)
          BY <3>2
        <5>2. g # k[p]
          BY <3>3, <3>4, <3>8, <5>1
        <5>3. g \in 1..(k[p] - 1)
          BY <1>7, <3>2, <5>2
        <5> QED BY <5>1, <5>3
      <4>2. DueBefore(p, k[p] - 1)'
        BY <2>3, <3>1, <3>8, <4>1 DEF DueBefore, GuardRel, FieldRel
      <4> QED BY <2>5, <3>1, <3>6, <4>2 DEF SelAt, EndPC, Due
    <3> QED BY <3>7, <3>8
  <2> QED BY <2>4, <2>5
<1>109. ASSUME NEW p \in Alts, DiscAlt(p) PROVE (\A q \in Alts : SelAt(q))'
  <2> SUFFICES ASSUME NEW q \in Alts PROVE SelAt(q)'
    OBVIOUS
  <2>1. tlink[q] \in Nodes /\ q # p /\ node[tlink[q]].wptr = None => node'[tlink[q]].wptr = None
    BY <1>109, <1>1, <1>4, <1>9 DEF DiscAlt, alt, Discs, Runs, mem, InCall, FunOK
  <2>2. q # p => /\ pc'[q] = pc[q] /\ guards'[q] = guards[q] /\ field'[q] = field[q] /\ temp'[q] = temp[q]
                 /\ tlink'[q] = tlink[q] /\ k'[q] = k[q] /\ chan'[q] = chan[q]
    BY <1>109, <1>1, <1>2 DEF DiscAlt, alt, Discs, Runs, mem, InCall, FunOK
  <2>3. UNCHANGED now
    BY <1>109 DEF DiscAlt, alt, Discs, Runs, mem, InCall
  <2>4. CASE q # p
    BY <1>1, <2>1, <2>2, <2>3, <2>4, SelSame
  <2>5. CASE q = p
    <3>1. /\ guards'[p] = guards[p] /\ pc[p] # "idle" /\ temp'[p] = temp[p] /\ chan[p] = "alt" /\ pc[p] = "disc" /\ pc'[p] = "altend"
      BY <1>109, <1>1, <1>2 DEF DiscAlt, alt, Discs, Runs, mem, InCall, FunOK
    <3>2. ~Due(p)
      BY <3>1 DEF Due
    <3> QED BY <1>1, <2>3, <2>5, <3>1, <3>2 DEF SelAt, EndPC, GuardRel
  <2> QED BY <2>4, <2>5
<1>110. ASSUME NEW p \in Alts, DiscWriter(p) PROVE (\A q \in Alts : SelAt(q))'
  <2> SUFFICES ASSUME NEW q \in Alts PROVE SelAt(q)'
    OBVIOUS
  <2>1. tlink[q] \in Nodes /\ q # p /\ node[tlink[q]].wptr = None => node'[tlink[q]].wptr = None
    BY <1>110, <1>1, <1>4, <1>9 DEF DiscWriter, Discs, Runs, mem, InCall, FunOK
  <2>2. q # p => /\ pc'[q] = pc[q] /\ guards'[q] = guards[q] /\ field'[q] = field[q] /\ temp'[q] = temp[q]
                 /\ tlink'[q] = tlink[q] /\ k'[q] = k[q] /\ chan'[q] = chan[q]
    BY <1>110, <1>1, <1>2 DEF DiscWriter, Discs, Runs, mem, InCall, FunOK
  <2>3. UNCHANGED now
    BY <1>110 DEF DiscWriter, Discs, Runs, mem, InCall
  <2>4. CASE q # p
    BY <1>1, <2>1, <2>2, <2>3, <2>4, SelSame
  <2>5. CASE q = p
    <3>1. temp'[p] = Channel /\ pc'[p] = "altend"
      BY <1>110, <1>1, <1>2 DEF DiscWriter, Discs, Runs, mem, InCall, FunOK
    <3> QED BY <1>7, <2>5, <3>1 DEF SelAt, EndPC
  <2> QED BY <2>4, <2>5
<1>111. ASSUME NEW p \in Alts, EndsNow(p) PROVE (\A q \in Alts : SelAt(q))'
  <2> SUFFICES ASSUME NEW q \in Alts PROVE SelAt(q)'
    OBVIOUS
  <2>1. tlink[q] \in Nodes /\ q # p /\ node[tlink[q]].wptr = None => node'[tlink[q]].wptr = None
    BY <1>111, <1>1, <1>4, <1>9 DEF EndsNow, Ends, Runs, mem, InCall, FunOK
  <2>2. q # p => /\ pc'[q] = pc[q] /\ guards'[q] = guards[q] /\ field'[q] = field[q] /\ temp'[q] = temp[q]
                 /\ tlink'[q] = tlink[q] /\ k'[q] = k[q] /\ chan'[q] = chan[q]
    BY <1>111, <1>1, <1>2 DEF EndsNow, Ends, Runs, mem, InCall, FunOK
  <2>3. UNCHANGED now
    BY <1>111 DEF EndsNow, Ends, Runs, mem, InCall
  <2>4. CASE q # p
    BY <1>1, <2>1, <2>2, <2>3, <2>4, SelSame
  <2>5. CASE q = p
    <3>1. /\ guards'[p] = guards[p] /\ pc[p] # "idle" /\ temp'[p] = temp[p]
          /\ pc[p] = "altend" /\ pc'[p] = "select"
      BY <1>111, <1>1, <1>2 DEF EndsNow, Ends, Runs, mem, InCall, FunOK
    <3> QED BY <1>1, <2>3, <2>5, <3>1 DEF SelAt, EndPC, GuardRel
  <2> QED BY <2>4, <2>5
<1>112. ASSUME NEW p \in Alts, EndWaits(p) PROVE (\A q \in Alts : SelAt(q))'
  <2> SUFFICES ASSUME NEW q \in Alts PROVE SelAt(q)'
    OBVIOUS
  <2>1. tlink[q] \in Nodes /\ q # p /\ node[tlink[q]].wptr = None => node'[tlink[q]].wptr = None
    BY <1>112, <1>1, <1>4, <1>9 DEF EndWaits, Ends, Runs, mem, InCall, FunOK
  <2>2. q # p => /\ pc'[q] = pc[q] /\ guards'[q] = guards[q] /\ field'[q] = field[q] /\ temp'[q] = temp[q]
                 /\ tlink'[q] = tlink[q] /\ k'[q] = k[q] /\ chan'[q] = chan[q]
    BY <1>112, <1>1, <1>2 DEF EndWaits, Ends, Runs, mem, InCall, FunOK
  <2>3. UNCHANGED now
    BY <1>112 DEF EndWaits, Ends, Runs, mem, InCall
  <2>4. CASE q # p
    BY <1>1, <2>1, <2>2, <2>3, <2>4, SelSame
  <2>5. CASE q = p
    <3>1. /\ guards'[p] = guards[p] /\ pc[p] # "idle" /\ temp'[p] = temp[p]
          /\ pc[p] = "altend" /\ pc'[p] = "b_altend"
      BY <1>112, <1>1, <1>2 DEF EndWaits, Ends, Runs, mem, InCall, FunOK
    <3> QED BY <1>1, <2>3, <2>5, <3>1 DEF SelAt, EndPC, GuardRel
  <2> QED BY <2>4, <2>5
<1>113. ASSUME NEW p \in Alts, Select(p) PROVE (\A q \in Alts : SelAt(q))'
  <2> SUFFICES ASSUME NEW q \in Alts PROVE SelAt(q)'
    OBVIOUS
  <2>1. tlink[q] \in Nodes /\ q # p /\ node[tlink[q]].wptr = None => node'[tlink[q]].wptr = None
    BY <1>113, <1>1, <1>4, <1>9 DEF Select, Runs, Set, AltStep, mem, alt, InCall, FunOK
  <2>2. q # p => /\ pc'[q] = pc[q] /\ guards'[q] = guards[q] /\ field'[q] = field[q] /\ temp'[q] = temp[q]
                 /\ tlink'[q] = tlink[q] /\ k'[q] = k[q] /\ chan'[q] = chan[q]
    BY <1>113, <1>1, <1>2 DEF Select, Runs, Set, AltStep, mem, alt, InCall, FunOK
  <2>3. UNCHANGED now
    BY <1>113 DEF Select, Runs, Set, AltStep, mem, alt, InCall
  <2>4. CASE q # p
    BY <1>1, <2>1, <2>2, <2>3, <2>4, SelSame
  <2>5. CASE q = p
    <3>1. pc'[p] = "idle"
      BY <1>113, <1>1, <1>2 DEF Select, Runs, Set, AltStep, mem, alt, InCall, FunOK
    <3> QED BY <2>5, <3>1 DEF SelAt, EndPC
  <2> QED BY <2>4, <2>5
<1>114. ASSUME NEW p \in Alts, Write(p) PROVE (\A q \in Alts : SelAt(q))'
  <2> SUFFICES ASSUME NEW q \in Alts PROVE SelAt(q)'
    OBVIOUS
  <2>1. tlink[q] \in Nodes /\ q # p /\ node[tlink[q]].wptr = None => node'[tlink[q]].wptr = None
    BY <1>114, <1>1, <1>4, <1>9 DEF Write, Set, mem, where, alt, FunOK
  <2>2. q # p => /\ pc'[q] = pc[q] /\ guards'[q] = guards[q] /\ field'[q] = field[q] /\ temp'[q] = temp[q]
                 /\ tlink'[q] = tlink[q] /\ k'[q] = k[q] /\ chan'[q] = chan[q]
    BY <1>114, <1>1, <1>2 DEF Write, Set, mem, where, alt, FunOK
  <2>3. UNCHANGED now
    BY <1>114 DEF Write, Set, mem, where, alt
  <2>4. CASE q # p
    BY <1>1, <2>1, <2>2, <2>3, <2>4, SelSame
  <2>5. CASE q = p
    <3>1. /\ pc'[p] = pc[p] /\ guards'[p] = guards[p] /\ field'[p] = field[p] /\ temp'[p] = temp[p]
          /\ tlink'[p] = tlink[p] /\ k'[p] = k[p] /\ chan'[p] \in {chan[p], "writer"} /\ node' = node
      BY <1>114, <1>1, <1>2 DEF Write, Set, mem, where, alt, FunOK
    <3> QED BY <1>1, <2>3, <2>5, <3>1, SelSame
  <2> QED BY <2>4, <2>5
<1>115. ASSUME NEW p \in Alts, TaltwtGoes(p) PROVE (\A q \in Alts : SelAt(q))'
  <2> SUFFICES ASSUME NEW q \in Alts PROVE SelAt(q)'
    OBVIOUS
  <2>1. tlink[q] \in Nodes /\ q # p /\ node[tlink[q]].wptr = None => node'[tlink[q]].wptr = None
    BY <1>115, <1>1, <1>4, <1>9 DEF TaltwtGoes, Runs, GoesOn, mem, InCall, Set, FunOK
  <2>2. q # p => /\ pc'[q] = pc[q] /\ guards'[q] = guards[q] /\ field'[q] = field[q] /\ temp'[q] = temp[q]
                 /\ tlink'[q] = tlink[q] /\ k'[q] = k[q] /\ chan'[q] = chan[q]
    BY <1>115, <1>1, <1>2 DEF TaltwtGoes, Runs, GoesOn, mem, InCall, Set, FunOK
  <2>3. UNCHANGED now
    BY <1>115 DEF TaltwtGoes, Runs, GoesOn, mem, InCall, Set
  <2>4. CASE q # p
    BY <1>1, <2>1, <2>2, <2>3, <2>4, SelSame
  <2>5. CASE q = p
    <3>1. /\ guards'[p] = guards[p] /\ pc[p] # "idle" /\ temp'[p] = 0 /\ pc[p] = "taltwt" /\ pc'[p] = "dist" /\ chan'[p] = chan[p]
          /\ tlink'[p] = tlink[p] /\ field'[p] = now /\ k'[p] = k[p]
          /\ ~state[p].notReady \/ ~After(field[p], now)
      BY <1>115, <1>1, <1>2 DEF TaltwtGoes, Runs, GoesOn, mem, InCall, Set, FunOK
    <3>2. CASE ~state[p].notReady
      <4>1. chan[p] = "writer"
        BY <1>6, <3>1, <3>2 DEF AltAt
      <4> QED BY <2>5, <3>1, <4>1 DEF SelAt, EndPC
    <3>3. CASE ~After(field[p], now)
      <4>1. tlink[p] = "set" /\ k[p] = Guards
        BY <1>6, <3>1 DEF AltTime, EnableOK
      <4>2. PICK g \in 1..Guards : field[p] = guards[p][g]
        BY <1>6, <3>1, <4>1 DEF AltTime, EnableOK
      <4>3. Fired(p, now)
        BY <1>3, <1>7, <3>1 DEF Fired, Lags
      <4>4. GuardRel(p, g) <= 0
        BY <1>3, <1>7, <1>10, <3>1, <3>3, <4>2, <4>3
      <4>5. GuardRel(p, g)' <= FieldRel(p)' /\ g \in 1..k'[p]
        BY <1>7, <2>3, <3>1, <4>1, <4>4 DEF GuardRel, FieldRel
      <4>6. Due(p)'
        BY <3>1, <4>1, <4>5 DEF Due, DueBefore
      <4> QED BY <2>5, <3>1, <4>6 DEF SelAt, EndPC
    <3> QED BY <3>1, <3>2, <3>3
  <2> QED BY <2>4, <2>5
<1>116. ASSUME NEW p \in Alts, CasWaits(p) PROVE (\A q \in Alts : SelAt(q))'
  <2> SUFFICES ASSUME NEW q \in Alts PROVE SelAt(q)'
    OBVIOUS
  <2>1. tlink[q] \in Nodes /\ q # p /\ node[tlink[q]].wptr = None => node'[tlink[q]].wptr = None
    BY <1>116, <1>1, <1>4, <1>9 DEF CasWaits, Runs, mem, InCall, FunOK
  <2>2. q # p => /\ pc'[q] = pc[q] /\ guards'[q] = guards[q] /\ field'[q] = field[q] /\ temp'[q] = temp[q]
                 /\ tlink'[q] = tlink[q] /\ k'[q] = k[q] /\ chan'[q] = chan[q]
    BY <1>116, <1>1, <1>2 DEF CasWaits, Runs, mem, InCall, FunOK
  <2>3. UNCHANGED now
    BY <1>116 DEF CasWaits, Runs, mem, InCall
  <2>4. CASE q # p
    BY <1>1, <2>1, <2>2, <2>3, <2>4, SelSame
  <2>5. CASE q = p
    <3>1. /\ guards'[p] = guards[p] /\ pc[p] # "idle" /\ temp'[p] = temp[p]
          /\ pc[p] = "cas" /\ pc'[p] = "b_altwt"
      BY <1>116, <1>1, <1>2 DEF CasWaits, Runs, mem, InCall, FunOK
    <3> QED BY <1>1, <2>3, <2>5, <3>1 DEF SelAt, EndPC, GuardRel
  <2> QED BY <2>4, <2>5
<1>117. ASSUME NEW p \in Alts, CasGoes(p) PROVE (\A q \in Alts : SelAt(q))'
  <2> SUFFICES ASSUME NEW q \in Alts PROVE SelAt(q)'
    OBVIOUS
  <2>1. tlink[q] \in Nodes /\ q # p /\ node[tlink[q]].wptr = None => node'[tlink[q]].wptr = None
    BY <1>117, <1>1, <1>4, <1>9, NodeReads, TypesOfQueue DEF CasGoes, Runs, GoesOn, InCall, Set,
       FunOK
  <2>2. q # p => /\ pc'[q] = pc[q] /\ guards'[q] = guards[q] /\ field'[q] = field[q] /\ temp'[q] = temp[q]
                 /\ tlink'[q] = tlink[q] /\ k'[q] = k[q] /\ chan'[q] = chan[q]
    BY <1>117, <1>1, <1>2 DEF CasGoes, Runs, GoesOn, InCall, Set, FunOK
  <2>3. UNCHANGED now
    BY <1>117 DEF CasGoes, Runs, GoesOn, InCall, Set
  <2>4. CASE q # p
    BY <1>1, <2>1, <2>2, <2>3, <2>4, SelSame
  <2>5. CASE q = p
    <3>1. /\ guards'[p] = guards[p] /\ pc[p] # "idle" /\ temp'[p] = temp[p]
          /\ pc[p] = "cas" /\ pc'[p] = "dist" /\ chan'[p] = "writer"
      BY <1>117, <1>1, <1>2, <1>6 DEF CasGoes, Runs, GoesOn, InCall, Set, FunOK, AltAt
    <3> QED BY <1>1, <2>3, <2>5, <3>1 DEF SelAt, EndPC, GuardRel
  <2> QED BY <2>4, <2>5
<1>118. ASSUME NEW p \in Alts, DistHere(p) PROVE (\A q \in Alts : SelAt(q))'
  <2> SUFFICES ASSUME NEW q \in Alts PROVE SelAt(q)'
    OBVIOUS
  <2>1. tlink[q] \in Nodes /\ q # p /\ node[tlink[q]].wptr = None => node'[tlink[q]].wptr = None
    BY <1>118, <1>1, <1>4, <1>9, NodeReads, TypesOfQueue DEF DistHere, DistTakes, Runs, InCall,
       FunOK
  <2>2. q # p => /\ pc'[q] = pc[q] /\ guards'[q] = guards[q] /\ field'[q] = field[q] /\ temp'[q] = temp[q]
                 /\ tlink'[q] = tlink[q] /\ k'[q] = k[q] /\ chan'[q] = chan[q]
    BY <1>118, <1>1, <1>2 DEF DistHere, DistTakes, Runs, InCall, FunOK
  <2>3. UNCHANGED now
    BY <1>118 DEF DistHere, DistTakes, Runs, InCall
  <2>4. CASE q # p
    BY <1>1, <2>1, <2>2, <2>3, <2>4, SelSame
  <2>5. CASE q = p
    <3>1. /\ guards'[p] = guards[p] /\ pc[p] # "idle" /\ temp'[p] = temp[p] /\ chan'[p] = chan[p] /\ pc[p] = "dist" /\ pc'[p] = "release"
          /\ tlink[p] \in Nodes /\ node[tlink[p]].wptr # None
      BY <1>118, <1>1, <1>2 DEF DistHere, DistTakes, Runs, InCall, FunOK
    <3>2. ~Due(p)
      BY <1>2, <3>1 DEF Due, DueBefore
    <3> QED BY <1>1, <2>3, <2>5, <3>1, <3>2 DEF SelAt, EndPC, GuardRel
  <2> QED BY <2>4, <2>5
<1>119. ASSUME NEW p \in Alts, DistThere(p) PROVE (\A q \in Alts : SelAt(q))'
  <2> SUFFICES ASSUME NEW q \in Alts PROVE SelAt(q)'
    OBVIOUS
  <2>1. tlink[q] \in Nodes /\ q # p /\ node[tlink[q]].wptr = None => node'[tlink[q]].wptr = None
    BY <1>119, <1>1, <1>4, <1>9, NodeReads, TypesOfQueue DEF DistThere, DistTakes, Runs, InCall,
       FunOK
  <2>2. q # p => /\ pc'[q] = pc[q] /\ guards'[q] = guards[q] /\ field'[q] = field[q] /\ temp'[q] = temp[q]
                 /\ tlink'[q] = tlink[q] /\ k'[q] = k[q] /\ chan'[q] = chan[q]
    BY <1>119, <1>1, <1>2 DEF DistThere, DistTakes, Runs, InCall, FunOK
  <2>3. UNCHANGED now
    BY <1>119 DEF DistThere, DistTakes, Runs, InCall
  <2>4. CASE q # p
    BY <1>1, <2>1, <2>2, <2>3, <2>4, SelSame
  <2>5. CASE q = p
    <3>1. /\ guards'[p] = guards[p] /\ pc[p] # "idle" /\ temp'[p] = temp[p] /\ chan'[p] = chan[p] /\ pc[p] = "dist" /\ pc'[p] = "release"
          /\ tlink[p] \in Nodes /\ node[tlink[p]].wptr # None
      BY <1>119, <1>1, <1>2 DEF DistThere, DistTakes, Runs, InCall, FunOK
    <3>2. ~Due(p)
      BY <1>2, <3>1 DEF Due, DueBefore
    <3> QED BY <1>1, <2>3, <2>5, <3>1, <3>2 DEF SelAt, EndPC, GuardRel
  <2> QED BY <2>4, <2>5
<1>120. ASSUME NEW p \in Alts, DistSets(p), NextGuard(p) PROVE (\A q \in Alts : SelAt(q))'
  <2> SUFFICES ASSUME NEW q \in Alts PROVE SelAt(q)'
    OBVIOUS
  <2>1. tlink[q] \in Nodes /\ q # p /\ node[tlink[q]].wptr = None => node'[tlink[q]].wptr = None
    BY <1>120, <1>1, <1>4, <1>9 DEF DistSets, NextGuard, Runs, mem, Reached, InCall, FunOK
  <2>2. q # p => /\ pc'[q] = pc[q] /\ guards'[q] = guards[q] /\ field'[q] = field[q] /\ temp'[q] = temp[q]
                 /\ tlink'[q] = tlink[q] /\ k'[q] = k[q] /\ chan'[q] = chan[q]
    BY <1>120, <1>1, <1>2 DEF DistSets, NextGuard, Runs, mem, Reached, InCall, FunOK
  <2>3. UNCHANGED now
    BY <1>120 DEF DistSets, NextGuard, Runs, mem, Reached, InCall
  <2>4. CASE q # p
    BY <1>1, <2>1, <2>2, <2>3, <2>4, SelSame
  <2>5. CASE q = p
    <3>1. /\ guards'[p] = guards[p] /\ pc[p] # "idle" /\ pc[p] = "dist" /\ chan'[p] = chan[p] /\ field'[p] = field[p] /\ tlink'[p] = tlink[p]
          /\ tlink[p] \notin Nodes /\ temp'[p] = (IF Reached(p) THEN k[p] ELSE temp[p])
          /\ pc'[p] = "dist" /\ k'[p] = k[p] - 1
      BY <1>120, <1>1, <1>2 DEF DistSets, NextGuard, Runs, mem, InCall, FunOK
    <3>2. tlink[p] = "set" => Fired(p, field[p]) /\ FieldRel(p) <= 0
      BY <1>6, <3>1 DEF AltTime, Fired, FieldRel
    <3>3. tlink[p] = "set" => (Reached(p) <=> GuardRel(p, k[p]) <= FieldRel(p))
      BY <1>3, <1>5, <1>10, <3>1, <3>2 DEF Reached, FieldRel
    <3>4. temp'[p] \in 1..Guards => GuardRel(p, temp'[p]) <= 0
      BY <1>1, <1>3, <1>5, <3>1, <3>2, <3>3 DEF SelAt, Reached
    <3>5. temp'[p] # 0 \/ chan'[p] = "writer" \/ (tlink[p] = "set" /\ \E g \in 1..(k[p]-1) : GuardRel(p, g) <= FieldRel(p))
      <4>1. CASE Reached(p)
        BY <1>5, <3>1, <4>1
      <4>2. CASE ~Reached(p) /\ Due(p)
        <5>1. tlink[p] = "set" /\ \E g \in 1..k[p] : GuardRel(p, g) <= FieldRel(p)
          BY <3>1, <4>2 DEF Due, DueBefore
        <5>2. PICK g \in 1..k[p] : GuardRel(p, g) <= FieldRel(p)
          BY <5>1
        <5>3. g # k[p]
          BY <3>3, <4>2, <5>1, <5>2
        <5>4. g \in 1..(k[p] - 1) /\ k[p] \in 1..Guards
          BY <1>5, <5>2, <5>3
        <5> QED BY <5>1, <5>2, <5>4
      <4>3. CASE ~Reached(p) /\ ~Due(p)
        BY <1>1, <3>1, <4>3 DEF SelAt
      <4> QED BY <4>1, <4>2, <4>3
    <3>6. pc'[p] # "idle" /\ temp'[p] \in 1..Guards => GuardRel(p, temp[p])' <= 0
      BY <2>3, <3>1, <3>4 DEF GuardRel
    <3>7. temp'[p] # 0 \/ chan'[p] = "writer" \/ Due(p)'
      BY <2>3, <3>1, <3>5 DEF Due, DueBefore, GuardRel, FieldRel
    <3> QED BY <2>5, <3>1, <3>6, <3>7 DEF SelAt, EndPC
  <2> QED BY <2>4, <2>5
<1>121. ASSUME NEW p \in Alts, DistSets(p), LastGuard(p) PROVE (\A q \in Alts : SelAt(q))'
  <2> SUFFICES ASSUME NEW q \in Alts PROVE SelAt(q)'
    OBVIOUS
  <2>1. tlink[q] \in Nodes /\ q # p /\ node[tlink[q]].wptr = None => node'[tlink[q]].wptr = None
    BY <1>121, <1>1, <1>4, <1>9 DEF DistSets, LastGuard, Runs, mem, Reached, InCall, FunOK
  <2>2. q # p => /\ pc'[q] = pc[q] /\ guards'[q] = guards[q] /\ field'[q] = field[q] /\ temp'[q] = temp[q]
                 /\ tlink'[q] = tlink[q] /\ k'[q] = k[q] /\ chan'[q] = chan[q]
    BY <1>121, <1>1, <1>2 DEF DistSets, LastGuard, Runs, mem, Reached, InCall, FunOK
  <2>3. UNCHANGED now
    BY <1>121 DEF DistSets, LastGuard, Runs, mem, Reached, InCall
  <2>4. CASE q # p
    BY <1>1, <2>1, <2>2, <2>3, <2>4, SelSame
  <2>5. CASE q = p
    <3>1. /\ guards'[p] = guards[p] /\ pc[p] # "idle" /\ pc[p] = "dist" /\ chan'[p] = chan[p] /\ field'[p] = field[p] /\ tlink'[p] = tlink[p]
          /\ tlink[p] \notin Nodes /\ temp'[p] = (IF Reached(p) THEN k[p] ELSE temp[p])
          /\ pc'[p] = "disc" /\ ~(k[p] > 1)
      BY <1>121, <1>1, <1>2 DEF DistSets, LastGuard, Runs, mem, InCall, FunOK
    <3>2. tlink[p] = "set" => Fired(p, field[p]) /\ FieldRel(p) <= 0
      BY <1>6, <3>1 DEF AltTime, Fired, FieldRel
    <3>3. tlink[p] = "set" => (Reached(p) <=> GuardRel(p, k[p]) <= FieldRel(p))
      BY <1>3, <1>5, <1>10, <3>1, <3>2 DEF Reached, FieldRel
    <3>4. temp'[p] \in 1..Guards => GuardRel(p, temp'[p]) <= 0
      BY <1>1, <1>3, <1>5, <3>1, <3>2, <3>3 DEF SelAt, Reached
    <3>5. temp'[p] # 0 \/ chan'[p] = "writer" \/ FALSE
      <4>1. CASE Reached(p)
        BY <1>5, <3>1, <4>1
      <4>2. CASE ~Reached(p) /\ Due(p)
        <5>1. tlink[p] = "set" /\ \E g \in 1..k[p] : GuardRel(p, g) <= FieldRel(p)
          BY <3>1, <4>2 DEF Due, DueBefore
        <5>2. PICK g \in 1..k[p] : GuardRel(p, g) <= FieldRel(p)
          BY <5>1
        <5>3. g # k[p]
          BY <3>3, <4>2, <5>1, <5>2
        <5>4. g \in 1..(k[p] - 1) /\ k[p] \in 1..Guards
          BY <1>5, <5>2, <5>3
        <5> QED BY <1>5, <3>1, <5>4
      <4>3. CASE ~Reached(p) /\ ~Due(p)
        BY <1>1, <3>1, <4>3 DEF SelAt
      <4> QED BY <4>1, <4>2, <4>3
    <3>6. pc'[p] # "idle" /\ temp'[p] \in 1..Guards => GuardRel(p, temp[p])' <= 0
      BY <2>3, <3>1, <3>4 DEF GuardRel
    <3>7. temp'[p] # 0 \/ chan'[p] = "writer" \/ Due(p)'
      BY <2>3, <3>1, <3>5 DEF Due, DueBefore, GuardRel, FieldRel
    <3> QED BY <2>5, <3>1, <3>6, <3>7 DEF SelAt, EndPC
  <2> QED BY <2>4, <2>5
<1>122. ASSUME NEW p \in Alts, Releases(p), NextGuard(p) PROVE (\A q \in Alts : SelAt(q))'
  <2> SUFFICES ASSUME NEW q \in Alts PROVE SelAt(q)'
    OBVIOUS
  <2>1. tlink[q] \in Nodes /\ q # p /\ node[tlink[q]].wptr = None => node'[tlink[q]].wptr = None
    BY <1>122, <1>1, <1>4, <1>9 DEF Releases, NextGuard, Runs, Release, InCall, FunOK
  <2>2. q # p => /\ pc'[q] = pc[q] /\ guards'[q] = guards[q] /\ field'[q] = field[q] /\ temp'[q] = temp[q]
                 /\ tlink'[q] = tlink[q] /\ k'[q] = k[q] /\ chan'[q] = chan[q]
    BY <1>122, <1>1, <1>2 DEF Releases, NextGuard, Runs, Release, InCall, FunOK
  <2>3. UNCHANGED now
    BY <1>122 DEF Releases, NextGuard, Runs, Release, InCall
  <2>4. CASE q # p
    BY <1>1, <2>1, <2>2, <2>3, <2>4, SelSame
  <2>5. CASE q = p
    <3>1. /\ guards'[p] = guards[p] /\ pc[p] # "idle" /\ temp'[p] = temp[p] /\ pc[p] = "release" /\ chan'[p] = chan[p]
          /\ field'[p] = field[p] /\ tlink'[p] = tlink[p] /\ pc'[p] = "dist" /\ k'[p] = k[p] - 1
      BY <1>122, <1>1, <1>2 DEF Releases, NextGuard, Runs, Release, InCall, FunOK
    <3>2. Due(p) => Due(p)'
      <4>1. Due(p) => tlink[p] = "set" /\ \E g \in 1..(k[p] - 1) : GuardRel(p, g) <= FieldRel(p)
        BY <3>1 DEF Due, DueBefore
      <4> QED BY <1>5, <2>3, <3>1, <4>1 DEF Due, DueBefore, GuardRel, FieldRel
    <3> QED BY <1>1, <2>3, <2>5, <3>1, <3>2 DEF SelAt, EndPC, GuardRel
  <2> QED BY <2>4, <2>5
<1>123. ASSUME NEW p \in Alts, Releases(p), LastGuard(p) PROVE (\A q \in Alts : SelAt(q))'
  <2> SUFFICES ASSUME NEW q \in Alts PROVE SelAt(q)'
    OBVIOUS
  <2>1. tlink[q] \in Nodes /\ q # p /\ node[tlink[q]].wptr = None => node'[tlink[q]].wptr = None
    BY <1>123, <1>1, <1>4, <1>9 DEF Releases, LastGuard, Runs, Release, InCall, FunOK
  <2>2. q # p => /\ pc'[q] = pc[q] /\ guards'[q] = guards[q] /\ field'[q] = field[q] /\ temp'[q] = temp[q]
                 /\ tlink'[q] = tlink[q] /\ k'[q] = k[q] /\ chan'[q] = chan[q]
    BY <1>123, <1>1, <1>2 DEF Releases, LastGuard, Runs, Release, InCall, FunOK
  <2>3. UNCHANGED now
    BY <1>123 DEF Releases, LastGuard, Runs, Release, InCall
  <2>4. CASE q # p
    BY <1>1, <2>1, <2>2, <2>3, <2>4, SelSame
  <2>5. CASE q = p
    <3>1. /\ guards'[p] = guards[p] /\ pc[p] # "idle" /\ temp'[p] = temp[p] /\ pc[p] = "release" /\ chan'[p] = chan[p]
          /\ field'[p] = field[p] /\ tlink'[p] = tlink[p] /\ pc'[p] = "disc" /\ ~(k[p] > 1)
      BY <1>123, <1>1, <1>2 DEF Releases, LastGuard, Runs, Release, InCall, FunOK
    <3>2. Due(p) => Due(p)'
      <4>1. Due(p) => tlink[p] = "set" /\ \E g \in 1..(k[p] - 1) : GuardRel(p, g) <= FieldRel(p)
        BY <3>1 DEF Due, DueBefore
      <4> QED BY <1>5, <2>3, <3>1, <4>1 DEF Due, DueBefore, GuardRel, FieldRel
    <3> QED BY <1>1, <2>3, <2>5, <3>1, <3>2 DEF SelAt, EndPC, GuardRel
  <2> QED BY <2>4, <2>5
<1>124. ASSUME NEW p \in Alts, NEW n \in Nodes, TaltwtWaits(p, n)
       PROVE  (\A q \in Alts : SelAt(q))'
  <2> SUFFICES ASSUME NEW q \in Alts PROVE SelAt(q)'
    OBVIOUS
  <2>1. tlink[q] \in Nodes /\ q # p /\ node[tlink[q]].wptr = None => node'[tlink[q]].wptr = None
    <3>1. tlink[q] \in Nodes => tlink[q] # n
      BY <1>124, <1>6 DEF TaltwtWaits, Grown, Washed, RefAt
    <3> QED BY <1>124, <1>1, <3>1 DEF TaltwtWaits, Grown, FunOK
  <2>2. q # p => /\ pc'[q] = pc[q] /\ guards'[q] = guards[q] /\ field'[q] = field[q] /\ temp'[q] = temp[q]
                 /\ tlink'[q] = tlink[q] /\ k'[q] = k[q] /\ chan'[q] = chan[q]
    BY <1>124, <1>1, <1>2 DEF TaltwtWaits, Runs, InCall, FunOK
  <2>3. UNCHANGED now
    BY <1>124 DEF TaltwtWaits, Runs, InCall
  <2>4. CASE q # p
    BY <1>1, <2>1, <2>2, <2>3, <2>4, SelSame
  <2>5. CASE q = p
    <3>1. temp'[p] = 0 /\ pc'[p] = "cas"
      BY <1>124, <1>1, <1>2 DEF TaltwtWaits, Runs, InCall, FunOK
    <3> QED BY <2>5, <3>1 DEF SelAt, EndPC
  <2> QED BY <2>4, <2>5
<1>125. ASSUME NEW p \in Alts, Written(p), NoneComes(p) PROVE (\A q \in Alts : SelAt(q))'
  <2> SUFFICES ASSUME NEW q \in Alts PROVE SelAt(q)'
    OBVIOUS
  <2>1. tlink[q] \in Nodes /\ q # p /\ node[tlink[q]].wptr = None => node'[tlink[q]].wptr = None
    BY <1>125, <1>1, <1>4, <1>9 DEF Written, NoneComes, mem, where, Counted, FunOK
  <2>2. q # p => /\ pc'[q] = pc[q] /\ guards'[q] = guards[q] /\ field'[q] = field[q] /\ temp'[q] = temp[q]
                 /\ tlink'[q] = tlink[q] /\ k'[q] = k[q] /\ chan'[q] = chan[q]
    BY <1>125, <1>1, <1>2 DEF Written, NoneComes, mem, where, Counted, FunOK
  <2>3. UNCHANGED now
    BY <1>125 DEF Written, NoneComes, mem, where, Counted
  <2>4. CASE q # p
    BY <1>1, <2>1, <2>2, <2>3, <2>4, SelSame
  <2>5. CASE q = p
    <3>1. /\ pc'[p] = pc[p] /\ guards'[p] = guards[p] /\ field'[p] = field[p] /\ temp'[p] = temp[p]
          /\ tlink'[p] = tlink[p] /\ k'[p] = k[p] /\ chan'[p] \in {chan[p], "writer"} /\ node' = node
      BY <1>125, <1>1, <1>2 DEF Written, NoneComes, mem, where, Counted, FunOK
    <3> QED BY <1>1, <2>3, <2>5, <3>1, SelSame
  <2> QED BY <2>4, <2>5
<1>126. ASSUME NEW p \in Alts, NEW u \in Threads, Written(p), GuardComes(p, u)
       PROVE  (\A q \in Alts : SelAt(q))'
  <2> SUFFICES ASSUME NEW q \in Alts PROVE SelAt(q)'
    OBVIOUS
  <2>1. tlink[q] \in Nodes /\ q # p /\ node[tlink[q]].wptr = None => node'[tlink[q]].wptr = None
    BY <1>126, <1>1, <1>4, <1>9 DEF Written, GuardComes, mem, Counted, FunOK
  <2>2. q # p => /\ pc'[q] = pc[q] /\ guards'[q] = guards[q] /\ field'[q] = field[q] /\ temp'[q] = temp[q]
                 /\ tlink'[q] = tlink[q] /\ k'[q] = k[q] /\ chan'[q] = chan[q]
    BY <1>126, <1>1, <1>2 DEF Written, GuardComes, mem, Counted, FunOK
  <2>3. UNCHANGED now
    BY <1>126 DEF Written, GuardComes, mem, Counted
  <2>4. CASE q # p
    BY <1>1, <2>1, <2>2, <2>3, <2>4, SelSame
  <2>5. CASE q = p
    <3>1. /\ guards'[p] = guards[p] /\ pc[p] # "idle" /\ temp'[p] = temp[p]
          /\ pc[p] = "b_altwt" /\ pc'[p] = "dist" /\ chan'[p] = "writer"
      BY <1>126, <1>1, <1>2, <1>6 DEF Written, GuardComes, mem, Counted, FunOK, AltAt
    <3> QED BY <1>1, <2>3, <2>5, <3>1 DEF SelAt, EndPC, GuardRel
  <2> QED BY <2>4, <2>5
<1>127. ASSUME NEW p \in Alts, NEW u \in Threads, Written(p), EndComes(p, u)
       PROVE  (\A q \in Alts : SelAt(q))'
  <2> SUFFICES ASSUME NEW q \in Alts PROVE SelAt(q)'
    OBVIOUS
  <2>1. tlink[q] \in Nodes /\ q # p /\ node[tlink[q]].wptr = None => node'[tlink[q]].wptr = None
    BY <1>127, <1>1, <1>4, <1>9 DEF Written, EndComes, mem, Counted, FunOK
  <2>2. q # p => /\ pc'[q] = pc[q] /\ guards'[q] = guards[q] /\ field'[q] = field[q] /\ temp'[q] = temp[q]
                 /\ tlink'[q] = tlink[q] /\ k'[q] = k[q] /\ chan'[q] = chan[q]
    BY <1>127, <1>1, <1>2 DEF Written, EndComes, mem, Counted, FunOK
  <2>3. UNCHANGED now
    BY <1>127 DEF Written, EndComes, mem, Counted
  <2>4. CASE q # p
    BY <1>1, <2>1, <2>2, <2>3, <2>4, SelSame
  <2>5. CASE q = p
    <3>1. /\ guards'[p] = guards[p] /\ pc[p] # "idle" /\ temp'[p] = temp[p]
          /\ pc[p] = "b_altend" /\ pc'[p] = "select"
      BY <1>127, <1>1, <1>2 DEF Written, EndComes, mem, Counted, FunOK
    <3> QED BY <1>1, <2>3, <2>5, <3>1 DEF SelAt, EndPC, GuardRel
  <2> QED BY <2>4, <2>5
<1>128. ASSUME NEW t \in Threads, Check(t) PROVE (\A q \in Alts : SelAt(q))'
  <2> SUFFICES ASSUME NEW q \in Alts PROVE SelAt(q)'
    OBVIOUS
  <2>1. tlink[q] \in Nodes /\ node[tlink[q]].wptr = None => node'[tlink[q]].wptr = None
    BY <1>128, <1>1, <1>4, <1>9 DEF Check, mem, where, alt, Started, InCall, Set, FunOK
  <2>2. /\ pc'[q] = pc[q] /\ guards'[q] = guards[q] /\ field'[q] = field[q] /\ temp'[q] = temp[q]
        /\ tlink'[q] = tlink[q] /\ k'[q] = k[q] /\ chan'[q] = chan[q]
    BY <1>128, <1>1, <1>2 DEF Check, mem, where, alt, Started, InCall, Set, FunOK
  <2>3. UNCHANGED now
    BY <1>128 DEF Check, mem, where, alt, Started, InCall, Set
  <2> QED BY <1>1, <2>1, <2>2, <2>3, SelSame
<1>129. ASSUME NEW t \in Threads, EndWalk(t) PROVE (\A q \in Alts : SelAt(q))'
  <2> SUFFICES ASSUME NEW q \in Alts PROVE SelAt(q)'
    OBVIOUS
  <2>1. tlink[q] \in Nodes /\ node[tlink[q]].wptr = None => node'[tlink[q]].wptr = None
    BY <1>129, <1>1, <1>4, <1>9 DEF EndWalk, mem, where, alt, Walk, Set, FunOK
  <2>2. /\ pc'[q] = pc[q] /\ guards'[q] = guards[q] /\ field'[q] = field[q] /\ temp'[q] = temp[q]
        /\ tlink'[q] = tlink[q] /\ k'[q] = k[q] /\ chan'[q] = chan[q]
    BY <1>129, <1>1, <1>2 DEF EndWalk, mem, where, alt, Walk, Set, FunOK
  <2>3. UNCHANGED now
    BY <1>129 DEF EndWalk, mem, where, alt, Walk, Set
  <2> QED BY <1>1, <2>1, <2>2, <2>3, SelSame
<1>130. ASSUME NEW t \in Threads, WalkAlt(t) PROVE (\A q \in Alts : SelAt(q))'
  <2> SUFFICES ASSUME NEW q \in Alts PROVE SelAt(q)'
    OBVIOUS
  <2>1. tlink[q] \in Nodes /\ node[tlink[q]].wptr = None => node'[tlink[q]].wptr = None
    BY <1>130, <1>1, <1>4, <1>9, NodeReads, TypesOfQueue DEF WalkAlt, Set, where, alt, Walk, FunOK
  <2>2. /\ pc'[q] = pc[q] /\ guards'[q] = guards[q] /\ field'[q] = field[q] /\ temp'[q] = temp[q]
        /\ tlink'[q] = tlink[q] /\ k'[q] = k[q] /\ chan'[q] = chan[q]
    BY <1>130, <1>1, <1>2 DEF WalkAlt, Set, where, alt, Walk, FunOK
  <2>3. UNCHANGED now
    BY <1>130 DEF WalkAlt, Set, where, alt, Walk
  <2> QED BY <1>1, <2>1, <2>2, <2>3, SelSame
<1>131. ASSUME NEW t \in Threads, WalkSwap(t) PROVE (\A q \in Alts : SelAt(q))'
  <2> SUFFICES ASSUME NEW q \in Alts PROVE SelAt(q)'
    OBVIOUS
  <2>1. tlink[q] \in Nodes /\ node[tlink[q]].wptr = None => node'[tlink[q]].wptr = None
    BY <1>131, <1>1, <1>4, <1>9, NodeReads, TypesOfQueue DEF WalkSwap, Set, where, alt, FunOK
  <2>2. /\ pc'[q] = pc[q] /\ guards'[q] = guards[q] /\ field'[q] = field[q] /\ temp'[q] = temp[q]
        /\ tlink'[q] = tlink[q] /\ k'[q] = k[q] /\ chan'[q] = chan[q]
    BY <1>131, <1>1, <1>2 DEF WalkSwap, Set, where, alt, FunOK
  <2>3. UNCHANGED now
    BY <1>131 DEF WalkSwap, Set, where, alt
  <2> QED BY <1>1, <2>1, <2>2, <2>3, SelSame
<1>132. ASSUME NEW t \in Threads, Sweeps(t) PROVE (\A q \in Alts : SelAt(q))'
  <2> SUFFICES ASSUME NEW q \in Alts PROVE SelAt(q)'
    OBVIOUS
  <2>1. tlink[q] \in Nodes /\ node[tlink[q]].wptr = None => node'[tlink[q]].wptr = None
    BY <1>132, <1>1, <1>4, <1>9, NodeReads, TypesOfQueue DEF Sweeps, where, alt, Started, InCall,
       Set, FunOK
  <2>2. /\ pc'[q] = pc[q] /\ guards'[q] = guards[q] /\ field'[q] = field[q] /\ temp'[q] = temp[q]
        /\ tlink'[q] = tlink[q] /\ k'[q] = k[q] /\ chan'[q] = chan[q]
    BY <1>132, <1>1, <1>2 DEF Sweeps, where, alt, Started, InCall, Set, FunOK
  <2>3. UNCHANGED now
    BY <1>132 DEF Sweeps, where, alt, Started, InCall, Set
  <2> QED BY <1>1, <2>1, <2>2, <2>3, SelSame
<1>133. ASSUME NEW t \in Threads, WalkDead(t), Shrunk(t, {Head(queue[t])})
       PROVE  (\A q \in Alts : SelAt(q))'
  <2> SUFFICES ASSUME NEW q \in Alts PROVE SelAt(q)'
    OBVIOUS
  <2>1. tlink[q] \in Nodes /\ node[tlink[q]].wptr = None => node'[tlink[q]].wptr = None
    BY <1>133, <1>1, <1>4, <1>9, NodeReads, TypesOfQueue DEF WalkDead, Set, where, alt, FunOK
  <2>2. /\ pc'[q] = pc[q] /\ guards'[q] = guards[q] /\ field'[q] = field[q] /\ temp'[q] = temp[q]
        /\ tlink'[q] = tlink[q] /\ k'[q] = k[q] /\ chan'[q] = chan[q]
    BY <1>133, <1>1, <1>2 DEF WalkDead, Set, where, alt, FunOK
  <2>3. UNCHANGED now
    BY <1>133 DEF WalkDead, Set, where, alt
  <2> QED BY <1>1, <2>1, <2>2, <2>3, SelSame
<1>134. ASSUME NEW t \in Threads, WalkClean(t), Shrunk(t, {Head(queue[t])})
       PROVE  (\A q \in Alts : SelAt(q))'
  <2> SUFFICES ASSUME NEW q \in Alts PROVE SelAt(q)'
    OBVIOUS
  <2>1. tlink[q] \in Nodes /\ node[tlink[q]].wptr = None => node'[tlink[q]].wptr = None
    BY <1>134, <1>1, <1>4, <1>9, NodeReads, TypesOfQueue DEF WalkClean, Set, where, alt, Walk,
       FunOK
  <2>2. /\ pc'[q] = pc[q] /\ guards'[q] = guards[q] /\ field'[q] = field[q] /\ temp'[q] = temp[q]
        /\ tlink'[q] = tlink[q] /\ k'[q] = k[q] /\ chan'[q] = chan[q]
    BY <1>134, <1>1, <1>2 DEF WalkClean, Set, where, alt, Walk, FunOK
  <2>3. UNCHANGED now
    BY <1>134 DEF WalkClean, Set, where, alt, Walk
  <2> QED BY <1>1, <2>1, <2>2, <2>3, SelSame
<1>135. ASSUME NEW t \in Threads, NEW n \in Nodes, NEW p \in Sleepers, NEW u \in Threads, SleeperWakes(t, n, p, u)
       PROVE  (\A q \in Alts : SelAt(q))'
  <2> SUFFICES ASSUME NEW q \in Alts PROVE SelAt(q)'
    OBVIOUS
  <2>1. tlink[q] \in Nodes /\ node[tlink[q]].wptr = None => node'[tlink[q]].wptr = None
    BY <1>135, <1>1, <1>4, <1>9 DEF SleeperWakes, alt, FunOK
  <2>2. /\ pc'[q] = pc[q] /\ guards'[q] = guards[q] /\ field'[q] = field[q] /\ temp'[q] = temp[q]
        /\ tlink'[q] = tlink[q] /\ k'[q] = k[q] /\ chan'[q] = chan[q]
    BY <1>135, <1>1, <1>2 DEF SleeperWakes, alt, FunOK
  <2>3. UNCHANGED now
    BY <1>135 DEF SleeperWakes, alt
  <2> QED BY <1>1, <2>1, <2>2, <2>3, SelSame
<1>136. ASSUME NEW t \in Threads, NEW p \in Alts, Timed(t, p), NoneComes(p)
       PROVE  (\A q \in Alts : SelAt(q))'
  <2> SUFFICES ASSUME NEW q \in Alts PROVE SelAt(q)'
    OBVIOUS
  <2>1. tlink[q] \in Nodes /\ q # p /\ node[tlink[q]].wptr = None => node'[tlink[q]].wptr = None
    BY <1>136, <1>1, <1>4, <1>9 DEF Timed, NoneComes, mem, Triggers, where, Counted, FunOK
  <2>2. q # p => /\ pc'[q] = pc[q] /\ guards'[q] = guards[q] /\ field'[q] = field[q] /\ temp'[q] = temp[q]
                 /\ tlink'[q] = tlink[q] /\ k'[q] = k[q] /\ chan'[q] = chan[q]
    BY <1>136, <1>1, <1>2 DEF Timed, NoneComes, mem, Triggers, where, Counted, FunOK
  <2>3. UNCHANGED now
    BY <1>136 DEF Timed, NoneComes, mem, Triggers, where, Counted
  <2>4. CASE q # p
    BY <1>1, <2>1, <2>2, <2>3, <2>4, SelSame
  <2>5. CASE q = p
    <3>1. /\ pc'[p] = pc[p] /\ guards'[p] = guards[p] /\ field'[p] = field[p] /\ temp'[p] = temp[p]
          /\ tlink'[p] = tlink[p] /\ k'[p] = k[p] /\ chan'[p] \in {chan[p], "writer"} /\ node' = node
      BY <1>136, <1>1, <1>2 DEF Timed, NoneComes, mem, Triggers, where, Counted, FunOK
    <3> QED BY <1>1, <2>3, <2>5, <3>1, SelSame
  <2> QED BY <2>4, <2>5
<1>137. ASSUME NEW t \in Threads, NEW p \in Alts, NEW u \in Threads, Timed(t, p), GuardComes(p, u)
       PROVE  (\A q \in Alts : SelAt(q))'
  <2> SUFFICES ASSUME NEW q \in Alts PROVE SelAt(q)'
    OBVIOUS
  <2>1. tlink[q] \in Nodes /\ q # p /\ node[tlink[q]].wptr = None => node'[tlink[q]].wptr = None
    BY <1>137, <1>1, <1>4, <1>9 DEF Timed, GuardComes, mem, Triggers, Counted, FunOK
  <2>2. q # p => /\ pc'[q] = pc[q] /\ guards'[q] = guards[q] /\ field'[q] = field[q] /\ temp'[q] = temp[q]
                 /\ tlink'[q] = tlink[q] /\ k'[q] = k[q] /\ chan'[q] = chan[q]
    BY <1>137, <1>1, <1>2 DEF Timed, GuardComes, mem, Triggers, Counted, FunOK
  <2>3. UNCHANGED now
    BY <1>137 DEF Timed, GuardComes, mem, Triggers, Counted
  <2>4. CASE q # p
    BY <1>1, <2>1, <2>2, <2>3, <2>4, SelSame
  <2>5. CASE q = p
    <3>6. tlink[p] \in Nodes /\ node[tlink[p]].wptr = None
      BY <1>137, <1>6, <1>12 DEF Timed, GuardComes, RefAt
    <3>1. /\ guards'[p] = guards[p] /\ pc[p] # "idle" /\ temp'[p] = temp[p]
          /\ pc[p] = "b_altwt" /\ pc'[p] = "dist" /\ Due(p)'
      BY <1>137, <1>1, <1>2, <3>6 DEF Timed, GuardComes, mem, Triggers, Counted, FunOK, Due
    <3> QED BY <1>1, <2>3, <2>5, <3>1 DEF SelAt, EndPC, GuardRel
  <2> QED BY <2>4, <2>5
<1>138. ASSUME NEW t \in Threads, NEW p \in Alts, NEW u \in Threads, Timed(t, p), EndComes(p, u)
       PROVE  (\A q \in Alts : SelAt(q))'
  <2> SUFFICES ASSUME NEW q \in Alts PROVE SelAt(q)'
    OBVIOUS
  <2>1. tlink[q] \in Nodes /\ q # p /\ node[tlink[q]].wptr = None => node'[tlink[q]].wptr = None
    BY <1>138, <1>1, <1>4, <1>9 DEF Timed, EndComes, mem, Triggers, Counted, FunOK
  <2>2. q # p => /\ pc'[q] = pc[q] /\ guards'[q] = guards[q] /\ field'[q] = field[q] /\ temp'[q] = temp[q]
                 /\ tlink'[q] = tlink[q] /\ k'[q] = k[q] /\ chan'[q] = chan[q]
    BY <1>138, <1>1, <1>2 DEF Timed, EndComes, mem, Triggers, Counted, FunOK
  <2>3. UNCHANGED now
    BY <1>138 DEF Timed, EndComes, mem, Triggers, Counted
  <2>4. CASE q # p
    BY <1>1, <2>1, <2>2, <2>3, <2>4, SelSame
  <2>5. CASE q = p
    <3>1. /\ guards'[p] = guards[p] /\ pc[p] # "idle" /\ temp'[p] = temp[p]
          /\ pc[p] = "b_altend" /\ pc'[p] = "select"
      BY <1>138, <1>1, <1>2 DEF Timed, EndComes, mem, Triggers, Counted, FunOK
    <3> QED BY <1>1, <2>3, <2>5, <3>1 DEF SelAt, EndPC, GuardRel
  <2> QED BY <2>4, <2>5
<1>139. ASSUME UNCHANGED vars PROVE (\A q \in Alts : SelAt(q))'
  BY <1>139, <1>1 DEF vars, mem, where, alt, SelAt, EndPC, Due, DueBefore, GuardRel, FieldRel
<1> QED BY <1>101, <1>102, <1>103, <1>104, <1>105, <1>106, <1>107, <1>108, <1>109, <1>110,
   <1>111, <1>112, <1>113, <1>114, <1>115, <1>116, <1>117, <1>118, <1>119, <1>120, <1>121,
   <1>122, <1>123, <1>124, <1>125, <1>126, <1>127, <1>128, <1>129, <1>130, <1>131, <1>132,
   <1>133, <1>134, <1>135, <1>136, <1>137, <1>138, <1>139 DEF Form, AltForm, WalkForm

-----------------------------------------------------------------------------
(* The theorems.                                                           *)

LEMMA InitInv == Init => IInv
<1> SUFFICES ASSUME Init PROVE IInv
  OBVIOUS
<1>1. /\ now \in Times /\ 0 \in Times /\ 1 \in 1..Guards /\ 0 \in 0..Channel /\ AnyThread \in Threads
      /\ None \notin Procs /\ None \notin Nodes /\ "set" \notin Nodes /\ "notset" \notin Nodes
      /\ Sleepers \subseteq Procs /\ Alts \subseteq Procs
  BY Sizes, AThread, ConstFacts DEF Init
<1>2. /\ \A p \in Procs : pc[p] = "idle"
      /\ \A t \in Threads : walk[t].pc = "off" /\ queue[t] = <<>>
      /\ \A p \in Alts : /\ tlink[p] = "notset" /\ held[p] = None /\ temp[p] = 0
                         /\ chan[p] = "none" /\ p \notin trig
                         /\ state[p].waiting = FALSE /\ state[p].n = 0
  BY <1>1 DEF Init
<1>3. FunOK
  <2>1. queue \in [Threads -> Seq(Nodes)]
    BY DEF Init
  <2>2. [wptr |-> None, time |-> 0, dirty |-> FALSE, owner |-> AnyThread] \in NodeT
    BY <1>1 DEF NodeT, Wptr
  <2>3. [pc |-> "off", now |-> 0, ptr |-> None] \in WalkT
    BY <1>1 DEF WalkT, Wptr
  <2>4. [n |-> 0, waiting |-> FALSE, notReady |-> FALSE] \in StateT
    BY DEF StateT
  <2> QED BY <1>1, <2>1, <2>2, <2>3, <2>4 DEF FunOK, Init
<1>4. \A t \in Threads : Listed(t) = {} /\ DOMAIN queue[t] = {}
  BY <1>2 DEF Listed, ToSet
<1>5. LinkOK /\ OrderOK
  BY <1>4 DEF LinkOK, OrderOK, Distinct, Rising
<1>6. RefOK
  BY <1>1, <1>2 DEF RefOK, RefAt
<1>7. WalkOK /\ CallOK
  BY <1>1, <1>2 DEF WalkOK, WalkAt, CallOK, CallAt, InCall
<1>8. AltOK /\ CountExact
  BY <1>1, <1>2 DEF AltOK, AltAt, ChanPC, EndPC, CountExact
<1>9. \A t \in Threads : ThreadTime(t)
  BY <1>2, <1>4 DEF ThreadTime
<1>10. \A p \in Alts : AltTime(p)
  BY <1>1, <1>2 DEF AltTime, EnableOK
<1>11. SelOK
  BY <1>1, <1>2 DEF SelOK, SelAt, EndPC
<1> QED BY <1>3, <1>5, <1>6, <1>7, <1>8, <1>9, <1>10, <1>11 DEF IInv, MemInv, TimeOK

LEMMA CountKeeps == ASSUME IInv, Form PROVE CountExact'
<1>1. \A p \in Alts : Armed(p)' <=> InQueue(p)' \/ InWalk(p)'
  BY DEF Armed, InQueue, InWalk, Triggers
<1>2. \A p \in Alts : CountAt(p)'
  BY CountStep
<1> QED BY <1>1, <1>2 DEF CountExact, CountAt, Bit

\* The invariant holds of every behaviour: a step of any thread, process or
\* writer, and a tick of the clock, keep it.
THEOREM TimerInvariant == Spec => []IInv
<1>1. ASSUME IInv, [Next]_vars PROVE IInv'
  <2>1. Form
    BY <1>1, Forms
  <2>2. MemInv'
    <3>1. FunOK' /\ LinkOK' /\ OrderOK' /\ RefOK'
      BY <1>1, <2>1, FunStep, LinkStep, OrderStep, RefStep
    <3>2. WalkOK' /\ CallOK' /\ AltOK' /\ CountExact'
      BY <1>1, <2>1, WalkKeeps, CallStep, AltStepOK, CountKeeps
    <3> QED BY <3>1, <3>2 DEF MemInv
  <2>3. TimeOK'
    BY <1>1, <2>1, ThreadStep, AltTimeStep DEF TimeOK
  <2>4. SelOK'
    BY <1>1, <2>1, SelStep DEF SelOK
  <2> QED BY <2>2, <2>3, <2>4 DEF IInv
<1> QED BY <1>1, InitInv, PTL DEF Spec

\* The variables keep their types: the count of an ALT stays within 0 .. 3,
\* and Temp names a guard or the channel.
THEOREM TimerTypes == Spec => []TypeOK
<1>1. ASSUME IInv PROVE TypeOK
  <2>1. FunOK /\ \A p \in Alts : state[p].n \in 0..3
    BY <1>1 DEF IInv, MemInv, AltOK, AltAt
  <2>2. state \in [Alts -> [n : 0 .. 3, waiting : BOOLEAN, notReady : BOOLEAN]]
    BY <2>1 DEF FunOK, StateT
  <2> QED BY <2>1, <2>2 DEF FunOK, NodeT, WalkT, TypeOK
<1> QED BY <1>1, TimerInvariant, PTL

\* add_to_timer_queue keeps each queue in the order of time, wherever the
\* search from both ends stops and however nodes leave, so that a walk which
\* stops at the first time that has not come leaves no expired timer behind.
THEOREM TimerOrdered == Spec => []Ordered
<1>1. ASSUME IInv PROVE Ordered
  <2>1. FunOK /\ OrderOK /\ TimeOK /\ now \in Times
    BY <1>1 DEF IInv, MemInv, FunOK
  <2>2. ASSUME NEW t \in Threads, NEW i \in DOMAIN queue[t], NEW j \in DOMAIN queue[t],
               i < j, i = 1 => walk[t].pc \in {"off", "look"}
        PROVE  ~After(node[queue[t][i]].time, node[queue[t][j]].time)
    <3> DEFINE x == node[queue[t][i]].time
               y == node[queue[t][j]].time
    <3>1. i \in Nat /\ i >= 1 /\ queue[t][i] \in Listed(t) /\ queue[t][i] \in Nodes
      BY <2>1, PlaceListed
    <3>2. queue[t][j] \in Listed(t) /\ queue[t][j] \in Nodes
      BY <2>1, PlaceListed
    <3>3. First(t) <= i
      BY <2>2, <3>1 DEF First
    <3>4. Rel(now, x) <= Rel(now, y)
      BY <2>1, <2>2, <3>3 DEF OrderOK, Rising
    <3>5. x \in Times /\ y \in Times /\ Near(now, x) /\ Near(now, y)
      BY <2>1, <3>1, <3>2, TypesOfNode DEF TimeOK, ThreadTime
    <3> HIDE DEF x, y
    <3>6. Rel(now, x) - Rel(now, y) < Half /\ Rel(now, y) - Rel(now, x) < Half
      BY <3>5, Sizes DEF Near
    <3>7. After(x, y) <=> Rel(now, x) > Rel(now, y)
      BY <2>1, <3>5, <3>6, AfterRel
    <3>8. Rel(now, x) \in Int /\ Rel(now, y) \in Int
      BY <2>1, <3>5, RelIs
    <3>9. ~After(x, y)
      BY <3>4, <3>7, <3>8
    <3> QED BY <3>9 DEF x, y
  <2> QED BY <2>2 DEF Ordered
<1> QED BY <1>1, TimerInvariant, PTL

\* The memory of a node is reused only when no queue links it and no ALT refers
\* to it, and no node is linked twice, however the walk of its thread and the
\* kernel_dist of another interleave.
THEOREM TimerReuse == Spec => []NodeReuse
<1>1. ASSUME IInv PROVE NodeReuse
  <2>1. FunOK /\ LinkOK /\ OrderOK /\ RefOK
    BY <1>1 DEF IInv, MemInv
  <2>2. \A n \in free \cup Washed : ~Linked(n)
    BY <2>1, NotListed DEF Linked, Listed
  <2>3. ASSUME NEW n \in free \cup laundry, Referred(n) PROVE FALSE
    <3>1. n \in Nodes /\ None \notin Nodes
      BY <2>1, ConstFacts DEF FunOK
    <3> QED BY <2>1, <2>3, <3>1 DEF Referred, RefOK, RefAt
  <2> QED BY <2>1, <2>2, <2>3 DEF NodeReuse, OrderOK, Distinct
<1> QED BY <1>1, TimerInvariant, PTL

\* The count in State is exact, and an ALT is put on a run queue only while it
\* is blocked: the timer guard triggers it once or is taken out, never both.
THEOREM TimerTriggers == Spec => []TriggeredOnce
<1>1. ASSUME IInv PROVE TriggeredOnce
  <2>1. FunOK /\ WalkOK /\ AltOK /\ CountExact
    BY <1>1 DEF IInv, MemInv
  <2>2. EnqueueBlocked
    BY <2>1, Blocks DEF EnqueueBlocked, Triggers
  <2> QED BY <2>1, <2>2 DEF TriggeredOnce
<1> QED BY <1>1, TimerInvariant, PTL

\* An ALT that ends has selected a guard, and the time of a selected timer
\* guard has come, whether its node fired, was removed or was never queued.
THEOREM TimerSelects == Spec => []GuardSelected
<1>1. ASSUME IInv PROVE GuardSelected
  <2>1. ASSUME NEW p \in Alts, pc[p] = "select"
        PROVE  temp[p] # 0 /\ (temp[p] # Channel => ~After(guards[p][temp[p]], now))
    <3>1. SelAt(p) /\ FunOK /\ AltTime(p)
      BY <1>1 DEF IInv, MemInv, SelOK, TimeOK
    <3>2. temp[p] # 0
      BY <2>1, <3>1 DEF SelAt, EndPC
    <3>3. ASSUME temp[p] # Channel PROVE ~After(guards[p][temp[p]], now)
      <4>1. PICK g \in 1..Guards : temp[p] = g
        BY <3>1, <3>2, <3>3, Sizes DEF FunOK
      <4>2. now \in Times /\ guards[p][g] \in Times /\ Near(now, guards[p][g])
        BY <2>1, <3>1 DEF FunOK, AltTime
      <4>3. GuardRel(p, g) <= 0
        BY <2>1, <3>1, <4>1 DEF SelAt
      <4>4. Rel(now, guards[p][g]) \in -Slack .. 0 /\ Rel(now, now) = 0
        BY <4>2, <4>3, RelNow, Sizes DEF GuardRel, Near
      <4> QED BY <4>1, <4>2, <4>4, AfterRel, Sizes
    <3> QED BY <3>2, <3>3
  <2> QED BY <2>1 DEF GuardSelected
<1> QED BY <1>1, TimerInvariant, PTL
=============================================================================
