---------------------------- MODULE MigrationProof ----------------------------
(***************************************************************************)
(* Proofs about Migration, for every set of threads, processes and batches *)
(* and every window size.                                                  *)
(*                                                                         *)
(* The argument is one inductive invariant, MInv.  A batch is always with  *)
(* the allocator or with one thread (ApartOK): in its free list, in its    *)
(* laundry, in its run queue, pending, or in its hands (ListsOK).  A thief *)
(* never owns the batch that it has taken out of a window: the victim      *)
(* keeps the record in its run queue or its laundry, and may not reuse it  *)
(* before the thief has copied it and said so by cleaning it (TookOK,      *)
(* BlankOK, Lent).  What decides between the victim and a thief is the     *)
(* slot: a queued batch with a slot number is either still in that slot,   *)
(* or some one thief has it, or it is blank already (QueueOK, DataOK,      *)
(* TookOnce).  Processes are then in one place because batches are         *)
(* disjoint (PartOK), affine ones stay because none is ever in a batch     *)
(* that is in a window (KindOK), and a filled slot can be found because    *)
(* the owner only drops bits of slots that it has emptied (BitsOK).        *)
(*                                                                         *)
(* The actions of Migration are first split by their outcomes into steps   *)
(* that name what they write (Event), each step is summed up by what it    *)
(* does to the lists and batches (the Effect definitions), and every part  *)
(* of MInv is proved from these.                                           *)
(***************************************************************************)
EXTENDS Migration, FiniteSetTheorems, WellFoundedInduction, TLAPS

\* Where a thread has a batch of its own in its hands, and one of another.
OwnPC   == {"read", "show", "state", "clear", "unset"}
TookPC  == {"gone", "hide", "load"}
ThiefPC == {"steal", "look", "bit", "take"} \cup TookPC
ShowPC  == {"read", "show", "state", "mark"}

\* The pending batch is being shown to make room for an affine process.
Far(t) == cont[t] = "queue" \/ pc[t] = "queue"

\* The batches of a thread: those it has in its hands, the pending one, and
\* those in its lists.
Held(t)    == IF pc[t] \in OwnPC THEN {hand[t]} ELSE {}
Pending(t) == IF Far(t) THEN {} ELSE {pend[t]}
Own(t)     == free[t] \cup laundry[t] \cup ToSet(rq[t]) \cup Pending(t) \cup Held(t)

\* Batches that another thread may find in the window of t.
Shown(t) == ToSet(rq[t]) \cup (IF pc[t] = "state" THEN {hand[t]} ELSE {})

\* A thread has taken a batch and has not copied it yet.
Took(u)  == pc[u] \in TookPC /\ hand[u] # None
Away(b)  == \E u \in Threads : Took(u) /\ hand[u] = b
Blank(b) == ~dirty[b] /\ procs[b] = {}

TyQueues == /\ curb \in [Threads -> SUBSET Procs] /\ prio \in [Threads -> {"any", "affine"}]
            /\ rq \in [Threads -> Seq(Batches)] /\ pend \in [Threads -> Batches]
            /\ pprio \in [Threads -> {"none", "any", "affine"}]
            /\ free \in [Threads -> SUBSET Batches] /\ laundry \in [Threads -> SUBSET Batches]
            /\ blocked \subseteq Procs
TyBatch  == /\ mem \subseteq Batches /\ dirty \in [Batches -> BOOLEAN]
            /\ win \in [Batches -> 0..size] /\ procs \in [Batches -> SUBSET Procs]
TyWindow == /\ data \in [Threads -> [Slots -> Batches \cup {None}]] /\ mw \in [Threads -> WState]
            /\ mwstate \in [Threads -> BOOLEAN]
PCs == {"run", "read", "show", "state", "mark", "save", "queue", "pick", "clear", "unset",
        "steal", "look", "bit", "take", "gone", "hide", "load"}
TyLocals == /\ pc \in [Threads -> PCs]
            /\ cont \in [Threads -> {"run", "save", "queue", "pick"}]
            /\ hand \in [Threads -> Batches \cup {None}] /\ far \in [Threads -> Procs \cup {None}]
            /\ seen \in [Threads -> WState] /\ slot \in [Threads -> 0..size]
            /\ vic \in [Threads -> Threads \cup {None}]

CtlOK(t) ==
  /\ pc[t] \in ShowPC => cont[t] \in {"save", "queue", "pick"}
  /\ pc[t] \notin ShowPC => cont[t] = "run"
  /\ hand[t] # None => pc[t] \in OwnPC \cup TookPC
  /\ pc[t] \in OwnPC \cup {"load"} => hand[t] # None
  /\ far[t] # None <=> Far(t)
  /\ pc[t] \in {"pick", "clear", "unset"} \cup ThiefPC \/ cont[t] = "pick" => curb[t] = {}
  /\ pc[t] = "save" \/ cont[t] = "save" => curb[t] # {}
  /\ pc[t] \in {"show", "state", "clear", "unset", "take"} => slot[t] # 0
  /\ pc[t] \in ThiefPC \ {"steal"} => vic[t] # None /\ vic[t] # t
  /\ pc[t] \notin ThiefPC \ {"steal"} => vic[t] = None
  /\ pc[t] \in ThiefPC => ~mwstate[t]
  /\ pc[t] = "bit" => seen[t].bm # {}
  /\ Far(t) /\ pc[t] \in OwnPC => hand[t] = pend[t]

Distinct(q) == \A i, j \in 1..Len(q) : q[i] = q[j] => i = j
ListsOK(t) ==
  /\ Distinct(rq[t])
  /\ free[t] \cap laundry[t] = {} /\ free[t] \cap ToSet(rq[t]) = {}
  /\ free[t] \cap Pending(t) = {} /\ free[t] \cap Held(t) = {}
  /\ laundry[t] \cap ToSet(rq[t]) = {} /\ laundry[t] \cap Pending(t) = {}
  /\ laundry[t] \cap Held(t) = {} /\ ToSet(rq[t]) \cap Pending(t) = {}
  /\ ToSet(rq[t]) \cap Held(t) = {} /\ Pending(t) \cap Held(t) = {}
ApartOK == /\ \A t \in Threads : mem \cap Own(t) = {}
           /\ \A t, u \in Threads : t # u => Own(t) \cap Own(u) = {}
           /\ \A b \in Batches : b \in mem \/ \E t \in Threads : b \in Own(t)

MemOK == \A b \in mem : Blank(b)
BlankOK(t) == /\ \A b \in free[t] : Blank(b)
              /\ \A b \in laundry[t] : Blank(b) \/ Away(b)
              /\ ~Far(t) => ~dirty[pend[t]] /\ (pprio[t] = "none" <=> procs[pend[t]] = {})
Lent(t, b) == data[t][win[b]] = b \/ Away(b) \/ Blank(b)
HandOK(t) ==
  /\ pc[t] \in {"read", "show", "clear", "unset"} => procs[hand[t]] # {}
  /\ pc[t] \in {"show", "clear", "unset"} => dirty[hand[t]]
  /\ pc[t] \in {"show", "state", "clear", "unset"} => win[hand[t]] = slot[t]
  /\ pc[t] = "state" => Lent(t, hand[t])
QueueOK(t) == \A b \in ToSet(rq[t]) :
  /\ win[b] = 0 => ~dirty[b] /\ procs[b] # {}
  /\ win[b] # 0 => Lent(t, b)
DataOK(t) == \A w \in Slots : data[t][w] # None =>
  LET b == data[t][w] IN win[b] = w /\ b \in Shown(t) /\ dirty[b] /\ procs[b] # {}
TookOK(u) == Took(u) =>
  /\ dirty[hand[u]] /\ procs[hand[u]] # {} /\ win[hand[u]] # 0
  /\ hand[u] \in Shown(vic[u]) \cup laundry[vic[u]]
  /\ \A t \in Threads, w \in Slots : data[t][w] # hand[u]
TookOnce == \A u, v \in Threads : Took(u) /\ Took(v) /\ hand[u] = hand[v] => u = v

PartOK ==
  /\ \A b, c \in Batches : b # c => procs[b] \cap procs[c] = {}
  /\ \A t, u \in Threads : t # u => curb[t] \cap curb[u] = {}
  /\ \A t \in Threads, b \in Batches : curb[t] \cap procs[b] = {}
  /\ \A b \in Batches : blocked \cap procs[b] = {}
  /\ \A t \in Threads : blocked \cap curb[t] = {}
  /\ \A t \in Threads : far[t] # None =>
       /\ far[t] \notin blocked /\ \A b \in Batches : far[t] \notin procs[b]
       /\ \A u \in Threads : far[t] \notin curb[u] /\ (far[u] = far[t] => u = t)
  /\ \A p \in Procs : p \in blocked \/ (\E t \in Threads : p \in curb[t] \/ far[t] = p)
                       \/ \E b \in Batches : p \in procs[b]

\* The kinds of process: those of a batch are alike, affine ones are on their
\* own thread, and not in a batch that others may take.
KindCurb(t) == /\ \A p \in curb[t] : Kind(p) = prio[t] /\ (p \in Affine => t = Home[p])
               /\ far[t] # None => far[t] \in Affine /\ Home[far[t]] = t
KindPend(t) == ~Far(t) => \A p \in procs[pend[t]] : Kind(p) = pprio[t]
KindOwn(t)  == \A b \in Own(t) : /\ \A p \in procs[b] : p \in Affine => Home[p] = t
                                 /\ \A p, q \in procs[b] : Kind(p) = Kind(q)
KindLent(t) == /\ pc[t] \in OwnPC => procs[hand[t]] \cap Affine = {}
               /\ \A b \in ToSet(rq[t]) : win[b] # 0 => procs[b] \cap Affine = {}
               /\ \A b \in laundry[t] : procs[b] \cap Affine = {}
KindOK(t)   == KindCurb(t) /\ KindPend(t) /\ KindOwn(t) /\ KindLent(t)
BitsOK(t) ==
  /\ pc[t] \in {"show", "state", "unset"} => mw[t].bm \subseteq seen[t].bm
  /\ pc[t] \in {"clear", "unset"} => data[t][slot[t]] = None

MInv == /\ TypeOK /\ (\A t \in Threads : CtlOK(t)) /\ (\A t \in Threads : ListsOK(t)) /\ ApartOK
        /\ MemOK /\ (\A t \in Threads : BlankOK(t)) /\ (\A t \in Threads : HandOK(t))
        /\ (\A t \in Threads : QueueOK(t)) /\ (\A t \in Threads : DataOK(t))
        /\ (\A t \in Threads : TookOK(t)) /\ TookOnce /\ PartOK /\ (\A t \in Threads : KindOK(t))
        /\ (\A t \in Threads : BitsOK(t)) /\ Findable

Act(t) == Owner(t) \/ Thief(t) \/ Block(t) \/ Wake(t)

\* The type invariant, in parts: the queues, the batches, the windows, and the
\* locals of threads.
LEMMA Types == TypeOK <=> size \in WindowSizes /\ TyQueues /\ TyBatch /\ TyWindow /\ TyLocals
  BY DEF TypeOK, TyQueues, TyBatch, TyWindow, TyLocals, PCs

\* Windows have at least one slot, and 0 is not the number of a slot.
LEMMA Constants == size \in WindowSizes => size \in Nat /\ size >= 1 /\ Slots = 1..size
   /\ 0 \in 0..size
                                            /\ Slots \subseteq 0..size /\ 0 \notin Slots
  BY MigrationAssumption DEF Slots
\* A batch that is not queued is appended.
LEMMA AppendSet ==
  ASSUME NEW q \in Seq(Batches), Distinct(q), NEW b \in Batches, b \notin ToSet(q)
  PROVE  /\ Append(q, b) \in Seq(Batches) /\ Distinct(Append(q, b))
         /\ ToSet(Append(q, b)) = ToSet(q) \cup {b}
         /\ Len(Append(q, b)) = Len(q) + 1
<1> DEFINE r == Append(q, b)
<1>1. /\ r \in Seq(Batches) /\ Len(r) = Len(q) + 1 /\ r[Len(q) + 1] = b /\ Len(q) \in Nat
      /\ \A a \in 1..Len(q) : r[a] = q[a]
  OBVIOUS
<1>2. DOMAIN q = 1..Len(q) /\ DOMAIN r = 1..Len(r)
  BY <1>1
<1> HIDE DEF r
<1>3. \A a \in 1..Len(r) : a \in 1..Len(q) \/ a = Len(q) + 1
  BY <1>1
<1>4. \A a \in 1..Len(q) : q[a] # b
  BY <1>2 DEF ToSet
<1>5. Distinct(r)
  BY <1>1, <1>3, <1>4 DEF Distinct
<1>6. ToSet(r) = ToSet(q) \cup {b}
  <2>1. \A x : x \in ToSet(r) <=> \E a \in 1..Len(r) : r[a] = x
    BY <1>2 DEF ToSet
  <2>2. \A x : x \in ToSet(q) <=> \E a \in 1..Len(q) : q[a] = x
    BY <1>2 DEF ToSet
  <2>3. Len(q) + 1 \in 1..Len(r) /\ \A a \in 1..Len(q) : a \in 1..Len(r)
    BY <1>1
  <2> QED BY <1>1, <1>3, <2>1, <2>2, <2>3
<1> QED BY <1>1, <1>5, <1>6 DEF r

\* The first batch of a queue without duplicates is not in its tail.
LEMMA TailSet ==
  ASSUME NEW q \in Seq(Batches), Distinct(q), q # <<>>
  PROVE  /\ Tail(q) \in Seq(Batches) /\ Distinct(Tail(q)) /\ Head(q) \in Batches
         /\ Head(q) \in ToSet(q) /\ ToSet(Tail(q)) = ToSet(q) \ {Head(q)}
         /\ Len(q) \in Nat /\ Len(Tail(q)) = Len(q) - 1
<1> DEFINE r == Tail(q)
<1> DEFINE h == Head(q)
<1>1. /\ r \in Seq(Batches) /\ Len(q) \in Nat /\ Len(q) >= 1 /\ Len(r) = Len(q) - 1
      /\ h = q[1] /\ h \in Batches /\ \A a \in 1..Len(r) : r[a] = q[a + 1]
  OBVIOUS
<1>2. DOMAIN q = 1..Len(q) /\ DOMAIN r = 1..Len(r)
  BY <1>1
<1> HIDE DEF r, h
<1>3. \A a \in 1..Len(r) : a \in Int /\ a + 1 \in 1..Len(q) /\ a + 1 # 1
  BY <1>1
<1>4. \A a \in 1..Len(q) : a = 1 \/ (a - 1 \in 1..Len(r) /\ (a - 1) + 1 = a)
  BY <1>1
<1>5. Distinct(r)
  <2> SUFFICES ASSUME NEW a \in 1..Len(r), NEW c \in 1..Len(r), r[a] = r[c] PROVE a = c
    BY DEF Distinct
  <2>1. a + 1 = c + 1
    BY <1>1, <1>3 DEF Distinct
  <2> QED BY <1>3, <2>1
<1>6. ToSet(r) = ToSet(q) \ {h}
  <2>1. \A x : x \in ToSet(r) <=> \E a \in 1..Len(r) : r[a] = x
    BY <1>2 DEF ToSet
  <2>2. \A x : x \in ToSet(q) <=> \E a \in 1..Len(q) : q[a] = x
    BY <1>2 DEF ToSet
  <2>3. 1 \in 1..Len(q)
    BY <1>1
  <2>4. ASSUME NEW x \in ToSet(r) PROVE x \in ToSet(q) \ {h}
    <3>1. PICK a \in 1..Len(r) : r[a] = x
      BY <2>1
    <3>2. q[a + 1] = x /\ a + 1 \in 1..Len(q) /\ a + 1 # 1
      BY <1>1, <1>3, <3>1
    <3> QED BY <1>1, <2>2, <2>3, <3>2 DEF Distinct
  <2>5. ASSUME NEW x \in ToSet(q) \ {h} PROVE x \in ToSet(r)
    <3>1. PICK a \in 1..Len(q) : q[a] = x
      BY <2>2
    <3>2. a # 1
      BY <1>1, <3>1
    <3>3. r[a - 1] = q[(a - 1) + 1]
      BY <1>1, <1>4, <3>2
    <3> QED BY <1>4, <2>1, <3>1, <3>2, <3>3
  <2> QED BY <2>4, <2>5
<1>7. h \in ToSet(q)
  BY <1>1, <1>2 DEF ToSet
<1> QED BY <1>1, <1>5, <1>6, <1>7 DEF r, h

\* A nonempty set of naturals has a least element.
LEMMA LeastElement ==
  ASSUME NEW S, S \subseteq Nat, S # {}
  PROVE  \E c \in S : \A d \in S : c <= d
<1> DEFINE R == {ss \in Nat \X Nat : ss[1] < ss[2]}
<1>1. IsWellFoundedOn(R, Nat)
  BY NatLessThanWellFounded DEF OpToRel
<1> HIDE DEF R
<1>2. PICK c \in S : \A d \in S : <<d, c>> \notin R
  BY <1>1, WFMin
<1>3. \A d \in S : ~(d < c)
  BY <1>2 DEF R
<1> QED BY <1>3

\* A nonempty set of slots has a last one.
LEMMA LastSlot ==
  ASSUME size \in WindowSizes, NEW S \in SUBSET Slots, S # {}
  PROVE  \E w \in S : \A v \in S : v <= w
<1>1. size \in Nat /\ Slots = 1..size
  BY Constants
<1> DEFINE R == {size - w : w \in S}
<1>2. R \subseteq Nat /\ R # {}
  BY <1>1
<1>3. PICK c \in R : \A d \in R : c <= d
  BY <1>2, LeastElement
<1>4. PICK w \in S : c = size - w
  BY <1>3
<1>5. \A v \in S : size - w <= size - v
  BY <1>3, <1>4
<1> QED BY <1>1, <1>5

\* The slot that a thief tries is one whose bit it has seen.
LEMMA PreferredSlot ==
  ASSUME size \in WindowSizes, NEW s \in WState, s.bm # {}
  PROVE  Preferred(s) \in s.bm
<1> DEFINE top == {w \in s.bm : w >= s.head}
           set == IF top # {} THEN top ELSE s.bm
<1>1. set \in SUBSET Slots /\ set # {} /\ set \subseteq s.bm
  BY DEF WState
<1>2. \E w \in set : \A v \in set : v <= w
  BY <1>1, LastSlot
<1>3. Preferred(s) = CHOOSE w \in set : \A v \in set : v <= w
  BY DEF Preferred
<1> HIDE DEF set
<1> QED BY <1>1, <1>2, <1>3

\* What allocate_batch gives: a blank batch, taken from the free list, from
\* what was washed, or from the allocator.
LEMMA AllocFacts ==
  ASSUME MInv, NEW t \in Threads, NEW b, Allocate(t, b)
  PROVE  /\ b \in Batches /\ Blank(b) /\ b \in mem \cup free[t] \cup laundry[t]
         /\ mem' = mem \ {b} /\ Left(t, b) \subseteq free[t] \cup laundry[t]
         /\ \A x \in Left(t, b) : Blank(x) /\ x \in Batches
         /\ laundry' = [laundry EXCEPT ![t] = laundry'[t]] /\ laundry'[t] \subseteq laundry[t]
         /\ Left(t, b) \cap laundry'[t] = {} /\ b \notin laundry'[t] /\ b \notin Left(t, b)
         /\ free[t] \cup laundry[t] \cup mem = Left(t, b) \cup laundry'[t] \cup mem' \cup {b}
<1>1. /\ TyQueues /\ TyBatch /\ ListsOK(t) /\ ApartOK /\ MemOK /\ BlankOK(t)
      /\ \A u \in Threads : TookOK(u)
  BY Types DEF MInv
<1>2. /\ laundry \in [Threads -> SUBSET Batches] /\ free[t] \subseteq Batches
         /\ laundry[t] \subseteq Batches /\ mem \subseteq Batches
      /\ \A x \in laundry[t] : Blank(x) \/ Away(x)
      /\ \A x \in free[t] \cup mem : Blank(x)
      /\ free[t] \cap laundry[t] = {} /\ mem \cap free[t] = {} /\ mem \cap laundry[t] = {}
  BY <1>1 DEF TyQueues, TyBatch, ListsOK, ApartOK, Own, MemOK, BlankOK
<1>3. \A x \in Washed(t) : Blank(x) /\ x \in laundry[t]
  BY <1>1, <1>2 DEF Washed, Away, TookOK
<1>4. Washed(t) \subseteq laundry[t]
  BY DEF Washed
<1>5. /\ b \in Allocatable(t) /\ mem' = mem \ {b}
      /\ laundry' = [laundry EXCEPT ![t] = IF free[t] # {} THEN laundry[t] ELSE laundry[t] \
         Washed(t)]
  BY DEF Allocate, Set
<1>6. CASE free[t] # {}
  <2>1. b \in free[t] /\ Left(t, b) = free[t] \ {b} /\ laundry' = [laundry EXCEPT ![t] = laundry[t]]
    BY <1>5, <1>6 DEF Allocatable, Left
  <2>2. laundry'[t] = laundry[t] /\ laundry' = [laundry EXCEPT ![t] = laundry'[t]]
    BY <1>2, <2>1
  <2> QED BY <1>2, <1>5, <2>1, <2>2
<1>7. CASE free[t] = {} /\ Washed(t) # {}
  <2>1. /\ b \in Washed(t) /\ Left(t, b) = Washed(t) \ {b}
        /\ laundry' = [laundry EXCEPT ![t] = laundry[t] \ Washed(t)]
    BY <1>5, <1>7 DEF Allocatable, Left
  <2>2. laundry'[t] = laundry[t] \ Washed(t) /\ laundry' = [laundry EXCEPT ![t] = laundry'[t]]
    BY <1>2, <2>1
  <2> QED BY <1>2, <1>3, <1>4, <1>5, <1>7, <2>1, <2>2
<1>8. CASE free[t] = {} /\ Washed(t) = {}
  <2>1. /\ b \in mem /\ Left(t, b) = {}
        /\ laundry' = [laundry EXCEPT ![t] = laundry[t]]
    BY <1>5, <1>8 DEF Allocatable, Left
  <2>2. laundry'[t] = laundry[t] /\ laundry' = [laundry EXCEPT ![t] = laundry'[t]]
    BY <1>2, <2>1
  <2> QED BY <1>2, <1>5, <1>8, <2>1, <2>2
<1> QED BY <1>6, <1>7, <1>8

-----------------------------------------------------------------------------
(* The steps of a thread, with the outcomes of each apart.                 *)

Upd(f, x, v) == [f EXCEPT ![x] = v]

\* A batch x joins the queue of t, or leaves it.
Link(t, x)   == /\ rq' = Upd(rq, t, rq'[t]) /\ rq'[t] \in Seq(Batches) /\ Distinct(rq'[t])
                /\ x \notin ToSet(rq[t]) /\ ToSet(rq'[t]) = ToSet(rq[t]) \cup {x}
Unlink(t, x) == /\ rq' = Upd(rq, t, rq'[t]) /\ rq'[t] \in Seq(Batches) /\ Distinct(rq'[t])
                /\ x \in ToSet(rq[t]) /\ ToSet(rq'[t]) = ToSet(rq[t]) \ {x}

\* The batch b is allocated; L is left in the free list.
Alloc(t, b, L) ==
  /\ b \in Batches /\ Blank(b) /\ b \in mem \cup free[t] \cup laundry[t]
  /\ mem' = mem \ {b} /\ L \subseteq free[t] \cup laundry[t]
  /\ \A x \in L : Blank(x) /\ x \in Batches
  /\ laundry' = Upd(laundry, t, laundry'[t]) /\ laundry'[t] \subseteq laundry[t]
  /\ L \cap laundry'[t] = {} /\ b \notin laundry'[t] /\ b \notin L
  /\ free[t] \cup laundry[t] \cup mem = L \cup laundry'[t] \cup mem' \cup {b}

Push(t, b, L, ps, n) ==
  /\ Alloc(t, b, L) /\ pc[t] \in {"run", "save"} /\ ps \in SUBSET curb[t] /\ ps # {}
  /\ n \in {"pick", "save"} /\ (n = "pick" <=> curb[t] \ ps = {})
  /\ procs' = Upd(procs, b, ps) /\ pend' = Upd(pend, t, b) /\ pprio' = Upd(pprio, t, prio[t])
  /\ curb' = Upd(curb, t, curb[t] \ ps)
  /\ UNCHANGED <<data, mw, mwstate, prio, blocked, far, seen, slot, vic>>
PushFree(t, b, L, ps, n) ==
  /\ Push(t, b, L, ps, n) /\ pprio[t] = "none"
  /\ free' = Upd(free, t, L \cup {pend[t]}) /\ pc' = Upd(pc, t, n)
  /\ UNCHANGED <<rq, win, dirty, hand, cont>>
PushLink(t, b, L, ps, n) ==
  /\ Push(t, b, L, ps, n) /\ pprio[t] = "affine"
  /\ free' = Upd(free, t, L) /\ pc' = Upd(pc, t, n) /\ Link(t, pend[t])
  /\ win' = Upd(win, pend[t], 0) /\ dirty' = Upd(dirty, pend[t], FALSE)
  /\ UNCHANGED <<hand, cont>>
PushShow(t, b, L, ps, n) ==
  /\ Push(t, b, L, ps, n) /\ pprio[t] = "any"
  /\ free' = Upd(free, t, L) /\ pc' = Upd(pc, t, "read") /\ hand' = Upd(hand, t, pend[t])
  /\ cont' = Upd(cont, t, n)
  /\ UNCHANGED <<rq, win, dirty>>

Woken(t, p) ==
  /\ pc[t] = "run" /\ p \in blocked /\ t \in Wakers[p] /\ blocked' = blocked \ {p}
  /\ UNCHANGED <<data, mw, mwstate, prio, seen, slot, vic>>
WakeCurb(t, p) ==
  /\ Woken(t, p) /\ prio[t] = Kind(p) /\ curb' = Upd(curb, t, curb[t] \cup {p})
  /\ UNCHANGED <<mem, dirty, win, procs, rq, pend, pprio, free, laundry, pc, cont, hand, far>>
WakePend(t, p) ==
  /\ Woken(t, p) /\ pprio[t] \in {"none", Kind(p)} /\ pprio' = Upd(pprio, t, Kind(p))
  /\ procs' = Upd(procs, pend[t], procs[pend[t]] \cup {p})
  /\ UNCHANGED <<mem, dirty, win, curb, rq, pend, free, laundry, pc, cont, hand, far>>
WakeNew(t, p, b, L) ==
  /\ Woken(t, p) /\ Kind(p) = "any" /\ pprio[t] = "affine" /\ Alloc(t, b, L)
  /\ Link(t, pend[t]) /\ win' = Upd(win, pend[t], 0) /\ dirty' = Upd(dirty, pend[t], FALSE)
  /\ pend' = Upd(pend, t, b) /\ pprio' = Upd(pprio, t, Kind(p)) /\ procs' = Upd(procs, b, {p})
  /\ free' = Upd(free, t, L)
  /\ UNCHANGED <<curb, pc, cont, hand, far>>
WakeFar(t, p) ==
  /\ Woken(t, p) /\ Kind(p) = "affine" /\ pprio[t] = "any"
  /\ hand' = Upd(hand, t, pend[t]) /\ far' = Upd(far, t, p) /\ pc' = Upd(pc, t, "read")
  /\ cont' = Upd(cont, t, "queue")
  /\ UNCHANGED <<mem, dirty, win, procs, curb, rq, pend, pprio, free, laundry>>
NewFar(t, b, L) ==
  /\ pc[t] = "queue" /\ Alloc(t, b, L)
  /\ pend' = Upd(pend, t, b) /\ pprio' = Upd(pprio, t, Kind(far[t]))
  /\ procs' = Upd(procs, b, {far[t]}) /\ free' = Upd(free, t, L)
  /\ far' = Upd(far, t, None) /\ pc' = Upd(pc, t, "run")
  /\ UNCHANGED <<dirty, win, data, mw, mwstate, curb, prio, rq, blocked, cont, hand, seen, slot,
     vic>>

\* A batch is loaded.
PrioOf(b) == IF \E p \in procs[b] : Kind(p) = "affine" THEN "affine" ELSE "any"
Load(t, b) == /\ curb' = Upd(curb, t, procs[b]) /\ prio' = Upd(prio, t, PrioOf(b))
              /\ procs' = Upd(procs, b, {}) /\ pc' = Upd(pc, t, "run")
PullOwn(t, b) ==
  /\ Picking(t) /\ Unlink(t, b) /\ win[b] = 0 /\ Load(t, b)
  /\ free' = Upd(free, t, free[t] \cup {b})
  /\ UNCHANGED <<mem, dirty, win, data, mw, mwstate, pend, pprio, laundry, blocked,
                 cont, hand, far, seen, slot, vic>>
PullShown(t, b) ==
  /\ Picking(t) /\ Unlink(t, b) /\ win[b] # 0 /\ data[t][win[b]] = b
  /\ data' = [data EXCEPT ![t][win[b]] = None]
  /\ hand' = Upd(hand, t, b) /\ slot' = Upd(slot, t, win[b]) /\ pc' = Upd(pc, t, "clear")
  /\ UNCHANGED <<mem, dirty, win, procs, mw, mwstate, curb, prio, pend, pprio, free, laundry,
                 blocked, cont, far, seen, vic>>
PullTaken(t, b) ==
  /\ Picking(t) /\ Unlink(t, b) /\ win[b] # 0 /\ data[t][win[b]] # b
  /\ laundry' = Upd(laundry, t, laundry[t] \cup {b}) /\ pc' = Upd(pc, t, "pick")
  /\ UNCHANGED <<mem, dirty, win, procs, data, mw, mwstate, curb, prio, pend, pprio, free,
                 blocked, cont, hand, far, seen, slot, vic>>
LoadCleared(t) ==
  /\ pc[t] = "unset" /\ Load(t, hand[t]) /\ mw' = Upd(mw, t, [seen[t] EXCEPT !.bm = @ \ {slot[t]}])
  /\ win' = Upd(win, hand[t], 0) /\ dirty' = Upd(dirty, hand[t], FALSE)
  /\ free' = Upd(free, t, free[t] \cup {hand[t]})
  /\ hand' = Upd(hand, t, None) /\ seen' = Upd(seen, t, NoState) /\ slot' = Upd(slot, t, 0)
  /\ UNCHANGED <<mem, data, mwstate, rq, pend, pprio, laundry, blocked, cont, far, vic>>
LoadPending(t, b, L) ==
  /\ Picking(t) /\ pprio[t] # "none" /\ Alloc(t, b, L) /\ Load(t, pend[t])
  /\ pend' = Upd(pend, t, b) /\ pprio' = Upd(pprio, t, "none")
  /\ free' = Upd(free, t, L \cup {pend[t]})
  /\ UNCHANGED <<dirty, win, data, mw, mwstate, rq, blocked, cont, hand, far, seen, slot, vic>>
\* The clean batches of the laundry are sorted out: those in keep are free.
Wash(t, keep) ==
  /\ pc[t] = "steal" /\ keep \subseteq free[t] \cup laundry[t]
  /\ laundry' = Upd(laundry, t, laundry'[t]) /\ laundry'[t] \subseteq laundry[t]
  /\ free' = Upd(free, t, keep) /\ keep \cap laundry'[t] = {} /\ mem \subseteq mem'
  /\ mem' \subseteq mem \cup free[t] \cup laundry[t]
  /\ mem' \cap (keep \cup laundry'[t]) = {}
  /\ free[t] \cup laundry[t] \cup mem = keep \cup laundry'[t] \cup mem'
  /\ \A b \in keep \cup mem' : Blank(b)
  /\ pc' = Upd(pc, t, "run")
  /\ UNCHANGED <<dirty, win, procs, data, mw, mwstate, curb, prio, rq, pend, pprio, blocked,
                 cont, hand, far, seen, slot, vic>>
\* The batch is linked in the queue.
Enlist(t) == WriteState(t) /\ Link(t, hand[t])
\* Steps that touch no batch and no list: they are about the window state.
Visit(t) ==
  /\ \/ PickNothing(t) \/ Choose(t) \/ Look(t) \/ ClearBit(t) \/ Gone(t) \/ Hide(t)
  /\ UNCHANGED <<mem, dirty, win, procs, data, curb, prio, rq, pend, pprio, free, laundry, blocked,
                 cont, hand, far>>
  /\ pc' = Upd(pc, t, pc'[t]) /\ pc'[t] \in ThiefPC

Event(t) ==
  \/ \E b \in Batches, L \in SUBSET Batches, ps \in SUBSET Procs, n \in {"pick", "save"} :
       PushFree(t, b, L, ps, n) \/ PushLink(t, b, L, ps, n) \/ PushShow(t, b, L, ps, n)
  \/ ReadState(t) \/ Show(t) \/ Enlist(t) \/ MarkWork(t) \/ Block(t)
  \/ \E p \in Procs : WakeCurb(t, p) \/ WakePend(t, p) \/ WakeFar(t, p)
  \/ \E p \in Procs, b \in Batches, L \in SUBSET Batches : WakeNew(t, p, b, L)
  \/ \E b \in Batches, L \in SUBSET Batches : NewFar(t, b, L) \/ LoadPending(t, b, L)
  \/ \E b \in Batches : PullOwn(t, b) \/ PullShown(t, b) \/ PullTaken(t, b)
  \/ ClearRead(t) \/ LoadCleared(t)
  \/ \E keep \in SUBSET Batches : Wash(t, keep)
  \/ Visit(t) \/ Take(t) \/ LoadRemote(t)

\* push_batch: the pending batch is freed, linked or shown, as its priority says.
LEMMA PushEvent ==
  ASSUME MInv, NEW t \in Threads, NEW ps \in SUBSET curb[t], NEW n \in {"pick", "save"},
         pc[t] \in {"run", "save"}, ps # {},
         (n = "pick" /\ curb[t] \ ps = {}) \/ (n = "save" /\ curb[t] \ ps # {}),
         PushBatch(t, ps, n), curb' = Upd(curb, t, curb[t] \ ps)
  PROVE  Event(t)
<1>1. TyQueues /\ ListsOK(t) /\ CtlOK(t)
  BY Types DEF MInv
<1>2. /\ pend[t] \in Batches /\ rq[t] \in Seq(Batches) /\ Distinct(rq[t])
         /\ pend[t] \notin ToSet(rq[t])
      /\ pprio[t] \in {"none", "affine", "any"} /\ ps \in SUBSET Procs
      /\ rq \in [Threads -> Seq(Batches)]
  BY <1>1 DEF TyQueues, ListsOK, CtlOK, Far, Pending, ShowPC
<1>3. PICK b \in Allocatable(t) :
    /\ Allocate(t, b)
    /\ Set(procs, b, ps) /\ Set(pend, t, b) /\ Set(pprio, t, prio[t])
    /\ Set(free, t, IF pprio[t] = "none" THEN Left(t, b) \cup {pend[t]} ELSE Left(t, b))
    /\ IF pprio[t] = "affine"
       THEN /\ Set(rq, t, Append(rq[t], pend[t])) 
            /\ Set(win, pend[t], 0) /\ Set(dirty, pend[t], FALSE)
       ELSE UNCHANGED <<rq, win, dirty>>
    /\ IF pprio[t] = "any"
       THEN To(t, "read") /\ Set(hand, t, pend[t]) /\ Set(cont, t, n)
       ELSE To(t, n) /\ UNCHANGED <<hand, cont>>
    /\ UNCHANGED <<window, prio, blocked, far, seen, slot, vic>>
  BY DEF PushBatch
<1> DEFINE L == Left(t, b)
<1>4. Alloc(t, b, L) /\ L \in SUBSET Batches
  BY <1>3, AllocFacts DEF Alloc, Upd
<1>5. Push(t, b, L, ps, n)
  BY <1>3, <1>4 DEF Push, Set, Upd, window
<1>6. b \in Batches
  BY <1>4 DEF Alloc
<1>7. CASE pprio[t] = "none"
  <2>1. PushFree(t, b, L, ps, n)
    BY <1>3, <1>5, <1>7 DEF PushFree, Set, To, Upd
  <2> QED BY <1>2, <1>4, <1>6, <2>1 DEF Event
<1>8. CASE pprio[t] = "affine"
  <2>1. rq' = Upd(rq, t, Append(rq[t], pend[t]))
    BY <1>3, <1>8 DEF Set, Upd
  <2>2. rq'[t] = Append(rq[t], pend[t])
    BY <1>2, <2>1 DEF Upd
  <2>3. Link(t, pend[t])
    BY <1>2, <2>1, <2>2, AppendSet DEF Link
  <2>4. PushLink(t, b, L, ps, n)
    BY <1>3, <1>5, <1>8, <2>3 DEF PushLink, Set, To, Upd
  <2> QED BY <1>2, <1>4, <1>6, <2>4 DEF Event
<1>9. CASE pprio[t] = "any"
  <2>1. PushShow(t, b, L, ps, n)
    BY <1>3, <1>5, <1>9 DEF PushShow, Set, To, Upd
  <2> QED BY <1>2, <1>4, <1>6, <2>1 DEF Event
<1> QED BY <1>2, <1>7, <1>8, <1>9

\* enqueue_to_batch: a process that wakes joins the current batch or the pending
\* one, or makes a new one pending.
LEMMA WakeEvent ==
  ASSUME MInv, NEW t \in Threads, Wake(t) PROVE Event(t)
<1>1. TyQueues /\ ListsOK(t) /\ CtlOK(t)
  BY Types DEF MInv
<1>2. PICK p \in blocked :
    /\ pc[t] = "run" /\ t \in Wakers[p]
    /\ blocked' = blocked \ {p}
    /\ \/ /\ prio[t] = Kind(p)
          /\ Set(curb, t, curb[t] \cup {p})
          /\ UNCHANGED <<batch, rq, pend, pprio, free, laundry, pc, cont, hand, far>>
       \/ /\ prio[t] # Kind(p) /\ pprio[t] \in {"none", Kind(p)}
          /\ Set(pprio, t, Kind(p)) /\ Set(procs, pend[t], procs[pend[t]] \cup {p})
          /\ UNCHANGED <<mem, dirty, win, curb, rq, pend, free, laundry, pc, cont, hand, far>>
       \/ /\ prio[t] # Kind(p) /\ Kind(p) = "any" /\ pprio[t] = "affine"
          /\ Set(rq, t, Append(rq[t], pend[t]))
          /\ Set(win, pend[t], 0) /\ Set(dirty, pend[t], FALSE)
          /\ NewPending(t, p) /\ UNCHANGED <<curb, pc, cont, hand, far>>
       \/ /\ prio[t] # Kind(p) /\ Kind(p) = "affine" /\ pprio[t] = "any"
          /\ Set(hand, t, pend[t]) /\ Set(far, t, p)
          /\ To(t, "read") /\ Set(cont, t, "queue")
          /\ UNCHANGED <<batch, curb, rq, pend, pprio, free, laundry>>
    /\ UNCHANGED <<window, prio, seen, slot, vic>>
  BY DEF Wake
<1>3. Woken(t, p) /\ p \in Procs
  BY <1>1, <1>2 DEF Woken, window, TyQueues
<1>4. CASE WakeCurb(t, p)
  BY <1>3, <1>4 DEF Event
<1>5. CASE WakePend(t, p)
  BY <1>3, <1>5 DEF Event
<1>6. CASE WakeFar(t, p)
  BY <1>3, <1>6 DEF Event
<1>7. CASE /\ Kind(p) = "any" /\ pprio[t] = "affine"
           /\ Set(rq, t, Append(rq[t], pend[t]))
           /\ Set(win, pend[t], 0) /\ Set(dirty, pend[t], FALSE)
           /\ NewPending(t, p) /\ UNCHANGED <<curb, pc, cont, hand, far>>
  <2>1. PICK b \in Allocatable(t) :
          /\ Allocate(t, b) /\ Set(free, t, Left(t, b))
          /\ Set(pend, t, b) /\ Set(pprio, t, Kind(p)) /\ Set(procs, b, {p})
    BY <1>7 DEF NewPending
  <2> DEFINE L == Left(t, b)
  <2>2. Alloc(t, b, L) /\ L \in SUBSET Batches /\ b \in Batches
    BY <2>1, AllocFacts DEF Alloc, Upd
  <2>3. /\ pend[t] \in Batches /\ rq[t] \in Seq(Batches) /\ Distinct(rq[t])
        /\ pend[t] \notin ToSet(rq[t]) /\ rq \in [Threads -> Seq(Batches)]
    BY <1>1, <1>2 DEF TyQueues, ListsOK, CtlOK, Far, Pending, ShowPC
  <2>4. rq' = Upd(rq, t, Append(rq[t], pend[t]))
    BY <1>7 DEF Set, Upd
  <2>5. rq'[t] = Append(rq[t], pend[t])
    BY <2>3, <2>4 DEF Upd
  <2>6. Link(t, pend[t])
    BY <2>3, <2>4, <2>5, AppendSet DEF Link
  <2>7. WakeNew(t, p, b, L)
    BY <1>3, <1>7, <2>1, <2>2, <2>6 DEF WakeNew, Set, Upd
  <2> QED BY <1>3, <2>2, <2>7 DEF Event
<1> QED BY <1>2, <1>3, <1>4, <1>5, <1>6, <1>7 DEF WakeCurb, WakePend, WakeFar, Set, To, Upd, batch

\* try_pull_from_runqueue: a batch from the queue is loaded, or its slot is
\* cleared first, or it was taken and goes to the laundry.
LEMMA PullEvent ==
  ASSUME MInv, NEW t \in Threads, Pull(t) PROVE Event(t)
<1>1. TyQueues /\ ListsOK(t)
  BY Types DEF MInv
<1>2. rq[t] \in Seq(Batches) /\ Distinct(rq[t]) /\ rq[t] # <<>> /\ rq \in [Threads -> Seq(Batches)]
  BY <1>1 DEF TyQueues, ListsOK, Pull
<1> DEFINE b == Head(rq[t])
<1>3. rq' = Upd(rq, t, Tail(rq[t])) /\ Picking(t)
  BY DEF Pull, Set, Upd
<1>4. rq'[t] = Tail(rq[t])
  BY <1>2, <1>3 DEF Upd
<1>5. Unlink(t, b) /\ b \in Batches
  BY <1>2, <1>3, <1>4, TailSet DEF Unlink
<1>6. /\ \/ /\ win[b] = 0
            /\ LoadOwn(t, b, free[t]) /\ Set(procs, b, {}) /\ To(t, "run")
            /\ UNCHANGED <<data, laundry, hand, slot>>
         \/ /\ win[b] # 0 /\ data[t][win[b]] = b
            /\ data' = [data EXCEPT ![t][win[b]] = None]
            /\ Set(hand, t, b) /\ Set(slot, t, win[b]) /\ To(t, "clear")
            /\ UNCHANGED <<procs, curb, prio, free, laundry>>
         \/ /\ win[b] # 0 /\ data[t][win[b]] # b
            /\ Set(laundry, t, laundry[t] \cup {b})
            /\ To(t, "pick") /\ UNCHANGED <<procs, data, curb, prio, free, hand, slot>>
      /\ UNCHANGED <<mem, dirty, win, mw, mwstate, pend, pprio, blocked, cont, far, seen, vic>>
  BY DEF Pull
<1> HIDE DEF b
<1>7. PullOwn(t, b) \/ PullShown(t, b) \/ PullTaken(t, b)
  BY <1>3, <1>5, <1>6 DEF PullOwn, PullShown, PullTaken, Load, LoadOwn, PrioOf, Set, To, Upd
<1> QED BY <1>5, <1>7 DEF Event

\* The pending batch is loaded, or is replaced for an affine process.
LEMMA PendingEvent ==
  ASSUME MInv, NEW t \in Threads, PullPending(t) \/ QueueFar(t) PROVE Event(t)
<1>1. CASE PullPending(t)
  <2>1. PICK b \in Allocatable(t) :
          /\ Allocate(t, b) /\ Set(pend, t, b) /\ Set(pprio, t, "none")
          /\ LoadOwn(t, pend[t], Left(t, b)) /\ Set(procs, pend[t], {})
    BY <1>1 DEF PullPending
  <2> DEFINE L == Left(t, b)
  <2>2. Alloc(t, b, L) /\ L \in SUBSET Batches /\ b \in Batches
    BY <2>1, AllocFacts DEF Alloc, Upd
  <2>3. LoadPending(t, b, L)
    BY <1>1, <2>1, <2>2 DEF LoadPending, PullPending, Load, LoadOwn, PrioOf, Set, To, Upd, window,
       locals
  <2> QED BY <2>2, <2>3 DEF Event
<1>2. CASE QueueFar(t)
  <2>1. PICK b \in Allocatable(t) :
          /\ Allocate(t, b) /\ Set(free, t, Left(t, b))
          /\ Set(pend, t, b) /\ Set(pprio, t, Kind(far[t])) /\ Set(procs, b, {far[t]})
    BY <1>2 DEF QueueFar, NewPending
  <2> DEFINE L == Left(t, b)
  <2>2. Alloc(t, b, L) /\ L \in SUBSET Batches /\ b \in Batches
    BY <2>1, AllocFacts DEF Alloc, Upd
  <2>3. NewFar(t, b, L)
    BY <1>2, <2>1, <2>2 DEF NewFar, QueueFar, Set, To, Upd, window
  <2> QED BY <2>2, <2>3 DEF Event
<1> QED BY <1>1, <1>2

\* do_laundry: batches that their thieves have cleaned are free again.
LEMMA WashEvent ==
  ASSUME MInv, NEW t \in Threads, NoWork(t) PROVE Event(t)
<1>1. /\ TyQueues /\ TyBatch /\ ListsOK(t) /\ ApartOK /\ MemOK /\ BlankOK(t)
      /\ \A u \in Threads : TookOK(u)
  BY Types DEF MInv
<1>2. /\ laundry \in [Threads -> SUBSET Batches] /\ free \in [Threads -> SUBSET Batches]
      /\ free[t] \subseteq Batches /\ laundry[t] \subseteq Batches /\ mem \subseteq Batches
      /\ \A x \in laundry[t] : Blank(x) \/ Away(x)
      /\ \A x \in free[t] \cup mem : Blank(x)
      /\ free[t] \cap laundry[t] = {} /\ mem \cap free[t] = {} /\ mem \cap laundry[t] = {}
  BY <1>1 DEF TyQueues, TyBatch, ListsOK, ApartOK, Own, MemOK, BlankOK
<1>3. \A x \in Washed(t) : Blank(x) /\ x \in laundry[t]
  BY <1>1, <1>2 DEF Washed, Away, TookOK
<1>4. /\ pc[t] = "steal" /\ pc' = Upd(pc, t, "run")
      /\ UNCHANGED <<data, mw, mwstate, curb, prio, rq, pend, pprio, blocked,
                     cont, hand, far, seen, slot, vic>>
  BY DEF NoWork, To, Set, Upd, window, locals
<1>5. CASE UNCHANGED <<batch, free, laundry>>
  <2>1. /\ laundry'[t] = laundry[t] /\ laundry' = Upd(laundry, t, laundry'[t])
        /\ free' = Upd(free, t, free[t]) /\ mem' = mem /\ UNCHANGED <<dirty, win, procs>>
    BY <1>2, <1>5 DEF batch, Upd
  <2>2. Wash(t, free[t])
    BY <1>2, <1>4, <2>1 DEF Wash
  <2> QED BY <1>2, <2>2 DEF Event
<1>6. ASSUME NEW keep \in SUBSET (free[t] \cup Washed(t)),
             Set(laundry, t, laundry[t] \ Washed(t)), Set(free, t, keep),
             mem' = mem \cup ((free[t] \cup Washed(t)) \ keep), UNCHANGED <<dirty, win, procs>>
      PROVE  Event(t)
  <2>1. /\ laundry'[t] = laundry[t] \ Washed(t) /\ laundry' = Upd(laundry, t, laundry'[t])
        /\ free' = Upd(free, t, keep)
    BY <1>2, <1>6 DEF Set, Upd
  <2>2. /\ keep \subseteq free[t] \cup laundry[t] /\ laundry'[t] \subseteq laundry[t]
        /\ keep \cap laundry'[t] = {} /\ mem \subseteq mem'
        /\ mem' \subseteq mem \cup free[t] \cup laundry[t]
        /\ mem' \cap (keep \cup laundry'[t]) = {}
        /\ free[t] \cup laundry[t] \cup mem = keep \cup laundry'[t] \cup mem'
        /\ \A b \in keep \cup mem' : Blank(b)
    BY <1>2, <1>3, <1>6, <2>1
  <2>3. Wash(t, keep)
    BY <1>4, <1>6, <2>1, <2>2 DEF Wash
  <2> QED BY <1>2, <2>2, <2>3 DEF Event
<1> QED BY <1>5, <1>6 DEF NoWork

\* Every step of a thread is one of these.
LEMMA EventOf ==
  ASSUME MInv, NEW t \in Threads, Act(t) PROVE Event(t)
<1>1. TyQueues /\ TyLocals /\ CtlOK(t) /\ ListsOK(t)
  BY Types DEF MInv
<1>7. CASE WriteState(t)
  <2>1. /\ hand[t] \in Batches /\ rq[t] \in Seq(Batches) /\ Distinct(rq[t])
        /\ hand[t] \notin ToSet(rq[t]) /\ rq \in [Threads -> Seq(Batches)]
    BY <1>1, <1>7 DEF TyQueues, TyLocals, ListsOK, CtlOK, Held, OwnPC, WriteState
  <2>2. rq' = Upd(rq, t, Append(rq[t], hand[t]))
    BY <1>7 DEF WriteState, Set, Upd
  <2>3. rq'[t] = Append(rq[t], hand[t])
    BY <2>1, <2>2 DEF Upd
  <2>4. Link(t, hand[t])
    BY <2>1, <2>2, <2>3, AppendSet DEF Link
  <2> QED BY <1>7, <2>4 DEF Event, Enlist
<1>2. CASE EndOfCurb(t)
  <2>1. pc[t] = "run" /\ curb[t] # {}
    BY <1>2 DEF EndOfCurb
  <2>2. CASE PushBatch(t, curb[t], "pick") /\ Set(curb, t, {})
    <3>1. PICK all \in SUBSET curb[t] : all = curb[t]
      OBVIOUS
    <3>2. /\ all # {} /\ curb[t] \ all = {} /\ curb' = Upd(curb, t, curb[t] \ all)
          /\ PushBatch(t, all, "pick")
      BY <2>1, <2>2, <3>1 DEF Set, Upd, PushBatch
    <3> QED BY <2>1, <3>2, PushEvent
  <2>3. ASSUME NEW p \in curb[t], curb[t] # {p}, PushBatch(t, {p}, "save"),
           Set(curb, t, curb[t] \ {p})
        PROVE  Event(t)
    <3>1. curb[t] \ {p} # {} /\ {p} \in SUBSET curb[t] /\ {p} # {}
             /\ curb' = Upd(curb, t, curb[t] \ {p})
      BY <2>1, <2>3 DEF Set, Upd
    <3> QED BY <2>1, <2>3, <3>1, PushEvent
  <2> QED BY <1>2, <2>2, <2>3 DEF EndOfCurb
<1>3. CASE PushCurb(t)
  <2>1. pc[t] = "save" /\ curb[t] # {}
    BY <1>1, <1>3 DEF PushCurb, CtlOK
  <2>2. PushBatch(t, curb[t], "pick") /\ Set(curb, t, {})
    BY <1>3 DEF PushCurb
  <2>3. PICK all \in SUBSET curb[t] : all = curb[t]
    OBVIOUS
  <2>4. /\ all # {} /\ curb[t] \ all = {} /\ curb' = Upd(curb, t, curb[t] \ all)
        /\ PushBatch(t, all, "pick")
    BY <2>1, <2>2, <2>3 DEF Set, Upd, PushBatch
  <2> QED BY <2>1, <2>4, PushEvent
<1>4. CASE Wake(t) \/ Pull(t) \/ PullPending(t) \/ QueueFar(t) \/ NoWork(t)
  BY <1>4, WakeEvent, PullEvent, PendingEvent, WashEvent
<1>5. CASE ClearWrite(t)
  <2>1. LoadCleared(t)
    BY <1>5 DEF ClearWrite, LoadCleared, Load, LoadOwn, PrioOf, Set, To, Upd
  <2> QED BY <2>1 DEF Event
<1>6. CASE PickNothing(t) \/ Choose(t) \/ Look(t) \/ ClearBit(t) \/ Gone(t) \/ Hide(t)
  <2>1. UNCHANGED <<mem, dirty, win, procs, data, curb, prio, rq, pend, pprio, free, laundry,
           blocked,
                    cont, hand, far>>
    BY <1>6 DEF PickNothing, Choose, Look, ClearBit, Gone, Hide, batch, window, queues, locals
  <2>2. \E l \in ThiefPC : pc' = Upd(pc, t, l)
    BY <1>6 DEF PickNothing, Choose, Look, ClearBit, Gone, Hide, Found, To, Set, Upd, ThiefPC,
       TookPC
  <2>3. pc' = Upd(pc, t, pc'[t]) /\ pc'[t] \in ThiefPC
    BY <1>1, <2>2 DEF TyLocals, Upd
  <2> QED BY <1>6, <2>1, <2>3 DEF Event, Visit
<1> QED BY <1>2, <1>3, <1>4, <1>5, <1>6, <1>7 DEF Act, Owner, Thief, Event

-----------------------------------------------------------------------------
(* Types                                                                   *)

\* The values that steps of t write.
LEMMA Values ==
  ASSUME MInv, NEW t \in Threads
  PROVE  /\ pend[t] \in Batches /\ prio[t] \in {"any", "affine"} /\ curb[t] \in SUBSET Procs
         /\ pc[t] \in OwnPC \cup {"load"} => hand[t] \in Batches
         /\ pc[t] = "queue" => far[t] \in Procs
         /\ NoState \in WState /\ NextHead(mw[t].head) \in Slots
         /\ mw[t] \in WState /\ seen[t] \in WState
         /\ pc[t] \in ThiefPC \ {"steal"} => vic[t] \in Threads
         /\ pc[t] \in {"show", "state", "clear", "unset", "take"} => slot[t] \in Slots
         /\ pc[t] = "bit" => Preferred(seen[t]) \in Slots
<1>1. TyQueues /\ TyBatch /\ TyWindow /\ TyLocals /\ CtlOK(t) /\ size \in WindowSizes
  BY Types DEF MInv
<1>2. size \in Nat /\ size >= 1 /\ Slots = 1..size
  BY <1>1, Constants
<1>3. pend[t] \in Batches /\ prio[t] \in {"any", "affine"} /\ curb[t] \in SUBSET Procs
  BY <1>1 DEF TyQueues
<1>4. /\ pc[t] \in OwnPC \cup {"load"} => hand[t] \in Batches
      /\ pc[t] = "queue" => far[t] \in Procs
      /\ pc[t] \in ThiefPC \ {"steal"} => vic[t] \in Threads
  BY <1>1 DEF TyLocals, CtlOK, Far
<1>5. slot[t] \in 0..size /\ seen[t] \in WState /\ mw[t] \in WState
  BY <1>1 DEF TyLocals, TyWindow
<1>6. pc[t] \in {"show", "state", "clear", "unset", "take"} => slot[t] \in Slots
  BY <1>1, <1>2, <1>5 DEF CtlOK
<1>7. mw[t].head \in 0..size
  BY <1>5 DEF WState
<1>8. NoState \in WState /\ NextHead(mw[t].head) \in Slots
  BY <1>2, <1>7 DEF NoState, WState, NextHead
<1>9. pc[t] = "bit" => Preferred(seen[t]) \in Slots
  <2>1. pc[t] = "bit" => Preferred(seen[t]) \in seen[t].bm
    BY <1>1, <1>5, PreferredSlot DEF CtlOK
  <2>2. seen[t].bm \subseteq Slots
    BY <1>5 DEF WState
  <2> QED BY <2>1, <2>2
<1> QED BY <1>3, <1>4, <1>5, <1>6, <1>8, <1>9

\* A window state with one bit cleared, or one set.
LEMMA StateBits ==
  ASSUME NEW s \in WState, NEW w \in Slots, size \in WindowSizes
  PROVE  /\ [s EXCEPT !.bm = @ \ {w}] \in WState /\ [head |-> w, bm |-> s.bm \cup {w}] \in WState
         /\ [s EXCEPT !.bm = @ \ {w}].bm = s.bm \ {w}
<1>1. size \in Nat /\ Slots = 1..size
  BY Constants
<1> QED BY <1>1 DEF WState

\* Run queues and the other lists of threads keep their types.
LEMMA TyQueuesStep ==
  ASSUME MInv, NEW t \in Threads, Event(t), size' = size PROVE TyQueues'
<1>1. TyQueues /\ TyBatch /\ size \in WindowSizes
  BY Types DEF MInv
<1>4. \A p : Kind(p) \in {"any", "affine"}
  BY DEF Kind
<1>5. \A b : PrioOf(b) \in {"any", "affine"}
  BY DEF PrioOf
<1>6. \A b \in Batches : procs[b] \in SUBSET Procs
  BY <1>1 DEF TyBatch
<1>100. ASSUME NEW b \in Batches, NEW L \in SUBSET Batches, NEW ps \in SUBSET Procs, NEW n \in
   {"pick", "save"}, PushFree(t, b, L, ps, n) PROVE TyQueues'
  <2>1. pend[t] \in Batches /\ prio[t] \in {"any", "affine"} /\ curb[t] \in SUBSET Procs
    BY <1>100, Values DEF PushFree, Push, Alloc, OwnPC, ThiefPC, TookPC
  <2> QED BY <1>1, <1>4, <1>5, <1>6, <1>100, <2>1 DEF PushFree, Push, Alloc, Set, To, Upd,
     TyQueues
<1>101. ASSUME NEW b \in Batches, NEW L \in SUBSET Batches, NEW ps \in SUBSET Procs, NEW n \in
   {"pick", "save"}, PushLink(t, b, L, ps, n) PROVE TyQueues'
  <2>1. pend[t] \in Batches /\ prio[t] \in {"any", "affine"} /\ curb[t] \in SUBSET Procs
    BY <1>101, Values DEF PushLink, Push, Alloc, Link, OwnPC, ThiefPC, TookPC
  <2> QED BY <1>1, <1>4, <1>5, <1>6, <1>101, <2>1 DEF PushLink, Push, Alloc, Link, Set, To,
     Upd, TyQueues
<1>102. ASSUME NEW b \in Batches, NEW L \in SUBSET Batches, NEW ps \in SUBSET Procs, NEW n \in
   {"pick", "save"}, PushShow(t, b, L, ps, n) PROVE TyQueues'
  <2>1. pend[t] \in Batches /\ prio[t] \in {"any", "affine"} /\ curb[t] \in SUBSET Procs
    BY <1>102, Values DEF PushShow, Push, Alloc, OwnPC, ThiefPC, TookPC
  <2> QED BY <1>1, <1>4, <1>5, <1>6, <1>102, <2>1 DEF PushShow, Push, Alloc, Set, To, Upd,
     TyQueues
<1>103. CASE ReadState(t)
  BY <1>1, <1>4, <1>5, <1>6, <1>103 DEF ReadState, window, queues, Set, To, Upd, TyQueues
<1>104. CASE Show(t)
  BY <1>1, <1>4, <1>5, <1>6, <1>104 DEF Show, queues, locals, Set, To, Upd, TyQueues
<1>105. CASE Enlist(t)
  BY <1>1, <1>4, <1>5, <1>6, <1>105 DEF Enlist, WriteState, Link, batch, Set, To, Upd,
     TyQueues
<1>106. CASE MarkWork(t)
  BY <1>1, <1>4, <1>5, <1>6, <1>106 DEF MarkWork, batch, queues, Set, To, Upd, TyQueues
<1>107. CASE Block(t)
  BY <1>1, <1>4, <1>5, <1>6, <1>107 DEF Block, batch, window, locals, Set, To, Upd, TyQueues
<1>108. ASSUME NEW p \in Procs, WakeCurb(t, p) PROVE TyQueues'
  BY <1>1, <1>4, <1>5, <1>6, <1>108 DEF WakeCurb, Woken, Set, To, Upd, TyQueues
<1>109. ASSUME NEW p \in Procs, WakePend(t, p) PROVE TyQueues'
  <2>1. pend[t] \in Batches
    BY <1>109, Values DEF WakePend, Woken, OwnPC, ThiefPC, TookPC
  <2> QED BY <1>1, <1>4, <1>5, <1>6, <1>109, <2>1 DEF WakePend, Woken, Set, To, Upd, TyQueues
<1>110. ASSUME NEW p \in Procs, WakeFar(t, p) PROVE TyQueues'
  BY <1>1, <1>4, <1>5, <1>6, <1>110 DEF WakeFar, Woken, Set, To, Upd, TyQueues
<1>111. ASSUME NEW p \in Procs, NEW b \in Batches, NEW L \in SUBSET Batches, WakeNew(t, p, b,
   L) PROVE TyQueues'
  BY <1>1, <1>4, <1>5, <1>6, <1>111 DEF WakeNew, Woken, Alloc, Link, Set, To, Upd, TyQueues
<1>112. ASSUME NEW b \in Batches, NEW L \in SUBSET Batches, NewFar(t, b, L) PROVE TyQueues'
  <2>1. far[t] \in Procs
    BY <1>112, Values DEF NewFar, Alloc, OwnPC, ThiefPC, TookPC
  <2> QED BY <1>1, <1>4, <1>5, <1>6, <1>112, <2>1 DEF NewFar, Alloc, Set, To, Upd, TyQueues
<1>113. ASSUME NEW b \in Batches, NEW L \in SUBSET Batches, LoadPending(t, b, L) PROVE
   TyQueues'
  <2>1. pend[t] \in Batches
    BY <1>113, Values DEF LoadPending, Load, Alloc, OwnPC, ThiefPC, TookPC
  <2> QED BY <1>1, <1>4, <1>5, <1>6, <1>113, <2>1 DEF LoadPending, Load, Alloc, Set, To, Upd,
     TyQueues
<1>114. ASSUME NEW b \in Batches, PullOwn(t, b) PROVE TyQueues'
  <2>1. pend[t] \in Batches
    BY <1>114, Values DEF PullOwn, Load, Unlink, OwnPC, ThiefPC, TookPC
  <2> QED BY <1>1, <1>4, <1>5, <1>6, <1>114, <2>1 DEF PullOwn, Load, Unlink, Set, To, Upd,
     TyQueues
<1>115. ASSUME NEW b \in Batches, PullShown(t, b) PROVE TyQueues'
  BY <1>1, <1>4, <1>5, <1>6, <1>115 DEF PullShown, Unlink, Set, To, Upd, TyQueues
<1>116. ASSUME NEW b \in Batches, PullTaken(t, b) PROVE TyQueues'
  BY <1>1, <1>4, <1>5, <1>6, <1>116 DEF PullTaken, Unlink, Set, To, Upd, TyQueues
<1>117. CASE ClearRead(t)
  BY <1>1, <1>4, <1>5, <1>6, <1>117 DEF ClearRead, batch, window, queues, Set, To, Upd,
     TyQueues
<1>118. CASE LoadCleared(t)
  <2>1. hand[t] \in Batches
    BY <1>118, Values DEF LoadCleared, Load, OwnPC, ThiefPC, TookPC
  <2> QED BY <1>1, <1>4, <1>5, <1>6, <1>118, <2>1 DEF LoadCleared, Load, Set, To, Upd,
     TyQueues
<1>119. ASSUME NEW keep \in SUBSET Batches, Wash(t, keep) PROVE TyQueues'
  BY <1>1, <1>4, <1>5, <1>6, <1>119 DEF Wash, Set, To, Upd, TyQueues
<1>120. CASE Visit(t)
  BY <1>1, <1>4, <1>5, <1>6, <1>120 DEF Visit, Set, To, Upd, TyQueues, PickNothing, Choose,
     Look, ClearBit, Gone, Hide, batch, window, queues, locals, Found
<1>121. CASE Take(t)
  BY <1>1, <1>4, <1>5, <1>6, <1>121 DEF Take, batch, queues, Set, To, Upd, TyQueues
<1>122. CASE LoadRemote(t)
  <2>1. hand[t] \in Batches
    BY <1>122, Values DEF LoadRemote
  <2>2. curb' = Upd(curb, t, procs[hand[t]]) /\ prio' = Upd(prio, t, PrioOf(hand[t]))
    BY <1>122 DEF LoadRemote, Set, Upd, PrioOf
  <2> QED BY <1>1, <1>4, <1>5, <1>6, <1>122, <2>1, <2>2 DEF LoadRemote, Upd, TyQueues
<1> QED BY <1>100, <1>101, <1>102, <1>103, <1>104, <1>105, <1>106, <1>107, <1>108, <1>109,
   <1>110, <1>111, <1>112, <1>113, <1>114, <1>115, <1>116, <1>117, <1>118, <1>119, <1>120,
   <1>121, <1>122 DEF Event

\* Batches keep their types.
LEMMA TyBatchStep ==
  ASSUME MInv, NEW t \in Threads, Event(t), size' = size PROVE TyBatch'
<1>1. TyBatch /\ size \in WindowSizes
  BY Types DEF MInv
<1>2. /\ size \in Nat /\ size >= 1 /\ Slots = 1..size
      /\ 0 \in 0..size /\ Slots \subseteq 0..size /\ 0 \notin Slots
  BY <1>1, Constants
<1>3. Slots' = Slots /\ WState' = WState
  BY DEF Slots, WState
<1>4. \A p : Kind(p) \in {"any", "affine"}
  BY DEF Kind
<1>5. \A b : PrioOf(b) \in {"any", "affine"}
  BY DEF PrioOf
<1>6. \A b \in Batches : procs[b] \in SUBSET Procs
  BY <1>1 DEF TyBatch
<1>100. ASSUME NEW b \in Batches, NEW L \in SUBSET Batches, NEW ps \in SUBSET Procs, NEW n \in
   {"pick", "save"}, PushFree(t, b, L, ps, n) PROVE TyBatch'
  BY <1>1, <1>2, <1>3, <1>4, <1>5, <1>6, <1>100 DEF PushFree, Push, Alloc, Set, Upd, TyBatch
<1>101. ASSUME NEW b \in Batches, NEW L \in SUBSET Batches, NEW ps \in SUBSET Procs, NEW n \in
   {"pick", "save"}, PushLink(t, b, L, ps, n) PROVE TyBatch'
  BY <1>1, <1>2, <1>3, <1>4, <1>5, <1>6, <1>101 DEF PushLink, Push, Alloc, Link, Set, Upd,
     TyBatch
<1>102. ASSUME NEW b \in Batches, NEW L \in SUBSET Batches, NEW ps \in SUBSET Procs, NEW n \in
   {"pick", "save"}, PushShow(t, b, L, ps, n) PROVE TyBatch'
  BY <1>1, <1>2, <1>3, <1>4, <1>5, <1>6, <1>102 DEF PushShow, Push, Alloc, Set, Upd, TyBatch
<1>103. CASE ReadState(t)
  <2>1. hand[t] \in Batches /\ NextHead(mw[t].head) \in Slots
    BY <1>103, Values DEF ReadState, window, queues, OwnPC, ThiefPC, TookPC
  <2> QED BY <1>1, <1>2, <1>3, <1>4, <1>5, <1>6, <1>103, <2>1 DEF ReadState, window, queues,
     Set, Upd, TyBatch
<1>104. CASE Show(t)
  BY <1>1, <1>2, <1>3, <1>4, <1>5, <1>6, <1>104 DEF Show, queues, locals, Set, Upd, TyBatch
<1>105. CASE Enlist(t)
  BY <1>1, <1>2, <1>3, <1>4, <1>5, <1>6, <1>105 DEF Enlist, WriteState, Link, batch, Set, Upd,
     TyBatch
<1>106. CASE MarkWork(t)
  BY <1>1, <1>2, <1>3, <1>4, <1>5, <1>6, <1>106 DEF MarkWork, batch, queues, Set, Upd, TyBatch
<1>107. CASE Block(t)
  BY <1>1, <1>2, <1>3, <1>4, <1>5, <1>6, <1>107 DEF Block, batch, window, locals, Set, Upd,
     TyBatch
<1>108. ASSUME NEW p \in Procs, WakeCurb(t, p) PROVE TyBatch'
  BY <1>1, <1>2, <1>3, <1>4, <1>5, <1>6, <1>108 DEF WakeCurb, Woken, Set, Upd, TyBatch
<1>109. ASSUME NEW p \in Procs, WakePend(t, p) PROVE TyBatch'
  BY <1>1, <1>2, <1>3, <1>4, <1>5, <1>6, <1>109 DEF WakePend, Woken, Set, Upd, TyBatch
<1>110. ASSUME NEW p \in Procs, WakeFar(t, p) PROVE TyBatch'
  BY <1>1, <1>2, <1>3, <1>4, <1>5, <1>6, <1>110 DEF WakeFar, Woken, Set, Upd, TyBatch
<1>111. ASSUME NEW p \in Procs, NEW b \in Batches, NEW L \in SUBSET Batches, WakeNew(t, p, b,
   L) PROVE TyBatch'
  BY <1>1, <1>2, <1>3, <1>4, <1>5, <1>6, <1>111 DEF WakeNew, Woken, Alloc, Link, Set, Upd,
     TyBatch
<1>112. ASSUME NEW b \in Batches, NEW L \in SUBSET Batches, NewFar(t, b, L) PROVE TyBatch'
  <2>1. far[t] \in Procs
    BY <1>112, Values DEF NewFar, Alloc, OwnPC, ThiefPC, TookPC
  <2> QED BY <1>1, <1>2, <1>3, <1>4, <1>5, <1>6, <1>112, <2>1 DEF NewFar, Alloc, Set, Upd,
     TyBatch
<1>113. ASSUME NEW b \in Batches, NEW L \in SUBSET Batches, LoadPending(t, b, L) PROVE
   TyBatch'
  BY <1>1, <1>2, <1>3, <1>4, <1>5, <1>6, <1>113 DEF LoadPending, Load, Alloc, Set, Upd,
     TyBatch
<1>114. ASSUME NEW b \in Batches, PullOwn(t, b) PROVE TyBatch'
  BY <1>1, <1>2, <1>3, <1>4, <1>5, <1>6, <1>114 DEF PullOwn, Load, Unlink, Set, Upd, TyBatch
<1>115. ASSUME NEW b \in Batches, PullShown(t, b) PROVE TyBatch'
  BY <1>1, <1>2, <1>3, <1>4, <1>5, <1>6, <1>115 DEF PullShown, Unlink, Set, Upd, TyBatch
<1>116. ASSUME NEW b \in Batches, PullTaken(t, b) PROVE TyBatch'
  BY <1>1, <1>2, <1>3, <1>4, <1>5, <1>6, <1>116 DEF PullTaken, Unlink, Set, Upd, TyBatch
<1>117. CASE ClearRead(t)
  BY <1>1, <1>2, <1>3, <1>4, <1>5, <1>6, <1>117 DEF ClearRead, batch, window, queues, Set,
     Upd, TyBatch
<1>118. CASE LoadCleared(t)
  BY <1>1, <1>2, <1>3, <1>4, <1>5, <1>6, <1>118 DEF LoadCleared, Load, Set, Upd, TyBatch
<1>119. ASSUME NEW keep \in SUBSET Batches, Wash(t, keep) PROVE TyBatch'
  <2>1. mem' \subseteq Batches
    <3>1. TyQueues
      BY Types DEF MInv
    <3>2. free[t] \subseteq Batches /\ laundry[t] \subseteq Batches /\ mem \subseteq Batches
      BY <1>1, <3>1 DEF TyQueues, TyBatch
    <3> QED BY <3>2, <1>119 DEF Wash
  <2> QED BY <1>1, <1>2, <1>3, <1>4, <1>5, <1>6, <1>119, <2>1 DEF Wash, TyBatch
<1>120. CASE Visit(t)
  BY <1>1, <1>2, <1>3, <1>4, <1>5, <1>6, <1>120 DEF Visit, Set, Upd, TyBatch, PickNothing,
     Choose, Look, ClearBit, Gone, Hide, batch, window, queues, locals, Found
<1>121. CASE Take(t)
  BY <1>1, <1>2, <1>3, <1>4, <1>5, <1>6, <1>121 DEF Take, batch, queues, Set, Upd, TyBatch
<1>122. CASE LoadRemote(t)
  BY <1>1, <1>2, <1>3, <1>4, <1>5, <1>6, <1>122 DEF LoadRemote, window, Set, Upd, TyBatch
<1> QED BY <1>100, <1>101, <1>102, <1>103, <1>104, <1>105, <1>106, <1>107, <1>108, <1>109,
   <1>110, <1>111, <1>112, <1>113, <1>114, <1>115, <1>116, <1>117, <1>118, <1>119, <1>120,
   <1>121, <1>122 DEF Event

\* Windows and their states keep their types.
LEMMA TyWindowStep ==
  ASSUME MInv, NEW t \in Threads, Event(t), size' = size PROVE TyWindow'
<1>1. TyWindow /\ TyBatch /\ size \in WindowSizes
  BY Types DEF MInv
<1>2. /\ size \in Nat /\ size >= 1 /\ Slots = 1..size
      /\ 0 \in 0..size /\ Slots \subseteq 0..size /\ 0 \notin Slots
  BY <1>1, Constants
<1>3. Slots' = Slots /\ WState' = WState
  BY DEF Slots, WState
<1>4. \A p : Kind(p) \in {"any", "affine"}
  BY DEF Kind
<1>5. \A b : PrioOf(b) \in {"any", "affine"}
  BY DEF PrioOf
<1>6. \A b \in Batches : procs[b] \in SUBSET Procs
  BY <1>1 DEF TyBatch
<1>100. ASSUME NEW b \in Batches, NEW L \in SUBSET Batches, NEW ps \in SUBSET Procs, NEW n \in
   {"pick", "save"}, PushFree(t, b, L, ps, n) PROVE TyWindow'
  BY <1>1, <1>2, <1>3, <1>4, <1>5, <1>6, <1>100 DEF PushFree, Push, Alloc, Set, Upd, TyWindow
<1>101. ASSUME NEW b \in Batches, NEW L \in SUBSET Batches, NEW ps \in SUBSET Procs, NEW n \in
   {"pick", "save"}, PushLink(t, b, L, ps, n) PROVE TyWindow'
  BY <1>1, <1>2, <1>3, <1>4, <1>5, <1>6, <1>101 DEF PushLink, Push, Alloc, Link, Set, Upd,
     TyWindow
<1>102. ASSUME NEW b \in Batches, NEW L \in SUBSET Batches, NEW ps \in SUBSET Procs, NEW n \in
   {"pick", "save"}, PushShow(t, b, L, ps, n) PROVE TyWindow'
  BY <1>1, <1>2, <1>3, <1>4, <1>5, <1>6, <1>102 DEF PushShow, Push, Alloc, Set, Upd, TyWindow
<1>103. CASE ReadState(t)
  BY <1>1, <1>2, <1>3, <1>4, <1>5, <1>6, <1>103 DEF ReadState, window, queues, Set, Upd,
     TyWindow
<1>104. CASE Show(t)
  <2>1. hand[t] \in Batches /\ slot[t] \in Slots
    BY <1>104, Values DEF Show, queues, locals, OwnPC, ThiefPC, TookPC
  <2> QED BY <1>1, <1>2, <1>3, <1>4, <1>5, <1>6, <1>104, <2>1 DEF Show, queues, locals, Set,
     Upd, TyWindow
<1>105. CASE Enlist(t)
  <2>1. slot[t] \in Slots /\ seen[t] \in WState
    BY <1>105, Values DEF Enlist, WriteState
  <2>2. [head |-> slot[t], bm |-> seen[t].bm \cup {slot[t]}] \in WState
    BY <1>1, <2>1, StateBits
  <2> QED BY <1>1, <1>2, <1>3, <1>4, <1>5, <1>6, <1>105, <2>2 DEF Enlist, WriteState, Set, TyWindow
<1>106. CASE MarkWork(t)
  BY <1>1, <1>2, <1>3, <1>4, <1>5, <1>6, <1>106 DEF MarkWork, batch, queues, Set, Upd,
     TyWindow
<1>107. CASE Block(t)
  BY <1>1, <1>2, <1>3, <1>4, <1>5, <1>6, <1>107 DEF Block, batch, window, locals, Set, Upd,
     TyWindow
<1>108. ASSUME NEW p \in Procs, WakeCurb(t, p) PROVE TyWindow'
  BY <1>1, <1>2, <1>3, <1>4, <1>5, <1>6, <1>108 DEF WakeCurb, Woken, Set, Upd, TyWindow
<1>109. ASSUME NEW p \in Procs, WakePend(t, p) PROVE TyWindow'
  BY <1>1, <1>2, <1>3, <1>4, <1>5, <1>6, <1>109 DEF WakePend, Woken, Set, Upd, TyWindow
<1>110. ASSUME NEW p \in Procs, WakeFar(t, p) PROVE TyWindow'
  BY <1>1, <1>2, <1>3, <1>4, <1>5, <1>6, <1>110 DEF WakeFar, Woken, Set, Upd, TyWindow
<1>111. ASSUME NEW p \in Procs, NEW b \in Batches, NEW L \in SUBSET Batches, WakeNew(t, p, b,
   L) PROVE TyWindow'
  BY <1>1, <1>2, <1>3, <1>4, <1>5, <1>6, <1>111 DEF WakeNew, Woken, Alloc, Link, Set, Upd,
     TyWindow
<1>112. ASSUME NEW b \in Batches, NEW L \in SUBSET Batches, NewFar(t, b, L) PROVE TyWindow'
  <2>1. far[t] \in Procs
    BY <1>112, Values DEF NewFar, Alloc, OwnPC, ThiefPC, TookPC
  <2> QED BY <1>1, <1>2, <1>3, <1>4, <1>5, <1>6, <1>112, <2>1 DEF NewFar, Alloc, Set, Upd,
     TyWindow
<1>113. ASSUME NEW b \in Batches, NEW L \in SUBSET Batches, LoadPending(t, b, L) PROVE
   TyWindow'
  BY <1>1, <1>2, <1>3, <1>4, <1>5, <1>6, <1>113 DEF LoadPending, Load, Alloc, Set, Upd,
     TyWindow
<1>114. ASSUME NEW b \in Batches, PullOwn(t, b) PROVE TyWindow'
  BY <1>1, <1>2, <1>3, <1>4, <1>5, <1>6, <1>114 DEF PullOwn, Load, Unlink, Set, Upd, TyWindow
<1>115. ASSUME NEW b \in Batches, PullShown(t, b) PROVE TyWindow'
  BY <1>1, <1>2, <1>3, <1>4, <1>5, <1>6, <1>115 DEF PullShown, Unlink, Set, Upd, TyWindow
<1>116. ASSUME NEW b \in Batches, PullTaken(t, b) PROVE TyWindow'
  BY <1>1, <1>2, <1>3, <1>4, <1>5, <1>6, <1>116 DEF PullTaken, Unlink, Set, Upd, TyWindow
<1>117. CASE ClearRead(t)
  BY <1>1, <1>2, <1>3, <1>4, <1>5, <1>6, <1>117 DEF ClearRead, batch, window, queues, Set,
     Upd, TyWindow
<1>118. CASE LoadCleared(t)
  <2>1. slot[t] \in Slots /\ seen[t] \in WState
    BY <1>118, Values DEF LoadCleared
  <2>2. [seen[t] EXCEPT !.bm = @ \ {slot[t]}] \in WState
    BY <1>1, <2>1, StateBits
  <2> QED BY <1>1, <1>2, <1>3, <1>4, <1>5, <1>6, <1>118, <2>2 DEF LoadCleared, Upd, TyWindow
<1>119. ASSUME NEW keep \in SUBSET Batches, Wash(t, keep) PROVE TyWindow'
  BY <1>1, <1>2, <1>3, <1>4, <1>5, <1>6, <1>119 DEF Wash, Set, Upd, TyWindow
<1>120. CASE Visit(t)
  <2>1. CASE ClearBit(t)
    <3> DEFINE w == Preferred(seen[t])
    <3>1. w \in Slots /\ vic[t] \in Threads
      BY <2>1, Values DEF ClearBit, ThiefPC, TookPC
    <3>2. mw' = [mw EXCEPT ![vic[t]].bm = @ \ {w}] /\ UNCHANGED <<data, mwstate>>
      BY <2>1 DEF ClearBit
    <3> HIDE DEF w
    <3>3. mw[vic[t]] \in WState
      BY <1>1, <3>1 DEF TyWindow
    <3>4. [mw[vic[t]] EXCEPT !.bm = @ \ {w}] \in WState
      BY <1>1, <3>1, <3>3, StateBits
    <3> QED BY <1>1, <1>3, <3>1, <3>2, <3>4 DEF TyWindow
  <2>2. CASE PickNothing(t) \/ Choose(t) \/ Look(t) \/ Gone(t) \/ Hide(t)
    BY <1>1, <1>2, <1>3, <1>4, <1>5, <1>6, <1>120, <2>2 DEF TyWindow, PickNothing, Choose, Look,
       Gone, Hide, Set, window
  <2> QED BY <2>1, <2>2, <1>120 DEF Visit
<1>121. CASE Take(t)
  BY <1>1, <1>2, <1>3, <1>4, <1>5, <1>6, <1>121 DEF Take, batch, queues, Set, Upd, TyWindow
<1>122. CASE LoadRemote(t)
  BY <1>1, <1>2, <1>3, <1>4, <1>5, <1>6, <1>122 DEF LoadRemote, window, Set, Upd, TyWindow
<1> QED BY <1>100, <1>101, <1>102, <1>103, <1>104, <1>105, <1>106, <1>107, <1>108, <1>109,
   <1>110, <1>111, <1>112, <1>113, <1>114, <1>115, <1>116, <1>117, <1>118, <1>119, <1>120,
   <1>121, <1>122 DEF Event

\* The locals of threads keep their types.
LEMMA TyLocalsStep ==
  ASSUME MInv, NEW t \in Threads, Event(t), size' = size PROVE TyLocals'
<1>1. TyLocals /\ TyBatch /\ size \in WindowSizes
  BY Types DEF MInv
<1>2. /\ size \in Nat /\ size >= 1 /\ Slots = 1..size
      /\ 0 \in 0..size /\ Slots \subseteq 0..size /\ 0 \notin Slots
  BY <1>1, Constants
<1>3. Slots' = Slots /\ WState' = WState
  BY DEF Slots, WState
<1>4. \A p : Kind(p) \in {"any", "affine"}
  BY DEF Kind
<1>5. \A b : PrioOf(b) \in {"any", "affine"}
  BY DEF PrioOf
<1>6. \A b \in Batches : procs[b] \in SUBSET Procs
  BY <1>1 DEF TyBatch
<1>100. ASSUME NEW b \in Batches, NEW L \in SUBSET Batches, NEW ps \in SUBSET Procs, NEW n \in
   {"pick", "save"}, PushFree(t, b, L, ps, n) PROVE TyLocals'
  BY <1>1, <1>2, <1>3, <1>4, <1>5, <1>6, <1>100 DEF PushFree, Push, Alloc, Set, To, Upd, PCs,
     TyLocals
<1>101. ASSUME NEW b \in Batches, NEW L \in SUBSET Batches, NEW ps \in SUBSET Procs, NEW n \in
   {"pick", "save"}, PushLink(t, b, L, ps, n) PROVE TyLocals'
  BY <1>1, <1>2, <1>3, <1>4, <1>5, <1>6, <1>101 DEF PushLink, Push, Alloc, Link, Set, To, Upd,
     PCs, TyLocals
<1>102. ASSUME NEW b \in Batches, NEW L \in SUBSET Batches, NEW ps \in SUBSET Procs, NEW n \in
   {"pick", "save"}, PushShow(t, b, L, ps, n) PROVE TyLocals'
  <2>1. pend[t] \in Batches
    BY <1>102, Values DEF PushShow, Push, Alloc, OwnPC, ThiefPC, TookPC
  <2> QED BY <1>1, <1>2, <1>3, <1>4, <1>5, <1>6, <1>102, <2>1 DEF PushShow, Push, Alloc, Set,
     To, Upd, PCs, TyLocals
<1>103. CASE ReadState(t)
  <2>1. mw[t] \in WState /\ NextHead(mw[t].head) \in Slots
    BY <1>103, Values DEF ReadState, window, queues, OwnPC, ThiefPC, TookPC
  <2> QED BY <1>1, <1>2, <1>3, <1>4, <1>5, <1>6, <1>103, <2>1 DEF ReadState, window, queues,
     Set, To, Upd, PCs, TyLocals
<1>104. CASE Show(t)
  BY <1>1, <1>2, <1>3, <1>4, <1>5, <1>6, <1>104 DEF Show, queues, locals, Set, To, Upd, PCs,
     TyLocals
<1>105. CASE Enlist(t)
  <2>1. NoState \in WState
    BY <1>105, Values DEF Enlist, WriteState, Link, batch, OwnPC, ThiefPC, TookPC
  <2> QED BY <1>1, <1>2, <1>3, <1>4, <1>5, <1>6, <1>105, <2>1 DEF Enlist, WriteState, Link,
     batch, Set, To, Upd, PCs, TyLocals
<1>106. CASE MarkWork(t)
  BY <1>1, <1>2, <1>3, <1>4, <1>5, <1>6, <1>106 DEF MarkWork, batch, queues, Set, To, Upd,
     PCs, TyLocals
<1>107. CASE Block(t)
  BY <1>1, <1>2, <1>3, <1>4, <1>5, <1>6, <1>107 DEF Block, batch, window, locals, Set, To,
     Upd, PCs, TyLocals
<1>108. ASSUME NEW p \in Procs, WakeCurb(t, p) PROVE TyLocals'
  BY <1>1, <1>2, <1>3, <1>4, <1>5, <1>6, <1>108 DEF WakeCurb, Woken, Set, To, Upd, PCs,
     TyLocals
<1>109. ASSUME NEW p \in Procs, WakePend(t, p) PROVE TyLocals'
  BY <1>1, <1>2, <1>3, <1>4, <1>5, <1>6, <1>109 DEF WakePend, Woken, Set, To, Upd, PCs,
     TyLocals
<1>110. ASSUME NEW p \in Procs, WakeFar(t, p) PROVE TyLocals'
  <2>1. pend[t] \in Batches
    BY <1>110, Values DEF WakeFar, Woken, OwnPC, ThiefPC, TookPC
  <2> QED BY <1>1, <1>2, <1>3, <1>4, <1>5, <1>6, <1>110, <2>1 DEF WakeFar, Woken, Set, To,
     Upd, PCs, TyLocals
<1>111. ASSUME NEW p \in Procs, NEW b \in Batches, NEW L \in SUBSET Batches, WakeNew(t, p, b,
   L) PROVE TyLocals'
  BY <1>1, <1>2, <1>3, <1>4, <1>5, <1>6, <1>111 DEF WakeNew, Woken, Alloc, Link, Set, To, Upd,
     PCs, TyLocals
<1>112. ASSUME NEW b \in Batches, NEW L \in SUBSET Batches, NewFar(t, b, L) PROVE TyLocals'
  <2>1. far[t] \in Procs
    BY <1>112, Values DEF NewFar, Alloc, OwnPC, ThiefPC, TookPC
  <2> QED BY <1>1, <1>2, <1>3, <1>4, <1>5, <1>6, <1>112, <2>1 DEF NewFar, Alloc, Set, To, Upd,
     PCs, TyLocals
<1>113. ASSUME NEW b \in Batches, NEW L \in SUBSET Batches, LoadPending(t, b, L) PROVE
   TyLocals'
  BY <1>1, <1>2, <1>3, <1>4, <1>5, <1>6, <1>113 DEF LoadPending, Load, Alloc, Set, To, Upd,
     PCs, TyLocals
<1>114. ASSUME NEW b \in Batches, PullOwn(t, b) PROVE TyLocals'
  BY <1>1, <1>2, <1>3, <1>4, <1>5, <1>6, <1>114 DEF PullOwn, Load, Unlink, Set, To, Upd, PCs,
     TyLocals
<1>115. ASSUME NEW b \in Batches, PullShown(t, b) PROVE TyLocals'
  <2>1. win[b] \in 0..size
    BY <1>1, <1>115 DEF TyBatch
  <2> QED BY <1>1, <1>2, <1>3, <1>4, <1>5, <1>6, <1>115, <2>1 DEF PullShown, Unlink, Set, To,
     Upd, PCs, TyLocals
<1>116. ASSUME NEW b \in Batches, PullTaken(t, b) PROVE TyLocals'
  BY <1>1, <1>2, <1>3, <1>4, <1>5, <1>6, <1>116 DEF PullTaken, Unlink, Set, To, Upd, PCs,
     TyLocals
<1>117. CASE ClearRead(t)
  <2>1. mw[t] \in WState
    BY <1>117, Values DEF ClearRead, batch, window, queues, OwnPC, ThiefPC, TookPC
  <2> QED BY <1>1, <1>2, <1>3, <1>4, <1>5, <1>6, <1>117, <2>1 DEF ClearRead, batch, window,
     queues, Set, To, Upd, PCs, TyLocals
<1>118. CASE LoadCleared(t)
  <2>1. NoState \in WState
    BY <1>118, Values DEF LoadCleared, Load, OwnPC, ThiefPC, TookPC
  <2> QED BY <1>1, <1>2, <1>3, <1>4, <1>5, <1>6, <1>118, <2>1 DEF LoadCleared, Load, Set, To,
     Upd, PCs, TyLocals
<1>119. ASSUME NEW keep \in SUBSET Batches, Wash(t, keep) PROVE TyLocals'
  BY <1>1, <1>2, <1>3, <1>4, <1>5, <1>6, <1>119 DEF Wash, Set, To, Upd, PCs, TyLocals
<1>120. CASE Visit(t)
  <2>1. CASE Look(t)
    <3>1. vic[t] \in Threads
      BY <2>1, Values DEF Look, ThiefPC, TookPC
    <3>2. mw[vic[t]] \in WState
      <4>1. TyWindow
        BY Types DEF MInv
      <4> QED BY <3>1, <4>1 DEF TyWindow
    <3> QED BY <1>1, <1>2, <1>3, <1>4, <1>5, <1>6, <1>120, <2>1, <3>2
           DEF Look, Set, To, PCs, TyLocals
  <2>2. CASE ClearBit(t)
    <3>1. Preferred(seen[t]) \in Slots
      BY <2>2, Values DEF ClearBit
    <3> QED BY <1>1, <1>2, <1>3, <1>4, <1>5, <1>6, <1>120, <2>2, <3>1 DEF ClearBit, Set, To, PCs,
           TyLocals
  <2>3. CASE PickNothing(t) \/ Choose(t)
    <3>1. /\ UNCHANGED <<cont, hand, far, seen, slot>>
          /\ vic' = vic \/ \E v \in Threads : vic' = Upd(vic, t, v)
          /\ pc' = Upd(pc, t, "steal") \/ pc' = Upd(pc, t, "look")
      BY <2>3 DEF PickNothing, Choose, Set, To, Upd, locals
    <3>2. /\ vic' \in [Threads -> Threads \cup {None}]
          /\ pc' \in [Threads -> PCs]
      BY <1>1, <3>1 DEF Upd, PCs, TyLocals
    <3> QED BY <1>1, <1>3, <3>1, <3>2 DEF TyLocals, PCs
  <2>4. CASE Gone(t) \/ Hide(t)
    <3>1. NoState \in WState
      BY Values
    <3>2. /\ UNCHANGED <<cont, hand, far, slot>> /\ (seen' = Upd(seen, t, NoState) \/ seen' = seen)
          /\ (vic' = vic \/ vic' = Upd(vic, t, None))
      BY <2>4 DEF Gone, Hide, Found, Set, Upd
    <3>3. pc' = Upd(pc, t, "steal") \/ pc' = Upd(pc, t, "load") \/ pc' = Upd(pc, t, "hide")
      BY <2>4 DEF Gone, Hide, Found, Set, To, Upd
    <3>4. pc \in [Threads -> PCs] /\ seen \in [Threads -> WState]
             /\ vic \in [Threads -> Threads \cup {None}]
      BY <1>1 DEF TyLocals
    <3>5. pc' \in [Threads -> PCs]
      BY <3>3, <3>4 DEF Upd, PCs
    <3>6. seen' \in [Threads -> WState'] /\ vic' \in [Threads -> Threads \cup {None}]
      BY <1>3, <3>1, <3>2, <3>4 DEF Upd
    <3> QED BY <1>1, <3>2, <3>5, <3>6 DEF TyLocals
  <2> QED BY <2>1, <2>2, <2>3, <2>4, <1>120 DEF Visit
<1>121. CASE Take(t)
  <2>1. slot[t] \in Slots /\ vic[t] \in Threads /\ seen[t] \in WState
    BY <1>121, Values DEF Take, ThiefPC, TookPC
  <2>2. data[vic[t]][slot[t]] \in Batches \cup {None}
    <3>1. TyWindow
      BY Types DEF MInv
    <3> QED BY <2>1, <3>1 DEF TyWindow
  <2>3. [seen[t] EXCEPT !.bm = @ \ {slot[t]}] \in WState
    BY <1>1, <2>1, StateBits
  <2>4. seen' = [seen EXCEPT ![t] = [seen[t] EXCEPT !.bm = @ \ {slot[t]}]]
    <3>1. seen' = [seen EXCEPT ![t].bm = seen[t].bm \ {slot[t]}]
      BY <1>121 DEF Take
    <3> QED BY <1>1, <3>1 DEF TyLocals
  <2>5. /\ hand' = Upd(hand, t, data[vic[t]][slot[t]]) /\ slot' = Upd(slot, t, 0)
        /\ UNCHANGED <<cont, far, vic>>
        /\ pc' = Upd(pc, t, "bit") \/ pc' = Upd(pc, t, "gone")
    BY <1>121 DEF Take, Set, To, Upd
  <2> QED BY <1>1, <1>2, <1>3, <1>4, <1>5, <1>6, <1>121, <2>2, <2>3, <2>4, <2>5
         DEF Upd, PCs, TyLocals
<1>122. CASE LoadRemote(t)
  BY <1>1, <1>2, <1>3, <1>4, <1>5, <1>6, <1>122 DEF LoadRemote, window, Set, To, Upd, PCs,
     TyLocals
<1> QED BY <1>100, <1>101, <1>102, <1>103, <1>104, <1>105, <1>106, <1>107, <1>108, <1>109,
   <1>110, <1>111, <1>112, <1>113, <1>114, <1>115, <1>116, <1>117, <1>118, <1>119, <1>120,
   <1>121, <1>122 DEF Event

\* A step keeps the type invariant.
LEMMA TypeStep ==
  ASSUME MInv, NEW t \in Threads, Event(t), size' = size PROVE TypeOK'
<1>1. TyQueues' /\ TyBatch' /\ TyWindow' /\ TyLocals'
  BY TyQueuesStep, TyBatchStep, TyWindowStep, TyLocalsStep
<1>2. size' \in WindowSizes
  BY Types DEF MInv
<1> QED BY <1>1, <1>2 DEF TypeOK, TyQueues, TyBatch, TyWindow, TyLocals, PCs

-----------------------------------------------------------------------------
(* What a step of one thread leaves alone.                                 *)

\* The lists and the place of the other threads.
SameLists(u) == /\ curb'[u] = curb[u] /\ prio'[u] = prio[u] /\ rq'[u] = rq[u] /\ pend'[u] = pend[u]
                /\ pprio'[u] = pprio[u] /\ free'[u] = free[u] /\ laundry'[u] = laundry[u]
SamePlace(u) == /\ pc'[u] = pc[u] /\ cont'[u] = cont[u] /\ hand'[u] = hand[u] /\ far'[u] = far[u]
                /\ seen'[u] = seen[u] /\ slot'[u] = slot[u] /\ vic'[u] = vic[u]

\* A step of one thread leaves the lists of the others alone.
LEMMA SameListsStep ==
  ASSUME MInv, NEW t \in Threads, Event(t), NEW u \in Threads, u # t PROVE SameLists(u)
<1>1. TyQueues
  BY Types DEF MInv
<1>2. DOMAIN curb = Threads /\ DOMAIN prio = Threads /\ DOMAIN rq = Threads /\ DOMAIN pend = Threads
      /\ DOMAIN pprio = Threads /\ DOMAIN free = Threads /\ DOMAIN laundry = Threads
  BY <1>1 DEF TyQueues
<1>100. ASSUME NEW b \in Batches, NEW L \in SUBSET Batches, NEW ps \in SUBSET Procs, NEW n \in
   {"pick", "save"}, PushFree(t, b, L, ps, n) PROVE SameLists(u)
  BY <1>2, <1>100 DEF PushFree, Push, Alloc, Set, To, Upd, SameLists
<1>101. ASSUME NEW b \in Batches, NEW L \in SUBSET Batches, NEW ps \in SUBSET Procs, NEW n \in
   {"pick", "save"}, PushLink(t, b, L, ps, n) PROVE SameLists(u)
  BY <1>2, <1>101 DEF PushLink, Push, Alloc, Link, Set, To, Upd, SameLists
<1>102. ASSUME NEW b \in Batches, NEW L \in SUBSET Batches, NEW ps \in SUBSET Procs, NEW n \in
   {"pick", "save"}, PushShow(t, b, L, ps, n) PROVE SameLists(u)
  BY <1>2, <1>102 DEF PushShow, Push, Alloc, Set, To, Upd, SameLists
<1>103. CASE ReadState(t)
  BY <1>2, <1>103 DEF ReadState, window, queues, Set, To, Upd, SameLists
<1>104. CASE Show(t)
  BY <1>2, <1>104 DEF Show, queues, locals, Set, To, Upd, SameLists
<1>105. CASE Enlist(t)
  BY <1>2, <1>105 DEF Enlist, WriteState, Link, batch, Set, To, Upd, SameLists
<1>106. CASE MarkWork(t)
  BY <1>2, <1>106 DEF MarkWork, batch, queues, Set, To, Upd, SameLists
<1>107. CASE Block(t)
  BY <1>2, <1>107 DEF Block, batch, window, locals, Set, To, Upd, SameLists
<1>108. ASSUME NEW p \in Procs, WakeCurb(t, p) PROVE SameLists(u)
  BY <1>2, <1>108 DEF WakeCurb, Woken, Set, To, Upd, SameLists
<1>109. ASSUME NEW p \in Procs, WakePend(t, p) PROVE SameLists(u)
  BY <1>2, <1>109 DEF WakePend, Woken, Set, To, Upd, SameLists
<1>110. ASSUME NEW p \in Procs, WakeFar(t, p) PROVE SameLists(u)
  BY <1>2, <1>110 DEF WakeFar, Woken, Set, To, Upd, SameLists
<1>111. ASSUME NEW p \in Procs, NEW b \in Batches, NEW L \in SUBSET Batches, WakeNew(t, p, b,
   L) PROVE SameLists(u)
  BY <1>2, <1>111 DEF WakeNew, Woken, Alloc, Link, Set, To, Upd, SameLists
<1>112. ASSUME NEW b \in Batches, NEW L \in SUBSET Batches, NewFar(t, b, L) PROVE SameLists(u)
  BY <1>2, <1>112 DEF NewFar, Alloc, Set, To, Upd, SameLists
<1>113. ASSUME NEW b \in Batches, NEW L \in SUBSET Batches, LoadPending(t, b, L) PROVE
   SameLists(u)
  BY <1>2, <1>113 DEF LoadPending, Load, Alloc, Set, To, Upd, SameLists
<1>114. ASSUME NEW b \in Batches, PullOwn(t, b) PROVE SameLists(u)
  BY <1>2, <1>114 DEF PullOwn, Load, Unlink, Set, To, Upd, SameLists
<1>115. ASSUME NEW b \in Batches, PullShown(t, b) PROVE SameLists(u)
  BY <1>2, <1>115 DEF PullShown, Unlink, Set, To, Upd, SameLists
<1>116. ASSUME NEW b \in Batches, PullTaken(t, b) PROVE SameLists(u)
  BY <1>2, <1>116 DEF PullTaken, Unlink, Set, To, Upd, SameLists
<1>117. CASE ClearRead(t)
  BY <1>2, <1>117 DEF ClearRead, batch, window, queues, Set, To, Upd, SameLists
<1>118. CASE LoadCleared(t)
  BY <1>2, <1>118 DEF LoadCleared, Load, Set, To, Upd, SameLists
<1>119. ASSUME NEW keep \in SUBSET Batches, Wash(t, keep) PROVE SameLists(u)
  BY <1>2, <1>119 DEF Wash, Set, To, Upd, SameLists
<1>120. CASE Visit(t)
  BY <1>2, <1>120 DEF Visit, Set, To, Upd, SameLists, PickNothing, Choose, Look, ClearBit,
     Gone, Hide, batch, window, queues, locals, Found
<1>121. CASE Take(t)
  BY <1>2, <1>121 DEF Take, batch, queues, Set, To, Upd, SameLists
<1>122. CASE LoadRemote(t)
  BY <1>2, <1>122 DEF LoadRemote, window, Set, To, Upd, SameLists
<1> QED BY <1>100, <1>101, <1>102, <1>103, <1>104, <1>105, <1>106, <1>107, <1>108, <1>109,
   <1>110, <1>111, <1>112, <1>113, <1>114, <1>115, <1>116, <1>117, <1>118, <1>119, <1>120,
   <1>121, <1>122 DEF Event

\* A step of one thread leaves the locals of the others alone.
LEMMA SamePlaceStep ==
  ASSUME MInv, NEW t \in Threads, Event(t), NEW u \in Threads, u # t PROVE SamePlace(u)
<1>1. TyLocals
  BY Types DEF MInv
<1>2. DOMAIN pc = Threads /\ DOMAIN cont = Threads /\ DOMAIN hand = Threads /\ DOMAIN far = Threads
      /\ DOMAIN seen = Threads /\ DOMAIN slot = Threads /\ DOMAIN vic = Threads
  BY <1>1 DEF TyLocals
<1>100. ASSUME NEW b \in Batches, NEW L \in SUBSET Batches, NEW ps \in SUBSET Procs, NEW n \in
   {"pick", "save"}, PushFree(t, b, L, ps, n) PROVE SamePlace(u)
  BY <1>2, <1>100 DEF PushFree, Push, Alloc, Set, To, Upd, SamePlace
<1>101. ASSUME NEW b \in Batches, NEW L \in SUBSET Batches, NEW ps \in SUBSET Procs, NEW n \in
   {"pick", "save"}, PushLink(t, b, L, ps, n) PROVE SamePlace(u)
  BY <1>2, <1>101 DEF PushLink, Push, Alloc, Link, Set, To, Upd, SamePlace
<1>102. ASSUME NEW b \in Batches, NEW L \in SUBSET Batches, NEW ps \in SUBSET Procs, NEW n \in
   {"pick", "save"}, PushShow(t, b, L, ps, n) PROVE SamePlace(u)
  BY <1>2, <1>102 DEF PushShow, Push, Alloc, Set, To, Upd, SamePlace
<1>103. CASE ReadState(t)
  BY <1>2, <1>103 DEF ReadState, window, queues, Set, To, Upd, SamePlace
<1>104. CASE Show(t)
  BY <1>2, <1>104 DEF Show, queues, locals, Set, To, Upd, SamePlace
<1>105. CASE Enlist(t)
  BY <1>2, <1>105 DEF Enlist, WriteState, Link, batch, Set, To, Upd, SamePlace
<1>106. CASE MarkWork(t)
  BY <1>2, <1>106 DEF MarkWork, batch, queues, Set, To, Upd, SamePlace
<1>107. CASE Block(t)
  BY <1>2, <1>107 DEF Block, batch, window, locals, Set, To, Upd, SamePlace
<1>108. ASSUME NEW p \in Procs, WakeCurb(t, p) PROVE SamePlace(u)
  BY <1>2, <1>108 DEF WakeCurb, Woken, Set, To, Upd, SamePlace
<1>109. ASSUME NEW p \in Procs, WakePend(t, p) PROVE SamePlace(u)
  BY <1>2, <1>109 DEF WakePend, Woken, Set, To, Upd, SamePlace
<1>110. ASSUME NEW p \in Procs, WakeFar(t, p) PROVE SamePlace(u)
  BY <1>2, <1>110 DEF WakeFar, Woken, Set, To, Upd, SamePlace
<1>111. ASSUME NEW p \in Procs, NEW b \in Batches, NEW L \in SUBSET Batches, WakeNew(t, p, b,
   L) PROVE SamePlace(u)
  BY <1>2, <1>111 DEF WakeNew, Woken, Alloc, Link, Set, To, Upd, SamePlace
<1>112. ASSUME NEW b \in Batches, NEW L \in SUBSET Batches, NewFar(t, b, L) PROVE SamePlace(u)
  BY <1>2, <1>112 DEF NewFar, Alloc, Set, To, Upd, SamePlace
<1>113. ASSUME NEW b \in Batches, NEW L \in SUBSET Batches, LoadPending(t, b, L) PROVE
   SamePlace(u)
  BY <1>2, <1>113 DEF LoadPending, Load, Alloc, Set, To, Upd, SamePlace
<1>114. ASSUME NEW b \in Batches, PullOwn(t, b) PROVE SamePlace(u)
  BY <1>2, <1>114 DEF PullOwn, Load, Unlink, Set, To, Upd, SamePlace
<1>115. ASSUME NEW b \in Batches, PullShown(t, b) PROVE SamePlace(u)
  BY <1>2, <1>115 DEF PullShown, Unlink, Set, To, Upd, SamePlace
<1>116. ASSUME NEW b \in Batches, PullTaken(t, b) PROVE SamePlace(u)
  BY <1>2, <1>116 DEF PullTaken, Unlink, Set, To, Upd, SamePlace
<1>117. CASE ClearRead(t)
  BY <1>2, <1>117 DEF ClearRead, batch, window, queues, Set, To, Upd, SamePlace
<1>118. CASE LoadCleared(t)
  BY <1>2, <1>118 DEF LoadCleared, Load, Set, To, Upd, SamePlace
<1>119. ASSUME NEW keep \in SUBSET Batches, Wash(t, keep) PROVE SamePlace(u)
  BY <1>2, <1>119 DEF Wash, Set, To, Upd, SamePlace
<1>120. CASE Visit(t)
  BY <1>2, <1>120 DEF Visit, Set, To, Upd, SamePlace, PickNothing, Choose, Look, ClearBit,
     Gone, Hide, batch, window, queues, locals, Found
<1>121. CASE Take(t)
  BY <1>2, <1>121 DEF Take, batch, queues, Set, To, Upd, SamePlace
<1>122. CASE LoadRemote(t)
  BY <1>2, <1>122 DEF LoadRemote, window, Set, To, Upd, SamePlace
<1> QED BY <1>100, <1>101, <1>102, <1>103, <1>104, <1>105, <1>106, <1>107, <1>108, <1>109,
   <1>110, <1>111, <1>112, <1>113, <1>114, <1>115, <1>116, <1>117, <1>118, <1>119, <1>120,
   <1>121, <1>122 DEF Event

\* So their batches are the same.
LEMMA OthersStep ==
  ASSUME MInv, NEW t \in Threads, Event(t), NEW u \in Threads, u # t
  PROVE  /\ SameLists(u) /\ SamePlace(u)
         /\ Far(u)' = Far(u) /\ Held(u)' = Held(u) /\ Pending(u)' = Pending(u) /\ Own(u)' = Own(u)
         /\ Shown(u)' = Shown(u) /\ Took(u)' = Took(u)
<1>1. SameLists(u) /\ SamePlace(u)
  BY SameListsStep, SamePlaceStep
<1>2. Far(u)' = Far(u) /\ Took(u)' = Took(u)
  BY <1>1 DEF SamePlace, Far, Took
<1>3. Held(u)' = Held(u) /\ Pending(u)' = Pending(u)
  BY <1>1, <1>2 DEF SamePlace, SameLists, Held, Pending
<1>4. Own(u)' = Own(u) /\ Shown(u)' = Shown(u)
  BY <1>1, <1>3 DEF SamePlace, SameLists, Own, Shown
<1> QED BY <1>1, <1>2, <1>3, <1>4

-----------------------------------------------------------------------------
(* What each step does to the lists and the batches.                       *)

\* What the types and the control state say of a thread.
Setting(t) ==
  /\ DOMAIN curb = Threads /\ DOMAIN rq = Threads /\ DOMAIN pend = Threads /\ DOMAIN free = Threads
  /\ DOMAIN laundry = Threads /\ DOMAIN pc = Threads /\ DOMAIN cont = Threads
  /\ DOMAIN hand = Threads /\ DOMAIN slot = Threads /\ DOMAIN pprio = Threads
  /\ DOMAIN dirty = Batches /\ DOMAIN win = Batches /\ DOMAIN procs = Batches
  /\ pend[t] \in Batches /\ prio[t] # "none"
  /\ pc[t] \in ShowPC => cont[t] \in {"save", "queue", "pick"}
  /\ pc[t] \notin ShowPC => cont[t] = "run"

\* A state of the invariant has that setting.
LEMMA Settings == ASSUME MInv, NEW t \in Threads PROVE Setting(t)
<1>1. TyQueues /\ TyBatch /\ TyLocals /\ CtlOK(t)
  BY Types DEF MInv
<1> QED BY <1>1 DEF TyQueues, TyLocals, TyBatch, CtlOK, Setting

Same(b) == dirty'[b] = dirty[b] /\ win'[b] = win[b] /\ procs'[b] = procs[b]

PushFreeEffect(t, b, L, ps, n) ==
  /\ Pending(t) = {pend[t]} /\ Held(t) = {} /\ ~Far(t) /\ pc[t] \in {"run", "save"}
  /\ pprio[t] = "none"
  /\ free'[t] = L \cup {pend[t]} /\ laundry'[t] = laundry'[t]
  /\ Pending(t)' = {b} /\ Held(t)' = {} /\ ~Far(t)' /\ pc'[t] \in {"pick", "save"}
  /\ pend'[t] = b /\ pprio'[t] = prio[t] /\ prio[t] # "none" /\ ps # {} /\ hand'[t] = hand[t]
  /\ rq'[t] = rq[t]
  /\ b \in mem \cup free[t] \cup laundry[t] /\ b # pend[t] /\ Blank(b) /\ mem' = mem \ {b}
  /\ L \subseteq free[t] \cup laundry[t] /\ laundry'[t] \subseteq laundry[t]
  /\ L \cap laundry'[t] = {} /\ b \notin laundry'[t] /\ b \notin L /\ (\A x \in L : Blank(x))
  /\ free[t] \cup laundry[t] \cup mem = L \cup laundry'[t] \cup mem' \cup {b}
  /\ \A c \in Batches : c # b => Same(c)
  /\ dirty'[b] = dirty[b] /\ win'[b] = win[b] /\ procs'[b] = ps
  /\ data' = data

\* The pending batch was empty: it is freed and a new one holds the processes.
LEMMA PushFreeFacts ==
  ASSUME MInv, NEW t \in Threads, NEW b \in Batches, NEW L \in SUBSET
   Batches, NEW ps \in SUBSET Procs, NEW n \in {"pick", "save"}, PushFree(t, b, L, ps, n)
  PROVE  PushFreeEffect(t, b, L, ps, n)
<1>1. /\ TyQueues /\ TyBatch /\ TyLocals /\ CtlOK(t) /\ ListsOK(t)
      /\ mem \cap Own(t) = {} /\ size \in WindowSizes
  BY Types DEF MInv, ApartOK
<1>2. Setting(t)
  BY Settings
<1>4. /\ Pending(t) = {pend[t]} /\ Held(t) = {} /\ ~Far(t) /\ pc[t] \in {"run", "save"}
      /\ pprio[t] = "none"
  BY <1>2 DEF PushFree, Push, Far, Pending, Held, OwnPC, ShowPC, Setting
<1>7. /\ free'[t] = L \cup {pend[t]} /\ laundry'[t] = laundry'[t]
  BY <1>2 DEF PushFree, Push, Set, To, Upd, Setting
<1>8. /\ Pending(t)' = {b} /\ Held(t)' = {} /\ ~Far(t)' /\ pc'[t] \in {"pick", "save"}
      /\ pend'[t] = b /\ pprio'[t] = prio[t] /\ prio[t] # "none" /\ ps # {}
      /\ hand'[t] = hand[t]
  BY <1>2 DEF PushFree, Push, Set, To, Upd, Far, Pending, Held, OwnPC, ShowPC, Setting
<1>9. /\ rq'[t] = rq[t]
  BY DEF PushFree, Push, Set, To, Upd
<1>10. /\ b \in mem \cup free[t] \cup laundry[t] /\ Blank(b) /\ mem' = mem \ {b}
      /\ L \subseteq free[t] \cup laundry[t] /\ laundry'[t] \subseteq laundry[t]
      /\ L \cap laundry'[t] = {} /\ b \notin laundry'[t] /\ b \notin L
      /\ (\A x \in L : Blank(x))
      /\ free[t] \cup laundry[t] \cup mem = L \cup laundry'[t] \cup mem' \cup {b}
  BY DEF PushFree, Push, Alloc
<1>14. b # pend[t]
  <2>1. pend[t] \in Pending(t)
    BY <1>4
  <2> QED BY <1>1, <1>10, <2>1 DEF ListsOK, Own
<1>11. /\ \A c \in Batches : c # b => Same(c)
      /\ dirty'[b] = dirty[b] /\ win'[b] = win[b] /\ procs'[b] = ps
  BY <1>2 DEF PushFree, Push, Set, To, Upd, Same, Setting
<1>12. /\ data' = data
  BY DEF PushFree, Push, Set, To, Upd
<1> QED BY <1>4, <1>7, <1>8, <1>9, <1>10, <1>14, <1>11, <1>12 DEF PushFreeEffect

PushLinkEffect(t, b, L, ps, n) ==
  /\ Pending(t) = {pend[t]} /\ Held(t) = {} /\ ~Far(t) /\ pc[t] \in {"run", "save"}
  /\ pprio[t] = "affine"
  /\ free'[t] = L /\ laundry'[t] = laundry'[t]
  /\ Pending(t)' = {b} /\ Held(t)' = {} /\ ~Far(t)' /\ pc'[t] \in {"pick", "save"}
  /\ pend'[t] = b /\ pprio'[t] = prio[t] /\ prio[t] # "none" /\ ps # {} /\ hand'[t] = hand[t]
  /\ Distinct(rq'[t]) /\ ToSet(rq'[t]) = ToSet(rq[t]) \cup {pend[t]}
  /\ b \in mem \cup free[t] \cup laundry[t] /\ b # pend[t] /\ Blank(b) /\ mem' = mem \ {b}
  /\ L \subseteq free[t] \cup laundry[t] /\ laundry'[t] \subseteq laundry[t]
  /\ L \cap laundry'[t] = {} /\ b \notin laundry'[t] /\ b \notin L /\ (\A x \in L : Blank(x))
  /\ free[t] \cup laundry[t] \cup mem = L \cup laundry'[t] \cup mem' \cup {b}
  /\ \A c \in Batches : c # b /\ c # pend[t] => Same(c)
  /\ dirty'[b] = dirty[b] /\ win'[b] = win[b] /\ procs'[b] = ps
  /\ dirty'[pend[t]] = FALSE /\ win'[pend[t]] = 0 /\ procs'[pend[t]] = procs[pend[t]]
  /\ data' = data

\* The pending batch was affine: it is linked in the queue, in no slot.
LEMMA PushLinkFacts ==
  ASSUME MInv, NEW t \in Threads, NEW b \in Batches, NEW L \in SUBSET
   Batches, NEW ps \in SUBSET Procs, NEW n \in {"pick", "save"}, PushLink(t, b, L, ps, n)
  PROVE  PushLinkEffect(t, b, L, ps, n)
<1>1. /\ TyQueues /\ TyBatch /\ TyLocals /\ CtlOK(t) /\ ListsOK(t)
      /\ mem \cap Own(t) = {} /\ size \in WindowSizes
  BY Types DEF MInv, ApartOK
<1>2. Setting(t)
  BY Settings
<1>4. /\ Pending(t) = {pend[t]} /\ Held(t) = {} /\ ~Far(t) /\ pc[t] \in {"run", "save"}
      /\ pprio[t] = "affine"
  BY <1>2 DEF PushLink, Push, Far, Pending, Held, OwnPC, ShowPC, Setting
<1>7. /\ free'[t] = L /\ laundry'[t] = laundry'[t]
  BY <1>2 DEF PushLink, Push, Set, To, Upd, Setting
<1>8. /\ Pending(t)' = {b} /\ Held(t)' = {} /\ ~Far(t)' /\ pc'[t] \in {"pick", "save"}
      /\ pend'[t] = b /\ pprio'[t] = prio[t] /\ prio[t] # "none" /\ ps # {}
      /\ hand'[t] = hand[t]
  BY <1>2 DEF PushLink, Push, Set, To, Upd, Far, Pending, Held, OwnPC, ShowPC, Setting
<1>9. /\ Distinct(rq'[t]) /\ ToSet(rq'[t]) = ToSet(rq[t]) \cup {pend[t]}
  BY DEF PushLink, Push, Alloc, Link
<1>10. /\ b \in mem \cup free[t] \cup laundry[t] /\ Blank(b) /\ mem' = mem \ {b}
      /\ L \subseteq free[t] \cup laundry[t] /\ laundry'[t] \subseteq laundry[t]
      /\ L \cap laundry'[t] = {} /\ b \notin laundry'[t] /\ b \notin L
      /\ (\A x \in L : Blank(x))
      /\ free[t] \cup laundry[t] \cup mem = L \cup laundry'[t] \cup mem' \cup {b}
  BY DEF PushLink, Push, Alloc
<1>14. b # pend[t]
  <2>1. pend[t] \in Pending(t)
    BY <1>4
  <2> QED BY <1>1, <1>10, <2>1 DEF ListsOK, Own
<1>11. /\ \A c \in Batches : c # b /\ c # pend[t] => Same(c)
      /\ dirty'[b] = dirty[b] /\ win'[b] = win[b] /\ procs'[b] = ps
      /\ dirty'[pend[t]] = FALSE /\ win'[pend[t]] = 0 /\ procs'[pend[t]] = procs[pend[t]]
  BY <1>2, <1>14 DEF PushLink, Push, Set, To, Upd, Same, Setting
<1>12. /\ data' = data
  BY DEF PushLink, Push, Set, To, Upd
<1> QED BY <1>4, <1>7, <1>8, <1>9, <1>10, <1>14, <1>11, <1>12 DEF PushLinkEffect

PushShowEffect(t, b, L, ps, n) ==
  /\ Pending(t) = {pend[t]} /\ Held(t) = {} /\ ~Far(t) /\ pc[t] \in {"run", "save"}
  /\ pprio[t] = "any"
  /\ free'[t] = L /\ laundry'[t] = laundry'[t]
  /\ Pending(t)' = {b} /\ Held(t)' = {pend[t]} /\ ~Far(t)' /\ pc'[t] = "read" /\ pend'[t] = b
  /\ pprio'[t] = prio[t] /\ prio[t] # "none" /\ ps # {} /\ hand'[t] = pend[t]
  /\ rq'[t] = rq[t]
  /\ b \in mem \cup free[t] \cup laundry[t] /\ b # pend[t] /\ Blank(b) /\ mem' = mem \ {b}
  /\ L \subseteq free[t] \cup laundry[t] /\ laundry'[t] \subseteq laundry[t]
  /\ L \cap laundry'[t] = {} /\ b \notin laundry'[t] /\ b \notin L /\ (\A x \in L : Blank(x))
  /\ free[t] \cup laundry[t] \cup mem = L \cup laundry'[t] \cup mem' \cup {b}
  /\ \A c \in Batches : c # b => Same(c)
  /\ dirty'[b] = dirty[b] /\ win'[b] = win[b] /\ procs'[b] = ps
  /\ data' = data

\* The pending batch may be taken: it goes into the hands, to be shown.
LEMMA PushShowFacts ==
  ASSUME MInv, NEW t \in Threads, NEW b \in Batches, NEW L \in SUBSET
   Batches, NEW ps \in SUBSET Procs, NEW n \in {"pick", "save"}, PushShow(t, b, L, ps, n)
  PROVE  PushShowEffect(t, b, L, ps, n)
<1>1. /\ TyQueues /\ TyBatch /\ TyLocals /\ CtlOK(t) /\ ListsOK(t)
      /\ mem \cap Own(t) = {} /\ size \in WindowSizes
  BY Types DEF MInv, ApartOK
<1>2. Setting(t)
  BY Settings
<1>4. /\ Pending(t) = {pend[t]} /\ Held(t) = {} /\ ~Far(t) /\ pc[t] \in {"run", "save"}
      /\ pprio[t] = "any"
  BY <1>2 DEF PushShow, Push, Far, Pending, Held, OwnPC, ShowPC, Setting
<1>7. /\ free'[t] = L /\ laundry'[t] = laundry'[t]
  BY <1>2 DEF PushShow, Push, Set, To, Upd, Setting
<1>8. /\ Pending(t)' = {b} /\ Held(t)' = {pend[t]} /\ ~Far(t)' /\ pc'[t] = "read"
      /\ pend'[t] = b /\ pprio'[t] = prio[t] /\ prio[t] # "none" /\ ps # {}
      /\ hand'[t] = pend[t]
  BY <1>2 DEF PushShow, Push, Set, To, Upd, Far, Pending, Held, OwnPC, ShowPC, Setting
<1>9. /\ rq'[t] = rq[t]
  BY DEF PushShow, Push, Set, To, Upd
<1>10. /\ b \in mem \cup free[t] \cup laundry[t] /\ Blank(b) /\ mem' = mem \ {b}
      /\ L \subseteq free[t] \cup laundry[t] /\ laundry'[t] \subseteq laundry[t]
      /\ L \cap laundry'[t] = {} /\ b \notin laundry'[t] /\ b \notin L
      /\ (\A x \in L : Blank(x))
      /\ free[t] \cup laundry[t] \cup mem = L \cup laundry'[t] \cup mem' \cup {b}
  BY DEF PushShow, Push, Alloc
<1>14. b # pend[t]
  <2>1. pend[t] \in Pending(t)
    BY <1>4
  <2> QED BY <1>1, <1>10, <2>1 DEF ListsOK, Own
<1>11. /\ \A c \in Batches : c # b => Same(c)
      /\ dirty'[b] = dirty[b] /\ win'[b] = win[b] /\ procs'[b] = ps
  BY <1>2 DEF PushShow, Push, Set, To, Upd, Same, Setting
<1>12. /\ data' = data
  BY DEF PushShow, Push, Set, To, Upd
<1> QED BY <1>4, <1>7, <1>8, <1>9, <1>10, <1>14, <1>11, <1>12 DEF PushShowEffect

ReadStateEffect(t) ==
  /\ Held(t) = {hand[t]} /\ pc[t] = "read" /\ hand[t] \in Batches
  /\ free'[t] = free[t] /\ laundry'[t] = laundry[t]
  /\ Pending(t)' = Pending(t) /\ Held(t)' = {hand[t]} /\ Far(t)' = Far(t) /\ pc'[t] = "show"
  /\ pend' = pend /\ pprio' = pprio /\ hand' = hand /\ slot'[t] \in Slots
  /\ rq'[t] = rq[t]
  /\ mem' = mem
  /\ \A c \in Batches : c # hand[t] => Same(c)
  /\ dirty'[hand[t]] = TRUE /\ win'[hand[t]] = slot'[t] /\ procs'[hand[t]] = procs[hand[t]]
  /\ data' = data

\* A slot is chosen for the batch in the hands.
LEMMA ReadStateFacts ==
  ASSUME MInv, NEW t \in Threads, ReadState(t)
  PROVE  ReadStateEffect(t)
<1>1. /\ TyQueues /\ TyBatch /\ TyLocals /\ CtlOK(t) /\ ListsOK(t)
      /\ mem \cap Own(t) = {} /\ size \in WindowSizes
  BY Types DEF MInv, ApartOK
<1>2. Setting(t)
  BY Settings
<1>4. /\ Held(t) = {hand[t]} /\ pc[t] = "read"
  BY <1>2 DEF ReadState, Far, Pending, Held, OwnPC, ShowPC, Setting
<1>6. /\ hand[t] \in Batches
  BY Values DEF ReadState, OwnPC, ThiefPC, TookPC
<1>7. /\ free'[t] = free[t] /\ laundry'[t] = laundry[t]
  BY <1>2 DEF ReadState, window, queues, Set, To, Upd, Setting
<1>13. NextHead(mw[t].head) \in Slots
  BY Values
<1>8. /\ Pending(t)' = Pending(t) /\ Held(t)' = {hand[t]} /\ Far(t)' = Far(t) /\ pc'[t] = "show"
      /\ pend' = pend /\ pprio' = pprio /\ hand' = hand /\ slot'[t] \in Slots
  BY <1>2, <1>13 DEF ReadState, window, queues, Set, To, Upd, Far, Pending, Held, OwnPC,
     ShowPC, Setting
<1>9. /\ rq'[t] = rq[t]
  BY DEF ReadState, window, queues, Set, To, Upd
<1>10. /\ mem' = mem
  BY DEF ReadState, window, queues, Set, To, Upd
<1>11. /\ \A c \in Batches : c # hand[t] => Same(c)
      /\ dirty'[hand[t]] = TRUE /\ win'[hand[t]] = slot'[t] /\ procs'[hand[t]] = procs[hand[t]]
  <2>1. /\ procs' = procs /\ win' = Upd(win, hand[t], slot'[t])
           /\ dirty' = Upd(dirty, hand[t], TRUE)
    BY <1>2 DEF Setting, ReadState, Set, Upd
  <2> QED BY <1>2, <1>6, <2>1 DEF Setting, Same, Upd
<1>12. /\ data' = data
  BY DEF ReadState, window, queues, Set, To, Upd
<1> QED BY <1>4, <1>6, <1>7, <1>8, <1>9, <1>10, <1>11, <1>12 DEF ReadStateEffect

ShowEffect(t) ==
  /\ Held(t) = {hand[t]} /\ pc[t] = "show" /\ slot[t] \in Slots /\ hand[t] \in Batches
  /\ free'[t] = free[t] /\ laundry'[t] = laundry[t]
  /\ Pending(t)' = Pending(t) /\ Held(t)' = {hand[t]} /\ Far(t)' = Far(t) /\ pc'[t] = "state"
  /\ pend' = pend /\ pprio' = pprio /\ hand' = hand /\ slot' = slot
  /\ rq'[t] = rq[t]
  /\ mem' = mem
  /\ \A c \in Batches : c # data[t][slot[t]] => Same(c)
  /\ \A c \in Batches : c = data[t][slot[t]] => ~dirty'[c] /\ win'[c] = 0 /\ procs'[c] = procs[c]
  /\ data' = [data EXCEPT ![t][slot[t]] = hand[t]]

\* The batch goes into its slot; one that was in the slot is clean again.
LEMMA ShowFacts ==
  ASSUME MInv, NEW t \in Threads, Show(t)
  PROVE  ShowEffect(t)
<1>1. /\ TyQueues /\ TyBatch /\ TyLocals /\ CtlOK(t) /\ ListsOK(t)
      /\ mem \cap Own(t) = {} /\ size \in WindowSizes
  BY Types DEF MInv, ApartOK
<1>2. Setting(t)
  BY Settings
<1>4. /\ Held(t) = {hand[t]} /\ pc[t] = "show"
  BY <1>2 DEF Show, Far, Pending, Held, OwnPC, ShowPC, Setting
<1>6. /\ slot[t] \in Slots /\ hand[t] \in Batches
  BY Values DEF Show, OwnPC, ThiefPC, TookPC
<1>7. /\ free'[t] = free[t] /\ laundry'[t] = laundry[t]
  BY <1>2 DEF Show, queues, locals, Set, To, Upd, Setting
<1>8. /\ Pending(t)' = Pending(t) /\ Held(t)' = {hand[t]} /\ Far(t)' = Far(t)
      /\ pc'[t] = "state" /\ pend' = pend /\ pprio' = pprio /\ hand' = hand /\ slot' = slot
  BY <1>2 DEF Show, queues, locals, Set, To, Upd, Far, Pending, Held, OwnPC, ShowPC, Setting
<1>9. /\ rq'[t] = rq[t]
  BY DEF Show, queues, locals, Set, To, Upd
<1>10. /\ mem' = mem
  BY DEF Show, queues, locals, Set, To, Upd
<1>11. /\ \A c \in Batches : c # data[t][slot[t]] => Same(c)
      /\ \A c \in Batches : c = data[t][slot[t]] => ~dirty'[c] /\ win'[c] = 0
         /\ procs'[c] = procs[c]
  <2> DEFINE old == data[t][slot[t]]
  <2>1. /\ procs' = procs
           /\ (old # None => win' = Upd(win, old, 0) /\ dirty' = Upd(dirty, old, FALSE))
        /\ (old = None => UNCHANGED <<win, dirty>>)
    BY DEF Show, Set, Upd
  <2>2. None \notin Batches
    BY MigrationAssumption
  <2> HIDE DEF old
  <2>3. \A c \in Batches : c # old => Same(c)
    BY <1>2, <2>1, <2>2 DEF Setting, Same, Upd
  <2>4. \A c \in Batches : c = old => ~dirty'[c] /\ win'[c] = 0 /\ procs'[c] = procs[c]
    BY <1>2, <2>1, <2>2 DEF Setting, Upd
  <2> QED BY <2>3, <2>4 DEF old
<1>12. /\ data' = [data EXCEPT ![t][slot[t]] = hand[t]]
  BY DEF Show, queues, locals, Set, To, Upd
<1> QED BY <1>4, <1>6, <1>7, <1>8, <1>9, <1>10, <1>11, <1>12 DEF ShowEffect

EnlistEffect(t) ==
  /\ Held(t) = {hand[t]} /\ pc[t] = "state" /\ slot[t] \in Slots /\ hand[t] \in Batches
  /\ free'[t] = free[t] /\ laundry'[t] = laundry[t]
  /\ Pending(t)' = Pending(t) /\ Held(t)' = {} /\ Far(t)' = Far(t) /\ pc'[t] = "mark"
  /\ pend' = pend /\ pprio' = pprio /\ hand'[t] = None
  /\ Distinct(rq'[t]) /\ ToSet(rq'[t]) = ToSet(rq[t]) \cup {hand[t]}
  /\ mem' = mem
  /\ UNCHANGED <<dirty, win, procs>>
  /\ data' = data

\* The window state is written and the batch is linked in the queue.
LEMMA EnlistFacts ==
  ASSUME MInv, NEW t \in Threads, Enlist(t)
  PROVE  EnlistEffect(t)
<1>1. /\ TyQueues /\ TyBatch /\ TyLocals /\ CtlOK(t) /\ ListsOK(t)
      /\ mem \cap Own(t) = {} /\ size \in WindowSizes
  BY Types DEF MInv, ApartOK
<1>2. Setting(t)
  BY Settings
<1>4. /\ Held(t) = {hand[t]} /\ pc[t] = "state"
  BY <1>2 DEF Enlist, WriteState, Far, Pending, Held, OwnPC, ShowPC, Setting
<1>6. /\ slot[t] \in Slots /\ hand[t] \in Batches
  BY Values DEF Enlist, WriteState, OwnPC, ThiefPC, TookPC
<1>7. /\ free'[t] = free[t] /\ laundry'[t] = laundry[t]
  BY <1>2 DEF Enlist, WriteState, batch, Set, To, Upd, Setting
<1>8. /\ Pending(t)' = Pending(t) /\ Held(t)' = {} /\ Far(t)' = Far(t) /\ pc'[t] = "mark"
      /\ pend' = pend /\ pprio' = pprio /\ hand'[t] = None
  BY <1>2 DEF Enlist, WriteState, batch, Set, To, Upd, Far, Pending, Held, OwnPC, ShowPC,
     Setting
<1>9. /\ Distinct(rq'[t]) /\ ToSet(rq'[t]) = ToSet(rq[t]) \cup {hand[t]}
  BY DEF Enlist, WriteState, Link, batch
<1>10. /\ mem' = mem
  BY DEF Enlist, WriteState, batch, Set, To, Upd
<1>11. /\ UNCHANGED <<dirty, win, procs>>
  BY <1>2 DEF Enlist, WriteState, batch, Set, To, Upd, Same, Setting
<1>12. /\ data' = data
  BY DEF Enlist, WriteState, batch, Set, To, Upd
<1> QED BY <1>4, <1>6, <1>7, <1>8, <1>9, <1>10, <1>11, <1>12 DEF EnlistEffect

MarkWorkEffect(t) ==
  /\ Held(t) = {} /\ pc[t] = "mark"
  /\ free'[t] = free[t] /\ laundry'[t] = laundry[t]
  /\ Pending(t)' = Pending(t) /\ Held(t)' = {} /\ Far(t)' = Far(t)
  /\ pc'[t] \in {"save", "queue", "pick"} /\ pend' = pend /\ pprio' = pprio /\ hand' = hand
  /\ rq'[t] = rq[t]
  /\ mem' = mem
  /\ UNCHANGED <<dirty, win, procs>>
  /\ data' = data

\* The thread says that it has work for others.
LEMMA MarkWorkFacts ==
  ASSUME MInv, NEW t \in Threads, MarkWork(t)
  PROVE  MarkWorkEffect(t)
<1>1. /\ TyQueues /\ TyBatch /\ TyLocals /\ CtlOK(t) /\ ListsOK(t)
      /\ mem \cap Own(t) = {} /\ size \in WindowSizes
  BY Types DEF MInv, ApartOK
<1>2. Setting(t)
  BY Settings
<1>4. /\ Held(t) = {} /\ pc[t] = "mark"
  BY <1>2 DEF MarkWork, Far, Pending, Held, OwnPC, ShowPC, Setting
<1>7. /\ free'[t] = free[t] /\ laundry'[t] = laundry[t]
  BY <1>2 DEF MarkWork, batch, queues, Set, To, Upd, Setting
<1>8. /\ Pending(t)' = Pending(t) /\ Held(t)' = {} /\ Far(t)' = Far(t)
      /\ pc'[t] \in {"save", "queue", "pick"} /\ pend' = pend /\ pprio' = pprio /\ hand' = hand
  BY <1>2 DEF MarkWork, batch, queues, Set, To, Upd, Far, Pending, Held, OwnPC, ShowPC,
     Setting
<1>9. /\ rq'[t] = rq[t]
  BY DEF MarkWork, batch, queues, Set, To, Upd
<1>10. /\ mem' = mem
  BY DEF MarkWork, batch, queues, Set, To, Upd
<1>11. /\ UNCHANGED <<dirty, win, procs>>
  BY <1>2 DEF MarkWork, batch, queues, Set, To, Upd, Same, Setting
<1>12. /\ data' = data
  BY DEF MarkWork, batch, queues, Set, To, Upd
<1> QED BY <1>4, <1>7, <1>8, <1>9, <1>10, <1>11, <1>12 DEF MarkWorkEffect

BlockEffect(t) ==
  /\ Pending(t) = {pend[t]} /\ Held(t) = {} /\ ~Far(t) /\ pc[t] = "run"
  /\ free'[t] = free[t] /\ laundry'[t] = laundry[t]
  /\ Pending(t)' = {pend[t]} /\ Held(t)' = {} /\ ~Far(t)' /\ pc' = pc /\ pend' = pend
  /\ pprio' = pprio /\ hand' = hand
  /\ rq'[t] = rq[t]
  /\ mem' = mem
  /\ UNCHANGED <<dirty, win, procs>>
  /\ data' = data

\* A process of the current batch blocks.
LEMMA BlockFacts ==
  ASSUME MInv, NEW t \in Threads, Block(t)
  PROVE  BlockEffect(t)
<1>1. /\ TyQueues /\ TyBatch /\ TyLocals /\ CtlOK(t) /\ ListsOK(t)
      /\ mem \cap Own(t) = {} /\ size \in WindowSizes
  BY Types DEF MInv, ApartOK
<1>2. Setting(t)
  BY Settings
<1>4. /\ Pending(t) = {pend[t]} /\ Held(t) = {} /\ ~Far(t) /\ pc[t] = "run"
  BY <1>2 DEF Block, Far, Pending, Held, OwnPC, ShowPC, Setting
<1>7. /\ free'[t] = free[t] /\ laundry'[t] = laundry[t]
  BY <1>2 DEF Block, batch, window, locals, Set, To, Upd, Setting
<1>8. /\ Pending(t)' = {pend[t]} /\ Held(t)' = {} /\ ~Far(t)' /\ pc' = pc /\ pend' = pend
      /\ pprio' = pprio /\ hand' = hand
  BY <1>2 DEF Block, batch, window, locals, Set, To, Upd, Far, Pending, Held, OwnPC, ShowPC,
     Setting
<1>9. /\ rq'[t] = rq[t]
  BY DEF Block, batch, window, locals, Set, To, Upd
<1>10. /\ mem' = mem
  BY DEF Block, batch, window, locals, Set, To, Upd
<1>11. /\ UNCHANGED <<dirty, win, procs>>
  BY <1>2 DEF Block, batch, window, locals, Set, To, Upd, Same, Setting
<1>12. /\ data' = data
  BY DEF Block, batch, window, locals, Set, To, Upd
<1> QED BY <1>4, <1>7, <1>8, <1>9, <1>10, <1>11, <1>12 DEF BlockEffect

WakeCurbEffect(t, p) ==
  /\ Pending(t) = {pend[t]} /\ Held(t) = {} /\ ~Far(t) /\ pc[t] = "run"
  /\ free'[t] = free[t] /\ laundry'[t] = laundry[t]
  /\ Pending(t)' = {pend[t]} /\ Held(t)' = {} /\ ~Far(t)' /\ pc' = pc /\ pend' = pend
  /\ pprio' = pprio /\ hand' = hand
  /\ rq'[t] = rq[t]
  /\ mem' = mem
  /\ UNCHANGED <<dirty, win, procs>>
  /\ data' = data

\* A process joins the current batch.
LEMMA WakeCurbFacts ==
  ASSUME MInv, NEW t \in Threads, NEW p \in Procs, WakeCurb(t, p)
  PROVE  WakeCurbEffect(t, p)
<1>1. /\ TyQueues /\ TyBatch /\ TyLocals /\ CtlOK(t) /\ ListsOK(t)
      /\ mem \cap Own(t) = {} /\ size \in WindowSizes
  BY Types DEF MInv, ApartOK
<1>2. Setting(t)
  BY Settings
<1>4. /\ Pending(t) = {pend[t]} /\ Held(t) = {} /\ ~Far(t) /\ pc[t] = "run"
  BY <1>2 DEF WakeCurb, Woken, Far, Pending, Held, OwnPC, ShowPC, Setting
<1>7. /\ free'[t] = free[t] /\ laundry'[t] = laundry[t]
  BY <1>2 DEF WakeCurb, Woken, Set, To, Upd, Setting
<1>8. /\ Pending(t)' = {pend[t]} /\ Held(t)' = {} /\ ~Far(t)' /\ pc' = pc /\ pend' = pend
      /\ pprio' = pprio /\ hand' = hand
  BY <1>2 DEF WakeCurb, Woken, Set, To, Upd, Far, Pending, Held, OwnPC, ShowPC, Setting
<1>9. /\ rq'[t] = rq[t]
  BY DEF WakeCurb, Woken, Set, To, Upd
<1>10. /\ mem' = mem
  BY DEF WakeCurb, Woken, Set, To, Upd
<1>11. /\ UNCHANGED <<dirty, win, procs>>
  BY <1>2 DEF WakeCurb, Woken, Set, To, Upd, Same, Setting
<1>12. /\ data' = data
  BY DEF WakeCurb, Woken, Set, To, Upd
<1> QED BY <1>4, <1>7, <1>8, <1>9, <1>10, <1>11, <1>12 DEF WakeCurbEffect

WakePendEffect(t, p) ==
  /\ Pending(t) = {pend[t]} /\ Held(t) = {} /\ ~Far(t) /\ pc[t] = "run"
  /\ free'[t] = free[t] /\ laundry'[t] = laundry[t]
  /\ Pending(t)' = {pend[t]} /\ Held(t)' = {} /\ ~Far(t)' /\ pc' = pc /\ pend' = pend
  /\ pprio'[t] = Kind(p) /\ hand' = hand
  /\ rq'[t] = rq[t]
  /\ mem' = mem
  /\ \A c \in Batches : c # pend[t] => Same(c)
  /\ dirty'[pend[t]] = dirty[pend[t]] /\ win'[pend[t]] = win[pend[t]]
     /\ procs'[pend[t]] = procs[pend[t]] \cup {p}
  /\ data' = data

\* A process joins the pending batch.
LEMMA WakePendFacts ==
  ASSUME MInv, NEW t \in Threads, NEW p \in Procs, WakePend(t, p)
  PROVE  WakePendEffect(t, p)
<1>1. /\ TyQueues /\ TyBatch /\ TyLocals /\ CtlOK(t) /\ ListsOK(t)
      /\ mem \cap Own(t) = {} /\ size \in WindowSizes
  BY Types DEF MInv, ApartOK
<1>2. Setting(t)
  BY Settings
<1>4. /\ Pending(t) = {pend[t]} /\ Held(t) = {} /\ ~Far(t) /\ pc[t] = "run"
  BY <1>2 DEF WakePend, Woken, Far, Pending, Held, OwnPC, ShowPC, Setting
<1>7. /\ free'[t] = free[t] /\ laundry'[t] = laundry[t]
  BY <1>2 DEF WakePend, Woken, Set, To, Upd, Setting
<1>8. /\ Pending(t)' = {pend[t]} /\ Held(t)' = {} /\ ~Far(t)' /\ pc' = pc /\ pend' = pend
      /\ pprio'[t] = Kind(p) /\ hand' = hand
  BY <1>2 DEF WakePend, Woken, Set, To, Upd, Far, Pending, Held, OwnPC, ShowPC, Setting
<1>9. /\ rq'[t] = rq[t]
  BY DEF WakePend, Woken, Set, To, Upd
<1>10. /\ mem' = mem
  BY DEF WakePend, Woken, Set, To, Upd
<1>11. /\ \A c \in Batches : c # pend[t] => Same(c)
      /\ dirty'[pend[t]] = dirty[pend[t]] /\ win'[pend[t]] = win[pend[t]]
         /\ procs'[pend[t]] = procs[pend[t]] \cup {p}
  BY <1>2 DEF WakePend, Woken, Set, To, Upd, Same, Setting
<1>12. /\ data' = data
  BY DEF WakePend, Woken, Set, To, Upd
<1> QED BY <1>4, <1>7, <1>8, <1>9, <1>10, <1>11, <1>12 DEF WakePendEffect

WakeFarEffect(t, p) ==
  /\ Pending(t) = {pend[t]} /\ Held(t) = {} /\ ~Far(t) /\ pc[t] = "run" /\ pprio[t] = "any"
  /\ free'[t] = free[t] /\ laundry'[t] = laundry[t]
  /\ Pending(t)' = {} /\ Held(t)' = {pend[t]} /\ Far(t)' /\ pc'[t] = "read" /\ pend' = pend
  /\ pprio' = pprio /\ hand'[t] = pend[t]
  /\ rq'[t] = rq[t]
  /\ mem' = mem
  /\ UNCHANGED <<dirty, win, procs>>
  /\ data' = data

\* An affine process finds a batch pending that others may take: that one is
\* shown first.
LEMMA WakeFarFacts ==
  ASSUME MInv, NEW t \in Threads, NEW p \in Procs, WakeFar(t, p)
  PROVE  WakeFarEffect(t, p)
<1>1. /\ TyQueues /\ TyBatch /\ TyLocals /\ CtlOK(t) /\ ListsOK(t)
      /\ mem \cap Own(t) = {} /\ size \in WindowSizes
  BY Types DEF MInv, ApartOK
<1>2. Setting(t)
  BY Settings
<1>4. /\ Pending(t) = {pend[t]} /\ Held(t) = {} /\ ~Far(t) /\ pc[t] = "run" /\ pprio[t] = "any"
  BY <1>2 DEF WakeFar, Woken, Far, Pending, Held, OwnPC, ShowPC, Setting
<1>7. /\ free'[t] = free[t] /\ laundry'[t] = laundry[t]
  BY <1>2 DEF WakeFar, Woken, Set, To, Upd, Setting
<1>8. /\ Pending(t)' = {} /\ Held(t)' = {pend[t]} /\ Far(t)' /\ pc'[t] = "read" /\ pend' = pend
      /\ pprio' = pprio /\ hand'[t] = pend[t]
  BY <1>2 DEF WakeFar, Woken, Set, To, Upd, Far, Pending, Held, OwnPC, ShowPC, Setting
<1>9. /\ rq'[t] = rq[t]
  BY DEF WakeFar, Woken, Set, To, Upd
<1>10. /\ mem' = mem
  BY DEF WakeFar, Woken, Set, To, Upd
<1>11. /\ UNCHANGED <<dirty, win, procs>>
  BY <1>2 DEF WakeFar, Woken, Set, To, Upd, Same, Setting
<1>12. /\ data' = data
  BY DEF WakeFar, Woken, Set, To, Upd
<1> QED BY <1>4, <1>7, <1>8, <1>9, <1>10, <1>11, <1>12 DEF WakeFarEffect

WakeNewEffect(t, p, b, L) ==
  /\ Pending(t) = {pend[t]} /\ Held(t) = {} /\ ~Far(t) /\ pc[t] = "run" /\ pprio[t] = "affine"
  /\ free'[t] = L /\ laundry'[t] = laundry'[t]
  /\ Pending(t)' = {b} /\ Held(t)' = {} /\ ~Far(t)' /\ pc' = pc /\ pend'[t] = b
  /\ pprio'[t] = Kind(p) /\ hand' = hand
  /\ Distinct(rq'[t]) /\ ToSet(rq'[t]) = ToSet(rq[t]) \cup {pend[t]}
  /\ b \in mem \cup free[t] \cup laundry[t] /\ b # pend[t] /\ Blank(b) /\ mem' = mem \ {b}
  /\ L \subseteq free[t] \cup laundry[t] /\ laundry'[t] \subseteq laundry[t]
  /\ L \cap laundry'[t] = {} /\ b \notin laundry'[t] /\ b \notin L /\ (\A x \in L : Blank(x))
  /\ free[t] \cup laundry[t] \cup mem = L \cup laundry'[t] \cup mem' \cup {b}
  /\ \A c \in Batches : c # b /\ c # pend[t] => Same(c)
  /\ dirty'[b] = dirty[b] /\ win'[b] = win[b] /\ procs'[b] = {p}
  /\ dirty'[pend[t]] = FALSE /\ win'[pend[t]] = 0 /\ procs'[pend[t]] = procs[pend[t]]
  /\ data' = data

\* An ordinary process finds an affine batch pending: that one is linked.
LEMMA WakeNewFacts ==
  ASSUME MInv, NEW t \in Threads, NEW p \in Procs, NEW b \in Batches, NEW
   L \in SUBSET Batches, WakeNew(t, p, b, L)
  PROVE  WakeNewEffect(t, p, b, L)
<1>1. /\ TyQueues /\ TyBatch /\ TyLocals /\ CtlOK(t) /\ ListsOK(t)
      /\ mem \cap Own(t) = {} /\ size \in WindowSizes
  BY Types DEF MInv, ApartOK
<1>2. Setting(t)
  BY Settings
<1>4. /\ Pending(t) = {pend[t]} /\ Held(t) = {} /\ ~Far(t) /\ pc[t] = "run"
      /\ pprio[t] = "affine"
  BY <1>2 DEF WakeNew, Woken, Far, Pending, Held, OwnPC, ShowPC, Setting
<1>7. /\ free'[t] = L /\ laundry'[t] = laundry'[t]
  BY <1>2 DEF WakeNew, Woken, Set, To, Upd, Setting
<1>8. /\ Pending(t)' = {b} /\ Held(t)' = {} /\ ~Far(t)' /\ pc' = pc /\ pend'[t] = b
      /\ pprio'[t] = Kind(p) /\ hand' = hand
  BY <1>2 DEF WakeNew, Woken, Set, To, Upd, Far, Pending, Held, OwnPC, ShowPC, Setting
<1>9. /\ Distinct(rq'[t]) /\ ToSet(rq'[t]) = ToSet(rq[t]) \cup {pend[t]}
  BY DEF WakeNew, Woken, Alloc, Link
<1>10. /\ b \in mem \cup free[t] \cup laundry[t] /\ Blank(b) /\ mem' = mem \ {b}
      /\ L \subseteq free[t] \cup laundry[t] /\ laundry'[t] \subseteq laundry[t]
      /\ L \cap laundry'[t] = {} /\ b \notin laundry'[t] /\ b \notin L
      /\ (\A x \in L : Blank(x))
      /\ free[t] \cup laundry[t] \cup mem = L \cup laundry'[t] \cup mem' \cup {b}
  BY DEF WakeNew, Woken, Alloc
<1>14. b # pend[t]
  <2>1. pend[t] \in Pending(t)
    BY <1>4
  <2> QED BY <1>1, <1>10, <2>1 DEF ListsOK, Own
<1>11. /\ \A c \in Batches : c # b /\ c # pend[t] => Same(c)
      /\ dirty'[b] = dirty[b] /\ win'[b] = win[b] /\ procs'[b] = {p}
      /\ dirty'[pend[t]] = FALSE /\ win'[pend[t]] = 0 /\ procs'[pend[t]] = procs[pend[t]]
  BY <1>2, <1>14 DEF WakeNew, Woken, Set, To, Upd, Same, Setting
<1>12. /\ data' = data
  BY DEF WakeNew, Woken, Set, To, Upd
<1> QED BY <1>4, <1>7, <1>8, <1>9, <1>10, <1>14, <1>11, <1>12 DEF WakeNewEffect

NewFarEffect(t, b, L) ==
  /\ Pending(t) = {} /\ Held(t) = {} /\ Far(t) /\ pc[t] = "queue"
  /\ free'[t] = L /\ laundry'[t] = laundry'[t]
  /\ Pending(t)' = {b} /\ Held(t)' = {} /\ ~Far(t)' /\ pc'[t] = "run" /\ pend'[t] = b
  /\ pprio'[t] = Kind(far[t]) /\ hand' = hand
  /\ rq'[t] = rq[t]
  /\ b \in mem \cup free[t] \cup laundry[t] /\ Blank(b) /\ mem' = mem \ {b}
  /\ L \subseteq free[t] \cup laundry[t] /\ laundry'[t] \subseteq laundry[t]
  /\ L \cap laundry'[t] = {} /\ b \notin laundry'[t] /\ b \notin L /\ (\A x \in L : Blank(x))
  /\ free[t] \cup laundry[t] \cup mem = L \cup laundry'[t] \cup mem' \cup {b}
  /\ \A c \in Batches : c # b => Same(c)
  /\ dirty'[b] = dirty[b] /\ win'[b] = win[b] /\ procs'[b] = {far[t]}
  /\ data' = data

\* The affine process gets a new pending batch.
LEMMA NewFarFacts ==
  ASSUME MInv, NEW t \in Threads, NEW b \in Batches, NEW L \in SUBSET
   Batches, NewFar(t, b, L)
  PROVE  NewFarEffect(t, b, L)
<1>1. /\ TyQueues /\ TyBatch /\ TyLocals /\ CtlOK(t) /\ ListsOK(t)
      /\ mem \cap Own(t) = {} /\ size \in WindowSizes
  BY Types DEF MInv, ApartOK
<1>2. Setting(t)
  BY Settings
<1>4. /\ Pending(t) = {} /\ Held(t) = {} /\ Far(t) /\ pc[t] = "queue"
  BY <1>2 DEF NewFar, Far, Pending, Held, OwnPC, ShowPC, Setting
<1>7. /\ free'[t] = L /\ laundry'[t] = laundry'[t]
  BY <1>2 DEF NewFar, Set, To, Upd, Setting
<1>8. /\ Pending(t)' = {b} /\ Held(t)' = {} /\ ~Far(t)' /\ pc'[t] = "run" /\ pend'[t] = b
      /\ pprio'[t] = Kind(far[t]) /\ hand' = hand
  BY <1>2 DEF NewFar, Set, To, Upd, Far, Pending, Held, OwnPC, ShowPC, Setting
<1>9. /\ rq'[t] = rq[t]
  BY DEF NewFar, Set, To, Upd
<1>10. /\ b \in mem \cup free[t] \cup laundry[t] /\ Blank(b) /\ mem' = mem \ {b}
      /\ L \subseteq free[t] \cup laundry[t] /\ laundry'[t] \subseteq laundry[t]
      /\ L \cap laundry'[t] = {} /\ b \notin laundry'[t] /\ b \notin L
      /\ (\A x \in L : Blank(x))
      /\ free[t] \cup laundry[t] \cup mem = L \cup laundry'[t] \cup mem' \cup {b}
  BY DEF NewFar, Alloc
<1>11. /\ \A c \in Batches : c # b => Same(c)
      /\ dirty'[b] = dirty[b] /\ win'[b] = win[b] /\ procs'[b] = {far[t]}
  BY <1>2 DEF NewFar, Set, To, Upd, Same, Setting
<1>12. /\ data' = data
  BY DEF NewFar, Set, To, Upd
<1> QED BY <1>4, <1>7, <1>8, <1>9, <1>10, <1>11, <1>12 DEF NewFarEffect

LoadPendingEffect(t, b, L) ==
  /\ Pending(t) = {pend[t]} /\ Held(t) = {} /\ ~Far(t) /\ pc[t] \in {"run", "pick"}
  /\ curb[t] = {}
  /\ free'[t] = L \cup {pend[t]} /\ laundry'[t] = laundry'[t]
  /\ Pending(t)' = {b} /\ Held(t)' = {} /\ ~Far(t)' /\ pc'[t] = "run" /\ pend'[t] = b
  /\ pprio'[t] = "none" /\ hand' = hand
  /\ rq'[t] = rq[t]
  /\ b \in mem \cup free[t] \cup laundry[t] /\ b # pend[t] /\ Blank(b) /\ mem' = mem \ {b}
  /\ L \subseteq free[t] \cup laundry[t] /\ laundry'[t] \subseteq laundry[t]
  /\ L \cap laundry'[t] = {} /\ b \notin laundry'[t] /\ b \notin L /\ (\A x \in L : Blank(x))
  /\ free[t] \cup laundry[t] \cup mem = L \cup laundry'[t] \cup mem' \cup {b}
  /\ \A c \in Batches : c # pend[t] => Same(c)
  /\ dirty'[pend[t]] = dirty[pend[t]] /\ win'[pend[t]] = win[pend[t]] /\ procs'[pend[t]] = {}
  /\ data' = data

\* The pending batch is loaded.
LEMMA LoadPendingFacts ==
  ASSUME MInv, NEW t \in Threads, NEW b \in Batches, NEW L \in SUBSET
   Batches, LoadPending(t, b, L)
  PROVE  LoadPendingEffect(t, b, L)
<1>1. /\ TyQueues /\ TyBatch /\ TyLocals /\ CtlOK(t) /\ ListsOK(t)
      /\ mem \cap Own(t) = {} /\ size \in WindowSizes
  BY Types DEF MInv, ApartOK
<1>2. Setting(t)
  BY Settings
<1>4. /\ Pending(t) = {pend[t]} /\ Held(t) = {} /\ ~Far(t) /\ pc[t] \in {"run", "pick"}
  BY <1>2 DEF LoadPending, Load, Picking, Far, Pending, Held, OwnPC, ShowPC, Setting
<1>5. /\ curb[t] = {}
  BY <1>1, <1>4 DEF LoadPending, Load, Picking, CtlOK, ThiefPC, TookPC
<1>7. /\ free'[t] = L \cup {pend[t]} /\ laundry'[t] = laundry'[t]
  BY <1>2 DEF LoadPending, Load, Set, To, Upd, Picking, Setting
<1>8. /\ Pending(t)' = {b} /\ Held(t)' = {} /\ ~Far(t)' /\ pc'[t] = "run" /\ pend'[t] = b
      /\ pprio'[t] = "none" /\ hand' = hand
  BY <1>2 DEF LoadPending, Load, Set, To, Upd, Picking, Far, Pending, Held, OwnPC, ShowPC,
     Setting
<1>9. /\ rq'[t] = rq[t]
  BY DEF LoadPending, Load, Set, To, Upd, Picking
<1>10. /\ b \in mem \cup free[t] \cup laundry[t] /\ Blank(b) /\ mem' = mem \ {b}
      /\ L \subseteq free[t] \cup laundry[t] /\ laundry'[t] \subseteq laundry[t]
      /\ L \cap laundry'[t] = {} /\ b \notin laundry'[t] /\ b \notin L
      /\ (\A x \in L : Blank(x))
      /\ free[t] \cup laundry[t] \cup mem = L \cup laundry'[t] \cup mem' \cup {b}
  BY DEF LoadPending, Load, Alloc
<1>14. b # pend[t]
  <2>1. pend[t] \in Pending(t)
    BY <1>4
  <2> QED BY <1>1, <1>10, <2>1 DEF ListsOK, Own
<1>11. /\ \A c \in Batches : c # pend[t] => Same(c)
      /\ dirty'[pend[t]] = dirty[pend[t]] /\ win'[pend[t]] = win[pend[t]] /\ procs'[pend[t]] = {}
  BY <1>2 DEF LoadPending, Load, Set, To, Upd, Picking, Same, Setting
<1>12. /\ data' = data
  BY DEF LoadPending, Load, Set, To, Upd, Picking
<1> QED BY <1>4, <1>5, <1>7, <1>8, <1>9, <1>10, <1>14, <1>11, <1>12 DEF LoadPendingEffect

PullOwnEffect(t, b) ==
  /\ Pending(t) = {pend[t]} /\ Held(t) = {} /\ ~Far(t) /\ pc[t] \in {"run", "pick"}
  /\ curb[t] = {} /\ win[b] = 0
  /\ free'[t] = free[t] \cup {b} /\ laundry'[t] = laundry[t]
  /\ Pending(t)' = {pend[t]} /\ Held(t)' = {} /\ ~Far(t)' /\ pc'[t] = "run" /\ pend' = pend
  /\ pprio' = pprio /\ hand' = hand
  /\ Distinct(rq'[t]) /\ b \in ToSet(rq[t]) /\ ToSet(rq'[t]) = ToSet(rq[t]) \ {b}
  /\ mem' = mem
  /\ \A c \in Batches : c # b => Same(c)
  /\ dirty'[b] = dirty[b] /\ win'[b] = win[b] /\ procs'[b] = {}
  /\ data' = data

\* A batch that was never shown is loaded from the queue.
LEMMA PullOwnFacts ==
  ASSUME MInv, NEW t \in Threads, NEW b \in Batches, PullOwn(t, b)
  PROVE  PullOwnEffect(t, b)
<1>1. /\ TyQueues /\ TyBatch /\ TyLocals /\ CtlOK(t) /\ ListsOK(t)
      /\ mem \cap Own(t) = {} /\ size \in WindowSizes
  BY Types DEF MInv, ApartOK
<1>2. Setting(t)
  BY Settings
<1>4. /\ Pending(t) = {pend[t]} /\ Held(t) = {} /\ ~Far(t) /\ pc[t] \in {"run", "pick"}
      /\ win[b] = 0
  BY <1>2 DEF PullOwn, Load, Picking, Far, Pending, Held, OwnPC, ShowPC, Setting
<1>5. /\ curb[t] = {}
  BY <1>1, <1>4 DEF PullOwn, Load, Picking, CtlOK, ThiefPC, TookPC
<1>7. /\ free'[t] = free[t] \cup {b} /\ laundry'[t] = laundry[t]
  BY <1>2 DEF PullOwn, Load, Set, To, Upd, Picking, Setting
<1>8. /\ Pending(t)' = {pend[t]} /\ Held(t)' = {} /\ ~Far(t)' /\ pc'[t] = "run" /\ pend' = pend
      /\ pprio' = pprio /\ hand' = hand
  BY <1>2 DEF PullOwn, Load, Set, To, Upd, Picking, Far, Pending, Held, OwnPC, ShowPC, Setting
<1>9. /\ Distinct(rq'[t]) /\ b \in ToSet(rq[t]) /\ ToSet(rq'[t]) = ToSet(rq[t]) \ {b}
  BY DEF PullOwn, Load, Unlink
<1>10. /\ mem' = mem
  BY DEF PullOwn, Load, Set, To, Upd, Picking
<1>11. /\ \A c \in Batches : c # b => Same(c)
      /\ dirty'[b] = dirty[b] /\ win'[b] = win[b] /\ procs'[b] = {}
  BY <1>2 DEF PullOwn, Load, Set, To, Upd, Picking, Same, Setting
<1>12. /\ data' = data
  BY DEF PullOwn, Load, Set, To, Upd, Picking
<1> QED BY <1>4, <1>5, <1>7, <1>8, <1>9, <1>10, <1>11, <1>12 DEF PullOwnEffect

PullShownEffect(t, b) ==
  /\ Pending(t) = {pend[t]} /\ Held(t) = {} /\ ~Far(t) /\ pc[t] \in {"run", "pick"}
  /\ win[b] \in Slots /\ data[t][win[b]] = b
  /\ free'[t] = free[t] /\ laundry'[t] = laundry[t]
  /\ Pending(t)' = {pend[t]} /\ Held(t)' = {b} /\ ~Far(t)' /\ pc'[t] = "clear" /\ pend' = pend
  /\ pprio' = pprio /\ hand'[t] = b /\ slot'[t] = win[b]
  /\ Distinct(rq'[t]) /\ b \in ToSet(rq[t]) /\ ToSet(rq'[t]) = ToSet(rq[t]) \ {b}
  /\ mem' = mem
  /\ UNCHANGED <<dirty, win, procs>>
  /\ data' = [data EXCEPT ![t][win[b]] = None]

\* A shown batch that is still in its slot is taken out of it.
LEMMA PullShownFacts ==
  ASSUME MInv, NEW t \in Threads, NEW b \in Batches, PullShown(t, b)
  PROVE  PullShownEffect(t, b)
<1>1. /\ TyQueues /\ TyBatch /\ TyLocals /\ CtlOK(t) /\ ListsOK(t)
      /\ mem \cap Own(t) = {} /\ size \in WindowSizes
  BY Types DEF MInv, ApartOK
<1>2. Setting(t)
  BY Settings
<1>4. /\ Pending(t) = {pend[t]} /\ Held(t) = {} /\ ~Far(t) /\ pc[t] \in {"run", "pick"}
      /\ data[t][win[b]] = b
  BY <1>2 DEF PullShown, Picking, Far, Pending, Held, OwnPC, ShowPC, Setting
<1>6. win[b] \in Slots
  <2>1. win[b] \in 0..size /\ win[b] # 0
    BY <1>1 DEF TyBatch, PullShown
  <2> QED BY <1>1, <2>1, Constants
<1>7. /\ free'[t] = free[t] /\ laundry'[t] = laundry[t]
  BY <1>2 DEF PullShown, Set, To, Upd, Picking, Setting
<1>8. /\ Pending(t)' = {pend[t]} /\ Held(t)' = {b} /\ ~Far(t)' /\ pc'[t] = "clear"
      /\ pend' = pend /\ pprio' = pprio /\ hand'[t] = b /\ slot'[t] = win[b]
  BY <1>2 DEF PullShown, Set, To, Upd, Picking, Far, Pending, Held, OwnPC, ShowPC, Setting
<1>9. /\ Distinct(rq'[t]) /\ b \in ToSet(rq[t]) /\ ToSet(rq'[t]) = ToSet(rq[t]) \ {b}
  BY DEF PullShown, Unlink
<1>10. /\ mem' = mem
  BY DEF PullShown, Set, To, Upd, Picking
<1>11. /\ UNCHANGED <<dirty, win, procs>>
  BY <1>2 DEF PullShown, Set, To, Upd, Picking, Same, Setting
<1>12. /\ data' = [data EXCEPT ![t][win[b]] = None]
  BY DEF PullShown, Set, To, Upd, Picking
<1> QED BY <1>4, <1>6, <1>7, <1>8, <1>9, <1>10, <1>11, <1>12 DEF PullShownEffect

PullTakenEffect(t, b) ==
  /\ Pending(t) = {pend[t]} /\ Held(t) = {} /\ ~Far(t) /\ pc[t] \in {"run", "pick"}
  /\ win[b] \in Slots /\ data[t][win[b]] # b
  /\ free'[t] = free[t] /\ laundry'[t] = laundry[t] \cup {b}
  /\ Pending(t)' = {pend[t]} /\ Held(t)' = {} /\ ~Far(t)' /\ pc'[t] = "pick" /\ pend' = pend
  /\ pprio' = pprio /\ hand' = hand
  /\ Distinct(rq'[t]) /\ b \in ToSet(rq[t]) /\ ToSet(rq'[t]) = ToSet(rq[t]) \ {b}
  /\ mem' = mem
  /\ UNCHANGED <<dirty, win, procs>>
  /\ data' = data

\* A shown batch that a thief has taken goes to the laundry.
LEMMA PullTakenFacts ==
  ASSUME MInv, NEW t \in Threads, NEW b \in Batches, PullTaken(t, b)
  PROVE  PullTakenEffect(t, b)
<1>1. /\ TyQueues /\ TyBatch /\ TyLocals /\ CtlOK(t) /\ ListsOK(t)
      /\ mem \cap Own(t) = {} /\ size \in WindowSizes
  BY Types DEF MInv, ApartOK
<1>2. Setting(t)
  BY Settings
<1>4. /\ Pending(t) = {pend[t]} /\ Held(t) = {} /\ ~Far(t) /\ pc[t] \in {"run", "pick"}
      /\ data[t][win[b]] # b
  BY <1>2 DEF PullTaken, Picking, Far, Pending, Held, OwnPC, ShowPC, Setting
<1>6. win[b] \in Slots
  <2>1. win[b] \in 0..size /\ win[b] # 0
    BY <1>1 DEF TyBatch, PullTaken
  <2> QED BY <1>1, <2>1, Constants
<1>7. /\ free'[t] = free[t] /\ laundry'[t] = laundry[t] \cup {b}
  BY <1>2 DEF PullTaken, Set, To, Upd, Picking, Setting
<1>8. /\ Pending(t)' = {pend[t]} /\ Held(t)' = {} /\ ~Far(t)' /\ pc'[t] = "pick" /\ pend' = pend
      /\ pprio' = pprio /\ hand' = hand
  BY <1>2 DEF PullTaken, Set, To, Upd, Picking, Far, Pending, Held, OwnPC, ShowPC, Setting
<1>9. /\ Distinct(rq'[t]) /\ b \in ToSet(rq[t]) /\ ToSet(rq'[t]) = ToSet(rq[t]) \ {b}
  BY DEF PullTaken, Unlink
<1>10. /\ mem' = mem
  BY DEF PullTaken, Set, To, Upd, Picking
<1>11. /\ UNCHANGED <<dirty, win, procs>>
  BY <1>2 DEF PullTaken, Set, To, Upd, Picking, Same, Setting
<1>12. /\ data' = data
  BY DEF PullTaken, Set, To, Upd, Picking
<1> QED BY <1>4, <1>6, <1>7, <1>8, <1>9, <1>10, <1>11, <1>12 DEF PullTakenEffect

ClearReadEffect(t) ==
  /\ Pending(t) = {pend[t]} /\ Held(t) = {hand[t]} /\ ~Far(t) /\ pc[t] = "clear"
  /\ hand[t] \in Batches
  /\ free'[t] = free[t] /\ laundry'[t] = laundry[t]
  /\ Pending(t)' = {pend[t]} /\ Held(t)' = {hand[t]} /\ ~Far(t)' /\ pc'[t] = "unset"
  /\ pend' = pend /\ pprio' = pprio /\ hand' = hand /\ slot' = slot
  /\ rq'[t] = rq[t]
  /\ mem' = mem
  /\ UNCHANGED <<dirty, win, procs>>
  /\ data' = data

\* The window state is read, to drop the bit of the slot.
LEMMA ClearReadFacts ==
  ASSUME MInv, NEW t \in Threads, ClearRead(t)
  PROVE  ClearReadEffect(t)
<1>1. /\ TyQueues /\ TyBatch /\ TyLocals /\ CtlOK(t) /\ ListsOK(t)
      /\ mem \cap Own(t) = {} /\ size \in WindowSizes
  BY Types DEF MInv, ApartOK
<1>2. Setting(t)
  BY Settings
<1>4. /\ Pending(t) = {pend[t]} /\ Held(t) = {hand[t]} /\ ~Far(t) /\ pc[t] = "clear"
  BY <1>2 DEF ClearRead, Far, Pending, Held, OwnPC, ShowPC, Setting
<1>6. /\ hand[t] \in Batches
  BY Values DEF ClearRead, OwnPC, ThiefPC, TookPC
<1>7. /\ free'[t] = free[t] /\ laundry'[t] = laundry[t]
  BY <1>2 DEF ClearRead, batch, window, queues, Set, To, Upd, Setting
<1>8. /\ Pending(t)' = {pend[t]} /\ Held(t)' = {hand[t]} /\ ~Far(t)' /\ pc'[t] = "unset"
      /\ pend' = pend /\ pprio' = pprio /\ hand' = hand /\ slot' = slot
  BY <1>2 DEF ClearRead, batch, window, queues, Set, To, Upd, Far, Pending, Held, OwnPC,
     ShowPC, Setting
<1>9. /\ rq'[t] = rq[t]
  BY DEF ClearRead, batch, window, queues, Set, To, Upd
<1>10. /\ mem' = mem
  BY DEF ClearRead, batch, window, queues, Set, To, Upd
<1>11. /\ UNCHANGED <<dirty, win, procs>>
  BY <1>2 DEF ClearRead, batch, window, queues, Set, To, Upd, Same, Setting
<1>12. /\ data' = data
  BY DEF ClearRead, batch, window, queues, Set, To, Upd
<1> QED BY <1>4, <1>6, <1>7, <1>8, <1>9, <1>10, <1>11, <1>12 DEF ClearReadEffect

LoadClearedEffect(t) ==
  /\ Pending(t) = {pend[t]} /\ Held(t) = {hand[t]} /\ ~Far(t) /\ pc[t] = "unset"
  /\ hand[t] \in Batches /\ curb[t] = {}
  /\ free'[t] = free[t] \cup {hand[t]} /\ laundry'[t] = laundry[t]
  /\ Pending(t)' = {pend[t]} /\ Held(t)' = {} /\ ~Far(t)' /\ pc'[t] = "run" /\ pend' = pend
  /\ pprio' = pprio /\ hand'[t] = None
  /\ rq'[t] = rq[t]
  /\ mem' = mem
  /\ \A c \in Batches : c # hand[t] => Same(c)
  /\ dirty'[hand[t]] = FALSE /\ win'[hand[t]] = 0 /\ procs'[hand[t]] = {}
  /\ data' = data

\* The batch that was taken back is loaded.
LEMMA LoadClearedFacts ==
  ASSUME MInv, NEW t \in Threads, LoadCleared(t)
  PROVE  LoadClearedEffect(t)
<1>1. /\ TyQueues /\ TyBatch /\ TyLocals /\ CtlOK(t) /\ ListsOK(t)
      /\ mem \cap Own(t) = {} /\ size \in WindowSizes
  BY Types DEF MInv, ApartOK
<1>2. Setting(t)
  BY Settings
<1>4. /\ Pending(t) = {pend[t]} /\ Held(t) = {hand[t]} /\ ~Far(t) /\ pc[t] = "unset"
  BY <1>2 DEF LoadCleared, Load, Far, Pending, Held, OwnPC, ShowPC, Setting
<1>5. /\ curb[t] = {}
  BY <1>1, <1>4 DEF LoadCleared, Load, CtlOK, ThiefPC, TookPC
<1>6. /\ hand[t] \in Batches
  BY Values DEF LoadCleared, Load, OwnPC, ThiefPC, TookPC
<1>7. /\ free'[t] = free[t] \cup {hand[t]} /\ laundry'[t] = laundry[t]
  BY <1>2 DEF LoadCleared, Load, Set, To, Upd, Setting
<1>8. /\ Pending(t)' = {pend[t]} /\ Held(t)' = {} /\ ~Far(t)' /\ pc'[t] = "run" /\ pend' = pend
      /\ pprio' = pprio /\ hand'[t] = None
  BY <1>2 DEF LoadCleared, Load, Set, To, Upd, Far, Pending, Held, OwnPC, ShowPC, Setting
<1>9. /\ rq'[t] = rq[t]
  BY DEF LoadCleared, Load, Set, To, Upd
<1>10. /\ mem' = mem
  BY DEF LoadCleared, Load, Set, To, Upd
<1>11. /\ \A c \in Batches : c # hand[t] => Same(c)
      /\ dirty'[hand[t]] = FALSE /\ win'[hand[t]] = 0 /\ procs'[hand[t]] = {}
  BY <1>2, <1>6 DEF LoadCleared, Load, Set, To, Upd, Same, Setting
<1>12. /\ data' = data
  BY DEF LoadCleared, Load, Set, To, Upd
<1> QED BY <1>4, <1>5, <1>6, <1>7, <1>8, <1>9, <1>10, <1>11, <1>12 DEF LoadClearedEffect

WashEffect(t, keep) ==
  /\ Pending(t) = {pend[t]} /\ Held(t) = {} /\ ~Far(t) /\ pc[t] = "steal"
  /\ free'[t] = keep /\ laundry'[t] = laundry'[t]
  /\ Pending(t)' = {pend[t]} /\ Held(t)' = {} /\ ~Far(t)' /\ pc'[t] = "run" /\ pend' = pend
  /\ pprio' = pprio /\ hand' = hand
  /\ rq'[t] = rq[t]
  /\ keep \subseteq free[t] \cup laundry[t] /\ laundry'[t] \subseteq laundry[t]
  /\ keep \cap laundry'[t] = {} /\ mem' \cap (keep \cup laundry'[t]) = {}
  /\ mem' \subseteq mem \cup free[t] \cup laundry[t]
  /\ free[t] \cup laundry[t] \cup mem = keep \cup laundry'[t] \cup mem'
  /\ (\A x \in keep \cup mem' : Blank(x))
  /\ UNCHANGED <<dirty, win, procs>>
  /\ data' = data

\* Batches in the laundry that are clean are free again.
LEMMA WashFacts ==
  ASSUME MInv, NEW t \in Threads, NEW keep \in SUBSET Batches, Wash(t, keep)
  PROVE  WashEffect(t, keep)
<1>1. /\ TyQueues /\ TyBatch /\ TyLocals /\ CtlOK(t) /\ ListsOK(t)
      /\ mem \cap Own(t) = {} /\ size \in WindowSizes
  BY Types DEF MInv, ApartOK
<1>2. Setting(t)
  BY Settings
<1>4. /\ Pending(t) = {pend[t]} /\ Held(t) = {} /\ ~Far(t) /\ pc[t] = "steal"
  BY <1>2 DEF Wash, Far, Pending, Held, OwnPC, ShowPC, Setting
<1>7. /\ free'[t] = keep /\ laundry'[t] = laundry'[t]
  BY <1>2 DEF Wash, Set, To, Upd, Setting
<1>8. /\ Pending(t)' = {pend[t]} /\ Held(t)' = {} /\ ~Far(t)' /\ pc'[t] = "run" /\ pend' = pend
      /\ pprio' = pprio /\ hand' = hand
  BY <1>2 DEF Wash, Set, To, Upd, Far, Pending, Held, OwnPC, ShowPC, Setting
<1>9. /\ rq'[t] = rq[t]
  BY DEF Wash, Set, To, Upd
<1>10. /\ keep \subseteq free[t] \cup laundry[t] /\ laundry'[t] \subseteq laundry[t]
      /\ keep \cap laundry'[t] = {} /\ mem' \cap (keep \cup laundry'[t]) = {}
      /\ mem' \subseteq mem \cup free[t] \cup laundry[t]
      /\ free[t] \cup laundry[t] \cup mem = keep \cup laundry'[t] \cup mem'
      /\ (\A x \in keep \cup mem' : Blank(x))
  BY DEF Wash
<1>11. /\ UNCHANGED <<dirty, win, procs>>
  BY <1>2 DEF Wash, Set, To, Upd, Same, Setting
<1>12. /\ data' = data
  BY DEF Wash, Set, To, Upd
<1> QED BY <1>4, <1>7, <1>8, <1>9, <1>10, <1>11, <1>12 DEF WashEffect

VisitEffect(t) ==
  /\ Pending(t) = {pend[t]} /\ Held(t) = {} /\ ~Far(t) /\ pc[t] \notin OwnPC
  /\ free'[t] = free[t] /\ laundry'[t] = laundry[t]
  /\ Pending(t)' = {pend[t]} /\ Held(t)' = {} /\ ~Far(t)' /\ pc'[t] \in ThiefPC /\ pend' = pend
  /\ pprio' = pprio /\ hand' = hand
  /\ rq'[t] = rq[t]
  /\ mem' = mem
  /\ UNCHANGED <<dirty, win, procs>>
  /\ data' = data

\* Looking for work in windows touches no batch.
LEMMA VisitFacts ==
  ASSUME MInv, NEW t \in Threads, Visit(t)
  PROVE  VisitEffect(t)
<1>1. /\ TyQueues /\ TyBatch /\ TyLocals /\ CtlOK(t) /\ ListsOK(t)
      /\ mem \cap Own(t) = {} /\ size \in WindowSizes
  BY Types DEF MInv, ApartOK
<1>2. Setting(t)
  BY Settings
<1>4. /\ Pending(t) = {pend[t]} /\ Held(t) = {} /\ ~Far(t) /\ pc[t] \notin OwnPC
  BY <1>2 DEF Visit, PickNothing, Choose, Look, ClearBit, Gone, Hide, Found, Picking, Far,
     Pending, Held, OwnPC, ShowPC, Setting
<1>7. /\ free'[t] = free[t] /\ laundry'[t] = laundry[t]
  BY <1>2 DEF Visit, Set, To, Upd, PickNothing, Choose, Look, ClearBit, Gone, Hide, batch,
     window, queues, locals, Found, Picking, Setting
<1>13. cont[t] = "run"
  BY <1>2, <1>4 DEF Setting, Far, Visit, Picking, ShowPC, PickNothing, Choose, Look, ClearBit,
     Gone, Hide
<1>8. /\ Pending(t)' = {pend[t]} /\ Held(t)' = {} /\ ~Far(t)' /\ pc'[t] \in ThiefPC
      /\ pend' = pend /\ pprio' = pprio /\ hand' = hand
  BY <1>13 DEF Visit, Far, Pending, Held, OwnPC, ShowPC, ThiefPC, TookPC
<1>9. /\ rq'[t] = rq[t]
  BY DEF Visit, Set, To, Upd, PickNothing, Choose, Look, ClearBit, Gone, Hide, batch,
     window, queues, locals, Found, Picking
<1>10. /\ mem' = mem
  BY DEF Visit, Set, To, Upd, PickNothing, Choose, Look, ClearBit, Gone, Hide, batch,
     window, queues, locals, Found, Picking
<1>11. /\ UNCHANGED <<dirty, win, procs>>
  BY <1>2 DEF Visit, Set, To, Upd, PickNothing, Choose, Look, ClearBit, Gone, Hide, batch,
     window, queues, locals, Found, Picking, Same, Setting
<1>12. /\ data' = data
  BY DEF Visit, Set, To, Upd, PickNothing, Choose, Look, ClearBit, Gone, Hide, batch,
     window, queues, locals, Found, Picking
<1> QED BY <1>4, <1>7, <1>8, <1>9, <1>10, <1>11, <1>12 DEF VisitEffect

TakeEffect(t) ==
  /\ Pending(t) = {pend[t]} /\ Held(t) = {} /\ ~Far(t) /\ pc[t] = "take" /\ vic[t] \in Threads
  /\ slot[t] \in Slots
  /\ free'[t] = free[t] /\ laundry'[t] = laundry[t]
  /\ Pending(t)' = {pend[t]} /\ Held(t)' = {} /\ ~Far(t)' /\ pc'[t] \in {"bit", "gone"}
  /\ pend' = pend /\ pprio' = pprio /\ hand'[t] = data[vic[t]][slot[t]]
  /\ rq'[t] = rq[t]
  /\ mem' = mem
  /\ UNCHANGED <<dirty, win, procs>>
  /\ data' = [data EXCEPT ![vic[t]][slot[t]] = None]

\* A thief takes what is in the slot.
LEMMA TakeFacts ==
  ASSUME MInv, NEW t \in Threads, Take(t)
  PROVE  TakeEffect(t)
<1>1. /\ TyQueues /\ TyBatch /\ TyLocals /\ CtlOK(t) /\ ListsOK(t)
      /\ mem \cap Own(t) = {} /\ size \in WindowSizes
  BY Types DEF MInv, ApartOK
<1>2. Setting(t)
  BY Settings
<1>4. /\ Pending(t) = {pend[t]} /\ Held(t) = {} /\ ~Far(t) /\ pc[t] = "take"
  BY <1>2 DEF Take, Far, Pending, Held, OwnPC, ShowPC, Setting
<1>6. /\ vic[t] \in Threads /\ slot[t] \in Slots
  BY Values DEF Take, OwnPC, ThiefPC, TookPC
<1>7. /\ free'[t] = free[t] /\ laundry'[t] = laundry[t]
  BY <1>2 DEF Take, batch, queues, Set, To, Upd, Setting
<1>8. /\ Pending(t)' = {pend[t]} /\ Held(t)' = {} /\ ~Far(t)' /\ pc'[t] \in {"bit", "gone"}
      /\ pend' = pend /\ pprio' = pprio /\ hand'[t] = data[vic[t]][slot[t]]
  BY <1>2 DEF Take, batch, queues, Set, To, Upd, Far, Pending, Held, OwnPC, ShowPC, Setting
<1>9. /\ rq'[t] = rq[t]
  BY DEF Take, batch, queues, Set, To, Upd
<1>10. /\ mem' = mem
  BY DEF Take, batch, queues, Set, To, Upd
<1>11. /\ UNCHANGED <<dirty, win, procs>>
  BY <1>2 DEF Take, batch, queues, Set, To, Upd, Same, Setting
<1>12. /\ data' = [data EXCEPT ![vic[t]][slot[t]] = None]
  BY DEF Take, batch, queues, Set, To, Upd
<1> QED BY <1>4, <1>6, <1>7, <1>8, <1>9, <1>10, <1>11, <1>12 DEF TakeEffect

LoadRemoteEffect(t) ==
  /\ Pending(t) = {pend[t]} /\ Held(t) = {} /\ ~Far(t) /\ pc[t] = "load" /\ hand[t] \in Batches
  /\ vic[t] \in Threads /\ curb[t] = {}
  /\ free'[t] = free[t] /\ laundry'[t] = laundry[t]
  /\ Pending(t)' = {pend[t]} /\ Held(t)' = {} /\ ~Far(t)' /\ pc'[t] = "run" /\ pend' = pend
  /\ pprio' = pprio /\ hand'[t] = None
  /\ rq'[t] = rq[t]
  /\ mem' = mem
  /\ \A c \in Batches : c # hand[t] => Same(c)
  /\ dirty'[hand[t]] = FALSE /\ win'[hand[t]] = win[hand[t]] /\ procs'[hand[t]] = {}
  /\ data' = data

\* A thief copies the batch and cleans it.
LEMMA LoadRemoteFacts ==
  ASSUME MInv, NEW t \in Threads, LoadRemote(t)
  PROVE  LoadRemoteEffect(t)
<1>1. /\ TyQueues /\ TyBatch /\ TyLocals /\ CtlOK(t) /\ ListsOK(t)
      /\ mem \cap Own(t) = {} /\ size \in WindowSizes
  BY Types DEF MInv, ApartOK
<1>2. Setting(t)
  BY Settings
<1>4. /\ Pending(t) = {pend[t]} /\ Held(t) = {} /\ ~Far(t) /\ pc[t] = "load"
  BY <1>2 DEF LoadRemote, Far, Pending, Held, OwnPC, ShowPC, Setting
<1>5. /\ curb[t] = {}
  BY <1>1, <1>4 DEF LoadRemote, CtlOK, ThiefPC, TookPC
<1>6. /\ hand[t] \in Batches /\ vic[t] \in Threads
  BY Values DEF LoadRemote, OwnPC, ThiefPC, TookPC
<1>7. /\ free'[t] = free[t] /\ laundry'[t] = laundry[t]
  BY <1>2 DEF LoadRemote, window, Set, To, Upd, Setting
<1>8. /\ Pending(t)' = {pend[t]} /\ Held(t)' = {} /\ ~Far(t)' /\ pc'[t] = "run" /\ pend' = pend
      /\ pprio' = pprio /\ hand'[t] = None
  BY <1>2 DEF LoadRemote, window, Set, To, Upd, Far, Pending, Held, OwnPC, ShowPC, Setting
<1>9. /\ rq'[t] = rq[t]
  BY DEF LoadRemote, window, Set, To, Upd
<1>10. /\ mem' = mem
  BY DEF LoadRemote, window, Set, To, Upd
<1>11. /\ \A c \in Batches : c # hand[t] => Same(c)
      /\ dirty'[hand[t]] = FALSE /\ win'[hand[t]] = win[hand[t]] /\ procs'[hand[t]] = {}
  BY <1>2, <1>6 DEF LoadRemote, window, Set, To, Upd, Same, Setting
<1>12. /\ data' = data
  BY DEF LoadRemote, window, Set, To, Upd
<1> QED BY <1>4, <1>5, <1>6, <1>7, <1>8, <1>9, <1>10, <1>11, <1>12 DEF LoadRemoteEffect


-----------------------------------------------------------------------------
(* The lists of batches                                                    *)

\* A step moves batches between the lists of its thread and the allocator.
LEMMA ListsStep ==
  ASSUME MInv, NEW t \in Threads, Event(t)
  PROVE  ListsOK(t)' /\ mem' \cap Own(t)' = {} /\ mem' \cup Own(t)' = mem \cup Own(t)
<1> DEFINE Goal == ListsOK(t)' /\ mem' \cap Own(t)' = {} /\ mem' \cup Own(t)' = mem \cup Own(t)
<1>1. ListsOK(t) /\ mem \cap Own(t) = {}
  BY DEF MInv, ApartOK
<1>100. ASSUME NEW b \in Batches, NEW L \in SUBSET Batches, NEW ps \in SUBSET Procs, NEW n \in
   {"pick", "save"}, PushFree(t, b, L, ps, n) PROVE Goal
  <2>1. PushFreeEffect(t, b, L, ps, n)
    BY <1>100, PushFreeFacts
  <2> QED BY ONLY <1>1, <2>1 DEF ListsOK, Own, PushFreeEffect
<1>101. ASSUME NEW b \in Batches, NEW L \in SUBSET Batches, NEW ps \in SUBSET Procs, NEW n \in
   {"pick", "save"}, PushLink(t, b, L, ps, n) PROVE Goal
  <2>1. PushLinkEffect(t, b, L, ps, n)
    BY <1>101, PushLinkFacts
  <2> QED BY ONLY <1>1, <2>1 DEF ListsOK, Own, PushLinkEffect
<1>102. ASSUME NEW b \in Batches, NEW L \in SUBSET Batches, NEW ps \in SUBSET Procs, NEW n \in
   {"pick", "save"}, PushShow(t, b, L, ps, n) PROVE Goal
  <2>1. PushShowEffect(t, b, L, ps, n)
    BY <1>102, PushShowFacts
  <2> QED BY ONLY <1>1, <2>1 DEF ListsOK, Own, PushShowEffect
<1>103. ASSUME ReadState(t) PROVE Goal
  <2>1. ReadStateEffect(t)
    BY <1>103, ReadStateFacts
  <2> QED BY ONLY <1>1, <2>1 DEF ListsOK, Own, ReadStateEffect
<1>104. ASSUME Show(t) PROVE Goal
  <2>1. ShowEffect(t)
    BY <1>104, ShowFacts
  <2> QED BY ONLY <1>1, <2>1 DEF ListsOK, Own, ShowEffect
<1>105. ASSUME Enlist(t) PROVE Goal
  <2>1. EnlistEffect(t)
    BY <1>105, EnlistFacts
  <2> QED BY ONLY <1>1, <2>1 DEF ListsOK, Own, EnlistEffect
<1>106. ASSUME MarkWork(t) PROVE Goal
  <2>1. MarkWorkEffect(t)
    BY <1>106, MarkWorkFacts
  <2> QED BY ONLY <1>1, <2>1 DEF ListsOK, Own, MarkWorkEffect
<1>107. ASSUME Block(t) PROVE Goal
  <2>1. BlockEffect(t)
    BY <1>107, BlockFacts
  <2> QED BY ONLY <1>1, <2>1 DEF ListsOK, Own, BlockEffect
<1>108. ASSUME NEW p \in Procs, WakeCurb(t, p) PROVE Goal
  <2>1. WakeCurbEffect(t, p)
    BY <1>108, WakeCurbFacts
  <2> QED BY ONLY <1>1, <2>1 DEF ListsOK, Own, WakeCurbEffect
<1>109. ASSUME NEW p \in Procs, WakePend(t, p) PROVE Goal
  <2>1. WakePendEffect(t, p)
    BY <1>109, WakePendFacts
  <2> QED BY ONLY <1>1, <2>1 DEF ListsOK, Own, WakePendEffect
<1>110. ASSUME NEW p \in Procs, WakeFar(t, p) PROVE Goal
  <2>1. WakeFarEffect(t, p)
    BY <1>110, WakeFarFacts
  <2> QED BY ONLY <1>1, <2>1 DEF ListsOK, Own, WakeFarEffect
<1>111. ASSUME NEW p \in Procs, NEW b \in Batches, NEW L \in SUBSET Batches, WakeNew(t, p, b,
   L) PROVE Goal
  <2>1. WakeNewEffect(t, p, b, L)
    BY <1>111, WakeNewFacts
  <2> QED BY ONLY <1>1, <2>1 DEF ListsOK, Own, WakeNewEffect
<1>112. ASSUME NEW b \in Batches, NEW L \in SUBSET Batches, NewFar(t, b, L) PROVE Goal
  <2>1. NewFarEffect(t, b, L)
    BY <1>112, NewFarFacts
  <2> QED BY ONLY <1>1, <2>1 DEF ListsOK, Own, NewFarEffect
<1>113. ASSUME NEW b \in Batches, NEW L \in SUBSET Batches, LoadPending(t, b, L) PROVE Goal
  <2>1. LoadPendingEffect(t, b, L)
    BY <1>113, LoadPendingFacts
  <2> QED BY ONLY <1>1, <2>1 DEF ListsOK, Own, LoadPendingEffect
<1>114. ASSUME NEW b \in Batches, PullOwn(t, b) PROVE Goal
  <2>1. PullOwnEffect(t, b)
    BY <1>114, PullOwnFacts
  <2> QED BY ONLY <1>1, <2>1 DEF ListsOK, Own, PullOwnEffect
<1>115. ASSUME NEW b \in Batches, PullShown(t, b) PROVE Goal
  <2>1. PullShownEffect(t, b)
    BY <1>115, PullShownFacts
  <2> QED BY ONLY <1>1, <2>1 DEF ListsOK, Own, PullShownEffect
<1>116. ASSUME NEW b \in Batches, PullTaken(t, b) PROVE Goal
  <2>1. PullTakenEffect(t, b)
    BY <1>116, PullTakenFacts
  <2> QED BY ONLY <1>1, <2>1 DEF ListsOK, Own, PullTakenEffect
<1>117. ASSUME ClearRead(t) PROVE Goal
  <2>1. ClearReadEffect(t)
    BY <1>117, ClearReadFacts
  <2> QED BY ONLY <1>1, <2>1 DEF ListsOK, Own, ClearReadEffect
<1>118. ASSUME LoadCleared(t) PROVE Goal
  <2>1. LoadClearedEffect(t)
    BY <1>118, LoadClearedFacts
  <2> QED BY ONLY <1>1, <2>1 DEF ListsOK, Own, LoadClearedEffect
<1>119. ASSUME NEW keep \in SUBSET Batches, Wash(t, keep) PROVE Goal
  <2>1. WashEffect(t, keep)
    BY <1>119, WashFacts
  <2> QED BY ONLY <1>1, <2>1 DEF ListsOK, Own, WashEffect
<1>120. ASSUME Visit(t) PROVE Goal
  <2>1. VisitEffect(t)
    BY <1>120, VisitFacts
  <2> QED BY ONLY <1>1, <2>1 DEF ListsOK, Own, VisitEffect
<1>121. ASSUME Take(t) PROVE Goal
  <2>1. TakeEffect(t)
    BY <1>121, TakeFacts
  <2> QED BY ONLY <1>1, <2>1 DEF ListsOK, Own, TakeEffect
<1>122. ASSUME LoadRemote(t) PROVE Goal
  <2>1. LoadRemoteEffect(t)
    BY <1>122, LoadRemoteFacts
  <2> QED BY ONLY <1>1, <2>1 DEF ListsOK, Own, LoadRemoteEffect
<1> QED BY <1>100, <1>101, <1>102, <1>103, <1>104, <1>105, <1>106, <1>107, <1>108, <1>109,
   <1>110, <1>111, <1>112, <1>113, <1>114, <1>115, <1>116, <1>117, <1>118, <1>119, <1>120,
   <1>121, <1>122 DEF Event

\* Every batch stays in one place.
LEMMA ApartStep ==
  ASSUME MInv, NEW t \in Threads, Event(t)
  PROVE  (\A u \in Threads : ListsOK(u))' /\ ApartOK'
<1>1. (\A u \in Threads : ListsOK(u)) /\ ApartOK
  BY DEF MInv
<1>2. ListsOK(t)' /\ mem' \cap Own(t)' = {} /\ mem' \cup Own(t)' = mem \cup Own(t)
  BY ListsStep
<1>3. \A u \in Threads : u # t => Own(u)' = Own(u)
  BY OthersStep
<1>4. ASSUME NEW u \in Threads, u # t PROVE ListsOK(u)'
  <2>1. SameLists(u) /\ Held(u)' = Held(u) /\ Pending(u)' = Pending(u) /\ ListsOK(u)
    BY <1>1, <1>4, OthersStep
  <2> QED BY <2>1 DEF ListsOK, SameLists
<1>5. \A u \in Threads : mem' \cap Own(u)' = {}
  BY <1>1, <1>2, <1>3 DEF ApartOK
<1>6. \A u, v \in Threads : u # v => Own(u)' \cap Own(v)' = {}
  BY <1>1, <1>2, <1>3 DEF ApartOK
<1>7. \A b \in Batches : b \in mem' \/ \E u \in Threads : b \in Own(u)'
  BY <1>1, <1>2, <1>3 DEF ApartOK
<1>8. \A u \in Threads : ListsOK(u)'
  BY <1>2, <1>4
<1> QED BY <1>5, <1>6, <1>7, <1>8 DEF ApartOK

-----------------------------------------------------------------------------
(* Control                                                                 *)

\* Only the thread itself says that it has work.
LEMMA WorkStep ==
  ASSUME MInv, NEW t \in Threads, Event(t), NEW u \in Threads, u # t PROVE mwstate'[u] => mwstate[u]
<1>1. TyWindow /\ TyLocals
  BY Types DEF MInv
<1>2. /\ mwstate \in [Threads -> BOOLEAN]
  BY <1>1 DEF TyWindow
<1>100. ASSUME NEW b \in Batches, NEW L \in SUBSET Batches, NEW ps \in SUBSET Procs, NEW n \in
   {"pick", "save"}, PushFree(t, b, L, ps, n) PROVE mwstate'[u] => mwstate[u]
  BY <1>2, <1>100 DEF PushFree, Push, Set, Upd
<1>101. ASSUME NEW b \in Batches, NEW L \in SUBSET Batches, NEW ps \in SUBSET Procs, NEW n \in
   {"pick", "save"}, PushLink(t, b, L, ps, n) PROVE mwstate'[u] => mwstate[u]
  BY <1>2, <1>101 DEF PushLink, Push, Set, Upd
<1>102. ASSUME NEW b \in Batches, NEW L \in SUBSET Batches, NEW ps \in SUBSET Procs, NEW n \in
   {"pick", "save"}, PushShow(t, b, L, ps, n) PROVE mwstate'[u] => mwstate[u]
  BY <1>2, <1>102 DEF PushShow, Push, Set, Upd
<1>103. CASE ReadState(t)
  BY <1>2, <1>103 DEF ReadState, window, queues, Set, Upd
<1>104. CASE Show(t)
  BY <1>2, <1>104 DEF Show, queues, locals, Set, Upd
<1>105. CASE Enlist(t)
  BY <1>2, <1>105 DEF Enlist, WriteState, batch, Set, Upd
<1>106. CASE MarkWork(t)
  BY <1>2, <1>106 DEF MarkWork, batch, queues, Set, Upd
<1>107. CASE Block(t)
  BY <1>2, <1>107 DEF Block, batch, window, locals, Set, Upd
<1>108. ASSUME NEW p \in Procs, WakeCurb(t, p) PROVE mwstate'[u] => mwstate[u]
  BY <1>2, <1>108 DEF WakeCurb, Woken, Set, Upd
<1>109. ASSUME NEW p \in Procs, WakePend(t, p) PROVE mwstate'[u] => mwstate[u]
  BY <1>2, <1>109 DEF WakePend, Woken, Set, Upd
<1>110. ASSUME NEW p \in Procs, WakeFar(t, p) PROVE mwstate'[u] => mwstate[u]
  BY <1>2, <1>110 DEF WakeFar, Woken, Set, Upd
<1>111. ASSUME NEW p \in Procs, NEW b \in Batches, NEW L \in SUBSET Batches, WakeNew(t, p, b,
   L) PROVE mwstate'[u] => mwstate[u]
  BY <1>2, <1>111 DEF WakeNew, Woken, Set, Upd
<1>112. ASSUME NEW b \in Batches, NEW L \in SUBSET Batches, NewFar(t, b, L) PROVE mwstate'[u]
   => mwstate[u]
  BY <1>2, <1>112 DEF NewFar, Set, Upd
<1>113. ASSUME NEW b \in Batches, NEW L \in SUBSET Batches, LoadPending(t, b, L) PROVE
   mwstate'[u] => mwstate[u]
  BY <1>2, <1>113 DEF LoadPending, Load, Set, Upd
<1>114. ASSUME NEW b \in Batches, PullOwn(t, b) PROVE mwstate'[u] => mwstate[u]
  BY <1>2, <1>114 DEF PullOwn, Load, Set, Upd
<1>115. ASSUME NEW b \in Batches, PullShown(t, b) PROVE mwstate'[u] => mwstate[u]
  BY <1>2, <1>115 DEF PullShown, Set, Upd
<1>116. ASSUME NEW b \in Batches, PullTaken(t, b) PROVE mwstate'[u] => mwstate[u]
  BY <1>2, <1>116 DEF PullTaken, Set, Upd
<1>117. CASE ClearRead(t)
  BY <1>2, <1>117 DEF ClearRead, batch, window, queues, Set, Upd
<1>118. CASE LoadCleared(t)
  BY <1>2, <1>118 DEF LoadCleared, Load, Set, Upd
<1>119. ASSUME NEW keep \in SUBSET Batches, Wash(t, keep) PROVE mwstate'[u] => mwstate[u]
  BY <1>2, <1>119 DEF Wash, Set, Upd
<1>120. CASE Visit(t)
  BY <1>2, <1>120 DEF Visit, Set, Upd, window, PickNothing, Choose, Look, ClearBit, Gone, Hide
<1>121. CASE Take(t)
  BY <1>2, <1>121 DEF Take, batch, queues, Set, Upd
<1>122. CASE LoadRemote(t)
  BY <1>2, <1>122 DEF LoadRemote, window, Set, Upd
<1> QED BY <1>100, <1>101, <1>102, <1>103, <1>104, <1>105, <1>106, <1>107, <1>108, <1>109,
   <1>110, <1>111, <1>112, <1>113, <1>114, <1>115, <1>116, <1>117, <1>118, <1>119, <1>120,
   <1>121, <1>122 DEF Event

\* A step keeps the control state of its thread.
LEMMA CtlStep ==
  ASSUME MInv, NEW t \in Threads, Event(t) PROVE CtlOK(t)'
<1>1. TyQueues /\ TyBatch /\ TyWindow /\ TyLocals /\ CtlOK(t)
  BY Types DEF MInv
<1>2. /\ curb \in [Threads -> SUBSET Procs] /\ DOMAIN pend = Threads /\ DOMAIN pc = Threads
      /\ DOMAIN cont = Threads /\ DOMAIN hand = Threads /\ DOMAIN far = Threads
      /\ seen \in [Threads -> WState] /\ DOMAIN slot = Threads /\ DOMAIN vic = Threads
      /\ mwstate \in [Threads -> BOOLEAN] /\ pend[t] \in Batches
  BY <1>1 DEF TyQueues, TyWindow, TyLocals
<1>3. None \notin Procs /\ None \notin Threads /\ None \notin Batches
  BY MigrationAssumption
<1> USE DEF OwnPC, TookPC, ThiefPC, ShowPC
<1>100. ASSUME NEW b \in Batches, NEW L \in SUBSET Batches, NEW ps \in SUBSET Procs, NEW n \in
   {"pick", "save"}, PushFree(t, b, L, ps, n) PROVE CtlOK(t)'
  BY <1>1, <1>2, <1>3, <1>100 DEF PushFree, Push, Set, To, Upd, CtlOK, Far
<1>101. ASSUME NEW b \in Batches, NEW L \in SUBSET Batches, NEW ps \in SUBSET Procs, NEW n \in
   {"pick", "save"}, PushLink(t, b, L, ps, n) PROVE CtlOK(t)'
  BY <1>1, <1>2, <1>3, <1>101 DEF PushLink, Push, Set, To, Upd, CtlOK, Far
<1>102. ASSUME NEW b \in Batches, NEW L \in SUBSET Batches, NEW ps \in SUBSET Procs, NEW n \in
   {"pick", "save"}, PushShow(t, b, L, ps, n) PROVE CtlOK(t)'
  BY <1>1, <1>2, <1>3, <1>102 DEF PushShow, Push, Set, To, Upd, CtlOK, Far
<1>103. CASE ReadState(t)
  <2>1. NextHead(mw[t].head) # 0 /\ hand[t] \in Batches
    <3>1. NextHead(mw[t].head) \in Slots /\ hand[t] \in Batches
      BY <1>103, Values DEF ReadState
    <3> QED BY <3>1, Constants, Types DEF MInv
  <2> QED BY <1>1, <1>2, <1>3, <1>103, <2>1 DEF ReadState, window, queues, Set, To, Upd,
     CtlOK, Far
<1>104. CASE Show(t)
  BY <1>1, <1>2, <1>3, <1>104 DEF Show, queues, locals, Set, To, Upd, CtlOK, Far
<1>105. CASE Enlist(t)
  BY <1>1, <1>2, <1>3, <1>105 DEF Enlist, WriteState, batch, Set, To, Upd, CtlOK, Far
<1>106. CASE MarkWork(t)
  BY <1>1, <1>2, <1>3, <1>106 DEF MarkWork, batch, queues, Set, To, Upd, CtlOK, Far
<1>107. CASE Block(t)
  BY <1>1, <1>2, <1>3, <1>107 DEF Block, batch, window, locals, Set, To, Upd, CtlOK, Far
<1>108. ASSUME NEW p \in Procs, WakeCurb(t, p) PROVE CtlOK(t)'
  BY <1>1, <1>2, <1>3, <1>108 DEF WakeCurb, Woken, Set, To, Upd, CtlOK, Far
<1>109. ASSUME NEW p \in Procs, WakePend(t, p) PROVE CtlOK(t)'
  BY <1>1, <1>2, <1>3, <1>109 DEF WakePend, Woken, Set, To, Upd, CtlOK, Far
<1>110. ASSUME NEW p \in Procs, WakeFar(t, p) PROVE CtlOK(t)'
  BY <1>1, <1>2, <1>3, <1>110 DEF WakeFar, Woken, Set, To, Upd, CtlOK, Far
<1>111. ASSUME NEW p \in Procs, NEW b \in Batches, NEW L \in SUBSET Batches, WakeNew(t, p, b,
   L) PROVE CtlOK(t)'
  BY <1>1, <1>2, <1>3, <1>111 DEF WakeNew, Woken, Set, To, Upd, CtlOK, Far
<1>112. ASSUME NEW b \in Batches, NEW L \in SUBSET Batches, NewFar(t, b, L) PROVE CtlOK(t)'
  BY <1>1, <1>2, <1>3, <1>112 DEF NewFar, Set, To, Upd, CtlOK, Far
<1>113. ASSUME NEW b \in Batches, NEW L \in SUBSET Batches, LoadPending(t, b, L) PROVE
   CtlOK(t)'
  BY <1>1, <1>2, <1>3, <1>113 DEF LoadPending, Load, Set, To, Upd, CtlOK, Far, Picking
<1>114. ASSUME NEW b \in Batches, PullOwn(t, b) PROVE CtlOK(t)'
  BY <1>1, <1>2, <1>3, <1>114 DEF PullOwn, Load, Set, To, Upd, CtlOK, Far, Picking
<1>115. ASSUME NEW b \in Batches, PullShown(t, b) PROVE CtlOK(t)'
  BY <1>1, <1>2, <1>3, <1>115 DEF PullShown, Set, To, Upd, CtlOK, Far, Picking
<1>116. ASSUME NEW b \in Batches, PullTaken(t, b) PROVE CtlOK(t)'
  BY <1>1, <1>2, <1>3, <1>116 DEF PullTaken, Set, To, Upd, CtlOK, Far, Picking
<1>117. CASE ClearRead(t)
  BY <1>1, <1>2, <1>3, <1>117 DEF ClearRead, batch, window, queues, Set, To, Upd, CtlOK, Far
<1>118. CASE LoadCleared(t)
  BY <1>1, <1>2, <1>3, <1>118 DEF LoadCleared, Load, Set, To, Upd, CtlOK, Far
<1>119. ASSUME NEW keep \in SUBSET Batches, Wash(t, keep) PROVE CtlOK(t)'
  BY <1>1, <1>2, <1>3, <1>119 DEF Wash, Set, To, Upd, CtlOK, Far
<1>120. CASE Visit(t)
  <2>1. CASE PickNothing(t)
    BY <1>1, <1>2, <1>3, <2>1 DEF PickNothing, Set, To, CtlOK, Far, Found, Picking, queues,
       window, locals
  <2>2. CASE Choose(t)
    BY <1>1, <1>2, <1>3, <2>2 DEF Choose, Set, To, CtlOK, Far, Found, Picking, queues, window,
       locals
  <2>3. CASE Look(t)
    BY <1>1, <1>2, <1>3, <2>3 DEF Look, Set, To, CtlOK, Far, queues, window
  <2>4. CASE ClearBit(t)
    <3>1. Preferred(seen[t]) # 0
      <4>1. Preferred(seen[t]) \in Slots
        BY <2>4, Values DEF ClearBit
      <4> QED BY <4>1, Constants, Types DEF MInv
    <3> QED BY <1>1, <1>2, <1>3, <2>4, <3>1 DEF ClearBit, Set, To, CtlOK, Far, queues
  <2>5. CASE Gone(t)
    BY <1>1, <1>2, <1>3, <2>5 DEF Gone, Set, To, CtlOK, Far, Found, Picking, queues, window, locals
  <2>6. CASE Hide(t)
    BY <1>1, <1>2, <1>3, <2>6 DEF Hide, Set, To, CtlOK, Far, Found, Picking, queues, window, locals
  <2> QED BY <2>1, <2>2, <2>3, <2>4, <2>5, <2>6, <1>120 DEF Visit
<1>121. CASE Take(t)
  BY <1>1, <1>2, <1>3, <1>121 DEF Take, batch, queues, Set, To, Upd, CtlOK, Far
<1>122. CASE LoadRemote(t)
  BY <1>1, <1>2, <1>3, <1>122 DEF LoadRemote, window, Set, To, Upd, CtlOK, Far
<1> QED BY <1>100, <1>101, <1>102, <1>103, <1>104, <1>105, <1>106, <1>107, <1>108, <1>109,
   <1>110, <1>111, <1>112, <1>113, <1>114, <1>115, <1>116, <1>117, <1>118, <1>119, <1>120,
   <1>121, <1>122 DEF Event

\* A step keeps the control state of all threads.
LEMMA ControlStep ==
  ASSUME MInv, NEW t \in Threads, Event(t) PROVE (\A u \in Threads : CtlOK(u))'
<1>1. \A u \in Threads : CtlOK(u)
  BY DEF MInv
<1>2. CtlOK(t)'
  BY CtlStep
<1>3. ASSUME NEW u \in Threads, u # t PROVE CtlOK(u)'
  <2>1. SameLists(u) /\ SamePlace(u) /\ Far(u)' = Far(u) /\ CtlOK(u) /\ (mwstate'[u] => mwstate[u])
    BY <1>1, <1>3, OthersStep, WorkStep
  <2> QED BY <2>1 DEF CtlOK, SameLists, SamePlace
<1> QED BY <1>2, <1>3

-----------------------------------------------------------------------------
(* Batches that a step does not touch                                      *)

\* A batch that was taken is dirty, has left the window, and is in the lists
\* of its thread that other threads know of.
LEMMA AwayFacts ==
  ASSUME MInv, NEW b \in Batches, Away(b)
  PROVE  /\ dirty[b] /\ win[b] # 0 /\ procs[b] # {} /\ b \notin mem
         /\ \A t \in Threads :
              /\ b \notin free[t] /\ b \notin Pending(t)
              /\ pc[t] \in OwnPC \ {"state"} => hand[t] # b
              /\ \A w \in Slots : data[t][w] # b
<1>1. PICK u \in Threads : Took(u) /\ hand[u] = b
  BY DEF Away
<1>2. TookOK(u) /\ CtlOK(u) /\ ApartOK /\ TyLocals /\ \A t \in Threads : ListsOK(t)
  BY Types DEF MInv
<1>3. /\ dirty[b] /\ win[b] # 0 /\ procs[b] # {} /\ b \in Shown(vic[u]) \cup laundry[vic[u]]
      /\ \A t \in Threads, w \in Slots : data[t][w] # b
  BY <1>1, <1>2 DEF TookOK
<1>4. vic[u] \in Threads
  BY <1>1, <1>2 DEF CtlOK, TyLocals, Took, ThiefPC, TookPC
<1> DEFINE v == vic[u]
<1>5. b \in Own(v)
  BY <1>3 DEF Own, Shown, Held, OwnPC
<1>6. b \notin free[v] /\ b \notin Pending(v) /\ (pc[v] \in OwnPC \ {"state"} => hand[v] # b)
  BY <1>2, <1>3, <1>4 DEF ListsOK, Shown, Held, OwnPC
<1>7. ASSUME NEW t \in Threads, t # v
      PROVE  b \notin free[t] /\ b \notin Pending(t) /\ (pc[t] \in OwnPC \ {"state"} => hand[t] # b)
  <2>1. b \notin Own(t)
    BY <1>2, <1>4, <1>5, <1>7 DEF ApartOK
  <2> QED BY <2>1 DEF Own, Held
<1>8. b \notin mem
  BY <1>2, <1>4, <1>5 DEF ApartOK
<1> QED BY <1>3, <1>6, <1>7, <1>8

\* A thread touches batches of its own that are not taken, or the one it has
\* taken.
LEMMA FrameStep ==
  ASSUME MInv, NEW t \in Threads, Event(t), NEW x \in Batches,
         IF pc[t] = "load" THEN x # hand[t] ELSE x \notin mem \cup Own(t) \/ Away(x)
  PROVE  Same(x)
<1>1. TyBatch /\ TyQueues /\ TyLocals /\ TyWindow /\ CtlOK(t) /\ DataOK(t) /\ ApartOK
  BY Types DEF MInv
<1>2. DOMAIN dirty = Batches /\ DOMAIN win = Batches /\ DOMAIN procs = Batches
         /\ pend[t] \in Batches
  BY <1>1 DEF TyBatch, TyQueues
<1>3. pc[t] # "load" => /\ \A c \in mem \cup free[t] \cup laundry[t] : Blank(c) => c # x
                        /\ ~Far(t) => pend[t] # x
                        /\ pc[t] \in OwnPC \ {"state"} => hand[t] # x
                        /\ \A w \in Slots : data[t][w] # x
                        /\ x \in ToSet(rq[t]) => win[x] # 0
  <2>1. CASE pc[t] # "load" /\ x \notin mem \cup Own(t)
    <3>1. x \notin Shown(t)
      BY <2>1 DEF Own, Shown, Held, OwnPC
    <3>2. ~Far(t) => pend[t] # x
      BY <2>1 DEF Own, Pending
    <3>3. pc[t] \in OwnPC \ {"state"} => hand[t] # x
      BY <2>1 DEF Own, Held
    <3>4. \A w \in Slots : data[t][w] # x
      <4>1. x # None
        BY MigrationAssumption
      <4> QED BY <1>1, <3>1, <4>1 DEF DataOK
    <3> QED BY <2>1, <3>2, <3>3, <3>4 DEF Own
  <2>2. CASE Away(x)
    <3>1. /\ dirty[x] /\ win[x] # 0 /\ x \notin Pending(t)
          /\ pc[t] \in OwnPC \ {"state"} => hand[t] # x
          /\ \A w \in Slots : data[t][w] # x
      BY <2>2, AwayFacts
    <3> QED BY <3>1 DEF Pending, Blank
  <2> QED BY <2>1, <2>2
<1>4. pc[t] \notin ShowPC => cont[t] = "run"
  BY <1>1 DEF CtlOK
<1>100. ASSUME NEW b \in Batches, NEW L \in SUBSET Batches, NEW ps \in SUBSET Procs, NEW n \in
   {"pick", "save"}, PushFree(t, b, L, ps, n) PROVE Same(x)
  BY <1>2, <1>3, <1>4, <1>100 DEF PushFree, Push, Alloc, Set, Upd, Same, Far, ShowPC
<1>101. ASSUME NEW b \in Batches, NEW L \in SUBSET Batches, NEW ps \in SUBSET Procs, NEW n \in
   {"pick", "save"}, PushLink(t, b, L, ps, n) PROVE Same(x)
  BY <1>2, <1>3, <1>4, <1>101 DEF PushLink, Push, Alloc, Set, Upd, Same, Far, ShowPC
<1>102. ASSUME NEW b \in Batches, NEW L \in SUBSET Batches, NEW ps \in SUBSET Procs, NEW n \in
   {"pick", "save"}, PushShow(t, b, L, ps, n) PROVE Same(x)
  BY <1>2, <1>3, <1>4, <1>102 DEF PushShow, Push, Alloc, Set, Upd, Same, Far, ShowPC
<1>103. CASE ReadState(t)
  BY <1>2, <1>3, <1>4, <1>103 DEF ReadState, window, queues, Set, Upd, Same, OwnPC
<1>104. CASE Show(t)
  <2>1. slot[t] \in Slots /\ pc[t] # "load"
    BY <1>104, Values DEF Show
  <2> DEFINE old == data[t][slot[t]]
  <2>2. old # x /\ (old # None => old \in Batches)
    BY <1>1, <1>3, <2>1 DEF TyWindow
  <2>3. /\ procs' = procs
        /\ (win' = Upd(win, old, 0) /\ dirty' = Upd(dirty, old, FALSE)) \/ UNCHANGED <<win, dirty>>
    BY <1>104 DEF Show, Set, Upd
  <2> QED BY <1>2, <2>2, <2>3 DEF Same, Upd
<1>105. CASE Enlist(t)
  BY <1>2, <1>3, <1>4, <1>105 DEF Enlist, WriteState, batch, Set, Upd, Same
<1>106. CASE MarkWork(t)
  BY <1>2, <1>3, <1>4, <1>106 DEF MarkWork, batch, queues, Set, Upd, Same
<1>107. CASE Block(t)
  BY <1>2, <1>3, <1>4, <1>107 DEF Block, batch, window, locals, Set, Upd, Same
<1>108. ASSUME NEW p \in Procs, WakeCurb(t, p) PROVE Same(x)
  BY <1>2, <1>3, <1>4, <1>108 DEF WakeCurb, Woken, Set, Upd, Same, Far, ShowPC
<1>109. ASSUME NEW p \in Procs, WakePend(t, p) PROVE Same(x)
  BY <1>2, <1>3, <1>4, <1>109 DEF WakePend, Woken, Set, Upd, Same, Far, ShowPC
<1>110. ASSUME NEW p \in Procs, WakeFar(t, p) PROVE Same(x)
  BY <1>2, <1>3, <1>4, <1>110 DEF WakeFar, Woken, Set, Upd, Same, Far, ShowPC
<1>111. ASSUME NEW p \in Procs, NEW b \in Batches, NEW L \in SUBSET Batches, WakeNew(t, p, b,
   L) PROVE Same(x)
  BY <1>2, <1>3, <1>4, <1>111 DEF WakeNew, Woken, Alloc, Set, Upd, Same, Far, ShowPC
<1>112. ASSUME NEW b \in Batches, NEW L \in SUBSET Batches, NewFar(t, b, L) PROVE Same(x)
  BY <1>2, <1>3, <1>4, <1>112 DEF NewFar, Alloc, Set, Upd, Same
<1>113. ASSUME NEW b \in Batches, NEW L \in SUBSET Batches, LoadPending(t, b, L) PROVE Same(x)
  BY <1>2, <1>3, <1>4, <1>113 DEF LoadPending, Load, Alloc, Set, Upd, Same, Picking, Far,
     ShowPC
<1>114. ASSUME NEW b \in Batches, PullOwn(t, b) PROVE Same(x)
  BY <1>2, <1>3, <1>4, <1>114 DEF PullOwn, Load, Set, Upd, Same, Unlink, Picking, Far, ShowPC
<1>115. ASSUME NEW b \in Batches, PullShown(t, b) PROVE Same(x)
  BY <1>2, <1>3, <1>4, <1>115 DEF PullShown, Set, Upd, Same, Unlink, Picking, Far, ShowPC
<1>116. ASSUME NEW b \in Batches, PullTaken(t, b) PROVE Same(x)
  BY <1>2, <1>3, <1>4, <1>116 DEF PullTaken, Set, Upd, Same, Unlink, Picking, Far, ShowPC
<1>117. CASE ClearRead(t)
  BY <1>2, <1>3, <1>4, <1>117 DEF ClearRead, batch, window, queues, Set, Upd, Same
<1>118. CASE LoadCleared(t)
  BY <1>2, <1>3, <1>4, <1>118 DEF LoadCleared, Load, Set, Upd, Same, OwnPC
<1>119. ASSUME NEW keep \in SUBSET Batches, Wash(t, keep) PROVE Same(x)
  BY <1>2, <1>3, <1>4, <1>119 DEF Wash, Set, Upd, Same
<1>120. CASE Visit(t)
  BY <1>2, <1>3, <1>4, <1>120 DEF Visit, Set, Upd, Same
<1>121. CASE Take(t)
  BY <1>2, <1>3, <1>4, <1>121 DEF Take, batch, queues, Set, Upd, Same
<1>122. CASE LoadRemote(t)
  BY <1>2, <1>3, <1>4, <1>122 DEF LoadRemote, window, Set, Upd, Same
<1> QED BY <1>100, <1>101, <1>102, <1>103, <1>104, <1>105, <1>106, <1>107, <1>108, <1>109,
   <1>110, <1>111, <1>112, <1>113, <1>114, <1>115, <1>116, <1>117, <1>118, <1>119, <1>120,
   <1>121, <1>122 DEF Event

\* Slots are filled only by their thread, with the batch in its hands.
LEMMA SlotStep ==
  ASSUME MInv, NEW t \in Threads, Event(t), NEW u \in Threads
  PROVE  /\ \A w \in Slots : data'[u][w] \in {data[u][w], None}
                             \/ (u = t /\ pc[t] = "show" /\ w = slot[t] /\ data'[u][w] = hand[t])
         /\ u # t /\ pc[t] # "take" => data'[u] = data[u]
<1> DEFINE Goal == /\ \A w \in Slots : data'[u][w] \in {data[u][w], None}
                             \/ (u = t /\ pc[t] = "show" /\ w = slot[t] /\ data'[u][w] = hand[t])
                   /\ u # t /\ pc[t] # "take" => data'[u] = data[u]
<1>1. TyWindow
  BY Types DEF MInv
<1>2. data \in [Threads -> [Slots -> Batches \cup {None}]]
  BY <1>1 DEF TyWindow
<1>3. CASE UNCHANGED data
  BY <1>3
<1>100. ASSUME NEW b \in Batches, NEW L \in SUBSET Batches, NEW ps \in SUBSET Procs, NEW n \in
   {"pick", "save"}, PushFree(t, b, L, ps, n) PROVE Goal
  BY <1>3, <1>100 DEF PushFree, Push
<1>101. ASSUME NEW b \in Batches, NEW L \in SUBSET Batches, NEW ps \in SUBSET Procs, NEW n \in
   {"pick", "save"}, PushLink(t, b, L, ps, n) PROVE Goal
  BY <1>3, <1>101 DEF PushLink, Push
<1>102. ASSUME NEW b \in Batches, NEW L \in SUBSET Batches, NEW ps \in SUBSET Procs, NEW n \in
   {"pick", "save"}, PushShow(t, b, L, ps, n) PROVE Goal
  BY <1>3, <1>102 DEF PushShow, Push
<1>103. ASSUME ReadState(t) PROVE Goal
  BY <1>3, <1>103 DEF ReadState, window, queues
<1>104. ASSUME Show(t) PROVE Goal
  <2>1. data' = [data EXCEPT ![t][slot[t]] = hand[t]] /\ pc[t] = "show"
    BY <1>104 DEF Show
  <2> QED BY <1>2, <2>1
<1>105. ASSUME Enlist(t) PROVE Goal
  BY <1>3, <1>105 DEF Enlist, WriteState, batch
<1>106. ASSUME MarkWork(t) PROVE Goal
  BY <1>3, <1>106 DEF MarkWork, batch, queues
<1>107. ASSUME Block(t) PROVE Goal
  BY <1>3, <1>107 DEF Block, batch, window, locals
<1>108. ASSUME NEW p \in Procs, WakeCurb(t, p) PROVE Goal
  BY <1>3, <1>108 DEF WakeCurb, Woken
<1>109. ASSUME NEW p \in Procs, WakePend(t, p) PROVE Goal
  BY <1>3, <1>109 DEF WakePend, Woken
<1>110. ASSUME NEW p \in Procs, WakeFar(t, p) PROVE Goal
  BY <1>3, <1>110 DEF WakeFar, Woken
<1>111. ASSUME NEW p \in Procs, NEW b \in Batches, NEW L \in SUBSET Batches, WakeNew(t, p, b,
   L) PROVE Goal
  BY <1>3, <1>111 DEF WakeNew, Woken
<1>112. ASSUME NEW b \in Batches, NEW L \in SUBSET Batches, NewFar(t, b, L) PROVE Goal
  BY <1>3, <1>112 DEF NewFar
<1>113. ASSUME NEW b \in Batches, NEW L \in SUBSET Batches, LoadPending(t, b, L) PROVE Goal
  BY <1>3, <1>113 DEF LoadPending, Load
<1>114. ASSUME NEW b \in Batches, PullOwn(t, b) PROVE Goal
  BY <1>3, <1>114 DEF PullOwn, Load
<1>115. ASSUME NEW b \in Batches, PullShown(t, b) PROVE Goal
  <2>1. data' = [data EXCEPT ![t][win[b]] = None]
    BY <1>115 DEF PullShown
  <2> QED BY <1>2, <2>1
<1>116. ASSUME NEW b \in Batches, PullTaken(t, b) PROVE Goal
  BY <1>3, <1>116 DEF PullTaken
<1>117. ASSUME ClearRead(t) PROVE Goal
  BY <1>3, <1>117 DEF ClearRead, batch, window, queues
<1>118. ASSUME LoadCleared(t) PROVE Goal
  BY <1>3, <1>118 DEF LoadCleared, Load
<1>119. ASSUME NEW keep \in SUBSET Batches, Wash(t, keep) PROVE Goal
  BY <1>3, <1>119 DEF Wash
<1>120. ASSUME Visit(t) PROVE Goal
  BY <1>3, <1>120 DEF Visit
<1>121. ASSUME Take(t) PROVE Goal
  <2>1. data' = [data EXCEPT ![vic[t]][slot[t]] = None] /\ pc[t] = "take"
    BY <1>121 DEF Take
  <2> QED BY <1>2, <2>1
<1>122. ASSUME LoadRemote(t) PROVE Goal
  BY <1>3, <1>122 DEF LoadRemote, window
<1> QED BY <1>100, <1>101, <1>102, <1>103, <1>104, <1>105, <1>106, <1>107, <1>108, <1>109,
   <1>110, <1>111, <1>112, <1>113, <1>114, <1>115, <1>116, <1>117, <1>118, <1>119, <1>120,
   <1>121, <1>122 DEF Event

\* A step other than taking and loading a batch leaves open which are taken.
LEMMA AwayStep ==
  ASSUME MInv, NEW t \in Threads, Event(t), pc[t] \notin {"take", "load"}
  PROVE  (\A u \in Threads : Took(u)' = Took(u) /\ (Took(u) => hand'[u] = hand[u]))
         /\ \A b : Away(b)' <=> Away(b)
<1>1. TyLocals /\ CtlOK(t) /\ CtlOK(t)'
  BY Types, CtlStep DEF MInv
<1>2. DOMAIN pc = Threads /\ DOMAIN hand = Threads
  BY <1>1 DEF TyLocals
<1> DEFINE Goal == Took(t)' = Took(t) /\ (Took(t) => hand'[t] = hand[t])
<1>3. ASSUME pc[t] \notin TookPC, pc'[t] \notin TookPC PROVE Goal
  BY <1>3 DEF Took
<1>100. ASSUME NEW b \in Batches, NEW L \in SUBSET Batches, NEW ps \in SUBSET Procs, NEW n \in
   {"pick", "save"}, PushFree(t, b, L, ps, n) PROVE Goal
  BY <1>2, <1>3, <1>100 DEF PushFree, Push, Set, To, Upd, TookPC, ShowPC
<1>101. ASSUME NEW b \in Batches, NEW L \in SUBSET Batches, NEW ps \in SUBSET Procs, NEW n \in
   {"pick", "save"}, PushLink(t, b, L, ps, n) PROVE Goal
  BY <1>2, <1>3, <1>101 DEF PushLink, Push, Set, To, Upd, TookPC, ShowPC
<1>102. ASSUME NEW b \in Batches, NEW L \in SUBSET Batches, NEW ps \in SUBSET Procs, NEW n \in
   {"pick", "save"}, PushShow(t, b, L, ps, n) PROVE Goal
  BY <1>2, <1>3, <1>102 DEF PushShow, Push, Set, To, Upd, TookPC, ShowPC
<1>103. ASSUME ReadState(t) PROVE Goal
  BY <1>2, <1>3, <1>103 DEF ReadState, window, queues, Set, To, Upd, TookPC, ShowPC
<1>104. ASSUME Show(t) PROVE Goal
  BY <1>2, <1>3, <1>104 DEF Show, queues, locals, Set, To, Upd, TookPC, ShowPC
<1>105. ASSUME Enlist(t) PROVE Goal
  BY <1>2, <1>3, <1>105 DEF Enlist, WriteState, batch, Set, To, Upd, TookPC, ShowPC
<1>106. ASSUME MarkWork(t) PROVE Goal
  BY <1>2, <1>3, <1>1, <1>106 DEF MarkWork, batch, queues, Set, To, Upd, TookPC, ShowPC, CtlOK
<1>107. ASSUME Block(t) PROVE Goal
  BY <1>2, <1>3, <1>107 DEF Block, batch, window, locals, Set, To, Upd, TookPC, ShowPC
<1>108. ASSUME NEW p \in Procs, WakeCurb(t, p) PROVE Goal
  BY <1>2, <1>3, <1>108 DEF WakeCurb, Woken, Set, To, Upd, TookPC, ShowPC
<1>109. ASSUME NEW p \in Procs, WakePend(t, p) PROVE Goal
  BY <1>2, <1>3, <1>109 DEF WakePend, Woken, Set, To, Upd, TookPC, ShowPC
<1>110. ASSUME NEW p \in Procs, WakeFar(t, p) PROVE Goal
  BY <1>2, <1>3, <1>110 DEF WakeFar, Woken, Set, To, Upd, TookPC, ShowPC
<1>111. ASSUME NEW p \in Procs, NEW b \in Batches, NEW L \in SUBSET Batches, WakeNew(t, p, b,
   L) PROVE Goal
  BY <1>2, <1>3, <1>111 DEF WakeNew, Woken, Set, To, Upd, TookPC, ShowPC
<1>112. ASSUME NEW b \in Batches, NEW L \in SUBSET Batches, NewFar(t, b, L) PROVE Goal
  BY <1>2, <1>3, <1>112 DEF NewFar, Set, To, Upd, TookPC, ShowPC
<1>113. ASSUME NEW b \in Batches, NEW L \in SUBSET Batches, LoadPending(t, b, L) PROVE Goal
  BY <1>2, <1>3, <1>113 DEF LoadPending, Load, Set, To, Upd, TookPC, ShowPC, Picking
<1>114. ASSUME NEW b \in Batches, PullOwn(t, b) PROVE Goal
  BY <1>2, <1>3, <1>114 DEF PullOwn, Load, Set, To, Upd, TookPC, ShowPC, Picking
<1>115. ASSUME NEW b \in Batches, PullShown(t, b) PROVE Goal
  BY <1>2, <1>3, <1>115 DEF PullShown, Set, To, Upd, TookPC, ShowPC, Picking
<1>116. ASSUME NEW b \in Batches, PullTaken(t, b) PROVE Goal
  BY <1>2, <1>3, <1>116 DEF PullTaken, Set, To, Upd, TookPC, ShowPC, Picking
<1>117. ASSUME ClearRead(t) PROVE Goal
  BY <1>2, <1>3, <1>117 DEF ClearRead, batch, window, queues, Set, To, Upd, TookPC, ShowPC
<1>118. ASSUME LoadCleared(t) PROVE Goal
  BY <1>2, <1>3, <1>118 DEF LoadCleared, Load, Set, To, Upd, TookPC, ShowPC
<1>119. ASSUME NEW keep \in SUBSET Batches, Wash(t, keep) PROVE Goal
  BY <1>2, <1>3, <1>119 DEF Wash, Set, To, Upd, TookPC, ShowPC
<1>120. ASSUME Visit(t) PROVE Goal
  <2>1. hand' = hand
    BY <1>120 DEF Visit
  <2>2. CASE hand[t] = None
    BY <2>1, <2>2 DEF Took
  <2>3. CASE hand[t] # None
    <3>1. pc[t] \in TookPC /\ pc'[t] \in TookPC
      <4>1. pc[t] \in OwnPC \cup TookPC
        BY <1>1, <2>3 DEF CtlOK
      <4>2. pc[t] \notin OwnPC /\ pc'[t] \notin OwnPC
        BY <1>120 DEF Visit, Picking, OwnPC, ThiefPC, TookPC, PickNothing, Choose, Look, ClearBit,
           Gone, Hide
      <4>3. pc'[t] \in OwnPC \cup TookPC
        BY <1>1, <2>1, <2>3 DEF CtlOK
      <4> QED BY <4>1, <4>2, <4>3
    <3> QED BY <2>1, <3>1 DEF Took
  <2> QED BY <2>2, <2>3
<1>121. ASSUME Take(t) PROVE Goal
  BY <1>121 DEF Take
<1>122. ASSUME LoadRemote(t) PROVE Goal
  BY <1>122 DEF LoadRemote
<1>4. Goal
  BY <1>100, <1>101, <1>102, <1>103, <1>104, <1>105, <1>106, <1>107, <1>108, <1>109,
   <1>110, <1>111, <1>112, <1>113, <1>114, <1>115, <1>116, <1>117, <1>118, <1>119, <1>120,
   <1>121, <1>122 DEF Event
<1>5. ASSUME NEW u \in Threads PROVE Took(u)' = Took(u) /\ (Took(u) => hand'[u] = hand[u])
  <2>1. u # t => SamePlace(u) /\ Took(u)' = Took(u)
    BY OthersStep
  <2> QED BY <1>4, <2>1 DEF SamePlace
<1> QED BY <1>5 DEF Away

\* Lists of batches hold batches.
LEMMA OwnBatches ==
  ASSUME MInv, NEW t \in Threads
  PROVE  /\ Own(t) \subseteq Batches /\ free[t] \cup laundry[t] \cup ToSet(rq[t]) \subseteq Batches
         /\ pend[t] \in Batches
<1>1. TyQueues /\ TyLocals
  BY Types DEF MInv
<1>2. free[t] \cup laundry[t] \subseteq Batches /\ pend[t] \in Batches /\ rq[t] \in Seq(Batches)
  BY <1>1 DEF TyQueues
<1>3. ToSet(rq[t]) \subseteq Batches
  BY <1>2 DEF ToSet
<1>4. Held(t) \subseteq Batches
  BY Values DEF Held
<1> QED BY <1>2, <1>3, <1>4 DEF Own, Pending


-----------------------------------------------------------------------------
(* The state of the batches                                                *)

\* The batches of a thread are left as they are by the steps of another one,
\* except that it may take one or be done with one that it took.
LEMMA OtherBatches ==
  ASSUME MInv, NEW t \in Threads, Event(t), size' = size, pc[t] \notin {"take", "load"},
         NEW u \in Threads, u # t
  PROVE  BlankOK(u)' /\ HandOK(u)' /\ QueueOK(u)' /\ DataOK(u)'
<1>1. /\ BlankOK(u) /\ HandOK(u) /\ QueueOK(u) /\ DataOK(u) /\ CtlOK(u)
      /\ Own(t) \cap Own(u) = {} /\ mem \cap Own(u) = {} /\ TypeOK
  BY DEF MInv, ApartOK
<1>2. /\ SameLists(u) /\ SamePlace(u)
      /\ Far(u)' = Far(u) /\ Held(u)' = Held(u) /\ Pending(u)' = Pending(u) /\ Shown(u)' = Shown(u)
  BY OthersStep
<1>3. \A x \in Own(u) : Same(x) /\ (Away(x)' <=> Away(x))
  <2>1. Own(u) \subseteq Batches
    BY OwnBatches
  <2>2. ASSUME NEW x \in Own(u) PROVE Same(x)
    <3>1. x \in Batches /\ x \notin mem \cup Own(t)
      BY <1>1, <2>1
    <3> QED BY <3>1, FrameStep
  <2> QED BY <2>2, AwayStep
<1>4. data'[u] = data[u] /\ Slots' = Slots
  BY SlotStep DEF Slots
<1>5. /\ free[u] \cup laundry[u] \cup ToSet(rq[u]) \cup Shown(u) \subseteq Own(u)
      /\ (~Far(u) => pend[u] \in Own(u)) /\ (pc[u] \in OwnPC => hand[u] \in Own(u))
  BY DEF Own, Pending, Held, Shown, OwnPC
<1>6. BlankOK(u)'
  BY <1>1, <1>2, <1>3, <1>5 DEF BlankOK, SameLists, SamePlace, Same, Blank
<1>7. HandOK(u)'
  BY <1>1, <1>2, <1>3, <1>4, <1>5 DEF HandOK, SamePlace, Same, Blank, Lent, OwnPC
<1>8. QueueOK(u)'
  BY <1>1, <1>2, <1>3, <1>4, <1>5 DEF QueueOK, SameLists, Same, Blank, Lent
<1>9. DataOK(u)'
  BY <1>1, <1>2, <1>3, <1>4, <1>5 DEF DataOK, Same
<1> QED BY <1>6, <1>7, <1>8, <1>9


\* The batches of the thread itself.
LEMMA OwnStep ==
  ASSUME MInv, NEW t \in Threads, Event(t), size' = size, pc[t] \notin {"take", "load"}
  PROVE  MemOK' /\ BlankOK(t)' /\ HandOK(t)' /\ QueueOK(t)' /\ DataOK(t)'
<1> DEFINE Goal == MemOK' /\ BlankOK(t)' /\ HandOK(t)' /\ QueueOK(t)' /\ DataOK(t)'
<1>1. MemOK /\ BlankOK(t) /\ HandOK(t) /\ QueueOK(t) /\ DataOK(t)
  BY DEF MInv
<1>2. ListsOK(t) /\ mem \cap Own(t) = {}
  BY DEF MInv, ApartOK
<1>3. /\ mem \cup free[t] \cup laundry[t] \cup ToSet(rq[t]) \subseteq Batches /\ pend[t] \in Batches
      /\ None \notin Batches
  BY OwnBatches, MigrationAssumption, Types DEF MInv, TyBatch
<1>4. \A x : Away(x)' <=> Away(x)
  BY AwayStep
<1>5. Slots' = Slots
  BY DEF Slots
<1>6. \A x \in Batches : Away(x) => dirty[x] /\ win[x] # 0
  BY AwayFacts
<1>8. ~Far(t) => Pending(t) = {pend[t]}
  BY DEF Pending
<1>9. 0 \notin Slots
  BY Constants, Types DEF MInv
<1>10. \A x \in Batches : win[x] # 0 => win[x] \in Slots
  BY Constants, Types DEF MInv, TyBatch
<1>7. data[t] \in [Slots -> Batches \cup {None}] /\ DOMAIN data = Threads
  BY Types DEF MInv, TyWindow
<1>100. ASSUME NEW b \in Batches, NEW L \in SUBSET Batches, NEW ps \in SUBSET Procs, NEW n \in
   {"pick", "save"}, PushFree(t, b, L, ps, n) PROVE Goal
  <2>1. PushFreeEffect(t, b, L, ps, n)
    BY <1>100, PushFreeFacts
  <2>2. MemOK'
    BY ONLY <1>100, <1>1, <1>2, <1>3, <2>1 DEF MemOK, Same, Blank, ListsOK, Own,
       PushFreeEffect
  <2>3. BlankOK(t)'
    BY ONLY <1>100, <1>1, <1>2, <1>3, <1>4, <1>5, <1>6, <1>7, <1>8, <1>9, <2>1 DEF BlankOK,
       Same, Blank, ListsOK, Own, PushFreeEffect
  <2>4. HandOK(t)'
    BY ONLY <1>100, <1>1, <1>2, <1>3, <1>4, <1>5, <1>6, <1>7, <1>8, <1>9, <2>1 DEF HandOK,
       Lent, Same, Blank, ListsOK, Own, PushFreeEffect
  <2>5. QueueOK(t)'
    BY ONLY <1>100, <1>1, <1>2, <1>3, <1>4, <1>5, <1>6, <1>7, <1>8, <1>9, <2>1 DEF QueueOK,
       Lent, Same, Blank, ListsOK, Own, PushFreeEffect
  <2>6. DataOK(t)'
    BY ONLY <1>100, <1>1, <1>2, <1>3, <1>4, <1>5, <1>6, <1>7, <1>8, <1>9, <2>1 DEF DataOK,
       Shown, Same, Blank, ListsOK, Own, PushFreeEffect
  <2> QED BY <2>2, <2>3, <2>4, <2>5, <2>6
<1>101. ASSUME NEW b \in Batches, NEW L \in SUBSET Batches, NEW ps \in SUBSET Procs, NEW n \in
   {"pick", "save"}, PushLink(t, b, L, ps, n) PROVE Goal
  <2>1. PushLinkEffect(t, b, L, ps, n)
    BY <1>101, PushLinkFacts
  <2>2. MemOK'
    BY ONLY <1>101, <1>1, <1>2, <1>3, <2>1 DEF MemOK, Same, Blank, ListsOK, Own,
       PushLinkEffect
  <2>3. BlankOK(t)'
    BY ONLY <1>101, <1>1, <1>2, <1>3, <1>4, <1>5, <1>6, <1>7, <1>8, <1>9, <2>1 DEF BlankOK,
       Same, Blank, ListsOK, Own, PushLinkEffect
  <2>4. HandOK(t)'
    BY ONLY <1>101, <1>1, <1>2, <1>3, <1>4, <1>5, <1>6, <1>7, <1>8, <1>9, <2>1 DEF HandOK,
       Lent, Same, Blank, ListsOK, Own, PushLinkEffect
  <2>5. QueueOK(t)'
    BY ONLY <1>101, <1>1, <1>2, <1>3, <1>4, <1>5, <1>6, <1>7, <1>8, <1>9, <2>1 DEF QueueOK,
       Lent, Same, Blank, ListsOK, Own, PushLinkEffect, BlankOK
  <2>6. DataOK(t)'
    BY ONLY <1>101, <1>1, <1>2, <1>3, <1>4, <1>5, <1>6, <1>7, <1>8, <1>9, <2>1 DEF DataOK,
       Shown, Same, Blank, ListsOK, Own, PushLinkEffect
  <2> QED BY <2>2, <2>3, <2>4, <2>5, <2>6
<1>102. ASSUME NEW b \in Batches, NEW L \in SUBSET Batches, NEW ps \in SUBSET Procs, NEW n \in
   {"pick", "save"}, PushShow(t, b, L, ps, n) PROVE Goal
  <2>1. PushShowEffect(t, b, L, ps, n)
    BY <1>102, PushShowFacts
  <2>2. MemOK'
    BY ONLY <1>102, <1>1, <1>2, <1>3, <2>1 DEF MemOK, Same, Blank, ListsOK, Own,
       PushShowEffect
  <2>3. BlankOK(t)'
    BY ONLY <1>102, <1>1, <1>2, <1>3, <1>4, <1>5, <1>6, <1>7, <1>8, <1>9, <2>1 DEF BlankOK,
       Same, Blank, ListsOK, Own, PushShowEffect
  <2>4. HandOK(t)'
    BY ONLY <1>102, <1>1, <1>2, <1>3, <1>4, <1>5, <1>6, <1>7, <1>8, <1>9, <2>1 DEF HandOK,
       Lent, Same, Blank, ListsOK, Own, PushShowEffect, BlankOK
  <2>5. QueueOK(t)'
    BY ONLY <1>102, <1>1, <1>2, <1>3, <1>4, <1>5, <1>6, <1>7, <1>8, <1>9, <2>1 DEF QueueOK,
       Lent, Same, Blank, ListsOK, Own, PushShowEffect
  <2>6. DataOK(t)'
    BY ONLY <1>102, <1>1, <1>2, <1>3, <1>4, <1>5, <1>6, <1>7, <1>8, <1>9, <2>1 DEF DataOK,
       Shown, Same, Blank, ListsOK, Own, PushShowEffect
  <2> QED BY <2>2, <2>3, <2>4, <2>5, <2>6
<1>103. ASSUME ReadState(t) PROVE Goal
  <2>1. ReadStateEffect(t)
    BY <1>103, ReadStateFacts
  <2>2. MemOK'
    BY ONLY <1>103, <1>1, <1>2, <1>3, <2>1 DEF MemOK, Same, Blank, ListsOK, Own,
       ReadStateEffect
  <2>3. BlankOK(t)'
    BY ONLY <1>103, <1>1, <1>2, <1>3, <1>4, <1>5, <1>6, <1>7, <1>8, <1>9, <2>1 DEF BlankOK,
       Same, Blank, ListsOK, Own, ReadStateEffect
  <2>4. HandOK(t)'
    BY ONLY <1>103, <1>1, <1>2, <1>3, <1>4, <1>5, <1>6, <1>7, <1>8, <1>9, <2>1 DEF HandOK,
       Lent, Same, Blank, ListsOK, Own, ReadStateEffect
  <2>5. QueueOK(t)'
    BY ONLY <1>103, <1>1, <1>2, <1>3, <1>4, <1>5, <1>6, <1>7, <1>8, <1>9, <2>1 DEF QueueOK,
       Lent, Same, Blank, ListsOK, Own, ReadStateEffect
  <2>6. DataOK(t)'
    BY ONLY <1>103, <1>1, <1>2, <1>3, <1>4, <1>5, <1>6, <1>7, <1>8, <1>9, <2>1 DEF DataOK,
       Shown, Same, Blank, ListsOK, Own, ReadStateEffect
  <2> QED BY <2>2, <2>3, <2>4, <2>5, <2>6
<1>104. ASSUME Show(t) PROVE Goal
  <2>1. ShowEffect(t)
    BY <1>104, ShowFacts
  <2>11. win[hand[t]] = slot[t] /\ dirty[hand[t]] /\ procs[hand[t]] # {} /\ slot[t] # 0
    BY ONLY <1>1, <1>9, <2>1 DEF HandOK, ShowEffect
  <2>12. hand[t] \notin ToSet(rq[t]) /\ Shown(t) = ToSet(rq[t]) /\ Shown(t)' = Shown(t)
            \cup {hand[t]}
    BY ONLY <1>2, <2>1 DEF ListsOK, ShowEffect, Shown
  <2>13. hand[t] # data[t][slot[t]]
    BY ONLY <1>1, <1>3, <2>1, <2>12 DEF DataOK, ShowEffect
  <2>14. Same(hand[t])
    BY ONLY <2>1, <2>13 DEF ShowEffect
  <2>15. \A w \in Slots : data'[t][w] = IF w = slot[t] THEN hand[t] ELSE data[t][w]
    BY ONLY <1>104, t \in Threads, <1>7, <2>1 DEF ShowEffect
  <2>2. MemOK'
    BY ONLY <1>104, <1>1, <1>2, <1>3, <2>1 DEF MemOK, Same, Blank, ListsOK, Own, ShowEffect
  <2>3. BlankOK(t)'
    BY ONLY <1>104, <1>1, <1>2, <1>3, <1>4, <1>5, <1>6, <1>7, <1>8, <1>9, <2>1 DEF BlankOK,
       Same, Blank, ListsOK, Own, ShowEffect
  <2>4. HandOK(t)'
    BY ONLY <1>1, <2>1, <2>11, <2>14, <2>15 DEF HandOK, Lent, ShowEffect, Same
  <2>5. QueueOK(t)'
    <3>1. ASSUME NEW x \in ToSet(rq[t]), x # data[t][slot[t]]
          PROVE  (win'[x] # 0 => Lent(t, x)') /\ (win'[x] = 0 => ~dirty'[x] /\ procs'[x] # {})
      <4>1. x \in Batches /\ Same(x)
        BY ONLY <1>3, <2>1, <3>1 DEF ShowEffect
      <4>2. /\ win[x] # 0 => Lent(t, x) /\ win[x] \in Slots
            /\ win[x] = 0 => ~dirty[x] /\ procs[x] # {}
        BY ONLY <1>1, <1>10, <3>1, <4>1 DEF QueueOK
      <4> QED BY ONLY <1>4, <2>15, <3>1, <4>1, <4>2 DEF Lent, Same, Blank
    <3> QED BY ONLY <1>1, <1>3, <1>9, <2>1, <2>12, <3>1 DEF QueueOK, DataOK, ShowEffect
  <2>6. DataOK(t)'
    <3> SUFFICES ASSUME NEW w \in Slots, data'[t][w] # None
                 PROVE  LET b == data'[t][w]
                        IN  win'[b] = w /\ b \in Shown(t)' /\ dirty'[b] /\ procs'[b] # {}
      BY <1>5 DEF DataOK
    <3>1. CASE w = slot[t]
      BY ONLY <2>11, <2>12, <2>14, <2>15, <3>1, w \in Slots DEF Same
    <3>2. CASE w # slot[t]
      <4> DEFINE b == data[t][w]
      <4>1. data'[t][w] = b /\ b \in Batches
        BY <1>7, <2>15, <3>2
      <4>2. win[b] = w /\ b \in Shown(t) /\ dirty[b] /\ procs[b] # {}
        BY <1>1, <4>1 DEF DataOK
      <4>3. b # data[t][slot[t]]
        BY <1>1, <2>1, <3>2, <4>1, <4>2 DEF DataOK, ShowEffect
      <4>4. Same(b)
        BY <2>1, <4>1, <4>3 DEF ShowEffect
      <4> QED BY ONLY <2>12, <4>1, <4>2, <4>4 DEF Same
    <3> QED BY <3>1, <3>2
  <2> QED BY <2>2, <2>3, <2>4, <2>5, <2>6
<1>105. ASSUME Enlist(t) PROVE Goal
  <2>1. EnlistEffect(t)
    BY <1>105, EnlistFacts
  <2>2. MemOK'
    BY ONLY <1>105, <1>1, <1>2, <1>3, <2>1 DEF MemOK, Same, Blank, ListsOK, Own, EnlistEffect
  <2>3. BlankOK(t)'
    BY ONLY <1>105, <1>1, <1>2, <1>3, <1>4, <1>5, <1>6, <1>7, <1>8, <1>9, <2>1 DEF BlankOK,
       Same, Blank, ListsOK, Own, EnlistEffect
  <2>4. HandOK(t)'
    BY ONLY <1>105, <1>1, <1>2, <1>3, <1>4, <1>5, <1>6, <1>7, <1>8, <1>9, <2>1 DEF HandOK,
       Lent, Same, Blank, ListsOK, Own, EnlistEffect
  <2>5. QueueOK(t)'
    BY ONLY <1>105, <1>1, <1>2, <1>3, <1>4, <1>5, <1>6, <1>7, <1>8, <1>9, <2>1 DEF QueueOK,
       Lent, Same, Blank, ListsOK, Own, EnlistEffect, HandOK
  <2>6. DataOK(t)'
    BY ONLY <1>105, <1>1, <1>2, <1>3, <1>4, <1>5, <1>6, <1>7, <1>8, <1>9, <2>1 DEF DataOK,
       Shown, Same, Blank, ListsOK, Own, EnlistEffect
  <2> QED BY <2>2, <2>3, <2>4, <2>5, <2>6
<1>106. ASSUME MarkWork(t) PROVE Goal
  <2>1. MarkWorkEffect(t)
    BY <1>106, MarkWorkFacts
  <2>2. MemOK'
    BY ONLY <1>106, <1>1, <1>2, <1>3, <2>1 DEF MemOK, Same, Blank, ListsOK, Own,
       MarkWorkEffect
  <2>3. BlankOK(t)'
    BY ONLY <1>106, <1>1, <1>2, <1>3, <1>4, <1>5, <1>6, <1>7, <1>8, <1>9, <2>1 DEF BlankOK,
       Same, Blank, ListsOK, Own, MarkWorkEffect
  <2>4. HandOK(t)'
    BY ONLY <1>106, <1>1, <1>2, <1>3, <1>4, <1>5, <1>6, <1>7, <1>8, <1>9, <2>1 DEF HandOK,
       Lent, Same, Blank, ListsOK, Own, MarkWorkEffect
  <2>5. QueueOK(t)'
    BY ONLY <1>106, <1>1, <1>2, <1>3, <1>4, <1>5, <1>6, <1>7, <1>8, <1>9, <2>1 DEF QueueOK,
       Lent, Same, Blank, ListsOK, Own, MarkWorkEffect
  <2>6. DataOK(t)'
    BY ONLY <1>106, <1>1, <1>2, <1>3, <1>4, <1>5, <1>6, <1>7, <1>8, <1>9, <2>1 DEF DataOK,
       Shown, Same, Blank, ListsOK, Own, MarkWorkEffect
  <2> QED BY <2>2, <2>3, <2>4, <2>5, <2>6
<1>107. ASSUME Block(t) PROVE Goal
  <2>1. BlockEffect(t)
    BY <1>107, BlockFacts
  <2>2. MemOK'
    BY ONLY <1>107, <1>1, <1>2, <1>3, <2>1 DEF MemOK, Same, Blank, ListsOK, Own, BlockEffect
  <2>3. BlankOK(t)'
    BY ONLY <1>107, <1>1, <1>2, <1>3, <1>4, <1>5, <1>6, <1>7, <1>8, <1>9, <2>1 DEF BlankOK,
       Same, Blank, ListsOK, Own, BlockEffect
  <2>4. HandOK(t)'
    BY ONLY <1>107, <1>1, <1>2, <1>3, <1>4, <1>5, <1>6, <1>7, <1>8, <1>9, <2>1 DEF HandOK,
       Lent, Same, Blank, ListsOK, Own, BlockEffect
  <2>5. QueueOK(t)'
    BY ONLY <1>107, <1>1, <1>2, <1>3, <1>4, <1>5, <1>6, <1>7, <1>8, <1>9, <2>1 DEF QueueOK,
       Lent, Same, Blank, ListsOK, Own, BlockEffect
  <2>6. DataOK(t)'
    BY ONLY <1>107, <1>1, <1>2, <1>3, <1>4, <1>5, <1>6, <1>7, <1>8, <1>9, <2>1 DEF DataOK,
       Shown, Same, Blank, ListsOK, Own, BlockEffect
  <2> QED BY <2>2, <2>3, <2>4, <2>5, <2>6
<1>108. ASSUME NEW p \in Procs, WakeCurb(t, p) PROVE Goal
  <2>1. WakeCurbEffect(t, p)
    BY <1>108, WakeCurbFacts
  <2>2. MemOK'
    BY ONLY <1>108, <1>1, <1>2, <1>3, <2>1 DEF MemOK, Same, Blank, ListsOK, Own,
       WakeCurbEffect
  <2>3. BlankOK(t)'
    BY ONLY <1>108, <1>1, <1>2, <1>3, <1>4, <1>5, <1>6, <1>7, <1>8, <1>9, <2>1 DEF BlankOK,
       Same, Blank, ListsOK, Own, WakeCurbEffect
  <2>4. HandOK(t)'
    BY ONLY <1>108, <1>1, <1>2, <1>3, <1>4, <1>5, <1>6, <1>7, <1>8, <1>9, <2>1 DEF HandOK,
       Lent, Same, Blank, ListsOK, Own, WakeCurbEffect
  <2>5. QueueOK(t)'
    BY ONLY <1>108, <1>1, <1>2, <1>3, <1>4, <1>5, <1>6, <1>7, <1>8, <1>9, <2>1 DEF QueueOK,
       Lent, Same, Blank, ListsOK, Own, WakeCurbEffect
  <2>6. DataOK(t)'
    BY ONLY <1>108, <1>1, <1>2, <1>3, <1>4, <1>5, <1>6, <1>7, <1>8, <1>9, <2>1 DEF DataOK,
       Shown, Same, Blank, ListsOK, Own, WakeCurbEffect
  <2> QED BY <2>2, <2>3, <2>4, <2>5, <2>6
<1>109. ASSUME NEW p \in Procs, WakePend(t, p) PROVE Goal
  <2>1. WakePendEffect(t, p)
    BY <1>109, WakePendFacts
  <2>2. MemOK'
    BY ONLY <1>109, <1>1, <1>2, <1>3, <2>1 DEF MemOK, Same, Blank, ListsOK, Own,
       WakePendEffect, Kind
  <2>3. BlankOK(t)'
    BY ONLY <1>109, <1>1, <1>2, <1>3, <1>4, <1>5, <1>6, <1>7, <1>8, <1>9, <2>1 DEF BlankOK,
       Same, Blank, ListsOK, Own, WakePendEffect, Kind
  <2>4. HandOK(t)'
    BY ONLY <1>109, <1>1, <1>2, <1>3, <1>4, <1>5, <1>6, <1>7, <1>8, <1>9, <2>1 DEF HandOK,
       Lent, Same, Blank, ListsOK, Own, WakePendEffect, Kind
  <2>5. QueueOK(t)'
    BY ONLY <1>109, <1>1, <1>2, <1>3, <1>4, <1>5, <1>6, <1>7, <1>8, <1>9, <2>1 DEF QueueOK,
       Lent, Same, Blank, ListsOK, Own, WakePendEffect, Kind
  <2>6. DataOK(t)'
    BY ONLY <1>109, <1>1, <1>2, <1>3, <1>4, <1>5, <1>6, <1>7, <1>8, <1>9, <2>1 DEF DataOK,
       Shown, Same, Blank, ListsOK, Own, WakePendEffect, Kind
  <2> QED BY <2>2, <2>3, <2>4, <2>5, <2>6
<1>110. ASSUME NEW p \in Procs, WakeFar(t, p) PROVE Goal
  <2>1. WakeFarEffect(t, p)
    BY <1>110, WakeFarFacts
  <2>2. MemOK'
    BY ONLY <1>110, <1>1, <1>2, <1>3, <2>1 DEF MemOK, Same, Blank, ListsOK, Own, WakeFarEffect
  <2>3. BlankOK(t)'
    BY ONLY <1>110, <1>1, <1>2, <1>3, <1>4, <1>5, <1>6, <1>7, <1>8, <1>9, <2>1 DEF BlankOK,
       Same, Blank, ListsOK, Own, WakeFarEffect
  <2>4. HandOK(t)'
    BY ONLY <1>110, <1>1, <1>2, <1>3, <1>4, <1>5, <1>6, <1>7, <1>8, <1>9, <2>1 DEF HandOK,
       Lent, Same, Blank, ListsOK, Own, WakeFarEffect, BlankOK
  <2>5. QueueOK(t)'
    BY ONLY <1>110, <1>1, <1>2, <1>3, <1>4, <1>5, <1>6, <1>7, <1>8, <1>9, <2>1 DEF QueueOK,
       Lent, Same, Blank, ListsOK, Own, WakeFarEffect
  <2>6. DataOK(t)'
    BY ONLY <1>110, <1>1, <1>2, <1>3, <1>4, <1>5, <1>6, <1>7, <1>8, <1>9, <2>1 DEF DataOK,
       Shown, Same, Blank, ListsOK, Own, WakeFarEffect
  <2> QED BY <2>2, <2>3, <2>4, <2>5, <2>6
<1>111. ASSUME NEW p \in Procs, NEW b \in Batches, NEW L \in SUBSET Batches, WakeNew(t, p, b,
   L) PROVE Goal
  <2>1. WakeNewEffect(t, p, b, L)
    BY <1>111, WakeNewFacts
  <2>2. MemOK'
    BY ONLY <1>111, <1>1, <1>2, <1>3, <2>1 DEF MemOK, Same, Blank, ListsOK, Own,
       WakeNewEffect, Kind
  <2>3. BlankOK(t)'
    BY ONLY <1>111, <1>1, <1>2, <1>3, <1>4, <1>5, <1>6, <1>7, <1>8, <1>9, <2>1 DEF BlankOK,
       Same, Blank, ListsOK, Own, WakeNewEffect, Kind
  <2>4. HandOK(t)'
    BY ONLY <1>111, <1>1, <1>2, <1>3, <1>4, <1>5, <1>6, <1>7, <1>8, <1>9, <2>1 DEF HandOK,
       Lent, Same, Blank, ListsOK, Own, WakeNewEffect, Kind
  <2>5. QueueOK(t)'
    BY ONLY <1>111, <1>1, <1>2, <1>3, <1>4, <1>5, <1>6, <1>7, <1>8, <1>9, <2>1 DEF QueueOK,
       Lent, Same, Blank, ListsOK, Own, WakeNewEffect, Kind, BlankOK
  <2>6. DataOK(t)'
    BY ONLY <1>111, <1>1, <1>2, <1>3, <1>4, <1>5, <1>6, <1>7, <1>8, <1>9, <2>1 DEF DataOK,
       Shown, Same, Blank, ListsOK, Own, WakeNewEffect, Kind
  <2> QED BY <2>2, <2>3, <2>4, <2>5, <2>6
<1>112. ASSUME NEW b \in Batches, NEW L \in SUBSET Batches, NewFar(t, b, L) PROVE Goal
  <2>1. NewFarEffect(t, b, L)
    BY <1>112, NewFarFacts
  <2>2. MemOK'
    BY ONLY <1>112, <1>1, <1>2, <1>3, <2>1 DEF MemOK, Same, Blank, ListsOK, Own, NewFarEffect,
       Kind
  <2>3. BlankOK(t)'
    BY ONLY <1>112, <1>1, <1>2, <1>3, <1>4, <1>5, <1>6, <1>7, <1>8, <1>9, <2>1 DEF BlankOK,
       Same, Blank, ListsOK, Own, NewFarEffect, Kind
  <2>4. HandOK(t)'
    BY ONLY <1>112, <1>1, <1>2, <1>3, <1>4, <1>5, <1>6, <1>7, <1>8, <1>9, <2>1 DEF HandOK,
       Lent, Same, Blank, ListsOK, Own, NewFarEffect, Kind
  <2>5. QueueOK(t)'
    BY ONLY <1>112, <1>1, <1>2, <1>3, <1>4, <1>5, <1>6, <1>7, <1>8, <1>9, <2>1 DEF QueueOK,
       Lent, Same, Blank, ListsOK, Own, NewFarEffect, Kind
  <2>6. DataOK(t)'
    BY ONLY <1>112, <1>1, <1>2, <1>3, <1>4, <1>5, <1>6, <1>7, <1>8, <1>9, <2>1 DEF DataOK,
       Shown, Same, Blank, ListsOK, Own, NewFarEffect, Kind
  <2> QED BY <2>2, <2>3, <2>4, <2>5, <2>6
<1>113. ASSUME NEW b \in Batches, NEW L \in SUBSET Batches, LoadPending(t, b, L) PROVE Goal
  <2>1. LoadPendingEffect(t, b, L)
    BY <1>113, LoadPendingFacts
  <2>2. MemOK'
    BY ONLY <1>113, <1>1, <1>2, <1>3, <2>1 DEF MemOK, Same, Blank, ListsOK, Own,
       LoadPendingEffect
  <2>3. BlankOK(t)'
    BY ONLY <1>113, <1>1, <1>2, <1>3, <1>4, <1>5, <1>6, <1>7, <1>8, <1>9, <2>1 DEF BlankOK,
       Same, Blank, ListsOK, Own, LoadPendingEffect
  <2>4. HandOK(t)'
    BY ONLY <1>113, <1>1, <1>2, <1>3, <1>4, <1>5, <1>6, <1>7, <1>8, <1>9, <2>1 DEF HandOK,
       Lent, Same, Blank, ListsOK, Own, LoadPendingEffect
  <2>5. QueueOK(t)'
    BY ONLY <1>113, <1>1, <1>2, <1>3, <1>4, <1>5, <1>6, <1>7, <1>8, <1>9, <2>1 DEF QueueOK,
       Lent, Same, Blank, ListsOK, Own, LoadPendingEffect
  <2>6. DataOK(t)'
    BY ONLY <1>113, <1>1, <1>2, <1>3, <1>4, <1>5, <1>6, <1>7, <1>8, <1>9, <2>1 DEF DataOK,
       Shown, Same, Blank, ListsOK, Own, LoadPendingEffect
  <2> QED BY <2>2, <2>3, <2>4, <2>5, <2>6
<1>114. ASSUME NEW b \in Batches, PullOwn(t, b) PROVE Goal
  <2>1. PullOwnEffect(t, b)
    BY <1>114, PullOwnFacts
  <2>2. MemOK'
    BY ONLY <1>114, <1>1, <1>2, <1>3, <2>1 DEF MemOK, Same, Blank, ListsOK, Own, PullOwnEffect
  <2>3. BlankOK(t)'
    BY ONLY <1>114, <1>1, <1>2, <1>3, <1>4, <1>5, <1>6, <1>7, <1>8, <1>9, <2>1 DEF BlankOK,
       Same, Blank, ListsOK, Own, PullOwnEffect, QueueOK, Lent
  <2>4. HandOK(t)'
    BY ONLY <1>114, <1>1, <1>2, <1>3, <1>4, <1>5, <1>6, <1>7, <1>8, <1>9, <2>1 DEF HandOK,
       Lent, Same, Blank, ListsOK, Own, PullOwnEffect
  <2>5. QueueOK(t)'
    BY ONLY <1>114, <1>1, <1>2, <1>3, <1>4, <1>5, <1>6, <1>7, <1>8, <1>9, <2>1 DEF QueueOK,
       Lent, Same, Blank, ListsOK, Own, PullOwnEffect
  <2>6. DataOK(t)'
    BY ONLY <1>114, <1>1, <1>2, <1>3, <1>4, <1>5, <1>6, <1>7, <1>8, <1>9, <2>1 DEF DataOK,
       Shown, Same, Blank, ListsOK, Own, PullOwnEffect
  <2> QED BY <2>2, <2>3, <2>4, <2>5, <2>6
<1>115. ASSUME NEW b \in Batches, PullShown(t, b) PROVE Goal
  <2>1. PullShownEffect(t, b)
    BY <1>115, PullShownFacts
  <2>2. MemOK'
    BY ONLY <1>115, <1>1, <1>2, <1>3, <2>1 DEF MemOK, Same, Blank, ListsOK, Own,
       PullShownEffect
  <2>3. BlankOK(t)'
    BY ONLY <1>115, <1>1, <1>2, <1>3, <1>4, <1>5, <1>6, <1>7, <1>8, <1>9, <2>1 DEF BlankOK,
       Same, Blank, ListsOK, Own, PullShownEffect
  <2>4. HandOK(t)'
    BY ONLY <1>115, <1>1, <1>2, <1>3, <1>4, <1>5, <1>6, <1>7, <1>8, <1>9, <2>1 DEF HandOK,
       Lent, Same, Blank, ListsOK, Own, PullShownEffect, DataOK
  <2>5. QueueOK(t)'
    BY ONLY <1>115, <1>1, <1>2, <1>3, <1>4, <1>5, <1>6, <1>7, <1>8, <1>9, <2>1 DEF QueueOK,
       Lent, Same, Blank, ListsOK, Own, PullShownEffect
  <2>6. DataOK(t)'
    BY ONLY <1>115, <1>1, <1>2, <1>3, <1>4, <1>5, <1>6, <1>7, <1>8, <1>9, <2>1 DEF DataOK,
       Shown, Same, Blank, ListsOK, Own, PullShownEffect
  <2> QED BY <2>2, <2>3, <2>4, <2>5, <2>6
<1>116. ASSUME NEW b \in Batches, PullTaken(t, b) PROVE Goal
  <2>1. PullTakenEffect(t, b)
    BY <1>116, PullTakenFacts
  <2>2. MemOK'
    BY ONLY <1>116, <1>1, <1>2, <1>3, <2>1 DEF MemOK, Same, Blank, ListsOK, Own,
       PullTakenEffect
  <2>3. BlankOK(t)'
    BY ONLY <1>116, <1>1, <1>2, <1>3, <1>4, <1>5, <1>6, <1>7, <1>8, <1>9, <2>1 DEF BlankOK,
       Same, Blank, ListsOK, Own, PullTakenEffect, QueueOK, Lent
  <2>4. HandOK(t)'
    BY ONLY <1>116, <1>1, <1>2, <1>3, <1>4, <1>5, <1>6, <1>7, <1>8, <1>9, <2>1 DEF HandOK,
       Lent, Same, Blank, ListsOK, Own, PullTakenEffect
  <2>5. QueueOK(t)'
    BY ONLY <1>116, <1>1, <1>2, <1>3, <1>4, <1>5, <1>6, <1>7, <1>8, <1>9, <2>1 DEF QueueOK,
       Lent, Same, Blank, ListsOK, Own, PullTakenEffect
  <2>6. DataOK(t)'
    BY ONLY <1>116, <1>1, <1>2, <1>3, <1>4, <1>5, <1>6, <1>7, <1>8, <1>9, <2>1 DEF DataOK,
       Shown, Same, Blank, ListsOK, Own, PullTakenEffect
  <2> QED BY <2>2, <2>3, <2>4, <2>5, <2>6
<1>117. ASSUME ClearRead(t) PROVE Goal
  <2>1. ClearReadEffect(t)
    BY <1>117, ClearReadFacts
  <2>2. MemOK'
    BY ONLY <1>117, <1>1, <1>2, <1>3, <2>1 DEF MemOK, Same, Blank, ListsOK, Own,
       ClearReadEffect
  <2>3. BlankOK(t)'
    BY ONLY <1>117, <1>1, <1>2, <1>3, <1>4, <1>5, <1>6, <1>7, <1>8, <1>9, <2>1 DEF BlankOK,
       Same, Blank, ListsOK, Own, ClearReadEffect
  <2>4. HandOK(t)'
    BY ONLY <1>117, <1>1, <1>2, <1>3, <1>4, <1>5, <1>6, <1>7, <1>8, <1>9, <2>1 DEF HandOK,
       Lent, Same, Blank, ListsOK, Own, ClearReadEffect
  <2>5. QueueOK(t)'
    BY ONLY <1>117, <1>1, <1>2, <1>3, <1>4, <1>5, <1>6, <1>7, <1>8, <1>9, <2>1 DEF QueueOK,
       Lent, Same, Blank, ListsOK, Own, ClearReadEffect
  <2>6. DataOK(t)'
    BY ONLY <1>117, <1>1, <1>2, <1>3, <1>4, <1>5, <1>6, <1>7, <1>8, <1>9, <2>1 DEF DataOK,
       Shown, Same, Blank, ListsOK, Own, ClearReadEffect
  <2> QED BY <2>2, <2>3, <2>4, <2>5, <2>6
<1>118. ASSUME LoadCleared(t) PROVE Goal
  <2>1. LoadClearedEffect(t)
    BY <1>118, LoadClearedFacts
  <2>2. MemOK'
    BY ONLY <1>118, <1>1, <1>2, <1>3, <2>1 DEF MemOK, Same, Blank, ListsOK, Own,
       LoadClearedEffect
  <2>3. BlankOK(t)'
    BY ONLY <1>118, <1>1, <1>2, <1>3, <1>4, <1>5, <1>6, <1>7, <1>8, <1>9, <2>1 DEF BlankOK,
       Same, Blank, ListsOK, Own, LoadClearedEffect
  <2>4. HandOK(t)'
    BY ONLY <1>118, <1>1, <1>2, <1>3, <1>4, <1>5, <1>6, <1>7, <1>8, <1>9, <2>1 DEF HandOK,
       Lent, Same, Blank, ListsOK, Own, LoadClearedEffect
  <2>5. QueueOK(t)'
    BY ONLY <1>118, <1>1, <1>2, <1>3, <1>4, <1>5, <1>6, <1>7, <1>8, <1>9, <2>1 DEF QueueOK,
       Lent, Same, Blank, ListsOK, Own, LoadClearedEffect
  <2>6. DataOK(t)'
    BY ONLY <1>118, <1>1, <1>2, <1>3, <1>4, <1>5, <1>6, <1>7, <1>8, <1>9, <2>1 DEF DataOK,
       Shown, Same, Blank, ListsOK, Own, LoadClearedEffect
  <2> QED BY <2>2, <2>3, <2>4, <2>5, <2>6
<1>119. ASSUME NEW keep \in SUBSET Batches, Wash(t, keep) PROVE Goal
  <2>1. WashEffect(t, keep)
    BY <1>119, WashFacts
  <2>2. MemOK'
    BY ONLY <1>119, <1>1, <1>2, <1>3, <2>1 DEF MemOK, Same, Blank, ListsOK, Own, WashEffect
  <2>3. BlankOK(t)'
    BY ONLY <1>119, <1>1, <1>2, <1>3, <1>4, <1>5, <1>6, <1>7, <1>8, <1>9, <2>1 DEF BlankOK,
       Same, Blank, ListsOK, Own, WashEffect
  <2>4. HandOK(t)'
    BY ONLY <1>119, <1>1, <1>2, <1>3, <1>4, <1>5, <1>6, <1>7, <1>8, <1>9, <2>1 DEF HandOK,
       Lent, Same, Blank, ListsOK, Own, WashEffect
  <2>5. QueueOK(t)'
    BY ONLY <1>119, <1>1, <1>2, <1>3, <1>4, <1>5, <1>6, <1>7, <1>8, <1>9, <2>1 DEF QueueOK,
       Lent, Same, Blank, ListsOK, Own, WashEffect
  <2>6. DataOK(t)'
    BY ONLY <1>119, <1>1, <1>2, <1>3, <1>4, <1>5, <1>6, <1>7, <1>8, <1>9, <2>1 DEF DataOK,
       Shown, Same, Blank, ListsOK, Own, WashEffect
  <2> QED BY <2>2, <2>3, <2>4, <2>5, <2>6
<1>120. ASSUME Visit(t) PROVE Goal
  <2>1. VisitEffect(t)
    BY <1>120, VisitFacts
  <2>2. MemOK'
    BY ONLY <1>120, <1>1, <1>2, <1>3, <2>1 DEF MemOK, Same, Blank, ListsOK, Own, VisitEffect,
       ThiefPC, TookPC, OwnPC
  <2>3. BlankOK(t)'
    BY ONLY <1>120, <1>1, <1>2, <1>3, <1>4, <1>5, <1>6, <1>7, <1>8, <1>9, <2>1 DEF BlankOK,
       Same, Blank, ListsOK, Own, VisitEffect, ThiefPC, TookPC, OwnPC
  <2>4. HandOK(t)'
    BY ONLY <1>120, <1>1, <1>2, <1>3, <1>4, <1>5, <1>6, <1>7, <1>8, <1>9, <2>1 DEF HandOK,
       Lent, Same, Blank, ListsOK, Own, VisitEffect, ThiefPC, TookPC, OwnPC
  <2>5. QueueOK(t)'
    BY ONLY <1>120, <1>1, <1>2, <1>3, <1>4, <1>5, <1>6, <1>7, <1>8, <1>9, <2>1 DEF QueueOK,
       Lent, Same, Blank, ListsOK, Own, VisitEffect, ThiefPC, TookPC, OwnPC
  <2>6. DataOK(t)'
    BY ONLY <1>120, <1>1, <1>2, <1>3, <1>4, <1>5, <1>6, <1>7, <1>8, <1>9, <2>1 DEF DataOK,
       Shown, Same, Blank, ListsOK, Own, VisitEffect, ThiefPC, TookPC, OwnPC
  <2> QED BY <2>2, <2>3, <2>4, <2>5, <2>6
<1>98. ~Take(t) /\ ~LoadRemote(t)
  BY DEF Take, LoadRemote
<1> QED BY <1>100, <1>101, <1>102, <1>103, <1>104, <1>105, <1>106, <1>107, <1>108, <1>109,
   <1>110, <1>111, <1>112, <1>113, <1>114, <1>115, <1>116, <1>117, <1>118, <1>119, <1>120,
   <1>98 DEF Event

\* A batch that was taken stays where its thread meets it again: in the
\* queue, or in the laundry.
LEMMA KeepsAway ==
  ASSUME MInv, NEW t \in Threads, Event(t), pc[t] \notin {"take", "load"},
         NEW x \in Shown(t) \cup laundry[t], Away(x)
  PROVE  x \in Shown(t)' \cup laundry'[t]
<1>1. x \in Batches
  BY OwnBatches DEF Shown, Own, Held, OwnPC
<1>2. /\ dirty[x] /\ win[x] # 0 /\ x \notin mem /\ x \notin free[t]
      /\ pc[t] \in OwnPC \ {"state"} => hand[t] # x
      /\ \A w \in Slots : data[t][w] # x
  BY <1>1, AwayFacts
<1>3. x \in ToSet(rq[t]) \/ (pc[t] = "state" /\ hand[t] = x) \/ x \in laundry[t]
  BY DEF Shown
<1>100. ASSUME NEW b \in Batches, NEW L \in SUBSET Batches, NEW ps \in SUBSET Procs, NEW n \in
   {"pick", "save"}, PushFree(t, b, L, ps, n) PROVE x \in Shown(t)' \cup laundry'[t]
  <2>1. PushFreeEffect(t, b, L, ps, n)
    BY <1>100, PushFreeFacts
  <2> QED BY ONLY <1>2, <1>3, <2>1 DEF Shown, Blank, OwnPC, PushFreeEffect
<1>101. ASSUME NEW b \in Batches, NEW L \in SUBSET Batches, NEW ps \in SUBSET Procs, NEW n \in
   {"pick", "save"}, PushLink(t, b, L, ps, n) PROVE x \in Shown(t)' \cup laundry'[t]
  <2>1. PushLinkEffect(t, b, L, ps, n)
    BY <1>101, PushLinkFacts
  <2> QED BY ONLY <1>2, <1>3, <2>1 DEF Shown, Blank, OwnPC, PushLinkEffect
<1>102. ASSUME NEW b \in Batches, NEW L \in SUBSET Batches, NEW ps \in SUBSET Procs, NEW n \in
   {"pick", "save"}, PushShow(t, b, L, ps, n) PROVE x \in Shown(t)' \cup laundry'[t]
  <2>1. PushShowEffect(t, b, L, ps, n)
    BY <1>102, PushShowFacts
  <2> QED BY ONLY <1>2, <1>3, <2>1 DEF Shown, Blank, OwnPC, PushShowEffect
<1>103. CASE ReadState(t)
  <2>1. ReadStateEffect(t)
    BY <1>103, ReadStateFacts
  <2> QED BY ONLY <1>2, <1>3, <2>1 DEF Shown, Blank, OwnPC, ReadStateEffect
<1>104. CASE Show(t)
  <2>1. ShowEffect(t)
    BY <1>104, ShowFacts
  <2> QED BY ONLY <1>2, <1>3, <2>1 DEF Shown, Blank, OwnPC, ShowEffect
<1>105. CASE Enlist(t)
  <2>1. EnlistEffect(t)
    BY <1>105, EnlistFacts
  <2> QED BY ONLY <1>2, <1>3, <2>1 DEF Shown, Blank, OwnPC, EnlistEffect
<1>106. CASE MarkWork(t)
  <2>1. MarkWorkEffect(t)
    BY <1>106, MarkWorkFacts
  <2> QED BY ONLY <1>2, <1>3, <2>1 DEF Shown, Blank, OwnPC, MarkWorkEffect
<1>107. CASE Block(t)
  <2>1. BlockEffect(t)
    BY <1>107, BlockFacts
  <2> QED BY ONLY <1>2, <1>3, <2>1 DEF Shown, Blank, OwnPC, BlockEffect
<1>108. ASSUME NEW p \in Procs, WakeCurb(t, p) PROVE x \in Shown(t)' \cup laundry'[t]
  <2>1. WakeCurbEffect(t, p)
    BY <1>108, WakeCurbFacts
  <2> QED BY ONLY <1>2, <1>3, <2>1 DEF Shown, Blank, OwnPC, WakeCurbEffect
<1>109. ASSUME NEW p \in Procs, WakePend(t, p) PROVE x \in Shown(t)' \cup laundry'[t]
  <2>1. WakePendEffect(t, p)
    BY <1>109, WakePendFacts
  <2> QED BY ONLY <1>2, <1>3, <2>1 DEF Shown, Blank, OwnPC, WakePendEffect
<1>110. ASSUME NEW p \in Procs, WakeFar(t, p) PROVE x \in Shown(t)' \cup laundry'[t]
  <2>1. WakeFarEffect(t, p)
    BY <1>110, WakeFarFacts
  <2> QED BY ONLY <1>2, <1>3, <2>1 DEF Shown, Blank, OwnPC, WakeFarEffect
<1>111. ASSUME NEW p \in Procs, NEW b \in Batches, NEW L \in SUBSET Batches, WakeNew(t, p, b,
   L) PROVE x \in Shown(t)' \cup laundry'[t]
  <2>1. WakeNewEffect(t, p, b, L)
    BY <1>111, WakeNewFacts
  <2> QED BY ONLY <1>2, <1>3, <2>1 DEF Shown, Blank, OwnPC, WakeNewEffect
<1>112. ASSUME NEW b \in Batches, NEW L \in SUBSET Batches, NewFar(t, b, L) PROVE x \in
   Shown(t)' \cup laundry'[t]
  <2>1. NewFarEffect(t, b, L)
    BY <1>112, NewFarFacts
  <2> QED BY ONLY <1>2, <1>3, <2>1 DEF Shown, Blank, OwnPC, NewFarEffect
<1>113. ASSUME NEW b \in Batches, NEW L \in SUBSET Batches, LoadPending(t, b, L) PROVE x \in
   Shown(t)' \cup laundry'[t]
  <2>1. LoadPendingEffect(t, b, L)
    BY <1>113, LoadPendingFacts
  <2> QED BY ONLY <1>2, <1>3, <2>1 DEF Shown, Blank, OwnPC, LoadPendingEffect
<1>114. ASSUME NEW b \in Batches, PullOwn(t, b) PROVE x \in Shown(t)' \cup laundry'[t]
  <2>1. PullOwnEffect(t, b)
    BY <1>114, PullOwnFacts
  <2> QED BY ONLY <1>2, <1>3, <2>1 DEF Shown, Blank, OwnPC, PullOwnEffect
<1>115. ASSUME NEW b \in Batches, PullShown(t, b) PROVE x \in Shown(t)' \cup laundry'[t]
  <2>1. PullShownEffect(t, b)
    BY <1>115, PullShownFacts
  <2> QED BY ONLY <1>2, <1>3, <2>1 DEF Shown, Blank, OwnPC, PullShownEffect
<1>116. ASSUME NEW b \in Batches, PullTaken(t, b) PROVE x \in Shown(t)' \cup laundry'[t]
  <2>1. PullTakenEffect(t, b)
    BY <1>116, PullTakenFacts
  <2> QED BY ONLY <1>2, <1>3, <2>1 DEF Shown, Blank, OwnPC, PullTakenEffect
<1>117. CASE ClearRead(t)
  <2>1. ClearReadEffect(t)
    BY <1>117, ClearReadFacts
  <2> QED BY ONLY <1>2, <1>3, <2>1 DEF Shown, Blank, OwnPC, ClearReadEffect
<1>118. CASE LoadCleared(t)
  <2>1. LoadClearedEffect(t)
    BY <1>118, LoadClearedFacts
  <2> QED BY ONLY <1>2, <1>3, <2>1 DEF Shown, Blank, OwnPC, LoadClearedEffect
<1>119. ASSUME NEW keep \in SUBSET Batches, Wash(t, keep) PROVE x \in Shown(t)' \cup
   laundry'[t]
  <2>1. WashEffect(t, keep)
    BY <1>119, WashFacts
  <2> QED BY ONLY <1>2, <1>3, <2>1 DEF Shown, Blank, OwnPC, WashEffect
<1>120. CASE Visit(t)
  <2>1. VisitEffect(t)
    BY <1>120, VisitFacts
  <2> QED BY ONLY <1>2, <1>3, <2>1 DEF Shown, Blank, OwnPC, VisitEffect
<1>98. ~Take(t) /\ ~LoadRemote(t)
  BY DEF Take, LoadRemote
<1> QED BY <1>100, <1>101, <1>102, <1>103, <1>104, <1>105, <1>106, <1>107, <1>108, <1>109,
   <1>110, <1>111, <1>112, <1>113, <1>114, <1>115, <1>116, <1>117, <1>118, <1>119, <1>120,
   <1>98 DEF Event

\* The victim of a thread that has taken a batch stays the same.
LEMMA KeepsVictim ==
  ASSUME MInv, NEW t \in Threads, Event(t), pc[t] \notin {"take", "load"}, Took(t)
  PROVE  vic'[t] = vic[t]
<1>1. pc[t] \in {"gone", "hide"} /\ hand[t] # None
  BY DEF Took, TookPC
<1>100. ASSUME NEW b \in Batches, NEW L \in SUBSET Batches, NEW ps \in SUBSET Procs, NEW n \in
   {"pick", "save"}, PushFree(t, b, L, ps, n) PROVE vic'[t] = vic[t]
  BY <1>1, <1>100 DEF PushFree, Push
<1>101. ASSUME NEW b \in Batches, NEW L \in SUBSET Batches, NEW ps \in SUBSET Procs, NEW n \in
   {"pick", "save"}, PushLink(t, b, L, ps, n) PROVE vic'[t] = vic[t]
  BY <1>1, <1>101 DEF PushLink, Push
<1>102. ASSUME NEW b \in Batches, NEW L \in SUBSET Batches, NEW ps \in SUBSET Procs, NEW n \in
   {"pick", "save"}, PushShow(t, b, L, ps, n) PROVE vic'[t] = vic[t]
  BY <1>1, <1>102 DEF PushShow, Push
<1>103. CASE ReadState(t)
  BY <1>1, <1>103 DEF ReadState
<1>104. CASE Show(t)
  BY <1>1, <1>104 DEF Show
<1>105. CASE Enlist(t)
  BY <1>1, <1>105 DEF Enlist, WriteState
<1>106. CASE MarkWork(t)
  BY <1>1, <1>106 DEF MarkWork
<1>107. CASE Block(t)
  BY <1>1, <1>107 DEF Block
<1>108. ASSUME NEW p \in Procs, WakeCurb(t, p) PROVE vic'[t] = vic[t]
  BY <1>1, <1>108 DEF WakeCurb, Woken
<1>109. ASSUME NEW p \in Procs, WakePend(t, p) PROVE vic'[t] = vic[t]
  BY <1>1, <1>109 DEF WakePend, Woken
<1>110. ASSUME NEW p \in Procs, WakeFar(t, p) PROVE vic'[t] = vic[t]
  BY <1>1, <1>110 DEF WakeFar, Woken
<1>111. ASSUME NEW p \in Procs, NEW b \in Batches, NEW L \in SUBSET Batches, WakeNew(t, p, b,
   L) PROVE vic'[t] = vic[t]
  BY <1>1, <1>111 DEF WakeNew, Woken
<1>112. ASSUME NEW b \in Batches, NEW L \in SUBSET Batches, NewFar(t, b, L) PROVE vic'[t] =
   vic[t]
  BY <1>1, <1>112 DEF NewFar
<1>113. ASSUME NEW b \in Batches, NEW L \in SUBSET Batches, LoadPending(t, b, L) PROVE vic'[t]
   = vic[t]
  BY <1>1, <1>113 DEF LoadPending, Picking
<1>114. ASSUME NEW b \in Batches, PullOwn(t, b) PROVE vic'[t] = vic[t]
  BY <1>1, <1>114 DEF PullOwn, Picking
<1>115. ASSUME NEW b \in Batches, PullShown(t, b) PROVE vic'[t] = vic[t]
  BY <1>1, <1>115 DEF PullShown, Picking
<1>116. ASSUME NEW b \in Batches, PullTaken(t, b) PROVE vic'[t] = vic[t]
  BY <1>1, <1>116 DEF PullTaken, Picking
<1>117. CASE ClearRead(t)
  BY <1>1, <1>117 DEF ClearRead
<1>118. CASE LoadCleared(t)
  BY <1>1, <1>118 DEF LoadCleared
<1>119. ASSUME NEW keep \in SUBSET Batches, Wash(t, keep) PROVE vic'[t] = vic[t]
  BY <1>1, <1>119 DEF Wash
<1>120. CASE Visit(t)
  BY <1>1, <1>120 DEF Visit, Picking, PickNothing, Choose, Look, ClearBit, Gone, Hide, Found
<1>98. ~Take(t) /\ ~LoadRemote(t)
  BY DEF Take, LoadRemote
<1> QED BY <1>100, <1>101, <1>102, <1>103, <1>104, <1>105, <1>106, <1>107, <1>108, <1>109,
   <1>110, <1>111, <1>112, <1>113, <1>114, <1>115, <1>116, <1>117, <1>118, <1>119, <1>120,
   <1>98 DEF Event

\* The batches that were taken.
LEMMA TookStep ==
  ASSUME MInv, NEW t \in Threads, Event(t), size' = size, pc[t] \notin {"take", "load"}
  PROVE  (\A u \in Threads : TookOK(u))' /\ TookOnce'
<1>1. \A u \in Threads : Took(u)' = Took(u) /\ (Took(u) => hand'[u] = hand[u])
  BY AwayStep
<1>2. ASSUME NEW u \in Threads, Took(u)' PROVE TookOK(u)'
  <2>1. Took(u) /\ hand'[u] = hand[u] /\ hand[u] # None /\ TookOK(u) /\ CtlOK(u) /\ TyLocals
    BY <1>1, <1>2, Types DEF Took, MInv
  <2>2. PICK x \in Batches : x = hand[u]
    BY <2>1 DEF TyLocals
  <2>3. PICK v \in Threads : v = vic[u]
    BY <2>1 DEF TyLocals, CtlOK, Took, ThiefPC, TookPC
  <2>4. vic'[u] = v
    <3>1. u # t => SamePlace(u)
      BY OthersStep
    <3> QED BY <2>1, <2>3, <3>1, KeepsVictim DEF SamePlace
  <2>5. Away(x) /\ Same(x)
    <3>1. Away(x)
      BY <2>1, <2>2 DEF Away
    <3> QED BY <3>1, FrameStep, <2>2
  <2>6. /\ dirty[x] /\ procs[x] # {} /\ win[x] # 0 /\ x \in Shown(v) \cup laundry[v]
        /\ \A c \in Threads, w \in Slots : data[c][w] # x
    BY <2>1, <2>2, <2>3 DEF TookOK
  <2>7. x \in Shown(v)' \cup laundry'[v]
    <3>1. CASE v = t
      BY <2>5, <2>6, <3>1, KeepsAway
    <3>2. CASE v # t
      BY <2>6, <3>2, OthersStep DEF SameLists
    <3> QED BY <3>1, <3>2
  <2>8. ASSUME NEW c \in Threads, NEW w \in Slots PROVE data'[c][w] # x
    <3>1. pc[t] = "show" => hand[t] # x
      BY <2>5, AwayFacts DEF OwnPC
    <3> QED BY <2>1, <2>2, <2>6, <3>1, SlotStep
  <2>9. Slots' = Slots /\ Shown(vic[u])' = Shown(v)'
    BY <2>4 DEF Slots, Shown
  <2> QED BY <2>1, <2>2, <2>4, <2>5, <2>6, <2>7, <2>8, <2>9 DEF TookOK, Same
<1>3. TookOnce'
  <2>1. TookOnce
    BY DEF MInv
  <2> QED BY <1>1, <2>1 DEF TookOnce
<1>4. (\A u \in Threads : TookOK(u))'
  BY <1>2 DEF TookOK
<1> QED BY <1>3, <1>4

\* A thread takes a batch, or finds none in the slot.
LEMMA TakeStep ==
  ASSUME MInv, NEW t \in Threads, Take(t), size' = size
  PROVE  /\ MemOK' /\ (\A u \in Threads : BlankOK(u) /\ HandOK(u) /\ QueueOK(u) /\ DataOK(u))'
         /\ (\A u \in Threads : TookOK(u))' /\ TookOnce'
<1>1. TakeEffect(t) /\ Event(t) /\ TypeOK /\ CtlOK(t) /\ CtlOK(t)' /\ ApartOK /\ TookOnce /\ MemOK
  BY TakeFacts, CtlStep DEF MInv, Event
<1>2. PICK v \in Threads, s \in Slots : v = vic[t] /\ s = slot[t]
  BY <1>1 DEF TakeEffect
<1>3. PICK got : got = data[v][s]
  OBVIOUS
<1>4. /\ data' = [data EXCEPT ![v][s] = None] /\ hand' = [hand EXCEPT ![t] = got]
      /\ UNCHANGED <<dirty, win, procs, mem, rq, pend, pprio, free, laundry, vic>> /\ Slots' = Slots
      /\ pc[t] = "take" /\ pc'[t] \in {"bit", "gone"}
      /\ (got # None => pc'[t] = "gone")
  <2>1. TyLocals
    BY <1>1, Types
  <2> QED BY <1>1, <1>2, <1>3, <2>1 DEF Take, batch, queues, Slots, Set, To, TyLocals
<1>5. /\ data \in [Threads -> [Slots -> Batches \cup {None}]]
         /\ hand \in [Threads -> Batches \cup {None}]
      /\ None \notin Batches
  BY <1>1, MigrationAssumption DEF TypeOK
<1>6. \A c \in Threads, w \in Slots : data'[c][w] = IF c = v /\ w = s THEN None ELSE data[c][w]
  BY <1>4, <1>5
<1>7. \A u \in Threads : /\ Far(u)' = Far(u) /\ Shown(u)' = Shown(u)
                         /\ u # t => pc'[u] = pc[u] /\ hand'[u] = hand[u] /\ slot'[u] = slot[u]
                            /\ Took(u)' = Took(u)
  <2>1. \A u \in Threads : u # t => SamePlace(u) /\ Far(u)' = Far(u) /\ Shown(u)' = Shown(u)
           /\ Took(u)' = Took(u)
    BY <1>1, OthersStep
  <2>2. Shown(t)' = Shown(t)
    BY <1>4 DEF Shown
  <2>3. Far(t)' = Far(t)
    BY <1>1 DEF TakeEffect, Far
  <2> QED BY <2>1, <2>2, <2>3 DEF SamePlace
<1>8. ~Took(t) /\ (Took(t)' <=> got # None) /\ hand'[t] = got
  BY <1>4, <1>5 DEF Took, TookPC
<1>9. \A x \in Batches : Away(x)' <=> Away(x) \/ x = got
  BY <1>5, <1>7, <1>8 DEF Away
<1>10. MemOK'
  BY <1>1, <1>4 DEF MemOK, Blank
<1>11. ASSUME NEW u \in Threads PROVE (BlankOK(u) /\ HandOK(u) /\ QueueOK(u) /\ DataOK(u))'
  <2>1. BlankOK(u) /\ HandOK(u) /\ QueueOK(u) /\ DataOK(u)
    BY DEF MInv
  <2>2. /\ free[u] \cup laundry[u] \cup ToSet(rq[u]) \subseteq Batches /\ pend[u] \in Batches
        /\ (pc[u] \in OwnPC => hand[u] \in Batches)
    BY OwnBatches, Values
  <2>3. BlankOK(u)'
    BY <1>4, <1>7, <1>9, <2>1, <2>2 DEF BlankOK, Blank
  <2>4. ASSUME NEW b \in Batches, Lent(u, b), win[b] # 0 PROVE Lent(u, b)'
    <3>1. win[b] \in Slots
      BY <1>1, <2>4, Constants DEF TypeOK
    <3> QED BY <1>3, <1>4, <1>6, <1>9, <2>4, <3>1 DEF Lent, Blank
  <2>5. HandOK(u)'
    <3>1. CASE u = t
      BY <1>4, <3>1 DEF HandOK
    <3>2. CASE u # t
      <4>1. pc'[u] = pc[u] /\ hand'[u] = hand[u] /\ slot'[u] = slot[u]
        BY <1>7, <3>2
      <4>2. pc[u] = "state" => win[hand[u]] # 0
        BY <1>1, <2>1, Values, Constants DEF HandOK, TypeOK
      <4>3. pc[u] = "state" => Lent(u, hand[u])'
        <5>1. ASSUME pc[u] = "state" PROVE Lent(u, hand[u])'
          <6>1. PICK b \in Batches : b = hand[u]
            BY <2>2, <5>1 DEF OwnPC
          <6>2. Lent(u, b)'
            BY <2>1, <2>4, <4>2, <5>1, <6>1 DEF HandOK
          <6> QED BY <4>1, <6>1, <6>2 DEF Lent, Away, Blank
        <5> QED BY <5>1
      <4> QED BY <1>4, <2>1, <4>1, <4>3 DEF HandOK
    <3> QED BY <3>1, <3>2
  <2>6. QueueOK(u)'
    BY <1>4, <2>1, <2>2, <2>4 DEF QueueOK
  <2>7. DataOK(u)'
    BY <1>4, <1>6, <1>7, <2>1 DEF DataOK
  <2> QED BY <2>3, <2>5, <2>6, <2>7
<1>12. ASSUME NEW u \in Threads, Took(u)' PROVE TookOK(u)'
  <2>1. CASE u = t
    <3>1. got # None /\ got \in Batches
      BY <1>2, <1>3, <1>5, <1>8, <1>12, <2>1
    <3>2. DataOK(v) /\ \A c \in Threads : DataOK(c)
      BY DEF MInv
    <3>3. win[got] = s /\ got \in Shown(v) /\ dirty[got] /\ procs[got] # {}
      BY <1>3, <3>1, <3>2 DEF DataOK
    <3>4. ASSUME NEW c \in Threads, NEW w \in Slots, data'[c][w] = got PROVE FALSE
      <4>1. data[c][w] = got /\ ~(c = v /\ w = s)
        BY <1>6, <3>1, <3>4
      <4>2. w = s /\ got \in Shown(c)
        BY <3>1, <3>2, <3>3, <4>1 DEF DataOK
      <4>3. got \in Own(c) /\ got \in Own(v)
        BY <3>3, <4>2 DEF Own, Shown, Held, OwnPC
      <4> QED BY <1>1, <4>1, <4>2, <4>3 DEF ApartOK
    <3>5. Shown(vic[t])' = Shown(v)'
      BY <1>2, <1>4 DEF Shown
    <3>6. s # 0
      BY <1>1, Constants DEF TypeOK
    <3> QED BY <1>2, <1>4, <1>7, <1>8, <2>1, <3>3, <3>4, <3>5, <3>6 DEF TookOK
  <2>2. CASE u # t
    <3>1. Took(u) /\ TookOK(u) /\ hand'[u] = hand[u] /\ hand[u] # None
      BY <1>7, <1>12, <2>2 DEF MInv, Took
    <3>2. PICK c \in Threads : c = vic[u]
      BY <1>1, <3>1 DEF MInv, CtlOK, TypeOK, Took, ThiefPC, TookPC
    <3>3. Shown(vic[u])' = Shown(c)' /\ Shown(c)' = Shown(c)
      BY <1>4, <1>7, <3>2 DEF Shown
    <3>4. \A d \in Threads, w \in Slots : data'[d][w] # hand[u]
      BY <1>6, <3>1 DEF TookOK
    <3> QED BY <1>4, <3>1, <3>2, <3>3, <3>4 DEF TookOK
  <2> QED BY <2>1, <2>2
<1>13. TookOnce'
  <2>1. ASSUME NEW u \in Threads, u # t, Took(u)' PROVE hand'[u] # hand'[t]
    <3>1. Took(u) /\ TookOK(u) /\ hand'[u] = hand[u]
      BY <1>7, <2>1 DEF MInv
    <3> QED BY <1>2, <1>3, <1>8, <3>1 DEF TookOK
  <2> QED BY <1>1, <1>7, <2>1 DEF TookOnce
<1>14. (\A u \in Threads : TookOK(u))'
  BY <1>12 DEF TookOK
<1> QED BY <1>10, <1>11, <1>13, <1>14

\* A thread copies the batch that it took, and is done with it.
LEMMA LoadRemoteStep ==
  ASSUME MInv, NEW t \in Threads, LoadRemote(t), size' = size
  PROVE  /\ MemOK' /\ (\A u \in Threads : BlankOK(u) /\ HandOK(u) /\ QueueOK(u) /\ DataOK(u))'
         /\ (\A u \in Threads : TookOK(u))' /\ TookOnce'
<1>1. LoadRemoteEffect(t) /\ Event(t) /\ TypeOK /\ ApartOK /\ TookOnce /\ MemOK
  BY LoadRemoteFacts DEF MInv, Event
<1>2. PICK x \in Batches : x = hand[t]
  BY <1>1 DEF LoadRemoteEffect
<1>3. /\ \A c \in Batches : c # x => Same(c)
      /\ ~dirty'[x] /\ win'[x] = win[x] /\ procs'[x] = {}
      /\ UNCHANGED <<mem, rq, pend, pprio, free, laundry, data>> /\ Slots' = Slots
  BY <1>1, <1>2 DEF LoadRemoteEffect, LoadRemote, Slots, window
<1>4. \A u \in Threads : /\ Far(u)' = Far(u) /\ Shown(u)' = Shown(u)
                         /\ u # t => pc'[u] = pc[u] /\ hand'[u] = hand[u] /\ slot'[u] = slot[u]
                            /\ vic'[u] = vic[u] /\ Took(u)' = Took(u)
  <2>1. \A u \in Threads : u # t => SamePlace(u) /\ Far(u)' = Far(u) /\ Shown(u)' = Shown(u)
           /\ Took(u)' = Took(u)
    BY <1>1, OthersStep
  <2>2. Shown(t)' = Shown(t)
    BY <1>1 DEF Shown, LoadRemoteEffect
  <2>3. Far(t)' = Far(t)
    BY <1>1 DEF LoadRemoteEffect, Far
  <2> QED BY <2>1, <2>2, <2>3 DEF SamePlace
<1>5. Took(t) /\ ~Took(t)' /\ x # None
  BY <1>1, <1>2, MigrationAssumption DEF Took, TookPC, LoadRemoteEffect
<1>6. \A y \in Batches : Away(y)' <=> Away(y) /\ y # x
  BY <1>1, <1>2, <1>4, <1>5 DEF Away, TookOnce
<1>7. /\ dirty[x] /\ win[x] # 0 /\ procs[x] # {} /\ x \notin mem
      /\ \A u \in Threads :
           /\ x \notin free[u] /\ x \notin Pending(u)
           /\ pc[u] \in OwnPC \ {"state"} => hand[u] # x
           /\ \A w \in Slots : data[u][w] # x
  <2>1. Away(x)
    BY <1>2, <1>5 DEF Away
  <2> QED BY <2>1, AwayFacts
<1>8. MemOK'
  BY <1>1, <1>3, <1>7 DEF MemOK, Blank, Same, TypeOK
<1>9. ASSUME NEW u \in Threads PROVE (BlankOK(u) /\ HandOK(u) /\ QueueOK(u) /\ DataOK(u))'
  <2>1. BlankOK(u) /\ HandOK(u) /\ QueueOK(u) /\ DataOK(u)
    BY DEF MInv
  <2>2. /\ free[u] \cup laundry[u] \cup ToSet(rq[u]) \subseteq Batches /\ pend[u] \in Batches
        /\ (pc[u] \in OwnPC => hand[u] \in Batches)
    BY OwnBatches, Values
  <2>3. BlankOK(u)'
    BY <1>3, <1>4, <1>6, <1>7, <2>1, <2>2 DEF BlankOK, Blank, Same, Pending
  <2>4. ASSUME NEW b \in Batches, Lent(u, b) PROVE Lent(u, b)'
    BY <1>3, <1>6, <2>4 DEF Lent, Blank, Same
  <2>5. HandOK(u)'
    <3>1. CASE u = t
      BY <1>1, <3>1 DEF HandOK, LoadRemoteEffect
    <3>2. CASE u # t
      <4>1. pc'[u] = pc[u] /\ hand'[u] = hand[u] /\ slot'[u] = slot[u]
        BY <1>4, <3>2
      <4>2. ASSUME pc[u] \in OwnPC, pc[u] # "read" PROVE HandOK(u)'
        <5>1. PICK b \in Batches : b = hand[u]
          BY <2>2, <4>2
        <5>2. pc[u] = "state" => Lent(u, b)'
          BY <2>1, <2>4, <5>1 DEF HandOK
        <5>3. Lent(u, hand[u])' <=> Lent(u, b)'
          BY <4>1, <5>1 DEF Lent, Away, Blank
        <5>4. win'[b] = win[b] /\ (pc[u] # "state" => Same(b))
          BY <1>3, <1>7, <4>2, <5>1 DEF Same
        <5> QED BY <2>1, <4>1, <5>1, <5>2, <5>3, <5>4 DEF HandOK, Same
      <4>3. CASE pc[u] = "read"
        <5>1. hand[u] # x /\ hand[u] \in Batches
          BY <1>7, <2>2, <4>3 DEF OwnPC
        <5> QED BY <1>3, <2>1, <4>1, <4>3, <5>1 DEF HandOK, Same
      <4>4. CASE pc[u] \notin OwnPC
        BY <4>1, <4>4 DEF HandOK, OwnPC
      <4> QED BY <4>2, <4>3, <4>4
    <3> QED BY <3>1, <3>2
  <2>6. QueueOK(u)'
    <3>1. \A b \in Batches : win'[b] = win[b]
      BY <1>3 DEF Same
    <3> QED BY <1>3, <1>7, <2>1, <2>2, <2>4, <3>1 DEF QueueOK, Same
  <2>7. DataOK(u)'
    <3>1. \A w \in Slots : data[u][w] # None => data[u][w] \in Batches /\ data[u][w] # x
      BY <1>1, <1>7 DEF TypeOK
    <3> QED BY <1>3, <1>4, <2>1, <3>1 DEF DataOK, Same
  <2> QED BY <2>3, <2>5, <2>6, <2>7
<1>10. ASSUME NEW u \in Threads, Took(u)' PROVE TookOK(u)'
  <2>1. u # t
    BY <1>5, <1>10
  <2>2. Took(u) /\ TookOK(u) /\ hand'[u] = hand[u] /\ hand[u] # x /\ vic'[u] = vic[u]
           /\ hand[u] # None
    BY <1>1, <1>2, <1>4, <1>5, <1>10, <2>1 DEF MInv, Took, TookOnce
  <2>3. hand[u] \in Batches
    BY <1>1, <2>2 DEF TypeOK
  <2>4. PICK c \in Threads : c = vic[u]
    BY <1>1, <2>2 DEF MInv, CtlOK, TypeOK, Took, ThiefPC, TookPC
  <2>5. Shown(vic[u])' = Shown(c)' /\ Shown(c)' = Shown(c)
    BY <1>4, <2>2, <2>4 DEF Shown
  <2> QED BY <1>3, <2>2, <2>3, <2>4, <2>5 DEF TookOK, Same
<1>11. TookOnce'
  BY <1>1, <1>4, <1>5 DEF TookOnce
<1>12. (\A u \in Threads : TookOK(u))'
  BY <1>10 DEF TookOK
<1> QED BY <1>8, <1>9, <1>11, <1>12

\* In these places a thread has one step only.
LEMMA NextStep ==
  ASSUME NEW t \in Threads, Event(t), pc[t] \in {"show", "take", "load"}
  PROVE  /\ pc[t] = "show" => Show(t)
         /\ pc[t] = "take" => Take(t)
         /\ pc[t] = "load" => LoadRemote(t)
<1>1. ~Block(t) /\ ~MarkWork(t) /\ ~Enlist(t) /\ ~ReadState(t) /\ ~ClearRead(t) /\ ~LoadCleared(t)
  BY DEF Block, MarkWork, Enlist, WriteState, ReadState, ClearRead, LoadCleared
<1>2. ~Visit(t) /\ ~Picking(t)
  BY DEF Visit, Picking, PickNothing, Choose, Look, ClearBit, Gone, Hide
<1>3. \A b, L, ps, n : ~PushFree(t, b, L, ps, n) /\ ~PushLink(t, b, L, ps, n)
         /\ ~PushShow(t, b, L, ps, n)
  <2>1. \A b, L, ps, n : ~Push(t, b, L, ps, n)
    BY DEF Push
  <2> QED BY <2>1 DEF PushFree, PushLink, PushShow
<1>4. /\ \A p : ~WakeCurb(t, p) /\ ~WakePend(t, p) /\ ~WakeFar(t, p)
      /\ \A p, b, L : ~WakeNew(t, p, b, L)
  <2>1. \A p : ~Woken(t, p)
    BY DEF Woken
  <2> QED BY <2>1 DEF WakeCurb, WakePend, WakeFar, WakeNew
<1>5. /\ \A b, L : ~NewFar(t, b, L) /\ ~LoadPending(t, b, L)
      /\ \A b : ~PullOwn(t, b) /\ ~PullShown(t, b) /\ ~PullTaken(t, b)
  BY <1>2 DEF NewFar, LoadPending, PullOwn, PullShown, PullTaken
<1>6. \A keep : ~Wash(t, keep)
  BY DEF Wash
<1> QED BY <1>1, <1>2, <1>3, <1>4, <1>5, <1>6 DEF Event, Show, Take, LoadRemote

\* The state of all batches, in any step.
LEMMA BatchStep ==
  ASSUME MInv, NEW t \in Threads, Event(t), size' = size
  PROVE  /\ MemOK' /\ (\A u \in Threads : BlankOK(u) /\ HandOK(u) /\ QueueOK(u) /\ DataOK(u))'
         /\ (\A u \in Threads : TookOK(u))' /\ TookOnce'
<1>1. CASE pc[t] \notin {"take", "load"}
  <2>1. MemOK' /\ BlankOK(t)' /\ HandOK(t)' /\ QueueOK(t)' /\ DataOK(t)'
    BY <1>1, OwnStep
  <2>2. \A u \in Threads : u # t => BlankOK(u)' /\ HandOK(u)' /\ QueueOK(u)' /\ DataOK(u)'
    BY <1>1, OtherBatches
  <2>3. (\A u \in Threads : TookOK(u))' /\ TookOnce'
    BY <1>1, TookStep
  <2> QED BY <2>1, <2>2, <2>3
<1>2. CASE Take(t)
  BY <1>2, TakeStep
<1>3. CASE LoadRemote(t)
  BY <1>3, LoadRemoteStep
<1>4. ASSUME pc[t] \in {"take", "load"} PROVE Take(t) \/ LoadRemote(t)
  BY <1>4, NextStep DEF LoadRemote, Take
<1> QED BY <1>1, <1>2, <1>3, <1>4

-----------------------------------------------------------------------------
(* Processes are in one place                                              *)

\* Processes move from the current batch into a batch, from a batch to the
\* current one, and between these, the blocked ones and the one that
\* enqueue_far_process has in hand.
ToBatch(t, x, ps) == /\ ps \subseteq curb[t] /\ curb' = Upd(curb, t, curb[t] \ ps) /\ procs[x] = {}
                     /\ procs' = Upd(procs, x, ps) /\ UNCHANGED <<blocked, far>>
ToCurb(t, x)      == /\ curb[t] = {} /\ curb' = Upd(curb, t, procs[x])
                     /\ procs' = Upd(procs, x, {}) /\ UNCHANGED <<blocked, far>>
Blocks(t, p)      == /\ p \in curb[t] /\ curb' = Upd(curb, t, curb[t] \ {p}) /\ blocked' = blocked
                        \cup {p}
                     /\ UNCHANGED <<procs, far>>
Wakes(t, p)       == /\ p \in blocked /\ blocked' = blocked \ {p}
                        /\ curb' = Upd(curb, t, curb[t] \cup {p})
                     /\ UNCHANGED <<procs, far>>
Queues(t, p, x)   == /\ p \in blocked /\ blocked' = blocked \ {p}
                     /\ procs' = Upd(procs, x, procs[x] \cup {p}) /\ UNCHANGED <<curb, far>>
Keeps(t, p)       == /\ p \in blocked /\ blocked' = blocked \ {p} /\ far[t] = None
                     /\ far' = Upd(far, t, p) /\ UNCHANGED <<procs, curb>>
QueuesFar(t, x)   == /\ far[t] # None /\ far' = Upd(far, t, None) /\ procs[x] = {}
                     /\ procs' = Upd(procs, x, {far[t]}) /\ UNCHANGED <<blocked, curb>>
Move(t) == \/ \E x \in Batches, ps \in SUBSET Procs : ToBatch(t, x, ps)
           \/ \E x \in Batches : ToCurb(t, x) \/ QueuesFar(t, x)
           \/ \E p \in Procs : Blocks(t, p) \/ Wakes(t, p) \/ Keeps(t, p)
           \/ \E p \in Procs, x \in Batches : Queues(t, p, x)
           \/ UNCHANGED <<curb, procs, blocked, far>>

\* In terms of processes a step is one of these moves.
LEMMA MoveOf == ASSUME MInv, NEW t \in Threads, Event(t) PROVE Move(t)
<1>1. CtlOK(t) /\ TyBatch /\ TyQueues /\ TyLocals
  BY Types DEF MInv
<1>100. ASSUME NEW b \in Batches, NEW L \in SUBSET Batches, NEW ps \in SUBSET Procs, NEW n \in
   {"pick", "save"}, PushFree(t, b, L, ps, n) PROVE Move(t)
  <2>1. PushFreeEffect(t, b, L, ps, n)
    BY <1>100, PushFreeFacts
  <2>2. ToBatch(t, b, ps)
    BY <1>100, <2>1 DEF PushFree, Push, PushFreeEffect, ToBatch, Blank
  <2> QED BY <2>2 DEF Move
<1>101. ASSUME NEW b \in Batches, NEW L \in SUBSET Batches, NEW ps \in SUBSET Procs, NEW n \in
   {"pick", "save"}, PushLink(t, b, L, ps, n) PROVE Move(t)
  <2>1. PushLinkEffect(t, b, L, ps, n)
    BY <1>101, PushLinkFacts
  <2>2. ToBatch(t, b, ps)
    BY <1>101, <2>1 DEF PushLink, Push, PushLinkEffect, ToBatch, Blank
  <2> QED BY <2>2 DEF Move
<1>102. ASSUME NEW b \in Batches, NEW L \in SUBSET Batches, NEW ps \in SUBSET Procs, NEW n \in
   {"pick", "save"}, PushShow(t, b, L, ps, n) PROVE Move(t)
  <2>1. PushShowEffect(t, b, L, ps, n)
    BY <1>102, PushShowFacts
  <2>2. ToBatch(t, b, ps)
    BY <1>102, <2>1 DEF PushShow, Push, PushShowEffect, ToBatch, Blank
  <2> QED BY <2>2 DEF Move
<1>103. CASE ReadState(t)
  <2>1. UNCHANGED <<curb, procs, blocked, far>>
    BY <1>103 DEF ReadState, window, queues
  <2> QED BY <2>1 DEF Move
<1>104. CASE Show(t)
  <2>1. UNCHANGED <<curb, procs, blocked, far>>
    BY <1>104 DEF Show, queues, locals
  <2> QED BY <2>1 DEF Move
<1>105. CASE Enlist(t)
  <2>1. UNCHANGED <<curb, procs, blocked, far>>
    BY <1>105 DEF Enlist, WriteState, batch
  <2> QED BY <2>1 DEF Move
<1>106. CASE MarkWork(t)
  <2>1. UNCHANGED <<curb, procs, blocked, far>>
    BY <1>106 DEF MarkWork, batch, queues
  <2> QED BY <2>1 DEF Move
<1>107. CASE Block(t)
  <2>1. PICK p \in curb[t] : Set(curb, t, curb[t] \ {p}) /\ blocked' = blocked \cup {p}
    BY <1>107 DEF Block
  <2>2. p \in Procs
    BY <1>1 DEF TyQueues
  <2>3. Blocks(t, p)
    BY <1>107, <2>1 DEF Block, Blocks, Set, Upd, batch, locals
  <2> QED BY <2>2, <2>3 DEF Move
<1>108. ASSUME NEW p \in Procs, WakeCurb(t, p) PROVE Move(t)
  <2>1. Wakes(t, p)
    BY <1>108 DEF WakeCurb, Woken, Wakes
  <2> QED BY <1>108, <2>1 DEF Move
<1>109. ASSUME NEW p \in Procs, WakePend(t, p) PROVE Move(t)
  <2>1. Queues(t, p, pend[t]) /\ pend[t] \in Batches
    BY <1>109, <1>1 DEF WakePend, Woken, Queues, TyQueues
  <2> QED BY <1>109, <2>1 DEF Move
<1>110. ASSUME NEW p \in Procs, WakeFar(t, p) PROVE Move(t)
  <2>1. WakeFarEffect(t, p)
    BY <1>110, WakeFarFacts
  <2>2. far[t] = None
    BY <1>1, <2>1 DEF CtlOK, WakeFarEffect
  <2>3. Keeps(t, p)
    BY <1>110, <2>2 DEF WakeFar, Woken, Keeps
  <2> QED BY <1>110, <2>3 DEF Move
<1>111. ASSUME NEW p \in Procs, NEW b \in Batches, NEW L \in SUBSET Batches, WakeNew(t, p, b,
   L) PROVE Move(t)
  <2>1. WakeNewEffect(t, p, b, L)
    BY <1>111, WakeNewFacts
  <2>2. procs[b] = {}
    BY <2>1 DEF WakeNewEffect, Blank
  <2>3. Queues(t, p, b)
    BY <1>111, <2>2 DEF WakeNew, Woken, Queues
  <2> QED BY <1>111, <2>3 DEF Move
<1>112. ASSUME NEW b \in Batches, NEW L \in SUBSET Batches, NewFar(t, b, L) PROVE Move(t)
  <2>1. NewFarEffect(t, b, L)
    BY <1>112, NewFarFacts
  <2>2. far[t] # None /\ procs[b] = {}
    BY <1>1, <2>1 DEF CtlOK, NewFarEffect, Blank
  <2>3. QueuesFar(t, b)
    BY <1>112, <2>2 DEF NewFar, QueuesFar
  <2> QED BY <1>112, <2>3 DEF Move
<1>113. ASSUME NEW b \in Batches, NEW L \in SUBSET Batches, LoadPending(t, b, L) PROVE Move(t)
  <2>1. LoadPendingEffect(t, b, L)
    BY <1>113, LoadPendingFacts
  <2>2. ToCurb(t, pend[t])
    BY <1>113, <2>1 DEF LoadPending, Load, LoadPendingEffect, ToCurb, Upd, Set
  <2> QED BY <2>1, <2>2, <1>1 DEF Move, LoadPendingEffect, TyQueues
<1>114. ASSUME NEW b \in Batches, PullOwn(t, b) PROVE Move(t)
  <2>1. PullOwnEffect(t, b)
    BY <1>114, PullOwnFacts
  <2>2. ToCurb(t, b)
    BY <1>114, <2>1 DEF PullOwn, Load, PullOwnEffect, ToCurb, Upd, Set
  <2> QED BY <2>1, <2>2, <1>1 DEF Move, PullOwnEffect, TyQueues
<1>115. ASSUME NEW b \in Batches, PullShown(t, b) PROVE Move(t)
  <2>1. UNCHANGED <<curb, procs, blocked, far>>
    BY <1>115 DEF PullShown
  <2> QED BY <2>1 DEF Move
<1>116. ASSUME NEW b \in Batches, PullTaken(t, b) PROVE Move(t)
  <2>1. UNCHANGED <<curb, procs, blocked, far>>
    BY <1>116 DEF PullTaken
  <2> QED BY <2>1 DEF Move
<1>117. CASE ClearRead(t)
  <2>1. UNCHANGED <<curb, procs, blocked, far>>
    BY <1>117 DEF ClearRead, batch, window, queues
  <2> QED BY <2>1 DEF Move
<1>118. CASE LoadCleared(t)
  <2>1. LoadClearedEffect(t)
    BY <1>118, LoadClearedFacts
  <2>2. ToCurb(t, hand[t])
    BY <1>118, <2>1 DEF LoadCleared, Load, LoadClearedEffect, ToCurb, Upd, Set
  <2> QED BY <2>1, <2>2, <1>1 DEF Move, LoadClearedEffect, TyQueues
<1>119. ASSUME NEW keep \in SUBSET Batches, Wash(t, keep) PROVE Move(t)
  <2>1. UNCHANGED <<curb, procs, blocked, far>>
    BY <1>119 DEF Wash
  <2> QED BY <2>1 DEF Move
<1>120. CASE Visit(t)
  <2>1. UNCHANGED <<curb, procs, blocked, far>>
    BY <1>120 DEF Visit
  <2> QED BY <2>1 DEF Move
<1>121. CASE Take(t)
  <2>1. UNCHANGED <<curb, procs, blocked, far>>
    BY <1>121 DEF Take, batch, queues
  <2> QED BY <2>1 DEF Move
<1>122. CASE LoadRemote(t)
  <2>1. LoadRemoteEffect(t)
    BY <1>122, LoadRemoteFacts
  <2>2. ToCurb(t, hand[t])
    BY <1>122, <2>1 DEF LoadRemote, window, LoadRemoteEffect, ToCurb, Upd, Set
  <2> QED BY <2>1, <2>2, <1>1 DEF Move, LoadRemoteEffect, TyQueues
<1> QED BY <1>100, <1>101, <1>102, <1>103, <1>104, <1>105, <1>106, <1>107, <1>108, <1>109,
   <1>110, <1>111, <1>112, <1>113, <1>114, <1>115, <1>116, <1>117, <1>118, <1>119, <1>120,
   <1>121, <1>122 DEF Event

\* A move keeps every process in one place.
LEMMA PartStep == ASSUME MInv, NEW t \in Threads, Event(t) PROVE PartOK'
<1>1. /\ curb \in [Threads -> SUBSET Procs] /\ procs \in [Batches -> SUBSET Procs] /\ PartOK
      /\ far \in [Threads -> Procs \cup {None}] /\ None \notin Procs
  BY MigrationAssumption DEF MInv, TypeOK
<1>2. Move(t)
  BY MoveOf
<1>3. ASSUME NEW x \in Batches, NEW ps \in SUBSET Procs, ToBatch(t, x, ps) PROVE PartOK'
  BY <1>1, <1>3 DEF PartOK, ToBatch, Upd
<1>4. ASSUME NEW x \in Batches, ToCurb(t, x) PROVE PartOK'
  BY <1>1, <1>4 DEF PartOK, ToCurb, Upd
<1>5. ASSUME NEW p \in Procs, Blocks(t, p) PROVE PartOK'
  BY <1>1, <1>5 DEF PartOK, Blocks, Upd
<1>6. ASSUME NEW p \in Procs, Wakes(t, p) PROVE PartOK'
  BY <1>1, <1>6 DEF PartOK, Wakes, Upd
<1>7. ASSUME NEW p \in Procs, NEW x \in Batches, Queues(t, p, x) PROVE PartOK'
  BY <1>1, <1>7 DEF PartOK, Queues, Upd
<1>8. ASSUME NEW p \in Procs, Keeps(t, p) PROVE PartOK'
  BY <1>1, <1>8 DEF PartOK, Keeps, Upd
<1>9. ASSUME NEW x \in Batches, QueuesFar(t, x) PROVE PartOK'
  BY <1>1, <1>9 DEF PartOK, QueuesFar, Upd
<1>10. CASE UNCHANGED <<curb, procs, blocked, far>>
  BY <1>1, <1>10 DEF PartOK
<1> QED BY <1>2, <1>3, <1>4, <1>5, <1>6, <1>7, <1>8, <1>9, <1>10 DEF Move

-----------------------------------------------------------------------------
(* The kinds of process                                                    *)

\* Of the batches of other threads, a step at most empties the one it loads.
LEMMA OtherKinds ==
  ASSUME MInv, NEW t \in Threads, Event(t), NEW u \in Threads, u # t PROVE KindOK(u)'
<1>1. KindOK(u) /\ Own(t) \cap Own(u) = {} /\ mem \cap Own(u) = {} /\ Own(u) \subseteq Batches
  BY OwnBatches DEF MInv, ApartOK
<1>2. /\ SameLists(u) /\ SamePlace(u) /\ Far(u)' = Far(u) /\ Own(u)' = Own(u)
  BY OthersStep
<1>3. ASSUME NEW x \in Own(u) PROVE procs'[x] \in {procs[x], {}} /\ win'[x] = win[x]
  <2>1. x \in Batches /\ x \notin mem \cup Own(t)
    BY <1>1
  <2>2. CASE pc[t] # "load" \/ x # hand[t]
    <3>1. Same(x)
      BY <2>1, <2>2, FrameStep
    <3> QED BY <3>1 DEF Same
  <2>3. CASE pc[t] = "load" /\ x = hand[t]
    <3>1. LoadRemoteEffect(t)
      BY <2>3, LoadRemoteFacts, NextStep
    <3> QED BY <2>3, <3>1 DEF LoadRemoteEffect
  <2> QED BY <2>2, <2>3
<1>4. /\ free[u] \cup laundry[u] \cup ToSet(rq[u]) \subseteq Own(u)
      /\ (~Far(u) => pend[u] \in Own(u)) /\ (pc[u] \in OwnPC => hand[u] \in Own(u))
  BY DEF Own, Pending, Held
<1>5. KindCurb(u)' /\ KindPend(u)'
  BY <1>1, <1>2, <1>3, <1>4 DEF KindOK, KindCurb, KindPend, SameLists, SamePlace
<1>6. KindOwn(u)'
  BY <1>1, <1>2, <1>3 DEF KindOK, KindOwn
<1>7. KindLent(u)'
  BY <1>1, <1>2, <1>3, <1>4 DEF KindOK, KindLent, SameLists, SamePlace
<1> QED BY <1>5, <1>6, <1>7 DEF KindOK

\* Nor does a step of the thread itself mix the processes of its batches.
LEMMA OwnKinds ==
  ASSUME MInv, NEW t \in Threads, Event(t) PROVE KindOK(t)'
<1>1. KindCurb(t) /\ KindPend(t) /\ KindOwn(t) /\ KindLent(t) /\ ListsOK(t) /\ BlankOK(t)
  BY DEF MInv, KindOK
<1>2. /\ free[t] \cup laundry[t] \cup ToSet(rq[t]) \subseteq Batches /\ pend[t] \in Batches
         /\ mem \subseteq Batches
      /\ Own(t) \subseteq Batches /\ None \notin Procs
  BY OwnBatches, MigrationAssumption DEF MInv, TypeOK
<1>3. /\ Own(t)' \subseteq mem \cup Own(t) /\ (\A x \in mem : procs[x] = {})
  BY ListsStep DEF MInv, MemOK, Blank
<1>4. /\ DOMAIN curb = Threads /\ DOMAIN prio = Threads /\ DOMAIN far = Threads
      /\ \A p \in Affine : Wakers[p] = {Home[p]}
  BY MigrationAssumption DEF MInv, TypeOK
<1>5. ~Far(t) => pend[t] \in Own(t) /\ Pending(t) = {pend[t]}
  BY DEF Own, Pending
<1>6. ToSet(rq[t]) \subseteq Own(t) /\ (pc[t] \in OwnPC => hand[t] \in Own(t))
  BY DEF Own, Held
<1>7. mem \cap Own(t) = {}
  BY DEF MInv, ApartOK
<1>8. 0 \notin Slots
  BY Constants, Types DEF MInv
<1>100. ASSUME NEW b \in Batches, NEW L \in SUBSET Batches, NEW ps \in SUBSET Procs, NEW n \in
   {"pick", "save"}, PushFree(t, b, L, ps, n) PROVE KindOK(t)'
  <2>1. PushFreeEffect(t, b, L, ps, n)
    BY <1>100, PushFreeFacts
  <2>2. ps \subseteq curb[t] /\ curb'[t] = curb[t] \ ps /\ prio' = prio /\ far' = far
    BY <1>100, <1>4 DEF PushFree, Push, Upd
  <2>3. KindCurb(t)'
    BY ONLY <1>100, <1>1, <1>4, <1>5, <1>6, <2>1, <2>2 DEF KindCurb, KindOwn, KindLent, OwnPC,
       Kind, PrioOf, PushFreeEffect
  <2>4. KindPend(t)'
    BY ONLY <1>100, <1>1, <1>2, <1>5, <1>6, <2>1, <2>2 DEF KindPend, KindCurb, BlankOK, Blank,
       ListsOK, Same, PushFreeEffect
  <2>5. KindOwn(t)'
    BY ONLY <1>100, <1>1, <1>2, <1>3, <1>4, <1>5, <1>6, <2>1, <2>2 DEF KindOwn, KindCurb,
       KindPend, Kind, Same, PushFreeEffect
  <2>7. b \notin ToSet(rq[t])
    BY ONLY <1>1, <1>6, <1>7, <2>1 DEF ListsOK, PushFreeEffect
  <2>6. KindLent(t)'
    BY ONLY <1>100, <1>1, <1>2, <1>5, <1>6, <2>7, <2>1, <2>2 DEF KindLent, KindPend, Kind,
       ListsOK, Same, OwnPC, ThiefPC, TookPC, PushFreeEffect
  <2> QED BY <2>3, <2>4, <2>5, <2>6 DEF KindOK
<1>101. ASSUME NEW b \in Batches, NEW L \in SUBSET Batches, NEW ps \in SUBSET Procs, NEW n \in
   {"pick", "save"}, PushLink(t, b, L, ps, n) PROVE KindOK(t)'
  <2>1. PushLinkEffect(t, b, L, ps, n)
    BY <1>101, PushLinkFacts
  <2>2. ps \subseteq curb[t] /\ curb'[t] = curb[t] \ ps /\ prio' = prio /\ far' = far
    BY <1>101, <1>4 DEF PushLink, Push, Upd
  <2>3. KindCurb(t)'
    BY ONLY <1>101, <1>1, <1>4, <1>5, <1>6, <2>1, <2>2 DEF KindCurb, KindOwn, KindLent, OwnPC,
       Kind, PrioOf, PushLinkEffect
  <2>4. KindPend(t)'
    BY ONLY <1>101, <1>1, <1>2, <1>5, <1>6, <2>1, <2>2 DEF KindPend, KindCurb, BlankOK, Blank,
       ListsOK, Same, PushLinkEffect
  <2>5. KindOwn(t)'
    BY ONLY <1>101, <1>1, <1>2, <1>3, <1>4, <1>5, <1>6, <2>1, <2>2 DEF KindOwn, KindCurb,
       KindPend, Kind, Same, PushLinkEffect
  <2>7. b \notin ToSet(rq[t])
    BY ONLY <1>1, <1>6, <1>7, <2>1 DEF ListsOK, PushLinkEffect
  <2>6. KindLent(t)'
    BY ONLY <1>101, <1>1, <1>2, <1>5, <1>6, <2>7, <2>1, <2>2 DEF KindLent, KindPend, Kind,
       ListsOK, Same, OwnPC, ThiefPC, TookPC, PushLinkEffect
  <2> QED BY <2>3, <2>4, <2>5, <2>6 DEF KindOK
<1>102. ASSUME NEW b \in Batches, NEW L \in SUBSET Batches, NEW ps \in SUBSET Procs, NEW n \in
   {"pick", "save"}, PushShow(t, b, L, ps, n) PROVE KindOK(t)'
  <2>1. PushShowEffect(t, b, L, ps, n)
    BY <1>102, PushShowFacts
  <2>2. ps \subseteq curb[t] /\ curb'[t] = curb[t] \ ps /\ prio' = prio /\ far' = far
    BY <1>102, <1>4 DEF PushShow, Push, Upd
  <2>3. KindCurb(t)'
    BY ONLY <1>102, <1>1, <1>4, <1>5, <1>6, <2>1, <2>2 DEF KindCurb, KindOwn, KindLent, OwnPC,
       Kind, PrioOf, PushShowEffect
  <2>4. KindPend(t)'
    BY ONLY <1>102, <1>1, <1>2, <1>5, <1>6, <2>1, <2>2 DEF KindPend, KindCurb, BlankOK, Blank,
       ListsOK, Same, PushShowEffect
  <2>5. KindOwn(t)'
    BY ONLY <1>102, <1>1, <1>2, <1>3, <1>4, <1>5, <1>6, <2>1, <2>2 DEF KindOwn, KindCurb,
       KindPend, Kind, Same, PushShowEffect
  <2>7. b \notin ToSet(rq[t])
    BY ONLY <1>1, <1>6, <1>7, <2>1 DEF ListsOK, PushShowEffect
  <2>6. KindLent(t)'
    BY ONLY <1>102, <1>1, <1>2, <1>5, <1>6, <2>7, <2>1, <2>2 DEF KindLent, KindPend, Kind,
       ListsOK, Same, OwnPC, ThiefPC, TookPC, PushShowEffect
  <2> QED BY <2>3, <2>4, <2>5, <2>6 DEF KindOK
<1>103. CASE ReadState(t)
  <2>1. ReadStateEffect(t)
    BY <1>103, ReadStateFacts
  <2>2. curb' = curb /\ prio' = prio /\ far' = far
    BY <1>103, <1>4 DEF ReadState, window, queues, Set, Upd
  <2>3. KindCurb(t)'
    BY ONLY <1>103, <1>1, <1>4, <1>5, <1>6, <2>1, <2>2 DEF KindCurb, KindOwn, KindLent, OwnPC,
       Kind, PrioOf, ReadStateEffect
  <2>4. KindPend(t)'
    BY ONLY <1>103, <1>1, <1>2, <1>5, <1>6, <2>1, <2>2 DEF KindPend, KindCurb, BlankOK, Blank,
       ListsOK, Same, ReadStateEffect
  <2>5. KindOwn(t)'
    BY ONLY <1>103, <1>1, <1>2, <1>3, <1>4, <1>5, <1>6, <2>1, <2>2 DEF KindOwn, KindCurb,
       KindPend, Kind, Same, ReadStateEffect
  <2>6. KindLent(t)'
    BY ONLY <1>103, <1>1, <1>2, <1>5, <1>6, <2>1, <2>2 DEF KindLent, KindPend, Kind, ListsOK,
       Same, OwnPC, ThiefPC, TookPC, ReadStateEffect
  <2> QED BY <2>3, <2>4, <2>5, <2>6 DEF KindOK
<1>104. CASE Show(t)
  <2>1. ShowEffect(t)
    BY <1>104, ShowFacts
  <2>2. curb' = curb /\ prio' = prio /\ far' = far
    BY <1>104, <1>4 DEF Show, queues, locals, Set, Upd
  <2>3. KindCurb(t)'
    BY ONLY <1>104, <1>1, <1>4, <1>5, <1>6, <2>1, <2>2 DEF KindCurb, KindOwn, KindLent, OwnPC,
       Kind, PrioOf, ShowEffect
  <2>4. KindPend(t)'
    BY ONLY <1>104, <1>1, <1>2, <1>5, <1>6, <2>1, <2>2 DEF KindPend, KindCurb, BlankOK, Blank,
       ListsOK, Same, ShowEffect
  <2>5. KindOwn(t)'
    BY ONLY <1>104, <1>1, <1>2, <1>3, <1>4, <1>5, <1>6, <2>1, <2>2 DEF KindOwn, KindCurb,
       KindPend, Kind, Same, ShowEffect
  <2>6. KindLent(t)'
    BY ONLY <1>104, <1>1, <1>2, <1>5, <1>6, <2>1, <2>2 DEF KindLent, KindPend, Kind, ListsOK,
       Same, OwnPC, ThiefPC, TookPC, ShowEffect
  <2> QED BY <2>3, <2>4, <2>5, <2>6 DEF KindOK
<1>105. CASE Enlist(t)
  <2>1. EnlistEffect(t)
    BY <1>105, EnlistFacts
  <2>2. curb' = curb /\ prio' = prio /\ far' = far
    BY <1>105, <1>4 DEF Enlist, WriteState, batch, Set, Upd
  <2>3. KindCurb(t)'
    BY ONLY <1>105, <1>1, <1>4, <1>5, <1>6, <2>1, <2>2 DEF KindCurb, KindOwn, KindLent, OwnPC,
       Kind, PrioOf, EnlistEffect
  <2>4. KindPend(t)'
    BY ONLY <1>105, <1>1, <1>2, <1>5, <1>6, <2>1, <2>2 DEF KindPend, KindCurb, BlankOK, Blank,
       ListsOK, Same, EnlistEffect
  <2>5. KindOwn(t)'
    BY ONLY <1>105, <1>1, <1>2, <1>3, <1>4, <1>5, <1>6, <2>1, <2>2 DEF KindOwn, KindCurb,
       KindPend, Kind, Same, EnlistEffect
  <2>6. KindLent(t)'
    BY ONLY <1>105, <1>1, <1>2, <1>5, <1>6, <2>1, <2>2 DEF KindLent, KindPend, Kind, ListsOK,
       Same, OwnPC, ThiefPC, TookPC, EnlistEffect
  <2> QED BY <2>3, <2>4, <2>5, <2>6 DEF KindOK
<1>106. CASE MarkWork(t)
  <2>1. MarkWorkEffect(t)
    BY <1>106, MarkWorkFacts
  <2>2. curb' = curb /\ prio' = prio /\ far' = far
    BY <1>106, <1>4 DEF MarkWork, batch, queues, Set, Upd
  <2>3. KindCurb(t)'
    BY ONLY <1>106, <1>1, <1>4, <1>5, <1>6, <2>1, <2>2 DEF KindCurb, KindOwn, KindLent, OwnPC,
       Kind, PrioOf, MarkWorkEffect
  <2>4. KindPend(t)'
    BY ONLY <1>106, <1>1, <1>2, <1>5, <1>6, <2>1, <2>2 DEF KindPend, KindCurb, BlankOK, Blank,
       ListsOK, Same, MarkWorkEffect
  <2>5. KindOwn(t)'
    BY ONLY <1>106, <1>1, <1>2, <1>3, <1>4, <1>5, <1>6, <2>1, <2>2 DEF KindOwn, KindCurb,
       KindPend, Kind, Same, MarkWorkEffect
  <2>6. KindLent(t)'
    BY ONLY <1>106, <1>1, <1>2, <1>5, <1>6, <2>1, <2>2 DEF KindLent, KindPend, Kind, ListsOK,
       Same, OwnPC, ThiefPC, TookPC, MarkWorkEffect
  <2> QED BY <2>3, <2>4, <2>5, <2>6 DEF KindOK
<1>107. CASE Block(t)
  <2>1. BlockEffect(t)
    BY <1>107, BlockFacts
  <2>2. curb'[t] \subseteq curb[t] /\ prio' = prio /\ far' = far
    BY <1>107, <1>4 DEF Block, batch, window, locals, Set, Upd
  <2>3. KindCurb(t)'
    BY ONLY <1>107, <1>1, <1>4, <1>5, <1>6, <2>1, <2>2 DEF KindCurb, KindOwn, KindLent, OwnPC,
       Kind, PrioOf, BlockEffect
  <2>4. KindPend(t)'
    BY ONLY <1>107, <1>1, <1>2, <1>5, <1>6, <2>1, <2>2 DEF KindPend, KindCurb, BlankOK, Blank,
       ListsOK, Same, BlockEffect
  <2>5. KindOwn(t)'
    BY ONLY <1>107, <1>1, <1>2, <1>3, <1>4, <1>5, <1>6, <2>1, <2>2 DEF KindOwn, KindCurb,
       KindPend, Kind, Same, BlockEffect
  <2>6. KindLent(t)'
    BY ONLY <1>107, <1>1, <1>2, <1>5, <1>6, <2>1, <2>2 DEF KindLent, KindPend, Kind, ListsOK,
       Same, OwnPC, ThiefPC, TookPC, BlockEffect
  <2> QED BY <2>3, <2>4, <2>5, <2>6 DEF KindOK
<1>108. ASSUME NEW p \in Procs, WakeCurb(t, p) PROVE KindOK(t)'
  <2>1. WakeCurbEffect(t, p)
    BY <1>108, WakeCurbFacts
  <2>2. curb'[t] = curb[t] \cup {p} /\ prio' = prio /\ far' = far /\ prio[t] = Kind(p)
           /\ t \in Wakers[p]
    BY <1>108, <1>4 DEF WakeCurb, Woken, Set, Upd
  <2>3. KindCurb(t)'
    BY ONLY <1>108, <1>1, <1>4, <1>5, <1>6, <2>1, <2>2 DEF KindCurb, KindOwn, KindLent, OwnPC,
       Kind, PrioOf, WakeCurbEffect
  <2>4. KindPend(t)'
    BY ONLY <1>108, <1>1, <1>2, <1>5, <1>6, <2>1, <2>2 DEF KindPend, KindCurb, BlankOK, Blank,
       ListsOK, Same, WakeCurbEffect
  <2>5. KindOwn(t)'
    BY ONLY <1>108, <1>1, <1>2, <1>3, <1>4, <1>5, <1>6, <2>1, <2>2 DEF KindOwn, KindCurb,
       KindPend, Kind, Same, WakeCurbEffect
  <2>6. KindLent(t)'
    BY ONLY <1>108, <1>1, <1>2, <1>5, <1>6, <2>1, <2>2 DEF KindLent, KindPend, Kind, ListsOK,
       Same, OwnPC, ThiefPC, TookPC, WakeCurbEffect
  <2> QED BY <2>3, <2>4, <2>5, <2>6 DEF KindOK
<1>109. ASSUME NEW p \in Procs, WakePend(t, p) PROVE KindOK(t)'
  <2>1. WakePendEffect(t, p)
    BY <1>109, WakePendFacts
  <2>2. curb' = curb /\ prio' = prio /\ far' = far /\ t \in Wakers[p]
           /\ pprio[t] \in {"none", Kind(p)}
    BY <1>109, <1>4 DEF WakePend, Woken, Set, Upd
  <2>3. KindCurb(t)'
    BY ONLY <1>109, <1>1, <1>4, <1>5, <1>6, <2>1, <2>2 DEF KindCurb, KindOwn, KindLent, OwnPC,
       Kind, PrioOf, WakePendEffect
  <2>4. KindPend(t)'
    BY ONLY <1>109, <1>1, <1>2, <1>5, <1>6, <2>1, <2>2 DEF KindPend, KindCurb, BlankOK, Blank,
       ListsOK, Same, WakePendEffect
  <2>5. KindOwn(t)'
    BY ONLY <1>109, <1>1, <1>2, <1>3, <1>4, <1>5, <1>6, <2>1, <2>2 DEF KindOwn, KindCurb,
       KindPend, Kind, Same, WakePendEffect
  <2>6. KindLent(t)'
    BY ONLY <1>109, <1>1, <1>2, <1>5, <1>6, <2>1, <2>2 DEF KindLent, KindPend, Kind, ListsOK,
       Same, OwnPC, ThiefPC, TookPC, WakePendEffect
  <2> QED BY <2>3, <2>4, <2>5, <2>6 DEF KindOK
<1>110. ASSUME NEW p \in Procs, WakeFar(t, p) PROVE KindOK(t)'
  <2>1. WakeFarEffect(t, p)
    BY <1>110, WakeFarFacts
  <2>2. curb' = curb /\ prio' = prio /\ far'[t] = p /\ p \in Affine /\ t \in Wakers[p]
    BY <1>110, <1>4 DEF WakeFar, Woken, Set, Upd, Kind
  <2>3. KindCurb(t)'
    BY ONLY <1>110, <1>1, <1>4, <1>5, <1>6, <2>1, <2>2 DEF KindCurb, KindOwn, KindLent, OwnPC,
       Kind, PrioOf, WakeFarEffect
  <2>4. KindPend(t)'
    BY ONLY <1>110, <1>1, <1>2, <1>5, <1>6, <2>1, <2>2 DEF KindPend, KindCurb, BlankOK, Blank,
       ListsOK, Same, WakeFarEffect
  <2>5. KindOwn(t)'
    BY ONLY <1>110, <1>1, <1>2, <1>3, <1>4, <1>5, <1>6, <2>1, <2>2 DEF KindOwn, KindCurb,
       KindPend, Kind, Same, WakeFarEffect
  <2>6. KindLent(t)'
    BY ONLY <1>110, <1>1, <1>2, <1>5, <1>6, <2>1, <2>2 DEF KindLent, KindPend, Kind, ListsOK,
       Same, OwnPC, ThiefPC, TookPC, WakeFarEffect
  <2> QED BY <2>3, <2>4, <2>5, <2>6 DEF KindOK
<1>111. ASSUME NEW p \in Procs, NEW b \in Batches, NEW L \in SUBSET Batches, WakeNew(t, p, b,
   L) PROVE KindOK(t)'
  <2>1. WakeNewEffect(t, p, b, L)
    BY <1>111, WakeNewFacts
  <2>2. curb' = curb /\ prio' = prio /\ far' = far /\ t \in Wakers[p]
    BY <1>111, <1>4 DEF WakeNew, Woken, Set, Upd
  <2>3. KindCurb(t)'
    BY ONLY <1>111, <1>1, <1>4, <1>5, <1>6, <2>1, <2>2 DEF KindCurb, KindOwn, KindLent, OwnPC,
       Kind, PrioOf, WakeNewEffect
  <2>4. KindPend(t)'
    BY ONLY <1>111, <1>1, <1>2, <1>5, <1>6, <2>1, <2>2 DEF KindPend, KindCurb, BlankOK, Blank,
       ListsOK, Same, WakeNewEffect
  <2>5. KindOwn(t)'
    BY ONLY <1>111, <1>1, <1>2, <1>3, <1>4, <1>5, <1>6, <2>1, <2>2 DEF KindOwn, KindCurb,
       KindPend, Kind, Same, WakeNewEffect
  <2>7. b \notin ToSet(rq[t])
    BY ONLY <1>1, <1>6, <1>7, <2>1 DEF ListsOK, WakeNewEffect
  <2>6. KindLent(t)'
    BY ONLY <1>111, <1>1, <1>2, <1>5, <1>6, <2>7, <2>1, <2>2 DEF KindLent, KindPend, Kind,
       ListsOK, Same, OwnPC, ThiefPC, TookPC, WakeNewEffect
  <2> QED BY <2>3, <2>4, <2>5, <2>6 DEF KindOK
<1>112. ASSUME NEW b \in Batches, NEW L \in SUBSET Batches, NewFar(t, b, L) PROVE KindOK(t)'
  <2>1. NewFarEffect(t, b, L)
    BY <1>112, NewFarFacts
  <2>2. curb' = curb /\ prio' = prio /\ far'[t] = None /\ far[t] # None
    BY <1>112, <1>4, Values, <1>2 DEF NewFar, Set, Upd
  <2>3. KindCurb(t)'
    BY ONLY <1>112, <1>1, <1>4, <1>5, <1>6, <2>1, <2>2 DEF KindCurb, KindOwn, KindLent, OwnPC,
       Kind, PrioOf, NewFarEffect
  <2>4. KindPend(t)'
    BY ONLY <1>112, <1>1, <1>2, <1>5, <1>6, <2>1, <2>2 DEF KindPend, KindCurb, BlankOK, Blank,
       ListsOK, Same, NewFarEffect
  <2>5. KindOwn(t)'
    BY ONLY <1>112, <1>1, <1>2, <1>3, <1>4, <1>5, <1>6, <2>1, <2>2 DEF KindOwn, KindCurb,
       KindPend, Kind, Same, NewFarEffect
  <2>7. b \notin ToSet(rq[t])
    BY ONLY <1>1, <1>6, <1>7, <2>1 DEF ListsOK, NewFarEffect
  <2>6. KindLent(t)'
    BY ONLY <1>112, <1>1, <1>2, <1>5, <1>6, <2>7, <2>1, <2>2 DEF KindLent, KindPend, Kind,
       ListsOK, Same, OwnPC, ThiefPC, TookPC, NewFarEffect
  <2> QED BY <2>3, <2>4, <2>5, <2>6 DEF KindOK
<1>113. ASSUME NEW b \in Batches, NEW L \in SUBSET Batches, LoadPending(t, b, L) PROVE
   KindOK(t)'
  <2>1. LoadPendingEffect(t, b, L)
    BY <1>113, LoadPendingFacts
  <2>2. curb'[t] = procs[pend[t]] /\ prio'[t] = PrioOf(pend[t]) /\ far' = far
    BY <1>113, <1>4 DEF LoadPending, Load, Set, Upd, PrioOf
  <2>3. KindCurb(t)'
    BY ONLY <1>113, <1>1, <1>4, <1>5, <1>6, <2>1, <2>2 DEF KindCurb, KindOwn, KindLent, OwnPC,
       Kind, PrioOf, LoadPendingEffect
  <2>4. KindPend(t)'
    BY ONLY <1>113, <1>1, <1>2, <1>5, <1>6, <2>1, <2>2 DEF KindPend, KindCurb, BlankOK, Blank,
       ListsOK, Same, LoadPendingEffect
  <2>5. KindOwn(t)'
    BY ONLY <1>113, <1>1, <1>2, <1>3, <1>4, <1>5, <1>6, <2>1, <2>2 DEF KindOwn, KindCurb,
       KindPend, Kind, Same, LoadPendingEffect
  <2>7. b \notin ToSet(rq[t])
    BY ONLY <1>1, <1>6, <1>7, <2>1 DEF ListsOK, LoadPendingEffect
  <2>6. KindLent(t)'
    BY ONLY <1>113, <1>1, <1>2, <1>5, <1>6, <2>7, <2>1, <2>2 DEF KindLent, KindPend, Kind,
       ListsOK, Same, OwnPC, ThiefPC, TookPC, LoadPendingEffect
  <2> QED BY <2>3, <2>4, <2>5, <2>6 DEF KindOK
<1>114. ASSUME NEW b \in Batches, PullOwn(t, b) PROVE KindOK(t)'
  <2>1. PullOwnEffect(t, b)
    BY <1>114, PullOwnFacts
  <2>2. curb'[t] = procs[b] /\ prio'[t] = PrioOf(b) /\ far' = far
    BY <1>114, <1>4 DEF PullOwn, Load, Set, Upd, PrioOf
  <2>3. KindCurb(t)'
    BY ONLY <1>114, <1>1, <1>4, <1>5, <1>6, <2>1, <2>2 DEF KindCurb, KindOwn, KindLent, OwnPC,
       Kind, PrioOf, PullOwnEffect
  <2>4. KindPend(t)'
    BY ONLY <1>114, <1>1, <1>2, <1>5, <1>6, <2>1, <2>2 DEF KindPend, KindCurb, BlankOK, Blank,
       ListsOK, Same, PullOwnEffect
  <2>5. KindOwn(t)'
    BY ONLY <1>114, <1>1, <1>2, <1>3, <1>4, <1>5, <1>6, <2>1, <2>2 DEF KindOwn, KindCurb,
       KindPend, Kind, Same, PullOwnEffect
  <2>6. KindLent(t)'
    BY ONLY <1>114, <1>1, <1>2, <1>5, <1>6, <1>8, <2>1, <2>2 DEF KindLent, KindPend, Kind,
       ListsOK, Same, OwnPC, ThiefPC, TookPC, PullOwnEffect
  <2> QED BY <2>3, <2>4, <2>5, <2>6 DEF KindOK
<1>115. ASSUME NEW b \in Batches, PullShown(t, b) PROVE KindOK(t)'
  <2>1. PullShownEffect(t, b)
    BY <1>115, PullShownFacts
  <2>2. curb' = curb /\ prio' = prio /\ far' = far
    BY <1>115, <1>4 DEF PullShown, Set, Upd
  <2>3. KindCurb(t)'
    BY ONLY <1>115, <1>1, <1>4, <1>5, <1>6, <2>1, <2>2 DEF KindCurb, KindOwn, KindLent, OwnPC,
       Kind, PrioOf, PullShownEffect
  <2>4. KindPend(t)'
    BY ONLY <1>115, <1>1, <1>2, <1>5, <1>6, <2>1, <2>2 DEF KindPend, KindCurb, BlankOK, Blank,
       ListsOK, Same, PullShownEffect
  <2>5. KindOwn(t)'
    BY ONLY <1>115, <1>1, <1>2, <1>3, <1>4, <1>5, <1>6, <2>1, <2>2 DEF KindOwn, KindCurb,
       KindPend, Kind, Same, PullShownEffect
  <2>6. KindLent(t)'
    BY ONLY <1>115, <1>1, <1>2, <1>5, <1>6, <1>8, <2>1, <2>2 DEF KindLent, KindPend, Kind,
       ListsOK, Same, OwnPC, ThiefPC, TookPC, PullShownEffect
  <2> QED BY <2>3, <2>4, <2>5, <2>6 DEF KindOK
<1>116. ASSUME NEW b \in Batches, PullTaken(t, b) PROVE KindOK(t)'
  <2>1. PullTakenEffect(t, b)
    BY <1>116, PullTakenFacts
  <2>2. curb' = curb /\ prio' = prio /\ far' = far
    BY <1>116, <1>4 DEF PullTaken, Set, Upd
  <2>3. KindCurb(t)'
    BY ONLY <1>116, <1>1, <1>4, <1>5, <1>6, <2>1, <2>2 DEF KindCurb, KindOwn, KindLent, OwnPC,
       Kind, PrioOf, PullTakenEffect
  <2>4. KindPend(t)'
    BY ONLY <1>116, <1>1, <1>2, <1>5, <1>6, <2>1, <2>2 DEF KindPend, KindCurb, BlankOK, Blank,
       ListsOK, Same, PullTakenEffect
  <2>5. KindOwn(t)'
    BY ONLY <1>116, <1>1, <1>2, <1>3, <1>4, <1>5, <1>6, <2>1, <2>2 DEF KindOwn, KindCurb,
       KindPend, Kind, Same, PullTakenEffect
  <2>6. KindLent(t)'
    BY ONLY <1>116, <1>1, <1>2, <1>5, <1>6, <1>8, <2>1, <2>2 DEF KindLent, KindPend, Kind,
       ListsOK, Same, OwnPC, ThiefPC, TookPC, PullTakenEffect
  <2> QED BY <2>3, <2>4, <2>5, <2>6 DEF KindOK
<1>117. CASE ClearRead(t)
  <2>1. ClearReadEffect(t)
    BY <1>117, ClearReadFacts
  <2>2. curb' = curb /\ prio' = prio /\ far' = far
    BY <1>117, <1>4 DEF ClearRead, batch, window, queues, Set, Upd
  <2>3. KindCurb(t)'
    BY ONLY <1>117, <1>1, <1>4, <1>5, <1>6, <2>1, <2>2 DEF KindCurb, KindOwn, KindLent, OwnPC,
       Kind, PrioOf, ClearReadEffect
  <2>4. KindPend(t)'
    BY ONLY <1>117, <1>1, <1>2, <1>5, <1>6, <2>1, <2>2 DEF KindPend, KindCurb, BlankOK, Blank,
       ListsOK, Same, ClearReadEffect
  <2>5. KindOwn(t)'
    BY ONLY <1>117, <1>1, <1>2, <1>3, <1>4, <1>5, <1>6, <2>1, <2>2 DEF KindOwn, KindCurb,
       KindPend, Kind, Same, ClearReadEffect
  <2>6. KindLent(t)'
    BY ONLY <1>117, <1>1, <1>2, <1>5, <1>6, <2>1, <2>2 DEF KindLent, KindPend, Kind, ListsOK,
       Same, OwnPC, ThiefPC, TookPC, ClearReadEffect
  <2> QED BY <2>3, <2>4, <2>5, <2>6 DEF KindOK
<1>118. CASE LoadCleared(t)
  <2>1. LoadClearedEffect(t)
    BY <1>118, LoadClearedFacts
  <2>2. curb'[t] = procs[hand[t]] /\ prio'[t] = PrioOf(hand[t]) /\ far' = far
    BY <1>118, <1>4 DEF LoadCleared, Load, Set, Upd, PrioOf
  <2>3. KindCurb(t)'
    BY ONLY <1>118, <1>1, <1>4, <1>5, <1>6, <2>1, <2>2 DEF KindCurb, KindOwn, KindLent, OwnPC,
       Kind, PrioOf, LoadClearedEffect
  <2>4. KindPend(t)'
    BY ONLY <1>118, <1>1, <1>2, <1>5, <1>6, <2>1, <2>2 DEF KindPend, KindCurb, BlankOK, Blank,
       ListsOK, Same, LoadClearedEffect
  <2>5. KindOwn(t)'
    BY ONLY <1>118, <1>1, <1>2, <1>3, <1>4, <1>5, <1>6, <2>1, <2>2 DEF KindOwn, KindCurb,
       KindPend, Kind, Same, LoadClearedEffect
  <2>6. KindLent(t)'
    BY ONLY <1>118, <1>1, <1>2, <1>5, <1>6, <2>1, <2>2 DEF KindLent, KindPend, Kind, ListsOK,
       Same, OwnPC, ThiefPC, TookPC, LoadClearedEffect
  <2> QED BY <2>3, <2>4, <2>5, <2>6 DEF KindOK
<1>119. ASSUME NEW keep \in SUBSET Batches, Wash(t, keep) PROVE KindOK(t)'
  <2>1. WashEffect(t, keep)
    BY <1>119, WashFacts
  <2>2. curb' = curb /\ prio' = prio /\ far' = far
    BY <1>119, <1>4 DEF Wash, Set, Upd
  <2>3. KindCurb(t)'
    BY ONLY <1>119, <1>1, <1>4, <1>5, <1>6, <2>1, <2>2 DEF KindCurb, KindOwn, KindLent, OwnPC,
       Kind, PrioOf, WashEffect
  <2>4. KindPend(t)'
    BY ONLY <1>119, <1>1, <1>2, <1>5, <1>6, <2>1, <2>2 DEF KindPend, KindCurb, BlankOK, Blank,
       ListsOK, Same, WashEffect
  <2>5. KindOwn(t)'
    BY ONLY <1>119, <1>1, <1>2, <1>3, <1>4, <1>5, <1>6, <2>1, <2>2 DEF KindOwn, KindCurb,
       KindPend, Kind, Same, WashEffect
  <2>6. KindLent(t)'
    BY ONLY <1>119, <1>1, <1>2, <1>5, <1>6, <2>1, <2>2 DEF KindLent, KindPend, Kind, ListsOK,
       Same, OwnPC, ThiefPC, TookPC, WashEffect
  <2> QED BY <2>3, <2>4, <2>5, <2>6 DEF KindOK
<1>120. CASE Visit(t)
  <2>1. VisitEffect(t)
    BY <1>120, VisitFacts
  <2>2. curb' = curb /\ prio' = prio /\ far' = far
    BY <1>120, <1>4 DEF Visit, Set, Upd
  <2>3. KindCurb(t)'
    BY ONLY <1>120, <1>1, <1>4, <1>5, <1>6, <2>1, <2>2 DEF KindCurb, KindOwn, KindLent, OwnPC,
       Kind, PrioOf, VisitEffect
  <2>4. KindPend(t)'
    BY ONLY <1>120, <1>1, <1>2, <1>5, <1>6, <2>1, <2>2 DEF KindPend, KindCurb, BlankOK, Blank,
       ListsOK, Same, VisitEffect
  <2>5. KindOwn(t)'
    BY ONLY <1>120, <1>1, <1>2, <1>3, <1>4, <1>5, <1>6, <2>1, <2>2 DEF KindOwn, KindCurb,
       KindPend, Kind, Same, VisitEffect
  <2>6. KindLent(t)'
    BY ONLY <1>120, <1>1, <1>2, <1>5, <1>6, <2>1, <2>2 DEF KindLent, KindPend, Kind, ListsOK,
       Same, OwnPC, ThiefPC, TookPC, VisitEffect
  <2> QED BY <2>3, <2>4, <2>5, <2>6 DEF KindOK
<1>121. CASE Take(t)
  <2>1. TakeEffect(t)
    BY <1>121, TakeFacts
  <2>2. curb' = curb /\ prio' = prio /\ far' = far
    BY <1>121, <1>4 DEF Take, batch, queues, Set, Upd
  <2>3. KindCurb(t)'
    BY ONLY <1>121, <1>1, <1>4, <1>5, <1>6, <2>1, <2>2 DEF KindCurb, KindOwn, KindLent, OwnPC,
       Kind, PrioOf, TakeEffect
  <2>4. KindPend(t)'
    BY ONLY <1>121, <1>1, <1>2, <1>5, <1>6, <2>1, <2>2 DEF KindPend, KindCurb, BlankOK, Blank,
       ListsOK, Same, TakeEffect
  <2>5. KindOwn(t)'
    BY ONLY <1>121, <1>1, <1>2, <1>3, <1>4, <1>5, <1>6, <2>1, <2>2 DEF KindOwn, KindCurb,
       KindPend, Kind, Same, TakeEffect
  <2>6. KindLent(t)'
    BY ONLY <1>121, <1>1, <1>2, <1>5, <1>6, <2>1, <2>2 DEF KindLent, KindPend, Kind, ListsOK,
       Same, OwnPC, ThiefPC, TookPC, TakeEffect
  <2> QED BY <2>3, <2>4, <2>5, <2>6 DEF KindOK
<1>122. CASE LoadRemote(t)
  <2>1. LoadRemoteEffect(t)
    BY <1>122, LoadRemoteFacts
  <2>2. curb'[t] = procs[hand[t]] /\ prio'[t] = PrioOf(hand[t]) /\ far' = far
    BY <1>122, <1>4 DEF LoadRemote, window, Set, Upd, PrioOf
  <2>3. KindCurb(t)'
    <3>1. Took(t) /\ TookOK(t)
      BY <1>2, <2>1, MigrationAssumption DEF Took, TookPC, MInv, LoadRemoteEffect
    <3>2. PICK v \in Threads : v = vic[t]
      BY <2>1 DEF LoadRemoteEffect
    <3>3. hand[t] \in Shown(v) \cup laundry[v] /\ win[hand[t]] # 0 /\ KindOK(v)
      BY <3>1, <3>2 DEF TookOK, MInv
    <3>4. procs[hand[t]] \cap Affine = {}
      BY <3>3 DEF KindOK, KindLent, Shown, OwnPC
    <3> QED BY ONLY <1>1, <2>1, <2>2, <3>4 DEF KindCurb, Kind, PrioOf, LoadRemoteEffect
  <2>4. KindPend(t)'
    BY ONLY <1>122, <1>1, <1>2, <1>5, <1>6, <2>1, <2>2 DEF KindPend, KindCurb, BlankOK, Blank,
       ListsOK, Same, LoadRemoteEffect
  <2>5. KindOwn(t)'
    BY ONLY <1>122, <1>1, <1>2, <1>3, <1>4, <1>5, <1>6, <2>1, <2>2 DEF KindOwn, KindCurb,
       KindPend, Kind, Same, LoadRemoteEffect
  <2>6. KindLent(t)'
    BY ONLY <1>122, <1>1, <1>2, <1>5, <1>6, <2>1, <2>2 DEF KindLent, KindPend, Kind, ListsOK,
       Same, OwnPC, ThiefPC, TookPC, LoadRemoteEffect
  <2> QED BY <2>3, <2>4, <2>5, <2>6 DEF KindOK
<1> QED BY <1>100, <1>101, <1>102, <1>103, <1>104, <1>105, <1>106, <1>107, <1>108, <1>109,
   <1>110, <1>111, <1>112, <1>113, <1>114, <1>115, <1>116, <1>117, <1>118, <1>119, <1>120,
   <1>121, <1>122 DEF Event

\* A step keeps affine processes apart, and on their threads.
LEMMA KindStep ==
  ASSUME MInv, NEW t \in Threads, Event(t) PROVE (\A u \in Threads : KindOK(u))'
  BY OwnKinds, OtherKinds

-----------------------------------------------------------------------------
(* The window state                                                        *)

\* The window state is written by its thread, from its copy, and otherwise
\* only loses the bit of a thread that is about to look into the slot.
LEMMA WindowStep ==
  ASSUME MInv, NEW t \in Threads, Event(t)
  PROVE  \/ mw' = mw /\ pc[t] \notin {"state", "unset", "bit"}
         \/ Enlist(t) \/ LoadCleared(t)
         \/ ClearBit(t) /\ UNCHANGED data
<1> DEFINE Goal == \/ mw' = mw /\ pc[t] \notin {"state", "unset", "bit"}
                   \/ Enlist(t) \/ LoadCleared(t)
                   \/ ClearBit(t) /\ UNCHANGED data
<1>100. ASSUME NEW b \in Batches, NEW L \in SUBSET Batches, NEW ps \in SUBSET Procs, NEW n \in
   {"pick", "save"}, PushFree(t, b, L, ps, n) PROVE Goal
  BY <1>100 DEF PushFree, Push
<1>101. ASSUME NEW b \in Batches, NEW L \in SUBSET Batches, NEW ps \in SUBSET Procs, NEW n \in
   {"pick", "save"}, PushLink(t, b, L, ps, n) PROVE Goal
  BY <1>101 DEF PushLink, Push
<1>102. ASSUME NEW b \in Batches, NEW L \in SUBSET Batches, NEW ps \in SUBSET Procs, NEW n \in
   {"pick", "save"}, PushShow(t, b, L, ps, n) PROVE Goal
  BY <1>102 DEF PushShow, Push
<1>103. ASSUME ReadState(t) PROVE Goal
  BY <1>103 DEF ReadState, window
<1>104. ASSUME Show(t) PROVE Goal
  BY <1>104 DEF Show
<1>105. ASSUME Enlist(t) PROVE Goal
  BY <1>105
<1>106. ASSUME MarkWork(t) PROVE Goal
  BY <1>106 DEF MarkWork
<1>107. ASSUME Block(t) PROVE Goal
  BY <1>107 DEF Block, window
<1>108. ASSUME NEW p \in Procs, WakeCurb(t, p) PROVE Goal
  BY <1>108 DEF WakeCurb, Woken
<1>109. ASSUME NEW p \in Procs, WakePend(t, p) PROVE Goal
  BY <1>109 DEF WakePend, Woken
<1>110. ASSUME NEW p \in Procs, WakeFar(t, p) PROVE Goal
  BY <1>110 DEF WakeFar, Woken
<1>111. ASSUME NEW p \in Procs, NEW b \in Batches, NEW L \in SUBSET Batches, WakeNew(t, p, b,
   L) PROVE Goal
  BY <1>111 DEF WakeNew, Woken
<1>112. ASSUME NEW b \in Batches, NEW L \in SUBSET Batches, NewFar(t, b, L) PROVE Goal
  BY <1>112 DEF NewFar
<1>113. ASSUME NEW b \in Batches, NEW L \in SUBSET Batches, LoadPending(t, b, L) PROVE Goal
  BY <1>113 DEF LoadPending, Picking
<1>114. ASSUME NEW b \in Batches, PullOwn(t, b) PROVE Goal
  BY <1>114 DEF PullOwn, Picking
<1>115. ASSUME NEW b \in Batches, PullShown(t, b) PROVE Goal
  BY <1>115 DEF PullShown, Picking
<1>116. ASSUME NEW b \in Batches, PullTaken(t, b) PROVE Goal
  BY <1>116 DEF PullTaken, Picking
<1>117. ASSUME ClearRead(t) PROVE Goal
  BY <1>117 DEF ClearRead, window
<1>118. ASSUME LoadCleared(t) PROVE Goal
  BY <1>118
<1>119. ASSUME NEW keep \in SUBSET Batches, Wash(t, keep) PROVE Goal
  BY <1>119 DEF Wash
<1>120. ASSUME Visit(t) PROVE Goal
  BY <1>120 DEF Visit, PickNothing, Picking, Choose, Look, Gone, Hide, window
<1>121. ASSUME Take(t) PROVE Goal
  BY <1>121 DEF Take
<1>122. ASSUME LoadRemote(t) PROVE Goal
  BY <1>122 DEF LoadRemote, window
<1> QED BY <1>100, <1>101, <1>102, <1>103, <1>104, <1>105, <1>106, <1>107, <1>108, <1>109,
   <1>110, <1>111, <1>112, <1>113, <1>114, <1>115, <1>116, <1>117, <1>118, <1>119, <1>120,
   <1>121, <1>122 DEF Event

\* The other threads keep their copies, and their windows only lose bits and
\* batches.
LEMMA OtherBits ==
  ASSUME MInv, NEW t \in Threads, Event(t), NEW u \in Threads, u # t PROVE BitsOK(u)'
<1>1. BitsOK(u) /\ SamePlace(u) /\ TypeOK
  BY OthersStep DEF MInv
<1>2. mw'[u].bm \subseteq mw[u].bm
  <2>1. CASE mw' = mw
    BY <2>1
  <2>2. CASE Enlist(t) \/ LoadCleared(t)
    BY <1>1, <2>2 DEF Enlist, WriteState, LoadCleared, Set, Upd, TypeOK
  <2>3. CASE ClearBit(t)
    <3>1. PICK w : mw' = [mw EXCEPT ![vic[t]].bm = @ \ {w}]
      BY <2>3 DEF ClearBit
    <3>2. mw[u] \in WState
      BY <1>1 DEF TypeOK
    <3> QED BY <1>1, <3>1, <3>2 DEF TypeOK, WState
  <2> QED BY <2>1, <2>2, <2>3, WindowStep
<1>3. pc[u] \in {"clear", "unset"} => slot[u] \in Slots
         /\ data'[u][slot[u]] \in {data[u][slot[u]], None}
  BY SlotStep, Values
<1> QED BY <1>1, <1>2, <1>3 DEF BitsOK, SamePlace

\* The copy that a thread writes back has all bits that are set.
LEMMA OwnBits ==
  ASSUME MInv, NEW t \in Threads, Event(t) PROVE BitsOK(t)'
<1>1. BitsOK(t) /\ TypeOK /\ CtlOK(t)
  BY DEF MInv
<1>2. /\ DOMAIN pc = Threads /\ DOMAIN seen = Threads /\ DOMAIN slot = Threads
      /\ data \in [Threads -> [Slots -> Batches \cup {None}]]
  BY <1>1 DEF TypeOK
<1>3. CASE pc'[t] \notin {"show", "state", "clear", "unset"}
  BY <1>3 DEF BitsOK
<1>100. ASSUME NEW b \in Batches, NEW L \in SUBSET Batches, NEW ps \in SUBSET Procs, NEW n \in
   {"pick", "save"}, PushFree(t, b, L, ps, n) PROVE BitsOK(t)'
  <2>1. PushFreeEffect(t, b, L, ps, n)
    BY <1>100, PushFreeFacts
  <2> QED BY ONLY <1>3, <2>1 DEF ThiefPC, TookPC, PushFreeEffect
<1>101. ASSUME NEW b \in Batches, NEW L \in SUBSET Batches, NEW ps \in SUBSET Procs, NEW n \in
   {"pick", "save"}, PushLink(t, b, L, ps, n) PROVE BitsOK(t)'
  <2>1. PushLinkEffect(t, b, L, ps, n)
    BY <1>101, PushLinkFacts
  <2> QED BY ONLY <1>3, <2>1 DEF ThiefPC, TookPC, PushLinkEffect
<1>102. ASSUME NEW b \in Batches, NEW L \in SUBSET Batches, NEW ps \in SUBSET Procs, NEW n \in
   {"pick", "save"}, PushShow(t, b, L, ps, n) PROVE BitsOK(t)'
  <2>1. PushShowEffect(t, b, L, ps, n)
    BY <1>102, PushShowFacts
  <2> QED BY ONLY <1>3, <2>1 DEF ThiefPC, TookPC, PushShowEffect
<1>103. CASE ReadState(t)
  <2>1. ReadStateEffect(t)
    BY <1>103, ReadStateFacts
  <2> QED BY <1>103, <1>2, <2>1 DEF ReadState, window, Set, BitsOK, ReadStateEffect
<1>104. CASE Show(t)
  <2>1. ShowEffect(t)
    BY <1>104, ShowFacts
  <2> QED BY <1>104, <1>1, <2>1 DEF Show, locals, BitsOK, ShowEffect
<1>105. CASE Enlist(t)
  <2>1. EnlistEffect(t)
    BY <1>105, EnlistFacts
  <2> QED BY ONLY <1>3, <2>1 DEF ThiefPC, TookPC, EnlistEffect
<1>106. CASE MarkWork(t)
  <2>1. MarkWorkEffect(t)
    BY <1>106, MarkWorkFacts
  <2> QED BY ONLY <1>3, <2>1 DEF ThiefPC, TookPC, MarkWorkEffect
<1>107. CASE Block(t)
  <2>1. BlockEffect(t)
    BY <1>107, BlockFacts
  <2> QED BY ONLY <1>3, <2>1 DEF ThiefPC, TookPC, BlockEffect
<1>108. ASSUME NEW p \in Procs, WakeCurb(t, p) PROVE BitsOK(t)'
  <2>1. WakeCurbEffect(t, p)
    BY <1>108, WakeCurbFacts
  <2> QED BY ONLY <1>3, <2>1 DEF ThiefPC, TookPC, WakeCurbEffect
<1>109. ASSUME NEW p \in Procs, WakePend(t, p) PROVE BitsOK(t)'
  <2>1. WakePendEffect(t, p)
    BY <1>109, WakePendFacts
  <2> QED BY ONLY <1>3, <2>1 DEF ThiefPC, TookPC, WakePendEffect
<1>110. ASSUME NEW p \in Procs, WakeFar(t, p) PROVE BitsOK(t)'
  <2>1. WakeFarEffect(t, p)
    BY <1>110, WakeFarFacts
  <2> QED BY ONLY <1>3, <2>1 DEF ThiefPC, TookPC, WakeFarEffect
<1>111. ASSUME NEW p \in Procs, NEW b \in Batches, NEW L \in SUBSET Batches, WakeNew(t, p, b,
   L) PROVE BitsOK(t)'
  <2>1. WakeNewEffect(t, p, b, L)
    BY <1>111, WakeNewFacts
  <2> QED BY ONLY <1>3, <2>1 DEF ThiefPC, TookPC, WakeNewEffect
<1>112. ASSUME NEW b \in Batches, NEW L \in SUBSET Batches, NewFar(t, b, L) PROVE BitsOK(t)'
  <2>1. NewFarEffect(t, b, L)
    BY <1>112, NewFarFacts
  <2> QED BY ONLY <1>3, <2>1 DEF ThiefPC, TookPC, NewFarEffect
<1>113. ASSUME NEW b \in Batches, NEW L \in SUBSET Batches, LoadPending(t, b, L) PROVE
   BitsOK(t)'
  <2>1. LoadPendingEffect(t, b, L)
    BY <1>113, LoadPendingFacts
  <2> QED BY ONLY <1>3, <2>1 DEF ThiefPC, TookPC, LoadPendingEffect
<1>114. ASSUME NEW b \in Batches, PullOwn(t, b) PROVE BitsOK(t)'
  <2>1. PullOwnEffect(t, b)
    BY <1>114, PullOwnFacts
  <2> QED BY ONLY <1>3, <2>1 DEF ThiefPC, TookPC, PullOwnEffect
<1>115. ASSUME NEW b \in Batches, PullShown(t, b) PROVE BitsOK(t)'
  <2>1. PullShownEffect(t, b)
    BY <1>115, PullShownFacts
  <2> QED BY <1>115, <1>2, <2>1 DEF BitsOK, PullShownEffect
<1>116. ASSUME NEW b \in Batches, PullTaken(t, b) PROVE BitsOK(t)'
  <2>1. PullTakenEffect(t, b)
    BY <1>116, PullTakenFacts
  <2> QED BY ONLY <1>3, <2>1 DEF ThiefPC, TookPC, PullTakenEffect
<1>117. CASE ClearRead(t)
  <2>1. ClearReadEffect(t)
    BY <1>117, ClearReadFacts
  <2> QED BY <1>117, <1>1, <1>2, <2>1 DEF ClearRead, window, Set, BitsOK, ClearReadEffect
<1>118. CASE LoadCleared(t)
  <2>1. LoadClearedEffect(t)
    BY <1>118, LoadClearedFacts
  <2> QED BY ONLY <1>3, <2>1 DEF ThiefPC, TookPC, LoadClearedEffect
<1>119. ASSUME NEW keep \in SUBSET Batches, Wash(t, keep) PROVE BitsOK(t)'
  <2>1. WashEffect(t, keep)
    BY <1>119, WashFacts
  <2> QED BY ONLY <1>3, <2>1 DEF ThiefPC, TookPC, WashEffect
<1>120. CASE Visit(t)
  <2>1. VisitEffect(t)
    BY <1>120, VisitFacts
  <2> QED BY ONLY <1>3, <2>1 DEF ThiefPC, TookPC, VisitEffect
<1>121. CASE Take(t)
  <2>1. TakeEffect(t)
    BY <1>121, TakeFacts
  <2> QED BY ONLY <1>3, <2>1 DEF ThiefPC, TookPC, TakeEffect
<1>122. CASE LoadRemote(t)
  <2>1. LoadRemoteEffect(t)
    BY <1>122, LoadRemoteFacts
  <2> QED BY ONLY <1>3, <2>1 DEF ThiefPC, TookPC, LoadRemoteEffect
<1> QED BY <1>100, <1>101, <1>102, <1>103, <1>104, <1>105, <1>106, <1>107, <1>108, <1>109,
   <1>110, <1>111, <1>112, <1>113, <1>114, <1>115, <1>116, <1>117, <1>118, <1>119, <1>120,
   <1>121, <1>122 DEF Event

\* So no bit is set again that was cleared.
LEMMA BitsStep == ASSUME MInv, NEW t \in Threads, Event(t) PROVE (\A u \in Threads : BitsOK(u))'
  BY OwnBits, OtherBits

\* A batch in a window can be found after the step.
LEMMA FindableStep == ASSUME MInv, NEW t \in Threads, Event(t), size' = size PROVE Findable'
<1>1. Findable /\ BitsOK(t) /\ TypeOK /\ CtlOK(t)
  BY DEF MInv
<1>2. \A u \in Threads : u # t => SamePlace(u)
  BY OthersStep
<1>3. SUFFICES ASSUME NEW c \in Threads, NEW w \in Slots, data'[c][w] # None
               PROVE  \/ w \in mw'[c].bm
                      \/ pc'[c] = "state" /\ w \in seen'[c].bm \cup {slot'[c]}
                      \/ \E u \in Threads : pc'[u] = "take" /\ vic'[u] = c /\ slot'[u] = w
  BY DEF Findable, Slots
<1> DEFINE Goal == \/ w \in mw'[c].bm
                   \/ pc'[c] = "state" /\ w \in seen'[c].bm \cup {slot'[c]}
                   \/ \E u \in Threads : pc'[u] = "take" /\ vic'[u] = c /\ slot'[u] = w
<1>4. data[c][w] # None \/ (c = t /\ pc[t] = "show" /\ w = slot[t])
  BY <1>3, SlotStep
<1>5. data[c][w] # None =>
        \/ w \in mw[c].bm
        \/ pc[c] = "state" /\ w \in seen[c].bm \cup {slot[c]}
        \/ \E u \in Threads : pc[u] = "take" /\ vic[u] = c /\ slot[u] = w
  BY <1>1 DEF Findable
<1>6. ASSUME pc[t] = "show" PROVE Goal
  <2>1. Show(t)
    BY <1>6, NextStep
  <2>2. pc'[t] = "state" /\ UNCHANGED <<mw, seen, slot>>
    BY <1>1, <2>1 DEF Show, To, Set, locals, TypeOK
  <2>3. mw[t].bm \subseteq seen[t].bm
    BY <1>1, <1>6 DEF BitsOK
  <2> QED BY <1>2, <1>4, <1>5, <1>6, <2>2, <2>3 DEF SamePlace
<1>7. ASSUME Take(t) PROVE Goal
  <2>1. data' = [data EXCEPT ![vic[t]][slot[t]] = None] /\ mw' = mw /\ pc[t] = "take"
    BY <1>7 DEF Take
  <2>2. ~(c = vic[t] /\ w = slot[t])
    BY <1>1, <1>3, <2>1 DEF TypeOK
  <2> QED BY <1>2, <1>4, <1>5, <2>1, <2>2 DEF SamePlace
<1>8. ASSUME Enlist(t) PROVE Goal
  <2>1. mw' = [mw EXCEPT ![t] = [head |-> slot[t], bm |-> seen[t].bm \cup {slot[t]}]]
           /\ pc[t] = "state"
    BY <1>8 DEF Enlist, WriteState, Set
  <2>2. mw'[t].bm = seen[t].bm \cup {slot[t]} /\ (c # t => mw'[c] = mw[c])
    BY <1>1, <2>1 DEF TypeOK
  <2>3. mw[t].bm \subseteq seen[t].bm
    BY <1>1, <2>1 DEF BitsOK
  <2> QED BY <1>2, <1>4, <1>5, <2>1, <2>2, <2>3 DEF SamePlace
<1>9. ASSUME LoadCleared(t) PROVE Goal
  <2>1. mw' = [mw EXCEPT ![t] = [seen[t] EXCEPT !.bm = @ \ {slot[t]}]] /\ pc[t] = "unset"
           /\ data' = data
    BY <1>9 DEF LoadCleared, Upd
  <2>2. mw'[t].bm = seen[t].bm \ {slot[t]} /\ (c # t => mw'[c] = mw[c])
    BY <1>1, <2>1 DEF TypeOK, WState
  <2>3. mw[t].bm \subseteq seen[t].bm /\ data[t][slot[t]] = None
    BY <1>1, <2>1 DEF BitsOK
  <2> QED BY <1>2, <1>3, <1>4, <1>5, <2>1, <2>2, <2>3 DEF SamePlace
<1>10. ASSUME ClearBit(t), UNCHANGED data PROVE Goal
  <2>1. PICK s : s = Preferred(seen[t])
    OBVIOUS
  <2>2. /\ mw' = [mw EXCEPT ![vic[t]].bm = @ \ {s}] /\ pc'[t] = "take" /\ slot'[t] = s
        /\ vic' = vic /\ pc[t] = "bit"
    BY <1>1, <1>10, <2>1 DEF ClearBit, Set, To, TypeOK
  <2>3. mw[c] \in WState
    BY <1>1 DEF TypeOK
  <2>4. mw'[c].bm = IF c = vic[t] THEN mw[c].bm \ {s} ELSE mw[c].bm
    BY <1>1, <2>2, <2>3 DEF TypeOK, WState
  <2> QED BY <1>2, <1>4, <1>5, <2>2, <2>4 DEF SamePlace
<1>11. ASSUME mw' = mw, pc[t] \notin {"state", "show", "take"} PROVE Goal
  BY <1>2, <1>4, <1>5, <1>11 DEF SamePlace
<1> QED BY <1>6, <1>7, <1>8, <1>9, <1>10, <1>11, WindowStep, NextStep

-----------------------------------------------------------------------------
(* The invariant                                                           *)

\* All batches but the pending ones are with the allocator at first.
LEMMA InitMInv == ASSUME Init PROVE MInv
<1>1. /\ size \in Nat /\ size >= 1 /\ Slots = 1..size /\ size \in WindowSizes
      /\ None \notin Procs \cup Threads \cup Batches /\ Home \in [Procs -> Threads]
         /\ Affine \subseteq Procs
  BY Constants, MigrationAssumption DEF Init
<1>2. TypeOK
  <2>1. NoState \in WState
    BY <1>1 DEF NoState, WState
  <2>2. << >> \in Seq(Batches)
    OBVIOUS
  <2>3. TyQueues
    BY <1>1, <2>2 DEF Init, TyQueues
  <2>4. TyBatch
    BY <1>1 DEF Init, TyBatch
  <2>5. TyWindow
    BY <1>1, <2>1 DEF Init, TyWindow
  <2>6. TyLocals
    BY <1>1, <2>1 DEF Init, TyLocals, PCs
  <2> QED BY <1>1, <2>3, <2>4, <2>5, <2>6, Types
<1>3. \A t \in Threads :
        /\ pc[t] = "run" /\ cont[t] = "run" /\ hand[t] = None /\ far[t] = None /\ vic[t] = None
        /\ free[t] = {} /\ laundry[t] = {} /\ rq[t] = << >> /\ pend[t] \in Batches
           /\ mwstate[t] = FALSE
        /\ curb[t] = {p \in Procs \ Affine : Home[p] = t} /\ prio[t] = "any" /\ pprio[t] = "none"
  BY DEF Init
<1>4. \A b \in Batches : dirty[b] = FALSE /\ win[b] = 0 /\ procs[b] = {}
  BY DEF Init
<1>5. \A t \in Threads : /\ ~Far(t) /\ Pending(t) = {pend[t]} /\ Held(t) = {} /\ ToSet(rq[t]) = {}
                         /\ Own(t) = {pend[t]} /\ ~Took(t)
  BY <1>3 DEF Far, Pending, Held, Own, OwnPC, ToSet, Took, TookPC
<1>6. \A t \in Threads : CtlOK(t)
  BY <1>3, <1>5 DEF CtlOK, ShowPC, OwnPC, TookPC, ThiefPC
<1>7. \A t \in Threads : ListsOK(t)
  BY <1>3, <1>5 DEF ListsOK, Distinct
<1>8. ApartOK
  <2>1. \A t, u \in Threads : pend[t] = pend[u] => t = u
    BY DEF Init, IsInjective
  <2>2. mem = Batches \ {pend[t] : t \in Threads}
    BY DEF Init
  <2> QED BY <1>5, <2>1, <2>2 DEF ApartOK
<1>9. MemOK
  BY <1>2, <1>4 DEF MemOK, Blank, TypeOK
<1>10. \A t \in Threads : BlankOK(t) /\ HandOK(t) /\ QueueOK(t)
  BY <1>3, <1>4, <1>5 DEF BlankOK, HandOK, QueueOK, Blank
<1>11. \A t \in Threads, w \in Slots : data[t][w] = None
  BY DEF Init
<1>12. \A t \in Threads : DataOK(t)
  BY <1>11 DEF DataOK
<1>13. (\A t \in Threads : TookOK(t)) /\ TookOnce
  BY <1>5 DEF TookOK, TookOnce
<1>14. PartOK
  <2>1. blocked = Affine
    BY DEF Init
  <2> QED BY <1>1, <1>3, <1>4, <2>1 DEF PartOK
<1>15. \A t \in Threads : KindOK(t)
  BY <1>3, <1>4, <1>5 DEF KindOK, KindCurb, KindPend, KindOwn, KindLent, OwnPC, Kind
<1>16. \A t \in Threads : BitsOK(t)
  BY <1>3 DEF BitsOK
<1>17. Findable
  BY <1>11 DEF Findable
<1> QED BY <1>2, <1>6, <1>7, <1>8, <1>9, <1>10, <1>12, <1>13, <1>14, <1>15, <1>16, <1>17 DEF MInv

\* Every step keeps the invariant.
LEMMA StepMInv == ASSUME MInv, [Next]_vars PROVE MInv'
<1>1. CASE Next
  <2>1. PICK t \in Threads : Act(t) /\ size' = size
    BY <1>1 DEF Next, Act
  <2>2. Event(t)
    BY <2>1, EventOf
  <2>3. TypeOK' /\ (\A u \in Threads : CtlOK(u))' /\ (\A u \in Threads : ListsOK(u))' /\ ApartOK'
    BY <2>1, <2>2, TypeStep, ControlStep, ApartStep
  <2>4. /\ MemOK' /\ (\A u \in Threads : BlankOK(u) /\ HandOK(u) /\ QueueOK(u) /\ DataOK(u))'
        /\ (\A u \in Threads : TookOK(u))' /\ TookOnce'
    BY <2>1, <2>2, BatchStep
  <2>5. PartOK' /\ (\A u \in Threads : KindOK(u))' /\ (\A u \in Threads : BitsOK(u))' /\ Findable'
    BY <2>1, <2>2, PartStep, KindStep, BitsStep, FindableStep
  <2> QED BY ONLY <2>3, <2>4, <2>5 DEF MInv
<1>2. CASE UNCHANGED vars
  <2> USE <1>2 DEF vars, batch, window, queues, locals
  <2>1. TypeOK'
    BY DEF MInv, TypeOK, WState, Slots
  <2>2. \A t \in Threads : /\ Far(t)' = Far(t) /\ Took(t)' = Took(t) /\ Pending(t)' = Pending(t)
                           /\ Held(t)' = Held(t) /\ Own(t)' = Own(t) /\ Shown(t)' = Shown(t)
    BY DEF Far, Took, Pending, Held, Own, Shown
  <2>3. \A b : Away(b)' = Away(b) /\ Blank(b)' = Blank(b)
    BY DEF Away, Took, Blank
  <2>4. \A t \in Threads, b \in Batches : Lent(t, b)' = Lent(t, b)
    BY DEF Lent, Away, Took, Blank
  <2>5. (\A t \in Threads : CtlOK(t))' /\ (\A t \in Threads : ListsOK(t))' /\ ApartOK' /\ MemOK'
    BY <2>2 DEF MInv, CtlOK, ListsOK, ApartOK, MemOK, Blank, Far, Pending, Held, Own
  <2>6. \A t \in Threads : (BlankOK(t) /\ HandOK(t) /\ QueueOK(t) /\ DataOK(t))'
    BY DEF MInv, BlankOK, HandOK, QueueOK, DataOK, Far, Blank, Away, Took, Lent, Shown, Slots
  <2>7. (\A t \in Threads : TookOK(t))' /\ TookOnce'
    BY DEF MInv, TookOK, TookOnce, Took, Shown, Slots
  <2>8. PartOK' /\ (\A t \in Threads : KindOK(t))'
    BY DEF MInv, PartOK, KindOK, KindCurb, KindPend, KindOwn, KindLent, Far, Own, Pending, Held
  <2>9. (\A t \in Threads : BitsOK(t))' /\ Findable'
    BY DEF MInv, BitsOK, Findable, Slots
  <2> QED BY ONLY <2>1, <2>5, <2>6, <2>7, <2>8, <2>9 DEF MInv
<1> QED BY <1>1, <1>2

\* The batches of threads that share them through their windows (add_to_visible_runqueue,
\* try_pull_from_runqueue, try_migrate_from_scheduler, load_curb, do_laundry) satisfy MInv.
THEOREM MigrationInvariant == Spec => []MInv
<1>1. Init => MInv
  BY InitMInv
<1>2. MInv /\ [Next]_vars => MInv'
  BY StepMInv
<1> QED BY <1>1, <1>2, PTL DEF Spec

\* The run queues, batches, windows and locals of the threads keep their types.
THEOREM MigrationTypes == Spec => []TypeOK
<1>1. MInv => TypeOK
  BY DEF MInv
<1> QED BY <1>1, MigrationInvariant, PTL

\* A batch in a slot of a window can be found: the slot has its bit set, or its thread is
\* about to set it (add_to_visible_runqueue), or a thief that cleared it is about to look
\* into the slot (try_migrate_from_scheduler).
THEOREM MigrationFindable == Spec => []Findable
<1>1. MInv => Findable
  BY DEF MInv
<1> QED BY <1>1, MigrationInvariant, PTL

\* A process bound to a thread is only ever run there: no batch in a window has one, so
\* try_migrate_from_scheduler cannot take it away.
THEOREM MigrationAffine == Spec => []AffineStays
<1>1. ASSUME MInv PROVE AffineStays
  <2>1. \A t \in Threads : KindOK(t) /\ DataOK(t)
    BY <1>1 DEF MInv
  <2>2. 0 \notin Slots
    BY <1>1, Constants DEF MInv, TypeOK
  <2>3. ASSUME NEW t \in Threads, NEW w \in Slots, data[t][w] # None
        PROVE  procs[data[t][w]] \cap Affine = {}
    BY <2>1, <2>2, <2>3 DEF DataOK, Shown, KindOK, KindLent, OwnPC
  <2> QED BY <2>1, <2>3 DEF AffineStays, KindOK, KindCurb
<1> QED BY <1>1, MigrationInvariant, PTL

-----------------------------------------------------------------------------
(* Batches in one place, processes in one place                            *)

\* The state of the batches that the runs check.
LEMMA MInvBatchState == ASSUME MInv PROVE BatchState
<1> SUFFICES ASSUME NEW t \in Threads
             PROVE  /\ \A b \in free[t] \cup {pend[t]} : ~dirty[b] \/ hand[t] = b
                                                          \/ (pc[t] \in {"mark", "queue"}
                                                             /\ b = pend[t])
                    /\ \A b \in ToSet(rq[t]) : win[b] = 0 => ~dirty[b] /\ procs[b] # {}
                    /\ pc[t] = "load" => dirty[hand[t]] /\ procs[hand[t]] # {}
  BY DEF BatchState
<1>1. CtlOK(t) /\ BlankOK(t) /\ QueueOK(t) /\ TookOK(t)
  BY DEF MInv
<1>2. \A b \in free[t] : ~dirty[b]
  BY <1>1 DEF BlankOK, Blank
<1>3. ~dirty[pend[t]] \/ hand[t] = pend[t] \/ pc[t] \in {"mark", "queue"}
  BY <1>1 DEF CtlOK, BlankOK, Far, ShowPC, OwnPC
<1>4. pc[t] = "load" => dirty[hand[t]] /\ procs[hand[t]] # {}
  BY <1>1 DEF CtlOK, TookOK, Took, TookPC
<1> QED BY <1>1, <1>2, <1>3, <1>4 DEF QueueOK

\* The places of a batch with one thread.
PlacesIn(t, b) ==
  (IF b \in free[t] THEN {<<"free", t>>} ELSE {})
  \cup (IF b \in laundry[t] THEN {<<"laundry", t>>} ELSE {})
  \cup {<<"queue", t, i>> : i \in {j \in DOMAIN rq[t] : rq[t][j] = b}}
  \cup (IF b \in Pending(t) THEN {<<"pending", t>>} ELSE {})
  \cup (IF b \in Held(t) THEN {<<"hand", t>>} ELSE {})

\* The places of a batch, by thread.
LEMMA PlacesOf ==
  ASSUME MInv, NEW b \in Batches
  PROVE  BatchPlaces(b) = (IF b \in mem THEN {<<"mem">>} ELSE {})
     \cup UNION {PlacesIn(t, b) : t \in Threads}
<1>1. ASSUME NEW t \in Threads
      PROVE  /\ (pend[t] = b /\ cont[t] # "queue" /\ pc[t] # "queue") <=> b \in Pending(t)
             /\ (hand[t] = b /\ pc[t] \in {"read", "show", "state", "clear", "unset"})
                <=> b \in Held(t)
  BY DEF Pending, Far, Held, OwnPC
<1> QED BY <1>1 DEF BatchPlaces, PlacesIn

\* A batch is in one place, and a thief's copy is one that the victim keeps.
LEMMA MInvOnePlace == ASSUME MInv PROVE OnePlace
<1>1. ApartOK /\ TyQueues /\ (\A t \in Threads : ListsOK(t))
  BY Types DEF MInv
<1>2. ASSUME NEW t \in Threads, NEW b \in Batches
      PROVE  (b \notin Own(t) => PlacesIn(t, b) = {})
         /\ (b \in Own(t) => \E x : PlacesIn(t, b) = {x})
  <2>1. rq[t] \in Seq(Batches) /\ ListsOK(t)
    BY <1>1 DEF TyQueues
  <2>2. b \notin ToSet(rq[t]) => {j \in DOMAIN rq[t] : rq[t][j] = b} = {}
    BY <2>1 DEF ToSet
  <2>3. b \in ToSet(rq[t]) => \E i : {j \in DOMAIN rq[t] : rq[t][j] = b} = {i}
    <3>1. SUFFICES ASSUME b \in ToSet(rq[t]) PROVE \E i : {j \in DOMAIN rq[t] : rq[t][j] = b} = {i}
      OBVIOUS
    <3>2. PICK i \in DOMAIN rq[t] : rq[t][i] = b
      BY <2>1, <3>1 DEF ToSet
    <3>3. DOMAIN rq[t] = 1..Len(rq[t])
      BY <2>1
    <3>4. \A j \in DOMAIN rq[t] : rq[t][j] = b => j = i
      BY <2>1, <3>2, <3>3 DEF ListsOK, Distinct
    <3> QED BY <3>2, <3>4
  <2> DEFINE q == {<<"queue", t, i>> : i \in {j \in DOMAIN rq[t] : rq[t][j] = b}}
  <2>4. (b \notin ToSet(rq[t]) => q = {}) /\ (b \in ToSet(rq[t]) => \E x : q = {x})
    <3> DEFINE S == {j \in DOMAIN rq[t] : rq[t][j] = b}
    <3>1. (b \notin ToSet(rq[t]) => S = {}) /\ (b \in ToSet(rq[t]) => \E i : S = {i})
      BY <2>2, <2>3
    <3> HIDE DEF S
    <3>2. S = {} => {<<"queue", t, i>> : i \in S} = {}
      OBVIOUS
    <3>3. ASSUME NEW i, S = {i} PROVE {<<"queue", t, j>> : j \in S} = {<<"queue", t, i>>}
      BY <3>3
    <3>4. q = {<<"queue", t, i>> : i \in S}
      BY DEF S
    <3> HIDE DEF q
    <3> QED BY <3>1, <3>2, <3>3, <3>4
  <2> HIDE DEF q
  <2>5. PlacesIn(t, b) = (IF b \in free[t] THEN {<<"free", t>>} ELSE {})
                         \cup (IF b \in laundry[t] THEN {<<"laundry", t>>} ELSE {})
                         \cup q \cup (IF b \in Pending(t) THEN {<<"pending", t>>} ELSE {})
                         \cup (IF b \in Held(t) THEN {<<"hand", t>>} ELSE {})
    BY DEF PlacesIn, q
  <2> QED BY ONLY <2>1, <2>4, <2>5 DEF ListsOK, Own
<1>3. ASSUME NEW b \in Batches PROVE Cardinality(BatchPlaces(b)) = 1
  <2>1. \E x : BatchPlaces(b) = {x}
    <3>1. CASE b \in mem
      <4>1. \A t \in Threads : PlacesIn(t, b) = {}
        BY <1>1, <1>2, <3>1 DEF ApartOK
      <4>2. UNION {PlacesIn(t, b) : t \in Threads} = {}
        BY <4>1
      <4>3. BatchPlaces(b) = {<<"mem">>}
        BY <3>1, <4>2, PlacesOf
      <4> QED BY <4>3
    <3>2. CASE b \notin mem
      <4>1. PICK t \in Threads : b \in Own(t)
        BY <1>1, <3>2 DEF ApartOK
      <4>2. \A u \in Threads : u # t => PlacesIn(u, b) = {}
        BY <1>1, <1>2, <4>1 DEF ApartOK
      <4>3. PICK x : PlacesIn(t, b) = {x}
        BY <1>2, <4>1
      <4>4. UNION {PlacesIn(u, b) : u \in Threads} = {x}
        BY <4>2, <4>3
      <4>5. BatchPlaces(b) = {x}
        BY <3>2, <4>4, PlacesOf
      <4> QED BY <4>5
    <3> QED BY <3>1, <3>2
  <2> QED BY <2>1, FS_Singleton
<1>4. ASSUME NEW t \in Threads, pc[t] \in {"gone", "hide", "load"}, hand[t] # None
      PROVE  hand[t] \in ToSet(rq[vic[t]]) \cup laundry[vic[t]] \cup {hand[vic[t]]}
  <2>1. TookOK(t) /\ Took(t)
    BY <1>4 DEF MInv, Took, TookPC
  <2> QED BY <2>1 DEF TookOK, Shown
<1> QED BY <1>3, <1>4 DEF OnePlace

\* A batch record is in one place, and no thread reuses one that a thief still has to copy:
\* what load_curb copies is dirty and has processes (do_laundry waits until it is clean).
THEOREM MigrationKeepsBatches == Spec => []BatchesKept
<1>1. MInv => BatchesKept
  BY MInvBatchState, MInvOnePlace DEF BatchesKept
<1> QED BY <1>1, MigrationInvariant, PTL

\* The claims on a process, one kind of place at a time.
CurbOf(p)    == {u \in Threads : p \in curb[u]}
PendOf(p)    == {u \in Threads : pprio[u] # "none" /\ cont[u] # "queue" /\ pc[u] # "queue"
                                 /\ p \in procs[pend[u]]}
QueuedOf(p, t) == {c \in ToSet(rq[t]) : p \in procs[c] /\ Kept(t, c)}
HandOf(p)    == {u \in Threads : /\ hand[u] # None /\ p \in procs[hand[u]]
                                 /\ pc[u] = "state" => data[u][slot[u]] = hand[u]}
FarOf(p)     == {u \in Threads : far[u] = p}
QueueClaims(p) == UNION {{<<"queue", t, b>> : b \in QueuedOf(p, t)} : t \in Threads}

\* These are all claims.
LEMMA ClaimsOf ==
  ASSUME NEW p
  PROVE  Claims(p) = {<<"curb", t>> : t \in CurbOf(p)} \cup {<<"pending", t>> : t \in PendOf(p)}
                     \cup QueueClaims(p) \cup {<<"hand", t>> : t \in HandOf(p)}
                     \cup {<<"far", t>> : t \in FarOf(p)}
                     \cup (IF p \in blocked THEN {<<"blocked">>} ELSE {})
  BY DEF Claims, CurbOf, PendOf, QueueClaims, QueuedOf, HandOf, FarOf

\* A process linked in batch b.
LEMMA ClaimOfBatch ==
  ASSUME MInv, NEW p \in Procs, NEW b \in Batches, p \in procs[b]
  PROVE  \E x : Claims(p) = {x}
<1>1. /\ TypeOK /\ PartOK /\ ApartOK /\ TookOnce /\ MemOK /\ None \notin Batches /\ 0 \notin Slots
      /\ \A t \in Threads : CtlOK(t) /\ ListsOK(t) /\ BlankOK(t) /\ HandOK(t) /\ QueueOK(t)
         /\ DataOK(t)
  BY Constants, MigrationAssumption DEF MInv, TypeOK
<1>2. /\ \A c \in Batches : p \in procs[c] <=> c = b
      /\ p \notin blocked /\ \A t \in Threads : p \notin curb[t] /\ far[t] # p
  BY <1>1, MigrationAssumption DEF PartOK
<1> DEFINE P == {t \in Threads : pprio[t] # "none" /\ ~Far(t) /\ pend[t] = b}
<1> DEFINE Q == {t \in Threads : b \in ToSet(rq[t]) /\ Kept(t, b)}
<1> DEFINE H == {t \in Threads : hand[t] = b /\ (pc[t] = "state" => data[t][slot[t]] = b)}
<1>3. Claims(p) = {<<"pending", t>> : t \in P} \cup {<<"queue", t, b>> : t \in Q}
         \cup {<<"hand", t>> : t \in H}
  <2>1. CurbOf(p) = {} /\ FarOf(p) = {}
    BY <1>2 DEF CurbOf, FarOf
  <2>2. PendOf(p) = P
    BY <1>1, <1>2 DEF TypeOK, Far, PendOf
  <2>3. HandOf(p) = H
    BY <1>1, <1>2 DEF TypeOK, HandOf
  <2>4. QueueClaims(p) = {<<"queue", t, b>> : t \in Q}
    <3>1. \A t \in Threads : QueuedOf(p, t) = IF t \in Q THEN {b} ELSE {}
      BY <1>2, OwnBatches DEF QueuedOf
    <3>2. \A t \in Threads : {<<"queue", t, c>> : c \in QueuedOf(p,
             t)} = IF t \in Q THEN {<<"queue", t, b>>} ELSE {}
      <4> HIDE DEF Q
      <4> QED BY <3>1
    <3>3. Q \subseteq Threads
      OBVIOUS
    <3> HIDE DEF Q
    <3> QED BY <3>2, <3>3 DEF QueueClaims
  <2> HIDE DEF P, Q, H
  <2> QED BY <1>2, <2>1, <2>2, <2>3, <2>4, ClaimsOf
<1>4. \A t \in Threads : (~Far(t) /\ pend[t] = b <=> b \in Pending(t))
         /\ (hand[t] = b /\ pc[t] \in OwnPC <=> b \in Held(t))
  BY DEF Pending, Held
<1>5. CASE Away(b)
  <2>1. PICK u \in Threads : Took(u) /\ hand[u] = b
    BY <1>5 DEF Away
  <2>2. P = {}
    BY <1>4, <1>5, AwayFacts
  <2>3. Q = {}
    <3>1. win[b] \in Slots /\ \A t \in Threads, w \in Slots : data[t][w] # b
      BY <1>1, <1>5, AwayFacts, Constants DEF TypeOK
    <3> QED BY <1>1, <3>1 DEF Kept
  <2>4. H = {u}
    <3>1. ASSUME NEW t \in H PROVE t = u
      <4>1. hand[t] = b /\ hand[t] # None
        BY <1>1
      <4>2. pc[t] \notin OwnPC
        <5>1. pc[t] \notin OwnPC \ {"state"}
          BY <1>5, <4>1, AwayFacts
        <5>2. pc[t] # "state"
          BY <1>5, <4>1, AwayFacts, Values
        <5> QED BY <5>1, <5>2
      <4>3. Took(t)
        BY <1>1, <4>1, <4>2 DEF CtlOK, Took
      <4> QED BY <1>1, <2>1, <4>1, <4>3 DEF TookOnce
    <3>2. u \in H
      BY <2>1 DEF Took, TookPC
    <3> QED BY <3>1, <3>2
  <2> HIDE DEF P, Q, H
  <2>5. Claims(p) = {<<"hand", u>>}
    BY <1>3, <2>2, <2>3, <2>4
  <2> QED BY <2>5
<1>6. CASE ~Away(b)
  <2>1. b \notin mem /\ \A t \in Threads : b \notin free[t] \cup laundry[t]
    BY <1>1, <1>6 DEF MemOK, BlankOK, Blank
  <2>2. PICK t \in Threads : b \in Own(t) /\ \A u \in Threads : u # t => b \notin Own(u)
    BY <1>1, <2>1 DEF ApartOK
  <2>3. b \in ToSet(rq[t]) \cup Pending(t) \cup Held(t)
    BY <2>1, <2>2 DEF Own
  <2>4. \A u \in Threads : hand[u] = b => pc[u] \in OwnPC
    <3>1. ASSUME NEW u \in Threads, hand[u] = b PROVE pc[u] \in OwnPC
      <4>1. hand[u] # None /\ ~Took(u)
        BY <1>1, <1>6, <3>1 DEF Away
      <4> QED BY <1>1, <4>1 DEF CtlOK, Took
    <3> QED BY <3>1
  <2>5. P \cup Q \cup H \subseteq {t}
    BY <1>4, <2>2, <2>4 DEF Own
  <2>6. Lent(t, b) => data[t][win[b]] = b
    BY <1>6 DEF Lent, Blank
  <2>7. CASE b \in Pending(t)
    <3>1. b \notin ToSet(rq[t]) /\ b \notin Held(t)
      BY <1>1, <2>7 DEF ListsOK
    <3>2. pprio[t] # "none" /\ ~Far(t) /\ pend[t] = b
      BY <1>1, <1>4, <2>7 DEF BlankOK
    <3>3. P = {t} /\ Q = {} /\ H = {}
      BY <1>4, <2>4, <2>5, <3>1, <3>2
    <3> HIDE DEF P, Q, H
    <3>4. Claims(p) = {<<"pending", t>>}
      BY <1>3, <3>3
    <3> QED BY <3>4
  <2>8. CASE b \in ToSet(rq[t])
    <3>1. b \notin Pending(t) /\ b \notin Held(t)
      BY <1>1, <2>8 DEF ListsOK
    <3>2. Kept(t, b)
      BY <1>1, <2>6, <2>8 DEF QueueOK, Kept
    <3>3. P = {} /\ Q = {t} /\ H = {}
      BY <1>4, <2>4, <2>5, <2>8, <3>1, <3>2
    <3> HIDE DEF P, Q, H
    <3>4. Claims(p) = {<<"queue", t, b>>}
      BY <1>3, <3>3
    <3> QED BY <3>4
  <2>9. CASE b \in Held(t)
    <3>1. b \notin Pending(t) /\ b \notin ToSet(rq[t])
      BY <1>1, <2>9 DEF ListsOK
    <3>2. hand[t] = b /\ pc[t] \in OwnPC
      BY <1>4, <2>9
    <3>3. pc[t] = "state" => data[t][slot[t]] = b
      BY <1>1, <2>6, <3>2 DEF HandOK
    <3>4. P = {} /\ Q = {} /\ H = {t}
      BY <1>4, <2>5, <3>1, <3>2, <3>3
    <3> HIDE DEF P, Q, H
    <3>5. Claims(p) = {<<"hand", t>>}
      BY <1>3, <3>4
    <3> QED BY <3>5
  <2> QED BY <2>3, <2>7, <2>8, <2>9
<1> QED BY <1>5, <1>6

\* A process that is in no batch.
LEMMA ClaimOfOther ==
  ASSUME MInv, NEW p \in Procs, \A b \in Batches : p \notin procs[b]
  PROVE  \E x : Claims(p) = {x}
<1>1. TypeOK /\ PartOK /\ None \notin Procs
  BY MigrationAssumption DEF MInv
<1> DEFINE C == {t \in Threads : p \in curb[t]}
<1> DEFINE F == {t \in Threads : far[t] = p}
<1>2. Claims(p) = {<<"curb", t>> : t \in C} \cup {<<"far", t>> : t \in F}
         \cup (IF p \in blocked THEN {<<"blocked">>} ELSE {})
  <2>1. PendOf(p) = {} /\ HandOf(p) = {} /\ CurbOf(p) = C /\ FarOf(p) = F
    BY <1>1 DEF TypeOK, PendOf, HandOf, CurbOf, FarOf
  <2>2. QueueClaims(p) = {}
    <3>1. \A t \in Threads : QueuedOf(p, t) = {}
      BY OwnBatches DEF QueuedOf
    <3> QED BY <3>1 DEF QueueClaims
  <2> HIDE DEF C, F
  <2> QED BY <2>1, <2>2, ClaimsOf
<1>3. CASE p \in blocked
  <2>1. C = {} /\ F = {}
    BY <1>1, <1>3 DEF PartOK
  <2> HIDE DEF C, F
  <2>2. Claims(p) = {<<"blocked">>}
    BY <1>2, <1>3, <2>1
  <2> QED BY <2>2
<1>4. ASSUME NEW t \in Threads, p \in curb[t] PROVE \E x : Claims(p) = {x}
  <2>1. C = {t} /\ F = {} /\ p \notin blocked
    BY <1>1, <1>4 DEF PartOK
  <2> HIDE DEF C, F
  <2>2. Claims(p) = {<<"curb", t>>}
    BY <1>2, <2>1
  <2> QED BY <2>2
<1>5. ASSUME NEW t \in Threads, far[t] = p PROVE \E x : Claims(p) = {x}
  <2>1. C = {} /\ F = {t} /\ p \notin blocked
    BY <1>1, <1>5 DEF PartOK
  <2> HIDE DEF C, F
  <2>2. Claims(p) = {<<"far", t>>}
    BY <1>2, <2>1
  <2> QED BY <2>2
<1>6. p \in blocked \/ \E t \in Threads : p \in curb[t] \/ far[t] = p
  BY <1>1 DEF PartOK
<1> QED BY <1>3, <1>4, <1>5, <1>6

\* A process is in one place: try_pull_from_runqueue and try_migrate_from_scheduler never
\* both get a batch, and none is dropped between them.
THEOREM MigrationSchedulesOnce == Spec => []ScheduledOnce
<1>1. ASSUME MInv PROVE ScheduledOnce
  <2>1. ASSUME NEW p \in Procs PROVE Cardinality(Claims(p)) = 1
    <3>1. \E x : Claims(p) = {x}
      BY <1>1, ClaimOfBatch, ClaimOfOther
    <3> QED BY <3>1, FS_Singleton
  <2> QED BY <2>1 DEF ScheduledOnce
<1> QED BY <1>1, MigrationInvariant, PTL
=============================================================================
