---------------------------- MODULE PhaseProofs ----------------------------
(***************************************************************************)
(* What the simulation of a phase rests on, for every value of the         *)
(* constants.                                                              *)
(*                                                                         *)
(* The event queue of the weave phase implements the abstract queue of     *)
(* events, and firstCycle() is exact, for any number of blocks and any     *)
(* width of a block.                                                       *)
(*                                                                         *)
(* The lookup port of a timing cache: two words are enough for it to be    *)
(* granted at most once per cycle, for every sequence of calls in cycle    *)
(* order.                                                                  *)
(*                                                                         *)
(* Simulation control, between the phases: the statistics are dumped last, *)
(* and synced fast-forward is entered only while the end of a phase waits, *)
(* for every number of processes and every configuration.                  *)
(***************************************************************************)
EXTENDS PrioQueue, CachePort, SimControl, FiniteSetTheorems, WellFoundedInduction,
        TLAPS

------------------------------------------------------------------------------
(* Division with remainder, which the provers only know as an axiom.       *)

(* A number is its quotient times the divisor plus its remainder. *)
LEMMA DivMod ==
    ASSUME NEW w \in Nat, w >= 1, NEW c \in Nat
    PROVE  c \div w \in Nat /\ c % w \in 0..(w - 1) /\ c = (c \div w) * w + (c % w)
OBVIOUS

(* Quotient and remainder are unique. *)
LEMMA DivUnique ==
    ASSUME NEW w \in Nat, w >= 1, NEW c \in Nat, NEW q \in Nat,
           NEW r \in 0..(w - 1), c = q * w + r
    PROVE  c \div w = q /\ c % w = r
OBVIOUS

(* A number is below k times the divisor when its quotient is below k. *)
LEMMA DivLess ==
    ASSUME NEW w \in Nat, w >= 1, NEW c \in Nat, NEW k \in Nat
    PROVE  (c < k * w) <=> (c \div w < k)
OBVIOUS

(* Quotients are ordered like the numbers. *)
LEMMA DivMonotone ==
    ASSUME NEW w \in Nat, w >= 1, NEW c \in Nat, NEW d \in Nat, c <= d
    PROVE  c \div w <= d \div w
OBVIOUS

(* One more times a number. *)
LEMMA OneMoreTimes ==
    ASSUME NEW w \in Nat, NEW q \in Nat
    PROVE  (q + 1) * w = q * w + w /\ q * w \in Nat
OBVIOUS

(* The remainder of a successor. *)
LEMMA ModSuccessor ==
    ASSUME NEW w \in Nat, w >= 1, NEW c \in Nat
    PROVE  (c + 1) % w = IF (c % w) + 1 = w THEN 0 ELSE (c % w) + 1
<1>1. PICK q \in Nat, r \in 0..(w - 1) : c = q * w + r /\ r = c % w BY DivMod, Zenon
<1>2. CASE r + 1 = w
  <2>1. (q + 1) * w = q * w + w /\ q * w \in Nat BY OneMoreTimes
  <2>2. c + 1 = q * w + w
    <3> DEFINE m == q * w
    <3>1. m \in Nat /\ c = m + r BY <1>1, <2>1
    <3> HIDE DEF m
    <3>2. c + 1 = m + w BY <3>1, <1>2
    <3> QED BY <3>2 DEF m
  <2>3. c + 1 = (q + 1) * w + 0 BY <2>1, <2>2
  <2>4. c + 1 \in Nat /\ q + 1 \in Nat /\ 0 \in 0..(w - 1) OBVIOUS
  <2>5. (c + 1) % w = 0 BY <2>3, <2>4, DivUnique, Zenon
  <2> QED BY <1>1, <1>2, <2>5
<1>3. CASE r + 1 # w
  <2>1. c + 1 = q * w + (r + 1) /\ r + 1 \in 0..(w - 1) /\ c + 1 \in Nat
    BY <1>1, <1>3, OneMoreTimes
  <2>2. (c + 1) % w = r + 1 BY <2>1, DivUnique, Zenon
  <2> QED BY <1>1, <1>3, <2>2
<1> QED BY <1>2, <1>3

(* A whole turn does not change the remainder. *)
LEMMA ModTurn ==
    ASSUME NEW w \in Nat, w >= 1, NEW a \in Nat
    PROVE  (a + w) % w = a % w
<1>1. PICK q \in Nat, r \in 0..(w - 1) : a = q * w + r /\ r = a % w BY DivMod, Zenon
<1>2. a + w = (q + 1) * w + r BY <1>1, OneMoreTimes
<1>3. a + w \in Nat /\ q + 1 \in Nat OBVIOUS
<1>4. (a + w) % w = r BY <1>2, <1>3, DivUnique, Zenon
<1> QED BY <1>1, <1>4

(* Within less than a turn remainders differ. *)
LEMMA ModInjective ==
    ASSUME NEW w \in Nat, w >= 1, NEW a \in Nat, NEW b \in Nat,
           a <= b, b < a + w, a % w = b % w
    PROVE  a = b
<1>1. PICK q \in Nat, r \in 0..(w - 1) : a = q * w + r /\ r = a % w BY DivMod, Zenon
<1>2. PICK p \in Nat : b = p * w + r BY DivMod, <1>1, ZenonT(60)
<1>3. p * w < (q + 1) * w /\ q * w <= p * w BY <1>1, <1>2
<1>4. p < q + 1 BY <1>3
<1>5. q <= p BY <1>3
<1> QED BY <1>1, <1>2, <1>4, <1>5

------------------------------------------------------------------------------
(* The inductive invariant.                                                *)

Half == B \div 2
Window == curBlock..(curBlock + B - 1)

(* A bit is set when its list has an event. *)
OccInv == \A i \in Slots, p \in Positions : p \in occ[i] <=> array[i][p] # {}

(* The places of the ring that hold an event stand for cycles that events  *)
(* may be due in.                                                          *)
RingInv == \A b \in Window, p \in Positions :
               array[Slot(b)][p] # {} => b * W + p <= MaxCycle

(* A far event is beyond the reach the ring had when it last passed a      *)
(* multiple of B / 2, so never in the first half of the ring.              *)
FarInv == \A e \in feMap : Block(e.cycle) + (curBlock % Half) >= curBlock + B

(* Between calls the ring starts no later than the last event taken. *)
NowInv == ~busy => curBlock <= Block(now)

(* dequeue() looks for an event only if there is one. *)
BusyInv == busy => elems > 0

IndInv == TypeOK /\ OccInv /\ RingInv /\ FarInv /\ NowInv /\ BusyInv

------------------------------------------------------------------------------
(* Half a ring is at least one block, and at most the ring. *)
LEMMA HalfFact == Half \in Nat /\ Half >= 1 /\ Half <= B /\ Half <= B - Half
BY BlocksAssumption DEF Half

(* Where a cycle has its place. *)
LEMMA Places ==
    ASSUME NEW c \in Nat
    PROVE  /\ Block(c) \in Nat /\ Pos(c) \in Positions /\ c = Block(c) * W + Pos(c)
           /\ Slot(Block(c)) \in Slots
<1>1. /\ Block(c) \in Nat /\ Pos(c) \in Positions /\ c = Block(c) * W + Pos(c)
  BY DivMod, WidthAssumption, Zenon DEF Block, Pos, Positions
<1>2. B \in Nat /\ B >= 1 BY BlocksAssumption
<1>3. \A b \in Nat : b % B \in 0..(B - 1) BY <1>2, DivMod
<1> QED BY <1>1, <1>3 DEF Slot, Slots

(* Every block has a slot. *)
LEMMA SlotOf == ASSUME NEW b \in Nat PROVE Slot(b) \in Slots
<1>2. B \in Nat /\ B >= 1 BY BlocksAssumption
<1> QED BY <1>2, DivMod DEF Slot, Slots

(* The cycle of a place. *)
LEMMA CycleOf ==
    ASSUME NEW b \in Nat, NEW p \in Positions
    PROVE  b * W + p \in Nat /\ Block(b * W + p) = b /\ Pos(b * W + p) = p
<1>1. b * W \in Nat BY OneMoreTimes, WidthAssumption
<1>2. b * W + p \in Nat BY <1>1 DEF Positions
<1>3. \A c \in Nat : c = b * W + p => c \div W = b /\ c % W = p
  BY DivUnique, WidthAssumption, Zenon DEF Positions
<1> QED BY <1>2, <1>3, Zenon DEF Block, Pos

(* Two blocks of the ring have different slots. *)
LEMMA SlotInjective ==
    ASSUME NEW k \in Nat, NEW a \in k..(k + B - 1), NEW b \in k..(k + B - 1),
           Slot(a) = Slot(b)
    PROVE  a = b
<1>1. B \in Nat /\ B >= 1 /\ a \in Nat /\ b \in Nat BY BlocksAssumption
<1>2. CASE a <= b
  <2>1. b < a + B BY <1>1
  <2> QED BY <1>1, <1>2, <2>1, ModInjective, Zenon DEF Slot
<1>3. CASE b <= a
  <2>1. a < b + B BY <1>1
  <2> QED BY <1>1, <1>3, <2>1, ModInjective, Zenon DEF Slot
<1> QED BY <1>1, <1>2, <1>3

(* The block after the ring has the slot of its first block. *)
LEMMA SlotTurn == ASSUME NEW b \in Nat PROVE Slot(b + B) = Slot(b)
<1>1. B \in Nat /\ B >= 1 BY BlocksAssumption
<1> QED BY <1>1, ModTurn, Zenon DEF Slot

(* What the lists and the bits are when entries are added. *)
LEMMA Adding ==
    ASSUME NEW es \in SUBSET QueueEntries, TypeOK
    PROVE  /\ ArrayWith(es) \in [Slots -> [Positions -> SUBSET Objs]]
           /\ OccWith(es) \in [Slots -> SUBSET Positions]
           /\ \A i \in Slots, p \in Positions : \A o :
                o \in ArrayWith(es)[i][p] <=>
                  \/ o \in array[i][p]
                  \/ \E e \in es : e.obj = o /\ Slot(Block(e.cycle)) = i /\ Pos(e.cycle) = p
           /\ \A i \in Slots, p \in Positions :
                p \in OccWith(es)[i] <=>
                  \/ p \in occ[i]
                  \/ \E e \in es : Slot(Block(e.cycle)) = i /\ Pos(e.cycle) = p
<1>1. \A e \in es : e.obj \in Objs /\ e.cycle \in Nat BY CycleAssumption DEF QueueEntries
<1>2. \A e \in es : Pos(e.cycle) \in Positions BY <1>1, Places
<1>3. \A i \in Slots, p \in Positions :
         ArrayWith(es)[i][p] = array[i][p] \cup
            {e.obj : e \in {f \in es : Slot(Block(f.cycle)) = i /\ Pos(f.cycle) = p}}
  BY DEF ArrayWith
<1>4. \A i \in Slots :
         OccWith(es)[i] = occ[i] \cup
            {Pos(e.cycle) : e \in {f \in es : Slot(Block(f.cycle)) = i}}
  BY DEF OccWith
<1>5. \A i \in Slots, p \in Positions : ArrayWith(es)[i][p] \in SUBSET Objs
  BY <1>1, <1>3 DEF TypeOK
<1>6. ArrayWith(es) \in [Slots -> [Positions -> SUBSET Objs]] BY <1>1, <1>5 DEF ArrayWith, TypeOK
<1>7. OccWith(es) \in [Slots -> SUBSET Positions] BY <1>2, <1>4 DEF OccWith, TypeOK
<1> QED BY <1>3, <1>4, <1>6, <1>7

(* When an entry is queued. *)
InQueue(e) ==
    \/ e \in feMap
    \/ Block(e.cycle) \in Window /\ e.obj \in array[Slot(Block(e.cycle))][Pos(e.cycle)]

(* An entry is queued as a far event or in its place of the ring. *)
LEMMA ContentIs == \A e \in QueueEntries : e \in Content <=> InQueue(e)
BY DEF Content, InQueue, Window

------------------------------------------------------------------------------
(* The operations, one by one.                                             *)

(* enqueue() adds its entry to the queue, and keeps the invariant. *)
LEMMA EnqueueStep ==
    ASSUME NEW o \in Objs, NEW c \in 0..MaxCycle, IndInv, enqueue(o, c)
    PROVE  /\ IndInv'
           /\ [cycle |-> c, obj |-> o] \notin Content
           /\ Content' = Content \cup {[cycle |-> c, obj |-> o]}
<1> DEFINE e == [cycle |-> c, obj |-> o]
<1>1. e \in QueueEntries /\ e.cycle = c /\ e.obj = o /\ {e} \in SUBSET QueueEntries BY DEF QueueEntries
<1>2. TypeOK /\ OccInv /\ RingInv /\ FarInv /\ NowInv /\ BusyInv BY DEF IndInv
<1>3. c \in Nat /\ now \in Nat /\ curBlock \in Nat /\ B \in Nat /\ B >= 2
  BY <1>2, CycleAssumption, BlocksAssumption DEF TypeOK
<1>4. Block(c) \in Nat /\ Pos(c) \in Positions /\ Slot(Block(c)) \in Slots
      /\ c = Block(c) * W + Pos(c)
  BY <1>3, Places
<1>5. curBlock <= Block(c)
  <2>1. Block(now) <= Block(c) /\ Block(now) \in Nat
    BY <1>3, DivMonotone, Places, WidthAssumption, Zenon DEF enqueue, Block
  <2> QED BY <1>2, <1>3, <1>4, <2>1 DEF NowInv, enqueue
<1>6. UNCHANGED <<curBlock, busy, now>> /\ elems' = elems + 1 /\ Window' = Window
  BY DEF enqueue, Window
<1>7. ~InQueue(e)
  <2>1. CASE e \in feMap BY <1>1, <2>1 DEF enqueue, IsQueued
  <2>2. CASE o \in array[Slot(Block(c))][Pos(c)]
    BY <1>4, <2>2 DEF enqueue, IsQueued, InRing
  <2> QED BY <1>1, <2>1, <2>2 DEF InQueue
<1>8. CASE Reach(Block(c))
  <2>1. array' = ArrayWith({e}) /\ occ' = OccWith({e}) /\ feMap' = feMap
    BY <1>8 DEF enqueue
  <2>2. Block(c) \in Window BY <1>3, <1>4, <1>5, <1>8 DEF Reach, Window
  <2>3. \A i \in Slots, p \in Positions : \A x :
          x \in array'[i][p] <=> \/ x \in array[i][p]
                                 \/ x = o /\ Slot(Block(c)) = i /\ Pos(c) = p
    BY <1>1, <1>2, <2>1, Adding
  <2>4. \A i \in Slots, p \in Positions :
          p \in occ'[i] <=> p \in occ[i] \/ (Slot(Block(c)) = i /\ Pos(c) = p)
    BY <1>1, <1>2, <2>1, Adding
  <2>5. TypeOK'
    <3>1. /\ array' \in [Slots -> [Positions -> SUBSET Objs]]
          /\ occ' \in [Slots -> SUBSET Positions]
      BY <1>1, <1>2, <2>1, Adding, Zenon
    <3>2. /\ feMap' = feMap /\ curBlock' = curBlock /\ busy' = busy /\ now' = now
          /\ elems' = elems + 1
      BY <1>6, <2>1
    <3> QED BY <1>2, <3>1, <3>2 DEF TypeOK
  <2>6. OccInv' BY <1>2, <2>3, <2>4 DEF OccInv
  <2>7. RingInv'
    <3> SUFFICES ASSUME NEW b \in Window, NEW p \in Positions, array'[Slot(b)][p] # {}
                 PROVE  b * W + p <= MaxCycle
      BY <1>6 DEF RingInv
    <3>1. b \in Nat /\ Slot(b) \in Slots BY <1>3, SlotOf DEF Window
    <3>2. CASE array[Slot(b)][p] # {} BY <1>2, <3>2 DEF RingInv
    <3>3. CASE Slot(Block(c)) = Slot(b) /\ Pos(c) = p
      <4>1. b = Block(c) BY <1>3, <2>2, <3>3, SlotInjective DEF Window
      <4> QED BY <1>4, <3>3, <4>1
    <3> QED BY <3>1, <3>2, <3>3, <2>3
  <2>8. FarInv' /\ NowInv' /\ BusyInv'
    BY <1>2, <1>6, <2>1 DEF FarInv, NowInv, BusyInv, TypeOK
  <2>9. \A f \in QueueEntries : InQueue(f)' <=> InQueue(f) \/ f = e
    <3> SUFFICES ASSUME NEW f \in QueueEntries PROVE InQueue(f)' <=> InQueue(f) \/ f = e
      OBVIOUS
    <3>1. f.cycle \in Nat /\ f.obj \in Objs /\ f = [cycle |-> f.cycle, obj |-> f.obj]
      BY CycleAssumption DEF QueueEntries
    <3>2. Block(f.cycle) \in Nat /\ Pos(f.cycle) \in Positions
          /\ Slot(Block(f.cycle)) \in Slots /\ f.cycle = Block(f.cycle) * W + Pos(f.cycle)
      BY <3>1, Places
    <3>3. CASE f = e BY <1>1, <1>4, <2>2, <2>3, <3>3, <1>6, ZenonT(60) DEF InQueue
    <3>4. CASE f # e
      <4>1. ~(/\ Block(f.cycle) \in Window /\ f.obj = o
              /\ Slot(Block(c)) = Slot(Block(f.cycle)) /\ Pos(c) = Pos(f.cycle))
        <5> SUFFICES ASSUME Block(f.cycle) \in Window, f.obj = o,
                            Slot(Block(c)) = Slot(Block(f.cycle)), Pos(c) = Pos(f.cycle)
                     PROVE  FALSE
          OBVIOUS
        <5>1. Block(c) = Block(f.cycle) BY <1>3, <2>2, SlotInjective DEF Window
        <5>2. f.cycle = c BY <5>1, <1>4, <3>2
        <5> QED BY <5>2, <3>1, <3>4
      <4> QED BY <1>6, <2>1, <2>3, <3>2, <3>4, <4>1, ZenonT(60) DEF InQueue
    <3> QED BY <3>3, <3>4
  <2>10. Content' = Content \cup {e}
    <3>1. \A f \in QueueEntries : f \in Content' <=> InQueue(f)' BY ContentIs DEF Content, InQueue, Window
    <3> QED BY <1>1, <2>9, <3>1, ContentIs DEF Content
  <2> QED BY <1>1, <1>7, <2>5, <2>6, <2>7, <2>8, <2>10, ContentIs DEF IndInv
<1>9. CASE ~Reach(Block(c))
  <2>1. feMap' = feMap \cup {e} /\ UNCHANGED <<array, occ>> BY <1>9 DEF enqueue
  <2>2. TypeOK' /\ OccInv' /\ RingInv' /\ NowInv' /\ BusyInv'
    BY <1>1, <1>2, <1>6, <2>1 DEF TypeOK, OccInv, RingInv, NowInv, BusyInv
  <2>3. curBlock % Half \in Nat
    <3>1. Half \in Nat /\ Half >= 1 BY HalfFact
    <3> QED BY <3>1, <1>3, DivMod
  <2>4. FarInv'
    BY <1>1, <1>2, <1>3, <1>4, <1>6, <1>9, <2>1, <2>3 DEF FarInv, Reach
  <2>5. \A f \in QueueEntries : InQueue(f)' <=> InQueue(f) \/ f = e
    BY <1>6, <2>1, Zenon DEF InQueue
  <2>6. Content' = Content \cup {e}
    <3>1. \A f \in QueueEntries : f \in Content' <=> InQueue(f)' BY DEF Content, InQueue, Window
    <3> QED BY <1>1, <2>5, <3>1, ContentIs, Zenon DEF Content
  <2> QED BY <1>1, <1>7, <2>2, <2>4, <2>6, ContentIs DEF IndInv
<1> QED BY <1>8, <1>9

(* A far event is due later than every cycle of the first block. *)
LEMMA FarLater ==
    ASSUME IndInv, NEW e \in feMap
    PROVE  e.cycle \in Nat /\ Block(e.cycle) \in Nat /\ Block(e.cycle) >= curBlock + 1
<1>1. e.cycle \in Nat /\ curBlock \in Nat
  BY CycleAssumption DEF IndInv, TypeOK, QueueEntries
<1>2. Block(e.cycle) \in Nat BY <1>1, Places
<1>3. Half \in Nat /\ Half >= 1 /\ Half <= B /\ B \in Nat BY HalfFact, BlocksAssumption
<1>4. curBlock % Half \in 0..(Half - 1) BY <1>1, <1>3, DivMod
<1>5. Block(e.cycle) + (curBlock % Half) >= curBlock + B BY DEF IndInv, FarInv
<1> QED BY <1>1, <1>2, <1>3, <1>4, <1>5

(* Later blocks have later cycles. *)
LEMMA LaterBlock ==
    ASSUME NEW c \in Nat, NEW b \in Nat, NEW p \in Positions, Block(c) >= b + 1
    PROVE  b * W + p < c
<1>1. W \in Nat /\ W >= 1 /\ b + 1 \in Nat BY WidthAssumption
<1>2. Block(c) \in Nat BY Places
<1>3. ~(c < (b + 1) * W) BY <1>1, <1>2, DivLess DEF Block
<1>4. (b + 1) * W = b * W + W /\ b * W \in Nat BY <1>1, OneMoreTimes
<1> DEFINE m == b * W
<1>5. m \in Nat /\ ~(c < m + W) BY <1>3, <1>4
<1> HIDE DEF m
<1>6. m + p < c BY <1>1, <1>5 DEF Positions
<1> QED BY <1>6 DEF m

(* Passing an empty block changes nothing of what is queued, and keeps the *)
(* invariant.                                                              *)
LEMMA PassBlockStep ==
    ASSUME IndInv, PassBlock
    PROVE  IndInv' /\ Content' = Content
<1> DEFINE next == curBlock + 1
           due == DueAt(next)
<1>1. TypeOK /\ OccInv /\ RingInv /\ FarInv /\ NowInv /\ BusyInv BY DEF IndInv
<1>2. curBlock \in Nat /\ next \in Nat /\ B \in Nat /\ B >= 2 /\ feMap \in SUBSET QueueEntries
  BY <1>1, BlocksAssumption DEF TypeOK
<1>3. due \in SUBSET feMap /\ due \in SUBSET QueueEntries BY <1>2 DEF DueAt
<1>4. /\ busy /\ occ[Slot(curBlock)] = {} /\ curBlock' = next
      /\ array' = ArrayWith(due) /\ occ' = OccWith(due) /\ feMap' = feMap \ due
      /\ UNCHANGED <<elems, busy, now>>
  BY DEF PassBlock
<1> HIDE DEF due
<1>5. Window = curBlock..(curBlock + B - 1) /\ Window' = next..(next + B - 1)
  BY <1>4 DEF Window
<1>6. \A p \in Positions : array[Slot(curBlock)][p] = {}
  BY <1>1, <1>2, <1>4, SlotOf DEF OccInv
<1>7. \A b \in Window' : b \in Window \/ Slot(b) = Slot(curBlock)
  <2> SUFFICES ASSUME NEW b \in Window', b \notin Window PROVE Slot(b) = Slot(curBlock)
    OBVIOUS
  <2>1. b = curBlock + B BY <1>2, <1>5
  <2> QED BY <1>2, <2>1, SlotTurn
<1>8. \A b \in Window : b \in Window' \/ b = curBlock BY <1>2, <1>5
<1>9. \A e \in due : /\ e.cycle \in 0..MaxCycle /\ Block(e.cycle) \in Nat
                     /\ Block(e.cycle) \in Window'
  <2> SUFFICES ASSUME NEW e \in due
               PROVE  /\ e.cycle \in 0..MaxCycle /\ Block(e.cycle) \in Nat
                      /\ Block(e.cycle) \in Window'
    OBVIOUS
  <2>1. e.cycle \in 0..MaxCycle BY <1>3 DEF QueueEntries
  <2>2. e.cycle \in Nat /\ Block(e.cycle) \in Nat /\ Block(e.cycle) >= next
    BY <1>3, FarLater
  <2>3. e.cycle < (next + B) * W BY DEF due, DueAt
  <2>4. Block(e.cycle) < next + B
    <3>1. next + B \in Nat BY <1>2
    <3> QED BY <2>2, <2>3, <3>1, DivLess, WidthAssumption DEF Block
  <2> QED BY <1>2, <1>5, <2>1, <2>2, <2>4
<1>10. \A i \in Slots, p \in Positions : \A x :
          x \in array'[i][p] <=>
            \/ x \in array[i][p]
            \/ \E e \in due : e.obj = x /\ Slot(Block(e.cycle)) = i /\ Pos(e.cycle) = p
  BY <1>1, <1>3, <1>4, Adding
<1>11. \A i \in Slots, p \in Positions :
          p \in occ'[i] <=>
            p \in occ[i] \/ \E e \in due : Slot(Block(e.cycle)) = i /\ Pos(e.cycle) = p
  BY <1>1, <1>3, <1>4, Adding
<1>12. \A f \in QueueEntries : \A e \in due :
          /\ Block(f.cycle) \in Window' /\ Slot(Block(e.cycle)) = Slot(Block(f.cycle))
          /\ Pos(e.cycle) = Pos(f.cycle) /\ e.obj = f.obj
          => f = e
  <2> SUFFICES ASSUME NEW f \in QueueEntries, NEW e \in due, Block(f.cycle) \in Window',
                      Slot(Block(e.cycle)) = Slot(Block(f.cycle)),
                      Pos(e.cycle) = Pos(f.cycle), e.obj = f.obj
               PROVE  f = e
    OBVIOUS
  <2>1. Block(e.cycle) = Block(f.cycle) BY <1>2, <1>5, <1>9, SlotInjective
  <2>2. f.cycle \in Nat /\ e.cycle \in Nat BY <1>9, CycleAssumption DEF QueueEntries
  <2>3. f.cycle = e.cycle BY <2>1, <2>2, Places
  <2> QED BY <1>3, <2>3 DEF QueueEntries
<1>13. TypeOK'
  <2>1. /\ array' \in [Slots -> [Positions -> SUBSET Objs]]
        /\ occ' \in [Slots -> SUBSET Positions]
    BY <1>1, <1>3, <1>4, Adding, Zenon
  <2> QED BY <1>1, <1>2, <1>4, <2>1, Zenon DEF TypeOK
<1>14. OccInv'
  <2> SUFFICES ASSUME NEW i \in Slots, NEW p \in Positions
               PROVE  p \in occ'[i] <=> array'[i][p] # {}
    BY DEF OccInv
  <2>1. p \in occ[i] <=> array[i][p] # {} BY <1>1 DEF OccInv
  <2> QED BY <1>10, <1>11, <2>1
<1>15. RingInv'
  <2> SUFFICES ASSUME NEW b \in Window', NEW p \in Positions, array'[Slot(b)][p] # {}
               PROVE  b * W + p <= MaxCycle
    BY DEF RingInv
  <2>1. b \in Nat /\ Slot(b) \in Slots BY <1>2, <1>5, SlotOf
  <2>2. CASE array[Slot(b)][p] # {}
    <3>1. b \in Window BY <1>6, <1>7, <2>2
    <3> QED BY <1>1, <2>2, <3>1 DEF RingInv
  <2>3. ASSUME NEW e \in due, Slot(Block(e.cycle)) = Slot(b), Pos(e.cycle) = p
        PROVE  b * W + p <= MaxCycle
    <3>1. Block(e.cycle) = b BY <1>2, <1>5, <1>9, <2>3, SlotInjective
    <3>2. e.cycle \in Nat BY <1>9, CycleAssumption
    <3>3. e.cycle = b * W + p BY <2>3, <3>1, <3>2, Places
    <3> QED BY <1>9, <3>3
  <2> QED BY <1>10, <2>1, <2>2, <2>3
<1>16. FarInv'
  <2> SUFFICES ASSUME NEW e \in feMap, e \notin due
               PROVE  Block(e.cycle) + (next % Half) >= next + B
    BY <1>4 DEF FarInv, Half
  <2>1. Half \in Nat /\ Half >= 1 BY HalfFact
  <2>2. e.cycle \in Nat /\ Block(e.cycle) \in Nat BY FarLater
  <2>3. Block(e.cycle) + (curBlock % Half) >= curBlock + B BY <1>1 DEF FarInv
  <2>4. curBlock % Half \in Nat /\ next % Half \in Nat BY <1>2, <2>1, DivMod
  <2>5. CASE next % Half = 0
    <3>1. ~(e.cycle < (next + B) * W) BY <2>5 DEF due, DueAt, Half
    <3>2. next + B \in Nat BY <1>2
    <3>3. ~(Block(e.cycle) < next + B)
      BY <2>2, <3>1, <3>2, DivLess, WidthAssumption DEF Block
    <3> QED BY <1>2, <2>2, <2>4, <3>3
  <2>6. CASE next % Half # 0
    <3>1. next % Half = (curBlock % Half) + 1 BY <1>2, <2>1, <2>6, ModSuccessor, Zenon
    <3> QED BY <1>2, <2>2, <2>3, <2>4, <3>1
  <2> QED BY <2>5, <2>6
<1>17. NowInv' /\ BusyInv' BY <1>1, <1>4 DEF NowInv, BusyInv
<1>18. \A f \in QueueEntries : InQueue(f)' <=> InQueue(f)
  <2> SUFFICES ASSUME NEW f \in QueueEntries PROVE InQueue(f)' <=> InQueue(f)
    OBVIOUS
  <2> DEFINE b == Block(f.cycle)
             p == Pos(f.cycle)
  <2>1. b \in Nat /\ p \in Positions /\ Slot(b) \in Slots
    BY Places, CycleAssumption DEF QueueEntries
  <2>2. InQueue(f) <=> f \in feMap \/ (b \in Window /\ f.obj \in array[Slot(b)][p])
    BY DEF InQueue
  <2>3. InQueue(f)' <=> f \in feMap' \/ (b \in Window' /\ f.obj \in array'[Slot(b)][p])
    BY DEF InQueue
  <2>4. b \in Window /\ f.obj \in array[Slot(b)][p]
        => b \in Window' /\ f.obj \in array'[Slot(b)][p]
    BY <1>6, <1>8, <1>10, <2>1, Zenon
  <2>5. f \in due => b \in Window' /\ f.obj \in array'[Slot(b)][p]
    BY <1>9, <1>10, <2>1, Zenon
  <2>6. b \in Window' /\ f.obj \in array'[Slot(b)][p]
        => f \in due \/ (b \in Window /\ f.obj \in array[Slot(b)][p])
    BY <1>6, <1>7, <1>10, <1>12, <2>1
  <2> HIDE DEF b, p
  <2> QED BY <1>3, <1>4, <2>2, <2>3, <2>4, <2>5, <2>6
<1>19. Content' = Content
  <2>1. \A f \in QueueEntries : f \in Content' <=> InQueue(f)' BY DEF Content, InQueue, Window
  <2> QED BY <1>18, <2>1, ContentIs DEF Content
<1> QED BY <1>13, <1>14, <1>15, <1>16, <1>17, <1>19 DEF IndInv

(* dequeue() takes an entry that is due first, and keeps the invariant. *)
LEMMA TakeFirstStep ==
    ASSUME IndInv, TakeFirst
    PROVE  /\ IndInv'
           /\ \E e \in Content : /\ \A f \in Content : e.cycle <= f.cycle
                                 /\ Content' = Content \ {e}
                                 /\ now' = e.cycle
<1> DEFINE i == Slot(curBlock)
<1>1. TypeOK /\ OccInv /\ RingInv /\ FarInv /\ NowInv /\ BusyInv BY DEF IndInv
<1>2. curBlock \in Nat /\ B \in Nat /\ B >= 2 /\ i \in Slots
  BY <1>1, BlocksAssumption, SlotOf DEF TypeOK
<1>3. PICK p \in occ[i] : \E x \in array[i][p] :
        /\ \A q \in occ[i] : p <= q
        /\ array' = [array EXCEPT ![i][p] = @ \ {x}]
        /\ occ' = [occ EXCEPT ![i] = OccAfter(@, p, array[i][p] \ {x})]
        /\ now' = curBlock * W + p
  BY Zenon DEF TakeFirst
<1>4. p \in Positions BY <1>1, <1>2, <1>3 DEF TypeOK
<1>5. PICK o \in array[i][p] :
        /\ \A q \in occ[i] : p <= q
        /\ array' = [array EXCEPT ![i][p] = @ \ {o}]
        /\ occ' = [occ EXCEPT ![i] = OccAfter(@, p, array[i][p] \ {o})]
        /\ now' = curBlock * W + p
  BY <1>3, Zenon
<1>6. busy /\ UNCHANGED <<feMap, curBlock>> /\ elems' = elems - 1 /\ busy' = FALSE
  BY DEF TakeFirst
<1> DEFINE c == curBlock * W + p
           e == [cycle |-> c, obj |-> o]
<1>7. c \in Nat /\ Block(c) = curBlock /\ Pos(c) = p BY <1>2, <1>4, CycleOf
<1>8. curBlock \in Window /\ Window' = Window BY <1>2, <1>6 DEF Window
<1>9. c \in 0..MaxCycle
  <2>1. array[Slot(curBlock)][p] # {} BY <1>5
  <2>2. c <= MaxCycle BY <1>1, <1>4, <1>8, <2>1, Zenon DEF RingInv
  <2> QED BY <1>7, <2>2, CycleAssumption
<1>10. o \in Objs BY <1>1, <1>2, <1>4, <1>5, Zenon DEF TypeOK
<1>11. e \in QueueEntries /\ e.cycle = c /\ e.obj = o BY <1>9, <1>10 DEF QueueEntries
<1> HIDE DEF c
<1>12. InQueue(e) BY <1>5, <1>7, <1>8, <1>11, Zenon DEF InQueue
<1>13. \A j \in Slots, q \in Positions :
          array'[j][q] = IF j = i /\ q = p THEN array[j][q] \ {o} ELSE array[j][q]
  BY <1>1, <1>2, <1>4, <1>5, Zenon DEF TypeOK
<1>14. \A j \in Slots, q \in Positions :
          q \in occ'[j] <=> q \in occ[j] /\ ~(j = i /\ q = p /\ array[i][p] \ {o} = {})
  BY <1>1, <1>2, <1>4, <1>5 DEF TypeOK, OccAfter
<1>15. \A f \in QueueEntries : InQueue(f) => e.cycle <= f.cycle
  <2> SUFFICES ASSUME NEW f \in QueueEntries, InQueue(f) PROVE c <= f.cycle
    BY <1>11
  <2>1. f.cycle \in Nat BY CycleAssumption DEF QueueEntries
  <2>2. Block(f.cycle) \in Nat /\ Pos(f.cycle) \in Positions
        /\ f.cycle = Block(f.cycle) * W + Pos(f.cycle)
    BY <2>1, Places, Zenon
  <2>3. CASE Block(f.cycle) >= curBlock + 1
    <3>1. curBlock * W + p < f.cycle BY <1>2, <1>4, <2>1, <2>3, LaterBlock, Zenon
    <3> QED BY <1>7, <2>1, <3>1 DEF c
  <2>4. CASE f \in feMap BY <2>3, <2>4, FarLater, Zenon
  <2>5. CASE Block(f.cycle) = curBlock /\ f.obj \in array[Slot(Block(f.cycle))][Pos(f.cycle)]
    <3>1. Pos(f.cycle) \in occ[i] BY <1>1, <1>2, <2>2, <2>5, Zenon DEF OccInv
    <3>2. p <= Pos(f.cycle) BY <1>5, <3>1
    <3>3. curBlock * W \in Nat BY <1>2, OneMoreTimes, WidthAssumption, Zenon
    <3>4. f.cycle = curBlock * W + Pos(f.cycle) BY <2>2, <2>5, Zenon
    <3> DEFINE m == curBlock * W
    <3>5. c = m + p /\ f.cycle = m + Pos(f.cycle) /\ m \in Nat BY <3>3, <3>4, Zenon DEF
       c
    <3> HIDE DEF m
    <3> QED BY <1>4, <2>2, <3>2, <3>5 DEF Positions
  <2>6. Block(f.cycle) \in Window => Block(f.cycle) = curBlock \/ Block(f.cycle) >= curBlock + 1
    BY <1>2, <2>2 DEF Window
  <2> QED BY <2>3, <2>4, <2>5, <2>6 DEF InQueue
<1>16. \A f \in QueueEntries : InQueue(f)' <=> InQueue(f) /\ f # e
  <2> SUFFICES ASSUME NEW f \in QueueEntries PROVE InQueue(f)' <=> InQueue(f) /\ f # e
    OBVIOUS
  <2>1. f.cycle \in Nat /\ f = [cycle |-> f.cycle, obj |-> f.obj]
    BY CycleAssumption DEF QueueEntries
  <2>2. Block(f.cycle) \in Nat /\ Pos(f.cycle) \in Positions /\ Slot(Block(f.cycle)) \in Slots
        /\ f.cycle = Block(f.cycle) * W + Pos(f.cycle)
    BY <2>1, Places
  <2>3. f \in feMap => f # e
    <3> SUFFICES ASSUME f \in feMap, f = e PROVE FALSE OBVIOUS
    <3>1. Block(f.cycle) >= curBlock + 1 BY FarLater, Zenon
    <3> QED BY <1>2, <1>7, <1>11, <3>1
  <2>4. Block(f.cycle) \in Window /\ Slot(Block(f.cycle)) = i /\ Pos(f.cycle) = p
        => f.cycle = c
    <3> SUFFICES ASSUME Block(f.cycle) \in Window, Slot(Block(f.cycle)) = i, Pos(f.cycle) = p
                 PROVE  f.cycle = c
      OBVIOUS
    <3>1. Block(f.cycle) = curBlock BY <1>2, <1>8, SlotInjective, Zenon DEF Window
    <3> QED BY <2>2, <3>1, Zenon DEF c
  <2>5. CASE f = e BY <1>2, <1>4, <1>6, <1>7, <1>8, <1>11, <1>13, <2>3, <2>5, ZenonT(60)
     DEF InQueue
  <2>6. CASE f # e
    <3>1. f.cycle = c => f.obj # o BY <2>1, <2>6
    <3> QED BY <1>6, <1>8, <1>13, <2>2, <2>4, <2>6, <3>1, Zenon DEF InQueue
  <2> QED BY <2>5, <2>6, Zenon
<1>17. TypeOK'
  <2>1. elems \in Nat /\ elems > 0 BY <1>1, <1>6 DEF TypeOK, BusyInv
  <2>2. array' \in [Slots -> [Positions -> SUBSET Objs]] BY <1>1, <1>2, <1>4, <1>5 DEF TypeOK
  <2>3. occ' \in [Slots -> SUBSET Positions] BY <1>1, <1>2, <1>5, Zenon DEF TypeOK,
     OccAfter
  <2>4. now' \in 0..MaxCycle BY <1>5, <1>9, Zenon DEF c
  <2>5. feMap' = feMap /\ curBlock' = curBlock /\ busy' = FALSE /\ elems' = elems - 1
    BY <1>6
  <2>6. elems' \in Nat BY <2>1, <2>5
  <2> QED BY <1>1, <2>2, <2>3, <2>4, <2>5, <2>6, Zenon DEF TypeOK
<1>18. OccInv'
  <2> SUFFICES ASSUME NEW j \in Slots, NEW q \in Positions
               PROVE  q \in occ'[j] <=> array'[j][q] # {}
    BY DEF OccInv
  <2>1. q \in occ[j] <=> array[j][q] # {} BY <1>1 DEF OccInv
  <2> QED BY <1>3, <1>13, <1>14, <2>1, ZenonT(60)
<1>19. RingInv'
  <2> SUFFICES ASSUME NEW b \in Window, NEW q \in Positions, array'[Slot(b)][q] # {}
               PROVE  b * W + q <= MaxCycle
    BY <1>8 DEF RingInv
  <2>1. Slot(b) \in Slots BY <1>2, SlotOf DEF Window
  <2>2. array[Slot(b)][q] # {} BY <1>13, <2>1, Zenon
  <2> QED BY <1>1, <2>2 DEF RingInv
<1>20. FarInv' /\ BusyInv' BY <1>1, <1>6, Zenon DEF FarInv, BusyInv
<1>21. NowInv'
  <2>1. now' = c /\ curBlock' = curBlock BY <1>5, <1>6 DEF c
  <2>2. Block(now)' = Block(c) BY <2>1, Zenon DEF Block
  <2> QED BY <1>2, <1>7, <2>1, <2>2 DEF NowInv
<1>22. Content' = Content \ {e}
  <2>1. \A f \in QueueEntries : f \in Content' <=> InQueue(f)' BY DEF Content, InQueue, Window
  <2> QED BY <1>16, <2>1, ContentIs, Zenon DEF Content
<1>23. e \in Content /\ \A f \in Content : e.cycle <= f.cycle
  BY <1>11, <1>12, <1>15, ContentIs, Zenon DEF Content
<1>24. now' = e.cycle BY <1>5, <1>11 DEF c
<1>25. IndInv' BY <1>17, <1>18, <1>19, <1>20, <1>21 DEF IndInv
<1> HIDE DEF e
<1> QED BY <1>22, <1>23, <1>24, <1>25

(* A call of dequeue() starts with the queue as it is. *)
LEMMA StartDequeueStep ==
    ASSUME IndInv, StartDequeue
    PROVE  IndInv' /\ Content' = Content
<1>1. /\ ~busy /\ elems > 0 /\ busy' = TRUE
      /\ UNCHANGED <<array, occ, feMap, curBlock, elems, now>>
  BY DEF StartDequeue
<1>2. TypeOK'
  <2>1. busy' \in BOOLEAN BY <1>1
  <2>2. /\ array' = array /\ occ' = occ /\ feMap' = feMap /\ curBlock' = curBlock
        /\ elems' = elems /\ now' = now
    BY <1>1, Zenon
  <2> QED BY <2>1, <2>2 DEF IndInv, TypeOK
<1>3. OccInv' /\ RingInv' /\ FarInv' /\ NowInv' /\ BusyInv'
  BY <1>1 DEF IndInv, OccInv, RingInv, FarInv, NowInv, BusyInv, Window
<1>4. Content' = Content BY <1>1 DEF Content
<1> QED BY <1>2, <1>3, <1>4 DEF IndInv

(* The empty queue has the invariant. *)
LEMMA QueueInitStep == QueueInit => IndInv /\ Content = {}
<1> SUFFICES ASSUME QueueInit PROVE IndInv /\ Content = {} OBVIOUS
<1>1. TypeOK
  <2>1. /\ array \in [Slots -> [Positions -> SUBSET Objs]]
        /\ occ \in [Slots -> SUBSET Positions]
        /\ feMap \in SUBSET QueueEntries
    BY DEF QueueInit
  <2>2. curBlock \in Nat /\ elems \in Nat /\ now \in 0..MaxCycle BY CycleAssumption DEF QueueInit
  <2>3. busy \in BOOLEAN BY DEF QueueInit
  <2> QED BY <2>1, <2>2, <2>3 DEF TypeOK
<1>2. \A j \in Slots, p \in Positions : array[j][p] = {} BY DEF QueueInit
<1>3. OccInv BY <1>2 DEF QueueInit, OccInv
<1>4. Window \in SUBSET Nat BY BlocksAssumption DEF QueueInit, Window
<1>5. RingInv BY <1>2, <1>4, SlotOf DEF RingInv
<1>6. Block(now) \in Nat BY Places DEF QueueInit
<1>7. FarInv /\ NowInv /\ BusyInv BY <1>6 DEF QueueInit, FarInv, NowInv, BusyInv
<1>8. \A e \in QueueEntries : ~InQueue(e)
  <2> SUFFICES ASSUME NEW e \in QueueEntries PROVE ~InQueue(e) OBVIOUS
  <2>1. Pos(e.cycle) \in Positions /\ Slot(Block(e.cycle)) \in Slots
    BY Places, CycleAssumption DEF QueueEntries
  <2> QED BY <1>2, <2>1 DEF QueueInit, InQueue
<1>9. Content = {} BY <1>8, ContentIs DEF Content
<1> QED BY <1>1, <1>3, <1>5, <1>7, <1>9 DEF IndInv

(* A stuttering step changes nothing. *)
LEMMA QueueStutter ==
    ASSUME IndInv, UNCHANGED prioQueue
    PROVE  IndInv' /\ Content' = Content
<1>1. UNCHANGED <<array, occ, feMap, curBlock, elems, busy, now>> BY DEF prioQueue
<1>2. TypeOK' BY <1>1, Zenon DEF IndInv, TypeOK
<1>3. OccInv' /\ RingInv' /\ FarInv' /\ NowInv' /\ BusyInv'
  BY <1>1, Zenon DEF IndInv, OccInv, RingInv, FarInv, NowInv, BusyInv, Window
<1>4. Content' = Content BY <1>1 DEF Content
<1> QED BY <1>2, <1>3, <1>4 DEF IndInv

(* The invariant holds throughout. *)
THEOREM QueueInductive == QueueSpec => []IndInv
<1>1. QueueInit => IndInv BY QueueInitStep
<1>2. IndInv /\ [QueueNext]_prioQueue => IndInv'
  <2> SUFFICES ASSUME IndInv, [QueueNext]_prioQueue PROVE IndInv' OBVIOUS
  <2>1. ASSUME NEW o \in Objs, NEW c \in 0..MaxCycle, enqueue(o, c) PROVE IndInv'
    BY <2>1, EnqueueStep, Zenon
  <2>2. CASE StartDequeue BY <2>2, StartDequeueStep
  <2>3. CASE PassBlock BY <2>3, PassBlockStep
  <2>4. CASE TakeFirst BY <2>4, TakeFirstStep
  <2>5. CASE UNCHANGED prioQueue BY <2>5, QueueStutter
  <2> QED BY <2>1, <2>2, <2>3, <2>4, <2>5 DEF QueueNext
<1> QED BY <1>1, <1>2, PTL DEF QueueSpec

(* The types of prio_queue.h's fields: in particular the number of events  *)
(* never becomes negative, and no bit is set beyond the width of a block.  *)
THEOREM QueueTypes == QueueSpec => []TypeOK
<1>1. IndInv => TypeOK BY DEF IndInv
<1> QED BY <1>1, QueueInductive, PTL

(* The queue of blocks and far events implements the abstract queue: every *)
(* operation adds or takes exactly the event it should.                    *)
THEOREM QueueImplements == QueueSpec => ImplementsEventQueue
<1>1. QueueInit => Abstract!Init
  <2> SUFFICES ASSUME QueueInit PROVE Content = {} /\ now = 0 BY DEF Abstract!Init
  <2> QED BY QueueInitStep DEF QueueInit
<1>2. IndInv /\ [QueueNext]_prioQueue => [Abstract!Next]_<<Content, now>>
  <2> SUFFICES ASSUME IndInv, [QueueNext]_prioQueue
               PROVE  Abstract!Next \/ (Content' = Content /\ now' = now)
    OBVIOUS
  <2>1. ASSUME NEW o \in Objs, NEW c \in 0..MaxCycle, enqueue(o, c) PROVE Abstract!Next
    <3>1. Content' = Content \cup {[cycle |-> c, obj |-> o]} BY <2>1, EnqueueStep, Zenon
    <3>2. c >= now /\ now' = now BY <2>1 DEF enqueue
    <3>3. \A e \in Content : e.obj # o
      <4> SUFFICES ASSUME NEW e \in Content, e.obj = o PROVE FALSE OBVIOUS
      <4>1. e \in QueueEntries /\ InQueue(e) BY ContentIs DEF Content
      <4>2. Pos(e.cycle) \in Positions /\ Slot(Block(e.cycle)) \in Slots
        BY <4>1, Places, CycleAssumption DEF QueueEntries
      <4> QED BY <2>1, <4>1, <4>2 DEF enqueue, IsQueued, InRing, InQueue
    <3>4. Abstract!Enqueue(o, c) BY <3>1, <3>2, <3>3 DEF Abstract!Enqueue
    <3> QED BY <3>4 DEF Abstract!Next
  <2>2. CASE StartDequeue
    <3>1. Content' = Content BY <2>2, StartDequeueStep
    <3>2. now' = now BY <2>2 DEF StartDequeue
    <3> QED BY <3>1, <3>2
  <2>3. CASE PassBlock
    <3>1. Content' = Content BY <2>3, PassBlockStep, Zenon
    <3>2. now' = now BY <2>3 DEF PassBlock
    <3> QED BY <3>1, <3>2
  <2>4. CASE TakeFirst
    <3>1. \E e \in Content : /\ \A f \in Content : e.cycle <= f.cycle
                             /\ Content' = Content \ {e}
                             /\ now' = e.cycle
      BY <2>4, TakeFirstStep
    <3>2. Abstract!Dequeue BY <3>1 DEF Abstract!Dequeue, Abstract!Earliest
    <3> QED BY <3>2 DEF Abstract!Next
  <2>5. CASE UNCHANGED prioQueue
    <3>1. Content' = Content BY <2>5, QueueStutter
    <3> QED BY <2>5, <3>1 DEF prioQueue
  <2> QED BY <2>1, <2>2, <2>3, <2>4, <2>5 DEF QueueNext
<1> QED BY <1>1, <1>2, QueueInductive, PTL DEF QueueSpec, ImplementsEventQueue, Abstract!Spec

------------------------------------------------------------------------------
(* firstCycle().                                                           *)

(* elems counts what is queued. *)
CountInv == IsFiniteSet(Content) /\ elems = Cardinality(Content)

(* elems is the number of queued entries, which are finitely many. *)
LEMMA CountInductive == QueueSpec => []CountInv
<1>1. QueueInit => CountInv
  <2> SUFFICES ASSUME QueueInit PROVE CountInv OBVIOUS
  <2>1. Content = {} /\ elems = 0 BY QueueInitStep DEF QueueInit
  <2> QED BY <2>1, FS_EmptySet DEF CountInv
<1>2. IndInv /\ CountInv /\ [QueueNext]_prioQueue => CountInv'
  <2> SUFFICES ASSUME IndInv, CountInv, [QueueNext]_prioQueue PROVE CountInv' OBVIOUS
  <2>0. IsFiniteSet(Content) /\ elems = Cardinality(Content) BY DEF CountInv
  <2>1. ASSUME NEW o \in Objs, NEW c \in 0..MaxCycle, enqueue(o, c) PROVE CountInv'
    <3> DEFINE e == [cycle |-> c, obj |-> o]
    <3>1. e \notin Content /\ Content' = Content \cup {e} BY <2>1, EnqueueStep, Zenon
    <3>2. elems' = elems + 1 BY <2>1 DEF enqueue
    <3> HIDE DEF e
    <3>3. IsFiniteSet(Content') /\ Cardinality(Content') = Cardinality(Content) + 1
      BY <2>0, <3>1, FS_AddElement, Zenon
    <3> QED BY <2>0, <3>2, <3>3, Zenon DEF CountInv
  <2>2. CASE StartDequeue
    BY <2>0, <2>2, StartDequeueStep, Zenon DEF StartDequeue, CountInv
  <2>3. CASE PassBlock BY <2>0, <2>3, PassBlockStep, Zenon DEF PassBlock, CountInv
  <2>4. CASE TakeFirst
    <3>1. PICK e \in Content : Content' = Content \ {e} BY <2>4, TakeFirstStep, Zenon
    <3>2. elems' = elems - 1 BY <2>4 DEF TakeFirst
    <3>3. IsFiniteSet(Content') /\ Cardinality(Content') = Cardinality(Content) - 1
      BY <2>0, <3>1, FS_RemoveElement, Zenon
    <3> QED BY <2>0, <3>2, <3>3 DEF CountInv
  <2>5. CASE UNCHANGED prioQueue BY <2>0, <2>5, QueueStutter DEF prioQueue, CountInv
  <2> QED BY <2>1, <2>2, <2>3, <2>4, <2>5, Zenon DEF QueueNext
<1> QED BY <1>1, <1>2, QueueInductive, PTL DEF QueueSpec

(* A set of numbers that is not empty has a least one. *)
LEMMA LeastOf ==
    ASSUME NEW S \in SUBSET Nat, S # {}
    PROVE  Min(S) \in S /\ \A s \in S : Min(S) <= s
<1>1. \E x \in S : \A y \in S : ~(<<y, x>> \in OpToRel(<, Nat))
  BY WFMin, NatLessThanWellFounded, Zenon
<1>2. PICK x \in S : \A y \in S : ~(<<y, x>> \in OpToRel(<, Nat)) BY <1>1, Zenon
<1>3. \A y \in S : ~(y < x) BY <1>2, Zenon DEF OpToRel
<1>4. \A y \in S : x <= y BY <1>3
<1> QED BY <1>4, Zenon DEF Min

(* The least number of a set is unique. *)
LEMMA LeastIs ==
    ASSUME NEW S \in SUBSET Nat, NEW m \in S, \A s \in S : m <= s
    PROVE  Min(S) = m
<1>1. Min(S) \in S /\ \A s \in S : Min(S) <= s BY LeastOf
<1>2. Min(S) <= m /\ m <= Min(S) BY <1>1, Zenon
<1>3. Min(S) \in Nat /\ m \in Nat BY <1>1, Zenon
<1> QED BY <1>2, <1>3

(* firstCycle() returns the least cycle of all queued events, although it  *)
(* does not look at the far events when the first half of the ring has     *)
(* one.                                                                    *)
THEOREM FirstCycleIsExact == QueueSpec => []FirstCycleExact
<1>1. IndInv /\ CountInv => FirstCycleExact
  <2> SUFFICES ASSUME IndInv, CountInv, elems > 0
               PROVE  FirstCycle = Min({e.cycle : e \in Content})
    BY DEF FirstCycleExact
  <2> DEFINE S == {e.cycle : e \in Content}
             populated == {d \in Slots : occ[Slot(curBlock + d)] # {}}
  <2>1. TypeOK /\ OccInv /\ RingInv /\ FarInv BY DEF IndInv
  <2>2. curBlock \in Nat /\ B \in Nat /\ B >= 2 /\ feMap \in SUBSET QueueEntries
    BY <2>1, BlocksAssumption DEF TypeOK
  <2>3. Content # {} BY FS_EmptySet DEF CountInv
  <2>4. Content \in SUBSET QueueEntries /\ feMap \in SUBSET Content BY <2>2, Zenon DEF
     Content
  <2>5. S \in SUBSET Nat /\ S # {} BY <2>3, <2>4, CycleAssumption DEF QueueEntries
  <2>6. \A f \in Content : f \in feMap \/
          /\ Block(f.cycle) \in Nat /\ Pos(f.cycle) \in Positions /\ f.cycle \in Nat
          /\ Block(f.cycle) - curBlock \in populated
          /\ Block(f.cycle) = curBlock + (Block(f.cycle) - curBlock)
          /\ Pos(f.cycle) \in occ[Slot(Block(f.cycle))]
          /\ f.cycle = Block(f.cycle) * W + Pos(f.cycle)
    <3> SUFFICES ASSUME NEW f \in Content, f \notin feMap
                 PROVE  /\ Block(f.cycle) \in Nat /\ Pos(f.cycle) \in Positions /\ f.cycle \in Nat
                        /\ Block(f.cycle) - curBlock \in populated
                        /\ Block(f.cycle) = curBlock + (Block(f.cycle) - curBlock)
                        /\ Pos(f.cycle) \in occ[Slot(Block(f.cycle))]
                        /\ f.cycle = Block(f.cycle) * W + Pos(f.cycle)
      OBVIOUS
    <3>1. f.cycle \in Nat BY <2>4, CycleAssumption DEF QueueEntries
    <3>2. /\ Block(f.cycle) \in Nat /\ Pos(f.cycle) \in Positions
          /\ f.cycle = Block(f.cycle) * W + Pos(f.cycle) /\ Slot(Block(f.cycle)) \in Slots
      BY <3>1, Places, Zenon
    <3>3. Block(f.cycle) \in Window /\ f.obj \in array[Slot(Block(f.cycle))][Pos(f.cycle)]
      BY <2>4, ContentIs, Zenon DEF InQueue
    <3>4. Pos(f.cycle) \in occ[Slot(Block(f.cycle))] BY <2>1, <3>2, <3>3, Zenon DEF
       OccInv
    <3>5. /\ Block(f.cycle) - curBlock \in Slots
          /\ Block(f.cycle) = curBlock + (Block(f.cycle) - curBlock)
      BY <2>2, <3>2, <3>3 DEF Window, Slots
    <3> QED BY <3>1, <3>2, <3>4, <3>5, ZenonT(60)
  <2>7. CASE populated = {}
    <3>1. Content = feMap BY <2>4, <2>6, <2>7, Zenon
    <3> QED BY <2>7, <3>1, Zenon DEF FirstCycle, FarCycle
  <2>8. CASE populated # {}
    <3> DEFINE d == Min(populated)
               i == Slot(curBlock + d)
               p == Min(occ[i])
               r == RingCycle(d)
    <3>1. d \in populated /\ \A x \in populated : d <= x
      <4>1. populated \in SUBSET Nat BY <2>2, SMTT(30) DEF Slots
      <4> QED BY <2>8, <4>1, LeastOf, Zenon
    <3>2. d \in Slots /\ d \in Nat /\ curBlock + d \in Nat /\ curBlock + d \in Window
      BY <2>2, <3>1 DEF Slots, Window
    <3>3. i \in Slots /\ occ[i] # {} /\ occ[i] \in SUBSET Positions
      BY <2>1, <3>1, <3>2, SlotOf, Zenon DEF TypeOK
    <3>4. p \in occ[i] /\ \A q \in occ[i] : p <= q
      <4>1. Positions \subseteq Nat BY DEF Positions
      <4>2. occ[i] \in SUBSET Nat BY <3>3, <4>1, Zenon
      <4> QED BY <3>3, <4>2, LeastOf, Zenon
    <3>5. p \in Positions BY <3>3, <3>4, Zenon
    <3>6. r = (curBlock + d) * W + p BY DEF RingCycle
    <3> HIDE DEF d, p, r
    <3>7. r \in Nat /\ Block(r) = curBlock + d /\ Pos(r) = p BY <3>2, <3>5, <3>6,
       CycleOf, Zenon
    <3>8. r \in S
      <4>1. array[i][p] # {} BY <2>1, <3>3, <3>4, <3>5, Zenon DEF OccInv
      <4>2. PICK o \in array[i][p] : o \in Objs BY <2>1, <3>3, <3>5, <4>1, Zenon DEF
         TypeOK
      <4>3. r <= MaxCycle BY <2>1, <3>2, <3>5, <3>6, <4>1, Zenon DEF RingInv
      <4>4. [cycle |-> r, obj |-> o] \in QueueEntries BY <3>7, <4>2, <4>3, CycleAssumption DEF QueueEntries
      <4>5. InQueue([cycle |-> r, obj |-> o]) BY <3>2, <3>7, <4>2, Zenon DEF InQueue
      <4>6. [cycle |-> r, obj |-> o] \in Content BY <4>4, <4>5, ContentIs, Zenon
      <4> QED BY <4>6
    <3>9. \A f \in Content : f \in feMap \/ r <= f.cycle
      <4> SUFFICES ASSUME NEW f \in Content, f \notin feMap PROVE r <= f.cycle OBVIOUS
      <4>1. /\ Block(f.cycle) \in Nat /\ Pos(f.cycle) \in Positions /\ f.cycle \in Nat
            /\ Block(f.cycle) - curBlock \in populated
            /\ Block(f.cycle) = curBlock + (Block(f.cycle) - curBlock)
            /\ Pos(f.cycle) \in occ[Slot(Block(f.cycle))]
            /\ f.cycle = Block(f.cycle) * W + Pos(f.cycle)
        BY <2>6, ZenonT(60)
      <4>2. d <= Block(f.cycle) - curBlock BY <3>1, <4>1
      <4>3. CASE Block(f.cycle) = curBlock + d
        <5>1. p <= Pos(f.cycle) BY <3>4, <4>1, <4>3
        <5>2. (curBlock + d) * W \in Nat BY <3>2, OneMoreTimes, WidthAssumption, Zenon
        <5> DEFINE m == (curBlock + d) * W
        <5>3. r = m + p /\ f.cycle = m + Pos(f.cycle) /\ m \in Nat BY <3>6, <4>1, <4>3,
           <5>2, Zenon
        <5> HIDE DEF m
        <5> QED BY <3>5, <4>1, <5>1, <5>3 DEF Positions
      <4>4. CASE Block(f.cycle) >= curBlock + d + 1
        <5>1. (curBlock + d) * W + p < f.cycle BY <3>2, <3>5, <4>1, <4>4, LaterBlock,
           Zenon
        <5> QED BY <3>6, <3>7, <4>1, <5>1
      <4> QED BY <2>2, <3>2, <4>1, <4>2, <4>3, <4>4
    <3>10. CASE feMap = {}
      <4>1. \A s \in S : r <= s BY <3>9, <3>10, Zenon
      <4>2. Min(S) = r BY <2>5, <3>8, <4>1, LeastIs, ZenonT(60)
      <4>3. FirstCycle = r BY <2>8, <3>10 DEF FirstCycle, d, r
      <4> QED BY <4>2, <4>3
    <3>11. CASE d < Half
      <4>1. \A f \in feMap : r <= f.cycle
        <5> SUFFICES ASSUME NEW f \in feMap PROVE r <= f.cycle OBVIOUS
        <5>1. f.cycle \in Nat /\ Block(f.cycle) \in Nat BY FarLater
        <5>2. Half \in Nat /\ Half >= 1 /\ Half <= B - Half BY HalfFact
        <5>3. curBlock % Half \in 0..(Half - 1) BY <2>2, <5>2, DivMod
        <5>4. Block(f.cycle) + (curBlock % Half) >= curBlock + B BY <2>1 DEF FarInv
        <5>5. Block(f.cycle) >= curBlock + d + 1
          BY <2>2, <3>2, <3>11, <5>1, <5>2, <5>3, <5>4
        <5>6. (curBlock + d) * W + p < f.cycle BY <3>2, <3>5, <5>1, <5>5, LaterBlock,
           Zenon
        <5> QED BY <3>6, <3>7, <5>1, <5>6
      <4>2. \A s \in S : r <= s BY <3>9, <4>1, Zenon
      <4>3. Min(S) = r BY <2>5, <3>8, <4>2, LeastIs, Zenon
      <4>4. FirstCycle = r BY <2>8, <3>11 DEF FirstCycle, d, r, Half
      <4> QED BY <4>3, <4>4
    <3>12. CASE ~(d < Half) /\ feMap # {}
      <4> DEFINE F == {e.cycle : e \in feMap}
                 m == Min({r, FarCycle})
      <4>1. F \in SUBSET Nat /\ F # {} /\ F \subseteq S BY <2>4, <2>5, <3>12, Zenon
      <4>2. FarCycle \in F /\ \A s \in F : FarCycle <= s BY <4>1, LeastOf, Zenon DEF
         FarCycle
      <4>3. m \in {r, FarCycle} /\ \A s \in {r, FarCycle} : m <= s
        <5>1. {r, FarCycle} \in SUBSET Nat /\ {r, FarCycle} # {} BY <3>7, <4>1, <4>2
        <5> QED BY <5>1, LeastOf
      <4>4. FirstCycle = m BY <2>8, <3>12 DEF FirstCycle, d, r, Half
      <4> HIDE DEF m
      <4>5. m \in S /\ m <= r /\ m <= FarCycle BY <3>8, <4>1, <4>2, <4>3, Zenon
      <4>6. \A s \in S : m <= s
        <5> SUFFICES ASSUME NEW f \in Content PROVE m <= f.cycle OBVIOUS
        <5>1. f.cycle \in Nat /\ m \in Nat /\ r \in Nat /\ FarCycle \in Nat
          BY <2>5, <3>7, <4>1, <4>2, <4>5, Zenon
        <5>2. r <= f.cycle \/ FarCycle <= f.cycle BY <3>9, <4>2, Zenon
        <5> QED BY <4>5, <5>1, <5>2
      <4>7. Min(S) = m BY <2>5, <4>5, <4>6, LeastIs, Zenon
      <4> QED BY <4>4, <4>7
    <3> QED BY <3>10, <3>11, <3>12, Zenon
  <2> QED BY <2>7, <2>8, Zenon
<1> QED BY <1>1, QueueInductive, CountInductive, PTL

-----------------------------------------------------------------------------
(* The lookup port of a timing cache                                       *)

(* Nothing was granted after lastAccCycle, and lastFreeCycle, unless it is *)
(* 0, is an earlier cycle in which nothing was granted.                    *)
PortInv ==
    /\ lastAccCycle \in Nat /\ lastFreeCycle \in Nat /\ portCycle \in Nat
    /\ slots \subseteq Nat /\ clash = FALSE
    /\ \A s \in slots : s <= lastAccCycle
    /\ lastFreeCycle # 0 => /\ lastFreeCycle \notin slots
                            /\ lastFreeCycle < lastAccCycle
    /\ lastFreeCycle <= portCycle

(* A lookup with priority takes a cycle after all those granted. *)
LEMMA HighPrioStep ==
    ASSUME PortInv, NEW cycle \in 2..LastCycle, cycle >= portCycle, highPrioAccess(cycle)
    PROVE  PortInv'
<1> DEFINE slot == LookupCycle(cycle)
<1>1. /\ cycle \in Nat /\ cycle >= 2
      /\ slot \in Nat /\ slot > lastAccCycle /\ slot >= cycle
      /\ lastAccCycle < cycle - 1 => slot = cycle
  BY PortCycleAssumption DEF PortInv, LookupCycle, Later
<1>2. slot \notin slots
  BY <1>1 DEF PortInv
<1>3. /\ lastAccCycle' = slot /\ portCycle' = cycle
      /\ slots' = {s \in slots : s >= cycle - 1} \cup {slot}
      /\ clash' = FALSE
  BY <1>2, Zenon DEF PortInv, highPrioAccess, Grant
<1>4. \A s \in slots' : s \in Nat /\ s <= lastAccCycle'
  BY <1>1, <1>3 DEF PortInv
<1>5. lastFreeCycle' \in Nat /\ lastFreeCycle' <= portCycle'
  BY <1>1, <1>3 DEF PortInv, highPrioAccess
<1>6. lastFreeCycle' # 0 => lastFreeCycle' \notin slots' /\ lastFreeCycle' < lastAccCycle'
  <2>1. CASE lastAccCycle < cycle - 1
    BY <1>1, <1>3, <2>1 DEF PortInv, highPrioAccess
  <2>2. CASE ~(lastAccCycle < cycle - 1)
    BY <1>1, <1>3, <2>2 DEF PortInv, highPrioAccess
  <2> QED BY <2>1, <2>2
<1> QED BY <1>1, <1>3, <1>4, <1>5, <1>6, Zenon DEF PortInv

(* The write of a refill takes the cycle before its own: nothing is as     *)
(* late as that yet, or it is the one noted as free.                       *)
LEMMA LowPrioStep ==
    ASSUME PortInv, NEW cycle \in 2..LastCycle, cycle >= portCycle, tryLowPrioAccess(cycle)
    PROVE  PortInv'
<1>1. cycle - 1 \in Nat /\ cycle - 1 # 0 /\ cycle \in Nat
  BY PortCycleAssumption
<1>2. cycle - 1 \notin slots
  BY <1>1 DEF PortInv, tryLowPrioAccess, PortFree
<1>3. /\ lastFreeCycle' = 0 /\ portCycle' = cycle
      /\ slots' = {s \in slots : s >= cycle - 1} \cup {cycle - 1}
      /\ clash' = FALSE
  BY <1>2, Zenon DEF PortInv, tryLowPrioAccess, Grant
<1>4. lastAccCycle' \in Nat /\ lastAccCycle' >= lastAccCycle /\ lastAccCycle' >= cycle - 1
  BY <1>1 DEF PortInv, tryLowPrioAccess, Later
<1>5. \A s \in slots' : s \in Nat /\ s <= lastAccCycle'
  BY <1>1, <1>3, <1>4 DEF PortInv
<1>6. lastFreeCycle' \in Nat /\ lastFreeCycle' <= portCycle'
  BY <1>1, <1>3
<1>7. lastFreeCycle' # 0 => lastFreeCycle' \notin slots' /\ lastFreeCycle' < lastAccCycle'
  BY <1>3
<1> QED BY <1>1, <1>3, <1>4, <1>5, <1>6, <1>7, Zenon DEF PortInv

(***************************************************************************)
(* However many accesses call TimingCache::highPrioAccess and              *)
(* tryLowPrioAccess, in cycle order, no two of them are granted the port   *)
(* in the same cycle, and highPrioAccess's assertion holds.                *)
(***************************************************************************)
THEOREM PortGrantedOnce == PortSpec => []PortExclusive
<1>1. PortInit => PortInv
  BY DEF PortInit, PortInv
<1>2. PortInv /\ [PortNext]_port => PortInv'
  <2> SUFFICES ASSUME PortInv, [PortNext]_port PROVE PortInv'
    OBVIOUS
  <2>1. CASE PortNext
    BY <2>1, HighPrioStep, LowPrioStep, Zenon DEF PortNext
  <2>2. CASE UNCHANGED port
    BY <2>2 DEF PortInv, port
  <2> QED BY <2>1, <2>2
<1>3. PortInv => PortExclusive
  BY DEF PortInv, PortExclusive
<1> QED BY <1>1, <1>2, <1>3, PTL DEF PortSpec

-----------------------------------------------------------------------------
(* Simulation control                                                      *)

Counted == {p \in Procs : started[p] /\ procExited[p] # "exited"}

treeVars == <<numProcs, started, procExited, life, globalActiveProcs, dumped, panicked>>

(* Only a process that the tree has room for comes up, and it is counted   *)
(* from its start until it ends for good.                                  *)
ProcInv(p) ==
    /\ p >= numProcs => ~started[p] /\ procExited[p] = "running"
    /\ life[p] \in {"launched", "up"} => procExited[p] = "running"
    /\ life[p] = "launched" => p < numProcs
    /\ life[p] = "up" => started[p]
    /\ procExited[p] = "exited" => life[p] \in {"gone", "waiting"}
    /\ life[p] = "waiting" => p = 0

(* The part of the invariant on the process tree that holds until a panic: *)
(* the master counts the started processes that have not ended for good.   *)
TreeCore ==
    /\ globalActiveProcs = Cardinality(Counted)
    /\ started[0]
    /\ \A p \in Procs : ProcInv(p)
    /\ dumped => Counted = {} /\ life[0] = "gone"

TreeInv ==
    /\ started \in [Procs -> BOOLEAN]
    /\ procExited \in [Procs -> {"running", "restart", "exited"}]
    /\ life \in [Procs -> {"absent", "launched", "up", "waiting", "gone"}]
    /\ numProcs \in Nat /\ panicked \in BOOLEAN /\ dumped \in BOOLEAN
    /\ panicked => life = KilledAll
    /\ ~panicked => TreeCore

(* At most one control thread is in the handshake with the end of a phase, *)
(* which is then in the callback of that thread's event.                   *)
SyncInv ==
    /\ arrived \in [Procs -> BOOLEAN] /\ left \in [Procs -> BOOLEAN]
    /\ ctl \in [Procs -> {"none", "init", "toggle", "woken", "insert", "wait", "enter"}]
    /\ \A p \in Procs :
         /\ arrived[p] \/ left[p] \/ ctl[p] = "enter" => tick = "sync" /\ cur.proc = p
         /\ left[p] => ~arrived[p] /\ ctl[p] # "enter"
         /\ arrived[p] => ctl[p] # "enter"

(* Counting one process more or less. *)
LEMMA CountedFinite == IsFiniteSet(Counted)
  BY ProcsAssumption, FS_Subset DEF Counted

(* A process that a step leaves alone. *)
LEMMA ProcKept ==
  ASSUME NEW p \in Procs, ProcInv(p), numProcs' = numProcs, started'[p] = started[p],
         procExited'[p] = procExited[p], life'[p] = life[p]
  PROVE  ProcInv(p)'
  BY ZenonT(20) DEF ProcInv

LEMMA TreeInit == Init => TreeInv
  <1> SUFFICES ASSUME Init PROVE TreeInv
    OBVIOUS
  <1>1. /\ started = [p \in Procs |-> p = 0] /\ procExited = [p \in Procs |-> "running"]
        /\ life = [p \in Procs |-> IF p = 0 THEN "up"
                                    ELSE IF p \in conf.procs THEN "launched" ELSE "absent"]
    BY DEF Init
  <1>2. globalActiveProcs = 1 /\ dumped = FALSE /\ panicked = FALSE
    BY DEF Init
  <1>3. /\ 0 \in conf.procs /\ conf.procs \subseteq Procs /\ IsFiniteSet(conf.procs)
        /\ conf.procs = 0 .. (numProcs - 1)
    BY ProcsAssumption, ZenonT(60) DEF Init
  <1>4. numProcs \in Nat /\ numProcs > 0
    BY <1>3, FS_CardinalityType DEF Init
  <1>5. Counted = {0}
    BY <1>1, <1>3, Zenon DEF Counted
  <1>6. Cardinality(Counted) = 1
    BY <1>5, FS_Singleton, Zenon
  <1>7. \A p \in Procs : life[p] = "launched" => p < numProcs
    BY <1>1, <1>3, <1>4, ProcsAssumption
  <1>8. \A p \in Procs : p >= numProcs => ~started[p] /\ procExited[p] = "running"
    <2> TAKE p \in Procs
    <2> HAVE p >= numProcs
    <2>1. p # 0
      BY <1>4, ProcsAssumption
    <2>2. started[p] = (p = 0) /\ procExited[p] = "running"
      BY <1>1, ZenonT(20)
    <2> QED
      BY <2>1, <2>2, ZenonT(20)
  <1>9. 0 \in Procs /\ \A p \in Procs : /\ started[p] = (p = 0) /\ procExited[p] = "running"
                                       /\ life[p] # "waiting" /\ (life[p] = "up" => p = 0)
    BY <1>1, <1>3
  <1>10. \A p \in Procs : ProcInv(p)
    BY <1>7, <1>8, <1>9, ZenonT(20) DEF ProcInv
  <1>11. TreeCore
    BY <1>2, <1>6, <1>9, <1>10, ZenonT(20) DEF TreeCore
  <1> QED
    BY <1>1, <1>2, <1>4, <1>11, Zenon DEF TreeInv

LEMMA TreeUnchanged == TreeInv /\ UNCHANGED treeVars => TreeInv'
  BY DEF TreeInv, TreeCore, ProcInv, treeVars, Counted, KilledAll

(* A first start counts the process, or finds that the others are gone;    *)
(* a start after a restart leaves the count alone.                         *)
LEMMA StartKeeps == ASSUME TreeInv, NEW p \in Procs, Start(p) PROVE TreeInv'
  <1>1. ~panicked /\ TreeCore /\ life[p] = "launched" /\ procExited[p] = "running" /\ p < numProcs
    BY Zenon DEF TreeInv, TreeCore, ProcInv, Start, KilledAll
  <1>2. UNCHANGED <<numProcs, procExited, dumped>>
    BY Zenon DEF Start
  <1>3. ~(p >= numProcs)
    <2>1. p \in Nat /\ numProcs \in Nat
      BY ProcsAssumption, ZenonT(20) DEF TreeInv
    <2> QED
      BY ONLY <1>1, <2>1
  <1>4. CASE started[p]
    <2>1. UNCHANGED <<started, globalActiveProcs, panicked>> /\ life' = [life EXCEPT ![p] = "up"]
      BY <1>1, <1>4, Zenon DEF Start, notifyStart, counts, TreeInv
    <2>2. Counted' = Counted
      BY <1>2, <2>1, Zenon DEF Counted
    <2>3. ~dumped
      BY <1>1, <1>4, Zenon DEF TreeCore, Counted
    <2>4. life'[p] = "up" /\ \A q \in Procs : q # p => life'[q] = life[q]
      BY <2>1 DEF TreeInv
    <2>5. ProcInv(p)'
      BY <1>1, <1>2, <1>4, <1>3, <2>1, <2>4, ZenonT(20) DEF ProcInv
    <2>6. \A q \in Procs : ProcInv(q)'
      BY <1>1, <1>2, <2>1, <2>4, <2>5, ProcKept, ZenonT(20) DEF TreeCore
    <2>7. TreeCore'
      BY <1>1, <1>2, <2>1, <2>2, <2>3, <2>6, ZenonT(20) DEF TreeCore
    <2> QED
      BY <1>1, <1>2, <2>1, <2>7, Zenon DEF TreeInv
  <1>5. CASE ~started[p]
    <2>1. /\ started' = [started EXCEPT ![p] = TRUE]
          /\ globalActiveProcs' = globalActiveProcs + 1
          /\ panicked' = (globalActiveProcs = 0)
      BY <1>5, Zenon DEF Start, notifyStart
    <2>2. started' \in [Procs -> BOOLEAN]
      BY <2>1, Zenon DEF TreeInv
    <2>3. CASE globalActiveProcs = 0
      <3>1. panicked' /\ life' = KilledAll /\ panicked' \in BOOLEAN
        BY <2>1, <2>3, Zenon DEF Start
      <3>2. KilledAll' = KilledAll /\ KilledAll \in [Procs -> {"gone"}]
        BY DEF KilledAll
      <3> QED
        BY <1>2, <2>2, <3>1, <3>2, Zenon DEF TreeInv
    <2>4. CASE globalActiveProcs # 0
      <3>1. ~panicked' /\ panicked' \in BOOLEAN /\ life' = [life EXCEPT ![p] = "up"]
        BY <2>1, <2>4, Zenon DEF Start
      <3>2. Counted' = Counted \cup {p} /\ p \notin Counted
        BY <1>1, <1>2, <1>5, <2>1 DEF Counted, TreeInv
      <3>3. Cardinality(Counted') = Cardinality(Counted) + 1
        BY <3>2, CountedFinite, FS_AddElement, Zenon
      <3>4. ~dumped
        BY <1>1, <2>4, FS_EmptySet DEF TreeCore
      <3>5. \A q \in Procs : q # p => started'[q] = started[q] /\ life'[q] = life[q]
        BY <2>1, <3>1 DEF TreeInv
      <3>6. started'[p] /\ life'[p] = "up"
        BY <2>1, <3>1, Zenon DEF TreeInv
      <3>7. started'[0]
        BY <1>1, <3>5, <3>6, ProcsAssumption DEF TreeCore
      <3>8. ProcInv(p)'
        BY <1>1, <1>2, <1>3, <3>6, ZenonT(20) DEF ProcInv
      <3>9. \A q \in Procs : ProcInv(q)'
        BY <1>1, <1>2, <3>5, <3>8, ProcKept, ZenonT(20) DEF TreeCore
      <3>10. globalActiveProcs' = Cardinality(Counted')
        BY <1>1, <2>1, <3>3, ZenonT(20) DEF TreeCore
      <3>11. TreeCore'
        BY <1>2, <3>4, <3>7, <3>9, <3>10, ZenonT(20) DEF TreeCore
      <3> QED
        BY <1>2, <2>2, <3>1, <3>11 DEF TreeInv
    <2> QED
      BY <2>3, <2>4, Zenon
  <1> QED
    BY <1>4, <1>5, Zenon

(* A child that the configuration does not name has never been started. *)
LEMMA ForkKeeps == ASSUME TreeInv, NEW p \in Procs, Fork(p) PROVE TreeInv'
  <1>1. ~panicked /\ TreeCore /\ numProcs \in Procs /\ ~started[numProcs] /\ procExited[numProcs] = "running"
    BY DEF TreeInv, TreeCore, ProcInv, Fork, KilledAll
  <1>2. /\ UNCHANGED <<started, procExited, globalActiveProcs, dumped, panicked>>
        /\ life' = [life EXCEPT ![numProcs] = "launched"]
        /\ numProcs' = numProcs + 1
    BY Zenon DEF Fork, counts, ending
  <1>3. Counted' = Counted
    BY <1>2, Zenon DEF Counted
  <1>4. numProcs # 0
    BY <1>1, Zenon DEF TreeCore
  <1>5. life'[numProcs] = "launched" /\ \A q \in Procs : q # numProcs => life'[q] = life[q]
    BY <1>1, <1>2, Zenon DEF TreeInv
  <1>6. numProcs \in Nat /\ Procs \subseteq Nat
    BY ProcsAssumption DEF TreeInv
  <1>7. ASSUME NEW q \in Procs, q = numProcs PROVE ProcInv(q)'
    <2>1. ~(q >= numProcs') /\ q < numProcs'
      BY ONLY <1>2, <1>6, <1>7
    <2> QED
      BY <1>1, <1>2, <1>5, <1>7, <2>1, ZenonT(20) DEF ProcInv
  <1>8. ASSUME NEW q \in Procs, q # numProcs PROVE ProcInv(q)'
    <2>1. ProcInv(q) /\ life'[q] = life[q]
      BY <1>1, <1>5, <1>8, Zenon DEF TreeCore
    <2>2. (q >= numProcs' => q >= numProcs) /\ (q < numProcs => q < numProcs')
      BY <1>2, <1>6
    <2> QED
      BY <1>2, <2>1, <2>2, ZenonT(20) DEF ProcInv
  <1>9. (dumped => life'[0] = life[0]) /\ 0 \in Procs
    BY <1>4, <1>5, ProcsAssumption
  <1>10. \A q \in Procs : ProcInv(q)'
    BY <1>7, <1>8, ZenonT(20)
  <1>11. TreeCore'
    BY <1>1, <1>2, <1>3, <1>9, <1>10, ZenonT(20) DEF TreeCore
  <1> QED
    BY <1>1, <1>2, <1>11 DEF TreeInv

(* A process that ends is still counted if it is to be restarted. *)
LEMMA SimEndKeeps == ASSUME TreeInv, NEW p \in Procs, SimEnd(p) PROVE TreeInv'
  <1>1. ~panicked /\ TreeCore /\ life[p] = "up" /\ started[p] /\ procExited[p] = "running" /\ p \in Counted
    BY Zenon DEF TreeInv, TreeCore, ProcInv, SimEnd, KilledAll, Counted
  <1>2. /\ UNCHANGED <<numProcs, started, dumped, panicked>>
        /\ life' = [life EXCEPT ![p] = IF p = 0 THEN "waiting" ELSE "gone"]
    BY DEF SimEnd, ending
  <1>3. ~dumped
    BY <1>1 DEF TreeCore
  <1>4. ~(p >= numProcs) /\ p < numProcs
    <2>1. ~(p >= numProcs)
      BY <1>1, ZenonT(20) DEF TreeCore, ProcInv
    <2>2. p \in Nat /\ numProcs \in Nat
      BY ProcsAssumption, ZenonT(20) DEF TreeInv
    <2> QED
      BY ONLY <2>1, <2>2
  <1>5. /\ p = 0 => life'[p] = "waiting"
        /\ p # 0 => life'[p] = "gone"
        /\ \A q \in Procs : q # p => life'[q] = life[q]
    BY <1>2, Zenon DEF TreeInv
  <1>6. CASE procExited' = [procExited EXCEPT ![p] = "restart"] /\ UNCHANGED globalActiveProcs
    <2>1. Counted' = Counted
      BY <1>1, <1>2, <1>6, Zenon DEF Counted, TreeInv
    <2>2. procExited'[p] = "restart" /\ \A q \in Procs : q # p => procExited'[q] = procExited[q]
      BY <1>6 DEF TreeInv
    <2>3. ProcInv(p)'
      <3>1. CASE p = 0
        BY <1>2, <1>4, <1>5, <2>2, <3>1, ZenonT(20) DEF ProcInv
      <3>2. CASE p # 0
        BY <1>2, <1>4, <1>5, <2>2, <3>2, ZenonT(20) DEF ProcInv
      <3> QED
        BY <3>1, <3>2, ZenonT(20)
    <2>4. \A q \in Procs : ProcInv(q)'
      BY <1>1, <1>2, <1>5, <2>2, <2>3, ProcKept, ZenonT(20) DEF TreeCore
    <2>5. TreeCore'
      BY <1>1, <1>2, <1>3, <1>6, <2>1, <2>4, ZenonT(20) DEF TreeCore
    <2> QED
      BY <1>1, <1>2, <1>6, <2>5, Zenon DEF TreeInv
  <1>7. CASE procExited' = [procExited EXCEPT ![p] = "exited"] /\ globalActiveProcs' = globalActiveProcs - 1
    <2>1. Counted' = Counted \ {p}
      BY <1>1, <1>2, <1>7, Zenon DEF Counted, TreeInv
    <2>2. Cardinality(Counted') = Cardinality(Counted) - 1
      BY <1>1, <2>1, CountedFinite, FS_RemoveElement, Zenon
    <2>3. procExited'[p] = "exited" /\ \A q \in Procs : q # p => procExited'[q] = procExited[q]
      BY <1>7 DEF TreeInv
    <2>4. ProcInv(p)'
      <3>1. CASE p = 0
        BY <1>2, <1>4, <1>5, <2>3, <3>1, ZenonT(20) DEF ProcInv
      <3>2. CASE p # 0
        BY <1>2, <1>4, <1>5, <2>3, <3>2, ZenonT(20) DEF ProcInv
      <3> QED
        BY <3>1, <3>2, ZenonT(20)
    <2>5. \A q \in Procs : ProcInv(q)'
      BY <1>1, <1>2, <1>5, <2>3, <2>4, ProcKept, ZenonT(20) DEF TreeCore
    <2>6. globalActiveProcs' = Cardinality(Counted')
      BY <1>1, <1>7, <2>2, ZenonT(20) DEF TreeCore
    <2>7. TreeCore'
      BY <1>1, <1>2, <1>3, <2>5, <2>6, ZenonT(20) DEF TreeCore
    <2> QED
      BY <1>1, <1>2, <1>7, <2>7, Zenon DEF TreeInv
  <1> QED
    BY <1>6, <1>7, Zenon DEF SimEnd, notifyEnd, LeaveTree

(* The master dumps the statistics when it counts nobody. *)
LEMMA DumpStatsKeeps == ASSUME TreeInv, DumpStats PROVE TreeInv'
  <1>1. ~panicked /\ TreeCore
    BY ProcsAssumption DEF TreeInv, DumpStats, KilledAll
  <1>2. /\ UNCHANGED <<numProcs, started, procExited, globalActiveProcs, panicked>>
        /\ life' = [life EXCEPT ![0] = "gone"] /\ dumped' = TRUE
    BY DEF DumpStats, counts
  <1>3. Counted = {} /\ Counted' = Counted
    BY <1>1, <1>2, CountedFinite, FS_EmptySet DEF DumpStats, TreeCore, Counted
  <1>4. 0 \in Procs /\ life'[0] = "gone" /\ \A q \in Procs : q # 0 => life'[q] = life[q]
    BY <1>2, ProcsAssumption DEF TreeInv
  <1>5. ProcInv(0)'
    BY <1>1, <1>2, <1>4, ZenonT(20) DEF TreeCore, ProcInv
  <1>6. \A q \in Procs : ProcInv(q)'
    BY <1>1, <1>2, <1>4, <1>5, ProcKept, ZenonT(20) DEF TreeCore
  <1>7. TreeCore'
    BY <1>1, <1>2, <1>3, <1>4, <1>6, ZenonT(20) DEF TreeCore
  <1> QED
    BY <1>1, <1>2, <1>7, Zenon DEF TreeInv

LEMMA RestartKeeps == ASSUME TreeInv, NEW p \in Procs, Restart(p) PROVE TreeInv'
  <1>1. ~panicked /\ TreeCore /\ procExited[p] = "restart"
    BY Zenon DEF TreeInv, Restart
  <1>2. /\ UNCHANGED <<numProcs, started, globalActiveProcs, dumped, panicked>>
        /\ life' = [life EXCEPT ![p] = "launched"]
        /\ procExited' = [procExited EXCEPT ![p] = "running"]
    BY DEF Restart, counts, ending
  <1>3. Counted' = Counted
    BY <1>1, <1>2 DEF Counted, TreeInv
  <1>4. ~(p >= numProcs) /\ p < numProcs
    <2>1. ~(p >= numProcs)
      BY <1>1, ZenonT(20) DEF TreeCore, ProcInv
    <2>2. p \in Nat /\ numProcs \in Nat
      BY ProcsAssumption, ZenonT(20) DEF TreeInv
    <2> QED
      BY ONLY <2>1, <2>2
  <1>5. dumped => p # 0
    BY <1>1 DEF TreeCore, Counted
  <1>6. /\ life'[p] = "launched" /\ procExited'[p] = "running"
        /\ \A q \in Procs : q # p => life'[q] = life[q] /\ procExited'[q] = procExited[q]
    BY <1>2 DEF TreeInv
  <1>7. ProcInv(p)'
    BY <1>1, <1>2, <1>4, <1>6, ZenonT(20) DEF ProcInv
  <1>8. \A q \in Procs : ProcInv(q)'
    BY <1>1, <1>2, <1>6, <1>7, ProcKept, ZenonT(20) DEF TreeCore
  <1>9. dumped => life'[0] = life[0]
    BY <1>5, <1>6, ProcsAssumption
  <1>10. TreeCore'
    BY <1>1, <1>2, <1>3, <1>8, <1>9, ZenonT(20) DEF TreeCore
  <1> QED
    BY <1>1, <1>2, <1>10, Zenon DEF TreeInv

LEMMA TickPanicKeeps == ASSUME TreeInv, TickPanic PROVE TreeInv'
  BY DEF TreeInv, TickPanic, KilledAll

(* Every other step leaves the tree alone. *)
LEMMA TreeNext == TreeInv /\ [Next]_vars => TreeInv'
  <1> SUFFICES ASSUME TreeInv, [Next]_vars PROVE TreeInv'
    BY Zenon
  <1>1. ASSUME NEW p \in Procs, Process(p) PROVE TreeInv'
    <2>1. CASE Start(p)
      BY <2>1, StartKeeps
    <2>2. CASE Fork(p)
      BY <2>2, ForkKeeps, Zenon
    <2>3. CASE ThreadExit(p) \/ CtlTimeout(p) \/ ProgramEnds(p) \/ FFIAdvance(p)
      BY <2>3, SimEndKeeps, Zenon DEF ThreadExit, CtlTimeout, ProgramEnds, FFIAdvance
    <2>4. CASE Restart(p)
      BY <2>4, RestartKeeps
    <2>5. CASE Toggle(p) \/ Control(p)
      <3>1. UNCHANGED treeVars
        BY <2>5, Zenon DEF Toggle, Control, CtlLock, CtlExit, CtlEntry, CtlInsert,
           CtlArrive, CtlEnter, tree, counts, ending, treeVars
      <3> QED
        BY <3>1, TreeUnchanged, Zenon
    <2>6. CASE \/ Join(p) \/ RoiBegin(p) \/ RoiEnd(p) \/ Heartbeat(p) \/ FFIExit(p)
               \/ FFITrackNFFInterval(p)
      <3>1. UNCHANGED treeVars
        BY <2>6, Zenon DEF Join, RoiBegin, RoiEnd, Heartbeat, FFIExit,
           FFITrackNFFInterval, tree, counts, ending, treeVars
      <3> QED
        BY <3>1, TreeUnchanged, Zenon
    <2> QED
      BY <1>1, <2>1, <2>2, <2>3, <2>4, <2>5, <2>6, Zenon DEF Process, Program
  <1>2. CASE PhaseEnds \/ (Ticking /\ ~TickPanic)
    <2>1. UNCHANGED treeVars
      BY <1>2, Zenon DEF PhaseEnds, Ticking, CheckForTermination, TickStart,
         SyncCallback, SyncReturn, DumpCallback, AdaptiveWait, AdaptiveFire, TickDone,
         NextPhase, tree, counts, ending, treeVars
    <2> QED
      BY <2>1, TreeUnchanged, Zenon
  <1>3. CASE TickPanic
    BY <1>3, TickPanicKeeps
  <1>4. CASE DumpStats
    BY <1>4, DumpStatsKeeps
  <1>5. CASE UNCHANGED vars
    <2>1. UNCHANGED treeVars
      BY <1>5 DEF vars, tree, counts, ending, treeVars
    <2> QED
      BY <2>1, TreeUnchanged, Zenon
  <1> QED
    BY <1>1, <1>2, <1>3, <1>4, <1>5, Zenon DEF Next

(* Whatever the processes do, in every configuration: when the master has  *)
(* dumped the final statistics (SimEnd), every process that ever started   *)
(* has ended for good.                                                     *)
THEOREM StatsAreLast == Spec => []StatsLast
  <1>1. TreeInv => StatsLast
    BY ProcsAssumption DEF TreeInv, TreeCore, ProcInv, StatsLast, Counted
  <1> QED
    BY <1>1, TreeInit, TreeNext, PTL DEF Spec

-----------------------------------------------------------------------------
syncVars == <<arrived, left, ctl, tick, cur>>

LEMMA SyncInit == Init => SyncInv
  <1> SUFFICES ASSUME Init PROVE SyncInv
    BY Zenon
  <1>1. /\ arrived = [p \in Procs |-> FALSE] /\ left = [p \in Procs |-> FALSE]
        /\ ctl = [p \in Procs |-> IF p = 0 THEN "init" ELSE "none"]
    BY Zenon DEF Init
  <1>2. /\ arrived \in [Procs -> BOOLEAN] /\ left \in [Procs -> BOOLEAN]
        /\ ctl \in [Procs -> {"init", "none"}]
    BY ONLY <1>1
  <1>3. \A p \in Procs : ~arrived[p] /\ ~left[p] /\ ctl[p] # "enter"
    BY ONLY <1>1
  <1>4. ctl \in [Procs -> {"none", "init", "toggle", "woken", "insert", "wait", "enter"}]
    BY ONLY <1>2, Zenon
  <1> QED
    BY <1>2, <1>3, <1>4, ZenonT(20) DEF SyncInv

LEMMA SyncUnchanged == SyncInv /\ UNCHANGED syncVars => SyncInv'
  BY Zenon DEF SyncInv, syncVars

(* Steps of the phase end other than the callback of a SyncEvent: nobody   *)
(* is in the handshake before or after them.                               *)
LEMMA SyncTick ==
  ASSUME SyncInv, tick # "sync", tick' # "sync", UNCHANGED <<arrived, left, ctl>>
  PROVE  SyncInv'
  BY DEF SyncInv

LEMMA SyncNext == SyncInv /\ [Next]_vars => SyncInv'
  <1> SUFFICES ASSUME SyncInv, [Next]_vars PROVE SyncInv'
    BY Zenon
  <1>1. ASSUME NEW p \in Procs, Process(p) PROVE SyncInv'
    <2>1. CASE Start(p)
      BY <2>1, Zenon DEF Start, SyncInv, phase
    <2>2. CASE CtlLock(p)
      BY <2>2, Zenon DEF CtlLock, CtlAt, SyncInv, phase
    <2>3. CASE CtlExit(p)
      BY <2>3, Zenon DEF CtlExit, CtlAt, SyncInv, phase
    <2>4. CASE CtlEntry(p)
      BY <2>4, Zenon DEF CtlEntry, CtlAt, SyncInv, phase
    <2>5. CASE CtlInsert(p)
      BY <2>5, Zenon DEF CtlInsert, CtlAt, SyncInv, phase
    <2>6. CASE CtlArrive(p)
      BY <2>6, Zenon DEF CtlArrive, CtlAt, SyncInv, phase
    <2>7. CASE CtlEnter(p)
      BY <2>7, Zenon DEF CtlEnter, CtlAt, SyncInv, phase
    <2>8. CASE \/ Fork(p) \/ Restart(p) \/ Toggle(p) \/ ThreadExit(p) \/ CtlTimeout(p)
               \/ ProgramEnds(p) \/ FFIAdvance(p)
      <3>1. UNCHANGED syncVars
        BY <2>8, Zenon DEF Fork, Restart, Toggle, ThreadExit, CtlTimeout, ProgramEnds,
           FFIAdvance, SimEnd, phase, control, syncVars
      <3> QED
        BY <3>1, SyncUnchanged, Zenon
    <2>9. CASE \/ Join(p) \/ RoiBegin(p) \/ RoiEnd(p) \/ Heartbeat(p) \/ FFIExit(p)
               \/ FFITrackNFFInterval(p)
      <3>1. UNCHANGED syncVars
        BY <2>9, Zenon DEF Join, RoiBegin, RoiEnd, Heartbeat, FFIExit,
           FFITrackNFFInterval, phase, control, syncVars
      <3> QED
        BY <3>1, SyncUnchanged, Zenon
    <2> QED
      BY <1>1, <2>1, <2>2, <2>3, <2>4, <2>5, <2>6, <2>7, <2>8, <2>9, ZenonT(60) DEF
         Process, Program, Control
  <1>2. CASE PhaseEnds \/ CheckForTermination \/ TickStart \/ TickPanic \/ TickDone \/ NextPhase
    <2>1. tick # "sync" /\ tick' # "sync" /\ UNCHANGED <<arrived, left, ctl>>
      BY <1>2, Zenon DEF PhaseEnds, CheckForTermination, TickStart, TickPanic, TickDone,
         NextPhase, control
    <2> QED
      BY <2>1, SyncTick, Zenon
  <1>3. CASE DumpCallback \/ AdaptiveWait \/ AdaptiveFire \/ DumpStats \/ UNCHANGED vars
    <2>1. UNCHANGED syncVars
      BY <1>3, Zenon DEF DumpCallback, AdaptiveWait, AdaptiveFire, DumpStats, vars,
         phase, control, syncVars
    <2> QED
      BY <2>1, SyncUnchanged, Zenon
  <1>4. CASE SyncCallback
    <2>1. /\ tick = "loop" /\ tick' = "sync" /\ UNCHANGED <<left, ctl>>
          /\ arrived' = [arrived EXCEPT ![cur'.proc] = TRUE]
      BY <1>4, Zenon DEF SyncCallback, TickEvent
    <2> QED
      BY <2>1, Zenon DEF SyncInv
  <1>5. CASE SyncReturn
    BY <1>5, Zenon DEF SyncReturn, SyncInv
  <1> QED
    BY <1>1, <1>2, <1>3, <1>4, <1>5 DEF Next, Ticking

FFType == inFastForward \in [Procs -> BOOLEAN]

LEMMA FFNext == FFType /\ [Next]_vars => FFType'
  <1> SUFFICES ASSUME FFType, [Next]_vars PROVE FFType'
    OBVIOUS
  <1> USE DEF FFType
  <1>1. ASSUME NEW p \in Procs, Process(p) PROVE FFType'
    <2>1. CASE ThreadExit(p) \/ CtlTimeout(p) \/ ProgramEnds(p) \/ FFIAdvance(p)
      BY <2>1, Zenon DEF ThreadExit, CtlTimeout, ProgramEnds, FFIAdvance, SimEnd,
         notifyEnd, exitFastForward
    <2>2. CASE Start(p) \/ Fork(p) \/ Restart(p) \/ Toggle(p)
      BY <2>2, Zenon DEF Start, Fork, Restart, Toggle, tree
    <2>3. CASE Control(p)
      BY <2>3, Zenon DEF Control, CtlLock, CtlExit, CtlEntry, CtlInsert, CtlArrive,
         CtlEnter, enterFastForward, exitFastForward, tree
    <2>4. CASE \/ Join(p) \/ RoiBegin(p) \/ RoiEnd(p) \/ Heartbeat(p) \/ FFIExit(p)
               \/ FFITrackNFFInterval(p)
      BY <2>4, Zenon DEF Join, RoiBegin, RoiEnd, Heartbeat, FFIExit,
         FFITrackNFFInterval, enterFastForward, exitFastForward, tree
    <2> QED
      BY <1>1, <2>1, <2>2, <2>3, <2>4 DEF Process, Program
  <1>2. CASE AdaptiveFire
    BY <1>2, Zenon DEF AdaptiveFire, enterFastForward
  <1>3. CASE \/ PhaseEnds \/ CheckForTermination \/ TickStart \/ SyncCallback \/ SyncReturn
             \/ DumpCallback \/ AdaptiveWait \/ TickPanic \/ TickDone \/ NextPhase \/ DumpStats
             \/ UNCHANGED vars
    BY <1>3, Zenon DEF PhaseEnds, CheckForTermination, TickStart, SyncCallback,
       SyncReturn, DumpCallback, AdaptiveWait, TickPanic, TickDone, NextPhase,
       DumpStats, vars, tree
  <1> QED
    BY <1>1, <1>2, <1>3 DEF Next, Ticking

(* The steps of a process that make one enter fast-forward.  A child made  *)
(* on the fly may be in it from the start, but has not started yet.        *)
LEMMA EntryOfProcess ==
  ASSUME TreeInv, SyncInv, FFType, NEW p \in Procs, Process(p),
         NEW q \in Procs, started[q], getSyncedFastForward(q), ~inFastForward[q], inFastForward'[q]
  PROVE  tick = "sync"
  <1>1. CASE CtlEnter(p)
    BY <1>1, Zenon DEF CtlEnter, CtlAt, enterFastForward, FFType, SyncInv
  <1>2. CASE RoiEnd(p)
    BY <1>2, Zenon DEF RoiEnd, enterFastForward, FFType
  <1>3. CASE Fork(p)
    <2>1. ~started[numProcs] /\ numProcs \in Procs
      BY <1>3 DEF Fork, TreeInv, TreeCore, ProcInv, KilledAll
    <2>2. inFastForward' = [inFastForward EXCEPT ![numProcs] = inFastForward[p]]
      BY <1>3, Zenon DEF Fork
    <2> QED
      BY <2>1, <2>2, ZenonT(60) DEF FFType
  <1>4. CASE \/ ThreadExit(p) \/ CtlTimeout(p) \/ ProgramEnds(p) \/ FFIAdvance(p)
             \/ RoiBegin(p) \/ CtlExit(p) \/ FFIExit(p)
    BY <1>4, Zenon DEF ThreadExit, CtlTimeout, ProgramEnds, FFIAdvance, SimEnd,
       notifyEnd, RoiBegin, CtlExit, FFIExit, exitFastForward, FFType
  <1>5. CASE \/ Start(p) \/ Restart(p) \/ Toggle(p) \/ CtlLock(p) \/ CtlEntry(p) \/ CtlInsert(p)
             \/ CtlArrive(p) \/ Join(p) \/ Heartbeat(p) \/ FFITrackNFFInterval(p)
    BY <1>5, Zenon DEF Start, Restart, Toggle, CtlLock, CtlEntry, CtlInsert, CtlArrive,
       Join, Heartbeat, FFITrackNFFInterval, tree
  <1> QED
    BY <1>1, <1>2, <1>3, <1>4, <1>5, Zenon DEF Process, Control, Program

(* In every configuration a started process whose fast-forwarding pauses   *)
(* the others enters it only while EndOfPhaseActions is in a callback.     *)
THEOREM SyncedEntryOnlyAtEnd == Spec => SyncedEntryAtEnd
  <1> DEFINE Entry == \A p \in Procs :
                        started[p] /\ getSyncedFastForward(p) /\ ~inFastForward[p] /\ inFastForward'[p]
                          => tick \in {"sync", "loop"}
  <1>1. TreeInv /\ SyncInv /\ FFType /\ [Next]_vars => [Entry]_vars
    <2> SUFFICES ASSUME TreeInv, SyncInv, FFType, Next,
                        NEW q \in Procs, started[q], getSyncedFastForward(q),
                        ~inFastForward[q], inFastForward'[q]
                 PROVE  tick \in {"sync", "loop"}
      BY Zenon
    <2>1. CASE \E p \in Procs : Process(p)
      BY <2>1, EntryOfProcess, Zenon
    <2>2. CASE AdaptiveFire
      BY <2>2, Zenon DEF AdaptiveFire, TickEvent
    <2>3. CASE \/ PhaseEnds \/ CheckForTermination \/ TickStart \/ SyncCallback \/ SyncReturn
               \/ DumpCallback \/ AdaptiveWait \/ TickPanic \/ TickDone \/ NextPhase \/ DumpStats
      BY <2>3, Zenon DEF PhaseEnds, CheckForTermination, TickStart, SyncCallback,
         SyncReturn, DumpCallback, AdaptiveWait, TickPanic, TickDone, NextPhase,
         DumpStats, tree
    <2> QED
      BY <2>1, <2>2, <2>3, Zenon DEF Next, Ticking
  <1>2. ASSUME Init PROVE FFType
    <2>1. inFastForward = [p \in Procs |-> p \in conf.startFF]
      BY <1>2, Zenon DEF Init
    <2> QED
      BY <2>1 DEF FFType
  <1> QED
    BY <1>1, <1>2, TreeInit, TreeNext, SyncInit, SyncNext, FFNext, PTL DEF Spec, SyncedEntryAtEnd
=============================================================================
