------------------------------ MODULE PrioQueue ------------------------------
(***************************************************************************)
(* The two-level priority queue of the weave phase (prio_queue.h): a ring  *)
(* of B blocks of W cycles each for the events of the next B * W cycles,   *)
(* and a sorted map for the events beyond.  Every B / 2 blocks the events  *)
(* that came within reach move from the map to the ring.  B is 1024 and W  *)
(* is 64 in the code.                                                      *)
(*                                                                         *)
(* An operation has the queue to itself: the bound phase enqueues under    *)
(* the lock of the domain, the weave phase has one thread per domain.  The *)
(* loop of dequeue() is one step per block all the same.  The list of a    *)
(* cycle is a set: nobody relies on the order of events of one cycle.      *)
(***************************************************************************)
EXTENDS Naturals, FiniteSets

CONSTANTS Objs,     \* the events
          B,        \* blocks in the ring
          W,        \* cycles in a block
          MaxCycle  \* the last cycle an event may be due in

ASSUME BlocksAssumption == B \in Nat /\ B >= 2
ASSUME WidthAssumption == W \in Nat /\ W >= 1
ASSUME CycleAssumption == MaxCycle \in Nat

VARIABLES
    array,     \* the events of each block and position
    occ,       \* the positions of each block with an event
    feMap,     \* the far events, with their cycles
    curBlock,  \* the absolute number of the first block of the ring
    elems,     \* the number of events
    busy,      \* dequeue() is looking for the first populated block
    now        \* the cycle of the last event dequeued

prioQueue == <<array, occ, feMap, curBlock, elems, busy, now>>

Slots == 0..(B - 1)
Positions == 0..(W - 1)
QueueEntries == [cycle : 0..MaxCycle, obj : Objs]

Block(c) == c \div W
Pos(c) == c % W
Slot(b) == b % B

QueueInit ==
    /\ array = [i \in Slots |-> [p \in Positions |-> {}]]
    /\ occ = [i \in Slots |-> {}]
    /\ feMap = {}
    /\ curBlock = 0 /\ elems = 0
    /\ busy = FALSE /\ now = 0

(* The blocks with the entries es added, and their occupancy bits. *)
ArrayWith(es) ==
    [i \in Slots |-> [p \in Positions |->
        array[i][p] \cup {e.obj : e \in {f \in es : Slot(Block(f.cycle)) = i
                                                     /\ Pos(f.cycle) = p}}]]
OccWith(es) ==
    [i \in Slots |->
        occ[i] \cup {Pos(e.cycle) : e \in {f \in es : Slot(Block(f.cycle)) = i}}]

(* Events with cycles in b's block are within reach of the ring. *)
ReachOneMore(b) == b <= curBlock + B  \* mutant: the ring has one block too many
Reach(b) == b < curBlock + B

(* The events in the ring; the event of an entry is in one place only. *)
InRing(o) == \E i \in Slots, p \in Positions : o \in array[i][p]
IsQueued(o) == InRing(o) \/ \E e \in feMap : e.obj = o

(* enqueue(), for an event that is not queued and a cycle that is not     *)
(* over, which is what ContentionSim::enqueue asserts.                     *)
enqueue(o, c) ==
    /\ ~busy /\ ~IsQueued(o) /\ c >= now
    /\ LET e == [cycle |-> c, obj |-> o]
       IN IF Reach(Block(c))
          THEN array' = ArrayWith({e}) /\ occ' = OccWith({e}) /\ feMap' = feMap
          ELSE feMap' = feMap \cup {e} /\ UNCHANGED <<array, occ>>
    /\ elems' = elems + 1
    /\ UNCHANGED <<curBlock, busy, now>>

(* dequeue() is called. *)
StartDequeue ==
    /\ ~busy /\ elems > 0
    /\ busy' = TRUE
    /\ UNCHANGED <<array, occ, feMap, curBlock, elems, now>>

(* The far events that the ring reaches once it starts at block b. *)
DueAtB(b) ==  \* mutant: far events are looked at once per turn of the ring
    IF Slot(b) = 0 THEN {e \in feMap : e.cycle < (b + B) * W} ELSE {}
DueAt(b) ==
    IF b % (B \div 2) = 0 THEN {e \in feMap : e.cycle < (b + B) * W} ELSE {}

(* The loop of dequeue() passes an empty block. *)
PassBlock ==
    /\ busy /\ occ[Slot(curBlock)] = {}
    /\ curBlock' = curBlock + 1
    /\ LET due == DueAt(curBlock + 1)
       IN /\ array' = ArrayWith(due) /\ occ' = OccWith(due)
          /\ feMap' = feMap \ due
    /\ UNCHANGED <<elems, busy, now>>

(* The occupancy bits of a block after an event was taken from position p, *)
(* where the events in left stay.                                          *)
OccAfterKept(bits, p, left) == bits  \* mutant: the bit of an empty list stays set
OccAfter(bits, p, left) == IF left = {} THEN bits \ {p} ELSE bits

(* The loop found a populated block: an event of its first cycle is taken. *)
TakeFirst ==
    /\ busy /\ occ[Slot(curBlock)] # {}
    /\ LET i == Slot(curBlock)
       IN \E p \in occ[i] : \E o \in array[i][p] :
            /\ \A q \in occ[i] : p <= q
            /\ array' = [array EXCEPT ![i][p] = @ \ {o}]
            /\ occ' = [occ EXCEPT ![i] = OccAfter(@, p, array[i][p] \ {o})]
            /\ now' = curBlock * W + p
    /\ elems' = elems - 1
    /\ busy' = FALSE
    /\ UNCHANGED <<feMap, curBlock>>

QueueNext ==
    \/ \E o \in Objs, c \in 0..MaxCycle : enqueue(o, c)
    \/ StartDequeue \/ PassBlock \/ TakeFirst

QueueSpec == QueueInit /\ [][QueueNext]_prioQueue

(* A call of dequeue() goes on until it returns. *)
FairQueueSpec == QueueSpec /\ WF_prioQueue(PassBlock) /\ WF_prioQueue(TakeFirst)

------------------------------------------------------------------------------
(* The first cycle with an event, of the d-th block of the ring on. *)
Min(S) == CHOOSE n \in S : \A m \in S : n <= m
RingCycle(d) == (curBlock + d) * W + Min(occ[Slot(curBlock + d)])
FarCycle == Min({e.cycle : e \in feMap})

(* firstCycle(): the far events are looked at only if the first half of    *)
(* the ring is empty.                                                      *)
FirstCycle ==
    LET populated == {d \in Slots : occ[Slot(curBlock + d)] # {}}
        d == Min(populated)
    IN  IF populated = {} THEN FarCycle
        ELSE IF d < B \div 2 \/ feMap = {} THEN RingCycle(d)
        ELSE Min({RingCycle(d), FarCycle})

------------------------------------------------------------------------------
(* What is queued: the far events, and the events of the ring, whose       *)
(* cycles follow from their places.                                        *)
Content ==
    {e \in QueueEntries :
        \/ e \in feMap
        \/ /\ Block(e.cycle) \in curBlock..(curBlock + B - 1)
           /\ e.obj \in array[Slot(Block(e.cycle))][Pos(e.cycle)]}

(* Type invariant. *)
TypeOK ==
    /\ array \in [Slots -> [Positions -> SUBSET Objs]]
    /\ occ \in [Slots -> SUBSET Positions]
    /\ feMap \in SUBSET QueueEntries
    /\ curBlock \in Nat /\ elems \in Nat
    /\ busy \in BOOLEAN /\ now \in 0..MaxCycle

(* firstCycle() returns the least cycle of all queued events, although it  *)
(* does not look at the far events when the first half of the ring has     *)
(* one ("beyond B/2 blocks, there may be a far element that comes          *)
(* earlier").                                                              *)
FirstCycleExact ==
    elems > 0 => FirstCycle = Min({e.cycle : e \in Content})

Abstract == INSTANCE EventQueue WITH content <- Content

(* The queue implements the abstract one: no event is lost, repeated or    *)
(* moved to another cycle when the ring turns or far events enter it, and  *)
(* events are taken in the order of their cycles.                          *)
ImplementsEventQueue == Abstract!Spec

(* dequeue() returns: its loop, which has no bound of its own, ends at an  *)
(* event.                                                                  *)
DequeueEnds == busy ~> ~busy
==============================================================================
