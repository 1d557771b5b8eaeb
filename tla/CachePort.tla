------------------------------ MODULE CachePort ------------------------------
(***************************************************************************)
(* The lookup port of a timing cache (TimingCache::highPrioAccess and      *)
(* tryLowPrioAccess).  The tags can be looked up once per cycle.  A hit or *)
(* the start of a miss has priority and is delayed to the next cycle the   *)
(* port is free in; the write of a refill takes the previous cycle if that *)
(* was left free, and otherwise is told to try again.  Two words replace a *)
(* reservation table: the last cycle looked up in, and one earlier cycle   *)
(* known to be free.                                                       *)
(***************************************************************************)
EXTENDS Integers

CONSTANT LastCycle  \* bound on the cycles the port is used in

ASSUME PortCycleAssumption == LastCycle \in Nat

VARIABLES lastAccCycle,   \* the last cycle the port was used in
          lastFreeCycle,  \* a cycle before it that was left free, or 0
          portCycle,      \* the cycle of the latest call: calls come in order
          slots,          \* the cycles the port was granted in (history)
          clash           \* whether it was granted twice in one (history)

port == <<lastAccCycle, lastFreeCycle, portCycle, slots, clash>>

Later(a, b) == IF a < b THEN b ELSE a

PortInit ==
    /\ lastAccCycle = 0 /\ lastFreeCycle = 0 /\ portCycle = 0
    /\ slots = {} /\ clash = FALSE

(* The history drops the cycles that no later call can be granted: calls   *)
(* come in cycle order and ask for their own cycle or the one before.      *)
Grant(cycle, slot) ==
    /\ portCycle' = cycle
    /\ slots' = {s \in slots : s >= cycle - 1} \cup {slot}
    /\ clash' = (clash \/ slot \in slots)

(* The cycle a priority access gets. *)
LookupCycle(cycle) == Later(cycle, lastAccCycle + 1)

highPrioAccess(cycle) ==
    /\ lastFreeCycle' = IF lastAccCycle < cycle - 1 THEN cycle - 1 ELSE lastFreeCycle
    /\ lastAccCycle' = LookupCycle(cycle)
    /\ Grant(cycle, LookupCycle(cycle))

(* Mutant: the last cycle used is taken for free as well. *)
PortFreeInclusive(cycle) == lastAccCycle <= cycle - 1 \/ lastFreeCycle = cycle - 1

(* Whether the cycle before this one was left free. *)
PortFree(cycle) == lastAccCycle < cycle - 1 \/ lastFreeCycle = cycle - 1

tryLowPrioAccess(cycle) ==
    /\ PortFree(cycle)
    /\ lastFreeCycle' = 0
    /\ lastAccCycle' = Later(cycle - 1, lastAccCycle)
    /\ Grant(cycle, cycle - 1)

(* The port by itself, called in cycle order.  The first calls come after  *)
(* cycle 1: an access has crossed the private cache and the cache's own    *)
(* latency by then, and 0 in lastFreeCycle stands for "none".              *)
PortNext ==
    \E cycle \in 2..LastCycle :
        /\ cycle >= portCycle
        /\ highPrioAccess(cycle) \/ tryLowPrioAccess(cycle)

PortSpec == PortInit /\ [][PortNext]_port

(***************************************************************************)
(* The port is granted at most once per cycle.  tryLowPrioAccess works on  *)
(* the cycle before its own, after later priority accesses may have been   *)
(* granted, and has only the two words to tell whether it is still free.   *)
(* The free cycle is never ahead of the calls (the assertion of            *)
(* highPrioAccess).                                                        *)
(***************************************************************************)
PortExclusive == ~clash /\ lastFreeCycle <= portCycle
=============================================================================
