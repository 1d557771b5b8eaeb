---------------------------- MODULE TimingEvents ----------------------------
(***************************************************************************)
(* The graphs of timing events (timing_event.h): an event waits for its    *)
(* parents, is queued when the last of them is done, may be held by the    *)
(* object that simulates it, and is freed when it is done.  A pool maps    *)
(* the live events of all cores to their fields; an event is named by the  *)
(* core whose slab it lives in and its place in that slab.                 *)
(*                                                                         *)
(* A DelayEvent does nothing but pass its single parent's completion on,   *)
(* later by its delay: it is the delay of an edge to a child here.         *)
(* There is one simulation domain (init.cpp refuses others), so no         *)
(* crossings.                                                              *)
(***************************************************************************)
EXTENDS Naturals, FiniteSets, FiniteSetsExt, TLC

CONSTANTS Cores,    \* the simulated cores
          SlabSize  \* live events a core can have

NoEvent == <<0, 0>>

(* A new event of a kind, with the earliest cycle it may start in and the *)
(* delay after it; orig is the recorder's start cycle on its own clock.   *)
TimingEvent(kind, min, post, orig) ==
    [kind |-> kind, min |-> min, post |-> post, orig |-> orig, cycle |-> 0,
     parents |-> 0, kids |-> <<>>, state |-> "NONE"]

FreePlaces(pool, c) == {k \in 1..SlabSize : <<c, k>> \notin DOMAIN pool}

(* The n-th free place of a core's slab. *)
alloc(pool, c, n) ==
    <<c, CHOOSE k \in FreePlaces(pool, c) : Cardinality(FreePlaces(pool, c) \cap (1..k)) = n>>

HasRoom(pool, c, n) == Cardinality(FreePlaces(pool, c)) >= n

addChild(pool, parent, child, delay) ==
    [pool EXCEPT ![parent].kids = (child :> delay) @@ @, ![child].parents = @ + 1]

(* addChild's assertion: children are added before the event has run. *)
MayAddChild(pool, e) == e \in DOMAIN pool /\ pool[e].state \in {"NONE", "QUEUED"}

queue(ev, cycle) == [ev EXCEPT !.state = "QUEUED", !.cycle = cycle]
requeue(pool, e, cycle) == [pool EXCEPT ![e] = queue(@, cycle)]
hold(pool, e) == [pool EXCEPT ![e].state = "HELD"]

(* A parent is done at this cycle: the last one queues the event. *)
parentDone(ev, cycle) ==
    LET last == IF ev.cycle < cycle THEN cycle ELSE ev.cycle
        next == [ev EXCEPT !.cycle = last, !.parents = @ - 1]
    IN  IF ev.parents = 1 THEN queue(next, last) ELSE next

(* The event is done at this cycle: its children hear of it, it is freed. *)
done(pool, e, cycle) ==
    [k \in DOMAIN pool \ {e} |->
        IF k \in DOMAIN pool[e].kids
        THEN parentDone(pool[k], cycle + pool[e].post + pool[e].kids[k])
        ELSE pool[k]]

Queued(pool) == {e \in DOMAIN pool : pool[e].state = "QUEUED"}
Held(pool) == {e \in DOMAIN pool : pool[e].state = "HELD"}
=============================================================================
