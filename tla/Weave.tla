-------------------------------- MODULE Weave --------------------------------
(***************************************************************************)
(* The weave half of a phase: every core records, while its threads run in *)
(* the bound half, the timing events of its accesses (CoreRecorder); when  *)
(* all running cores have reached the barrier, the simulation thread plays *)
(* the recorded events against the shared cache and the memory             *)
(* (ContentionSim), and the delay this adds is put on the cores' clocks.   *)
(*                                                                         *)
(* A core has two clocks.  curCycle is the one its accesses use; curCycle  *)
(* minus gapCycles leaves out the delay of all weaves so far, and the      *)
(* recorder's events remember their start on it.  A core that leaves       *)
(* drains its events over the next phases, and may be joined again before  *)
(* it has.                                                                 *)
(*                                                                         *)
(* The hierarchy is a private cache over one shared timing cache over the  *)
(* memory controller, whose answers the network below it may delay and     *)
(* reorder: it is external here and answers in any tick.                   *)
(***************************************************************************)
EXTENDS TimingEvents, CachePort

CONSTANTS PhaseLength,  \* cycles per phase
          L1Lat,        \* latency of the private cache
          AccLat,       \* latency of the shared cache
          MemLat,       \* latency of the memory in the bound half
          MaxMemLat,    \* and the longest the memory takes in the weave
          MemSlots,     \* requests the memory takes at a time
          Programs,     \* MSHRs of the cache, and what the threads of each core may do
          MaxPhases     \* phases simulated

VARIABLES pool,          \* the live timing events
          core,          \* the cores and their recorders
          phase,         \* "bound", "weave" (simulating) or "woven"
          globPhaseCycles,
          lastLimit,     \* end of the last phase woven
          domCycle,      \* cycle of the last event simulated
          tickCycle,     \* cycle the memory's tick event is queued for
          numMSHRs,      \* misses the cache handles at a time (configuration)
          activeMisses   \* misses that hold one of its MSHRs

vars == <<pool, core, phase, globPhaseCycles, lastLimit, domCycle, tickCycle, numMSHRs,
          activeMisses, port>>

limit == globPhaseCycles + PhaseLength

(* A core: curCycle and phaseEndCycle of TimingCore, the rest CoreRecorder. *)
(* at is where its thread is: running, at the barrier, or just let go.      *)
IdleCore(prog) ==
    [state |-> "HALTED", at |-> "run", curCycle |-> 0, phaseEndCycle |-> 0,
     gapCycles |-> 0, prevRespEvent |-> NoEvent, prevRespCycle |-> 0,
     lastStart |-> 0, lastOrig |-> 0, lastUnhalted |-> 0, todo |-> prog]

Init ==
    /\ pool = <<>> /\ phase = "bound" /\ globPhaseCycles = 0 /\ lastLimit = 0
    /\ domCycle = 0 /\ tickCycle = 0 /\ activeMisses = 0
    /\ \E prog \in Programs : /\ core = [c \in Cores |-> IdleCore(prog.todo[c])]
                             /\ numMSHRs = prog.mshrs
    /\ PortInit

(***************************************************************************)
(* Recording, in the bound half.  A recorder appends to the chain of its   *)
(* core's events; prevRespEvent is the chain's open end.                   *)
(***************************************************************************)
CoreEvent(k, post) ==
    TimingEvent("core", k.prevRespCycle, post, k.prevRespCycle - k.gapCycles)

(* The chain of core k grows by an event that covers its delay up to cycle. *)
Append1(p, c, k, post, cycle) ==
    LET e == alloc(p, c, 1)
    IN  <<addChild((e :> CoreEvent(k, post)) @@ p, k.prevRespEvent, e, 0),
          [k EXCEPT !.prevRespEvent = e, !.prevRespCycle = cycle]>>

(* Then by one without delay that ends it. *)
Cover(p, c, k) ==
    LET delayed == Append1(p, c, k, k.curCycle - k.prevRespCycle, k.curCycle)
    IN  Append1(delayed[1], c, delayed[2], 0, k.curCycle)

(* Mutant: a halted core goes on from the cycle it halted in. *)
StartStale(c) == core[c].curCycle

(* A halted core starts at the beginning of the phase. *)
StartCycle(c) == globPhaseCycles

notifyJoin(c) ==
    LET k == core[c]
        e == alloc(pool, c, 1)
        s == StartCycle(c)
        joined == [k EXCEPT !.state = "RUNNING", !.at = "run", !.todo.joins = @ - 1,
                            !.phaseEndCycle = globPhaseCycles + PhaseLength]
    IN  /\ phase = "bound" /\ k.state # "RUNNING" /\ k.todo.joins > 0
        /\ \/ /\ k.state = "HALTED"
              /\ pool' = (e :> queue(TimingEvent("core", s, 0, s), s)) @@ pool
              /\ core' = [core EXCEPT ![c] =
                    [joined EXCEPT !.curCycle = s, !.gapCycles = 0,
                                   !.prevRespEvent = e, !.prevRespCycle = s]]
           \/ /\ k.state = "DRAINING"
              /\ core' = [core EXCEPT ![c] = joined]
              /\ UNCHANGED pool
        /\ UNCHANGED <<phase, globPhaseCycles, lastLimit, domCycle, tickCycle, numMSHRs, activeMisses, port>>

(* The thread leaves, on its own or descheduled after the barrier. *)
notifyLeave(c) ==
    LET k == core[c]
        grown == Cover(pool, c, k)
    IN  /\ phase = "bound" /\ k.state = "RUNNING" /\ k.at # "barrier"
        /\ k.todo.early \/ k.todo.accs + k.todo.bbls = 0
        /\ HasRoom(pool, c, 2)
        /\ pool' = grown[1]
        /\ core' = [core EXCEPT ![c] = [grown[2] EXCEPT !.state = "DRAINING"]]
        /\ UNCHANGED <<phase, globPhaseCycles, lastLimit, domCycle, tickCycle, numMSHRs, activeMisses, port>>

(* At the end of a block the core waits at the barrier if its clock is past *)
(* the phase, and again after the barrier while it still is.                *)
AtBlockEnd(k) ==
    IF k.curCycle > k.phaseEndCycle
    THEN [k EXCEPT !.phaseEndCycle = @ + PhaseLength, !.at = "barrier"]
    ELSE [k EXCEPT !.at = "run"]

Bbl(c) ==
    /\ phase = "bound" /\ core[c].state = "RUNNING" /\ core[c].at = "run"
    /\ core[c].todo.bbls > 0
    /\ \E n \in core[c].todo.blocks :
          core' = [core EXCEPT ![c] = AtBlockEnd([@ EXCEPT !.curCycle = @ + n, !.todo.bbls = @ - 1])]
    /\ UNCHANGED <<pool, phase, globPhaseCycles, lastLimit, domCycle, tickCycle, numMSHRs, activeMisses, port>>

LetGo(c) ==
    /\ phase = "bound" /\ core[c].state = "RUNNING" /\ core[c].at = "released"
    /\ core' = [core EXCEPT ![c] = AtBlockEnd(@)]
    /\ UNCHANGED <<pool, phase, globPhaseCycles, lastLimit, domCycle, tickCycle, numMSHRs, activeMisses, port>>

(* The events an access makes in the shared cache when it gets there in    *)
(* cycle r: a lookup that hits; or the start of a miss, the memory's part, *)
(* the response, and the write of the line, which also waits for the       *)
(* victim's write-back.  A dirty line the private cache evicts is one more *)
(* hit, next to the access.                                                *)
AccessEvents(acc, l1wb, r) ==
    LET miss == r + AccLat
        back == miss + MemLat
        Ev(kind, min, post) == TimingEvent(kind, min, post, 0)
    IN  (IF acc = "hit" THEN "hit" :> Ev("hit", r, AccLat)
         ELSE ("start" :> Ev("start", r, AccLat)) @@ ("mem" :> Ev("mem", miss, 0))
              @@ ("resp" :> Ev("resp", back, 0)) @@ ("write" :> Ev("back", back, AccLat)))
        @@ (IF acc = "dirty" THEN "evict" :> Ev("mem", miss, 0) ELSE <<>>)
        @@ (IF l1wb THEN "l1wb" :> Ev("hit", r, AccLat) ELSE <<>>)

(* The edges between them. *)
MissEdges(acc) ==
    {<<"start", "mem", 0>>, <<"mem", "resp", 0>>, <<"resp", "write", 0>>}
    \cup (IF acc = "clean" THEN {<<"start", "write", MemLat>>} ELSE {})
    \cup (IF acc = "dirty" THEN {<<"start", "evict", 0>>, <<"evict", "write", 0>>} ELSE {})

(* And from the core's event "req" to them: the private cache stitches the *)
(* access and its own write-back together.                                 *)
AccessEdges(acc, l1wb) ==
    LET up == IF l1wb THEN L1Lat ELSE 0
    IN  {<<"req", IF acc = "hit" THEN "hit" ELSE "start", up>>}
        \cup (IF acc = "hit" THEN {} ELSE MissEdges(acc))
        \cup (IF l1wb THEN {<<"req", "l1wb", up>>} ELSE {})

(* The order in which the events of an access take their places. *)
Place == "req" :> 1 @@ "hit" :> 2 @@ "start" :> 2 @@ "mem" :> 3 @@ "resp" :> 4 @@ "write" :> 5
         @@ "evict" :> 6 @@ "l1wb" :> 7

(* The access is made and its record linked into the core's chain.  With a *)
(* write-back beside it the record starts where the access does, without   *)
(* one where it reaches the shared cache.                                  *)
recordAccess(c, acc, l1wb) ==
    LET k == core[c]
        r == k.curCycle + L1Lat
        reqCycle == IF l1wb THEN k.curCycle ELSE r
        resp == IF acc = "hit" THEN r + AccLat ELSE r + AccLat + MemLat
        events == ("req" :> CoreEvent(k, reqCycle - k.prevRespCycle)) @@ AccessEvents(acc, l1wb, r)
        id(name) == alloc(pool, c, Cardinality({n \in DOMAIN events : Place[n] <= Place[name]}))
        new == [e \in {id(name) : name \in DOMAIN events} |->
                    events[CHOOSE name \in DOMAIN events : id(name) = e]]
        link(e, p) == addChild(p, id(e[1]), id(e[2]), e[3])
    IN  /\ phase = "bound" /\ k.state = "RUNNING" /\ k.at = "run"
        /\ k.todo.accs > 0 /\ HasRoom(pool, c, Cardinality(DOMAIN events))
        /\ pool' = FoldSet(link, addChild(new @@ pool, k.prevRespEvent, id("req"), 0), AccessEdges(acc, l1wb))
        /\ core' = [core EXCEPT ![c] =
              [@ EXCEPT !.curCycle = resp, !.prevRespCycle = resp, !.todo.accs = @ - 1,
                        !.prevRespEvent = id(IF acc = "hit" THEN "hit" ELSE "resp")]]
        /\ UNCHANGED <<phase, globPhaseCycles, lastLimit, domCycle, tickCycle, numMSHRs, activeMisses, port>>

Access(c) == \E acc \in core[c].todo.kinds, l1wb \in core[c].todo.l1wb : recordAccess(c, acc, l1wb)

(***************************************************************************)
(* From the bound to the weave half, and back.                             *)
(***************************************************************************)
(* Mutant: the phase is closed by the event that covers the delay. *)
CloseCovered(p, c, k) ==
    IF k.prevRespCycle < k.curCycle
    THEN Append1(p, c, k, k.curCycle - k.prevRespCycle, k.curCycle)
    ELSE Append1(p, c, k, 0, k.curCycle)

(* A running core closes the phase with an event of the next one. *)
ClosePhase(p, c, k) ==
    IF k.prevRespCycle < k.curCycle THEN Cover(p, c, k) ELSE Append1(p, c, k, 0, k.curCycle)

(* The clock of a draining core keeps up with the phases. *)
Drain(k) == [k EXCEPT !.curCycle = Later(@, limit)]

cSimStart(p, c, k) ==
    CASE k.state = "RUNNING" -> ClosePhase(p, c, k)
      [] k.state = "DRAINING" -> <<p, Drain(k)>>
      [] k.state = "HALTED" -> <<p, k>>

(* The phase ends when every running core is at the barrier.  Phases with *)
(* all cores halted, which only tick the memory, are left out.            *)
StartWeave ==
    LET start(c, pk) == LET n == cSimStart(pk[1], c, pk[2][c])
                        IN  <<n[1], [pk[2] EXCEPT ![c] = n[2]]>>
        started == FoldSet(start, <<pool, core>>, Cores)
    IN  /\ phase = "bound" /\ globPhaseCycles < MaxPhases * PhaseLength
        /\ \E c \in Cores : core[c].state # "HALTED"
        /\ \A c \in Cores : /\ core[c].state = "RUNNING" => core[c].at = "barrier"
                            /\ HasRoom(pool, c, 2)
        /\ phase' = "weave"
        /\ pool' = started[1] /\ core' = started[2]
        /\ UNCHANGED <<globPhaseCycles, lastLimit, domCycle, tickCycle, numMSHRs, activeMisses, port>>

(***************************************************************************)
(* The simulation thread.  It takes the events in the order of their       *)
(* cycles, up to the end of the phase.                                     *)
(***************************************************************************)
FirstCycle == LET due == {pool[e].cycle : e \in Queued(pool)} \cup {tickCycle}
              IN  CHOOSE t \in due : \A u \in due : t <= u

Taken(t) == /\ phase = "weave" /\ t = FirstCycle /\ t < limit
            /\ domCycle' = t
            /\ UNCHANGED <<phase, globPhaseCycles, lastLimit, numMSHRs>>

(* An event taken before the cycle it was recorded for goes back, which   *)
(* also covers the recorder's own test: orig is not above min.            *)
TooEarly(e) == pool[e].cycle < pool[e].min

Early(e) ==
    /\ e \in Queued(pool) /\ Taken(pool[e].cycle) /\ TooEarly(e)
    /\ pool' = requeue(pool, e, pool[e].min)
    /\ UNCHANGED <<core, tickCycle, activeMisses, port>>

(* Event e of the given kind is simulated in cycle t. *)
Simulated(e, kind, t) ==
    /\ e \in Queued(pool) /\ pool[e].kind = kind
    /\ Taken(t) /\ ~TooEarly(e)

(* The recorder learns when its event started and, from the last one of a  *)
(* chain, that the core has drained.                                       *)
reportEventSimulated(e, t) ==
    core' = [core EXCEPT ![e[1]] =
        [@ EXCEPT !.lastStart = t, !.lastOrig = pool[e].orig,
                  !.prevRespEvent = IF @ = e THEN NoEvent ELSE @]]

CoreStep(e) ==
    LET t == pool[e].cycle
    IN  /\ Simulated(e, "core", t)
        /\ pool' = done(pool, e, t) /\ reportEventSimulated(e, t)
        /\ UNCHANGED <<tickCycle, activeMisses, port>>

(* A hit looks the line up; with all MSHRs in use it waits. *)
simulateHit(e) ==
    LET t == pool[e].cycle
    IN  /\ Simulated(e, "hit", t)
        /\ IF activeMisses < numMSHRs
           THEN highPrioAccess(t) /\ pool' = done(pool, e, LookupCycle(t))
           ELSE pool' = hold(pool, e) /\ UNCHANGED port
        /\ UNCHANGED <<core, tickCycle, activeMisses>>

simulateMissStart(e) ==
    LET t == pool[e].cycle
    IN  /\ Simulated(e, "start", t)
        /\ IF activeMisses < numMSHRs
           THEN /\ activeMisses' = activeMisses + 1
                /\ highPrioAccess(t) /\ pool' = done(pool, e, LookupCycle(t))
           ELSE pool' = hold(pool, e) /\ UNCHANGED <<activeMisses, port>>
        /\ UNCHANGED <<core, tickCycle>>

simulateMissResponse(e) ==
    LET t == pool[e].cycle
    IN  /\ Simulated(e, "resp", t)
        /\ pool' = done(pool, e, t)
        /\ UNCHANGED <<core, tickCycle, activeMisses, port>>

Pending == {e \in Held(pool) : pool[e].kind # "mem"}

(* Mutant: one of the waiting events is let in, for the one MSHR freed. *)
RetryOne(t) == [f \in DOMAIN pool |->
    IF Pending # {} /\ f = CHOOSE g \in Pending : TRUE THEN queue(pool[f], t + 1) ELSE pool[f]]

(* All waiting events try again in the next cycle. *)
RetryPending(t) == [f \in DOMAIN pool |-> IF f \in Pending THEN queue(pool[f], t + 1) ELSE pool[f]]

(* Mutant: the write tries again in the same cycle. *)
RetrySameCycle(t) == t

(* A write that finds the port taken tries again in the next cycle. *)
RetryCycle(t) == t + 1

(* The line is written, which frees the MSHR. *)
simulateMissWriteback(e) ==
    LET t == pool[e].cycle
    IN  /\ Simulated(e, "back", t)
        /\ IF PortFree(t)
           THEN /\ tryLowPrioAccess(t) /\ activeMisses' = activeMisses - 1
                /\ pool' = done(RetryPending(t), e, t)
           ELSE pool' = requeue(pool, e, RetryCycle(t)) /\ UNCHANGED <<activeMisses, port>>
        /\ UNCHANGED <<core, tickCycle>>

(* A request is handed to the memory, which may be full. *)
InMemory == {e \in Held(pool) : pool[e].kind = "mem"}

enqueue(e) ==
    LET t == pool[e].cycle
    IN  /\ Simulated(e, "mem", t)
        /\ pool' = IF Cardinality(InMemory) < MemSlots THEN hold(pool, e) ELSE requeue(pool, e, t + 1)
        /\ UNCHANGED <<core, tickCycle, activeMisses, port>>

(* The memory's tick, once per cycle: it answers any of its requests, and  *)
(* each within MaxMemLat cycles.  The controller has counted this tick     *)
(* when an answer reaches it.                                              *)
tick ==
    \E answered \in SUBSET InMemory :
        /\ Taken(tickCycle)
        /\ \A e \in InMemory \ answered : tickCycle < pool[e].cycle + MaxMemLat
        /\ pool' = FoldSet(LAMBDA e, p : done(p, e, tickCycle + 2), pool, answered)
        /\ tickCycle' = tickCycle + 1
        /\ UNCHANGED <<core, activeMisses, port>>

Simulate == \/ tick
            \/ \E e \in DOMAIN pool : \/ Early(e) \/ CoreStep(e) \/ simulateHit(e) \/ enqueue(e)
                                      \/ simulateMissStart(e) \/ simulateMissResponse(e)
                                      \/ simulateMissWriteback(e)

(* Nothing is left before the limit: the thread wakes simulatePhase. *)
ThreadDone ==
    /\ phase = "weave" /\ FirstCycle >= limit
    /\ phase' = "woven" /\ domCycle' = limit
    /\ UNCHANGED <<pool, core, globPhaseCycles, lastLimit, tickCycle, numMSHRs, activeMisses, port>>

(* The weave delayed the last event by skew: so is everything after it. *)
cSimEnd(k) ==
    LET lec1 == k.lastOrig + k.gapCycles
        skew == Later(k.lastStart, lec1) - lec1
        skewed == [k EXCEPT !.curCycle = @ + skew, !.gapCycles = @ + skew, !.prevRespCycle = @ + skew,
                            !.at = IF @ = "barrier" THEN "released" ELSE @]
    IN  CASE k.state = "HALTED" -> k
          [] k.state # "HALTED" /\ k.prevRespEvent # NoEvent -> skewed
          [] OTHER -> [skewed EXCEPT !.state = "HALTED", !.lastUnhalted = k.lastStart]

EndWeave ==
    /\ phase = "woven" /\ phase' = "bound"
    /\ core' = [c \in Cores |-> cSimEnd(core[c])]
    /\ lastLimit' = limit /\ globPhaseCycles' = limit
    /\ UNCHANGED <<pool, domCycle, tickCycle, numMSHRs, activeMisses, port>>

BoundStep == \E c \in Cores : notifyJoin(c) \/ notifyLeave(c) \/ Bbl(c) \/ LetGo(c) \/ Access(c)

WeaveStep == Simulate \/ ThreadDone \/ EndWeave

Next == BoundStep \/ StartWeave \/ WeaveStep

Spec == Init /\ [][Next]_vars

(* The simulation thread and the thread that waits for it are scheduled. *)
FairSpec == Spec /\ WF_vars(WeaveStep)

(***************************************************************************)
(* A running core always has an event that is still to be simulated, to    *)
(* which its next access can be linked (the assertions of addChild,        *)
(* notifyLeave and reportEventSimulated), even when the weave was faster   *)
(* than the bound half had reckoned; and a core halts only when none of    *)
(* its own events is left (notifyJoin), also when it was joined again      *)
(* while it drained.                                                       *)
(***************************************************************************)
ChainOpen ==
    \A c \in Cores :
        LET k == core[c]
        IN  /\ k.state = "RUNNING" => k.prevRespEvent # NoEvent
            /\ phase = "bound" /\ k.state # "HALTED" => MayAddChild(pool, k.prevRespEvent)
            /\ k.state = "HALTED" => /\ k.prevRespEvent = NoEvent
                                     /\ \A e \in DOMAIN pool : e[1] = c => pool[e].kind # "core"

(***************************************************************************)
(* No event is queued for a cycle that is over (the assertions of enqueue, *)
(* enqueueSynced and simulatePhaseThread), be it by a core that joins, by  *)
(* a parent, by a retry or by an answer of the memory.                     *)
(***************************************************************************)
TimeForward ==
    /\ \A e \in Queued(pool) : pool[e].cycle >= domCycle
    /\ tickCycle >= domCycle
    /\ phase = "bound" => domCycle = lastLimit /\ lastLimit = globPhaseCycles

(***************************************************************************)
(* An access waits for an MSHR only while one is in use, whose write-back  *)
(* will let it try again, and the cache counts no more misses than there   *)
(* are write-backs to come (the assertion of simulateMissWriteback).       *)
(***************************************************************************)
NoneForgotten ==
    /\ Pending # {} => activeMisses > 0
    /\ activeMisses <= numMSHRs
    /\ activeMisses <= Cardinality({e \in DOMAIN pool : pool[e].kind = "back"})

(***************************************************************************)
(* The weave of every phase ends: retries move to later cycles, and the    *)
(* thread that waits in simulatePhase goes on.                             *)
(***************************************************************************)
WeaveEnds == phase = "weave" ~> phase = "bound"
=============================================================================
