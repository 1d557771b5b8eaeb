----------------------------- MODULE SimControl -----------------------------
(***************************************************************************)
(* Simulation control: the process tree (process_tree.{h,cpp}), the global *)
(* event queue (event_queue.h), the actions at the end of a phase, the     *)
(* fast-forward control thread of each process, the magic ops, process end *)
(* and the harness's restarts (zsim.cpp, zsim_harness.cpp, fftoggle.cpp).  *)
(*                                                                         *)
(* A process is its node of the tree and three kinds of threads: the       *)
(* application's (they are in the scheduler, or outside it while the       *)
(* process fast-forwards), the control thread, and the one that happens to *)
(* end the phase and runs EndOfPhaseActions, here the "ticker".  Two locks *)
(* matter: ffLock, taken around every entry and exit of fast-forward, and  *)
(* the event queue's qLock, which tick() keeps during the callbacks.       *)
(***************************************************************************)
EXTENDS Integers, FiniteSets, Sequences

CONSTANTS
    Procs,      \* process indices, 0 the master
    Configs,    \* the configurations that Init chooses from
    Word,       \* size of a uint32_t counter
    Rate,       \* maxRate: the most instructions of a phase
    None

\* Process indices count from 0; the configured ones come first (CreateProcessTree).
ASSUME ProcsAssumption ==
    /\ Procs \subseteq Nat /\ IsFiniteSet(Procs) /\ 0 \in Procs
    /\ \A c \in Configs : /\ IsFiniteSet(c.procs) /\ 0 \in c.procs /\ c.procs \subseteq Procs
                          /\ c.procs = 0 .. (Cardinality(c.procs) - 1)

\* A toggle is a call of the fftoggle utility; the counters are never full.
ASSUME ConfigsAssumption ==
    /\ \A c \in Configs : /\ c.toggles \in [Procs -> Nat] /\ c.target \in Nat
                          /\ c.ffi \subseteq Procs /\ c.stops \in BOOLEAN
    /\ Word \in Nat /\ Cardinality(Procs) < Word /\ Rate \in Nat \ {0}

Ticker == "ticker"

VARIABLES
    conf,           \* the configuration
    numProcs, started, inFastForward, restartsLeft, procExited,
    life,           \* "absent", "launched", "up", "waiting" (in SimEnd), "gone"
    inSched,        \* inSched[p]: threads of p take part in the phases
    globalActiveProcs, globalFFProcs, globalSyncedFFProcs,
    numPhases,
    evMap,          \* the multimap as a sequence ordered by phase
    tick,           \* where the ticker is
    cur,            \* the event whose callback runs
    qLock, ffLock,  \* their holders
    ctl,            \* where the control thread of each process is
    toggled,        \* toggled[p]: ffToggleLocks[p] is free
    toggles,        \* fftoggle calls still to come
    arrived, left,  \* the two locks of p's SyncEvent are free
    tracking,       \* p is about to queue its FFI event
    instrs,         \* instrs[p]: non-FF instructions since the last FFI point
    beats,          \* heartbeat limits still to be reached
    dumps,          \* procEventualDumps
    terminationConditionMet, dumped, panicked

tree == <<numProcs, started, inFastForward, restartsLeft, procExited, life>>
counts == <<globalActiveProcs, globalFFProcs, globalSyncedFFProcs>>
queue == <<evMap, qLock>>
phase == <<numPhases, tick, cur>>
control == <<ctl, toggled, toggles, arrived, left>>
ffi == <<tracking, instrs>>
ending == <<beats, dumps, terminationConditionMet, dumped, panicked>>
vars == <<conf, tree, counts, inSched, queue, phase, ffLock, control, ffi, ending>>

-----------------------------------------------------------------------------
(* The process tree.                                                       *)

getSyncedFastForward(p) ==
    \/ conf.mode[p] = "Always"
    \/ conf.mode[p] = "Multiprocess" /\ numProcs > 1

Plus(n) == (n + 1) % Word
Minus(n) == (n + Word - 1) % Word

enterFastForward(p) ==
    /\ inFastForward' = [inFastForward EXCEPT ![p] = TRUE]
    /\ globalSyncedFFProcs' =
         IF getSyncedFastForward(p) THEN Plus(globalSyncedFFProcs) ELSE globalSyncedFFProcs
    /\ globalFFProcs' = Plus(globalFFProcs)

exitFastForward(p) ==
    /\ inFastForward' = [inFastForward EXCEPT ![p] = FALSE]
    /\ globalSyncedFFProcs' =
         IF getSyncedFastForward(p) THEN Minus(globalSyncedFFProcs) ELSE globalSyncedFFProcs
    /\ globalFFProcs' = Minus(globalFFProcs)

(* A first start counts the process; one after a restart does not.  It is  *)
(* an error when all the others are gone already.                          *)
notifyStart(p) ==
    IF started[p] THEN UNCHANGED <<started, counts, panicked>>
    ELSE /\ started' = [started EXCEPT ![p] = TRUE]
         /\ globalActiveProcs' = globalActiveProcs + 1
         /\ panicked' = (globalActiveProcs = 0)
         /\ globalFFProcs' =
              IF inFastForward[p] THEN Plus(globalFFProcs) ELSE globalFFProcs
         /\ globalSyncedFFProcs' =
              IF inFastForward[p] /\ getSyncedFastForward(p)
              THEN Plus(globalSyncedFFProcs) ELSE globalSyncedFFProcs

\* Mutant: a process that is to be restarted is no longer counted.
LeaveTreeUncounted(p) ==
    LET again == restartsLeft[p] > 0 /\ ~terminationConditionMet
    IN /\ procExited' = [procExited EXCEPT ![p] = IF again THEN "restart" ELSE "exited"]
       /\ restartsLeft' = [restartsLeft EXCEPT ![p] = IF again THEN @ - 1 ELSE @]
       /\ globalActiveProcs' = globalActiveProcs - 1

(* The part of notifyEnd that decides between a restart and the end.       *)
LeaveTree(p) ==
    IF restartsLeft[p] > 0 /\ ~terminationConditionMet
    THEN /\ restartsLeft' = [restartsLeft EXCEPT ![p] = @ - 1]
         /\ procExited' = [procExited EXCEPT ![p] = "restart"]
         /\ UNCHANGED globalActiveProcs
    ELSE /\ procExited' = [procExited EXCEPT ![p] = "exited"]
         /\ globalActiveProcs' = globalActiveProcs - 1
         /\ UNCHANGED restartsLeft

\* Mutant: the counters keep a process that ends in fast-forward.
NotifyEndInFF(p) ==
    /\ UNCHANGED <<inFastForward, globalFFProcs, globalSyncedFFProcs>>
    /\ LeaveTree(p)

notifyEnd(p) ==
    /\ IF inFastForward[p] THEN exitFastForward(p)
       ELSE UNCHANGED <<inFastForward, globalFFProcs, globalSyncedFFProcs>>
    /\ LeaveTree(p)

-----------------------------------------------------------------------------
(* The event queue.  An event is a kind and the process that queued it;    *)
(* "sync" and "dump" are one-shot (period 0), "ffi" is adaptive.           *)

Event(kind, p) == [kind |-> kind, proc |-> p]
At(ph, ev) == [phase |-> ph, event |-> ev]

(* multimap::insert: after the events of the same phase.                   *)
Queued(ph, ev, q) ==
    LET n == CHOOSE k \in 0 .. Len(q) : /\ \A i \in 1 .. k : q[i].phase <= ph
                                        /\ \A i \in k + 1 .. Len(q) : q[i].phase > ph
    IN  SubSeq(q, 1, n) \o <<At(ph, ev)>> \o SubSeq(q, n + 1, Len(q))

(* EventQueue::insert: in one piece, since qLock is held only for it.      *)
insert(ev, period) ==
    /\ qLock = None
    /\ evMap' = Queued(numPhases + period, ev, evMap)

\* Mutant: the division rounds up.
PeriodRoundedUp(togo) == 1 + togo \div Rate

(* AdaptiveEvent: the period is the number of phases that cannot reach the *)
(* target, at least one.                                                   *)
AdaptivePeriod(togo) == IF togo < Rate THEN 1 ELSE togo \div Rate

-----------------------------------------------------------------------------
(* Process start and end.                                                  *)

Init ==
    /\ conf \in Configs
    /\ numProcs = Cardinality(conf.procs)
    /\ started = [p \in Procs |-> p = 0]
    /\ inFastForward = [p \in Procs |-> p \in conf.startFF]
    /\ restartsLeft = conf.restarts
    /\ procExited = [p \in Procs |-> "running"]
    /\ life = [p \in Procs |-> IF p = 0 THEN "up"
                               ELSE IF p \in conf.procs THEN "launched" ELSE "absent"]
    /\ inSched = [p \in Procs |-> FALSE]
    /\ globalActiveProcs = 1
    /\ globalFFProcs = IF 0 \in conf.startFF THEN 1 ELSE 0
    /\ globalSyncedFFProcs =
         IF 0 \in conf.startFF /\ getSyncedFastForward(0) THEN 1 ELSE 0
    /\ numPhases = 0 /\ evMap = <<>> /\ qLock = None /\ ffLock = None
    /\ tick = "bound" /\ cur = None
    /\ ctl = [p \in Procs |-> IF p = 0 THEN "init" ELSE "none"]
    /\ toggled = [p \in Procs |-> TRUE]
    /\ toggles = conf.toggles
    /\ arrived = [p \in Procs |-> FALSE] /\ left = [p \in Procs |-> FALSE]
    /\ tracking = [p \in Procs |-> p = 0 /\ p \in conf.ffi \ conf.startFF]
    /\ instrs = [p \in Procs |-> 0]
    /\ beats = conf.beats /\ dumps = 0
    /\ terminationConditionMet = FALSE /\ dumped = FALSE /\ panicked = FALSE

(* After a panic the harness kills all processes.                          *)
KilledAll == [p \in Procs |-> "gone"]

(* main of the tool, or AfterForkInChild: the node is told and the control *)
(* thread is spawned; FFIInit, in main, is to queue the first FFI event.   *)
Start(p) ==
    /\ life[p] = "launched"
    /\ notifyStart(p)
    /\ life' = IF panicked' THEN KilledAll ELSE [life EXCEPT ![p] = "up"]
    /\ ctl' = [ctl EXCEPT ![p] = "init"]
    /\ tracking' = [tracking EXCEPT ![p] = p \in conf.ffi \cap conf.procs /\ ~inFastForward[p]]
    /\ UNCHANGED <<conf, numProcs, inFastForward, restartsLeft, procExited, inSched, queue, phase,
                   ffLock, toggled, toggles, arrived, left, instrs,
                   beats, dumps, terminationConditionMet, dumped>>

(* BeforeFork: a child that the configuration does not name gets a copy of *)
(* the parent's node.                                                      *)
Fork(p) ==
    /\ p \in conf.forks /\ life[p] = "up" /\ started[p] /\ numProcs \in Procs
    /\ life' = [life EXCEPT ![numProcs] = "launched"]
    /\ inFastForward' = [inFastForward EXCEPT ![numProcs] = inFastForward[p]]
    /\ restartsLeft' = [restartsLeft EXCEPT ![numProcs] = restartsLeft[p]]
    /\ numProcs' = numProcs + 1
    /\ UNCHANGED <<conf, started, procExited, counts, inSched, queue, phase, ffLock, control, ffi,
                   ending>>

(* SimEnd.  The master stays until all the others are gone.                *)
SimEnd(p) ==
    /\ life[p] = "up"
    /\ notifyEnd(p)
    /\ life' = [life EXCEPT ![p] = IF p = 0 THEN "waiting" ELSE "gone"]
    /\ inSched' = [inSched EXCEPT ![p] = FALSE]
    /\ UNCHANGED <<conf, numProcs, started, queue, phase, ffLock, control, ffi, ending>>

(* The program ends by itself, its threads not being at the barrier.       *)
ProgramEnds(p) ==
    /\ p \in conf.quits
    /\ tick = "bound" \/ ~inSched[p]
    /\ SimEnd(p)

(* TakeBarrier, Join and SyscallExit notice that the simulation is over.   *)
ThreadExit(p) ==
    /\ terminationConditionMet /\ tick = "bound"
    /\ SimEnd(p)

DumpStats ==
    /\ life[0] = "waiting" /\ globalActiveProcs = 0
    /\ life' = [life EXCEPT ![0] = "gone"]
    /\ dumped' = TRUE
    /\ UNCHANGED <<conf, numProcs, started, inFastForward, restartsLeft, procExited, counts, inSched,
                   queue, phase, ffLock, control, ffi, beats, dumps,
                   terminationConditionMet, panicked>>

(* chldSigHandler of the harness, for the processes it has launched.       *)
Restart(p) ==
    /\ p \in conf.procs /\ life[p] = "gone" /\ procExited[p] = "restart" /\ ~panicked
    /\ procExited' = [procExited EXCEPT ![p] = "running"]
    /\ life' = [life EXCEPT ![p] = "launched"]
    /\ UNCHANGED <<conf, numProcs, started, inFastForward, restartsLeft, counts, inSched, queue,
                   phase, ffLock, control, ffi, ending>>

-----------------------------------------------------------------------------
(* The application's threads.                                              *)

Running(p) == life[p] = "up" /\ started[p]

Join(p) ==
    /\ Running(p) /\ ~inFastForward[p] /\ ~inSched[p] /\ ~tracking[p]
    /\ tick = "bound" /\ ~terminationConditionMet
    /\ inSched' = [inSched EXCEPT ![p] = TRUE]
    /\ UNCHANGED <<conf, tree, counts, queue, phase, ffLock, control, ffi, ending>>

RoiBegin(p) ==
    /\ p \in conf.hooks /\ Running(p) /\ ffLock = None
    /\ inFastForward[p] /\ (inSched[p] => tick = "bound")
    /\ exitFastForward(p)
    /\ UNCHANGED <<conf, numProcs, started, restartsLeft, procExited, life, globalActiveProcs,
                   inSched, queue, phase, ffLock, control, ffi, ending>>

\* Mutant: the program enters fast-forward whatever the mode.
RoiEndAnyMode(p) ==
    /\ p \in conf.hooks /\ inSched[p] /\ tick = "bound" /\ ~terminationConditionMet
    /\ ffLock = None /\ ~inFastForward[p]
    /\ enterFastForward(p)
    /\ UNCHANGED <<conf, numProcs, started, restartsLeft, procExited, life, globalActiveProcs,
                   inSched, queue, phase, ffLock, control, ffi, ending>>

(* ROI_END is ignored when fast-forwarding is synced.                      *)
RoiEnd(p) ==
    /\ p \in conf.hooks /\ inSched[p] /\ tick = "bound" /\ ~terminationConditionMet
    /\ ffLock = None
    /\ ~getSyncedFastForward(p) /\ ~inFastForward[p]
    /\ enterFastForward(p)
    /\ UNCHANGED <<conf, numProcs, started, restartsLeft, procExited, life, globalActiveProcs,
                   inSched, queue, phase, ffLock, control, ffi, ending>>

(* The heartbeat that reaches dumpHeartbeats.                              *)
Heartbeat(p) ==
    /\ p \in beats /\ Running(p)
    /\ inSched[p] => tick = "bound" /\ ~terminationConditionMet
    /\ insert(Event("dump", p), 0)
    /\ beats' = beats \ {p}
    /\ UNCHANGED <<conf, tree, counts, inSched, qLock, phase, ffLock, control, ffi, dumps,
                   terminationConditionMet, dumped, panicked>>

(* FFIBasicBlock at an FFI point, then FFITrackNFFInterval.                *)
FFIExit(p) ==
    /\ p \in conf.ffi /\ Running(p) /\ ffLock = None
    /\ inFastForward[p] /\ ~inSched[p]
    /\ exitFastForward(p)
    /\ tracking' = [tracking EXCEPT ![p] = TRUE]
    /\ UNCHANGED <<conf, numProcs, started, restartsLeft, procExited, life, globalActiveProcs,
                   inSched, queue, phase, ffLock, control, instrs, ending>>

(* FFIAdvance at the last FFI point.                                       *)
FFIAdvance(p) ==
    /\ p \in conf.ffi /\ inFastForward[p] /\ ~inSched[p]
    /\ SimEnd(p)

FFITrackNFFInterval(p) ==
    /\ tracking[p] /\ Running(p)
    /\ insert(Event("ffi", p), AdaptivePeriod(conf.target))
    /\ tracking' = [tracking EXCEPT ![p] = FALSE]
    /\ UNCHANGED <<conf, tree, counts, inSched, qLock, phase, ffLock, control, instrs, ending>>

-----------------------------------------------------------------------------
(* EndOfPhaseActions and the end of the scheduler's callback.              *)

(* The last thread reaches the barrier; the phase has executed at most     *)
(* Rate instructions of each process.                                      *)
PhaseEnds ==
    /\ tick = "bound" /\ ~terminationConditionMet
    /\ \E p \in Procs : inSched[p] /\ life[p] = "up"
    /\ tick' = "wait"
    /\ \E n \in [conf.ffi -> 0 .. Rate] :
         instrs' = [p \in Procs |-> IF p \in conf.ffi /\ inSched[p] THEN instrs[p] + n[p]
                                    ELSE instrs[p]]
    /\ UNCHANGED <<conf, tree, counts, inSched, queue, numPhases, cur, ffLock, control, tracking,
                   ending>>

(* Synced fast-forwarding pauses the simulation; CheckForTermination       *)
(* follows (maxPhases, or some other limit or a request from outside).     *)
CheckForTermination ==
    /\ tick = "wait" /\ globalSyncedFFProcs = 0
    /\ tick' = "ready"
    /\ terminationConditionMet' \in
         IF numPhases >= conf.maxPhases THEN {TRUE} ELSE {FALSE, conf.stops}
    /\ UNCHANGED <<conf, tree, counts, inSched, queue, numPhases, cur, ffLock, control, ffi,
                   beats, dumps, dumped, panicked>>

TickStart ==
    /\ tick = "ready" /\ qLock = None
    /\ tick' = "loop" /\ qLock' = Ticker
    /\ UNCHANGED <<conf, tree, counts, inSched, evMap, numPhases, cur, ffLock, control, ffi, ending>>

Due == evMap # <<>> /\ Head(evMap).phase <= numPhases

(* The first event is taken out and its callback entered.                  *)
TickEvent(kind) ==
    /\ tick = "loop" /\ Due
    /\ Head(evMap).phase = numPhases
    /\ Head(evMap).event.kind = kind
    /\ evMap' = Tail(evMap)

(* SyncEvent::callback lets the control thread go on and waits for it.     *)
SyncCallback ==
    /\ TickEvent("sync")
    /\ cur' = Head(evMap).event
    /\ tick' = "sync"
    /\ arrived' = [arrived EXCEPT ![cur'.proc] = TRUE]
    /\ UNCHANGED <<conf, tree, counts, inSched, qLock, numPhases, ffLock, ctl, toggled, toggles, left,
                   ffi, ending>>

SyncReturn ==
    /\ tick = "sync" /\ left[cur.proc]
    /\ left' = [left EXCEPT ![cur.proc] = FALSE]
    /\ tick' = "loop" /\ cur' = None
    /\ UNCHANGED <<conf, tree, counts, inSched, queue, numPhases, ffLock, ctl, toggled, toggles,
                   arrived, ffi, ending>>

(* DumpEventualStats.                                                      *)
DumpCallback ==
    /\ TickEvent("dump")
    /\ dumps' = dumps + 1
    /\ terminationConditionMet' = (terminationConditionMet \/ dumps' = conf.maxDumps)
    /\ UNCHANGED <<conf, tree, counts, inSched, qLock, phase, ffLock, control, ffi, beats, dumped,
                   panicked>>

(* AdaptiveEvent::callback short of the target: another period.            *)
AdaptiveWait ==
    /\ tick = "loop" /\ Due /\ Head(evMap).phase = numPhases
    /\ LET ev == Head(evMap).event
           togo == conf.target - instrs[ev.proc]
       IN /\ ev.kind = "ffi" /\ togo > 0
          /\ evMap' = Queued(numPhases + AdaptivePeriod(togo), ev, Tail(evMap))
    /\ UNCHANGED <<conf, tree, counts, inSched, qLock, phase, ffLock, control, ffi, ending>>

(* The assertions of the callback and of ffiFire: maxRate was wrong, or    *)
(* the process is in fast-forward already.                                 *)
Misfires ==
    LET ev == Head(evMap).event
    IN /\ ev.kind = "ffi" /\ instrs[ev.proc] >= conf.target
       /\ instrs[ev.proc] - conf.target <= Rate => inFastForward[ev.proc]

(* ... and at the target: ffiFire, which needs ffLock.                     *)
AdaptiveFire ==
    /\ TickEvent("ffi") /\ ffLock = None
    /\ LET p == Head(evMap).event.proc
       IN /\ instrs[p] >= conf.target /\ ~Misfires
          /\ enterFastForward(p)
          /\ instrs' = [instrs EXCEPT ![p] = 0]
    /\ UNCHANGED <<conf, numProcs, started, restartsLeft, procExited, life, globalActiveProcs, inSched,
                   qLock, phase, ffLock, control, tracking, ending>>

(* The panic of tick() for an event of an earlier phase, or an assertion.  *)
TickPanic ==
    /\ tick = "loop" /\ Due
    /\ Head(evMap).phase = numPhases => Misfires
    /\ panicked' = TRUE /\ tick' = "dead" /\ life' = KilledAll
    /\ UNCHANGED <<conf, numProcs, started, inFastForward, restartsLeft, procExited, counts, inSched,
                   queue, numPhases, cur, ffLock, control, ffi, beats, dumps,
                   terminationConditionMet, dumped>>

TickDone ==
    /\ tick = "loop" /\ ~Due
    /\ tick' = "ticked" /\ qLock' = None
    /\ UNCHANGED <<conf, tree, counts, inSched, evMap, numPhases, cur, ffLock, control, ffi, ending>>

(* numPhases++; the threads leave the barrier, those of a process in       *)
(* fast-forward leave the scheduler (TakeBarrier).                         *)
NextPhase ==
    /\ tick = "ticked"
    /\ tick' = "bound" /\ numPhases' = numPhases + 1
    /\ inSched' = [p \in Procs |-> inSched[p] /\ ~inFastForward[p]]
    /\ UNCHANGED <<conf, tree, counts, queue, cur, ffLock, control, ffi, ending>>

-----------------------------------------------------------------------------
(* FFThread, the fast-forward control thread, and the fftoggle utility.    *)

CtlAt(p, pc) == life[p] \in {"up", "waiting"} /\ ctl[p] = pc

Toggle(p) ==
    /\ toggles[p] > 0
    /\ toggles' = [toggles EXCEPT ![p] = @ - 1]
    /\ toggled' = [toggled EXCEPT ![p] = TRUE]
    /\ UNCHANGED <<conf, tree, counts, inSched, queue, phase, ffLock, ctl, arrived, left, ffi, ending>>

(* The first lock only makes sure that the lock is taken; the next waits.  *)
CtlLock(p) ==
    /\ CtlAt(p, "init") \/ CtlAt(p, "toggle")
    /\ toggled[p]
    /\ toggled' = [toggled EXCEPT ![p] = FALSE]
    /\ ctl' = [ctl EXCEPT ![p] = IF @ = "init" THEN "toggle" ELSE "woken"]
    /\ UNCHANGED <<conf, tree, counts, inSched, queue, phase, ffLock, toggles, arrived, left, ffi,
                   ending>>

\* Mutant: a control thread does not end a process in fast-forward.
CtlTimeoutNotInFF(p) ==
    /\ CtlAt(p, "toggle") /\ terminationConditionMet /\ ~inFastForward[p]
    /\ SimEnd(p)

(* The wait times out every five seconds to see if the simulation is over. *)
CtlTimeout(p) ==
    /\ CtlAt(p, "toggle") /\ terminationConditionMet
    /\ SimEnd(p)

CtlExit(p) ==
    /\ CtlAt(p, "woken") /\ ffLock = None /\ inFastForward[p]
    /\ exitFastForward(p)
    /\ ctl' = [ctl EXCEPT ![p] = "toggle"]
    /\ UNCHANGED <<conf, numProcs, started, restartsLeft, procExited, life, globalActiveProcs, inSched,
                   queue, phase, ffLock, toggled, toggles, arrived, left, ffi, ending>>

CtlEntry(p) ==
    /\ CtlAt(p, "woken") /\ ffLock = None /\ ~inFastForward[p]
    /\ ffLock' = p
    /\ ctl' = [ctl EXCEPT ![p] = "insert"]
    /\ UNCHANGED <<conf, tree, counts, inSched, queue, phase, toggled, toggles, arrived, left, ffi,
                   ending>>

CtlInsert(p) ==
    /\ CtlAt(p, "insert")
    /\ insert(Event("sync", p), 0)
    /\ ffLock' = None
    /\ ctl' = [ctl EXCEPT ![p] = "wait"]
    /\ UNCHANGED <<conf, tree, counts, inSched, qLock, phase, toggled, toggles, arrived, left, ffi,
                   ending>>

CtlArrive(p) ==
    /\ CtlAt(p, "wait") /\ arrived[p]
    /\ arrived' = [arrived EXCEPT ![p] = FALSE]
    /\ ctl' = [ctl EXCEPT ![p] = "enter"]
    /\ UNCHANGED <<conf, tree, counts, inSched, queue, phase, ffLock, toggled, toggles, left, ffi,
                   ending>>

\* Mutant: no signal when the program has entered fast-forward by itself.
CtlEnterSilent(p) ==
    /\ CtlAt(p, "enter") /\ ffLock = None
    /\ IF inFastForward[p] THEN UNCHANGED <<inFastForward, globalFFProcs, globalSyncedFFProcs, left>>
       ELSE enterFastForward(p) /\ left' = [left EXCEPT ![p] = TRUE]
    /\ ctl' = [ctl EXCEPT ![p] = "toggle"]
    /\ UNCHANGED <<conf, numProcs, started, restartsLeft, procExited, life, globalActiveProcs, inSched,
                   queue, phase, ffLock, toggled, toggles, arrived, ffi, ending>>

CtlEnter(p) ==
    /\ CtlAt(p, "enter") /\ ffLock = None
    /\ IF inFastForward[p] THEN UNCHANGED <<inFastForward, globalFFProcs, globalSyncedFFProcs>>
       ELSE enterFastForward(p)
    /\ left' = [left EXCEPT ![p] = TRUE]
    /\ ctl' = [ctl EXCEPT ![p] = "toggle"]
    /\ UNCHANGED <<conf, numProcs, started, restartsLeft, procExited, life, globalActiveProcs, inSched,
                   queue, phase, ffLock, toggled, toggles, arrived, ffi, ending>>

-----------------------------------------------------------------------------
Ticking ==
    \/ CheckForTermination \/ TickStart \/ SyncCallback \/ SyncReturn \/ DumpCallback
    \/ AdaptiveWait \/ AdaptiveFire \/ TickPanic \/ TickDone \/ NextPhase

Control(p) ==
    CtlLock(p) \/ CtlExit(p) \/ CtlEntry(p) \/ CtlInsert(p) \/ CtlArrive(p) \/ CtlEnter(p)

Program(p) ==
    \/ Join(p) \/ RoiBegin(p) \/ RoiEnd(p) \/ Heartbeat(p) \/ FFIExit(p) \/ FFITrackNFFInterval(p)
    \/ FFIAdvance(p) \/ Fork(p) \/ ProgramEnds(p)

Process(p) ==
    Start(p) \/ ThreadExit(p) \/ CtlTimeout(p) \/ Restart(p) \/ Toggle(p) \/ Control(p) \/ Program(p)

Next == PhaseEnds \/ Ticking \/ DumpStats \/ \E p \in Procs : Process(p)

Spec == Init /\ [][Next]_vars

(* The threads of the simulator run, and so do those of a program up to    *)
(* the next point where the simulator has control; what a program or a     *)
(* user does is left open.                                                 *)
FairSpec ==
    /\ Spec
    /\ WF_vars(Ticking) /\ WF_vars(DumpStats)
    /\ \A p \in Procs :
         /\ WF_vars(Control(p)) /\ WF_vars(CtlTimeout(p)) /\ WF_vars(Start(p) \/ Restart(p))
         /\ WF_vars(~inFastForward[p] /\ ThreadExit(p))

-----------------------------------------------------------------------------
(* The two counters that pause the simulation and tell the harness whether *)
(* it should advance (zsim.h: "count of processes that are in synced FF",  *)
(* "in either synced or unsynced FF") are always the numbers of such       *)
(* processes, whoever enters or exits fast-forward: at a start, an end, a  *)
(* restart, an FFI point, a magic op or a toggle.  As long as phases are   *)
(* simulated none of them is a process that is gone; the master may be     *)
(* toggled while it waits for the others and leave its count behind.       *)
FFCounts ==
    LET FF == {p \in Procs : started[p] /\ inFastForward[p]}
    IN /\ globalFFProcs = Cardinality(FF)
       /\ globalSyncedFFProcs = Cardinality({p \in FF : getSyncedFastForward(p)})
       /\ ~panicked /\ ~terminationConditionMet /\ ~dumped => \A p \in FF : life[p] # "gone"

(* The count that pauses the simulation is part of the count of all the    *)
(* processes in fast-forward.                                              *)
SyncedAmongAll == globalSyncedFFProcs <= globalFFProcs

(* A process whose fast-forwarding pauses the others enters it only while  *)
(* the end of a phase is blocked in one of its callbacks: at any other     *)
(* moment its threads would wait at the barrier for a phase that cannot    *)
(* end.                                                                    *)
SyncedEntryAtEnd ==
    [][\A p \in Procs :
         started[p] /\ getSyncedFastForward(p) /\ ~inFastForward[p] /\ inFastForward'[p]
           => tick \in {"sync", "loop"}]_vars

(* The master dumps the final statistics once, when every process that was *)
(* ever counted has ended for good, also those to be restarted in between. *)
StatsLast ==
    dumped /\ ~panicked => \A p \in Procs : started[p] =>
                             procExited[p] = "exited" /\ life[p] = "gone"

(* AdaptiveEvent: "Adjusts period to fire on the first phase following the *)
(* target".  When a phase ends with the event still queued, the count has  *)
(* not gone past the target.                                               *)
AdaptiveOnTime ==
    tick = "ticked" =>
        \A i \in DOMAIN evMap : evMap[i].event.kind = "ffi" =>
                               instrs[evMap[i].event.proc] <= conf.target

(* EventQueue::tick never meets an event of an earlier phase: a one-shot   *)
(* event "will run on next phase" (FFThread).                              *)
EventsOnTime == tick = "loop" /\ Due => Head(evMap).phase = numPhases

(* The end of a phase gets through the event queue, unless the simulation  *)
(* is over: each control thread that makes a callback wait does "unblock   *)
(* thread in EndOfPhaseActions".                                           *)
TickEnds == tick = "ready" ~> tick = "bound" \/ panicked \/ dumped

(* When the simulation is over every process ends, in the scheduler, at a  *)
(* restart or in fast-forward, and the master dumps the statistics.        *)
TerminationCompletes == terminationConditionMet ~> dumped \/ panicked

=============================================================================
