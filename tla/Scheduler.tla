------------------------------ MODULE Scheduler ------------------------------
(***************************************************************************)
(* The thread scheduler (src/src/scheduler.h, scheduler.cpp): simulated    *)
(* threads share the contexts (cores) of the simulated machine.            *)
(*                                                                         *)
(* Every operation holds schedLock, so each of its locked sections is one  *)
(* action; operations that end in a barrier call keep the lock until the   *)
(* barrier has woken whom it can (`lock').  The barrier is used through    *)
(* what PhaseBarrier promises, with contexts as its participants.  The     *)
(* control point of each thread outside the lock is loc[t]:                *)
(*   off   not registered         join  will call join()                   *)
(*   bar   in bar.join()          sync  in bar.sync()                      *)
(*   ctx   in waitForContext()    user  executes simulated code            *)
(*   mark  after markForSleep()   sys   in a system call                   *)
(*   sleep in a patched sleep     exit  will call finish()                 *)
(*   finLeave, finEnd  inside finish()                                     *)
(*   dead  killed, finish() is up to the watchdog                          *)
(***************************************************************************)
EXTENDS Integers, FiniteSets, SequencesExt

CONSTANTS
    Threads,
    NumCores,         \* numCores
    ParallelThreads,  \* passed to the barrier
    SchedQuantum,     \* schedQuantum, in phases
    MaxSleep,         \* bound: phases a sleep takes
    Modes,            \* what Init chooses from: the mask of each thread and
                      \* the features of the programs
    None

Contexts == 0..(NumCores - 1)

AllFeatures ==
    {"sleep",      \* patched sleep system calls
     "fake",       \* system calls that only fake a leave()
     "kill",       \* processes are killed, the watchdog cleans up
     "race"}       \* a join() may overtake the leave() of the watchdog

ASSUME CoresAssumption == NumCores \in Nat \ {0}
ASSUME ModesAssumption ==
    Modes \subseteq [mask : [Threads -> SUBSET Contexts \ {{}}], features : SUBSET AllFeatures]
ASSUME QuantumAssumption == SchedQuantum \in Nat \ {0} /\ MaxSleep \in Nat
ASSUME NoneAssumption == None \notin Threads \cup Contexts

VARIABLES
    mode,           \* the masks and features
    tstate, cid, handoff, futexWord, marked, \* ThreadInfo
    due,            \* wakeupPhase - curPhase of a marked or SLEEPING thread
    cur,            \* curThread of each context, None if it is IDLE
    freeList, runQueue, outQueue, sleepQueue, fakeLeaves,
    phase,          \* curPhase % schedQuantum
    st, turn,       \* the barrier
    lock,           \* "free", or what the holder of schedLock still does
    loc,
    leaving,        \* thread whose fake leave the watchdog finished, or None
    reaped          \* killed thread the watchdog is cleaning up, or None

queues == <<freeList, runQueue, outQueue, sleepQueue, fakeLeaves>>
barVars == <<st, turn>>
clock == <<phase, mode>>
vars == <<tstate, cid, handoff, futexWord, marked, due, cur, queues, clock,
          barVars, lock, loc, leaving, reaped>>

Bar == INSTANCE PhaseBarrier WITH Threads <- Contexts, Parallel <- ParallelThreads

(* The constructor. *)
Init ==
    /\ mode \in Modes
    /\ tstate = [t \in Threads |-> "none"]
    /\ cid = [t \in Threads |-> 0]
    /\ handoff = [t \in Threads |-> None]
    /\ futexWord = [t \in Threads |-> 0]
    /\ marked = [t \in Threads |-> FALSE]
    /\ due = [t \in Threads |-> 0]
    /\ cur = [c \in Contexts |-> None]
    /\ freeList = [i \in 1..NumCores |-> i - 1]
    /\ runQueue = <<>> /\ outQueue = <<>> /\ sleepQueue = <<>> /\ fakeLeaves = <<>>
    /\ phase = 0
    /\ Bar!Init
    /\ lock = "free"
    /\ loc = [t \in Threads |-> "off"]
    /\ leaving = None /\ reaped = None

(* Does thread t hold off while the watchdog is about to leave() for it?   *)
(* Nothing in the code makes it; with "race" it does not.                  *)
Calm(t) == "race" \in mode.features \/ leaving # t

Goto(t, l) == loc' = [loc EXCEPT ![t] = l]

------------------------------------------------------------------------------
(* schedContext(): the first queued thread that may use context c. *)
SchedContext(c) ==
    LET i == SelectInSeq(runQueue, LAMBDA t : c \in mode.mask[t])
    IN  IF i = 0 THEN None ELSE runQueue[i]

(* Mutant of IdleFor: only the last context of t is tried. *)
IdleForLast(t) ==
    IF cur[cid[t]] = None /\ cid[t] \in mode.mask[t] THEN cid[t] ELSE None

(* schedThread(), first two rules: the last context of t, or the first     *)
(* idle one it may use.                                                    *)
IdleFor(t) ==
    LET i == SelectInSeq(freeList, LAMBDA c : c \in mode.mask[t])
    IN  IF cur[cid[t]] = None /\ cid[t] \in mode.mask[t] THEN cid[t]
        ELSE IF i = 0 THEN None ELSE freeList[i]

(* schedThread(), third rule: the first thread in a system call whose      *)
(* context t may take.                                                     *)
OutFor(t) ==
    LET i == SelectInSeq(outQueue, LAMBDA u : cid[u] \in mode.mask[t])
    IN  IF i = 0 THEN None ELSE outQueue[i]

(* bar.join(c) by thread t, which waits in the barrier afterwards. *)
BarJoin(c, t) == Bar!Join(c) /\ lock' = "tryWake" /\ Goto(t, "bar")

(* The lock is released without a call of the barrier. *)
NoBarrier == UNCHANGED <<barVars, lock>>

(* bar.leave(c): only the leave of a running context moves the others on. *)
BarLeave(c) ==
    Bar!Leave(c) /\ lock' = IF st[c] = "running" THEN "tryWake" ELSE "free"

------------------------------------------------------------------------------
(* start() *)
Start(t) ==
    /\ lock = "free" /\ loc[t] = "off"
    /\ tstate' = [tstate EXCEPT ![t] = "STARTED"]
    /\ cid' = [cid EXCEPT ![t] = 0]
    /\ Goto(t, "join") /\ NoBarrier
    /\ UNCHANGED <<handoff, futexWord, marked, due, cur, queues, clock, leaving, reaped>>

(* join() of a thread whose system call only faked a leave. *)
JoinFake(t) ==
    /\ lock = "free" /\ loc[t] = "join" /\ Contains(fakeLeaves, t)
    /\ fakeLeaves' = Remove(fakeLeaves, t)
    /\ Goto(t, "user") /\ NoBarrier
    /\ UNCHANGED <<tstate, cid, handoff, futexWord, marked, due, cur, freeList,
                   runQueue, outQueue, sleepQueue, clock, leaving, reaped>>

(* join() of a thread that is OUT: it still has its context. *)
JoinOut(t) ==
    /\ lock = "free" /\ loc[t] = "join" /\ tstate[t] = "OUT"
    /\ tstate' = [tstate EXCEPT ![t] = "RUNNING"]
    /\ outQueue' = Remove(outQueue, t)
    /\ BarJoin(cid[t], t)
    /\ UNCHANGED <<cid, handoff, futexWord, marked, due, cur, freeList, runQueue,
                   sleepQueue, fakeLeaves, clock, leaving, reaped>>

ArrivesAsleep(t) ==  \* mutant: an interrupted sleeper stays in sleepQueue
    /\ lock = "free" /\ loc[t] = "join" /\ Calm(t)
    /\ ~Contains(fakeLeaves, t) /\ tstate[t] # "OUT"
    /\ UNCHANGED sleepQueue

(* The threads join() looks for a context for; one that is SLEEPING ended  *)
(* its sleep early.                                                        *)
Arrives(t) ==
    /\ lock = "free" /\ loc[t] = "join" /\ Calm(t)
    /\ ~Contains(fakeLeaves, t) /\ tstate[t] # "OUT"
    /\ sleepQueue' = Remove(sleepQueue, t)

(* schedule(t, c) *)
Schedule(t, c) ==
    /\ cid' = [cid EXCEPT ![t] = c]
    /\ cur' = [cur EXCEPT ![c] = t]

(* join() of a thread that gets an idle context. *)
JoinIdle(t) ==
    LET c == IdleFor(t)
    IN  /\ Arrives(t) /\ c # None
        /\ freeList' = Remove(freeList, c)
        /\ tstate' = [tstate EXCEPT ![t] = "RUNNING"]
        /\ Schedule(t, c) /\ BarJoin(c, t)
        /\ UNCHANGED <<handoff, futexWord, marked, due, runQueue, outQueue,
                       fakeLeaves, clock, leaving, reaped>>

(* join() of a thread that takes the context of one that is OUT. *)
JoinSteal(t) ==
    LET u == OutFor(t)
    IN  /\ Arrives(t) /\ IdleFor(t) = None /\ u # None
        /\ outQueue' = Remove(outQueue, u)
        /\ tstate' = [tstate EXCEPT ![u] = "BLOCKED", ![t] = "RUNNING"]
        /\ Schedule(t, cid[u]) /\ BarJoin(cid[u], t)
        /\ UNCHANGED <<handoff, futexWord, marked, due, freeList, runQueue,
                       fakeLeaves, clock, leaving, reaped>>

(* join() of a thread that finds no context and waits for one. *)
JoinQueue(t) ==
    /\ Arrives(t) /\ IdleFor(t) = None /\ OutFor(t) = None
    /\ tstate' = [tstate EXCEPT ![t] = "QUEUED"]
    /\ runQueue' = Append(runQueue, t)
    /\ futexWord' = [futexWord EXCEPT ![t] = 1]
    /\ Goto(t, "ctx") /\ NoBarrier
    /\ UNCHANGED <<cid, handoff, marked, due, cur, freeList, outQueue, fakeLeaves,
                   clock, leaving, reaped>>

(* waitForContext() returns: the waker scheduled t on a context that is in *)
(* the barrier already (every caller of wakeup() passes needsJoin = false). *)
GotContext(t) ==
    /\ loc[t] = "ctx" /\ futexWord[t] = 0
    /\ Goto(t, "user")
    /\ UNCHANGED <<tstate, cid, handoff, futexWord, marked, due, cur, queues,
                   clock, barVars, lock, leaving, reaped>>

(* bar.join() returns. *)
JoinReturns(t) ==
    /\ loc[t] = "bar" /\ st[cid[t]] = "running"
    /\ Goto(t, "user")
    /\ UNCHANGED <<tstate, cid, handoff, futexWord, marked, due, cur, queues,
                   clock, barVars, lock, leaving, reaped>>

------------------------------------------------------------------------------
SleepPositionFront(t) == 1  \* mutant: the queue is not ordered

(* Where leave() inserts t: the sleep queue is ordered by wakeup phase. *)
SleepPosition(t) ==
    LET i == SelectInSeq(sleepQueue, LAMBDA u : due[u] > due[t])
    IN  IF i = 0 THEN Len(sleepQueue) + 1 ELSE i

GoToSleep(t) ==
    /\ marked' = [marked EXCEPT ![t] = FALSE]
    /\ sleepQueue' = IF marked[t] THEN InsertAt(sleepQueue, SleepPosition(t), t)
                     ELSE sleepQueue

(* leave() of t with no queued thread for its context: a thread that is    *)
(* going to sleep frees the context, any other one retains it (OUT).       *)
LeaveAlone(t) ==
    LET c == cid[t]
    IN  /\ SchedContext(c) = None
        /\ GoToSleep(t)
        /\ tstate' = [tstate EXCEPT ![t] = IF marked[t] THEN "SLEEPING" ELSE "OUT"]
        /\ cur' = IF marked[t] THEN [cur EXCEPT ![c] = None] ELSE cur
        /\ freeList' = IF marked[t] THEN Append(freeList, c) ELSE freeList
        /\ outQueue' = IF marked[t] THEN outQueue ELSE Append(outQueue, t)
        /\ BarLeave(c)
        /\ UNCHANGED <<cid, futexWord, runQueue>>

(* leave() of t with a queued thread that takes over its context: the      *)
(* context does not leave the barrier.                                     *)
LeaveReplaced(t) ==
    LET c == cid[t]
        inTh == SchedContext(c)
    IN  /\ inTh # None
        /\ GoToSleep(t)
        /\ tstate' = [tstate EXCEPT ![t] = IF marked[t] THEN "SLEEPING" ELSE "BLOCKED",
                                    ![inTh] = "RUNNING"]
        /\ Schedule(inTh, c)
        /\ futexWord' = [futexWord EXCEPT ![inTh] = 0]
        /\ runQueue' = Remove(runQueue, inTh)
        /\ NoBarrier
        /\ UNCHANGED <<freeList, outQueue>>

Leave(t) ==
    /\ LeaveAlone(t) \/ LeaveReplaced(t)
    /\ UNCHANGED <<handoff, due, fakeLeaves, clock>>

(* syscallLeave() of a black-listed system call, or a leave() to enter     *)
(* fast-forwarding, after which the thread calls finish().                 *)
SyscallLeave(t) ==
    /\ lock = "free" /\ loc[t] = "user"
    /\ Leave(t)
    /\ \E l \in {"sys", "exit"} : Goto(t, l)
    /\ UNCHANGED <<leaving, reaped>>

(* syscallLeave() of any other system call: the thread stays in the        *)
(* barrier and is only noted in fakeLeaves.                                *)
SyscallFake(t) ==
    /\ lock = "free" /\ loc[t] = "user" /\ "fake" \in mode.features
    /\ fakeLeaves' = Append(fakeLeaves, t)
    /\ Goto(t, "sys") /\ NoBarrier
    /\ UNCHANGED <<tstate, cid, handoff, futexWord, marked, due, cur, freeList,
                   runQueue, outQueue, sleepQueue, clock, leaving, reaped>>

(* The system call returns, or was the exit of the thread. *)
SyscallReturns(t) ==
    /\ loc[t] = "sys"
    /\ \E l \in {"join", "exit"} : Goto(t, l)
    /\ UNCHANGED <<tstate, cid, handoff, futexWord, marked, due, cur, queues,
                   clock, barVars, lock, leaving, reaped>>

(* markForSleep(), before the system call of t is turned into a FUTEX_WAIT *)
(* on its own word.                                                        *)
MarkForSleep(t) ==
    /\ lock = "free" /\ loc[t] = "user" /\ "sleep" \in mode.features
    /\ Goto(t, "mark")
    /\ marked' = [marked EXCEPT ![t] = TRUE]
    /\ \E n \in 1..MaxSleep : due' = [due EXCEPT ![t] = n]
    /\ futexWord' = [futexWord EXCEPT ![t] = 1]
    /\ NoBarrier
    /\ UNCHANGED <<tstate, cid, handoff, cur, queues, clock, leaving, reaped>>

(* syscallLeave() of a thread marked for sleep. *)
SleepLeave(t) ==
    /\ lock = "free" /\ loc[t] = "mark"
    /\ Leave(t)
    /\ Goto(t, "sleep")
    /\ UNCHANGED <<leaving, reaped>>

(* The FUTEX_WAIT returns because the scheduler woke t or because of a     *)
(* signal.                                                                 *)
SleepWoken(t) ==
    /\ loc[t] = "sleep" /\ futexWord[t] = 0
    /\ Goto(t, "join")
    /\ UNCHANGED <<tstate, cid, handoff, futexWord, marked, due, cur, queues,
                   clock, barVars, lock, leaving, reaped>>
SleepInterrupted(t) ==
    /\ loc[t] = "sleep" /\ futexWord[t] = 1
    /\ Goto(t, "join")
    /\ UNCHANGED <<tstate, cid, handoff, futexWord, marked, due, cur, queues,
                   clock, barVars, lock, leaving, reaped>>

(* A timeout system call returns early because of its event, and calls     *)
(* notifySleepEnd().                                                       *)
NotifySleepEnd(t) ==
    /\ lock = "free" /\ loc[t] = "sleep"
    /\ tstate[t] = "SLEEPING"
    /\ sleepQueue' = Remove(sleepQueue, t)
    /\ tstate' = [tstate EXCEPT ![t] = "BLOCKED"]
    /\ Goto(t, "join") /\ NoBarrier
    /\ UNCHANGED <<cid, handoff, futexWord, marked, due, cur, freeList, runQueue,
                   outQueue, fakeLeaves, clock, leaving, reaped>>

------------------------------------------------------------------------------
(* sync(): the barrier call. *)
Sync(t) ==
    /\ lock = "free" /\ loc[t] = "user"
    /\ Bar!Sync(cid[t])
    /\ lock' = "tryWake"
    /\ Goto(t, "sync")
    /\ UNCHANGED <<tstate, cid, handoff, futexWord, marked, due, cur, queues,
                   clock, leaving, reaped>>

(* sync() returns when there is nobody to hand the context to. *)
SyncReturns(t) ==
    /\ loc[t] = "sync" /\ st[cid[t]] = "running" /\ handoff[t] = None
    /\ Goto(t, "user")
    /\ UNCHANGED <<tstate, cid, handoff, futexWord, marked, due, cur, queues,
                   clock, barVars, lock, leaving, reaped>>

(* The rest of sync() for a thread that has to hand its context to dst:    *)
(* the contexts t might move to are looked up after dst took its own.      *)
MustHandOff(t) ==
    /\ lock = "free" /\ loc[t] = "sync" /\ st[cid[t]] = "running"
    /\ handoff[t] # None
    /\ handoff' = [handoff EXCEPT ![t] = None]
    /\ futexWord' = [futexWord EXCEPT ![handoff[t]] = 0,
                                      ![t] = IF IdleFor(t) = None /\ OutFor(t) = None
                                             THEN 1 ELSE @]

HandOffAndWait(t) ==
    LET dst == handoff[t]
    IN  /\ MustHandOff(t) /\ IdleFor(t) = None /\ OutFor(t) = None
        /\ tstate' = [tstate EXCEPT ![t] = "QUEUED", ![dst] = "RUNNING"]
        /\ Schedule(dst, cid[t])
        /\ runQueue' = Append(runQueue, t)
        /\ Goto(t, "ctx") /\ NoBarrier
        /\ UNCHANGED <<marked, due, freeList, outQueue, sleepQueue, fakeLeaves,
                       clock, leaving, reaped>>

HandOffAndMove(t) ==
    LET dst == handoff[t]
        u == IF IdleFor(t) = None THEN OutFor(t) ELSE None
        c == IF IdleFor(t) # None THEN IdleFor(t) ELSE cid[u]
    IN  /\ MustHandOff(t) /\ (IdleFor(t) # None \/ OutFor(t) # None)
        /\ tstate' = [v \in Threads |-> IF v = dst THEN "RUNNING"
                                        ELSE IF v = u THEN "BLOCKED" ELSE tstate[v]]
        /\ cid' = [cid EXCEPT ![dst] = cid[t], ![t] = c]
        /\ cur' = [cur EXCEPT ![cid[t]] = dst, ![c] = t]
        /\ freeList' = Remove(freeList, c)
        /\ outQueue' = Remove(outQueue, u)
        /\ BarJoin(c, t)
        /\ UNCHANGED <<marked, due, runQueue, sleepQueue, fakeLeaves, clock,
                       leaving, reaped>>

------------------------------------------------------------------------------
(* The holder of the lock goes on in the barrier: it wakes contexts as     *)
(* long as it can, ends the phase if it is over, and releases the lock.    *)
BarWake(c) ==
    /\ lock = "tryWake" /\ Bar!Wake(c)
    /\ UNCHANGED <<tstate, cid, handoff, futexWord, marked, due, cur, queues, clock,
                   lock, loc, leaving, reaped>>

BarWakeDone ==
    /\ lock = "tryWake" /\ \A c \in Contexts : ~Bar!CanWake(c)
    /\ lock' = IF Bar!PhaseOver THEN "endPhase" ELSE "free"
    /\ UNCHANGED <<tstate, cid, handoff, futexWord, marked, due, cur, queues, clock,
                   barVars, loc, leaving, reaped>>

(* The random assignments of schedTick(): in queue order, each thread      *)
(* takes any context of its mask that is still available.                  *)
Assignments ==
    {f \in [ToSet(runQueue) -> Contexts \cup {None}] :
        \A i \in DOMAIN runQueue :
            LET t == runQueue[i]
                open == mode.mask[t] \ {f[runQueue[j]] : j \in 1..(i - 1)}
            IN  IF open = {} THEN f[t] = None ELSE f[t] \in open}

SchedTickNever == UNCHANGED <<handoff, runQueue>>  \* mutant: no time slices

(* schedTick(): the current thread of the context becomes the victim. *)
SchedTick ==
    \E f \in Assignments :
        LET takes(t, u) == f[t] # None /\ cur[f[t]] = u
        IN  /\ handoff' = [u \in Threads |->
                 IF \E t \in DOMAIN f : takes(t, u)
                 THEN CHOOSE t \in DOMAIN f : takes(t, u) ELSE handoff[u]]
            /\ runQueue' = SelectSeq(runQueue, LAMBDA t : f[t] = None)

(* The sleepers at the front of the queue whose time has come. *)
Expired ==
    {sleepQueue[i] : i \in {k \in DOMAIN sleepQueue :
                              \A j \in 1..k : due[sleepQueue[j]] <= 1}}

(* callback(): the end of a phase. *)
Callback ==
    /\ tstate' = [t \in Threads |-> IF t \in Expired THEN "BLOCKED" ELSE tstate[t]]
    /\ futexWord' = [t \in Threads |-> IF t \in Expired THEN 0 ELSE futexWord[t]]
    /\ sleepQueue' = SelectSeq(sleepQueue, LAMBDA t : t \notin Expired)
    /\ due' = [t \in Threads |-> IF marked[t] \/ tstate[t] = "SLEEPING"
                                 THEN due[t] - 1 ELSE due[t]]
    /\ phase' = (phase + 1) % SchedQuantum /\ mode' = mode
    /\ IF runQueue # <<>> /\ phase' = 0 THEN SchedTick
       ELSE UNCHANGED <<handoff, runQueue>>
    /\ UNCHANGED <<cid, marked, cur, freeList, outQueue, fakeLeaves>>

EndPhase ==
    /\ lock = "endPhase"
    /\ Callback
    /\ Bar!EndPhase
    /\ lock' = "tryWake"
    /\ UNCHANGED <<loc, leaving, reaped>>

------------------------------------------------------------------------------
(* The watchdog drives time when every used context belongs to a thread    *)
(* that is OUT and some thread sleeps.                                     *)
Scheduled == {c \in Contexts : cur[c] # None}

WatchdogAdvance ==
    /\ lock = "free" /\ leaving = None /\ reaped = None
    /\ Cardinality(Scheduled) = Len(outQueue) /\ sleepQueue # <<>>
    /\ Callback /\ NoBarrier
    /\ UNCHANGED <<loc, leaving, reaped>>

WatchdogUnfakeTwo ==  \* mutant: off by one in the number of fake leaves
    /\ lock = "free" /\ leaving = None /\ reaped = None /\ Len(fakeLeaves) > 1
    /\ leaving' = Head(fakeLeaves)
    /\ fakeLeaves' = Tail(fakeLeaves)
    /\ NoBarrier
    /\ UNCHANGED <<tstate, cid, handoff, futexWord, marked, due, cur, freeList,
                   runQueue, outQueue, sleepQueue, clock, loc, reaped>>

(* The watchdog takes a stalled system call for a blocking one: it ends    *)
(* the fake leave, releases the lock, and calls leave() for the thread.    *)
WatchdogUnfake ==
    /\ lock = "free" /\ leaving = None /\ reaped = None /\ fakeLeaves # <<>>
    /\ leaving' = Head(fakeLeaves)
    /\ fakeLeaves' = Tail(fakeLeaves)
    /\ NoBarrier
    /\ UNCHANGED <<tstate, cid, handoff, futexWord, marked, due, cur, freeList,
                   runQueue, outQueue, sleepQueue, clock, loc, reaped>>

WatchdogLeave ==
    /\ lock = "free" /\ leaving # None
    /\ Leave(leaving)
    /\ leaving' = None
    /\ UNCHANGED <<loc, reaped>>

------------------------------------------------------------------------------
(* The process of t is killed while no thread of it holds the lock, and    *)
(* queues its cleanup.                                                     *)
Kill(t) ==
    /\ lock = "free" /\ "kill" \in mode.features /\ Calm(t)
    /\ loc[t] \notin {"off", "exit", "finLeave", "finEnd", "dead"}
    /\ Goto(t, "dead") /\ NoBarrier
    /\ UNCHANGED <<tstate, cid, handoff, futexWord, marked, due, cur, queues,
                   clock, leaving, reaped>>

(* processCleanup() in the watchdog: it ends the sleep of t and calls      *)
(* finish().                                                               *)
ProcessCleanup(t) ==
    /\ lock = "free" /\ leaving = None /\ reaped = None /\ loc[t] = "dead"
    /\ sleepQueue' = Remove(sleepQueue, t)
    /\ tstate' = [tstate EXCEPT ![t] = IF @ = "SLEEPING" THEN "BLOCKED" ELSE @]
    /\ reaped' = t
    /\ Goto(t, "exit") /\ NoBarrier
    /\ UNCHANGED <<cid, handoff, futexWord, marked, due, cur, freeList, runQueue,
                   outQueue, fakeLeaves, clock, leaving>>

(* finish() of a thread that has not left, or only faked it: it releases   *)
(* the lock and calls leave().                                             *)
FinishUnlock(t) ==
    /\ lock = "free" /\ loc[t] = "exit" /\ Calm(t) /\ tstate[t] = "RUNNING"
    /\ fakeLeaves' = Remove(fakeLeaves, t)
    /\ Goto(t, "finLeave") /\ NoBarrier
    /\ UNCHANGED <<tstate, cid, handoff, futexWord, marked, due, cur, freeList,
                   runQueue, outQueue, sleepQueue, clock, leaving, reaped>>

FinishLeave(t) ==
    /\ lock = "free" /\ loc[t] = "finLeave"
    /\ Leave(t)
    /\ Goto(t, "finEnd")
    /\ UNCHANGED <<leaving, reaped>>

(* What finish() takes t out of: its queue, and the context it retained.   *)
(* Mutant: t stays in outQueue and keeps the context.                      *)
LeaveQueuesNotOut(t) ==
    /\ sleepQueue' = Remove(sleepQueue, t)
    /\ runQueue' = Remove(runQueue, t)
    /\ UNCHANGED <<outQueue, cur, freeList>>
LeaveQueues(t) ==
    /\ sleepQueue' = Remove(sleepQueue, t)
    /\ runQueue' = Remove(runQueue, t)
    /\ outQueue' = Remove(outQueue, t)
    /\ cur' = IF tstate[t] = "OUT" THEN [cur EXCEPT ![cid[t]] = None] ELSE cur
    /\ freeList' = IF tstate[t] = "OUT" THEN Append(freeList, cid[t]) ELSE freeList

(* The rest of finish(): t leaves its queue and is deleted. *)
Finish(t) ==
    /\ lock = "free" /\ Calm(t)
    /\ loc[t] = "finEnd" \/ (loc[t] = "exit" /\ tstate[t] # "RUNNING")
    /\ LeaveQueues(t)
    /\ tstate' = [tstate EXCEPT ![t] = "none"]
    /\ cid' = [cid EXCEPT ![t] = 0]
    /\ handoff' = [handoff EXCEPT ![t] = None]
    /\ futexWord' = [futexWord EXCEPT ![t] = 0]
    /\ marked' = [marked EXCEPT ![t] = FALSE]
    /\ due' = [due EXCEPT ![t] = 0]
    /\ reaped' = IF reaped = t THEN None ELSE reaped
    /\ Goto(t, "off") /\ NoBarrier
    /\ UNCHANGED <<fakeLeaves, clock, leaving>>

------------------------------------------------------------------------------
Holder ==
    \/ \E c \in Contexts : BarWake(c)
    \/ BarWakeDone
    \/ EndPhase

Watchdog == WatchdogAdvance \/ WatchdogUnfake \/ WatchdogLeave

(* What a thread does inside the scheduler once it called it. *)
Scheduling(t) ==
    \/ JoinFake(t) \/ JoinOut(t) \/ JoinIdle(t) \/ JoinSteal(t) \/ JoinQueue(t)
    \/ GotContext(t) \/ JoinReturns(t)
    \/ SyncReturns(t) \/ HandOffAndWait(t) \/ HandOffAndMove(t)
    \/ SleepLeave(t) \/ SleepWoken(t)
    \/ FinishUnlock(t) \/ FinishLeave(t) \/ Finish(t)

(* What the simulated program chooses to do. *)
Program(t) ==
    \/ Start(t) \/ Sync(t)
    \/ SyscallLeave(t) \/ SyscallFake(t) \/ SyscallReturns(t)
    \/ MarkForSleep(t) \/ SleepInterrupted(t) \/ NotifySleepEnd(t)

Next ==
    \/ Holder \/ Watchdog
    \/ \E t \in Threads : Scheduling(t) \/ Program(t) \/ Kill(t) \/ ProcessCleanup(t)

Spec == Init /\ [][Next]_vars

(* Fairness.  The holder of the lock goes on; a thread that waits for the  *)
(* lock gets it although others compete for it (the futex wakes a waiter   *)
(* on every release, so being passed over for ever is not a behaviour of   *)
(* the host); a context on which simulated code runs again and again       *)
(* reaches the end of the phase, whichever threads run there, because the  *)
(* cycles of the core add up; the watchdog thread runs.  System calls may  *)
(* take for ever, nobody has to start, and interruptions and kills never   *)
(* have to happen.                                                         *)
Fairness ==
    /\ WF_vars(Holder)
    /\ \A t \in Threads : SF_vars(Scheduling(t))
    /\ \A c \in Contexts : SF_vars(\E t \in Threads : cid[t] = c /\ Sync(t))
    /\ SF_vars(WatchdogLeave)
    /\ SF_vars(WatchdogUnfake)
    /\ SF_vars(WatchdogAdvance)

FairSpec == Spec /\ Fairness

------------------------------------------------------------------------------
Handed == {handoff[u] : u \in Threads} \ {None}

(* Threads, contexts, queues and barrier agree on where every thread is.   *)
(* A context is used exactly by the RUNNING or OUT thread that names it,   *)
(* the idle ones are the free list, and whoever executes simulated code or *)
(* waits in the barrier has one of its mask.  A thread is in exactly the   *)
(* queue its state says, once; a QUEUED thread is in the run queue or      *)
(* about to get the context of exactly one other thread, so none is lost,  *)
(* and whoever is woken next has its futex word at 1.  A context is out of *)
(* the barrier exactly when it is idle or its thread is OUT (the asserts   *)
(* of schedule(), deschedule(), leave(), finish(), wakeup(), the lists and *)
(* the barrier).                                                           *)
StatesAgree ==
    LET in(s) == {t \in Threads : tstate[t] = s}
    IN  /\ \A c \in Contexts :
             cur[c] # None => cid[cur[c]] = c /\ tstate[cur[c]] \in {"RUNNING", "OUT"}
        /\ \A t \in in("RUNNING") \cup in("OUT") :
             cur[cid[t]] = t /\ cid[t] \in mode.mask[t]
        /\ IsInjective(freeList) /\ ToSet(freeList) = Contexts \ Scheduled
        /\ \A t \in Threads :
             loc[t] \in {"user", "mark", "bar", "sync"} => tstate[t] = "RUNNING"
        /\ \A q \in {runQueue, outQueue, sleepQueue, fakeLeaves} : IsInjective(q)
        /\ ToSet(outQueue) = in("OUT")
        /\ ToSet(sleepQueue) = in("SLEEPING")
        /\ ToSet(fakeLeaves) \subseteq in("RUNNING")
        /\ ToSet(runQueue) \cap Handed = {}
        /\ ToSet(runQueue) \cup Handed = in("QUEUED")
        /\ \A t, u \in Threads : handoff[t] = handoff[u] => t = u \/ handoff[t] = None
        /\ \A t \in in("QUEUED") \cup in("SLEEPING") : futexWord[t] = 1
        /\ \A c \in Contexts :
             (st[c] = "out") <=> (cur[c] = None \/ tstate[cur[c]] = "OUT")
        /\ \A t \in Threads :
             loc[t] \in {"user", "mark"} \/ Contains(fakeLeaves, t) =>
                 st[cid[t]] = "running"

(* The NOTE in schedTick(): a queued thread never matches an idle context, *)
(* and not one in outQueue either, whatever the masks.                     *)
NoIdleMatch ==
    \A t \in ToSet(runQueue) : \A c \in mode.mask[t] :
        cur[c] # None /\ tstate[cur[c]] = "RUNNING"

(* The assert of callback(), wakeupPhase == curPhase: no sleeper is        *)
(* overdue, because the queue is ordered by wakeup phase and a thread      *)
(* between markForSleep() and leave() keeps the phase from ending.         *)
SleepersOnTime ==
    /\ \A i, j \in DOMAIN sleepQueue :
         i < j => due[sleepQueue[i]] <= due[sleepQueue[j]]
    /\ \A t \in Threads : marked[t] \/ tstate[t] = "SLEEPING" => due[t] >= 1

(* The asserts of join(): a thread that is not in a fake leave comes in    *)
(* from a leave, a start or a sleep and is not marked for another sleep.   *)
JoinState ==
    \A t \in Threads : loc[t] = "join" /\ Calm(t) /\ ~Contains(fakeLeaves, t) =>
        tstate[t] \in {"OUT", "STARTED", "BLOCKED", "SLEEPING"} /\ ~marked[t]

(* The comment at the end of finish(), "noone holds pointer to th, it's    *)
(* out from all queues": nothing refers to a thread that is deleted.       *)
FinishedUnreferenced ==
    \A t \in Threads : tstate[t] = "none" =>
        /\ t \notin Handed \cup {cur[c] : c \in Contexts}
        /\ \A q \in {runQueue, outQueue, sleepQueue, fakeLeaves} : ~Contains(q, t)

(* A thread that waits for a context gets one. *)
QueuedRuns ==
    \A t \in Threads : tstate[t] = "QUEUED" ~> tstate[t] # "QUEUED"

(* A thread that ends its part of a phase goes on: neither system calls of *)
(* others that block, whether they left or faked it, nor the lack of       *)
(* contexts stop the simulation.                                           *)
SyncEnds ==
    \A t \in Threads : loc[t] = "sync" ~> loc[t] = "user"
==============================================================================
