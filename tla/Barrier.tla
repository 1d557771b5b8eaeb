------------------------------- MODULE Barrier -------------------------------
(***************************************************************************)
(* The phase barrier of the simulator (src/src/barrier.h).                 *)
(*                                                                         *)
(* Every operation runs with the scheduler lock held, so at most one       *)
(* thread is inside the barrier: `pc' is the control point of that thread, *)
(* `caller' its identity and `op' the operation it executes.  The loops of *)
(* checkRunList and checkEndPhase are one step per iteration, because the  *)
(* threads that were told to wait read their own `state' and `futexWord'   *)
(* without the lock: `wait[t]' is the control point of thread t in that    *)
(* unlocked part.                                                          *)
(***************************************************************************)
EXTENDS Integers, FiniteSets

CONSTANTS
    MaxThreads,      \* MAX_THREADS: entries of threadList and runList
    ParallelThreads, \* parallelThreads: threads that may run at once
    CleanupPeriod,   \* phases between two LEFT -> OFFLINE passes (32)
    FreshExit        \* may a thread be killed before its first wakeup?

ASSUME MaxThreadsAssumption == MaxThreads \in Nat \ {0}
ASSUME ParallelThreadsAssumption == ParallelThreads \in Nat \ {0}
ASSUME CleanupPeriodAssumption == CleanupPeriod \in Nat \ {0}
ASSUME FreshExitAssumption == FreshExit \in BOOLEAN

Threads == 0..(MaxThreads - 1)
States == {"OFFLINE", "WAITING", "RUNNING", "LEFT"}

VARIABLES
    state, futexWord, lastIdx,     \* ThreadSyncInfo, one entry per thread
    runList, runListSize, curThreadIdx,
    runningThreads, leftThreads, phaseCount,
    pc, pass, caller, op,          \* the thread that holds the scheduler lock
    idx, newSize,                  \* the locals of checkEndPhase
    wait,                          \* where each thread is outside the lock
    fresh                          \* threads not woken since they were appended

counters == <<runListSize, curThreadIdx, runningThreads, leftThreads, phaseCount>>
holder == <<pass, caller, op, idx, newSize>>
vars == <<state, futexWord, lastIdx, runList, counters, pc, holder, wait, fresh>>

Running == {t \in Threads : state[t] = "RUNNING"}
Left == {t \in Threads : state[t] = "LEFT"}
Waiting == {t \in Threads : state[t] = "WAITING"}

(* The constructor.  lastIdx is not initialised: any value. *)
Init ==
    /\ state = [t \in Threads |-> "OFFLINE"]
    /\ futexWord = [t \in Threads |-> 0]
    /\ lastIdx \in [Threads -> 0..MaxThreads]
    /\ runList = [i \in Threads |-> 0]
    /\ runListSize = 0 /\ curThreadIdx = 0
    /\ runningThreads = 0 /\ leftThreads = 0 /\ phaseCount = 0
    /\ pc = "free" /\ pass = 1 /\ caller = 0 /\ op = "leave"
    /\ idx = 0 /\ newSize = 0
    /\ wait = [t \in Threads |-> "out"]
    /\ fresh = {}

(* tryWakeNext(t), called by operation o: first pass of checkRunList. *)
EnterTryWakeNext(t, o) ==
    /\ pc' = "scan" /\ pass' = 1 /\ caller' = t /\ op' = o
    /\ UNCHANGED <<idx, newSize>>

------------------------------------------------------------------------------
(* join(): a thread that is OFFLINE is appended to the run list. *)
JoinOffline(t) ==
    /\ pc = "free" /\ wait[t] = "out" /\ state[t] = "OFFLINE"
    /\ runList' = [runList EXCEPT ![runListSize] = t]
    /\ runListSize' = runListSize + 1
    /\ fresh' = fresh \cup {t}
    /\ state' = [state EXCEPT ![t] = "WAITING"]
    /\ futexWord' = [futexWord EXCEPT ![t] = 1]
    /\ wait' = [wait EXCEPT ![t] = "calling"]
    /\ EnterTryWakeNext(t, "join")
    /\ UNCHANGED <<lastIdx, curThreadIdx, runningThreads, leftThreads, phaseCount>>

(* Has the slot of t already been passed in this phase? *)
SlotNeverPassed(t) == FALSE  \* mutant: no same-phase reschedule
SlotPassed(t) == curThreadIdx > lastIdx[t]

(* join(): a thread that LEFT and whose slot was already passed in this    *)
(* phase is swapped with the last slot passed, and will be checked next.   *)
JoinLeft(t) ==
    LET prev == lastIdx[t]
        again == SlotPassed(t)
        last == curThreadIdx - 1
        other == runList[last]
    IN  /\ pc = "free" /\ wait[t] = "out" /\ state[t] = "LEFT"
        /\ leftThreads' = leftThreads - 1
        /\ curThreadIdx' = IF again THEN last ELSE curThreadIdx
        /\ runList' = IF again
                      THEN [runList EXCEPT ![prev] = other, ![last] = t]
                      ELSE runList
        /\ lastIdx' = IF again
                      THEN [lastIdx EXCEPT ![other] = prev, ![t] = last]
                      ELSE lastIdx
        /\ state' = [state EXCEPT ![t] = "WAITING"]
        /\ futexWord' = [futexWord EXCEPT ![t] = 1]
        /\ wait' = [wait EXCEPT ![t] = "calling"]
        /\ EnterTryWakeNext(t, "join")
        /\ UNCHANGED <<runListSize, runningThreads, phaseCount, fresh>>

(* leave() of a thread that runs, by the thread itself or on its behalf. *)
LeaveRunning(t) ==
    /\ pc = "free" /\ state[t] = "RUNNING"
    /\ state' = [state EXCEPT ![t] = "LEFT"]
    /\ leftThreads' = leftThreads + 1
    /\ runningThreads' = runningThreads - 1
    /\ wait' = [wait EXCEPT ![t] = "out"]
    /\ EnterTryWakeNext(t, "leave")
    /\ UNCHANGED <<futexWord, lastIdx, runList, runListSize, curThreadIdx,
                   phaseCount, fresh>>

(* leave() on behalf of a thread that was killed while it waited. *)
LeaveWaiting(t) ==
    /\ pc = "free" /\ state[t] = "WAITING"
    /\ t \in fresh => FreshExit
    /\ state' = [state EXCEPT ![t] = "LEFT"]
    /\ leftThreads' = leftThreads + 1
    /\ wait' = [wait EXCEPT ![t] = "out"]
    /\ fresh' = fresh \ {t}
    /\ UNCHANGED <<futexWord, lastIdx, runList, runListSize, curThreadIdx,
                   runningThreads, phaseCount, pc, holder>>

(* sync(): the thread finished its part of the phase. *)
Sync(t) ==
    /\ pc = "free" /\ wait[t] = "user" /\ state[t] = "RUNNING"
    /\ futexWord' = [futexWord EXCEPT ![t] = 1]
    /\ state' = [state EXCEPT ![t] = "WAITING"]
    /\ runningThreads' = runningThreads - 1
    /\ wait' = [wait EXCEPT ![t] = "calling"]
    /\ EnterTryWakeNext(t, "sync")
    /\ UNCHANGED <<lastIdx, runList, runListSize, curThreadIdx, leftThreads,
                   phaseCount, fresh>>

------------------------------------------------------------------------------
CanScan == runningThreads < ParallelThreads /\ curThreadIdx < runListSize

(* checkRunList(): the thread at curThreadIdx waits and becomes RUNNING;   *)
(* its state is written before its futex word.                             *)
ScanWaiting ==
    LET t == runList[curThreadIdx]
    IN  /\ pc = "scan" /\ CanScan /\ state[t] = "WAITING"
        /\ curThreadIdx' = curThreadIdx + 1
        /\ state' = [state EXCEPT ![t] = "RUNNING"]
        /\ lastIdx' = [lastIdx EXCEPT ![t] = curThreadIdx]
        /\ fresh' = fresh \ {t}
        /\ pc' = "wake"
        /\ UNCHANGED <<futexWord, runList, runListSize, runningThreads,
                       leftThreads, phaseCount, holder, wait>>

(* checkRunList(): compare-and-swap of the futex word and FUTEX_WAKE of    *)
(* the thread that was just set RUNNING.                                   *)
WakeThread ==
    LET t == runList[curThreadIdx - 1]
    IN  /\ pc = "wake" /\ futexWord[t] = 1
        /\ futexWord' = [futexWord EXCEPT ![t] = 0]
        /\ wait' = [wait EXCEPT ![t] = IF @ = "asleep" THEN "user" ELSE @]
        /\ runningThreads' = runningThreads + 1
        /\ pc' = "scan"
        /\ UNCHANGED <<state, lastIdx, runList, runListSize, curThreadIdx,
                       leftThreads, phaseCount, holder, fresh>>

(* checkRunList(): the thread at curThreadIdx does not wait. *)
ScanSkip ==
    /\ pc = "scan" /\ CanScan /\ state[runList[curThreadIdx]] # "WAITING"
    /\ curThreadIdx' = curThreadIdx + 1
    /\ UNCHANGED <<state, futexWord, lastIdx, runList, runListSize,
                   runningThreads, leftThreads, phaseCount, pc, holder, wait, fresh>>

(* The loop of checkRunList ends: checkEndPhase after the first pass, and  *)
(* after the second the lock is released and a joining or syncing caller   *)
(* goes on to look at its own state.                                       *)
ScanDone ==
    /\ pc = "scan" /\ ~CanScan
    /\ pc' = IF pass = 1 THEN "endPhase" ELSE "free"
    /\ wait' = IF pass = 2 /\ op # "leave"
               THEN [wait EXCEPT ![caller] = "check"] ELSE wait
    /\ UNCHANGED <<state, futexWord, lastIdx, runList, counters, holder, fresh>>

------------------------------------------------------------------------------
EndOfPhaseNobodyLeft ==  \* mutant: threads that LEFT hold up the phase
    curThreadIdx = runListSize /\ runningThreads = 0 /\ leftThreads = 0
EndOfPhaseEarly ==       \* mutant: does not wait for the running threads
    curThreadIdx = runListSize /\ leftThreads # runListSize
EndOfPhase ==
    curThreadIdx = runListSize /\ runningThreads = 0 /\ leftThreads # runListSize

SecondPass == pc' = "scan" /\ pass' = 2

(* checkEndPhase(): not the end, or everybody left: nothing to do. *)
StayInPhase ==
    /\ pc = "endPhase" /\ ~EndOfPhase
    /\ SecondPass
    /\ UNCHANGED <<state, futexWord, lastIdx, runList, counters, caller, op,
                   idx, newSize, wait, fresh>>

(* checkEndPhase(): the phase ends; one out of CleanupPeriod times the     *)
(* threads that LEFT are taken off the run list.                           *)
EndPhase ==
    /\ pc = "endPhase" /\ EndOfPhase
    /\ curThreadIdx' = 0
    /\ phaseCount' = (phaseCount + 1) % CleanupPeriod
    /\ pc' = IF phaseCount = 0 THEN "cleanup" ELSE "reorder"
    /\ idx' = 0 /\ newSize' = runListSize
    /\ UNCHANGED <<state, futexWord, lastIdx, runList, runListSize, runningThreads,
                   leftThreads, pass, caller, op, wait, fresh>>

(* Cleanup pass: a LEFT thread is overwritten by the last one. *)
CleanupTake ==
    LET wtid == runList[idx]
        stid == runList[newSize - 1]
    IN  /\ pc = "cleanup" /\ idx < newSize /\ state[wtid] = "LEFT"
        /\ state' = [state EXCEPT ![wtid] = "OFFLINE"]
        /\ runList' = [runList EXCEPT ![idx] = stid]
        /\ lastIdx' = [lastIdx EXCEPT ![stid] = idx]
        /\ newSize' = newSize - 1
        /\ UNCHANGED <<futexWord, counters, pc, pass, caller, op, idx, wait, fresh>>

CleanupKeep ==
    /\ pc = "cleanup" /\ idx < newSize /\ state[runList[idx]] # "LEFT"
    /\ idx' = idx + 1
    /\ UNCHANGED <<state, futexWord, lastIdx, runList, counters, pc, pass, caller,
                   op, newSize, wait, fresh>>

CleanupDone ==
    /\ pc = "cleanup" /\ idx >= newSize
    /\ leftThreads' = 0
    /\ runListSize' = newSize
    /\ pc' = "reorder"
    /\ UNCHANGED <<state, futexWord, lastIdx, runList, curThreadIdx, runningThreads,
                   phaseCount, holder, wait, fresh>>

(* With more threads than may run at once the run list is shuffled. *)
StartShuffle ==
    /\ pc = "reorder" /\ ParallelThreads < runListSize
    /\ pc' = "shuffle" /\ idx' = runListSize - 1
    /\ UNCHANGED <<state, futexWord, lastIdx, runList, counters, pass, caller, op,
                   newSize, wait, fresh>>

SkipShuffle ==
    /\ pc = "reorder" /\ ParallelThreads >= runListSize
    /\ SecondPass
    /\ UNCHANGED <<state, futexWord, lastIdx, runList, counters, caller, op, idx,
                   newSize, wait, fresh>>

\* Mutant: the indices are not updated.
ShuffleStale(j) ==
    /\ pc = "shuffle" /\ idx > 0 /\ j <= idx
    /\ runList' = [runList EXCEPT ![idx] = runList[j], ![j] = runList[idx]]
    /\ idx' = idx - 1
    /\ UNCHANGED <<state, futexWord, lastIdx, counters, pc, pass, caller, op,
                   newSize, wait, fresh>>

(* One exchange of the Fisher-Yates shuffle; j is the random draw. *)
ShuffleSwap(j) ==
    LET itid == runList[idx]
        jtid == runList[j]
    IN  /\ pc = "shuffle" /\ idx > 0 /\ j <= idx
        /\ runList' = [runList EXCEPT ![idx] = jtid, ![j] = itid]
        /\ lastIdx' = [lastIdx EXCEPT ![itid] = j, ![jtid] = idx]
        /\ idx' = idx - 1
        /\ UNCHANGED <<state, futexWord, counters, pc, pass, caller, op, newSize,
                       wait, fresh>>

ShuffleDone ==
    /\ pc = "shuffle" /\ idx = 0
    /\ SecondPass
    /\ UNCHANGED <<state, futexWord, lastIdx, runList, counters, caller, op, idx,
                   newSize, wait, fresh>>

------------------------------------------------------------------------------
(* join() and sync() after futex_unlock: a thread that is no longer        *)
(* WAITING returns to the program, one that is calls futex(FUTEX_WAIT, 1). *)
CheckState(t) ==
    /\ wait[t] = "check"
    /\ wait' = [wait EXCEPT ![t] = IF state[t] = "WAITING" THEN "wait" ELSE "user"]
    /\ UNCHANGED <<state, futexWord, lastIdx, runList, counters, pc, holder, fresh>>

(* The kernel puts the thread to sleep only while the word is still 1. *)
FutexWait(t) ==
    /\ wait[t] = "wait"
    /\ wait' = [wait EXCEPT ![t] = IF futexWord[t] = 1 THEN "asleep" ELSE "user"]
    /\ UNCHANGED <<state, futexWord, lastIdx, runList, counters, pc, holder, fresh>>

(* A signal interrupts the wait: res # 0, the loop looks at the word. *)
FutexInterrupted(t) ==
    /\ wait[t] = "asleep"
    /\ wait' = [wait EXCEPT ![t] = IF futexWord[t] # 1 THEN "user" ELSE "wait"]
    /\ UNCHANGED <<state, futexWord, lastIdx, runList, counters, pc, holder, fresh>>

------------------------------------------------------------------------------
HolderStep ==
    \/ ScanWaiting \/ WakeThread \/ ScanSkip \/ ScanDone
    \/ StayInPhase \/ EndPhase
    \/ CleanupTake \/ CleanupKeep \/ CleanupDone
    \/ StartShuffle \/ SkipShuffle \/ ShuffleDone
    \/ \E j \in Threads : ShuffleSwap(j)

Operation(t) ==
    \/ JoinOffline(t) \/ JoinLeft(t)
    \/ LeaveRunning(t) \/ LeaveWaiting(t)
    \/ Sync(t)

Unlocked(t) == CheckState(t) \/ FutexWait(t) \/ FutexInterrupted(t)

Next == HolderStep \/ \E t \in Threads : Operation(t) \/ Unlocked(t)

Spec == Init /\ [][Next]_vars

(* The lock holder runs to the unlock, a thread that has to look at its    *)
(* state does, and a thread that keeps getting to run ends its part of a   *)
(* phase: every basic block it simulates advances its cycle count.         *)
Fairness ==
    /\ WF_vars(HolderStep)
    /\ \A t \in Threads : WF_vars(CheckState(t) \/ FutexWait(t)) /\ SF_vars(Sync(t))

(* A leave on behalf of a thread that is not in its program is the cleanup *)
(* of a process that died, and there are finitely many processes.          *)
Kill(t) == LeaveWaiting(t) \/ (LeaveRunning(t) /\ wait[t] # "user")
KillsEnd == <>[][\A t \in Threads : ~Kill(t)]_vars

FairSpec == Spec /\ Fairness /\ KillsEnd

------------------------------------------------------------------------------
TypeOK ==
    /\ state \in [Threads -> States]
    /\ futexWord \in [Threads -> {0, 1}]
    /\ lastIdx \in [Threads -> 0..MaxThreads]
    /\ runList \in [Threads -> Threads]
    /\ runListSize \in 0..MaxThreads /\ curThreadIdx \in 0..MaxThreads
    /\ runningThreads \in 0..MaxThreads /\ leftThreads \in 0..MaxThreads
    /\ phaseCount \in 0..(CleanupPeriod - 1)
    /\ pc \in {"free", "scan", "wake", "endPhase", "cleanup", "reorder", "shuffle"}
    /\ pass \in {1, 2} /\ caller \in Threads /\ op \in {"join", "leave", "sync"}
    /\ idx \in 0..MaxThreads /\ newSize \in 0..MaxThreads
    /\ wait \in [Threads -> {"out", "calling", "check", "wait", "asleep", "user"}]
    /\ fresh \subseteq Threads

(* PARALLELISM CONTROL of the header comment: the barrier limits the       *)
(* number of threads that run at the same time.                            *)
ParallelismBound == Cardinality(Running) <= ParallelThreads

(* The comment on the counters: whenever the lock is free, runningThreads  *)
(* and leftThreads count the threads in those states, and what remains of  *)
(* the run list is waiting.                                                *)
CountersExact ==
    pc = "free" =>
        /\ runningThreads = Cardinality(Running)
        /\ leftThreads = Cardinality(Left)
        /\ runListSize - runningThreads - leftThreads = Cardinality(Waiting)

(* join, cleanup and shuffle permute the run list in place: it never loses *)
(* or repeats a thread that is not OFFLINE.                                *)
RunListExact ==
    pc \in {"free", "scan", "wake", "endPhase"} =>
        /\ \A i, j \in 0..(runListSize - 1) : runList[i] = runList[j] => i = j
        /\ {runList[i] : i \in 0..(runListSize - 1)}
             = {t \in Threads : state[t] # "OFFLINE"}

(* The assertion of join() on a same-phase reschedule: the remembered      *)
(* index of a thread that LEFT is its slot in the run list.                *)
RescheduleAssert ==
    \A t \in Left :
        pc = "free" /\ curThreadIdx > lastIdx[t] => runList[lastIdx[t]] = t

(* The handshake of waker and waiter.  "Wakeup race in barrier?" never     *)
(* happens: the word of the thread that is being woken is 1, so the        *)
(* compare-and-swap of checkRunList succeeds.  No wakeup is lost: a thread *)
(* that sleeps on its futex word is RUNNING only between the two writes of *)
(* its waker.  And a thread that returns to the program from join() or     *)
(* sync() is RUNNING, as they assert.                                      *)
Handshake ==
    /\ pc = "wake" => futexWord[runList[curThreadIdx - 1]] = 1
    /\ \A t \in Threads :
         wait[t] = "asleep" /\ state[t] = "RUNNING" =>
             pc = "wake" /\ runList[curThreadIdx - 1] = t
    /\ \A t \in Threads : wait[t] = "user" => state[t] = "RUNNING"

(* The barrier never comes to rest with threads that wait and none that    *)
(* runs: nobody would be left to end the phase.                            *)
NeverStalls == pc = "free" /\ Waiting # {} => Running # {}

(* "You can't cause a phase to end here": join() never ends a phase. *)
JoinEndsNoPhase == pc = "endPhase" /\ op = "join" => ~EndOfPhase

(* The assertion of the cleanup pass: it takes exactly the threads that    *)
(* leftThreads counts.                                                     *)
CleanupTakesLeft ==
    pc = "cleanup" /\ idx >= newSize => runListSize - newSize = leftThreads

(* A thread that waits in the barrier eventually gets to run (or is taken  *)
(* out): neither the parallelism limit nor same-phase rejoins starve it.   *)
WaiterRuns == \A t \in Threads : state[t] = "WAITING" ~> state[t] # "WAITING"

------------------------------------------------------------------------------
(* The refinement mapping to PhaseBarrier: the threads whose slot is below *)
(* curThreadIdx have been given their turn.                                *)
absState ==
    [t \in Threads |-> CASE state[t] = "WAITING" -> "waiting"
                         [] state[t] = "RUNNING" -> "running"
                         [] OTHER -> "out"]
absTurn ==
    {t \in Threads : /\ state[t] \in {"WAITING", "RUNNING"}
                     /\ \E i \in 0..(curThreadIdx - 1) : runList[i] = t}

Abstract == INSTANCE PhaseBarrier
              WITH Parallel <- ParallelThreads, st <- absState, turn <- absTurn

(* The barrier implements the abstract phase barrier. *)
ImplementsPhaseBarrier == Abstract!Spec
=============================================================================
