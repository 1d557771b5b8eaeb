---------------------------- MODULE BarrierProofs ----------------------------
(***************************************************************************)
(* Proofs about the phase barrier for any number of threads, any           *)
(* parallelism limit and any cleanup period.                               *)
(***************************************************************************)
EXTENDS Barrier, FiniteSetTheorems, TLAPS

Present == {t \in Threads : state[t] # "OFFLINE"}

(* The part of the run list that is in use; the cleanup pass shrinks it.   *)
ListSize == IF pc = "cleanup" THEN newSize ELSE runListSize
Slots == 0..(ListSize - 1)

(* The run list enumerates the threads that are not OFFLINE, once each.    *)
ListInv ==
    /\ \A i, j \in Slots : runList[i] = runList[j] => i = j
    /\ \A i \in Slots : state[runList[i]] # "OFFLINE"
    /\ \A t \in Present : \E i \in Slots : runList[i] = t
    /\ ListSize = Cardinality(Present)

(* lastIdx is the slot of every thread woken since it was appended; the    *)
(* others still wait for the scan to reach them, and a thread that runs    *)
(* has been passed by the scan.                                            *)
IndexInv ==
    /\ \A i \in Slots : runList[i] \in fresh \/ lastIdx[runList[i]] = i
    /\ \A t \in fresh : state[t] = "WAITING"
    /\ \A i \in Slots : runList[i] \in fresh => i >= curThreadIdx
    /\ \A i \in Slots : state[runList[i]] = "RUNNING" => i < curThreadIdx

CountInv ==
    /\ Cardinality(Running) = runningThreads + (IF pc = "wake" THEN 1 ELSE 0)
    /\ leftThreads = Cardinality(Left)
                       + (IF pc = "cleanup" THEN runListSize - newSize ELSE 0)
    /\ runningThreads <= ParallelThreads
    /\ pc = "wake" => runningThreads < ParallelThreads

(* What each control point of the lock holder knows. *)
ControlInv ==
    /\ curThreadIdx <= runListSize
    /\ pc = "wake" => curThreadIdx > 0 /\ state[runList[curThreadIdx - 1]] = "RUNNING"
    /\ pc \in {"cleanup", "reorder", "shuffle"} =>
          curThreadIdx = 0 /\ runningThreads = 0
    /\ pc = "cleanup" =>
          /\ idx <= newSize /\ newSize <= runListSize
          /\ \A i \in 0..(idx - 1) : state[runList[i]] # "LEFT"
    /\ pc = "shuffle" => idx < runListSize

(* The unlocked waits: words are armed exactly while a thread waits.       *)
WaitInv ==
    /\ \A t \in Threads : state[t] = "WAITING" => futexWord[t] = 1
    /\ \A t \in Threads :
          state[t] = "RUNNING" /\ futexWord[t] = 1 =>
              pc = "wake" /\ runList[curThreadIdx - 1] = t
    /\ pc = "wake" => futexWord[runList[curThreadIdx - 1]] = 1
    /\ \A t \in Threads : wait[t] = "out" <=> state[t] \in {"LEFT", "OFFLINE"}
    /\ \A t \in Threads : wait[t] = "user" => state[t] = "RUNNING"
    /\ \A t \in Threads :
          wait[t] = "asleep" /\ state[t] = "RUNNING" =>
              pc = "wake" /\ runList[curThreadIdx - 1] = t
    /\ pc # "free" /\ op # "leave" => wait[caller] = "calling"

(* Why the barrier never comes to rest with waiting threads and none that  *)
(* runs, and why a join never ends a phase.                                *)
ProgressInv ==
    /\ pc \in {"free", "endPhase"} => ~CanScan
    /\ pc = "free" \/ (pc = "scan" /\ pass = 2) =>
          (runningThreads = 0 =>
             \A i \in 0..(curThreadIdx - 1) : state[runList[i]] # "WAITING")
    /\ op = "join" /\ ((pc \in {"scan", "wake"} /\ pass = 1) \/ pc = "endPhase") =>
          \/ state[caller] = "RUNNING"
          \/ /\ state[caller] = "WAITING"
             /\ \E i \in curThreadIdx..(runListSize - 1) : runList[i] = caller

IndInv ==
    TypeOK /\ ListInv /\ IndexInv /\ CountInv /\ ControlInv /\ WaitInv /\ ProgressInv

------------------------------------------------------------------------------
(* There are finitely many threads, and sets of them can be counted. *)
LEMMA ThreadsFinite ==
    /\ IsFiniteSet(Threads) /\ Cardinality(Threads) = MaxThreads
    /\ \A S \in SUBSET Threads :
          IsFiniteSet(S) /\ Cardinality(S) \in Nat /\ Cardinality(S) <= MaxThreads
<1>1. IsFiniteSet(Threads) /\ Cardinality(Threads) = MaxThreads
  BY FS_Interval, MaxThreadsAssumption DEF Threads
<1>2. ASSUME NEW S \in SUBSET Threads
      PROVE  IsFiniteSet(S) /\ Cardinality(S) \in Nat /\ Cardinality(S) <= MaxThreads
  BY <1>1, FS_Subset, FS_CardinalityType
<1> QED BY <1>1, <1>2

(* Counting a set of threads that gains or loses one. *)
LEMMA CountAdd ==
    ASSUME NEW S \in SUBSET Threads, NEW t \in Threads, t \notin S
    PROVE  Cardinality(S \cup {t}) = Cardinality(S) + 1 /\ Cardinality(S) < MaxThreads
<1>1. IsFiniteSet(S) /\ Cardinality(S) \in Nat BY ThreadsFinite
<1>2. Cardinality(S \cup {t}) = Cardinality(S) + 1 BY <1>1, FS_AddElement, Zenon
<1>3. S \cup {t} \in SUBSET Threads OBVIOUS
<1>4. Cardinality(S \cup {t}) <= MaxThreads BY <1>3, ThreadsFinite
<1> QED BY <1>1, <1>2, <1>4, MaxThreadsAssumption

LEMMA CountRemove ==
    ASSUME NEW S \in SUBSET Threads, NEW t \in Threads, t \in S
    PROVE  Cardinality(S \ {t}) = Cardinality(S) - 1 /\ Cardinality(S) > 0
<1>1. IsFiniteSet(S) /\ IsFiniteSet(S \ {t}) BY ThreadsFinite
<1>2. Cardinality(S \ {t}) = Cardinality(S) - 1 BY <1>1, FS_RemoveElement
<1>3. Cardinality(S \ {t}) \in Nat /\ Cardinality(S) \in Nat BY <1>1, FS_CardinalityType
<1> QED BY <1>2, <1>3

LEMMA CountEmpty == Cardinality({}) = 0
BY FS_EmptySet

LEMMA InitInv == Init => IndInv
<1> SUFFICES ASSUME Init PROVE IndInv OBVIOUS
<1> USE MaxThreadsAssumption, ParallelThreadsAssumption, CleanupPeriodAssumption
<1>1. TypeOK BY DEF Init, TypeOK, Threads, States
<1>2. Running = {} /\ Left = {} /\ Present = {}
  BY DEF Init, Running, Left, Present
<1>3. ListInv BY <1>2, CountEmpty DEF Init, ListInv, ListSize, Slots
<1>4. IndexInv BY DEF Init, IndexInv, Slots, ListSize
<1>5. CountInv BY <1>2, CountEmpty DEF Init, CountInv
<1>6. ControlInv BY DEF Init, ControlInv
<1>7. WaitInv BY DEF Init, WaitInv, Threads
<1>8. ProgressInv BY DEF Init, ProgressInv, CanScan
<1> QED BY <1>1, <1>3, <1>4, <1>5, <1>6, <1>7, <1>8 DEF IndInv

(* join() of a thread that is OFFLINE. *)
LEMMA JoinOfflineInv ==
    ASSUME IndInv, NEW t \in Threads, JoinOffline(t) PROVE IndInv'
<1> USE MaxThreadsAssumption, ParallelThreadsAssumption DEF IndInv
<1> USE DEF JoinOffline, EnterTryWakeNext
<1>1. /\ Running' = Running /\ Left' = Left /\ Present' = Present \cup {t}
      /\ t \notin Present
  BY DEF TypeOK, Running, Left, Present
<1>2. Cardinality(Present') = Cardinality(Present) + 1
      /\ Cardinality(Present) < MaxThreads
  BY <1>1, CountAdd DEF Present
<1>3. runListSize = Cardinality(Present) BY DEF ListInv, ListSize
<1>a. /\ runListSize \in Threads /\ runListSize + 1 \in 0..MaxThreads
      /\ runListSize \in Nat /\ ListSize = runListSize /\ ListSize' = runListSize + 1
  <2>1. runListSize \in 0..MaxThreads BY DEF TypeOK
  <2>2. runListSize < MaxThreads BY <1>2, <1>3
  <2> QED BY <2>1, <2>2 DEF Threads, ListSize
<1>b. Slots' = Slots \cup {runListSize} /\ runListSize \notin Slots /\ Slots \subseteq Threads
  BY <1>a DEF Slots, Threads
<1>c. /\ \A i \in Slots : runList'[i] = runList[i] /\ runList[i] \in Threads
      /\ runList'[runListSize] = t
  BY <1>a, <1>b DEF TypeOK
<1>d. \A i \in Slots : runList[i] # t
  BY DEF ListInv
<1>4. TypeOK'
  BY <1>a DEF TypeOK, States
<1>5. ListInv'
  <2>1. \A i, j \in Slots' : runList'[i] = runList'[j] => i = j
    BY <1>b, <1>c, <1>d DEF ListInv
  <2>2. \A i \in Slots' : state'[runList'[i]] # "OFFLINE"
    BY <1>b, <1>c DEF ListInv, TypeOK
  <2>3. \A u \in Present' : \E i \in Slots' : runList'[i] = u
    BY <1>1, <1>b, <1>c DEF ListInv
  <2>4. ListSize' = Cardinality(Present')
    BY <1>a, <1>2, <1>3
  <2> QED BY <2>1, <2>2, <2>3, <2>4 DEF ListInv
<1>6. IndexInv'
  <2>1. runListSize >= curThreadIdx BY <1>a DEF ControlInv, TypeOK
  <2>2. \A i \in Slots : i >= curThreadIdx <=> i >= curThreadIdx' OBVIOUS
  <2> QED BY <1>b, <1>c, <1>d, <2>1 DEF IndexInv, TypeOK
<1>7. CountInv' BY <1>1 DEF TypeOK, CountInv
<1>8. ControlInv' BY DEF TypeOK, ControlInv
<1>9. WaitInv' BY DEF TypeOK, WaitInv
<1>10. ProgressInv' BY <1>2, <1>3 DEF TypeOK, ProgressInv, ControlInv, Threads
<1> QED BY <1>4, <1>5, <1>6, <1>7, <1>8, <1>9, <1>10

(* The slots in use are indices of the run list. *)
LEMMA SlotFacts ==
    ASSUME IndInv
    PROVE  /\ ListSize \in 0..MaxThreads /\ Slots \subseteq Threads
           /\ \A i \in Slots : i \in Nat /\ i < ListSize /\ runList[i] \in Threads
           /\ \A i \in Nat : i < ListSize => i \in Slots
           /\ Running \in SUBSET Threads /\ Left \in SUBSET Threads
           /\ Present \in SUBSET Threads
<1> USE MaxThreadsAssumption
<1>1. ListSize \in 0..MaxThreads BY DEF IndInv, TypeOK, ListSize
<1>2. Slots \subseteq Threads BY <1>1 DEF Slots, Threads
<1>3. \A i \in Slots : i \in Nat /\ i < ListSize BY <1>1 DEF Slots
<1>4. \A i \in Slots : runList[i] \in Threads BY <1>2 DEF IndInv, TypeOK
<1>5. \A i \in Nat : i < ListSize => i \in Slots BY <1>1 DEF Slots
<1> QED BY <1>1, <1>2, <1>3, <1>4, <1>5 DEF Running, Left, Present

(* Exchanging two slots keeps the run list an enumeration of its threads. *)
LEMMA Exchange ==
    ASSUME NEW f \in [Threads -> Threads], NEW S \in SUBSET Threads,
           NEW a \in S, NEW b \in S,
           \A i, j \in S : f[i] = f[j] => i = j,
           NEW g, g = [f EXCEPT ![a] = f[b], ![b] = f[a]]
    PROVE  /\ g \in [Threads -> Threads]
           /\ \A i \in S : g[i] = IF i = b THEN f[a] ELSE IF i = a THEN f[b] ELSE f[i]
           /\ \A i, j \in S : g[i] = g[j] => i = j
           /\ \A i \in S : \E j \in S : g[j] = f[i]
           /\ \A i \in S : \E j \in S : g[i] = f[j]
<1>1. g \in [Threads -> Threads] OBVIOUS
<1>2. \A i \in S : g[i] = IF i = b THEN f[a] ELSE IF i = a THEN f[b] ELSE f[i] OBVIOUS
<1>3. \A i, j \in S : g[i] = g[j] => i = j BY <1>2
<1>4. \A i \in S : \E j \in S : g[j] = f[i]
  <2> SUFFICES ASSUME NEW i \in S PROVE \E j \in S : g[j] = f[i] OBVIOUS
  <2>1. CASE i = a BY <2>1, <1>2
  <2>2. CASE i = b BY <2>2, <1>2
  <2>3. CASE i # a /\ i # b BY <2>3, <1>2
  <2> QED BY <2>1, <2>2, <2>3
<1>5. \A i \in S : \E j \in S : g[i] = f[j] BY <1>2
<1> QED BY <1>1, <1>2, <1>3, <1>4, <1>5, Zenon

(* join() of a thread that LEFT: lastIdx is its slot, so the exchange is a *)
(* permutation, and the thread is at or after curThreadIdx afterwards.     *)
LEMMA JoinLeftInv ==
    ASSUME IndInv, NEW t \in Threads, JoinLeft(t) PROVE IndInv'
<1> USE MaxThreadsAssumption, ParallelThreadsAssumption
<1> DEFINE prev == lastIdx[t]
           last == curThreadIdx - 1
           other == runList[last]
<1>0. /\ pc = "free" /\ wait[t] = "out" /\ state[t] = "LEFT"
      /\ leftThreads' = leftThreads - 1
      /\ state' = [state EXCEPT ![t] = "WAITING"]
      /\ futexWord' = [futexWord EXCEPT ![t] = 1]
      /\ wait' = [wait EXCEPT ![t] = "calling"]
      /\ pc' = "scan" /\ pass' = 1 /\ caller' = t /\ op' = "join"
      /\ idx' = idx /\ newSize' = newSize /\ runListSize' = runListSize
      /\ runningThreads' = runningThreads /\ phaseCount' = phaseCount /\ fresh' = fresh
  BY DEF JoinLeft, EnterTryWakeNext
<1>1. /\ TypeOK /\ ListInv /\ IndexInv /\ CountInv /\ ControlInv /\ WaitInv /\ ProgressInv
  BY DEF IndInv
<1>2. Running' = Running /\ Left' = Left \ {t} /\ t \in Left /\ Present' = Present
  BY <1>0, <1>1 DEF TypeOK, Running, Left, Present
<1>3. Cardinality(Left') = Cardinality(Left) - 1 /\ Cardinality(Left) > 0
  BY <1>2, CountRemove, SlotFacts
<1>4. ListSize = runListSize /\ ListSize' = ListSize /\ Slots' = Slots
  BY <1>0 DEF ListSize, Slots
<1>5. prev \in Slots /\ runList[prev] = t
  <2>1. PICK i \in Slots : runList[i] = t BY <1>0, <1>1 DEF ListInv, Present
  <2>2. t \notin fresh BY <1>0, <1>1 DEF IndexInv
  <2> QED BY <2>1, <2>2, <1>1 DEF IndexInv
<1>6. leftThreads' \in 0..MaxThreads
  <2>1. leftThreads = Cardinality(Left) + 0 BY <1>0, <1>1 DEF CountInv
  <2>2. leftThreads \in 0..MaxThreads /\ Cardinality(Left) \in Nat
    BY <1>1, SlotFacts, ThreadsFinite DEF TypeOK
  <2> QED BY <1>0, <1>3, <2>1, <2>2
<1>7. CountInv'
  <2>1. Cardinality(Left) \in Int BY SlotFacts, ThreadsFinite
  <2> QED BY <1>0, <1>1, <1>2, <1>3, <2>1 DEF CountInv, TypeOK
<1>8. CASE curThreadIdx > prev
  <2>1. /\ curThreadIdx' = last
        /\ runList' = [runList EXCEPT ![prev] = runList[last], ![last] = runList[prev]]
        /\ lastIdx' = [lastIdx EXCEPT ![other] = prev, ![t] = last]
    BY <1>5, <1>8 DEF JoinLeft, SlotPassed
  <2>2. last \in Slots /\ curThreadIdx \in Nat /\ last \in Nat /\ last < curThreadIdx
    <3>1. curThreadIdx \in Nat /\ prev \in Nat BY <1>1, <1>5, SlotFacts DEF TypeOK
    <3>2. last \in Nat /\ last < ListSize BY <3>1, <1>8, <1>1, <1>4 DEF ControlInv, TypeOK
    <3> QED BY <3>1, <3>2, SlotFacts
  <2>3. /\ runList' \in [Threads -> Threads]
        /\ \A i \in Slots : runList'[i] = IF i = last THEN t
                              ELSE IF i = prev THEN other ELSE runList[i]
        /\ \A i, j \in Slots : runList'[i] = runList'[j] => i = j
        /\ \A i \in Slots : \E j \in Slots : runList'[j] = runList[i]
        /\ \A i \in Slots : \E j \in Slots : runList'[i] = runList[j]
    <3>1. runList \in [Threads -> Threads] /\ Slots \in SUBSET Threads
      BY <1>1, SlotFacts DEF TypeOK
    <3>2. \A i, j \in Slots : runList[i] = runList[j] => i = j BY <1>1 DEF ListInv
    <3>3. prev \in Slots /\ last \in Slots /\ runList[prev] = t BY <1>5, <2>2
    <3>4. runList' = [runList EXCEPT ![prev] = runList[last], ![last] = runList[prev]]
      BY <2>1
    <3> HIDE DEF prev, last
    <3>5. /\ runList' \in [Threads -> Threads]
          /\ \A i \in Slots : runList'[i] = IF i = last THEN runList[prev]
                                ELSE IF i = prev THEN runList[last] ELSE runList[i]
          /\ \A i, j \in Slots : runList'[i] = runList'[j] => i = j
          /\ \A i \in Slots : \E j \in Slots : runList'[j] = runList[i]
          /\ \A i \in Slots : \E j \in Slots : runList'[i] = runList[j]
      BY ONLY <3>1, <3>2, <3>3, <3>4, Exchange, ZenonT(60)
    <3> QED BY <3>3, <3>5
  <2>4. TypeOK'
    <3>1. last \in 0..MaxThreads /\ prev \in 0..MaxThreads
      BY <2>2, <1>1 DEF TypeOK
    <3> QED BY <1>0, <1>1, <1>6, <2>1, <2>3, <3>1, Zenon DEF TypeOK, States
  <2>5. ListInv'
    <3>1. \A i \in Slots : state'[runList'[i]] # "OFFLINE"
      BY <1>0, <1>1, <2>3, SlotFacts DEF ListInv, TypeOK
    <3>2. \A u \in Present : \E i \in Slots : runList'[i] = u
      BY <1>1, <2>3 DEF ListInv
    <3> QED BY <1>1, <1>2, <1>4, <2>3, <3>1, <3>2 DEF ListInv
  <2>6. IndexInv'
    <3>1. other \notin fresh /\ t \notin fresh
      BY <1>0, <1>1, <2>2 DEF IndexInv, TypeOK
    <3>2. \A i \in Slots : i # last /\ i # prev => runList[i] # other /\ runList[i] # t
      BY <1>1, <1>5, <2>2 DEF ListInv
    <3>a. other \in Threads BY <2>2, SlotFacts
    <3>3. \A i \in Slots : runList'[i] \in fresh' \/ lastIdx'[runList'[i]] = i
      <4> SUFFICES ASSUME NEW i \in Slots
                   PROVE  runList'[i] \in fresh' \/ lastIdx'[runList'[i]] = i
        OBVIOUS
      <4>0. lastIdx \in [Threads -> 0..MaxThreads] BY <1>1 DEF TypeOK
      <4>1. CASE i = last
        <5>1. runList'[i] = t BY <4>1, <2>3
        <5>2. lastIdx'[t] = last BY <2>1, <4>0
        <5> QED BY <4>1, <5>1, <5>2
      <4>2. CASE i # last /\ i = prev
        <5>1. runList'[i] = other BY <4>2, <2>3
        <5>2. other # t BY <4>2, <1>1, <1>5, <2>2 DEF ListInv
        <5>3. lastIdx'[other] = prev BY <2>1, <4>0, <3>a, <5>2
        <5> QED BY <4>2, <5>1, <5>3
      <4>3. CASE i # last /\ i # prev
        <5>1. runList'[i] = runList[i] BY <4>3, <2>3
        <5>2. lastIdx'[runList[i]] = lastIdx[runList[i]]
          BY <2>1, <4>0, <4>3, <3>2, SlotFacts
        <5> QED BY <5>1, <5>2, <1>0, <1>1 DEF IndexInv
      <4> QED BY <4>1, <4>2, <4>3
    <3>4. \A u \in fresh' : state'[u] = "WAITING"
      BY <1>0, <1>1 DEF IndexInv, TypeOK
    <3>5. ASSUME NEW i \in Slots, runList'[i] \in fresh' PROVE i >= curThreadIdx'
      <4>1. i # last /\ i # prev BY <3>5, <3>1, <2>3, <1>0
      <4>2. runList[i] \in fresh BY <3>5, <4>1, <2>3, <1>0
      <4>3. i >= curThreadIdx BY <4>2, <1>1 DEF IndexInv
      <4> QED BY <4>3, <2>1, <2>2, SlotFacts
    <3>6. ASSUME NEW i \in Slots, state'[runList'[i]] = "RUNNING" PROVE i < curThreadIdx'
      <4>0. state'[t] = "WAITING" BY <1>0, <1>1 DEF TypeOK
      <4>1. i # last BY <3>6, <4>0, <2>3
      <4>2. CASE i = prev
        BY <4>1, <4>2, <1>8, <2>1, <2>2, SlotFacts
      <4>3. CASE i # prev
        <5>1. runList'[i] = runList[i] /\ runList[i] # t
          BY <4>1, <4>3, <2>3, <3>2
        <5>2. state[runList[i]] = "RUNNING" BY <5>1, <3>6, <1>0, <1>1, SlotFacts DEF TypeOK
        <5>3. i < curThreadIdx BY <5>2, <1>1 DEF IndexInv
        <5> QED BY <5>3, <4>1, <2>1, <2>2, SlotFacts
      <4> QED BY <4>2, <4>3
    <3> QED BY <1>4, <3>3, <3>4, <3>5, <3>6 DEF IndexInv
  <2>7. ControlInv' BY <1>0, <1>1, <2>1, <2>2 DEF ControlInv, TypeOK
  <2>8. WaitInv' BY <1>0, <1>1 DEF WaitInv, TypeOK
  <2>9. ProgressInv'
    <3>1. runList'[last] = t BY <2>2, <2>3
    <3>2. last \in curThreadIdx'..(runListSize' - 1)
      BY <2>1, <2>2, <1>0, <1>1 DEF ControlInv, TypeOK
    <3>3. \E i \in curThreadIdx'..(runListSize' - 1) : runList'[i] = caller'
      BY <1>0, <3>1, <3>2
    <3>4. state'[caller'] = "WAITING" BY <1>0, <1>1 DEF TypeOK
    <3> QED BY <1>0, <3>3, <3>4 DEF ProgressInv
  <2> QED BY <2>4, <2>5, <2>6, <2>7, <2>8, <2>9, <1>7 DEF IndInv
<1>9. CASE ~(curThreadIdx > prev)
  <2>1. curThreadIdx' = curThreadIdx /\ runList' = runList /\ lastIdx' = lastIdx
    BY <1>9 DEF JoinLeft, SlotPassed
  <2>4. TypeOK' BY <1>0, <1>1, <1>6, <2>1 DEF TypeOK, States
  <2>5. ListInv'
    BY <1>0, <1>1, <1>2, <1>4, <2>1, SlotFacts, Zenon DEF ListInv, TypeOK
  <2>6. IndexInv'
    BY <1>0, <1>1, <1>4, <2>1, SlotFacts DEF IndexInv, TypeOK
  <2>7. ControlInv' BY <1>0, <1>1, <2>1 DEF ControlInv, TypeOK
  <2>8. WaitInv' BY <1>0, <1>1 DEF WaitInv, TypeOK
  <2>9. ProgressInv'
    <3>1. prev \in curThreadIdx..(runListSize - 1)
      BY <1>9, <1>5, <1>4, <1>1, SlotFacts DEF TypeOK
    <3> QED BY <1>0, <1>1, <1>5, <2>1, <3>1 DEF ProgressInv, TypeOK
  <2> QED BY <2>4, <2>5, <2>6, <2>7, <2>8, <2>9, <1>7 DEF IndInv
<1> QED BY <1>8, <1>9

(* leave() of a thread that runs. *)
LEMMA LeaveRunningInv ==
    ASSUME IndInv, NEW t \in Threads, LeaveRunning(t) PROVE IndInv'
<1> USE MaxThreadsAssumption, ParallelThreadsAssumption
<1> USE DEF LeaveRunning, EnterTryWakeNext
<1>1. /\ TypeOK /\ ListInv /\ IndexInv /\ CountInv /\ ControlInv /\ WaitInv /\ ProgressInv
  BY DEF IndInv
<1>2. /\ Running' = Running \ {t} /\ t \in Running /\ Left' = Left \cup {t}
      /\ t \notin Left /\ Present' = Present
  BY <1>1 DEF TypeOK, Running, Left, Present
<1>3. /\ Cardinality(Running') = Cardinality(Running) - 1 /\ Cardinality(Running) > 0
      /\ Cardinality(Left') = Cardinality(Left) + 1 /\ Cardinality(Left) < MaxThreads
      /\ Cardinality(Left) \in Nat /\ Cardinality(Running) \in Nat
  BY <1>2, CountRemove, CountAdd, SlotFacts, ThreadsFinite, Zenon
<1>4. ListSize = runListSize /\ ListSize' = ListSize /\ Slots' = Slots
  BY DEF ListSize, Slots
<1>5. runningThreads = Cardinality(Running) /\ leftThreads = Cardinality(Left)
  BY <1>1, <1>3 DEF CountInv, TypeOK
<1>6. TypeOK'
  <2>1. runningThreads - 1 \in 0..MaxThreads /\ leftThreads + 1 \in 0..MaxThreads
    BY <1>1, <1>3, <1>5 DEF TypeOK
  <2> QED BY <1>1, <2>1 DEF TypeOK, States
<1>7. ListInv' BY <1>1, <1>2, <1>4, SlotFacts DEF ListInv, TypeOK
<1>8. IndexInv' BY <1>1, <1>4, SlotFacts DEF IndexInv, TypeOK
<1>9. CountInv' BY <1>1, <1>3, <1>5 DEF CountInv, TypeOK
<1>10. ControlInv' BY <1>1 DEF ControlInv, TypeOK
<1>11. WaitInv' BY <1>1 DEF WaitInv, TypeOK
<1>12. ProgressInv' BY <1>1 DEF ProgressInv, TypeOK
<1> QED BY <1>6, <1>7, <1>8, <1>9, <1>10, <1>11, <1>12 DEF IndInv

(* leave() on behalf of a thread that waited and had been woken before. *)
LEMMA LeaveWaitingInv ==
    ASSUME IndInv, FreshExit = FALSE, NEW t \in Threads, LeaveWaiting(t) PROVE IndInv'
<1> USE MaxThreadsAssumption, ParallelThreadsAssumption
<1> USE DEF LeaveWaiting, holder
<1>1. /\ TypeOK /\ ListInv /\ IndexInv /\ CountInv /\ ControlInv /\ WaitInv /\ ProgressInv
  BY DEF IndInv
<1>2. /\ Running' = Running /\ Left' = Left \cup {t} /\ t \notin Left
      /\ Present' = Present /\ fresh' = fresh /\ t \notin fresh
  BY <1>1 DEF TypeOK, Running, Left, Present
<1>3. /\ Cardinality(Left') = Cardinality(Left) + 1 /\ Cardinality(Left) < MaxThreads
      /\ Cardinality(Left) \in Nat /\ Cardinality(Running) \in Nat
  BY <1>2, CountAdd, SlotFacts, ThreadsFinite
<1>4. ListSize = runListSize /\ ListSize' = ListSize /\ Slots' = Slots
  BY DEF ListSize, Slots
<1>5. leftThreads = Cardinality(Left) BY <1>1, <1>3 DEF CountInv, TypeOK
<1>6. TypeOK'
  <2>1. leftThreads + 1 \in 0..MaxThreads BY <1>1, <1>3, <1>5 DEF TypeOK
  <2> QED BY <1>1, <1>2, <2>1 DEF TypeOK, States
<1>7. ListInv' BY <1>1, <1>2, <1>4, SlotFacts DEF ListInv, TypeOK
<1>8. IndexInv' BY <1>1, <1>2, <1>4, SlotFacts, Zenon DEF IndexInv, TypeOK
<1>9. CountInv' BY <1>1, <1>2, <1>3, <1>5 DEF CountInv, TypeOK
<1>10. ControlInv' BY <1>1 DEF ControlInv, TypeOK
<1>11. WaitInv' BY <1>1 DEF WaitInv, TypeOK
<1>12. ProgressInv'
  <2>1. \A i \in 0..(curThreadIdx - 1) : runList[i] \in Threads
    BY <1>1, <1>4, SlotFacts DEF TypeOK, ControlInv, Slots
  <2> QED BY <1>1, <2>1 DEF ProgressInv, TypeOK, CanScan
<1> QED BY <1>6, <1>7, <1>8, <1>9, <1>10, <1>11, <1>12 DEF IndInv

(* sync(). *)
LEMMA SyncInv ==
    ASSUME IndInv, NEW t \in Threads, Sync(t) PROVE IndInv'
<1> USE MaxThreadsAssumption, ParallelThreadsAssumption
<1> USE DEF Sync, EnterTryWakeNext
<1>1. /\ TypeOK /\ ListInv /\ IndexInv /\ CountInv /\ ControlInv /\ WaitInv /\ ProgressInv
  BY DEF IndInv
<1>2. /\ Running' = Running \ {t} /\ t \in Running /\ Left' = Left
      /\ Present' = Present
  BY <1>1 DEF TypeOK, Running, Left, Present
<1>3. /\ Cardinality(Running') = Cardinality(Running) - 1 /\ Cardinality(Running) > 0
      /\ Cardinality(Left) \in Nat /\ Cardinality(Running) \in Nat
  BY <1>2, CountRemove, SlotFacts, ThreadsFinite
<1>4. ListSize = runListSize /\ ListSize' = ListSize /\ Slots' = Slots
  BY DEF ListSize, Slots
<1>5. runningThreads = Cardinality(Running) BY <1>1, <1>3 DEF CountInv, TypeOK
<1>6. TypeOK'
  <2>1. runningThreads - 1 \in 0..MaxThreads BY <1>1, <1>3, <1>5 DEF TypeOK
  <2> QED BY <1>1, <2>1 DEF TypeOK, States
<1>7. ListInv' BY <1>1, <1>2, <1>4, SlotFacts, ZenonT(60) DEF ListInv, TypeOK
<1>8. IndexInv' BY <1>1, <1>4, SlotFacts DEF IndexInv, TypeOK
<1>9. CountInv' BY <1>1, <1>2, <1>3, <1>5 DEF CountInv, TypeOK
<1>10. ControlInv' BY <1>1, Zenon DEF ControlInv, TypeOK
<1>11. WaitInv' BY <1>1 DEF WaitInv, TypeOK
<1>12. ProgressInv' BY <1>1 DEF ProgressInv, TypeOK
<1> QED BY <1>6, <1>7, <1>8, <1>9, <1>10, <1>11, <1>12, Zenon DEF IndInv

(* checkRunList sets the thread at curThreadIdx RUNNING. *)
LEMMA ScanWaitingInv ==
    ASSUME IndInv, ScanWaiting PROVE IndInv'
<1> USE MaxThreadsAssumption, ParallelThreadsAssumption
<1> DEFINE t == runList[curThreadIdx]
<1>0. /\ pc = "scan" /\ CanScan /\ state[t] = "WAITING"
      /\ curThreadIdx' = curThreadIdx + 1
      /\ state' = [state EXCEPT ![t] = "RUNNING"]
      /\ lastIdx' = [lastIdx EXCEPT ![t] = curThreadIdx]
      /\ fresh' = fresh \ {t} /\ pc' = "wake"
      /\ UNCHANGED <<futexWord, runList, runListSize, runningThreads,
                     leftThreads, phaseCount, pass, caller, op, idx, newSize, wait>>
  BY DEF ScanWaiting, holder
<1>1. /\ TypeOK /\ ListInv /\ IndexInv /\ CountInv /\ ControlInv /\ WaitInv /\ ProgressInv
  BY DEF IndInv
<1>a. /\ curThreadIdx \in Slots /\ t \in Threads /\ curThreadIdx \in Nat
      /\ curThreadIdx + 1 \in 0..MaxThreads /\ curThreadIdx \in 0..MaxThreads
      /\ curThreadIdx < runListSize
  BY <1>0, <1>1, SlotFacts DEF CanScan, TypeOK, ListSize
<1>2. /\ Running' = Running \cup {t} /\ t \notin Running /\ Left' = Left
      /\ Present' = Present
  BY <1>0, <1>1, <1>a DEF TypeOK, Running, Left, Present
<1>3. /\ Cardinality(Running') = Cardinality(Running) + 1
      /\ Cardinality(Left) \in Nat /\ Cardinality(Running) \in Nat
  BY <1>2, <1>a, CountAdd, SlotFacts, ThreadsFinite
<1>4. ListSize = runListSize /\ ListSize' = ListSize /\ Slots' = Slots
  BY <1>0 DEF ListSize, Slots
<1>b. \A i \in Slots : i # curThreadIdx => runList[i] # t
  BY <1>1, <1>a, Zenon DEF ListInv
<1>6. TypeOK' BY <1>0, <1>1, <1>a, Zenon DEF TypeOK, States
<1>7. ListInv' BY <1>0, <1>1, <1>2, <1>4, <1>a, SlotFacts, ZenonT(60) DEF ListInv,
   TypeOK
<1>8. IndexInv'
  <2>1. \A i \in Slots : runList[i] \in fresh' \/ lastIdx'[runList[i]] = i
    BY <1>0, <1>1, <1>a, <1>b, SlotFacts, Zenon DEF IndexInv, TypeOK
  <2>2. \A u \in fresh' : state'[u] = "WAITING"
    BY <1>0, <1>1 DEF IndexInv, TypeOK
  <2>3. \A i \in Slots : runList[i] \in fresh' => i >= curThreadIdx'
    BY <1>0, <1>1, <1>a, <1>b, SlotFacts DEF IndexInv
  <2>4. \A i \in Slots : state'[runList[i]] = "RUNNING" => i < curThreadIdx'
    BY <1>0, <1>1, <1>a, <1>b, SlotFacts DEF IndexInv, TypeOK
  <2> QED BY <1>0, <1>4, <2>1, <2>2, <2>3, <2>4, Zenon DEF IndexInv
<1>9. CountInv' BY <1>0, <1>1, <1>2, <1>3 DEF CountInv, TypeOK, CanScan
<1>c. curThreadIdx' - 1 = curThreadIdx /\ runList'[curThreadIdx' - 1] = t /\ state'[t] = "RUNNING"
  BY <1>0, <1>1, <1>a DEF TypeOK
<1>10. ControlInv' BY <1>0, <1>1, <1>a, <1>c DEF ControlInv, TypeOK
<1>11. WaitInv'
  <2>1. futexWord'[t] = 1 BY <1>0, <1>1, <1>a, Zenon DEF WaitInv
  <2>2. \A u \in Threads : u # t => state'[u] = state[u]
    BY <1>0, <1>1, <1>a, Zenon DEF TypeOK
  <2>3. \A u \in Threads : state[u] = "RUNNING" /\ futexWord[u] = 1 => FALSE
    BY <1>0, <1>1, Zenon DEF WaitInv
  <2>4. \A u \in Threads : wait[u] = "asleep" /\ state[u] = "RUNNING" => FALSE
    BY <1>0, <1>1 DEF WaitInv
  <2> QED BY <1>0, <1>1, <1>a, <1>c, <2>1, <2>2, <2>3, <2>4, ZenonT(60) DEF WaitInv
<1>12. ProgressInv'
  <2> SUFFICES ASSUME op = "join", pass = 1
               PROVE  \/ state'[caller] = "RUNNING"
                      \/ /\ state'[caller] = "WAITING"
                         /\ \E i \in curThreadIdx'..(runListSize' - 1) : runList'[i] = caller
    BY <1>0, Zenon DEF ProgressInv
  <2>1. CASE state[caller] = "RUNNING" BY <2>1, <1>0, <1>1 DEF TypeOK
  <2>2. CASE caller = t BY <2>2, <1>c, Zenon
  <2>3. CASE caller # t /\ state[caller] # "RUNNING"
    <3>1. state[caller] = "WAITING" /\ \E i \in curThreadIdx..(runListSize - 1) : runList[i] = caller
      BY <2>3, <1>0, <1>1 DEF ProgressInv
    <3>2. PICK i \in curThreadIdx..(runListSize - 1) : runList[i] = caller BY <3>1
    <3>3. i # curThreadIdx BY <3>2, <2>3
    <3>4. i \in curThreadIdx'..(runListSize' - 1)
      BY <3>3, <1>0, <1>1, <1>a DEF TypeOK
    <3> QED BY <3>1, <3>2, <3>4, <2>3, <1>0, <1>1, Zenon DEF TypeOK
  <2> QED BY <2>1, <2>2, <2>3, Zenon
<1> QED BY <1>6, <1>7, <1>8, <1>9, <1>10, <1>11, <1>12, Zenon DEF IndInv

(* checkRunList clears the futex word of the thread it has set RUNNING. *)
LEMMA WakeThreadInv ==
    ASSUME IndInv, WakeThread PROVE IndInv'
<1> USE MaxThreadsAssumption, ParallelThreadsAssumption
<1> DEFINE t == runList[curThreadIdx - 1]
<1>0. /\ pc = "wake" /\ futexWord[t] = 1
      /\ futexWord' = [futexWord EXCEPT ![t] = 0]
      /\ wait' = [wait EXCEPT ![t] = IF wait[t] = "asleep" THEN "user" ELSE wait[t]]
      /\ runningThreads' = runningThreads + 1 /\ pc' = "scan"
      /\ UNCHANGED <<state, lastIdx, runList, runListSize, curThreadIdx, leftThreads,
                     phaseCount, pass, caller, op, idx, newSize, fresh>>
  BY DEF WakeThread, holder
<1>1. /\ TypeOK /\ ListInv /\ IndexInv /\ CountInv /\ ControlInv /\ WaitInv /\ ProgressInv
  BY DEF IndInv
<1>a. t \in Threads /\ state[t] = "RUNNING"
  <2>1. curThreadIdx - 1 \in Threads BY <1>0, <1>1 DEF ControlInv, TypeOK, Threads
  <2> QED BY <2>1, <1>0, <1>1, Zenon DEF ControlInv, TypeOK
<1>2. Running' = Running /\ Left' = Left /\ Present' = Present
  BY <1>0 DEF Running, Left, Present
<1>3. /\ Cardinality(Running) = runningThreads + 1
      /\ Cardinality(Running) <= MaxThreads /\ Cardinality(Running) \in Nat
  BY <1>0, <1>1, SlotFacts, ThreadsFinite DEF CountInv
<1>4. ListSize' = ListSize /\ Slots' = Slots
  BY <1>0, Zenon DEF ListSize, Slots
<1>6. TypeOK'
  <2>1. runningThreads + 1 \in 0..MaxThreads BY <1>1, <1>3 DEF TypeOK
  <2> QED BY <1>0, <1>1, <1>a, <2>1 DEF TypeOK, States
<1>7. ListInv' BY <1>0, <1>1, <1>2, <1>4, Zenon DEF ListInv
<1>8. IndexInv' BY <1>0, <1>1, <1>4, Zenon DEF IndexInv
<1>9. CountInv' BY <1>0, <1>1, <1>2, <1>3 DEF CountInv, TypeOK
<1>10. ControlInv' BY <1>0, <1>1, Zenon DEF ControlInv
<1>11. WaitInv'
  <2>1. \A u \in Threads : u # t => futexWord'[u] = futexWord[u] /\ wait'[u] = wait[u]
    BY <1>0, <1>1, <1>a, Zenon DEF TypeOK
  <2>2. futexWord'[t] = 0 BY <1>0, <1>1, <1>a, Zenon DEF TypeOK
  <2>3. wait'[t] = IF wait[t] = "asleep" THEN "user" ELSE wait[t]
    BY <1>0, <1>1, <1>a, Zenon DEF TypeOK
  <2> QED BY <1>0, <1>1, <1>a, <2>1, <2>2, <2>3 DEF WaitInv, TypeOK
<1>12. ProgressInv' BY <1>0, <1>1 DEF ProgressInv, TypeOK
<1> QED BY <1>6, <1>7, <1>8, <1>9, <1>10, <1>11, <1>12, Zenon DEF IndInv

(* checkRunList passes a thread that does not wait. *)
LEMMA ScanSkipInv ==
    ASSUME IndInv, ScanSkip PROVE IndInv'
<1> USE MaxThreadsAssumption, ParallelThreadsAssumption
<1> USE DEF ScanSkip, holder
<1>1. /\ TypeOK /\ ListInv /\ IndexInv /\ CountInv /\ ControlInv /\ WaitInv /\ ProgressInv
  BY DEF IndInv
<1>a. /\ curThreadIdx \in Slots /\ curThreadIdx \in Nat
      /\ curThreadIdx + 1 \in 0..MaxThreads /\ curThreadIdx < runListSize
  BY <1>1, SlotFacts DEF CanScan, TypeOK, ListSize
<1>2. Running' = Running /\ Left' = Left /\ Present' = Present
  BY DEF Running, Left, Present
<1>4. ListSize = runListSize /\ ListSize' = ListSize /\ Slots' = Slots
  BY DEF ListSize, Slots
<1>6. TypeOK' BY <1>1, <1>a, Zenon DEF TypeOK
<1>7. ListInv' BY <1>1, <1>2, <1>4, Zenon DEF ListInv
<1>8. IndexInv'
  <2>1. runList[curThreadIdx] \notin fresh BY <1>1 DEF IndexInv
  <2>2. \A i \in Slots : runList[i] \in fresh => i >= curThreadIdx + 1
    BY <2>1, <1>1, <1>a, SlotFacts DEF IndexInv
  <2>3. \A i \in Slots : state[runList[i]] = "RUNNING" => i < curThreadIdx + 1
    BY <1>1, <1>a, SlotFacts DEF IndexInv
  <2> QED BY <1>1, <1>4, <2>2, <2>3, Zenon DEF IndexInv
<1>9. CountInv' BY <1>1, <1>2, Zenon DEF CountInv
<1>10. ControlInv' BY <1>1, <1>a DEF ControlInv, TypeOK
<1>11. WaitInv' BY <1>1 DEF WaitInv
<1>12. ProgressInv'
  <2>1. ASSUME pass = 2, runningThreads = 0, NEW i \in 0..(curThreadIdx' - 1)
        PROVE  state[runList[i]] # "WAITING"
    <3>1. i = curThreadIdx \/ i \in 0..(curThreadIdx - 1) BY <2>1, <1>a
    <3> QED BY <3>1, <2>1, <1>1 DEF ProgressInv
  <2>2. ASSUME op = "join", pass = 1, state[caller] # "RUNNING"
        PROVE  /\ state[caller] = "WAITING"
               /\ \E i \in curThreadIdx'..(runListSize' - 1) : runList[i] = caller
    <3>1. state[caller] = "WAITING" /\ \E i \in curThreadIdx..(runListSize - 1) : runList[i] = caller
      BY <2>2, <1>1 DEF ProgressInv
    <3>2. PICK i \in curThreadIdx..(runListSize - 1) : runList[i] = caller BY <3>1
    <3>3. i # curThreadIdx BY <3>1, <3>2, Zenon
    <3>4. i \in curThreadIdx'..(runListSize' - 1) BY <3>3, <1>1, <1>a DEF TypeOK
    <3> QED BY <3>1, <3>2, <3>4
  <2> QED BY <2>1, <2>2 DEF ProgressInv
<1> QED BY <1>6, <1>7, <1>8, <1>9, <1>10, <1>11, <1>12, Zenon DEF IndInv

(* The end of a pass of checkRunList. *)
LEMMA ScanDoneInv ==
    ASSUME IndInv, ScanDone PROVE IndInv'
<1> USE DEF ScanDone, holder, counters
<1>1. /\ TypeOK /\ ListInv /\ IndexInv /\ CountInv /\ ControlInv /\ WaitInv /\ ProgressInv
  BY DEF IndInv
<1>2. Running' = Running /\ Left' = Left /\ Present' = Present
  BY DEF Running, Left, Present
<1>4. ListSize' = ListSize /\ Slots' = Slots BY DEF ListSize, Slots
<1>6. TypeOK' BY <1>1, Zenon DEF TypeOK
<1>7. ListInv' BY <1>1, <1>2, <1>4, Zenon DEF ListInv
<1>8. IndexInv' BY <1>1, <1>4 DEF IndexInv
<1>9. CountInv' BY <1>1, <1>2 DEF CountInv
<1>10. ControlInv' BY <1>1, Zenon DEF ControlInv
<1>11. WaitInv' BY <1>1 DEF WaitInv, TypeOK
<1>12. ProgressInv' BY <1>1 DEF ProgressInv, CanScan, TypeOK
<1> QED BY <1>6, <1>7, <1>8, <1>9, <1>10, <1>11, <1>12, Zenon DEF IndInv

(* checkEndPhase when the phase does not end: if nobody runs, everybody    *)
(* has left.                                                               *)
LEMMA StayInPhaseInv ==
    ASSUME IndInv, StayInPhase PROVE IndInv'
<1> USE ParallelThreadsAssumption DEF StayInPhase, SecondPass, counters
<1>1. /\ TypeOK /\ ListInv /\ IndexInv /\ CountInv /\ ControlInv /\ WaitInv /\ ProgressInv
  BY DEF IndInv
<1>2. Running' = Running /\ Left' = Left /\ Present' = Present
  BY DEF Running, Left, Present
<1>4. ListSize = runListSize /\ ListSize' = ListSize /\ Slots' = Slots
  BY Zenon DEF ListSize, Slots
<1>6. TypeOK' BY <1>1, Zenon DEF TypeOK
<1>7. ListInv' BY <1>1, <1>2, <1>4, Zenon DEF ListInv
<1>8. IndexInv' BY <1>1, <1>4 DEF IndexInv
<1>9. CountInv' BY <1>1, <1>2 DEF CountInv
<1>10. ControlInv' BY <1>1, Zenon DEF ControlInv
<1>11. WaitInv' BY <1>1, Zenon DEF WaitInv, TypeOK
<1>12. ProgressInv'
  <2>1. ASSUME runningThreads = 0, NEW i \in 0..(curThreadIdx - 1)
        PROVE  state[runList[i]] # "WAITING"
    <3>1. curThreadIdx = runListSize BY <2>1, <1>1 DEF ProgressInv, CanScan, ControlInv, TypeOK
    <3>2. leftThreads = runListSize BY <2>1, <3>1, Zenon DEF EndOfPhase
    <3>3. Cardinality(Left) = Cardinality(Present)
      <4>1. Cardinality(Left) \in Nat BY SlotFacts, ThreadsFinite
      <4> QED BY <4>1, <3>2, <1>1, <1>4 DEF CountInv, ListInv
    <3>4. Left \subseteq Present BY DEF Left, Present
    <3>5. IsFiniteSet(Present) BY SlotFacts, ThreadsFinite
    <3>6. Left = Present BY <3>3, <3>4, <3>5, FS_Subset, Zenon
    <3>7. i \in Slots BY <3>1, <1>1, <1>4, SlotFacts DEF TypeOK
    <3> QED BY <3>6, <3>7, <1>1, SlotFacts, Zenon DEF ListInv, Left, Present
  <2> QED BY <2>1 DEF ProgressInv
<1> QED BY <1>6, <1>7, <1>8, <1>9, <1>10, <1>11, <1>12, Zenon DEF IndInv

(* The end of a phase: nobody runs, the scan starts over. *)
LEMMA EndPhaseInv ==
    ASSUME IndInv, EndPhase PROVE IndInv'
<1> USE MaxThreadsAssumption, CleanupPeriodAssumption DEF EndPhase, EndOfPhase
<1>1. /\ TypeOK /\ ListInv /\ IndexInv /\ CountInv /\ ControlInv /\ WaitInv /\ ProgressInv
  BY DEF IndInv
<1>2. Running' = Running /\ Left' = Left /\ Present' = Present
  BY DEF Running, Left, Present
<1>3. Running = {}
  <2>1. Cardinality(Running) = 0 BY <1>1 DEF CountInv
  <2> QED BY <2>1, SlotFacts, ThreadsFinite, FS_EmptySet, Zenon
<1>4. ListSize = runListSize /\ ListSize' = ListSize /\ Slots' = Slots
  BY DEF ListSize, Slots
<1>5. Cardinality(Left) \in Nat BY SlotFacts, ThreadsFinite, Zenon
<1>6. TypeOK' BY <1>1 DEF TypeOK
<1>7. ListInv' BY <1>1, <1>2, <1>4, Zenon DEF ListInv
<1>8. IndexInv' BY <1>1, <1>3, <1>4, SlotFacts DEF IndexInv, Running
<1>9. CountInv' BY <1>1, <1>2, <1>5 DEF CountInv, TypeOK
<1>10. ControlInv' BY <1>1 DEF ControlInv, TypeOK
<1>11. WaitInv' BY <1>1, Zenon DEF WaitInv, TypeOK
<1>12. ProgressInv' BY <1>1 DEF ProgressInv
<1> QED BY <1>6, <1>7, <1>8, <1>9, <1>10, <1>11, <1>12, Zenon DEF IndInv

(* The cleanup pass overwrites a LEFT thread by the last one of the list. *)
LEMMA CleanupTakeInv ==
    ASSUME IndInv, CleanupTake PROVE IndInv'
<1> USE MaxThreadsAssumption
<1> DEFINE wtid == runList[idx]
           lst == newSize - 1
           stid == runList[lst]
<1>0. /\ pc = "cleanup" /\ idx < newSize /\ state[wtid] = "LEFT"
      /\ state' = [state EXCEPT ![wtid] = "OFFLINE"]
      /\ runList' = [runList EXCEPT ![idx] = stid]
      /\ lastIdx' = [lastIdx EXCEPT ![stid] = idx]
      /\ newSize' = newSize - 1
      /\ UNCHANGED <<futexWord, runListSize, curThreadIdx, runningThreads, leftThreads,
                     phaseCount, pc, pass, caller, op, idx, wait, fresh>>
  BY DEF CleanupTake, counters
<1>1. /\ TypeOK /\ ListInv /\ IndexInv /\ CountInv /\ ControlInv /\ WaitInv /\ ProgressInv
  BY Zenon DEF IndInv
<1>2. ListSize = newSize /\ ListSize' = newSize - 1 /\ idx \in Nat /\ newSize \in Nat
  BY <1>0, <1>1 DEF ListSize, TypeOK
<1>3. /\ idx \in Slots /\ lst \in Slots
      /\ \A i \in Slots' : i \in Slots /\ i # lst /\ i \in Nat
      /\ \A i \in Slots : i # lst => i \in Slots'
  BY <1>0, <1>2 DEF Slots
<1>4. wtid \in Threads /\ stid \in Threads /\ idx \in Threads
  BY <1>3, SlotFacts, Zenon
<1>5. \A i \in Slots' : runList'[i] = IF i = idx THEN stid ELSE runList[i]
  BY <1>0, <1>1, <1>3, SlotFacts, Zenon DEF TypeOK
<1>6. /\ Running' = Running /\ Left' = Left \ {wtid} /\ wtid \in Left
      /\ Present' = Present \ {wtid} /\ wtid \in Present
  BY <1>0, <1>1, <1>4 DEF Running, Left, Present, TypeOK
<1>7. /\ Cardinality(Left') = Cardinality(Left) - 1
      /\ Cardinality(Present') = Cardinality(Present) - 1
  BY <1>6, CountRemove, SlotFacts, Zenon
<1>a. \A i \in Slots' : runList'[i] # wtid
  BY <1>1, <1>3, <1>5 DEF ListInv
<1>8. TypeOK'
  <2>1. newSize - 1 \in 0..MaxThreads BY <1>0, <1>1, <1>2 DEF TypeOK
  <2>2. idx \in 0..MaxThreads BY <1>1, Zenon DEF TypeOK
  <2> QED BY <1>0, <1>1, <1>4, <2>1, <2>2, Zenon DEF TypeOK, States
<1>9. ListInv'
  <2>1. \A i, j \in Slots' : runList'[i] = runList'[j] => i = j
    BY <1>1, <1>3, <1>5 DEF ListInv
  <2>2. \A i \in Slots' : state'[runList'[i]] # "OFFLINE"
    <3> SUFFICES ASSUME NEW i \in Slots' PROVE state'[runList'[i]] # "OFFLINE"
      OBVIOUS
    <3>1. PICK j \in Slots : runList'[i] = runList[j] BY <1>3, <1>5, Zenon
    <3>2. state'[runList[j]] = state[runList[j]]
      BY <3>1, <1>0, <1>1, <1>4, <1>a, SlotFacts DEF TypeOK
    <3> QED BY <3>1, <3>2, <1>1 DEF ListInv
  <2>3. ASSUME NEW u \in Present' PROVE \E i \in Slots' : runList'[i] = u
    <3>1. PICK i \in Slots : runList[i] = u BY <2>3, <1>1, <1>6 DEF ListInv
    <3>2. i # idx BY <3>1, <2>3, <1>6
    <3>3. CASE i = lst
      <4>1. idx # lst BY <3>2, <3>3
      <4>2. idx \in Slots' BY <4>1, <1>3
      <4> QED BY <4>2, <1>5, <3>1, <3>3
    <3>4. CASE i # lst
      <4>1. i \in Slots' BY <3>4, <1>3
      <4> QED BY <4>1, <1>5, <3>1, <3>2
    <3> QED BY <3>3, <3>4, Zenon
  <2>4. ListSize' = Cardinality(Present') BY <1>1, <1>2, <1>7, Zenon DEF ListInv
  <2> QED BY <2>1, <2>2, <2>3, <2>4, Zenon DEF ListInv
<1>10. IndexInv'
  <2>0. lastIdx \in [Threads -> 0..MaxThreads] /\ curThreadIdx = 0 /\ curThreadIdx' = 0
    BY <1>0, <1>1 DEF TypeOK, ControlInv
  <2>1. ASSUME NEW i \in Slots' PROVE runList'[i] \in fresh' \/ lastIdx'[runList'[i]] = i
    <3>1. CASE i = idx BY <3>1, <1>0, <1>4, <1>5, <2>0
    <3>2. CASE i # idx
      <4>1. runList'[i] = runList[i] /\ runList[i] # stid /\ i \in Slots
        BY <3>2, <1>1, <1>3, <1>5, Zenon DEF ListInv
      <4>2. lastIdx'[runList[i]] = lastIdx[runList[i]]
        BY <4>1, <2>0, <1>0, <1>4, SlotFacts, Zenon
      <4> QED BY <4>1, <4>2, <1>0, <1>1 DEF IndexInv
    <3> QED BY <3>1, <3>2
  <2>2. \A u \in fresh' : state'[u] = "WAITING"
    <3>1. wtid \notin fresh BY <1>0, <1>1 DEF IndexInv
    <3> QED BY <3>1, <1>0, <1>1, Zenon DEF IndexInv, TypeOK
  <2>3. \A i \in Slots' : i >= curThreadIdx' BY <1>3, <2>0
  <2>4. ASSUME NEW i \in Slots' PROVE state'[runList'[i]] # "RUNNING"
    <3>1. PICK j \in Slots : runList'[i] = runList[j] BY <1>3, <1>5, Zenon
    <3>2. state'[runList[j]] = state[runList[j]]
      BY <3>1, <1>0, <1>1, <1>4, <1>a, SlotFacts, Zenon DEF TypeOK
    <3>3. state[runList[j]] # "RUNNING" BY <2>0, <1>1, SlotFacts DEF IndexInv
    <3> QED BY <3>1, <3>2, <3>3
  <2> QED BY <2>1, <2>2, <2>3, <2>4 DEF IndexInv
<1>11. CountInv'
  <2>1. Cardinality(Left) \in Nat BY SlotFacts, ThreadsFinite, Zenon
  <2> QED BY <1>0, <1>1, <1>2, <1>6, <1>7, <2>1 DEF CountInv, TypeOK
<1>12. ControlInv'
  <2>1. \A i \in 0..(idx - 1) : state'[runList'[i]] # "LEFT"
    <3> SUFFICES ASSUME NEW i \in 0..(idx - 1) PROVE state'[runList'[i]] # "LEFT"
      OBVIOUS
    <3>1. i \in Slots' /\ i # idx BY <1>0, <1>2 DEF Slots
    <3>2. runList'[i] = runList[i] /\ runList[i] # wtid /\ runList[i] \in Threads
      BY <3>1, <1>3, <1>5, <1>a, SlotFacts, Zenon
    <3> QED BY <3>2, <1>0, <1>1 DEF ControlInv, TypeOK
  <2> QED BY <1>0, <1>1, <1>2, <2>1 DEF ControlInv, TypeOK
<1>13. WaitInv' BY <1>0, <1>1, <1>4, ZenonT(60) DEF WaitInv, TypeOK
<1>14. ProgressInv' BY <1>0, Zenon DEF ProgressInv
<1> QED BY <1>8, <1>9, <1>10, <1>11, <1>12, <1>13, <1>14, Zenon DEF IndInv

(* The cleanup pass keeps a thread that did not leave. *)
LEMMA CleanupKeepInv ==
    ASSUME IndInv, CleanupKeep PROVE IndInv'
<1> USE DEF CleanupKeep, counters
<1>1. /\ TypeOK /\ ListInv /\ IndexInv /\ CountInv /\ ControlInv /\ WaitInv /\ ProgressInv
  BY Zenon DEF IndInv
<1>2. Running' = Running /\ Left' = Left /\ Present' = Present
  BY DEF Running, Left, Present
<1>4. ListSize' = ListSize /\ Slots' = Slots BY DEF ListSize, Slots
<1>6. TypeOK' BY <1>1, MaxThreadsAssumption DEF TypeOK
<1>7. ListInv' BY <1>1, <1>2, <1>4, Zenon DEF ListInv
<1>8. IndexInv' BY <1>1, <1>4, Zenon DEF IndexInv
<1>9. CountInv' BY <1>1, <1>2, Zenon DEF CountInv
<1>10. ControlInv'
  <2>1. \A i \in 0..(idx' - 1) : state[runList[i]] # "LEFT"
    <3>1. \A i \in 0..(idx' - 1) : i = idx \/ i \in 0..(idx - 1) BY <1>1 DEF TypeOK
    <3> QED BY <3>1, <1>1, Zenon DEF ControlInv
  <2> QED BY <1>1, <2>1 DEF ControlInv, TypeOK
<1>11. WaitInv' BY <1>1, Zenon DEF WaitInv
<1>12. ProgressInv' BY DEF ProgressInv
<1> QED BY <1>6, <1>7, <1>8, <1>9, <1>10, <1>11, <1>12, Zenon DEF IndInv

(* At the end of the cleanup pass no thread on the list has LEFT. *)
LEMMA CleanupDoneInv ==
    ASSUME IndInv, CleanupDone PROVE IndInv'
<1> USE MaxThreadsAssumption DEF CleanupDone, holder
<1>1. /\ TypeOK /\ ListInv /\ IndexInv /\ CountInv /\ ControlInv /\ WaitInv /\ ProgressInv
  BY DEF IndInv
<1>2. Running' = Running /\ Left' = Left /\ Present' = Present
  BY DEF Running, Left, Present
<1>3. Left = {}
  <2> SUFFICES ASSUME NEW t \in Left PROVE FALSE OBVIOUS
  <2>1. t \in Present BY DEF Left, Present
  <2>2. PICK i \in Slots : runList[i] = t BY <2>1, <1>1, Zenon DEF ListInv
  <2>3. i \in 0..(idx - 1) BY <1>1 DEF Slots, ListSize, ControlInv, TypeOK
  <2> QED BY <2>2, <2>3, <1>1 DEF ControlInv, Left
<1>4. ListSize' = ListSize /\ Slots' = Slots BY DEF ListSize, Slots
<1>6. TypeOK' BY <1>1 DEF TypeOK
<1>7. ListInv' BY <1>1, <1>2, <1>4, Zenon DEF ListInv
<1>8. IndexInv' BY <1>1, <1>4, Zenon DEF IndexInv
<1>9. CountInv' BY <1>1, <1>2, <1>3, CountEmpty DEF CountInv, TypeOK
<1>10. ControlInv' BY <1>1 DEF ControlInv, TypeOK
<1>11. WaitInv' BY <1>1, Zenon DEF WaitInv
<1>12. ProgressInv' BY DEF ProgressInv
<1> QED BY <1>6, <1>7, <1>8, <1>9, <1>10, <1>11, <1>12, Zenon DEF IndInv

(* The shuffle starts at the last slot. *)
LEMMA StartShuffleInv ==
    ASSUME IndInv, StartShuffle PROVE IndInv'
<1> USE MaxThreadsAssumption DEF StartShuffle, counters
<1>1. /\ TypeOK /\ ListInv /\ IndexInv /\ CountInv /\ ControlInv /\ WaitInv /\ ProgressInv
  BY DEF IndInv
<1>2. Running' = Running /\ Left' = Left /\ Present' = Present
  BY DEF Running, Left, Present
<1>4. ListSize' = ListSize /\ Slots' = Slots BY DEF ListSize, Slots
<1>6. TypeOK' BY <1>1, ParallelThreadsAssumption DEF TypeOK
<1>7. ListInv' BY <1>1, <1>2, <1>4, Zenon DEF ListInv
<1>8. IndexInv' BY <1>1, <1>4, Zenon DEF IndexInv
<1>9. CountInv' BY <1>1, <1>2, Zenon DEF CountInv
<1>10. ControlInv' BY <1>1 DEF ControlInv, TypeOK
<1>11. WaitInv' BY <1>1, Zenon DEF WaitInv
<1>12. ProgressInv' BY DEF ProgressInv
<1> QED BY <1>6, <1>7, <1>8, <1>9, <1>10, <1>11, <1>12, Zenon DEF IndInv

(* Few threads: the second pass starts without a shuffle. *)
LEMMA SkipShuffleInv ==
    ASSUME IndInv, SkipShuffle PROVE IndInv'
<1> USE MaxThreadsAssumption DEF SkipShuffle, SecondPass, counters
<1>1. /\ TypeOK /\ ListInv /\ IndexInv /\ CountInv /\ ControlInv /\ WaitInv /\ ProgressInv
  BY DEF IndInv
<1>2. Running' = Running /\ Left' = Left /\ Present' = Present
  BY DEF Running, Left, Present
<1>4. ListSize' = ListSize /\ Slots' = Slots BY DEF ListSize, Slots
<1>6. TypeOK' BY <1>1, Zenon DEF TypeOK
<1>7. ListInv' BY <1>1, <1>2, <1>4, Zenon DEF ListInv
<1>8. IndexInv' BY <1>1, <1>4, Zenon DEF IndexInv
<1>9. CountInv' BY <1>1, <1>2, Zenon DEF CountInv
<1>10. ControlInv' BY <1>1, Zenon DEF ControlInv, TypeOK
<1>11. WaitInv' BY <1>1, Zenon DEF WaitInv
<1>12. ProgressInv' BY <1>1 DEF ProgressInv, ControlInv
<1> QED BY <1>6, <1>7, <1>8, <1>9, <1>10, <1>11, <1>12, Zenon DEF IndInv

(* The second pass starts after the shuffle. *)
LEMMA ShuffleDoneInv ==
    ASSUME IndInv, ShuffleDone PROVE IndInv'
<1> USE MaxThreadsAssumption DEF ShuffleDone, SecondPass, counters
<1>1. /\ TypeOK /\ ListInv /\ IndexInv /\ CountInv /\ ControlInv /\ WaitInv /\ ProgressInv
  BY DEF IndInv
<1>2. Running' = Running /\ Left' = Left /\ Present' = Present
  BY DEF Running, Left, Present
<1>4. ListSize' = ListSize /\ Slots' = Slots BY DEF ListSize, Slots
<1>6. TypeOK' BY <1>1, Zenon DEF TypeOK
<1>7. ListInv' BY <1>1, <1>2, <1>4, Zenon DEF ListInv
<1>8. IndexInv' BY <1>1, <1>4, Zenon DEF IndexInv
<1>9. CountInv' BY <1>1, <1>2, Zenon DEF CountInv
<1>10. ControlInv' BY <1>1, Zenon DEF ControlInv, TypeOK
<1>11. WaitInv' BY <1>1, Zenon DEF WaitInv
<1>12. ProgressInv' BY <1>1 DEF ProgressInv, ControlInv
<1> QED BY <1>6, <1>7, <1>8, <1>9, <1>10, <1>11, <1>12 DEF IndInv

(* An exchange of the shuffle is a permutation and keeps lastIdx exact. *)
LEMMA ShuffleSwapInv ==
    ASSUME IndInv, NEW j \in Threads, ShuffleSwap(j) PROVE IndInv'
<1> USE MaxThreadsAssumption
<1> DEFINE a == idx
           b == j
           itid == runList[a]
           jtid == runList[b]
<1>0. /\ pc = "shuffle" /\ idx > 0 /\ j <= idx
      /\ runList' = [runList EXCEPT ![a] = runList[b], ![b] = runList[a]]
      /\ lastIdx' = [lastIdx EXCEPT ![itid] = b, ![jtid] = a]
      /\ idx' = idx - 1
      /\ UNCHANGED <<state, futexWord, runListSize, curThreadIdx, runningThreads,
                     leftThreads, phaseCount, pc, pass, caller, op, newSize, wait, fresh>>
  BY DEF ShuffleSwap, counters
<1>1. /\ TypeOK /\ ListInv /\ IndexInv /\ CountInv /\ ControlInv /\ WaitInv /\ ProgressInv
  BY DEF IndInv
<1>2. Running' = Running /\ Left' = Left /\ Present' = Present
  BY <1>0, Zenon DEF Running, Left, Present
<1>3. ListSize = runListSize /\ ListSize' = ListSize /\ Slots' = Slots
  BY <1>0, Zenon DEF ListSize, Slots
<1>4. a \in Slots /\ b \in Slots
  BY <1>0, <1>1, <1>3 DEF ControlInv, TypeOK, Slots, Threads
<1>5. /\ runList' \in [Threads -> Threads]
      /\ \A i \in Slots : runList'[i] = IF i = b THEN itid
                            ELSE IF i = a THEN jtid ELSE runList[i]
      /\ \A i, k \in Slots : runList'[i] = runList'[k] => i = k
      /\ \A i \in Slots : \E k \in Slots : runList'[k] = runList[i]
      /\ \A i \in Slots : \E k \in Slots : runList'[i] = runList[k]
  <2>1. runList \in [Threads -> Threads] /\ Slots \in SUBSET Threads
    BY <1>1, SlotFacts DEF TypeOK
  <2>2. \A i, k \in Slots : runList[i] = runList[k] => i = k BY <1>1, Zenon DEF ListInv
  <2>3. runList' = [runList EXCEPT ![a] = runList[b], ![b] = runList[a]] BY <1>0
  <2> HIDE DEF a, b
  <2> QED BY ONLY <2>1, <2>2, <2>3, <1>4, Exchange, ZenonT(60) DEF itid, jtid
<1>6. TypeOK'
  <2>1. a \in 0..MaxThreads /\ b \in 0..MaxThreads
    BY <1>1, <1>4, SlotFacts DEF TypeOK, Threads
  <2>2. idx - 1 \in 0..MaxThreads BY <1>0, <1>1 DEF TypeOK
  <2> QED BY <1>0, <1>1, <1>5, <2>1, <2>2, Zenon DEF TypeOK
<1>7. ListInv'
  <2>1. \A i \in Slots : state[runList'[i]] # "OFFLINE" BY <1>1, <1>5 DEF ListInv
  <2>2. \A u \in Present : \E i \in Slots : runList'[i] = u BY <1>1, <1>5 DEF ListInv
  <2> QED BY <1>0, <1>1, <1>2, <1>3, <1>5, <2>1, <2>2, ZenonT(60) DEF ListInv
<1>8. IndexInv'
  <2>0. lastIdx \in [Threads -> 0..MaxThreads] /\ curThreadIdx = 0
        /\ itid \in Threads /\ jtid \in Threads
    BY <1>0, <1>1, <1>4, SlotFacts DEF TypeOK, ControlInv
  <2>1. ASSUME NEW i \in Slots PROVE runList'[i] \in fresh \/ lastIdx'[runList'[i]] = i
    <3>1. CASE i = b
      <4>1. runList'[i] = itid BY <3>1, <1>5, Zenon
      <4>2. itid = jtid => a = b BY <1>1, <1>4, Zenon DEF ListInv
      <4>3. lastIdx'[itid] = b BY <4>2, <2>0, <1>0, Zenon
      <4> QED BY <3>1, <4>1, <4>3, Zenon
    <3>2. CASE i # b /\ i = a
      <4>1. runList'[i] = jtid BY <3>2, <1>5, Zenon
      <4>2. lastIdx'[jtid] = a BY <2>0, <1>0, Zenon
      <4> QED BY <3>2, <4>1, <4>2, Zenon
    <3>3. CASE i # b /\ i # a
      <4>1. runList'[i] = runList[i] BY <3>3, <1>5, Zenon
      <4>2. runList[i] # itid /\ runList[i] # jtid BY <3>3, <1>1, <1>4, Zenon DEF
         ListInv
      <4>3. lastIdx'[runList[i]] = lastIdx[runList[i]]
        BY <4>2, <2>0, <1>0, SlotFacts, Zenon
      <4> QED BY <4>1, <4>3, <1>1, Zenon DEF IndexInv
    <3> QED BY <3>1, <3>2, <3>3
  <2>2. \A i \in Slots : i >= curThreadIdx BY <2>0, SlotFacts
  <2>3. \A i \in Slots : state[runList'[i]] # "RUNNING"
    BY <1>1, <1>5, <2>0, SlotFacts DEF IndexInv
  <2> QED BY <1>0, <1>1, <1>3, <2>1, <2>2, <2>3, ZenonT(60) DEF IndexInv
<1>9. CountInv' BY <1>0, <1>1, <1>2, Zenon DEF CountInv
<1>10. ControlInv' BY <1>0, <1>1 DEF ControlInv, TypeOK
<1>11. WaitInv' BY <1>0, <1>1, Zenon DEF WaitInv
<1>12. ProgressInv' BY <1>0, Zenon DEF ProgressInv
<1> QED BY <1>6, <1>7, <1>8, <1>9, <1>10, <1>11, <1>12, Zenon DEF IndInv

(* A thread that looks at its own state without the lock. *)
LEMMA CheckStateInv ==
    ASSUME IndInv, NEW t \in Threads, CheckState(t) PROVE IndInv'
<1> USE MaxThreadsAssumption DEF CheckState, counters, holder
<1>1. /\ TypeOK /\ ListInv /\ IndexInv /\ CountInv /\ ControlInv /\ WaitInv /\ ProgressInv
  BY Zenon DEF IndInv
<1>2. Running' = Running /\ Left' = Left /\ Present' = Present
  BY Zenon DEF Running, Left, Present
<1>4. ListSize' = ListSize /\ Slots' = Slots BY DEF ListSize, Slots
<1>6. TypeOK' BY <1>1, Zenon DEF TypeOK
<1>7. ListInv' BY <1>1, <1>2, <1>4, Zenon DEF ListInv
<1>8. IndexInv' BY <1>1, <1>4, Zenon DEF IndexInv
<1>9. CountInv' BY <1>1, <1>2, Zenon DEF CountInv
<1>10. ControlInv' BY <1>1, Zenon DEF ControlInv
<1>11. WaitInv' BY <1>1, ZenonT(60) DEF WaitInv, TypeOK, States
<1>12. ProgressInv' BY <1>1, Zenon DEF ProgressInv, CanScan
<1> QED BY <1>6, <1>7, <1>8, <1>9, <1>10, <1>11, <1>12, Zenon DEF IndInv

(* FUTEX_WAIT sleeps only on a word that is armed. *)
LEMMA FutexWaitInv ==
    ASSUME IndInv, NEW t \in Threads, FutexWait(t) PROVE IndInv'
<1> USE MaxThreadsAssumption DEF FutexWait, counters, holder
<1>1. /\ TypeOK /\ ListInv /\ IndexInv /\ CountInv /\ ControlInv /\ WaitInv /\ ProgressInv
  BY Zenon DEF IndInv
<1>2. Running' = Running /\ Left' = Left /\ Present' = Present
  BY Zenon DEF Running, Left, Present
<1>4. ListSize' = ListSize /\ Slots' = Slots BY DEF ListSize, Slots
<1>6. TypeOK' BY <1>1, Zenon DEF TypeOK
<1>7. ListInv' BY <1>1, <1>2, <1>4, Zenon DEF ListInv
<1>8. IndexInv' BY <1>1, <1>4, Zenon DEF IndexInv
<1>9. CountInv' BY <1>1, <1>2, Zenon DEF CountInv
<1>10. ControlInv' BY <1>1, Zenon DEF ControlInv
<1>11. WaitInv' BY <1>1, ZenonT(60) DEF WaitInv, TypeOK, States
<1>12. ProgressInv' BY <1>1, Zenon DEF ProgressInv, CanScan
<1> QED BY <1>6, <1>7, <1>8, <1>9, <1>10, <1>11, <1>12, Zenon DEF IndInv

(* An interrupted wait looks at the word again. *)
LEMMA FutexInterruptedInv ==
    ASSUME IndInv, NEW t \in Threads, FutexInterrupted(t) PROVE IndInv'
<1> USE MaxThreadsAssumption DEF FutexInterrupted, counters, holder
<1>1. /\ TypeOK /\ ListInv /\ IndexInv /\ CountInv /\ ControlInv /\ WaitInv /\ ProgressInv
  BY Zenon DEF IndInv
<1>2. Running' = Running /\ Left' = Left /\ Present' = Present
  BY Zenon DEF Running, Left, Present
<1>4. ListSize' = ListSize /\ Slots' = Slots BY DEF ListSize, Slots
<1>6. TypeOK' BY <1>1, Zenon DEF TypeOK
<1>7. ListInv' BY <1>1, <1>2, <1>4, Zenon DEF ListInv
<1>8. IndexInv' BY <1>1, <1>4, Zenon DEF IndexInv
<1>9. CountInv' BY <1>1, <1>2, Zenon DEF CountInv
<1>10. ControlInv' BY <1>1, Zenon DEF ControlInv
<1>11. WaitInv' BY <1>1, Zenon DEF WaitInv, TypeOK, States
<1>12. ProgressInv' BY <1>1, Zenon DEF ProgressInv, CanScan
<1> QED BY <1>6, <1>7, <1>8, <1>9, <1>10, <1>11, <1>12, Zenon DEF IndInv

------------------------------------------------------------------------------
(* Every step of the barrier keeps the inductive invariant, provided that  *)
(* no thread is taken out before its first wakeup.                         *)
LEMMA NextInv ==
    ASSUME FreshExit = FALSE, IndInv, [Next]_vars PROVE IndInv'
<1>1. CASE HolderStep
  BY <1>1, ScanWaitingInv, WakeThreadInv, ScanSkipInv, ScanDoneInv, StayInPhaseInv,
     EndPhaseInv, CleanupTakeInv, CleanupKeepInv, CleanupDoneInv, StartShuffleInv,
     SkipShuffleInv, ShuffleDoneInv, ShuffleSwapInv, Zenon DEF HolderStep
<1>2. ASSUME NEW t \in Threads, Operation(t) PROVE IndInv'
  BY <1>2, JoinOfflineInv, JoinLeftInv, LeaveRunningInv, LeaveWaitingInv, SyncInv, Zenon
     DEF Operation
<1>3. ASSUME NEW t \in Threads, Unlocked(t) PROVE IndInv'
  BY <1>3, CheckStateInv, FutexWaitInv, FutexInterruptedInv DEF Unlocked
<1>4. CASE UNCHANGED vars
  <2> USE <1>4 DEF vars, counters, holder
  <2>1. Running' = Running /\ Left' = Left /\ Present' = Present
    BY DEF Running, Left, Present
  <2>2. ListSize' = ListSize /\ Slots' = Slots BY DEF ListSize, Slots
  <2>3. TypeOK' BY DEF IndInv, TypeOK
  <2>4. ListInv' BY <2>1, <2>2, Zenon DEF IndInv, ListInv
  <2>5. IndexInv' BY <2>2, Zenon DEF IndInv, IndexInv
  <2>6. CountInv' BY <2>1, ZenonT(60) DEF IndInv, CountInv
  <2>7. ControlInv' BY DEF IndInv, ControlInv
  <2>8. WaitInv' BY DEF IndInv, WaitInv
  <2>9. ProgressInv' BY DEF IndInv, ProgressInv, CanScan
  <2> QED BY <2>3, <2>4, <2>5, <2>6, <2>7, <2>8, <2>9 DEF IndInv
<1> QED BY <1>1, <1>2, <1>3, <1>4, Zenon DEF Next

(* The inductive invariant of the barrier holds in every reachable state.  *)
THEOREM Inductive ==
    ASSUME FreshExit = FALSE PROVE Spec => []IndInv
<1>1. Init => IndInv BY InitInv
<1>2. IndInv /\ [Next]_vars => IndInv' BY NextInv, Zenon
<1> QED BY <1>1, <1>2, PTL DEF Spec

(* Type correctness: the counters never leave 0..MaxThreads and the run    *)
(* list never overflows its MAX_THREADS entries.                           *)
THEOREM TypeCorrect ==
    ASSUME FreshExit = FALSE PROVE Spec => []TypeOK
<1>1. IndInv => TypeOK BY DEF IndInv
<1> QED BY <1>1, Inductive, PTL

(* PARALLELISM CONTROL of the header comment: at most parallelThreads      *)
(* threads are RUNNING, the one that checkRunList is waking included.      *)
THEOREM ParallelismLimited ==
    ASSUME FreshExit = FALSE PROVE Spec => []ParallelismBound
<1>1. IndInv => ParallelismBound
  <2> SUFFICES ASSUME IndInv PROVE ParallelismBound OBVIOUS
  <2>1. TypeOK /\ CountInv BY DEF IndInv
  <2> QED BY <2>1, ParallelThreadsAssumption DEF CountInv, TypeOK, ParallelismBound
<1> QED BY <1>1, Inductive, PTL

(* The counters of the barrier are exact whenever the lock is free: those  *)
(* that neither run nor LEFT but are on the run list wait.                 *)
THEOREM CountersAreExact ==
    ASSUME FreshExit = FALSE PROVE Spec => []CountersExact
<1>1. IndInv => CountersExact
  <2> SUFFICES ASSUME IndInv, pc = "free"
               PROVE  /\ runningThreads = Cardinality(Running)
                      /\ leftThreads = Cardinality(Left)
                      /\ runListSize - runningThreads - leftThreads = Cardinality(Waiting)
    BY DEF CountersExact
  <2>1. TypeOK /\ ListInv /\ CountInv BY DEF IndInv
  <2>2. IsFiniteSet(Running) /\ IsFiniteSet(Left) /\ IsFiniteSet(Waiting)
        /\ Cardinality(Running) \in Nat /\ Cardinality(Left) \in Nat
        /\ Cardinality(Waiting) \in Nat
    <3>1. Waiting \in SUBSET Threads BY DEF Waiting
    <3> QED BY <3>1, SlotFacts, ThreadsFinite
  <2>3. runningThreads = Cardinality(Running) /\ leftThreads = Cardinality(Left)
    BY <2>1, <2>2 DEF CountInv, TypeOK
  <2>4. Cardinality(Running \cup Left) = Cardinality(Running) + Cardinality(Left)
        /\ IsFiniteSet(Running \cup Left)
    <3>1. Running \cap Left = {} BY DEF Running, Left
    <3> QED BY <3>1, <2>2, FS_Union, CountEmpty
  <2>5. Cardinality((Running \cup Left) \cup Waiting)
          = Cardinality(Running \cup Left) + Cardinality(Waiting)
    <3>1. (Running \cup Left) \cap Waiting = {} BY DEF Running, Left, Waiting
    <3> QED BY <3>1, <2>2, <2>4, FS_Union, CountEmpty
  <2>6. (Running \cup Left) \cup Waiting = Present
    BY <2>1, Zenon DEF TypeOK, States, Running, Left, Waiting, Present
  <2>7. runListSize = Cardinality(Present) BY <2>1 DEF ListInv, ListSize
  <2>8. runListSize = Cardinality(Running) + Cardinality(Left) + Cardinality(Waiting)
    BY <2>4, <2>5, <2>6, <2>7
  <2> QED BY ONLY <2>2, <2>3, <2>8
<1> QED BY <1>1, Inductive, PTL

(* The run list never loses or repeats a thread, whatever the mix of       *)
(* same-phase reschedules, cleanups and shuffles.                          *)
THEOREM RunListIsExact ==
    ASSUME FreshExit = FALSE PROVE Spec => []RunListExact
<1>1. IndInv => RunListExact
  <2> SUFFICES ASSUME IndInv, pc \in {"free", "scan", "wake", "endPhase"}
               PROVE  /\ \A i, j \in 0..(runListSize - 1) : runList[i] = runList[j] => i = j
                      /\ {runList[i] : i \in 0..(runListSize - 1)}
                           = {t \in Threads : state[t] # "OFFLINE"}
    BY DEF RunListExact
  <2>1. ListInv /\ Slots = 0..(runListSize - 1) BY DEF IndInv, Slots, ListSize
  <2>2. {runList[i] : i \in Slots} = Present
    BY <2>1, SlotFacts DEF ListInv, Present
  <2> QED BY <2>1, <2>2 DEF ListInv, Present
<1> QED BY <1>1, Inductive, PTL

(* The assertion of join(): the index a thread that LEFT remembers is its  *)
(* slot.                                                                   *)
THEOREM RescheduleAssertHolds ==
    ASSUME FreshExit = FALSE PROVE Spec => []RescheduleAssert
<1>1. IndInv => RescheduleAssert
  <2> SUFFICES ASSUME IndInv, NEW t \in Left PROVE runList[lastIdx[t]] = t
    BY DEF RescheduleAssert
  <2>1. t \in Present BY DEF Left, Present
  <2>2. PICK i \in Slots : runList[i] = t BY <2>1 DEF IndInv, ListInv
  <2>3. t \notin fresh BY DEF IndInv, IndexInv, Left
  <2> QED BY <2>2, <2>3 DEF IndInv, IndexInv
<1> QED BY <1>1, Inductive, PTL

(* The handshake of the wakeup: the compare-and-swap succeeds, no wakeup   *)
(* is lost, and only a RUNNING thread returns to its program.              *)
THEOREM HandshakeCorrect ==
    ASSUME FreshExit = FALSE PROVE Spec => []Handshake
<1>1. IndInv => Handshake BY DEF IndInv, WaitInv, Handshake
<1> QED BY <1>1, Inductive, PTL

(* The barrier never comes to rest with threads that wait and none that    *)
(* runs: the scan stops only at the parallelism limit or at the end of the *)
(* list, and a list that was scanned to its end without running anybody    *)
(* holds no thread that waits.                                             *)
THEOREM BarrierNeverStalls ==
    ASSUME FreshExit = FALSE PROVE Spec => []NeverStalls
<1>1. IndInv => NeverStalls
  <2> SUFFICES ASSUME IndInv, pc = "free", NEW t \in Waiting, Running = {} PROVE FALSE
    BY DEF NeverStalls
  <2>1. TypeOK /\ ListInv /\ CountInv /\ ControlInv /\ ProgressInv BY DEF IndInv
  <2>2. runningThreads = 0 BY <2>1, CountEmpty DEF CountInv, TypeOK
  <2>3. curThreadIdx = runListSize
    BY <2>1, <2>2, ParallelThreadsAssumption DEF ProgressInv, CanScan, ControlInv, TypeOK
  <2>4. t \in Present BY DEF Waiting, Present
  <2>5. PICK i \in Slots : runList[i] = t BY <2>1, <2>4 DEF ListInv
  <2>6. i \in 0..(curThreadIdx - 1) BY <2>3 DEF Slots, ListSize
  <2> QED BY <2>1, <2>2, <2>5, <2>6 DEF ProgressInv, Waiting
<1> QED BY <1>1, Inductive, PTL

(* "You can't cause a phase to end here": a thread that joins runs itself, *)
(* or waits at or after curThreadIdx.                                      *)
THEOREM JoinNeverEndsPhase ==
    ASSUME FreshExit = FALSE PROVE Spec => []JoinEndsNoPhase
<1>1. IndInv => JoinEndsNoPhase
  <2> SUFFICES ASSUME IndInv, pc = "endPhase", op = "join", EndOfPhase PROVE FALSE
    BY DEF JoinEndsNoPhase
  <2>1. TypeOK /\ CountInv /\ ProgressInv BY DEF IndInv
  <2>2. Running = {}
    <3>1. Cardinality(Running) = 0 BY <2>1 DEF CountInv, EndOfPhase
    <3> QED BY <3>1, SlotFacts, ThreadsFinite, FS_EmptySet
  <2>3. state[caller] # "RUNNING" BY <2>1, <2>2, Zenon DEF Running, TypeOK
  <2>4. \E i \in curThreadIdx..(runListSize - 1) : TRUE BY <2>1, <2>3 DEF ProgressInv
  <2> QED BY <2>1, <2>4 DEF EndOfPhase, TypeOK
<1> QED BY <1>1, Inductive, PTL

(* The assertion of the cleanup pass: when it ends no LEFT thread is on    *)
(* the list, so it took as many as leftThreads counts.                     *)
THEOREM CleanupTakesAllLeft ==
    ASSUME FreshExit = FALSE PROVE Spec => []CleanupTakesLeft
<1>1. IndInv => CleanupTakesLeft
  <2> SUFFICES ASSUME IndInv, pc = "cleanup", idx >= newSize
               PROVE  runListSize - newSize = leftThreads
    BY DEF CleanupTakesLeft
  <2>1. TypeOK /\ ListInv /\ CountInv /\ ControlInv BY DEF IndInv
  <2>2. Left = {}
    <3> SUFFICES ASSUME NEW t \in Left PROVE FALSE OBVIOUS
    <3>1. t \in Present BY DEF Left, Present
    <3>2. PICK i \in Slots : runList[i] = t BY <3>1, <2>1, Zenon DEF ListInv
    <3>3. i \in 0..(idx - 1) BY <2>1 DEF Slots, ListSize, ControlInv, TypeOK
    <3> QED BY <3>2, <3>3, <2>1 DEF ControlInv, Left
  <2> QED BY <2>1, <2>2, CountEmpty DEF CountInv, TypeOK
<1> QED BY <1>1, Inductive, PTL
=============================================================================
