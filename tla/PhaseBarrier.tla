---------------------------- MODULE PhaseBarrier -----------------------------
(***************************************************************************)
(* What the phase barrier promises to the scheduler, without run list,     *)
(* indices or futexes: in every phase each participating thread gets one   *)
(* turn, at most Parallel threads have their turn at the same time, a      *)
(* thread that rejoins gets another turn in the same phase, and a phase    *)
(* ends when the turns of all participants are over.                       *)
(***************************************************************************)
EXTENDS Integers, FiniteSets

CONSTANTS Threads, Parallel

VARIABLES
    st,    \* "out", "waiting" or "running"
    turn   \* participants that were given their turn in this phase

vars == <<st, turn>>

In(s) == {t \in Threads : st[t] = s}

Init == st = [t \in Threads |-> "out"] /\ turn = {}

Join(t) ==
    /\ st[t] = "out"
    /\ st' = [st EXCEPT ![t] = "waiting"]
    /\ UNCHANGED turn

Leave(t) ==
    /\ st[t] # "out"
    /\ st' = [st EXCEPT ![t] = "out"]
    /\ turn' = turn \ {t}

Sync(t) ==
    /\ st[t] = "running"
    /\ st' = [st EXCEPT ![t] = "waiting"]
    /\ UNCHANGED turn

CanWake(t) ==
    st[t] = "waiting" /\ t \notin turn /\ Cardinality(In("running")) < Parallel

Wake(t) ==
    /\ CanWake(t)
    /\ st' = [st EXCEPT ![t] = "running"]
    /\ turn' = turn \cup {t}

PhaseOver ==
    In("running") = {} /\ In("waiting") # {} /\ In("waiting") \subseteq turn

EndPhase ==
    /\ PhaseOver
    /\ turn' = {}
    /\ UNCHANGED st

Next ==
    \/ EndPhase
    \/ \E t \in Threads : Join(t) \/ Leave(t) \/ Sync(t) \/ Wake(t)

Spec == Init /\ [][Next]_vars
=============================================================================
