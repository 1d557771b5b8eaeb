----------------------------- MODULE MCScheduler -----------------------------
(***************************************************************************)
(* Scheduler on small machines.                                            *)
(***************************************************************************)
EXTENDS Scheduler

CONSTANTS t1, t2, t3

Two == {t1, t2}
Three == {t1, t2, t3}

(* Two contexts are used; t1 is pinned to context 0, t2 to context 1, t3   *)
(* runs on either: partially overlapping masks.                            *)
Overlapping == (t1 :> {0}) @@ (t2 :> {1}) @@ (t3 :> {0, 1})

Anywhere == [t \in Threads |-> Contexts]

(* Programs that sleep on an overcommitted machine; programs that are      *)
(* killed with a context for each thread.                                  *)
Overcommit == [mask |-> Overlapping, features |-> {"sleep", "fake"}]
Killed == [mask |-> Anywhere, features |-> {"fake", "kill"}]
Safety == {Overcommit, Killed}

Sleeping == {[mask |-> Anywhere, features |-> {"sleep", "fake"}]}
==============================================================================
