----------------------------- MODULE EventQueue -----------------------------
(***************************************************************************)
(* What the contention simulator expects of a queue of timing events: a    *)
(* set of events, each with the cycle it is due in.  An event may be added *)
(* for any cycle from the one of the last event taken on; the event taken  *)
(* is always one that is due first, and nothing is promised about the      *)
(* order of events due in the same cycle.                                  *)
(***************************************************************************)
EXTENDS Naturals

CONSTANTS Objs,     \* the events
          MaxCycle  \* the last cycle an event may be due in

VARIABLES content,  \* what is queued: entries [cycle, obj]
          now       \* the cycle of the last event taken

Entries == [cycle : 0..MaxCycle, obj : Objs]

(* No queued entry is due before e. *)
Earliest(q, e) == \A f \in q : e.cycle <= f.cycle

Init == content = {} /\ now = 0

(* An event that is not queued is added for a cycle that is not over. *)
Enqueue(o, c) ==
    /\ c >= now /\ \A e \in content : e.obj # o
    /\ content' = content \cup {[cycle |-> c, obj |-> o]}
    /\ now' = now

(* An event that is due first is taken. *)
Dequeue ==
    \E e \in content : /\ Earliest(content, e)
                       /\ content' = content \ {e}
                       /\ now' = e.cycle

Next == Dequeue \/ \E o \in Objs, c \in 0..MaxCycle : Enqueue(o, c)

Spec == Init /\ [][Next]_<<content, now>>
=============================================================================
