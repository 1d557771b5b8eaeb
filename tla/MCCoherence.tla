---- MODULE MCCoherence ----
EXTENDS Coherence, TLC

CONSTANTS p1, p2, a, b

\* Core p1 has a data cache (1) below an L2 (3).  Core p2 has a data cache (2)
\* and an instruction cache (4).  All meet in the last-level cache (5).
Up == <<3, 5, 5, 5, Mem>>
Tree == [c \in Caches |-> [l \in Lines |-> Up[c]]]
SplitL1 ==
    (p1 :> [load |-> 1, store |-> 1])
    @@ (p2 :> [load |-> 2, store |-> 2, fetch |-> 4])
OneLine == [c \in Caches |-> 1]
Identity == [l \in Lines |-> l]
Swapped == (a :> b) @@ (b :> a)
Symmetry == Permutations(Lines)
====
