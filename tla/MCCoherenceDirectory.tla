---- MODULE MCCoherenceDirectory ----
EXTENDS CoherenceDirectory, TLC

CONSTANTS p1, p2, a, b, t

\* Under write-back, core p1 has a data cache (1), which it stores to, and an
\* instruction cache (4) below an L2 (3); core p2 loads from and stores to a
\* data cache (2).  They meet in the directory (5), which has an entry for each
\* line that its children can hold.
\* Under write-through 2 and 6 are the data caches of p2 and p1, and the
\* children numbered like the cores are their instruction caches, as with
\* children = "l1i|l1d".
Up == <<3, 5, 5, 3, Mem, 5>>
Tree == [c \in Caches |-> [l \in Lines |-> Up[c]]]
SplitL1 ==
    (p1 :> [store |-> 1, fetch |-> 4])
    @@ (p2 :> [load |-> 2, store |-> 2])
Direct == (p1 :> 6) @@ (p2 :> 2)
NoneOfThem == [p \in Cores |-> None]
Entries == [c \in Caches |-> IF c \in Dirs THEN 3 ELSE 1]
Identity == [l \in Lines |-> l]
====
