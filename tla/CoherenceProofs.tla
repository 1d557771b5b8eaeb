--------------------------- MODULE CoherenceProofs --------------------------
(***************************************************************************)
(* The theorems about the hierarchy of caches, for every tree of caches,   *)
(* set of cores, lines and sizes.                                          *)
(***************************************************************************)
EXTENDS CoherenceSteps, CoherenceCalls, CoherenceStores, FiniteSetTheorems,
        WellFoundedInduction

-----------------------------------------------------------------------------
(* The invariant holds at first                                            *)

\* Empty caches and no access: the invariant holds at first.
LEMMA InitKeeps ==
    ASSUME Init
    PROVE  CoherenceInv
<1>1. \A p \in Cores : Depth(p) = 0 /\ stack[p] = <<>> /\ wback[p] = FALSE
  BY Zenon DEF Init, Depth
<1>2. \A c \in Caches : \A w \in 1..Ways[c] :
        tag[c][w] = None /\ mesi[c][w] = "I" /\ dir[c][w] = Empty
  BY Zenon DEF Init
<1>3. Table(tag) /\ Table(mesi) /\ Table(dir)
  BY Zenon DEF Init, Table
<1>4. Types
  <2>1. stack \in [Cores -> Seq(Calls \cup Invs)]
    BY DEF Init
  <2>2. Empty \in Entries
    BY Zenon DEF Empty, Entries
  <2>3. /\ tcc \in [Caches -> Cores \cup {None}] /\ bcc \in [Caches -> Cores \cup {None}]
        /\ wback \in [Cores -> BOOLEAN]
    BY ZenonT(30) DEF Init
  <2>4. QED
    BY <1>2, <1>3, <2>1, <2>2, <2>3, Zenon DEF Types, MESI
<1>5. Shape /\ Order /\ Locks /\ Accesses
  BY <1>1, SMTT(40) DEF Shape, Order, Locks, Accesses
<1>6. Arrays /\ Listed
  BY <1>2 DEF Arrays, Listed, Empty
<1>7. Inclusive /\ Alone
  BY <1>2, Zenon DEF Inclusive, Alone
<1>8. Recalls
  BY <1>1 DEF Recalls, RecallAt
<1>9. QED
  BY <1>4, <1>5, <1>6, <1>7, <1>8, Zenon DEF CoherenceInv

-----------------------------------------------------------------------------
(* Every step keeps the invariant                                          *)

\* What Counting says is so.
LEMMA CountingHolds == Counting
<1>1. \A c \in Caches : Cardinality({c}) = 1
  BY FS_Singleton, Zenon
<1>2. ASSUME NEW S \in SUBSET Nat, S # {}
      PROVE  \E x \in S : \A y \in S : ~ (y < x)
  <2>1. PICK x \in S : \A y \in S : ~ (<<y, x>> \in OpToRel(<, Nat))
    BY <1>2, NatLessThanWellFounded, WFMin, Zenon
  <2>2. QED
    BY <2>1, Zenon DEF OpToRel
<1>3. ASSUME NEW S \in SUBSET Caches, S # {}
      PROVE  FirstOf(S) \in S
  <2>1. S \in SUBSET Nat
    BY CoherenceAssumption, Zenon
  <2>2. PICK x \in S : \A y \in S : ~ (y < x)
    BY <1>2, <1>3, <2>1, Zenon
  <2>3. \A y \in S : x <= y
    BY <2>1, <2>2
  <2>4. QED
    BY <2>3, Zenon DEF FirstOf
<1>4. QED
  BY <1>1, <1>2, <1>3, Zenon DEF Counting

\* Every step of every core keeps the invariant.
LEMMA NextKeeps ==
    ASSUME CoherenceInv, [Next]_vars
    PROVE  CoherenceInv'
<1>1. CASE UNCHANGED vars
  BY <1>1, StillKeeps, Zenon DEF vars
<1>2. ASSUME NEW p \in Cores, Step(p)
      PROVE  CoherenceInv'
  BY <1>2, LockTopKeeps, StartAccessKeeps, EvictChildKeeps, EvictKeeps, FetchKeeps,
     RevokeKeeps, GrantKeeps, EndAccessKeeps, StartInvalidateKeeps, ForwardInvalKeeps,
     FinishInvalidateKeeps, CountingHolds, Zenon DEF Step
<1>3. QED
  BY <1>1, <1>2, ProgramKeeps, Zenon DEF Next

\* The invariant of the hierarchy: see CoherenceInv.
THEOREM HierarchyInvariant == Spec => []CoherenceInv
<1>1. Init => CoherenceInv
  BY InitKeeps, Zenon
<1>2. CoherenceInv /\ [Next]_vars => CoherenceInv'
  BY NextKeeps, Zenon
<1>3. QED
  BY <1>1, <1>2, PTL DEF Spec

-----------------------------------------------------------------------------
(* What it means for the lines                                             *)

\* Coherence for every tree of caches and any interleaving of accesses: while
\* a cache holds a line in E or M no sibling holds it, and while an L1 does no
\* other L1 holds it at all.
THEOREM CoherentForAll == Spec => []SingleWriter
<1>1. CoherenceInv => SingleWriter
  BY OneWriter, CountingHolds, Zenon
<1>2. QED
  BY <1>1, HierarchyInvariant, PTL

\* The directories are exact for every tree: MESITopCC's sharers are the
\* children that hold the line, the hierarchy is inclusive, and the panic of
\* shouldAllocate is never reached.
THEOREM DirectoriesExact == Spec => []DirectoryExact
<1>1. CoherenceInv => DirectoryExact
  BY ExactDirectories, Zenon
<1>2. QED
  BY <1>1, HierarchyInvariant, PTL

\* CheckForMESIRace is complete: of what other accesses can do to a line while
\* a request for it waits, only the races it names reach its asserts.
THEOREM RacesAreForeseen == Spec => []RacesForeseen
<1>1. CoherenceInv => RacesForeseen
  BY OnlyForeseen, Zenon
<1>2. QED
  BY <1>1, HierarchyInvariant, PTL

\* No store is forgotten (MESIBottomCC's PUTX and reqWriteback), in any
\* hierarchy: a line that was stored to and that memory has not taken since is
\* modified in some cache, or on its way up.
THEOREM StoresAreKept == Spec => []DirtyKept
<1>1. Init => CoherenceInv /\ DirtyInv
  BY InitKeeps, Zenon DEF Init, DirtyInv
<1>2. CoherenceInv /\ DirtyInv /\ [Next]_vars => CoherenceInv' /\ DirtyInv'
  BY NextKeeps, DirtyKeeps, CountingHolds, Zenon
<1>3. CoherenceInv /\ DirtyInv => DirtyKept
  BY KeptDirty, Zenon
<1>4. QED
  BY <1>1, <1>2, <1>3, PTL DEF Spec

\* The filter of an L1 (FilterCache, filter_cache.h) never answers for a line
\* that its L1 has lost, nor a store for one that it may not write: wherever
\* virtual and physical lines are the same, in any hierarchy.
THEOREM FiltersAreCovered ==
    ASSUME Untranslated
    PROVE  Spec => []FilterCovered
<1>1. Init => CoherenceInv /\ FilterInv
  BY InitKeeps, FilterInit, Zenon
<1>2. CoherenceInv /\ FilterInv /\ [Next]_vars => CoherenceInv' /\ FilterInv'
  BY NextKeeps, FilterKeeps, Zenon
<1>3. CoherenceInv /\ FilterInv => FilterCovered
  BY BackedFilter, Zenon
<1>4. QED
  BY <1>1, <1>2, <1>3, PTL DEF Spec
=============================================================================
