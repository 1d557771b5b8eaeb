---------------------------- MODULE VirtualMemory ----------------------------
(***************************************************************************)
(* Address translation: the instruction and data TLBs of the cores         *)
(* (tlb/common_tlb.h), their page table walkers (tlb/page_table_walker.h), *)
(* the page tables of the processes (page-table/page_table.cpp, long mode) *)
(* and the page allocator.                                                 *)
(*                                                                         *)
(* A core translates for the process it runs.  Its thread looks in a TLB   *)
(* under the TLB's lock, but uses the entry it found after the unlock; on  *)
(* a miss it walks the page table under the table's lock, and a page fault *)
(* removes the page from the TLBs of every core, one after the other,      *)
(* without holding their locks.  Steps outside a lock are single actions.  *)
(*                                                                         *)
(* A virtual page is the sequence of its table indices.  The shared and    *)
(* dirty flags, which nothing reads, and the cycles of a walk are left out.*)
(***************************************************************************)
EXTENDS BuddyAllocator

CONSTANTS Cores, NumProcs,
          Tlbs,     \* all TLBs, in the order of a shootdown
          CoreOf,   \* the core of each TLB
          Levels,   \* levels of a page table: 4, 3 or 2 by the page size
          Modes,    \* what may run: processes of a core, pages of a process,
                    \* entries of a TLB
          MaxAccesses,
          None

Procs == 1 .. NumProcs
AllTlbs == ToSet(Tlbs)
Min(S) == CHOOSE n \in S : \A m \in S : n <= m
VirtualPages == [1 .. Levels -> Nat]

ASSUME TranslationAssumption ==
    /\ NumProcs \in Nat /\ Levels \in Nat \ {0}
    /\ Tlbs \in Seq(AllTlbs) /\ CoreOf \in [AllTlbs -> Cores]
    /\ Modes \subseteq [hosts : [Cores -> SUBSET Procs],
                        uses : [Procs -> SUBSET VirtualPages],
                        entries : Nat \ {0}]
    /\ None \notin Cores

VARIABLES
    mode,
    running,      \* the process of each core (procIdx and the walker's paging)
    pc, tlb, vpn, \* each core's next step, the TLB and the page it is about
    slot, at,     \* the entry a look_up() returned; position in a shootdown
    page,         \* the page being fetched, or the result when pc is "idle"
    trie,         \* tlb_trie: page -> entry
    trie_pa,      \* tlb_trie_pa: physical page -> entry
    entry,        \* v_page_no, p_page_no and the valid flag of each entry
    free,         \* free_entry_list
    recent,       \* the entries ever used, by lru_seq
    table_lock,   \* the core that holds a page table's lock
    tables,       \* the page of each table, by the indices that lead to it
    ptes,         \* the mapped pages
    accesses

tlbVars == <<trie, trie_pa, entry, free, recent>>
pagingVars == <<tables, ptes, block_list, free_page_num>>
vars == <<mode, running, pc, tlb, vpn, slot, at, page, tlbVars, table_lock,
          pagingVars, accesses>>

NoMap == [x \in {} |-> None]
Without(map, key) == [k \in DOMAIN map \ {key} |-> map[k]]
With(map, key, value) ==
    [k \in DOMAIN map \cup {key} |-> IF k = key THEN value ELSE map[k]]

Init ==
    /\ mode \in Modes
    /\ running \in {r \in [Cores -> Procs] : \A c \in Cores : r[c] \in mode.hosts[c]}
    /\ pc = [c \in Cores |-> "idle"]
    /\ tlb = [c \in Cores |-> None] /\ vpn = [c \in Cores |-> None]
    /\ slot = [c \in Cores |-> 0] /\ at = [c \in Cores |-> 0]
    /\ page = [c \in Cores |-> None]
    /\ trie = [t \in AllTlbs |-> NoMap] /\ trie_pa = [t \in AllTlbs |-> NoMap]
    /\ entry = [t \in AllTlbs |-> [s \in 1 .. mode.entries |->
                                       [vpn |-> None, ppn |-> None, valid |-> FALSE]]]
    /\ free = [t \in AllTlbs |-> [s \in 1 .. mode.entries |-> s]]
    /\ recent = [t \in AllTlbs |-> <<>>]
    /\ table_lock = [p \in Procs |-> None]
    /\ tables = [p \in Procs |-> With(NoMap, <<>>, FirstPage(AfterRoots[p - 1]))]
    /\ ptes = [p \in Procs |-> NoMap]
    /\ accesses = 0
    /\ BuddyInit(NumProcs)
-----------------------------------------------------------------------------
Goto(c, label) == pc' = [pc EXCEPT ![c] = label]

(* lru_seq = ++(the TLB's lru_seq) *)
RemoveFirst(order, s) ==
    LET I == {i \in 1 .. Len(order) : order[i] = s}
    IN  IF I = {} THEN order
        ELSE SubSeq(order, 1, Min(I) - 1) \o SubSeq(order, Min(I) + 1, Len(order))
Used(order, s) == Append(RemoveFirst(order, s), s)

(* The effect of look_up() on the LRU order: only a valid entry moves. *)
Touched(t, v) ==
    IF v \in DOMAIN trie[t] /\ entry[t][trie[t][v]].valid
    THEN [recent EXCEPT ![t] = Used(@, trie[t][v])]
    ELSE recent

(* access(): look_up() finds an entry, whether it is valid or not. *)
Access(c, t, v) ==
    /\ pc[c] = "idle" /\ accesses < MaxAccesses
    /\ v \in mode.uses[running[c]] /\ CoreOf[t] = c
    /\ accesses' = accesses + 1
    /\ tlb' = [tlb EXCEPT ![c] = t] /\ vpn' = [vpn EXCEPT ![c] = v]
    /\ IF v \in DOMAIN trie[t]
       THEN slot' = [slot EXCEPT ![c] = trie[t][v]] /\ Goto(c, "hit")
       ELSE Goto(c, "miss") /\ UNCHANGED slot
    /\ recent' = Touched(t, v)
    /\ UNCHANGED <<mode, running, at, page, trie, trie_pa, entry, free, table_lock,
                   pagingVars>>

(* The hit reads the entry it was given, after look_up() released the lock. *)
Hit(c) ==
    /\ pc[c] = "hit"
    /\ page' = [page EXCEPT ![c] = entry[tlb[c]][slot[c]].ppn]
    /\ Goto(c, "idle")
    /\ UNCHANGED <<mode, running, tlb, vpn, slot, at, tlbVars, table_lock, pagingVars,
                   accesses>>
-----------------------------------------------------------------------------
(* LongModePaging::access(): every table on the way and the page itself. *)
TablesOf(v) == {SubSeq(v, 1, n) : n \in 1 .. Levels - 1}
MissingTables(p, v) == TablesOf(v) \ DOMAIN tables[p]
Mapped(p, v) == MissingTables(p, v) = {} /\ v \in DOMAIN ptes[p]

(* PageTableWalker::access() up to the page fault, under paging->lock(). *)
WalkUnlocked(c) ==  \* mutant: the lock is not waited for
    /\ pc[c] = "miss"
    /\ LET p == running[c]
       IN  /\ table_lock' = [table_lock EXCEPT ![p] = c]
           /\ IF Mapped(p, vpn[c])
              THEN page' = [page EXCEPT ![c] = ptes[p][vpn[c]]] /\ Goto(c, "unlock")
              ELSE Goto(c, "fault") /\ UNCHANGED page
    /\ UNCHANGED <<mode, running, tlb, vpn, slot, at, tlbVars, pagingVars, accesses>>
Walk(c) ==
    /\ pc[c] = "miss" /\ table_lock[running[c]] = None
    /\ LET p == running[c]
       IN  /\ table_lock' = [table_lock EXCEPT ![p] = c]
           /\ IF Mapped(p, vpn[c])
              THEN page' = [page EXCEPT ![c] = ptes[p][vpn[c]]] /\ Goto(c, "unlock")
              ELSE Goto(c, "fault") /\ UNCHANGED page
    /\ UNCHANGED <<mode, running, tlb, vpn, slot, at, tlbVars, pagingVars, accesses>>

(* do_page_fault() takes a page first. *)
Fault(c) ==
    /\ pc[c] = "fault"
    /\ Allocate
    /\ page' = [page EXCEPT ![c] = FirstPage(block_list)]
    /\ at' = [at EXCEPT ![c] = 1]
    /\ Goto(c, "shoot")
    /\ UNCHANGED <<mode, running, tlb, vpn, slot, tlbVars, table_lock, tables, ptes,
                   accesses>>

(* "Cannot allocate a page": the simulator ends. *)
Panic(c) ==
    /\ pc[c] \in {"fault", "map"} /\ NonEmpty(block_list) = {}
    /\ pc[c] = "map" => MissingTables(running[c], vpn[c]) # {}
    /\ Goto(c, "panic")
    /\ UNCHANGED <<mode, running, tlb, vpn, slot, at, page, tlbVars, table_lock,
                   pagingVars, accesses>>
-----------------------------------------------------------------------------
(* tlb_shootdown(): the next TLB of the loop, and what follows the last one. *)
Target(c) == Tlbs[at[c]]
NextTarget(c) ==
    /\ at' = [at EXCEPT ![c] = @ + 1]
    /\ Goto(c, IF at[c] = Len(Tlbs) THEN "map" ELSE "shoot")

(* shootdown(): look_up() is locked; *)
ShootLookup(c) ==
    /\ pc[c] = "shoot"
    /\ LET t == Target(c)
       IN  /\ IF vpn[c] \in DOMAIN trie[t]
              THEN /\ slot' = [slot EXCEPT ![c] = trie[t][vpn[c]]]
                   /\ Goto(c, "invalidate") /\ UNCHANGED at
              ELSE NextTarget(c) /\ UNCHANGED slot
           /\ recent' = Touched(t, vpn[c])
    /\ UNCHANGED <<mode, running, tlb, vpn, page, trie, trie_pa, entry, free, table_lock,
                   pagingVars, accesses>>

(* the rest is not: set_invalid(), *)
ShootInvalidate(c) ==
    /\ pc[c] = "invalidate"
    /\ entry' = [entry EXCEPT ![Target(c)][slot[c]].valid = FALSE]
    /\ Goto(c, "erase")
    /\ UNCHANGED <<mode, running, tlb, vpn, slot, at, page, trie, trie_pa, free, recent,
                   table_lock, pagingVars, accesses>>

(* both maps, *)
ShootErase(c) ==
    /\ pc[c] = "erase"
    /\ trie' = [trie EXCEPT ![Target(c)] = Without(@, vpn[c])]
    /\ Goto(c, "erase_pa")
    /\ UNCHANGED <<mode, running, tlb, vpn, slot, at, page, trie_pa, entry, free, recent,
                   table_lock, pagingVars, accesses>>
ShootErasePa(c) ==
    /\ pc[c] = "erase_pa"
    /\ trie_pa' = [trie_pa EXCEPT ![Target(c)] =
                       Without(@, entry[Target(c)][slot[c]].ppn)]
    /\ Goto(c, "release")
    /\ UNCHANGED <<mode, running, tlb, vpn, slot, at, page, trie, entry, free, recent,
                   table_lock, pagingVars, accesses>>

(* and the free list. *)
ShootRelease(c) ==
    /\ pc[c] = "release"
    /\ free' = [free EXCEPT ![Target(c)] = Append(@, slot[c])]
    /\ NextTarget(c)
    /\ UNCHANGED <<mode, running, tlb, vpn, slot, page, trie, trie_pa, entry, recent,
                   table_lock, pagingVars, accesses>>
-----------------------------------------------------------------------------
(* map_page_table(): missing tables are made from the root down, each with  *)
(* a page of its own, *)
TopMissing(p, v) == CHOOSE top \in MissingTables(p, v) :
                        \A other \in MissingTables(p, v) : Len(top) <= Len(other)
NewTable(p, indices) == tables' = [tables EXCEPT ![p] =
                                       With(@, indices, FirstPage(block_list))]
MapTable(c) ==
    LET p == running[c]
    IN  /\ pc[c] = "map" /\ MissingTables(p, vpn[c]) # {}
        /\ Allocate
        /\ NewTable(p, TopMissing(p, vpn[c]))
        /\ UNCHANGED <<mode, running, pc, tlb, vpn, slot, at, page, tlbVars, table_lock,
                       ptes, accesses>>

(* then the page is entered in the last one. *)
MapPage(c) ==
    /\ pc[c] = "map" /\ MissingTables(running[c], vpn[c]) = {}
    /\ ptes' = [ptes EXCEPT ![running[c]] = With(@, vpn[c], page[c])]
    /\ Goto(c, "unlock")
    /\ UNCHANGED <<mode, running, tlb, vpn, slot, at, page, tlbVars, table_lock, tables,
                   buddyVars, accesses>>

UnlockForgotten(c) ==  \* mutant: the page table stays locked
    /\ pc[c] = "unlock"
    /\ Goto(c, "insert")
    /\ UNCHANGED <<mode, running, tlb, vpn, slot, at, page, tlbVars, table_lock,
                   pagingVars, accesses>>
Unlock(c) ==
    /\ pc[c] = "unlock"
    /\ table_lock' = [table_lock EXCEPT ![running[c]] = None]
    /\ Goto(c, "insert")
    /\ UNCHANGED <<mode, running, tlb, vpn, slot, at, page, tlbVars, pagingVars, accesses>>
-----------------------------------------------------------------------------
(* lru_evict(): the oldest of the valid entries and the first one. *)
Oldest(t) ==
    LET s(i) == recent[t][i]
    IN  s(Min({i \in 1 .. Len(recent[t]) : s(i) = 1 \/ entry[t][s(i)].valid}))

(* insert(), which holds the TLB's lock and evicts an entry if none is free. *)
Insert(c) ==
    LET t == tlb[c]  e == entry[t]
        full == free[t] = <<>>
        s == IF full THEN Oldest(t) ELSE Head(free[t])
    IN  /\ pc[c] = "insert"
        /\ free' = [free EXCEPT ![t] = IF full THEN <<>> ELSE Tail(@)]
        /\ entry' = [entry EXCEPT ![t][s] =
                         [vpn |-> vpn[c], ppn |-> page[c], valid |-> TRUE]]
        /\ trie' = [trie EXCEPT ![t] =
                        With(IF full THEN Without(@, e[s].vpn) ELSE @, vpn[c], s)]
        /\ trie_pa' = [trie_pa EXCEPT ![t] =
                           With(IF full THEN Without(@, e[s].ppn) ELSE @, page[c], s)]
        /\ recent' = [recent EXCEPT ![t] = Used(@, s)]
        /\ Goto(c, "idle")
        /\ UNCHANGED <<mode, running, tlb, vpn, slot, at, page, table_lock, pagingVars,
                       accesses>>
-----------------------------------------------------------------------------
(* setCid(): a core given to another process flushes its TLBs with          *)
(* flush_all(), whose unlocked part only empties a list it fills again, and *)
(* its walker gets the page table of the process. *)
Flushed(f, c, value) == [t \in AllTlbs |-> IF CoreOf[t] = c THEN value ELSE f[t]]
SwitchUnflushed(c, p) ==  \* mutant: the TLBs keep the other process's pages
    /\ pc[c] = "idle" /\ p \in mode.hosts[c] \ {running[c]}
    /\ running' = [running EXCEPT ![c] = p]
    /\ page' = [page EXCEPT ![c] = None]
    /\ UNCHANGED <<mode, pc, tlb, vpn, slot, at, tlbVars, table_lock, pagingVars, accesses>>
Switch(c, p) ==
    /\ pc[c] = "idle" /\ p \in mode.hosts[c] \ {running[c]}
    /\ running' = [running EXCEPT ![c] = p]
    /\ trie' = Flushed(trie, c, NoMap) /\ trie_pa' = Flushed(trie_pa, c, NoMap)
    /\ free' = Flushed(free, c, [s \in 1 .. mode.entries |-> s])
    /\ entry' = [t \in AllTlbs |-> IF CoreOf[t] # c THEN entry[t]
                     ELSE [s \in 1 .. mode.entries |-> [entry[t][s] EXCEPT !.valid = FALSE]]]
    /\ page' = [page EXCEPT ![c] = None]
    /\ UNCHANGED <<mode, pc, tlb, vpn, slot, at, recent, table_lock, pagingVars, accesses>>

Panicked == \E c \in Cores : pc[c] = "panic"

Step(c) ==
    \/ Hit(c) \/ Walk(c) \/ Fault(c) \/ Panic(c)
    \/ ShootLookup(c) \/ ShootInvalidate(c) \/ ShootErase(c) \/ ShootErasePa(c)
    \/ ShootRelease(c) \/ MapTable(c) \/ MapPage(c) \/ Unlock(c) \/ Insert(c)

Next == ~Panicked /\ \E c \in Cores :
    \/ Step(c)
    \/ \E t \in AllTlbs : \E p \in Procs : \E v \in mode.uses[p] : Access(c, t, v)
    \/ \E p \in Procs : Switch(c, p)

Spec == Init /\ [][Next]_vars

(* The host runs every simulated thread, and a futex waiter is woken. *)
FairSpec == Spec /\ \A c \in Cores : WF_vars(~Panicked /\ Step(c))
-----------------------------------------------------------------------------
(* The page table of a process says where a page is, and a translation      *)
(* that has ended returned that page: the entry a hit reads after the       *)
(* unlock, or after a shootdown or a process switch, is never another's.    *)
TranslationRight ==
    \A c \in Cores : pc[c] = "idle" /\ page[c] # None =>
        /\ vpn[c] \in DOMAIN ptes[running[c]]
        /\ page[c] = ptes[running[c]][vpn[c]]

(* A physical page is free, a table, a mapped page or in the hands of one   *)
(* page fault, and only one of these; the allocator's count is the number   *)
(* of pages in its lists; it fails, which ends the simulator, only when     *)
(* every page is in use.                                                   *)
InHand == {c \in Cores : pc[c] \in {"shoot", "invalidate", "erase", "erase_pa",
                                    "release", "map"}}
InUse == UNION {{p} \X (DOMAIN tables[p] \cup DOMAIN ptes[p]) : p \in Procs}
PageAt(u) == IF Len(u[2]) < Levels THEN tables[u[1]][u[2]] ELSE ptes[u[1]][u[2]]
PagesAccounted ==
    LET held == {PageAt(u) : u \in InUse} \cup {page[c] : c \in InHand}
    IN  IF Panicked THEN FreePages = {}
        ELSE /\ Cardinality(held) = Cardinality(InUse) + Cardinality(InHand)
             /\ held \cap FreePages = {}
             /\ Cardinality(held) + Cardinality(FreePages) = Pages
             /\ free_page_num = Cardinality(FreePages)

(* A page keeps its place: two cores that miss on it at once do not both    *)
(* map it, because the second walks only when the first has finished.       *)
MappingStable ==
    [][\A p \in Procs : \A v \in DOMAIN ptes[p] :
           v \in DOMAIN ptes'[p] /\ ptes'[p][v] = ptes[p][v]]_vars

(* A translation that began ends, unless the simulator panics.              *)
TranslationEnds == \A c \in Cores : pc[c] = "miss" ~> (pc[c] = "idle" \/ Panicked)

(* evict() asserts that the entry it takes is in the map.                   *)
EvictAssert ==
    \A c \in Cores : pc[c] = "insert" /\ free[tlb[c]] = <<>> =>
        entry[tlb[c]][Oldest(tlb[c])].vpn \in DOMAIN trie[tlb[c]]
===============================================================================
