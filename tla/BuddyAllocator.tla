---------------------------- MODULE BuddyAllocator ----------------------------
(***************************************************************************)
(* The allocator of simulated physical pages (mmu/memory_management.cpp,   *)
(* mmu/zone.cpp), as the program uses it: every caller asks for one page   *)
(* of the normal zone, and nothing that runs gives a page back (the page   *)
(* tables, whose destructors would, live as long as the simulator).  Each  *)
(* call holds the allocator's lock throughout and is therefore one step.   *)
(***************************************************************************)
EXTENDS Naturals, Sequences, FiniteSets

CONSTANTS Pages,    \* pages of the zone
          MAXORDER  \* order of the largest block, 11 in the code

ASSUME BuddyAssumption == Pages \in Nat /\ MAXORDER \in Nat \ {0}

VARIABLES block_list,    \* for each order the free blocks, by first page
          free_page_num  \* the pages the allocator believes to be free

buddyVars == <<block_list, free_page_num>>

Orders == 0 .. MAXORDER
ToSet(seq) == {seq[i] : i \in DOMAIN seq}

(* Pages still to be split into blocks when free_area_init_zone() comes to  *)
(* the order.  Order 0 gets no block: the last page of an odd zone is lost. *)
Remaining(order) == IF order = MAXORDER THEN Pages ELSE Pages % 2^(order + 1)
free_area_init_zone(order) ==
    [j \in 1 .. (IF order = 0 THEN 0 ELSE Remaining(order) \div 2^order) |->
         Pages - Remaining(order) + (j - 1) * 2^order]

(* The orders rmqueue_page_smallest() can serve a request from. *)
NonEmpty(lists) == {order \in Orders : lists[order] # <<>>}

(* It takes the first block of the smallest of them. *)
Smallest(lists) == CHOOSE order \in NonEmpty(lists) :
                       \A o \in NonEmpty(lists) : order <= o
FirstPage(lists) == Head(lists[Smallest(lists)])

(* expand(): the upper halves of the block go to the lists of their order.  *)
Expand(lists, page, high) ==
    [order \in Orders |-> IF order < high THEN Append(lists[order], page + 2^order)
                                          ELSE lists[order]]

(* The lists after allocate_pages(0) handed out FirstPage. *)
Allocated(lists) ==
    Expand([lists EXCEPT ![Smallest(lists)] = Tail(@)], FirstPage(lists), Smallest(lists))

(* The page tables of all processes take a page each for their root, in    *)
(* the order of the processes, before anything runs.                       *)
AfterRoots[n \in Nat] ==
    IF n = 0 THEN [order \in Orders |-> free_area_init_zone(order)]
             ELSE Allocated(AfterRoots[n - 1])
BuddyInit(roots) ==
    /\ block_list = AfterRoots[roots]
    /\ free_page_num = Pages - roots

AllocateKept ==  \* mutant: the block is looked at and not taken off its list
    /\ NonEmpty(block_list) # {}
    /\ block_list' = Expand(block_list, FirstPage(block_list), Smallest(block_list))
    /\ free_page_num' = free_page_num - 1
Allocate ==
    /\ NonEmpty(block_list) # {}
    /\ block_list' = Allocated(block_list)
    /\ free_page_num' = free_page_num - 1

(* The pages of the free blocks. *)
FreePages ==
    {page \in 0 .. Pages : \E order \in Orders : \E first \in ToSet(block_list[order]) :
                               page \in first .. first + 2^order - 1}
===============================================================================
