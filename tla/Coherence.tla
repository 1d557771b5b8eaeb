----------------------------- MODULE Coherence -----------------------------
(***************************************************************************)
(* The cache hierarchy of the cores: terminal (L1) caches with their       *)
(* filter arrays, the caches above them up to memory, and the MESI         *)
(* controllers that keep them coherent (cache.cpp, coherence_ctrls.*,      *)
(* filter_cache.h).                                                        *)
(*                                                                         *)
(* An access climbs the tree as a chain of nested calls made by the thread *)
(* of one core, and an invalidation descends it the same way, so the state *)
(* holds one call stack per core.  Going up a call gives up the child's    *)
(* lock before it takes the parent's; going down it keeps every lock above *)
(* it.  A step runs from one lock acquisition to the next.  The filter     *)
(* lock is only ever taken innermost and given back in the same step, so   *)
(* it needs no variable.                                                   *)
(*                                                                         *)
(* Caches are numbered as their parents number their children.  Cycles,    *)
(* statistics and event records are left out: no guard reads them.  The    *)
(* choice of a victim is the replacement policy's, here any way.           *)
(***************************************************************************)
EXTENDS Naturals, Sequences, FiniteSets

CONSTANTS
    Cores,      \* the simulated cores, one host thread each
    Lines,      \* line addresses
    Caches,     \* cache numbers
    L1,         \* L1[p][op]: the terminal cache core p uses for op
    Parent,     \* Parent[c][l]: the cache, or Mem, above c for line l
    Ways,       \* Ways[c]: how many lines cache c holds
    Phys,       \* Phys[v]: the physical line of virtual line v
    Tracked,    \* the lines whose stores `dirty` follows
    Walkers,    \* the cores whose page-table walker is simulated
    Mem, None

\* L1[p] gives a data cache for loads and stores, an instruction cache for
\* fetches, or both.
Terminals == UNION {{L1[p][op] : op \in DOMAIN L1[p]} : p \in Cores}
Children == [c \in Caches |-> {d \in Caches : \E l \in Lines : Parent[d][l] = c}]
LLC(l) == CHOOSE c \in Caches : Parent[c][l] = Mem
\* Children and ways are visited in order.
FirstOf(S) == CHOOSE c \in S : \A d \in S : c <= d

MESI == {"I", "S", "E", "M"}
Exclusive == {"E", "M"}
Gets == {"GETS", "GETX"}
Puts == {"PUTS", "PUTX"}

ASSUME CoherenceAssumption ==
    /\ Caches \subseteq Nat \ {0}
    /\ \A p \in Cores : /\ DOMAIN L1[p] \subseteq {"load", "store", "fetch"}
                        /\ L1[p] \in [DOMAIN L1[p] -> Caches]
    /\ Parent \in [Caches -> [Lines -> Caches \cup {Mem}]]
    /\ Ways \in [Caches -> Nat \ {0}]
    /\ Phys \in [Lines -> Lines]
    /\ Walkers \subseteq Cores
    /\ Tracked \subseteq Lines
    /\ Mem \notin Caches /\ None \notin Lines \cup Cores \cup Caches

\* InitSystem builds a tree: no cache is above itself, no L1 is shared by two
\* cores or has children, and each line has one last-level cache (a bank of
\* it); the other banks get no request for the line.
ASSUME TreeAssumption ==
    /\ \E depth \in [Caches -> Caches \cup {0}] :
         \A c \in Caches : \A l \in Lines :
           Parent[c][l] # Mem => depth[Parent[c][l]] < depth[c]
    /\ \A c \in Caches : \A l \in Lines : Parent[c][l] \notin Terminals
    /\ \A p, q \in Cores : \A o \in DOMAIN L1[p], r \in DOMAIN L1[q] :
         L1[p][o] = L1[q][r] => p = q
    /\ \A l \in Lines :
         /\ LLC(l) \in Caches \ Terminals /\ Parent[LLC(l)][l] = Mem
         /\ \A c \in Caches : Parent[c][l] = Mem /\ c # LLC(l) =>
              c \notin Terminals /\ \A d \in Caches : Parent[d][l] # c

VARIABLES
    tag,        \* tag[c][w]: the line in way w of c, or None
    mesi,       \* mesi[c][w]: its state towards the parent (MESIBottomCC)
    dir,        \* dir[c][w]: the children that hold it (MESITopCC::Entry)
    tcc, bcc,   \* the holder of each controller's lock, or None
    filter,     \* filter[c]: the virtual line L1 c's filter lets its core
                \* read, and write
    stack,      \* stack[p]: p's nested calls, innermost first
    wback,      \* wback[p]: *reqWriteback of the invalidation p has out
    dirty       \* tracked lines stored to and not yet written to memory

vars == <<tag, mesi, dir, tcc, bcc, filter, stack, wback, dirty>>

Empty == [sharers |-> {}, exclusive |-> FALSE]
Unfiltered == [rd |-> None, wr |-> None]

Init ==
    /\ tag = [c \in Caches |-> [w \in 1..Ways[c] |-> None]]
    /\ mesi = [c \in Caches |-> [w \in 1..Ways[c] |-> "I"]]
    /\ dir = [c \in Caches |-> [w \in 1..Ways[c] |-> Empty]]
    /\ tcc = [c \in Caches |-> None]
    /\ bcc = [c \in Caches |-> None]
    /\ filter = [c \in Terminals |-> Unfiltered]
    /\ stack = [p \in Cores |-> <<>>]
    /\ wback = [p \in Cores |-> FALSE]
    /\ dirty = {}

-----------------------------------------------------------------------------
(* Lookups, calls and returns                                              *)

\* Array lookup: the way that holds l, 0 where the code returns -1.
Lookup(c, l) ==
    IF \E w \in 1..Ways[c] : tag[c][w] = l
    THEN CHOOSE w \in 1..Ways[c] : tag[c][w] = l
    ELSE 0

IsExclusive(e) == e.exclusive /\ Cardinality(e.sharers) = 1

\* A request that climbs to cache c.  `from` and `slot` are the child and the
\* way whose state the request points to (None for a core or a walker);
\* `init` is that state when the request was made.
Request(c, l, type, flags, from, slot, init, v) ==
    [pc |-> IF c \in Terminals THEN "bcc" ELSE "tcc", cache |-> c, line |-> l,
     type |-> type, flags |-> flags, from |-> from, slot |-> slot,
     init |-> init, way |-> 0, vline |-> v]

\* An invalidation that descends to cache c.
InvReq(c, l, type) ==
    [pc |-> "inv", cache |-> c, line |-> l, type |-> type, way |-> 0]

InCall(p, pc) == stack[p] # <<>> /\ stack[p][1].pc = pc

\* p's innermost call, the calls around it, and what becomes of the stack
\* when it goes on at pc, makes a call, or returns.
Call(p) == Head(stack[p])
Goto(p, call) == stack' = [stack EXCEPT ![p] = <<call>> \o Tail(@)]
Push(p, call, inner) == stack' = [stack EXCEPT ![p] = <<inner, call>> \o Tail(@)]
Pop(p) == stack' = [stack EXCEPT ![p] = Tail(@)]

\* What memory answers (RamulatorMemory::access and the other controllers).
MemGrants(type, flags) ==
    CASE type \in Puts -> "I"
      [] type = "GETS" -> IF "NOEXCL" \in flags THEN "S" ELSE "E"
      [] type = "GETX" -> "M"

\* Cache f.cache sends a request for line l, held in way w, to its parent and
\* goes on at pc.  A parent cache first unlocks this one's bcc; memory changes
\* the state at once.
GoUp(p, f, pc, l, w, type, flags, state) ==
    LET c == f.cache
        par == Parent[c][l]
        call == [f EXCEPT !.pc = pc, !.way = w]
    IN IF par = Mem
       THEN /\ mesi' = [mesi EXCEPT ![c][w] = MemGrants(type, flags)]
            /\ dirty' = IF type = "PUTX" THEN dirty \ {l} ELSE dirty
            /\ Goto(p, call)
            /\ UNCHANGED bcc
       ELSE /\ mesi' = [mesi EXCEPT ![c][w] = state]
            /\ bcc' = [bcc EXCEPT ![c] = None]
            /\ Push(p, call, Request(par, l, type, flags, c, w, state, None))
            /\ UNCHANGED dirty

-----------------------------------------------------------------------------
(* What a core does                                                        *)

\* FilterCache::load and store when the filter array does not hold the line:
\* replace() translates it and sends the access to the L1, which lets go of
\* the filter lock.  A filter hit changes no state.
Access(p, op, v) ==
    /\ stack[p] = <<>>
    /\ op \in DOMAIN L1[p]
    /\ v # IF op = "store" THEN filter[L1[p][op]].wr ELSE filter[L1[p][op]].rd
    /\ stack' = [stack EXCEPT ![p] =
         <<Request(L1[p][op], Phys[v], IF op = "store" THEN "GETX" ELSE "GETS",
                   IF op = "fetch" THEN {"NOEXCL"} ELSE {}, None, 0, "I", v)>>]
    /\ UNCHANGED <<tag, mesi, dir, tcc, bcc, filter, wback, dirty>>

\* A page-table walker, attached to the last-level cache, reads an entry.
Walk(p, l) ==
    /\ stack[p] = <<>>
    /\ p \in Walkers
    /\ stack' = [stack EXCEPT ![p] =
         <<Request(LLC(l), l, "GETS", {"PTW"}, None, 0, "I", None)>>]
    /\ UNCHANGED <<tag, mesi, dir, tcc, bcc, filter, wback, dirty>>

\* FilterCache::contextSwitch, when another thread comes to the core.
ContextSwitch(p) ==
    /\ stack[p] = <<>>
    /\ \E op \in DOMAIN L1[p] : filter[L1[p][op]] # Unfiltered
    /\ filter' = [c \in Terminals |->
                    IF \E op \in DOMAIN L1[p] : c = L1[p][op]
                    THEN Unfiltered ELSE filter[c]]
    /\ UNCHANGED <<tag, mesi, dir, tcc, bcc, stack, wback, dirty>>

-----------------------------------------------------------------------------
(* An access at a cache                                                    *)

\* MESICC::startAccess takes tcc first, then bcc.
LockTop(p) ==
    /\ InCall(p, "tcc")
    /\ tcc[Call(p).cache] = None
    /\ tcc' = [tcc EXCEPT ![Call(p).cache] = p]
    /\ Goto(p, [Call(p) EXCEPT !.pc = "bcc"])
    /\ UNCHANGED <<tag, mesi, dir, bcc, filter, wback, dirty>>

\* The state a request points to: the child's, or the caller's dummy.
ReqState(f) == IF f.from = None THEN "I" ELSE mesi[f.from][f.slot]

\* CheckForMESIRace: a PUT whose line was invalidated meanwhile is skipped, and
\* a PUTX whose line was downgraded becomes a PUTS.
Skipped(f) == f.type \in Puts /\ ReqState(f) # f.init /\ ReqState(f) = "I"
Reduced(f) == IF f.type = "PUTX" /\ ReqState(f) # f.init THEN "PUTS" ELSE f.type

\* A mutant: an exclusive clean line is requested again for a store.
MustFetchExclusive(type, state) ==
    \/ type = "GETS" /\ state = "I"
    \/ type = "GETX" /\ state # "M"

\* MESIBottomCC::processAccess sends a GET up unless the state suffices.
MustFetch(type, state) ==
    \/ type = "GETS" /\ state = "I"
    \/ type = "GETX" /\ state \in {"I", "S"}

\* Where an access goes once the line is in a good state towards the parent:
\* terminal caches and page-table walks have no directory entry to change.
AfterFetch(f) ==
    IF f.cache \in Terminals \/ "PTW" \in f.flags THEN "end" ELSE "grant"

\* startAccess's bcc lock and race check, the array lookup, and
\* MESIBottomCC::processAccess up to its first call.  A miss picks a victim.
StartAccess(p) ==
    LET f == Call(p)
        c == f.cache
        type == Reduced(f)
        w == Lookup(c, f.line)
        call == [f EXCEPT !.type = type, !.way = w]
    IN /\ InCall(p, "bcc")
       /\ bcc[c] = None
       /\ bcc' = [bcc EXCEPT ![c] = p]
       /\ \/ /\ Skipped(f)
             /\ Goto(p, [f EXCEPT !.pc = "end"])
             /\ UNCHANGED mesi
          \/ /\ ~ Skipped(f) /\ w # 0
             /\ IF MustFetch(type, mesi[c][w])
                THEN /\ Goto(p, [call EXCEPT !.pc = "fetch"])
                     /\ UNCHANGED mesi
                ELSE /\ mesi' = [mesi EXCEPT ![c][w] =
                                   IF type \in {"PUTX", "GETX"} THEN "M" ELSE @]
                     /\ Goto(p, [call EXCEPT !.pc = AfterFetch(f)])
          \/ /\ ~ Skipped(f) /\ w = 0 /\ type \in Gets
             /\ \E v \in 1..Ways[c] : Goto(p, [call EXCEPT !.pc = "evict", !.way = v])
             /\ UNCHANGED mesi
          \/ /\ ~ Skipped(f) /\ w = 0 /\ type \in Puts
             /\ Goto(p, [call EXCEPT !.pc = "panic"])
             /\ UNCHANGED mesi
       /\ UNCHANGED <<tag, dir, tcc, filter, wback, dirty>>

\* MESITopCC::processEviction: one more child of the victim is invalidated.
EvictChild(p) ==
    LET f == Call(p)
        e == dir[f.cache][f.way]
    IN /\ InCall(p, "evict")
       /\ e.sharers # {}
       /\ Push(p, f, InvReq(FirstOf(e.sharers), tag[f.cache][f.way], "INV"))
       /\ UNCHANGED <<tag, mesi, dir, tcc, bcc, filter, wback, dirty>>

\* MESIBottomCC::processEviction: the victim leaves with a PUTX if it, or a
\* copy below it, was modified, with a PUTS if it was clean.
Evict(p) ==
    LET f == Call(p)
        c == f.cache
        state == IF wback[p] THEN "M" ELSE mesi[c][f.way]
    IN /\ InCall(p, "evict")
       /\ dir[c][f.way].sharers = {}
       /\ wback' = [wback EXCEPT ![p] = FALSE]
       /\ IF state = "I"
          THEN /\ Goto(p, [f EXCEPT !.pc = "fetch"])
               /\ UNCHANGED <<mesi, bcc, dirty>>
          ELSE GoUp(p, f, "fetch", tag[c][f.way], f.way,
                    IF state = "M" THEN "PUTX" ELSE "PUTS", {}, state)
       /\ UNCHANGED <<tag, dir, tcc, filter>>

\* array->postinsert, and the GET that MESIBottomCC::processAccess sends up.
Fetch(p) ==
    LET f == Call(p)
        c == f.cache
    IN /\ InCall(p, "fetch")
       /\ tag' = [tag EXCEPT ![c][f.way] = f.line]
       /\ GoUp(p, f, AfterFetch(f), f.line, f.way, f.type, f.flags, mesi[c][f.way])
       /\ UNCHANGED <<dir, tcc, filter, wback>>

\* A mutant: a dirty writeback does not fall through to the removal.
GrantedPutxKept(f, e, haveExclusive) ==
    CASE f.type = "PUTX" -> [entry |-> e, state |-> "I"]
      [] f.type = "PUTS" ->
           [entry |-> [e EXCEPT !.sharers = @ \ {f.from}], state |-> "I"]
      [] f.type = "GETX" ->
           [entry |-> [sharers |-> {f.from}, exclusive |-> TRUE], state |-> "M"]
      [] f.type = "GETS" ->
           [entry |-> [sharers |-> e.sharers \cup {f.from}, exclusive |-> FALSE],
            state |-> "S"]

\* The directory entry, as a request from child d leaves it, and the state it
\* gives the child (MESITopCC::processAccess).
Granted(f, e, haveExclusive) ==
    CASE f.type \in Puts ->
           [entry |-> [e EXCEPT !.sharers = @ \ {f.from}], state |-> "I"]
      [] f.type = "GETX" ->
           [entry |-> [sharers |-> {f.from}, exclusive |-> TRUE], state |-> "M"]
      [] f.type = "GETS" ->
           IF e.sharers = {} /\ haveExclusive /\ "NOEXCL" \notin f.flags
           THEN [entry |-> [sharers |-> {f.from}, exclusive |-> TRUE],
                 state |-> "E"]
           ELSE [entry |-> [sharers |-> e.sharers \cup {f.from},
                            exclusive |-> FALSE],
                 state |-> "S"]

\* A mutant: a store leaves the other children their copies.
MustRevokeLoads(f, e) ==
    IF f.type = "GETS" /\ IsExclusive(e) THEN e.sharers ELSE {}

\* The children that must give the line up, or give up its exclusivity, first.
MustRevoke(f, e) ==
    CASE f.type \in Puts -> {}
      [] f.type = "GETX" -> e.sharers \ {f.from}
      [] f.type = "GETS" -> IF IsExclusive(e) THEN e.sharers ELSE {}

\* MESITopCC::processAccess calls sendInvalidates for one more child.  On an
\* upgrade the requester leaves the sharers before the others are invalidated.
Revoke(p) ==
    LET f == Call(p)
        e == dir[f.cache][f.way]
    IN /\ InCall(p, "grant")
       /\ MustRevoke(f, e) # {}
       /\ dir' = [dir EXCEPT ![f.cache][f.way].sharers = MustRevoke(f, e)]
       /\ Push(p, f, InvReq(FirstOf(MustRevoke(f, e)), f.line,
                            IF f.type = "GETX" THEN "INV" ELSE "INVX"))
       /\ UNCHANGED <<tag, mesi, tcc, bcc, filter, wback, dirty>>

\* A mutant: the writeback a downgrade induced is dropped.
GrantClean(p) ==
    LET f == Call(p)
        c == f.cache
        g == Granted(f, dir[c][f.way], mesi[c][f.way] \in Exclusive)
    IN /\ InCall(p, "grant")
       /\ MustRevoke(f, dir[c][f.way]) = {}
       /\ dir' = [dir EXCEPT ![c][f.way] = g.entry]
       /\ mesi' = [mesi EXCEPT ![f.from][f.slot] = g.state]
       /\ wback' = [wback EXCEPT ![p] = FALSE]
       /\ Goto(p, [f EXCEPT !.pc = "end"])
       /\ UNCHANGED <<tag, tcc, bcc, filter, dirty>>

\* The rest of MESITopCC::processAccess, and processWritebackOnAccess: if a
\* child gave up modified data, this cache holds it from now on.
Grant(p) ==
    LET f == Call(p)
        c == f.cache
        g == Granted(f, dir[c][f.way], mesi[c][f.way] \in Exclusive)
    IN /\ InCall(p, "grant")
       /\ MustRevoke(f, dir[c][f.way]) = {}
       /\ dir' = [dir EXCEPT ![c][f.way] = g.entry]
       /\ mesi' = [mesi EXCEPT ![f.from][f.slot] = g.state,
                               ![c][f.way] = IF wback[p] THEN "M" ELSE mesi[c][f.way]]
       /\ wback' = [wback EXCEPT ![p] = FALSE]
       /\ Goto(p, [f EXCEPT !.pc = "end"])
       /\ UNCHANGED <<tag, tcc, bcc, filter, dirty>>

\* What replace() leaves in the filter array once the access has come back.
Filtered(f) ==
    [rd |-> f.vline, wr |-> IF f.type = "GETX" THEN f.vline ELSE None]

\* MESICC::endAccess relocks the child, then unlocks bcc and tcc.  Back in the
\* core, replace() sets the filter entry under the filter lock.
EndAccess(p) ==
    LET f == Call(p)
        c == f.cache
    IN /\ InCall(p, "end")
       /\ f.from # None => bcc[f.from] = None
       /\ bcc' = [d \in Caches |-> IF d = c THEN None
                                   ELSE IF d = f.from THEN p ELSE bcc[d]]
       /\ tcc' = [tcc EXCEPT ![c] = IF c \in Terminals THEN @ ELSE None]
       /\ IF f.vline # None
          THEN /\ filter' = [filter EXCEPT ![c] = Filtered(f)]
               /\ dirty' = IF f.type = "GETX"
                           THEN dirty \cup ({f.line} \cap Tracked) ELSE dirty
          ELSE UNCHANGED <<filter, dirty>>
       /\ Pop(p)
       /\ UNCHANGED <<tag, mesi, dir, wback>>

-----------------------------------------------------------------------------
(* An invalidation at a cache                                              *)

\* The children sendInvalidates goes to: all of them on an INV, only an
\* exclusive one on an INVX.
MustForward(f) ==
    LET e == dir[f.cache][f.way]
    IN IF f.way = 0 \/ (f.type = "INVX" /\ ~ IsExclusive(e))
       THEN {} ELSE e.sharers

\* A mutant: an invalidation does not reach the filter array.
UnfilterNothing(c, l) == filter

\* FilterCache::invalidate compares the filter's virtual line with the physical
\* line that is being invalidated.
Unfilter(c, l) ==
    IF c \in Terminals /\ filter[c].rd = l
    THEN [filter EXCEPT ![c] = Unfiltered] ELSE filter

\* Cache::startInvalidate takes bcc (not tcc); a filter cache then clears its
\* filter entry; the array lookup follows.
StartInvalidate(p) ==
    LET f == Call(p)
    IN /\ InCall(p, "inv")
       /\ bcc[f.cache] = None
       /\ bcc' = [bcc EXCEPT ![f.cache] = p]
       /\ filter' = Unfilter(f.cache, f.line)
       /\ Goto(p, [f EXCEPT !.pc = "down", !.way = Lookup(f.cache, f.line)])
       /\ UNCHANGED <<tag, mesi, dir, tcc, wback, dirty>>

\* MESITopCC::processInval: one more child is invalidated or downgraded.
ForwardInval(p) ==
    LET f == Call(p)
    IN /\ InCall(p, "down")
       /\ MustForward(f) # {}
       /\ Push(p, f, InvReq(FirstOf(MustForward(f)), f.line, f.type))
       /\ UNCHANGED <<tag, mesi, dir, tcc, bcc, filter, wback, dirty>>

\* A mutant: the sharer bit of an invalidated child stays set.
AnsweredKept(e, c, type) ==
    IF type = "INV" THEN e ELSE [e EXCEPT !.exclusive = FALSE]

\* The entry of the caller of an invalidation, after child c has answered it.
Answered(e, c, type) ==
    IF type = "INV" THEN [e EXCEPT !.sharers = @ \ {c}]
                    ELSE [e EXCEPT !.exclusive = FALSE]

\* MESIBottomCC::processInval, the unlock in processInv, and, in the caller's
\* sendInvalidates, what follows the call.
FinishInvalidate(p) ==
    LET f == Call(p)
        c == f.cache
        g == stack[p][2]
    IN /\ InCall(p, "down")
       /\ MustForward(f) = {}
       /\ IF f.way = 0
          THEN UNCHANGED <<mesi, wback>>
          ELSE /\ wback' = [wback EXCEPT ![p] = @ \/ mesi[c][f.way] = "M"]
               /\ mesi' = [mesi EXCEPT ![c][f.way] =
                             IF f.type = "INV" THEN "I" ELSE "S"]
       /\ bcc' = [bcc EXCEPT ![c] = None]
       /\ dir' = [dir EXCEPT ![g.cache][g.way] = Answered(@, c, f.type)]
       /\ Pop(p)
       /\ UNCHANGED <<tag, tcc, filter, dirty>>

-----------------------------------------------------------------------------
Step(p) ==
    \/ LockTop(p) \/ StartAccess(p)
    \/ EvictChild(p) \/ Evict(p) \/ Fetch(p)
    \/ Revoke(p) \/ Grant(p) \/ EndAccess(p)
    \/ StartInvalidate(p) \/ ForwardInval(p) \/ FinishInvalidate(p)

Program(p) ==
    \/ \E op \in DOMAIN L1[p], v \in Lines : Access(p, op, v)
    \/ \E l \in Lines : Walk(p, l)
    \/ ContextSwitch(p)

Next == \E p \in Cores : Step(p) \/ Program(p)

Spec == Init /\ [][Next]_vars

-----------------------------------------------------------------------------
(* Properties                                                              *)

\* The state in which cache c holds line l.
State(c, l) ==
    LET w == Lookup(c, l) IN IF w = 0 THEN "I" ELSE mesi[c][w]
States == [l \in Lines |-> [c \in Caches |-> State(c, l)]]

Calls == [pc : {"tcc", "bcc", "evict", "fetch", "grant", "end", "panic"},
          cache : Caches, line : Lines, type : Gets \cup Puts,
          flags : SUBSET {"NOEXCL", "PTW"}, from : Caches \cup {None},
          slot : Nat, init : MESI, way : Nat, vline : Lines \cup {None}]
Invs == [pc : {"inv", "down"}, cache : Caches, line : Lines,
         type : {"INV", "INVX"}, way : Nat]

\* The types of the state, and the inclusive hierarchy's panic ("We lost
\* inclusion on this line!") is never reached.
TypeOK ==
    /\ \A c \in Caches : /\ tag[c] \in [1..Ways[c] -> Lines \cup {None}]
                         /\ mesi[c] \in [1..Ways[c] -> MESI]
                         /\ dir[c] \in [1..Ways[c] ->
                              [sharers : SUBSET Children[c], exclusive : BOOLEAN]]
    /\ tcc \in [Caches -> Cores \cup {None}]
    /\ bcc \in [Caches -> Cores \cup {None}]
    /\ filter \in [Terminals -> [rd : Lines \cup {None}, wr : Lines \cup {None}]]
    /\ \A p \in Cores : \A i \in DOMAIN stack[p] : stack[p][i] \in Calls \cup Invs
    /\ wback \in [Cores -> BOOLEAN]
    /\ dirty \subseteq Lines

\* Coherence: while a cache holds a line in E or M, no sibling holds the line
\* at all; and no two L1s do, wherever they are in the tree.
SingleWriter ==
    LET st == States
    IN \A l \in Lines : \A c \in Caches : st[l][c] \in Exclusive =>
         \A d \in Caches \ {c} :
             \/ Parent[c][l] = Parent[d][l]
             \/ {c, d} \subseteq Terminals
             => st[l][d] = "I"

\* An upgrade for child c is revoking the copies of the other children.
Upgrading(c, l) ==
    \E p \in Cores : \E i \in DOMAIN stack[p] :
        LET f == stack[p][i]
        IN f.pc = "grant" /\ f.line = l /\ f.from = c /\ f.type = "GETX"

\* The hierarchy is inclusive and its directories are exact: a cache that is
\* not terminal lists exactly the children that hold a line, bar one whose
\* upgrade is under way, and holds the line itself, in E or M if a child does.
\* So no invalidation misses a copy or reaches a child without one (the asserts
\* of processInval), and the panic of shouldAllocate ("We lost inclusion on
\* this line!") is out of reach.
DirectoryExact ==
    /\ \A p \in Cores : ~ InCall(p, "panic")
    /\ \A l \in Lines : \A d \in Caches \ Terminals :
        LET st == [c \in Children[d] |-> State(c, l)]
            holders == {c \in Children[d] : Parent[c][l] = d /\ st[c] # "I"}
            w == Lookup(d, l)
            listed == IF w = 0 THEN {} ELSE dir[d][w].sharers
        IN /\ listed \subseteq holders
           /\ \A c \in holders \ listed : Upgrading(c, l)
           /\ holders # {} => State(d, l) # "I"
           /\ \A c \in holders : st[c] \in Exclusive =>
                /\ State(d, l) \in Exclusive
                /\ dir[d][w].exclusive /\ holders = {c}

\* CheckForMESIRace meets only the races it provides for: a waiting PUT's line
\* was invalidated or downgraded, a waiting upgrade's line was invalidated, and
\* a waiting GETS's line has not changed (its asserts and its panic).
RacesForeseen ==
    \A p \in Cores : stack[p] # <<>> =>
        LET f == Call(p)
        IN f.pc \in {"tcc", "bcc"} /\ ReqState(f) # f.init =>
             \/ f.type = "PUTX" /\ ReqState(f) \in {"I", "S"}
             \/ f.type = "PUTS" /\ ReqState(f) \in {"I", "S"}
             \/ f.type = "GETX" /\ f.init = "S" /\ ReqState(f) = "I"

\* No store is forgotten: a line stored to since memory last took it is
\* modified in some cache, or its data is on the way up.
DirtyKept ==
    \A l \in dirty :
        \/ \E c \in Caches : State(c, l) = "M"
        \/ \E p \in Cores : wback[p] /\ \E i \in DOMAIN stack[p] :
               LET f == stack[p][i]
               IN \/ f.line = l
                  \/ f.pc = "evict" /\ tag[f.cache][f.way] = l

\* Whenever a core consults a filter array, a line it may load is valid in the
\* L1, and a line it may store to is modified there ("Because there is one line
\* per set, it is fine to do this without grabbing a lock").
FilterCovered ==
    \A p \in Cores : stack[p] = <<>> =>
        \A op \in DOMAIN L1[p] :
            LET c == L1[p][op]
            IN /\ filter[c].rd # None => State(c, Phys[filter[c].rd]) # "I"
               /\ filter[c].wr # None => State(c, Phys[filter[c].wr]) = "M"

\* Every access comes back to its core: neither the locks taken going up nor
\* those taken going down ever wait on each other in a ring.
AccessEnds == \A p \in Cores : stack[p] # <<>> ~> stack[p] = <<>>
=============================================================================
