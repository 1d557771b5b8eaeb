------------------------- MODULE CoherenceDirectory -------------------------
(***************************************************************************)
(* The coherence directory of the PIM cores (coherence_directory.*,        *)
(* cd_arrays.cpp), under both write policies of the caches below it.       *)
(*                                                                         *)
(* The directory is a last level that holds no data: it remembers which    *)
(* children hold each data line and passes every request on to memory.     *)
(* Instruction fetches and page-table walks leave no trace, and an entry   *)
(* is freed only when its last child writes back.  Under the write-back    *)
(* policy its children are the caches of Coherence, whose state and steps  *)
(* this module takes over: tag[d] is the directory's array, dir[d] its     *)
(* entries, and mesi[d] has no counterpart.  Under the write-through       *)
(* policy the children are data caches with the IV controllers, without a  *)
(* filter, and each store invalidates the line in all of them.             *)
(*                                                                         *)
(* Memory answers at once and never calls down, so an access runs in one   *)
(* step from the directory's bcc lock to its first invalidation.           *)
(***************************************************************************)
EXTENDS Coherence, FiniteSetsExt

CONSTANTS
    Dirs,       \* the caches of type "Coherence"
    Text,       \* the lines that hold instructions
    Policies,   \* the values sys.caches.wpl may have
    Through,    \* Through[p]: core p's data cache, if it writes through
    SrcChild    \* SrcChild[p]: the child whose number is core p's, or None

Data == Lines \ Text

\* A directory is a last level and has an entry for every line its children
\* can hold ("entries = 131072; // total l1d lines").
ASSUME DirectoryAssumption ==
    /\ Dirs \subseteq Caches \ Terminals
    /\ Text \subseteq Lines
    /\ Policies \subseteq {"WRITEBACK", "WRITETHROUGH"}
    /\ Through \in [Cores -> Caches] /\ SrcChild \in [Cores -> Caches \cup {None}]
    /\ \A p \in Cores : \A l \in Lines : Parent[Through[p]][l] \in Dirs
    /\ \A d \in Dirs :
         /\ \A l \in Lines : Parent[d][l] = Mem
         /\ Ways[d] >= MapThenSumSet(LAMBDA x : Ways[x], Children[d])

VARIABLES
    cacheWritePolicy,
    todo,       \* todo[p]: the children p's store has yet to invalidate
    data        \* data[c][l]: whether write-through cache c got line l since it
                \* put it in ("none" if not), and if it is still the latest

dirVars == <<vars, cacheWritePolicy, todo, data>>
Same == UNCHANGED <<cacheWritePolicy, todo, data>>

DirInit ==
    /\ Init
    /\ cacheWritePolicy \in Policies
    /\ todo = [p \in Cores |-> {}]
    /\ data = [c \in Caches |-> [l \in Lines |-> "none"]]

-----------------------------------------------------------------------------
(* The directory over write-back caches                                    *)

AtDirectory(p) == stack[p] # <<>> /\ Call(p).cache \in Dirs

\* CoherenceDirectory::access just forwards instruction fetches (which are the
\* requests marked NOEXCL) and walks, and the eviction of a line without an
\* entry, which was fetched as an instruction.
Passes(f) == f.flags \cap {"NOEXCL", "PTW"} # {}
Forwarded(f, type, w) == Passes(f) \/ (type \in Puts /\ w = 0)

\* What a write to memory leaves dirty, and the state memory gives the child
\* that a request comes from, if any.
Written(f, type) == IF type = "PUTX" THEN dirty \ {f.line} ELSE dirty
Given(f, state) ==
    IF f.from = None THEN mesi ELSE [mesi EXCEPT ![f.from][f.slot] = state]

Free(d) == {w \in 1..Ways[d] : tag[d][w] = None}

\* CDSetAssocArray::lookup and preinsert: the way of the line, or the first
\* free one; 0 where the code's assert(candidate != -1) fails.
Place(d, w) == IF w = 0 /\ Free(d) # {} THEN FirstOf(Free(d)) ELSE w

\* A mutant: the tag of an entry that has lost its last sharer stays.
WriteBackKept(f, w) ==
    /\ dir' = [dir EXCEPT ![f.cache][w].sharers = @ \ {f.from}]
    /\ mesi' = Given(f, "I")
    /\ UNCHANGED tag

\* A mutant: a writeback frees the entry, whoever else shares the line.
WriteBackAll(f, w) ==
    /\ dir' = [dir EXCEPT ![f.cache][w] = Empty]
    /\ tag' = [tag EXCEPT ![f.cache][w] = None]
    /\ mesi' = Given(f, "I")

\* CDMESITopCC::processWriteBack removes the child, and access() clears the
\* array's tag when that leaves no sharer.
WriteBack(f, w) ==
    LET d == f.cache
        rest == dir[d][w].sharers \ {f.from}
    IN /\ dir' = [dir EXCEPT ![d][w] =
                    IF rest = {} THEN Empty ELSE [@ EXCEPT !.sharers = rest]]
       /\ tag' = [tag EXCEPT ![d][w] = IF rest = {} THEN None ELSE @]
       /\ mesi' = Given(f, "I")

\* CDMESICC::startAccess's bcc lock and race check, and CoherenceDirectory::
\* access: forwarded, written back, or fetched from memory to be granted.
DirectoryAccess(p) ==
    LET f == Call(p)
        d == f.cache
        type == Reduced(f)
        w == Lookup(d, f.line)
        call == [f EXCEPT !.type = type, !.way = Place(d, w)]
    IN /\ InCall(p, "bcc") /\ d \in Dirs
       /\ cacheWritePolicy = "WRITEBACK" \/ Passes(f)
       /\ bcc[d] = None
       /\ bcc' = [bcc EXCEPT ![d] = p]
       /\ \/ /\ Skipped(f)
             /\ Goto(p, [f EXCEPT !.pc = "end"])
             /\ UNCHANGED <<tag, mesi, dir, dirty>>
          \/ /\ ~ Skipped(f) /\ Forwarded(f, type, w)
             /\ mesi' = Given(f, MemGrants(type, f.flags))
             /\ dirty' = Written(f, type)
             /\ Goto(p, [f EXCEPT !.pc = "end", !.type = type])
             /\ UNCHANGED <<tag, dir>>
          \/ /\ ~ Skipped(f) /\ ~ Forwarded(f, type, w) /\ type \in Puts
             /\ WriteBack(f, w)
             /\ dirty' = Written(f, type)
             /\ Goto(p, [call EXCEPT !.pc = "end"])
          \/ /\ ~ Skipped(f) /\ ~ Forwarded(f, type, w) /\ type \in Gets
             /\ IF call.way = 0
                THEN /\ Goto(p, [call EXCEPT !.pc = "panic"])
                     /\ UNCHANGED tag
                ELSE /\ Goto(p, [call EXCEPT !.pc = "grant"])
                     /\ tag' = [tag EXCEPT ![d][call.way] = f.line]
             /\ UNCHANGED <<mesi, dir, dirty>>
       /\ UNCHANGED <<tcc, filter, wback>>
       /\ Same

\* The entry as CDMESITopCC::processAccess leaves it and the state it gives the
\* child.  Memory is always exclusive, so the first reader gets the line in E.
Entered(f, e) ==
    IF f.type = "GETX"
    THEN [entry |-> [sharers |-> {f.from}, exclusive |-> TRUE], state |-> "M"]
    ELSE IF e.sharers = {}
    THEN [entry |-> [sharers |-> {f.from}, exclusive |-> TRUE], state |-> "E"]
    ELSE [entry |-> [sharers |-> e.sharers \cup {f.from}, exclusive |-> FALSE],
          state |-> "S"]

\* The rest of CDMESITopCC::processAccess, once the other copies are revoked.
\* What the revocations reported in lowerLevelWriteback is not used.
DirectoryGrant(p) ==
    LET f == Call(p)
        d == f.cache
        g == Entered(f, dir[d][f.way])
    IN /\ InCall(p, "grant") /\ d \in Dirs
       /\ MustRevoke(f, dir[d][f.way]) = {}
       /\ dir' = [dir EXCEPT ![d][f.way] = g.entry]
       /\ mesi' = [mesi EXCEPT ![f.from][f.slot] = g.state]
       /\ wback' = [wback EXCEPT ![p] = FALSE]
       /\ Goto(p, [f EXCEPT !.pc = "end"])
       /\ UNCHANGED <<tag, tcc, bcc, filter, dirty>>
       /\ Same

-----------------------------------------------------------------------------
(* Write-through caches below the directory                                *)

\* FilterCache::replace with the filter off sends every access to the cache.
ThroughAccess(p, op, l) ==
    /\ cacheWritePolicy = "WRITETHROUGH"
    /\ stack[p] = <<>>
    /\ stack' = [stack EXCEPT ![p] =
         <<[Request(Through[p], Phys[l], IF op = "store" THEN "GETX" ELSE "GETS",
                    {}, None, 0, "I", None) EXCEPT !.pc = "iv"]>>]
    /\ UNCHANGED <<tag, mesi, dir, tcc, bcc, filter, wback, dirty>>
    /\ Same

\* Cache::access's write-through branch: a miss takes the set's first way,
\* since isValid() is always false and every way then ranks the same.  The
\* line in it is not evicted, and the way keeps its state.
\* IVBottomCC::processAccess then finds a load's line valid, or sends a GETS,
\* or for a store a PUTX, to the directory, which unlocks this cache.
ThroughStart(p) ==
    LET f == Call(p)
        c == f.cache
        hit == Lookup(c, f.line)
        w == IF hit = 0 THEN 1 ELSE hit
        call == [f EXCEPT !.pc = "ivdone", !.way = w]
    IN /\ InCall(p, "iv")
       /\ bcc[c] = None
       /\ tag' = [tag EXCEPT ![c][w] = f.line]
       /\ data' = [data EXCEPT ![c] = [l \in Lines |->
                     IF hit = 0 /\ l = tag[c][w] THEN "none" ELSE @[l]]]
       /\ IF f.type = "GETS" /\ mesi[c][w] # "I"
          THEN Pop(p)
          ELSE Push(p, call,
                    Request(Parent[c][f.line], f.line,
                            IF f.type = "GETX" THEN "PUTX" ELSE "GETS",
                            f.flags, c, w, mesi[c][w], None))
       /\ UNCHANGED <<mesi, dir, tcc, bcc, filter, wback, dirty>>
       /\ UNCHANGED <<cacheWritePolicy, todo>>

\* A mutant: the test for the writer's own number is the wrong way round.
OthersOnly(p) == {Through[q] : q \in Cores} \cap {SrcChild[p]}

\* The children CDMESITopCC::sendAllInvalidates goes to.
Others(p) == {Through[q] : q \in Cores} \ {SrcChild[p]}

\* CDMESICC::startAccess without a race check, and
\* processWriteThroughAccess up to its first invalidation.
ThroughDirectory(p) ==
    LET f == Call(p)
        d == f.cache
        store == f.type = "PUTX"
    IN /\ InCall(p, "bcc") /\ d \in Dirs
       /\ cacheWritePolicy = "WRITETHROUGH" /\ ~ Passes(f)
       /\ bcc[d] = None
       /\ bcc' = [bcc EXCEPT ![d] = p]
       /\ mesi' = Given(f, MemGrants(f.type, f.flags))
       /\ todo' = [todo EXCEPT ![p] = IF store THEN Others(p) ELSE {}]
       /\ data' = [c \in Caches |-> [data[c] EXCEPT ![f.line] =
                     IF c = f.from THEN "latest"
                     ELSE IF store /\ @ = "latest" THEN "old" ELSE @]]
       /\ Goto(p, [f EXCEPT !.pc = IF store THEN "all" ELSE "end"])
       /\ UNCHANGED <<tag, dir, tcc, filter, wback, dirty, cacheWritePolicy>>

\* sendAllInvalidates invalidates one more child, which takes its bcc for it
\* (Cache::startInvalidate, finishInvalidate, IVBottomCC::processInval).
ThroughInvalidate(p) ==
    LET c == FirstOf(todo[p])
        w == Lookup(c, Call(p).line)
    IN /\ InCall(p, "all")
       /\ todo[p] # {}
       /\ bcc[c] = None
       /\ mesi' = IF w = 0 THEN mesi ELSE [mesi EXCEPT ![c][w] = "I"]
       /\ todo' = [todo EXCEPT ![p] = @ \ {c}]
       /\ UNCHANGED <<tag, dir, tcc, bcc, filter, stack, wback, dirty>>
       /\ UNCHANGED <<cacheWritePolicy, data>>

\* sendAllInvalidates returns.
ThroughInvalidated(p) ==
    /\ InCall(p, "all")
    /\ todo[p] = {}
    /\ Goto(p, [Call(p) EXCEPT !.pc = "end"])
    /\ UNCHANGED <<tag, mesi, dir, tcc, bcc, filter, wback, dirty>>
    /\ Same

\* IVBottomCC::processAccess marks the line valid, and endAccess unlocks.
ThroughEnd(p) ==
    LET f == Call(p)
    IN /\ InCall(p, "ivdone")
       /\ mesi' = [mesi EXCEPT ![f.cache][f.way] = "S"]
       /\ bcc' = [bcc EXCEPT ![f.cache] = None]
       /\ Pop(p)
       /\ UNCHANGED <<tag, dir, tcc, filter, wback, dirty>>
       /\ Same

-----------------------------------------------------------------------------
CacheStep(p) == ~ AtDirectory(p) /\ (StartAccess(p) \/ Grant(p)) /\ Same

DirStep(p) ==
    \/ CacheStep(p) \/ DirectoryAccess(p) \/ DirectoryGrant(p)
    \/ LockTop(p) /\ Same
    \/ EvictChild(p) /\ Same
    \/ Evict(p) /\ Same
    \/ Fetch(p) /\ Same
    \/ Revoke(p) /\ Same
    \/ EndAccess(p) /\ Same
    \/ StartInvalidate(p) /\ Same
    \/ ForwardInval(p) /\ Same
    \/ FinishInvalidate(p) /\ Same
    \/ ThroughStart(p) \/ ThroughDirectory(p) \/ ThroughInvalidate(p)
    \/ ThroughInvalidated(p) \/ ThroughEnd(p)

\* Programs keep instructions and data on lines of their own.  A context
\* switch only empties a filter array and is left out.
BackAccess(p, op, l) ==
    /\ cacheWritePolicy = "WRITEBACK"
    /\ l \in IF op = "fetch" THEN Text ELSE Data
    /\ Access(p, op, l)
    /\ Same

DirProgram(p) ==
    \/ \E op \in DOMAIN L1[p], l \in Lines : BackAccess(p, op, l)
    \/ \E op \in {"load", "store"}, l \in Data : ThroughAccess(p, op, l)
    \/ \E l \in Data : Walk(p, l) /\ Same

DirNext == \E p \in Cores : DirStep(p) \/ DirProgram(p)

DirSpec == DirInit /\ [][DirNext]_dirVars

\* A futex hands a lock on, if not in order, to someone who waits for it.
FairDirSpec == DirSpec /\ \A p \in Cores : SF_dirVars(DirStep(p))

-----------------------------------------------------------------------------
(* Properties                                                              *)

\* The directory follows write-back children: its entry for a data line lists
\* exactly those that hold it, bar one whose upgrade is under way, and an
\* exclusive copy is listed as the only one.  The caches below it enter,
\* upgrade and evict lines while others revoke them, and only the directory's
\* own steps touch the entry.
TrackedExactly ==
    cacheWritePolicy = "WRITEBACK" => \A d \in Dirs : \A l \in Data :
        LET holders == {c \in Children[d] : State(c, l) # "I"}
            w == Lookup(d, l)
            e == IF w = 0 THEN Empty ELSE dir[d][w]
        IN /\ e.sharers \subseteq holders
           /\ \A c \in holders \ e.sharers : Upgrading(c, l)
           /\ \A c \in holders : State(c, l) \in Exclusive =>
                e.exclusive /\ holders = {c}

\* A write-through cache never goes on with data that a store has since
\* overwritten: what it got and still holds valid is the latest, unless the
\* store is on its way to invalidate it.  A load may be waiting for the
\* directory, or come back from it, while the invalidations go round.
NoStaleCopy ==
    \A c \in Caches : \A w \in 1..Ways[c] :
        LET l == tag[c][w]
        IN l # None /\ mesi[c][w] # "I" /\ data[c][l] = "old" =>
             \E p \in Cores : c \in todo[p] /\ Call(p).line = l

\* A write-through cache that holds a line valid has fetched or written it
\* since it put it in ("if needed, fetch line or upgrade miss from upper
\* level", IVTerminalCC::processAccess).
ValidWasFetched ==
    \A p \in Cores : stack[p] = <<>> => \A w \in 1..Ways[Through[p]] :
        LET c == Through[p]
            l == tag[c][w]
        IN cacheWritePolicy = "WRITETHROUGH" /\ l # None /\ mesi[c][w] # "I"
           => data[c][l] # "none"

\* An entry is there only while a child holds the line or asks for it, so a
\* directory sized for its children's lines always has a free one when it
\* needs it (assert(candidate != -1) in CDSetAssocArray::preinsert).
RoomLeft ==
    /\ \A p \in Cores : ~ InCall(p, "panic")
    /\ \A d \in Dirs : \A w \in 1..Ways[d] :
         tag[d][w] # None /\ dir[d][w].sharers = {} =>
           \E p \in Cores : \E i \in DOMAIN stack[p] :
             LET f == stack[p][i]
             IN f.cache = d /\ f.line = tag[d][w] /\ f.pc = "grant"
=============================================================================
