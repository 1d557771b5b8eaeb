------------------------- MODULE CoherenceInvariant -------------------------
(***************************************************************************)
(* The inductive invariant of the hierarchy of caches, and the words its   *)
(* proofs use.                                                             *)
(*                                                                         *)
(* The frames of a core's stack are counted from the outermost call, so    *)
(* that a call or a return leaves the numbers of the other frames alone.   *)
(* A frame either holds its cache's bcc, waits for a request it sent up    *)
(* (and has given bcc up), or has not started.  Whoever changes a line's   *)
(* state towards its parent, other than from E to M, holds the parent's    *)
(* bcc; whoever changes a tag or a directory entry holds the cache's own;  *)
(* and the way a waiting access works on is kept for it by tcc.            *)
(***************************************************************************)
EXTENDS Coherence

Depth(p) == Len(stack[p])

Frame(p, k) == stack[p][Depth(p) + 1 - k]

\* Some measure that goes down on the way to memory.
Rank ==
    CHOOSE depth \in [Caches -> Caches \cup {0}] :
        \A c \in Caches : \A l \in Lines :
            Parent[c][l] # Mem => depth[Parent[c][l]] < depth[c]

Pending == {"tcc", "bcc"}

Under == {"evict", "fetch", "grant", "end"}

IsCall(f) == f.pc \notin {"inv", "down"}

\* Frame k of p has a request out; it holds the bcc of its cache; it is the
\* access whose line or victim p is invalidating, if it invalidates one.
Waits(p, k) == k < Depth(p) /\ IsCall(Frame(p, k + 1))

Holds(p, k) ==
    \/ Frame(p, k).pc = "down"
    \/ Frame(p, k).pc \in Under /\ ~ Waits(p, k)

IsBase(p, k) == IsCall(Frame(p, k)) /\ ~ Waits(p, k)

Absent(c, l) == \A w \in 1..Ways[c] : tag[c][w] # l

\* A function of a cache and one of its ways.
Table(f) == f = [c \in Caches |-> [w \in 1..Ways[c] |-> f[c][w]]]

Entries == [sharers : SUBSET Caches, exclusive : BOOLEAN]

Types ==
    /\ Table(tag) /\ Table(mesi) /\ Table(dir)
    /\ \A c \in Caches : \A w \in 1..Ways[c] :
         tag[c][w] \in Lines \cup {None} /\ mesi[c][w] \in MESI
         /\ dir[c][w] \in Entries
    /\ tcc \in [Caches -> Cores \cup {None}]
    /\ bcc \in [Caches -> Cores \cup {None}]
    /\ stack \in [Cores -> Seq(Calls \cup Invs)]
    /\ wback \in [Cores -> BOOLEAN]

\* An outermost call is a core's, to one of its L1s, or a walker's.
Outermost(p, f) ==
    /\ f.from = None /\ f.type \in Gets /\ f.init = "I"
    /\ f.cache \in Terminals => "PTW" \notin f.flags
                                /\ \E op \in DOMAIN L1[p] : f.cache = L1[p][op]
    /\ f.cache \notin Terminals => "PTW" \in f.flags /\ f.cache = LLC(f.line)
                                   /\ f.vline = None

\* Request f was sent up by call h: an eviction's PUT or the access's own GET.
Asks(f, h) ==
    /\ IsCall(h) /\ f.from = h.cache /\ f.slot = h.way
    /\ h.way \in 1..Ways[h.cache] /\ tag[h.cache][h.way] = f.line
    /\ f.cache = Parent[h.cache][f.line]
    /\ "PTW" \notin f.flags /\ f.vline = None
    /\ h.type \in Gets
    /\ f.type \in Gets => f.line = h.line /\ f.type = h.type /\ h.pc = AfterFetch(h)
    /\ f.type \in Puts => h.pc = "fetch" /\ Absent(h.cache, h.line)
                          /\ dir[h.cache][h.way].sharers = {}

\* Invalidation f was sent down by call h.
Tells(f, h) ==
    /\ h.pc \in {"evict", "grant", "down"}
    /\ h.way \in 1..Ways[h.cache] /\ tag[h.cache][h.way] = f.line
    /\ f.cache \in dir[h.cache][h.way].sharers
    /\ h.pc = "grant" => h.type \in Gets
    /\ f.pc = "down" => f.way \in 1..Ways[f.cache] /\ tag[f.cache][f.way] = f.line

ShapeAt(p, k) ==
    LET f == Frame(p, k)
    IN /\ f.pc # "panic"
       /\ IsCall(f) /\ k = 1 => Outermost(p, f)
       /\ IsCall(f) /\ k > 1 => Asks(f, Frame(p, k - 1))
       /\ ~ IsCall(f) => k > 1 /\ Tells(f, Frame(p, k - 1))

Shape == \A p \in Cores : \A k \in 1..Depth(p) : ShapeAt(p, k)

\* Requests climb, and invalidations then descend.
Order ==
    \A p \in Cores : \A j, k \in 1..Depth(p) : j < k =>
        LET f == Frame(p, j)
            g == Frame(p, k)
        IN /\ IsCall(g) => IsCall(f) /\ Rank[g.cache] < Rank[f.cache]
           /\ ~ IsCall(g) /\ (IsCall(f) => IsBase(p, j)) =>
                Rank[f.cache] < Rank[g.cache]

LockAt(p, k) ==
    LET f == Frame(p, k)
    IN /\ f.pc \in {"bcc"} \cup Under /\ f.cache \notin Terminals =>
            tcc[f.cache] = p
       /\ Holds(p, k) => bcc[f.cache] = p

Locks == \A p \in Cores : \A k \in 1..Depth(p) : LockAt(p, k)

\* What request f may find of the child's line it points to.
Asked(f) ==
    LET s == mesi[f.from][f.slot]
    IN /\ f.type = "GETS" => IF f.pc = "end" THEN s # "I"
                             ELSE s = "I" /\ f.init = "I"
       /\ f.type = "GETX" => IF f.pc = "end" THEN s = "M"
                             ELSE f.init \in {"I", "S"} /\ s \in {"I", f.init}
       /\ f.type \in Puts => f.pc \in Pending \cup {"grant", "end"}
       /\ f.type \in Puts /\ f.pc = "end" => s = "I"
       /\ f.type = "PUTS" /\ f.pc \in Pending =>
            f.init \in {"S", "E"} /\ s \in {"I", "S", f.init}
       /\ f.type = "PUTX" /\ f.pc \in Pending =>
            f.init = "M" /\ s \in {"I", "S", "M"}
       /\ f.type = "PUTS" /\ f.pc = "grant" => s \in {"S", "E"}
       /\ f.type = "PUTX" /\ f.pc = "grant" => s = "M"

\* How far an access has got with its own line.
Progress(f, k, waits) ==
    LET s == mesi[f.cache][f.way]
    IN /\ f.pc \in Under /\ (f.type \in Puts => f.pc # "end") =>
            f.way \in 1..Ways[f.cache]
       /\ f.pc \in {"evict", "fetch"} => f.type \in Gets
       /\ f.pc = "evict" => Absent(f.cache, f.line)
       /\ f.pc = "fetch" /\ ~ waits =>
            /\ MustFetch(f.type, s)
            /\ \/ tag[f.cache][f.way] = f.line
               \/ Absent(f.cache, f.line) /\ s = "I"
                  /\ dir[f.cache][f.way].sharers = {}
       /\ f.pc = "grant" => k > 1
       /\ f.pc \in {"grant", "end"} /\ ~ waits
          /\ (f.type \in Puts => f.pc # "end") =>
            /\ tag[f.cache][f.way] = f.line /\ s # "I"
            /\ f.type \in {"GETX", "PUTX"} => s = "M"

AccessAt(p, k) ==
    LET f == Frame(p, k)
    IN IsCall(f) => Progress(f, k, Waits(p, k)) /\ (k > 1 => Asked(f))

Accesses == \A p \in Cores : \A k \in 1..Depth(p) : AccessAt(p, k)

\* Child c's copy of the line in way v of d is being upgraded.
Upgrades(c, d, v) ==
    \E p \in Cores : \E k \in 1..Depth(p) :
        LET f == Frame(p, k)
        IN /\ f.pc = "grant" /\ ~ Waits(p, k) /\ f.type = "GETX"
           /\ f.cache = d /\ f.way = v /\ f.from = c

\* No cache has a line twice.
Arrays ==
    \A c \in Caches : \A w \in 1..Ways[c] :
        /\ tag[c][w] = None => mesi[c][w] = "I"
        /\ \A v \in 1..Ways[c] : tag[c][v] = tag[c][w] /\ tag[c][w] # None => v = w
        /\ tag[c][w] # None /\ Parent[c][tag[c][w]] = Mem => c = LLC(tag[c][w])

\* Every child listed holds the line ...
Listed ==
    \A d \in Caches : \A v \in 1..Ways[d] : \A c \in dir[d][v].sharers :
        /\ tag[d][v] # None /\ Parent[c][tag[d][v]] = d
        /\ \E w \in 1..Ways[c] : tag[c][w] = tag[d][v] /\ mesi[c][w] # "I"

\* ... every child that holds it is listed, in way v of the parent, ...
Covers(d, v, c, w) ==
    /\ tag[d][v] = tag[c][w] /\ mesi[d][v] # "I"
    /\ c \in dir[d][v].sharers \/ Upgrades(c, d, v)
    /\ mesi[c][w] \in Exclusive =>
         /\ mesi[d][v] \in Exclusive
         /\ dir[d][v].exclusive /\ dir[d][v].sharers = {c}

Inclusive ==
    \A c \in Caches : \A w \in 1..Ways[c] :
        LET d == Parent[c][tag[c][w]]
        IN mesi[c][w] # "I" /\ d # Mem => \E v \in 1..Ways[d] : Covers(d, v, c, w)

\* ... and an exclusive child is alone.
Alone ==
    \A c, d \in Caches : \A w \in 1..Ways[c], v \in 1..Ways[d] :
        /\ mesi[c][w] \in Exclusive /\ c # d /\ tag[c][w] = tag[d][v]
        /\ Parent[c][tag[c][w]] = Parent[d][tag[c][w]]
        => mesi[d][v] = "I"

\* The access that p invalidates lines for holds the line exclusively if any
\* copy that is being invalidated is exclusive, or was modified.
RecallAt(p) ==
    /\ wback[p] => Depth(p) > 0
    /\ \A k \in 1..Depth(p) : IsBase(p, k) =>
         LET f == Frame(p, k)
         IN /\ wback[p] => /\ f.pc \in {"evict", "grant"}
                           /\ mesi[f.cache][f.way] \in Exclusive
            /\ \A j \in k + 1 .. Depth(p) :
                 LET g == Frame(p, j)
                 IN /\ g.line = tag[f.cache][f.way]
                    /\ \A w \in 1..Ways[g.cache] :
                         tag[g.cache][w] = g.line /\ mesi[g.cache][w] \in Exclusive
                         => mesi[f.cache][f.way] \in Exclusive

Recalls == \A p \in Cores : RecallAt(p)

CoherenceInv ==
    /\ Types /\ Shape /\ Order /\ Locks /\ Accesses
    /\ Arrays /\ Listed /\ Inclusive /\ Alone /\ Recalls

\* An assignment to one way of one cache.
SetsWay(g, f, c, w, x) == g = [f EXCEPT ![c][w] = x]

\* The child served next is one of those to be served, one child counts as one,
\* and numbers have a least: facts that CoherenceProofs takes from the library.
Counting ==
    /\ \A S \in SUBSET Caches : S # {} => FirstOf(S) \in S
    /\ \A c \in Caches : Cardinality({c}) = 1
    /\ \A S \in SUBSET Nat : S # {} => \E x \in S : \A y \in S : ~ (y < x)

\* What a step of p makes of the frames: the innermost one goes on as `call`,
\* makes the call `inner`, or returns.
StackGoto(p, call) ==
    /\ \A q \in Cores : Depth(q)' = Depth(q)
    /\ \A q \in Cores : \A k \in 1..Depth(q) :
         Frame(q, k)' = IF q = p /\ k = Depth(p) THEN call ELSE Frame(q, k)

StackPush(p, call, inner) ==
    /\ \A q \in Cores : Depth(q)' = IF q = p THEN Depth(p) + 1 ELSE Depth(q)
    /\ \A q \in Cores : \A k \in 1..Depth(q) :
         Frame(q, k)' = IF q = p /\ k = Depth(p) THEN call ELSE Frame(q, k)
    /\ \A k \in Nat : k = Depth(p) + 1 => Frame(p, k)' = inner

StackPop(p) ==
    /\ \A q \in Cores : Depth(q)' = IF q = p THEN Depth(p) - 1 ELSE Depth(q)
    /\ \A q \in Cores : \A k \in 1..Depth(q)' : Frame(q, k)' = Frame(q, k)

Stacks == stack \in [Cores -> Seq(Calls \cup Invs)]

\* A core or a walker that makes no access makes one.
Enters(p, f) ==
    /\ stack[p] = <<>> /\ stack' = [stack EXCEPT ![p] = <<f>>]
    /\ UNCHANGED <<tag, mesi, dir, tcc, bcc, wback>>

\* The fields of a call that stay when it goes on.
SameCall(call, t) ==
    /\ call \in Calls /\ IsCall(call) /\ call.cache = t.cache /\ call.line = t.line
    /\ call.flags = t.flags /\ call.from = t.from /\ call.slot = t.slot
    /\ call.init = t.init /\ call.vline = t.vline

\* All frames but p's innermost one stay, and wait if they did.
KeptFrames(p) ==
    \A q \in Cores : \A k \in 1..Depth(q) : (q # p \/ k # Depth(p)) =>
        Frame(q, k)' = Frame(q, k) /\ (Waits(q, k)' <=> Waits(q, k))

\* The states of lines change only from E to M, and only in a cache where p's
\* innermost call is under way.
Alike(p) ==
    /\ Table(mesi)'
    /\ \A c \in Caches : \A w \in 1..Ways[c] :
         \/ mesi'[c][w] = mesi[c][w]
         \/ /\ mesi[c][w] \in Exclusive /\ mesi'[c][w] = "M"
            /\ Depth(p) > 0 /\ Frame(p, Depth(p)).cache = c
            /\ Frame(p, Depth(p)).pc \in {"bcc"} \cup Under

\* What a step of p's innermost access t leaves alone.
Local(t, n) ==
    \A c \in Caches : c # t.cache => \A w \in 1..Ways[c] :
        /\ tag'[c][w] = tag[c][w] /\ dir'[c][w] = dir[c][w]
        /\ mesi'[c][w] = mesi[c][w] \/ (n > 1 /\ c = t.from)

FewExclusive(t) ==
    \A c \in Caches : \A w \in 1..Ways[c] : mesi'[c][w] \in Exclusive =>
        \/ mesi[c][w] \in Exclusive /\ tag'[c][w] = tag[c][w]
        \/ Parent[c][tag'[c][w]] \in {t.cache, Mem}

\* ... and, of that, what the other cores rely on: only a GET's own child may
\* lose an exclusive line.
Elsewhere(t, n) ==
    \A c \in Caches : c # t.cache => \A w \in 1..Ways[c] :
        /\ tag'[c][w] = tag[c][w]
        /\ \/ mesi[c][w] \in Exclusive => mesi'[c][w] \in Exclusive
           \/ n > 1 /\ t.pc \in Under /\ c = t.from

LocksLeft(t) ==
    \A c \in Caches : c # t.cache => \A q \in Cores :
        (tcc[c] = q => tcc'[c] = q) /\ (bcc[c] = q => bcc'[c] = q)

DataTypes ==
    /\ Table(tag) /\ Table(mesi) /\ Table(dir)
    /\ \A c \in Caches : \A w \in 1..Ways[c] :
         tag[c][w] \in Lines \cup {None} /\ mesi[c][w] \in MESI
         /\ dir[c][w] \in Entries
    /\ tcc \in [Caches -> Cores \cup {None}]
    /\ bcc \in [Caches -> Cores \cup {None}]
    /\ wback \in [Cores -> BOOLEAN]

\* A bcc is given up by whoever holds it.
FreesBcc(c) == bcc' = [bcc EXCEPT ![c] = None]
=============================================================================
