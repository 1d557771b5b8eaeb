--------------------------- MODULE CoherenceFacts ---------------------------
(***************************************************************************)
(* Facts about one state that satisfies the invariant (who holds a lock, who *)
(* called whom, which copies a directory lists) and about the three moves of *)
(* a stack of calls: going to the next line of a call, making a call and   *)
(* returning from one.  Last, the step that uses most of them: the end of an *)
(* invalidation keeps the invariant.                                       *)
(***************************************************************************)
EXTENDS CoherenceInvariant, TLAPS

-----------------------------------------------------------------------------
(* The tree, tables, lookups and stacks                                    *)

\* On the way to memory the rank goes down, so no cache is above itself.
LEMMA RankFalls ==
    /\ Rank \in [Caches -> Nat]
    /\ \A c \in Caches : \A l \in Lines : Parent[c][l] # Mem =>
         Parent[c][l] \in Caches /\ Rank[Parent[c][l]] < Rank[c]
<1>1. /\ Rank \in [Caches -> Caches \cup {0}]
      /\ \A c \in Caches : \A l \in Lines :
           Parent[c][l] # Mem => Rank[Parent[c][l]] < Rank[c]
  BY TreeAssumption, Zenon DEF Rank
<1>2. Rank \in [Caches -> Nat]
  <2>1. Caches \cup {0} \subseteq Nat
    BY CoherenceAssumption
  <2>2. QED
    BY <1>1, <2>1, Zenon
<1>3. \A c \in Caches : \A l \in Lines : Parent[c][l] # Mem => Parent[c][l] \in Caches
  BY CoherenceAssumption
<1>4. QED
  BY <1>1, <1>2, <1>3, Zenon

\* No cache is its own parent.
LEMMA NotAbove ==
    ASSUME NEW c \in Caches, NEW l \in Lines
    PROVE  Parent[c][l] # c
<1>1. CASE Parent[c][l] = Mem
  BY <1>1, CoherenceAssumption, Zenon
<1>2. CASE Parent[c][l] # Mem
  <2>1. Rank[Parent[c][l]] < Rank[c] /\ Rank[c] \in Nat
    BY <1>2, RankFalls, Zenon
  <2>2. QED
    BY <2>1
<1>3. QED
  BY <1>1, <1>2, Zenon

\* An L1 has no children and is the cache of one core; every cache that a
\* request for line l can reach and that has memory above it is LLC(l).
LEMMA TreeFacts ==
    /\ \A p \in Cores : \A op \in DOMAIN L1[p] :
         L1[p][op] \in Caches /\ L1[p][op] \in Terminals
    /\ \A c \in Caches : \A l \in Lines :
         /\ Parent[c][l] \in Caches \cup {Mem}
         /\ Parent[c][l] \notin Terminals
         /\ c \in Terminals => Parent[c][l] # Mem
    /\ \A l \in Lines :
         LLC(l) \in Caches /\ LLC(l) \notin Terminals /\ Parent[LLC(l)][l] = Mem
    /\ \A c, d \in Caches : \A l \in Lines :
         Parent[c][l] = Mem /\ Parent[d][l] = c => c = LLC(l)
<1>1. \A p \in Cores : \A op \in DOMAIN L1[p] :
        L1[p][op] \in Caches /\ L1[p][op] \in Terminals
  BY CoherenceAssumption DEF Terminals
<1>2. QED
  BY <1>1, CoherenceAssumption, TreeAssumption

\* Such an assignment changes that way alone.
LEMMA TableUpdate ==
    ASSUME NEW f, Table(f), NEW c \in Caches, NEW w \in 1..Ways[c], NEW x,
           NEW g, SetsWay(g, f, c, w, x)
    PROVE  /\ Table(g)
           /\ \A d \in Caches : \A v \in 1..Ways[d] :
                g[d][v] = IF d = c /\ v = w THEN x ELSE f[d][v]
<1>1. /\ DOMAIN f = Caches
      /\ \A d \in Caches : f[d] = [v \in 1..Ways[d] |-> f[d][v]]
  BY Zenon DEF Table
<1>2. g = [d \in Caches |-> IF d = c THEN [f[d] EXCEPT ![w] = x] ELSE f[d]]
  BY <1>1, Zenon DEF SetsWay
<1>3. \A d \in Caches : \A v \in 1..Ways[d] :
        g[d][v] = IF d = c /\ v = w THEN x ELSE f[d][v]
  BY <1>1, <1>2, ZenonT(60)
<1>4. \A d \in Caches : g[d] = [v \in 1..Ways[d] |-> g[d][v]]
  <2>1. TAKE d \in Caches
  <2>2. CASE d = c
    <3>1. g[d] = [f[d] EXCEPT ![w] = x]
      BY <1>2, <2>2, Zenon
    <3>2. QED
      BY <1>1, <2>2, <3>1, Zenon
  <2>3. CASE d # c
    <3>1. g[d] = f[d]
      BY <1>2, <2>3, Zenon
    <3>2. QED
      BY <1>1, <3>1, Zenon
  <2>4. QED
    BY <2>2, <2>3, Zenon
<1>5. QED
  BY <1>2, <1>4, Zenon DEF Table

\* What a lookup finds.
LEMMA LookupFinds ==
    ASSUME NEW c \in Caches, NEW l
    PROVE  \/ Lookup(c, l) = 0 /\ Absent(c, l)
           \/ Lookup(c, l) \in 1..Ways[c] /\ tag[c][Lookup(c, l)] = l
<1>1. CASE \E w \in 1..Ways[c] : tag[c][w] = l
  BY <1>1, Zenon DEF Lookup
<1>2. CASE ~ \E w \in 1..Ways[c] : tag[c][w] = l
  BY <1>2, Zenon DEF Lookup, Absent
<1>3. QED
  BY <1>1, <1>2, Zenon

\* The innermost frame is the call the actions look at.
LEMMA TopFrame ==
    ASSUME Stacks, NEW p \in Cores, stack[p] # <<>>
    PROVE  /\ Depth(p) \in Nat \ {0}
           /\ Frame(p, Depth(p)) = Call(p) /\ Frame(p, Depth(p)) = stack[p][1]
           /\ Depth(p) > 1 => Frame(p, Depth(p) - 1) = stack[p][2]
BY DEF Stacks, Depth, Frame, Call

\* Every frame is a call or an invalidation.
LEMMA FrameTypes ==
    ASSUME Stacks, NEW p \in Cores
    PROVE  /\ Depth(p) \in Nat
           /\ \A k \in 1..Depth(p) : Frame(p, k) \in Calls \cup Invs
BY DEF Stacks, Depth, Frame

\* When a call goes on, only the innermost frame changes.
LEMMA GotoFrames ==
    ASSUME Stacks, NEW p \in Cores, stack[p] # <<>>, NEW call \in Calls \cup Invs,
           Goto(p, call)
    PROVE  Stacks' /\ StackGoto(p, call)
<1> DEFINE n == Len(stack[p])
<1>1. /\ stack'[p] = <<call>> \o Tail(stack[p])
      /\ \A q \in Cores \ {p} : stack'[q] = stack[q]
      /\ stack' = [q \in Cores |-> stack'[q]]
  BY Zenon DEF Goto, Stacks
<1>2. n \in Nat \ {0} /\ stack[p] \in Seq(Calls \cup Invs)
  BY DEF Stacks
<1>3. /\ stack'[p] \in Seq(Calls \cup Invs) /\ Len(stack'[p]) = n
      /\ stack'[p][1] = call
      /\ \A i \in 2..n : stack'[p][i] = stack[p][i]
  BY <1>1, <1>2, SMTT(30)
<1>4. Stacks'
  BY <1>1, <1>3, Zenon DEF Stacks
<1>5. \A k \in 1..n : stack'[p][n + 1 - k] = IF k = n THEN call ELSE stack[p][n + 1 - k]
  BY <1>3
<1>6. QED
  BY <1>1, <1>3, <1>4, <1>5, ZenonT(60) DEF StackGoto, Depth, Frame

\* When a call makes another, one frame is added.
LEMMA PushFrames ==
    ASSUME Stacks, NEW p \in Cores, stack[p] # <<>>, NEW call \in Calls \cup Invs,
           NEW inner \in Calls \cup Invs, Push(p, call, inner)
    PROVE  Stacks' /\ StackPush(p, call, inner)
<1> DEFINE n == Len(stack[p])
<1>1. /\ stack'[p] = <<inner, call>> \o Tail(stack[p])
      /\ \A q \in Cores \ {p} : stack'[q] = stack[q]
      /\ stack' = [q \in Cores |-> stack'[q]]
  BY Zenon DEF Push, Stacks
<1>2. n \in Nat \ {0} /\ stack[p] \in Seq(Calls \cup Invs)
  BY DEF Stacks
<1>3. /\ stack'[p] \in Seq(Calls \cup Invs) /\ Len(stack'[p]) = n + 1
      /\ stack'[p][1] = inner /\ stack'[p][2] = call
      /\ \A i \in 2..n : stack'[p][i + 1] = stack[p][i]
  BY <1>1, <1>2, SMTT(30)
<1>4. Stacks'
  BY <1>1, <1>3, Zenon DEF Stacks
<1>5. \A k \in 1..n : stack'[p][n + 2 - k] = IF k = n THEN call ELSE stack[p][n + 1 - k]
  <2>1. TAKE k \in 1..n
  <2>2. CASE k = n
    BY <1>3, <2>2
  <2>3. CASE k # n
    <3>1. n + 1 - k \in 2..n /\ n + 2 - k = (n + 1 - k) + 1
      BY <1>2, <2>3
    <3>2. QED
      BY <1>3, <2>3, <3>1, Zenon
  <2>4. QED
    BY <2>2, <2>3, Zenon
<1>6. stack'[p][(n + 1) + 1 - (n + 1)] = inner
  BY <1>2, <1>3
<1>7. \A k \in 1..n : (n + 1) + 1 - k = n + 2 - k
  BY <1>2, SMTT(30)
<1>8. \A q \in Cores : Depth(q)' = IF q = p THEN Depth(p) + 1 ELSE Depth(q)
  BY <1>1, <1>3, Zenon DEF Depth
<1>9. \A q \in Cores : \A k \in 1..Depth(q) :
        Frame(q, k)' = IF q = p /\ k = Depth(p) THEN call ELSE Frame(q, k)
  <2>1. TAKE q \in Cores
  <2>2. CASE q = p
    <3>1. \A k \in 1..n : Frame(p, k)' = stack'[p][(n + 1) + 1 - k]
      BY <1>3, Zenon DEF Frame, Depth
    <3>2. QED
      BY <1>5, <2>2, <3>1 DEF Frame, Depth
  <2>3. CASE q # p
    BY <1>1, <2>3, Zenon DEF Frame, Depth
  <2>4. QED
    BY <2>2, <2>3, Zenon
<1>10. \A k \in Nat : k = Depth(p) + 1 => Frame(p, k)' = inner
  BY <1>3, <1>6, Zenon DEF Frame, Depth
<1>11. QED
  BY <1>4, <1>8, <1>9, <1>10, Zenon DEF StackPush

\* When a call returns, its frame is taken away.
LEMMA PopFrames ==
    ASSUME Stacks, NEW p \in Cores, stack[p] # <<>>, Pop(p)
    PROVE  Stacks' /\ StackPop(p)
<1> DEFINE n == Len(stack[p])
<1>1. /\ stack'[p] = Tail(stack[p])
      /\ \A q \in Cores \ {p} : stack'[q] = stack[q]
      /\ stack' = [q \in Cores |-> stack'[q]]
  BY Zenon DEF Pop, Stacks
<1>2. n \in Nat \ {0} /\ stack[p] \in Seq(Calls \cup Invs)
  BY DEF Stacks
<1>3. /\ stack'[p] \in Seq(Calls \cup Invs) /\ Len(stack'[p]) = n - 1
      /\ \A i \in 1..n - 1 : stack'[p][i] = stack[p][i + 1]
  BY <1>1, <1>2
<1>4. Stacks'
  BY <1>1, <1>3, Zenon DEF Stacks
<1>5. \A k \in 1..n - 1 : stack'[p][n - 1 + 1 - k] = stack[p][n + 1 - k]
  <2>1. TAKE k \in 1..n - 1
  <2>2. n - k \in 1..n - 1 /\ n - 1 + 1 - k = n - k /\ n + 1 - k = (n - k) + 1
    BY <1>2
  <2>3. QED
    BY <1>3, SMTT(30)
<1>6. QED
  BY <1>1, <1>3, <1>4, <1>5, Zenon DEF StackPop, Depth, Frame

\* The frames, when an access enters.
LEMMA EnterFrames ==
    ASSUME Stacks, NEW p \in Cores, NEW f \in Calls \cup Invs, Enters(p, f)
    PROVE  /\ Stacks' /\ Depth(p) = 0 /\ Depth(p)' = 1 /\ Frame(p, 1)' = f
           /\ \A q \in Cores : q # p => Depth(q)' = Depth(q)
           /\ \A q \in Cores : q # p => \A k \in 1..Depth(q) :
                Frame(q, k)' = Frame(q, k) /\ (Waits(q, k)' <=> Waits(q, k))
           /\ ~ Waits(p, 1)'
<1>1. /\ stack'[p] = <<f>> /\ stack \in [Cores -> Seq(Calls \cup Invs)]
      /\ \A q \in Cores : q # p => stack'[q] = stack[q]
      /\ stack' \in [Cores -> Seq(Calls \cup Invs)]
  BY DEF Enters, Stacks
<1>2. Depth(p) = 0 /\ Depth(p)' = 1 /\ Frame(p, 1)' = f
  BY <1>1 DEF Depth, Frame, Enters
<1>3. \A q \in Cores : q # p =>
        Depth(q)' = Depth(q) /\ \A k : Frame(q, k)' = Frame(q, k)
  BY <1>1, Zenon DEF Depth, Frame
<1>4. ~ Waits(p, 1)'
  BY <1>2 DEF Waits
<1>5. \A q \in Cores : q # p => \A k \in 1..Depth(q) : Waits(q, k)' <=> Waits(q, k)
  BY <1>3, Zenon DEF Waits
<1>6. QED
  BY <1>1, <1>2, <1>3, <1>4, <1>5, Zenon DEF Stacks

-----------------------------------------------------------------------------
(* Who excludes whom                                                       *)

\* The fields of a frame.
LEMMA FrameFields ==
    ASSUME Stacks, NEW p \in Cores, NEW k \in 1..Depth(p)
    PROVE  /\ Depth(p) \in Nat /\ Frame(p, k).cache \in Caches
           /\ Frame(p, k).line \in Lines /\ Frame(p, k).way \in Nat
           /\ IsCall(Frame(p, k)) => Frame(p, k) \in Calls
           /\ ~ IsCall(Frame(p, k)) => Frame(p, k) \in Invs
BY FrameTypes, Zenon DEF IsCall, Calls, Invs

\* The caller of a request waits, having given bcc up; the caller of an
\* invalidation holds it.
LEMMA CallerOf ==
    ASSUME Stacks, Shape, NEW p \in Cores, NEW k \in 1..Depth(p), k > 1
    PROVE  /\ k - 1 \in 1..Depth(p)
           /\ IsCall(Frame(p, k)) =>
                /\ Asks(Frame(p, k), Frame(p, k - 1)) /\ Waits(p, k - 1)
                /\ Frame(p, k - 1).pc \in Under
           /\ ~ IsCall(Frame(p, k)) =>
                /\ Tells(Frame(p, k), Frame(p, k - 1)) /\ Holds(p, k - 1)
                /\ IsCall(Frame(p, k - 1)) => IsBase(p, k - 1)
<1>1. Depth(p) \in Nat /\ k - 1 \in 1..Depth(p) /\ k - 1 + 1 = k /\ k - 1 < Depth(p)
  BY FrameTypes
<1>2. ShapeAt(p, k)
  BY Zenon DEF Shape
<1>3. IsCall(Frame(p, k)) => Asks(Frame(p, k), Frame(p, k - 1)) /\ Waits(p, k - 1)
  BY <1>1, <1>2, Zenon DEF ShapeAt, Waits
<1>4. IsCall(Frame(p, k)) => Frame(p, k - 1).pc \in Under
  BY <1>3, FrameFields, Zenon DEF Asks, Under, AfterFetch, Calls
<1>5. ~ IsCall(Frame(p, k)) =>
        Tells(Frame(p, k), Frame(p, k - 1)) /\ ~ Waits(p, k - 1)
  BY <1>1, <1>2, Zenon DEF ShapeAt, Waits
<1>6. QED
  BY <1>1, <1>3, <1>4, <1>5, Zenon DEF Tells, Holds, Under, IsBase

\* At most one frame of all stacks holds the bcc of a cache.
LEMMA OneHolder ==
    ASSUME Stacks, Order, Locks,
           NEW p \in Cores, NEW j \in 1..Depth(p), Holds(p, j),
           NEW q \in Cores, NEW k \in 1..Depth(q), Holds(q, k),
           Frame(p, j).cache = Frame(q, k).cache
    PROVE  p = q /\ j = k
<1>1. p = q
  BY DEF Locks, LockAt
<1>2. ASSUME NEW i \in 1..Depth(p), NEW m \in 1..Depth(p), i < m,
             Holds(p, i), Holds(p, m), Frame(p, i).cache = Frame(p, m).cache
      PROVE  FALSE
  <2>1. Depth(p) \in Nat /\ i + 1 \in 1..Depth(p) /\ (i + 1 = m \/ i + 1 < m)
    BY <1>2, FrameTypes
  <2>2. Rank[Frame(p, i).cache] \in Nat
    BY FrameFields, RankFalls, Zenon
  <2>3. CASE IsCall(Frame(p, m))
    <3>1. IsCall(Frame(p, i)) /\ IsCall(Frame(p, i + 1))
      BY <1>2, <2>1, <2>3, Zenon DEF Order
    <3>2. Waits(p, i)
      BY <1>2, <2>1, <3>1 DEF Waits
    <3>3. QED
      BY <1>2, <3>1, <3>2, Zenon DEF Holds, IsCall
  <2>4. CASE ~ IsCall(Frame(p, m))
    <3>1. IsCall(Frame(p, i)) => IsBase(p, i)
      BY <1>2, Zenon DEF IsBase, Holds, IsCall
    <3>2. Rank[Frame(p, i).cache] < Rank[Frame(p, m).cache]
      BY <1>2, <2>4, <3>1, Zenon DEF Order
    <3>3. QED
      BY <1>2, <2>2, <3>2
  <2>5. QED
    BY <2>3, <2>4, Zenon
<1>3. j \in Nat /\ k \in Nat
  BY FrameTypes
<1>4. CASE j < k
  BY <1>1, <1>2, <1>4, Zenon
<1>5. CASE k < j
  BY <1>1, <1>2, <1>5, Zenon
<1>6. QED
  BY <1>1, <1>3, <1>4, <1>5

\* At most one access works on a cache: it has the tcc, or the cache is an L1
\* and the access is its core's.
LEMMA OneAccess ==
    ASSUME Stacks, Shape, Order, Locks,
           NEW p \in Cores, NEW j \in 1..Depth(p), NEW q \in Cores, NEW k \in 1..Depth(q),
           Frame(p, j).cache = Frame(q, k).cache,
           Frame(p, j).pc \in {"bcc"} \cup Under, Frame(q, k).pc \in {"bcc"} \cup Under
    PROVE  p = q /\ j = k
<1>1. IsCall(Frame(p, j)) /\ IsCall(Frame(q, k)) /\ j \in Nat /\ k \in Nat
  BY FrameTypes DEF IsCall, Under
<1>2. Frame(p, j).cache \in Caches /\ Rank[Frame(p, j).cache] \in Nat
  BY FrameFields, RankFalls, Zenon
<1>3. CASE Frame(p, j).cache \notin Terminals
  <2>1. p = q
    BY <1>3 DEF Locks, LockAt
  <2>2. QED
    BY <1>1, <1>2, <2>1 DEF Order
<1>4. CASE Frame(p, j).cache \in Terminals
  <2>1. ASSUME NEW r \in Cores, NEW m \in 1..Depth(r), IsCall(Frame(r, m)),
               Frame(r, m).cache \in Terminals
        PROVE  m = 1 /\ \E op \in DOMAIN L1[r] : Frame(r, m).cache = L1[r][op]
    <3>1. CASE m = 1
      BY <2>1, <3>1, Zenon DEF Shape, ShapeAt, Outermost
    <3>2. CASE m # 1
      <4>1. m > 1 /\ m - 1 \in 1..Depth(r)
        BY <3>2, FrameTypes
      <4>2. Frame(r, m).cache = Parent[Frame(r, m - 1).cache][Frame(r, m).line]
        BY <2>1, <4>1, CallerOf, ZenonT(30) DEF Asks
      <4>3. QED
        BY <2>1, <4>1, <4>2, FrameFields, TreeFacts
    <3>3. QED
      BY <3>1, <3>2, Zenon
  <2>2. j = 1 /\ k = 1
    BY <1>1, <1>4, <2>1, Zenon
  <2>3. PICK o \in DOMAIN L1[p] : Frame(p, j).cache = L1[p][o]
    BY <1>1, <1>4, <2>1, Zenon
  <2>4. PICK r \in DOMAIN L1[q] : Frame(q, k).cache = L1[q][r]
    BY <1>1, <1>4, <2>1, Zenon
  <2>5. QED
    BY <2>2, <2>3, <2>4, TreeAssumption, SMTT(30)
<1>5. QED
  BY <1>3, <1>4, Zenon

\* A stack has one innermost access.
LEMMA OneBase ==
    ASSUME Stacks, Order, NEW p \in Cores, NEW j \in 1..Depth(p), NEW k \in 1..Depth(p),
           IsBase(p, j), IsBase(p, k)
    PROVE  j = k
<1>1. ASSUME NEW i \in 1..Depth(p), NEW m \in 1..Depth(p), i < m,
             IsBase(p, i), IsBase(p, m)
      PROVE  FALSE
  <2>1. Depth(p) \in Nat /\ i + 1 \in 1..Depth(p) /\ (i + 1 = m \/ i + 1 < m)
    BY <1>1, FrameTypes
  <2>2. IsCall(Frame(p, i + 1))
    BY <1>1, <2>1, Zenon DEF Order, IsBase
  <2>3. QED
    BY <1>1, <2>1, <2>2 DEF IsBase, Waits
<1>2. j \in Nat /\ k \in Nat
  BY FrameTypes
<1>3. QED
  BY <1>1, <1>2

\* What is known of the call that takes a step.
LEMMA Top ==
    ASSUME CoherenceInv, NEW p \in Cores, NEW pc, InCall(p, pc),
           NEW n, n = Depth(p), NEW t, t = Frame(p, n)
    PROVE  /\ Stacks /\ stack[p] # <<>>
           /\ n \in Nat \ {0} /\ n \in 1..Depth(p)
           /\ t = Call(p) /\ t.pc = pc /\ ~ Waits(p, n)
           /\ t.cache \in Caches /\ t.line \in Lines /\ t.way \in Nat
           /\ pc \notin {"inv", "down"} => IsCall(t) /\ t \in Calls /\ IsBase(p, n)
           /\ pc \in {"inv", "down"} => ~ IsCall(t) /\ t \in Invs
           /\ pc \in Under \cup {"down"} => Holds(p, n)
           /\ ShapeAt(p, n) /\ LockAt(p, n) /\ AccessAt(p, n)
           /\ pc \notin {"inv", "down", "evict", "grant"} => ~ wback[p]
<1>1. Stacks
  BY Zenon DEF CoherenceInv, Types, Stacks
<1>2. /\ stack[p] # <<>> /\ n \in Nat \ {0} /\ n \in 1..Depth(p)
      /\ t = Call(p) /\ t.pc = pc
  BY <1>1, TopFrame DEF InCall
<1>3. ~ Waits(p, n)
  BY <1>2 DEF Waits
<1>4. /\ t.cache \in Caches /\ t.line \in Lines /\ t.way \in Nat
      /\ IsCall(t) => t \in Calls
      /\ ~ IsCall(t) => t \in Invs
  BY <1>1, <1>2, FrameFields, Zenon
<1>5. IsCall(t) <=> pc \notin {"inv", "down"}
  BY <1>2, Zenon DEF IsCall
<1>6. IsCall(t) => IsBase(p, n)
  BY <1>3, Zenon DEF IsBase
<1>7. pc \in Under \cup {"down"} => Holds(p, n)
  BY <1>2, <1>3, Zenon DEF Holds
<1>8. ShapeAt(p, n) /\ LockAt(p, n) /\ AccessAt(p, n)
  BY <1>2, Zenon DEF CoherenceInv, Shape, Locks, Accesses
<1>9. pc \notin {"inv", "down", "evict", "grant"} => ~ wback[p]
  BY <1>2, <1>5, <1>6, Zenon DEF CoherenceInv, Recalls, RecallAt
<1>10. QED
  BY <1>1, <1>2, <1>3, <1>4, <1>5, <1>6, <1>7, <1>8, <1>9, Zenon

\* The ways that a base frame and the frames above it refer to are there.
LEMMA BaseWays ==
    ASSUME CoherenceInv, NEW p \in Cores, NEW k \in 1..Depth(p), IsBase(p, k)
    PROVE  /\ Frame(p, k).cache \in Caches
           /\ Frame(p, k).pc \in {"evict", "grant"} =>
                Frame(p, k).way \in 1..Ways[Frame(p, k).cache]
           /\ k < Depth(p) => Frame(p, k).way \in 1..Ways[Frame(p, k).cache]
           /\ \A j \in k + 1 .. Depth(p) :
                j \in 1..Depth(p) /\ ~ IsCall(Frame(p, j)) /\ Frame(p, j).cache \in Caches
<1>1. Stacks /\ Depth(p) \in Nat /\ k \in Nat
  BY FrameTypes DEF CoherenceInv, Types, Stacks
<1>2. Frame(p, k).cache \in Caches
  BY <1>1, FrameFields, Zenon
<1>3. Progress(Frame(p, k), k, Waits(p, k))
  BY Zenon DEF CoherenceInv, Accesses, AccessAt, IsBase
<1>4. Frame(p, k).pc \in {"evict", "grant"} =>
        Frame(p, k).way \in 1..Ways[Frame(p, k).cache]
  BY <1>3, Zenon DEF Progress, Under
<1>5. ASSUME k < Depth(p)
      PROVE  ~ IsCall(Frame(p, k + 1)) /\ Frame(p, k).way \in 1..Ways[Frame(p, k).cache]
  <2>1. k + 1 \in 1..Depth(p) /\ k + 1 > 1 /\ k + 1 - 1 = k
    BY <1>1, <1>5
  <2>2. ~ IsCall(Frame(p, k + 1))
    BY <1>5, Zenon DEF IsBase, Waits
  <2>3. QED
    BY <1>1, <2>1, <2>2, CallerOf DEF Tells, CoherenceInv
<1>6. ASSUME NEW j \in k + 1 .. Depth(p)
      PROVE  j \in 1..Depth(p) /\ ~ IsCall(Frame(p, j)) /\ Frame(p, j).cache \in Caches
  <2>1. /\ j \in 1..Depth(p) /\ k < Depth(p) /\ k + 1 \in 1..Depth(p)
        /\ k + 1 = j \/ k + 1 < j
    BY <1>1
  <2>2. ~ IsCall(Frame(p, j))
    BY <1>5, <2>1, Zenon DEF CoherenceInv, Order
  <2>3. QED
    BY <1>1, <2>2, FrameFields
<1>7. QED
  BY <1>2, <1>4, <1>5, <1>6, Zenon

\* The parent covers every copy, in the way that has the line.
LEMMA Covered ==
    ASSUME CoherenceInv, NEW c \in Caches, NEW w \in 1..Ways[c], mesi[c][w] # "I",
           NEW d \in Caches, d = Parent[c][tag[c][w]],
           NEW v \in 1..Ways[d], tag[d][v] = tag[c][w]
    PROVE  tag[c][w] \in Lines /\ Covers(d, v, c, w)
<1>1. tag[c][w] \in Lines
  BY Zenon DEF CoherenceInv, Types, Arrays
<1>2. d # Mem /\ tag[c][w] # None
  BY <1>1, CoherenceAssumption, Zenon
<1>3. PICK u \in 1..Ways[d] : Covers(d, u, c, w)
  BY <1>2, Zenon DEF CoherenceInv, Inclusive
<1>4. u = v
  BY <1>2, <1>3, ZenonT(30) DEF CoherenceInv, Arrays, Covers
<1>5. QED
  BY <1>1, <1>3, <1>4, Zenon

\* A listed child is a child, and its copy is valid.
LEMMA ListedCopy ==
    ASSUME CoherenceInv, NEW d \in Caches, NEW v \in 1..Ways[d],
           NEW c \in dir[d][v].sharers
    PROVE  /\ c \in Caches /\ tag[d][v] \in Lines /\ Parent[c][tag[d][v]] = d
           /\ c # d /\ Rank[d] < Rank[c]
           /\ \A w \in 1..Ways[c] : tag[c][w] = tag[d][v] => mesi[c][w] # "I"
<1>1. c \in Caches /\ tag[d][v] \in Lines /\ Parent[c][tag[d][v]] = d
  BY DEF CoherenceInv, Types, Entries, Listed
<1>2. c # d /\ Rank[d] < Rank[c]
  BY <1>1, RankFalls, CoherenceAssumption
<1>3. PICK u \in 1..Ways[c] : tag[c][u] = tag[d][v] /\ mesi[c][u] # "I"
  BY DEF CoherenceInv, Listed
<1>4. \A w \in 1..Ways[c] : tag[c][w] = tag[d][v] => w = u
  BY <1>1, <1>3, Zenon DEF CoherenceInv, Arrays
<1>5. QED
  BY <1>1, <1>2, <1>3, <1>4, Zenon

\* The parts of the invariant that locks rest on.
LEMMA InvParts ==
    ASSUME CoherenceInv
    PROVE  Stacks /\ Shape /\ Order /\ Locks /\ Accesses
BY Zenon DEF CoherenceInv, Types, Stacks

\* The caller of a request: it waits, and works on the line the request is for.
LEMMA Caller ==
    ASSUME CoherenceInv, NEW p \in Cores, NEW n \in 1..Depth(p), n > 1,
           NEW t, t = Frame(p, n), IsCall(t), NEW h, h = Frame(p, n - 1)
    PROVE  /\ n - 1 \in 1..Depth(p) /\ Asks(t, h) /\ Waits(p, n - 1)
           /\ h.pc \in Under /\ h.cache \in Caches /\ h \in Calls /\ IsCall(h)
           /\ t.from = h.cache /\ t.slot = h.way /\ h.way \in 1..Ways[h.cache]
           /\ tag[h.cache][h.way] = t.line /\ t.cache = Parent[h.cache][t.line]
           /\ h.cache # t.cache /\ Asked(t)
           /\ LockAt(p, n - 1) /\ AccessAt(p, n - 1)
<1>1. Stacks /\ Shape /\ Locks /\ Accesses
  BY InvParts, Zenon
<1>2. /\ n - 1 \in 1..Depth(p) /\ Asks(t, h) /\ Waits(p, n - 1) /\ h.pc \in Under
      /\ LockAt(p, n - 1) /\ AccessAt(p, n - 1) /\ Asked(t)
  BY <1>1, CallerOf, Zenon DEF Locks, Accesses, AccessAt
<1>3. h.cache \in Caches /\ t.line \in Lines /\ IsCall(h) /\ h \in Calls
  BY <1>1, <1>2, FrameFields, Zenon DEF Asks
<1>4. h.cache # t.cache
  BY <1>2, <1>3, NotAbove, ZenonT(30) DEF Asks
<1>5. QED
  BY <1>2, <1>3, <1>4, Zenon DEF Asks

-----------------------------------------------------------------------------
(* What a step leaves alone                                                *)

\* The frames other than the innermost stay as they are, and so does whether
\* they wait: when a call goes on ...
LEMMA GotoKept ==
    ASSUME Stacks, NEW p \in Cores, NEW n \in Nat \ {0}, n = Depth(p), NEW call,
           StackGoto(p, call), IsCall(call) <=> IsCall(Frame(p, n))
    PROVE  /\ KeptFrames(p)
           /\ \A q \in Cores : Depth(q)' = Depth(q)
           /\ Depth(p)' = n /\ Frame(p, n)' = call /\ ~ Waits(p, n)'
<1>1. \A q \in Cores : Depth(q)' = Depth(q) /\ Depth(q) \in Nat
  BY FrameTypes, Zenon DEF StackGoto
<1>2. Frame(p, n)' = call /\ ~ Waits(p, n)'
  BY <1>1 DEF StackGoto, Waits
<1>3. ASSUME NEW q \in Cores, NEW k \in 1..Depth(q), q # p \/ k # n
      PROVE  Frame(q, k)' = Frame(q, k) /\ (Waits(q, k)' <=> Waits(q, k))
  <2>1. Frame(q, k)' = Frame(q, k)
    BY <1>3, Zenon DEF StackGoto
  <2>2. CASE k < Depth(q)
    <3>1. k + 1 \in 1..Depth(q)
      BY <1>1, <2>2
    <3>2. IsCall(Frame(q, k + 1)') <=> IsCall(Frame(q, k + 1))
      BY <3>1, Zenon DEF StackGoto
    <3>3. QED
      BY <1>1, <2>1, <3>2, Zenon DEF Waits
  <2>3. CASE ~ k < Depth(q)
    BY <1>1, <2>1, <2>3, Zenon DEF Waits
  <2>4. QED
    BY <2>2, <2>3, Zenon
<1>4. QED
  BY <1>1, <1>2, <1>3, Zenon DEF KeptFrames

\* ... when it makes a call, which it waits for if that is a request ...
LEMMA PushKept ==
    ASSUME Stacks, NEW p \in Cores, NEW n \in Nat \ {0}, n = Depth(p), NEW call,
           NEW inner, StackPush(p, call, inner), IsCall(call) <=> IsCall(Frame(p, n))
    PROVE  /\ KeptFrames(p)
           /\ \A q \in Cores : Depth(q)' = IF q = p THEN n + 1 ELSE Depth(q)
           /\ Frame(p, n)' = call /\ (Waits(p, n)' <=> IsCall(inner))
           /\ Frame(p, n + 1)' = inner /\ ~ Waits(p, n + 1)'
<1>1. \A q \in Cores : /\ Depth(q)' = IF q = p THEN n + 1 ELSE Depth(q)
                       /\ Depth(q) \in Nat
  BY FrameTypes, Zenon DEF StackPush
<1>2. Frame(p, n)' = call /\ Frame(p, n + 1)' = inner
  BY <1>1 DEF StackPush
<1>3. (Waits(p, n)' <=> IsCall(inner)) /\ ~ Waits(p, n + 1)'
  BY <1>1, <1>2 DEF Waits, IsCall
<1>4. ASSUME NEW q \in Cores, NEW k \in 1..Depth(q), q # p \/ k # n
      PROVE  Frame(q, k)' = Frame(q, k) /\ (Waits(q, k)' <=> Waits(q, k))
  <2>1. Frame(q, k)' = Frame(q, k)
    BY <1>4, Zenon DEF StackPush
  <2>2. CASE k < Depth(q)
    <3>1. k + 1 \in 1..Depth(q)
      BY <1>1, <2>2
    <3>2. IsCall(Frame(q, k + 1)') <=> IsCall(Frame(q, k + 1))
      BY <3>1, Zenon DEF StackPush
    <3>3. QED
      BY <1>1, <2>1, <2>2, <3>2, SMTT(30) DEF Waits
  <2>3. CASE ~ k < Depth(q)
    BY <1>1, <1>4, <2>1, <2>3, SMTT(30) DEF Waits
  <2>4. QED
    BY <2>2, <2>3, Zenon
<1>5. QED
  BY <1>1, <1>2, <1>3, <1>4, Zenon DEF KeptFrames

\* The caches along a stack stay in order when a call goes on ...
LEMMA OrderGoto ==
    ASSUME Stacks, Order, NEW p \in Cores, NEW n \in Nat \ {0}, n = Depth(p), NEW call,
           StackGoto(p, call), IsCall(call) <=> IsCall(Frame(p, n)),
           call.cache = Frame(p, n).cache
    PROVE  Order'
<1>1. \A q \in Cores : Depth(q)' = Depth(q)
  BY Zenon DEF StackGoto
<1>2. \A q \in Cores : \A k \in 1..Depth(q) :
        /\ Frame(q, k)'.cache = Frame(q, k).cache
        /\ IsCall(Frame(q, k)') <=> IsCall(Frame(q, k))
  BY Zenon DEF StackGoto
<1>3. \A q \in Cores : \A j, k \in 1..Depth(q) : j < k => (Waits(q, j)' <=> Waits(q, j))
  <2>1. TAKE q \in Cores
  <2>2. TAKE j, k \in 1..Depth(q)
  <2>3. HAVE j < k
  <2>4. j # Depth(q)
    BY <2>3, FrameTypes
  <2>5. QED
    BY <2>4, GotoKept, Zenon DEF KeptFrames
<1>4. \A q \in Cores : \A j, k \in 1..Depth(q) : j < k => (IsBase(q, j)' <=> IsBase(q, j))
  BY <1>2, <1>3, Zenon DEF IsBase
<1>5. QED
  <2>1. SUFFICES ASSUME NEW q \in Cores, NEW j \in 1..Depth(q), NEW k \in 1..Depth(q), j < k
                 PROVE  /\ IsCall(Frame(q, k)') =>
                             /\ IsCall(Frame(q, j)')
                             /\ Rank[Frame(q, k)'.cache] < Rank[Frame(q, j)'.cache]
                        /\ ~ IsCall(Frame(q, k)') /\ (IsCall(Frame(q, j)') => IsBase(q, j)') =>
                             Rank[Frame(q, j)'.cache] < Rank[Frame(q, k)'.cache]
    BY <1>1, Zenon DEF Order
  <2>2. IsBase(q, j)' <=> IsBase(q, j)
    BY <1>4, <2>1, Zenon
  <2>3. QED
    BY <1>2, <2>1, <2>2 DEF Order

\* ... when it sends a request up or an invalidation down ...
LEMMA OrderPush ==
    ASSUME Stacks, Order, NEW p \in Cores, NEW n \in Nat \ {0}, n = Depth(p), NEW call,
           NEW inner, StackPush(p, call, inner), IsCall(call) <=> IsCall(Frame(p, n)),
           call.cache = Frame(p, n).cache, inner.cache \in Caches,
           IsCall(inner) => IsCall(call) /\ Rank[inner.cache] < Rank[call.cache],
           ~ IsCall(inner) => Rank[call.cache] < Rank[inner.cache]
    PROVE  Order'
<1>1. /\ KeptFrames(p)
      /\ \A q \in Cores : Depth(q)' = IF q = p THEN n + 1 ELSE Depth(q)
      /\ Frame(p, n)' = call /\ (Waits(p, n)' <=> IsCall(inner))
      /\ Frame(p, n + 1)' = inner /\ ~ Waits(p, n + 1)'
  BY PushKept, Zenon
<1>2. \A q \in Cores : \A k \in 1..Depth(q) :
        /\ Frame(q, k)'.cache = Frame(q, k).cache
        /\ IsCall(Frame(q, k)') <=> IsCall(Frame(q, k))
  BY Zenon DEF StackPush
<1>3. \A q \in Cores : Depth(q) \in Nat /\ \A k \in 1..Depth(q) :
        Rank[Frame(q, k).cache] \in Nat
  BY FrameFields, FrameTypes, RankFalls, Zenon
<1>4. Rank[inner.cache] \in Nat
  BY RankFalls, Zenon
<1>5. \A q \in Cores : \A j, k \in 1..Depth(q) : j < k => (IsBase(q, j)' <=> IsBase(q, j))
  <2>1. TAKE q \in Cores
  <2>2. TAKE j, k \in 1..Depth(q)
  <2>3. HAVE j < k
  <2>4. j # Depth(q)
    BY <2>3
  <2>5. Waits(q, j)' <=> Waits(q, j)
    BY <1>1, <2>4, Zenon DEF KeptFrames
  <2>6. QED
    BY <1>2, <2>5, Zenon DEF IsBase
<1>6. SUFFICES ASSUME NEW q \in Cores, NEW j \in 1..Depth(q)', NEW k \in 1..Depth(q)', j < k
               PROVE  /\ IsCall(Frame(q, k)') =>
                           /\ IsCall(Frame(q, j)')
                           /\ Rank[Frame(q, k)'.cache] < Rank[Frame(q, j)'.cache]
                      /\ ~ IsCall(Frame(q, k)') /\ (IsCall(Frame(q, j)') => IsBase(q, j)') =>
                           Rank[Frame(q, j)'.cache] < Rank[Frame(q, k)'.cache]
  BY Zenon DEF Order
<1>7. CASE k \in 1..Depth(q)
  <2>1. j \in 1..Depth(q)
    BY <1>3, <1>6, <1>7
  <2>2. IsBase(q, j)' <=> IsBase(q, j)
    BY <1>5, <1>6, <1>7, <2>1, Zenon
  <2>3. QED
    BY <1>2, <1>6, <1>7, <2>1, <2>2, SMTT(30) DEF Order
<1>8. CASE k \notin 1..Depth(q)
  <2>1. q = p /\ k = n + 1 /\ j \in 1..n
    BY <1>1, <1>6, <1>8
  <2>2. Frame(q, k)' = inner
    BY <1>1, <2>1, Zenon
  <2>3. CASE j = n
    BY <1>1, <2>1, <2>3, Zenon
  <2>4. CASE j # n
    <3>1. j < n /\ n \in 1..Depth(p) /\ j \in 1..Depth(p)
      BY <2>1, <2>4
    <3>2. IsBase(p, j)' <=> IsBase(p, j)
      BY <1>5, <3>1, Zenon
    <3>3. /\ IsCall(Frame(p, n)) =>
               IsCall(Frame(p, j)) /\ Rank[Frame(p, n).cache] < Rank[Frame(p, j).cache]
          /\ ~ IsCall(Frame(p, n)) /\ (IsCall(Frame(p, j)) => IsBase(p, j)) =>
               Rank[Frame(p, j).cache] < Rank[Frame(p, n).cache]
      BY <3>1, Zenon DEF Order
    <3>4. CASE IsCall(inner)
      BY <1>2, <1>3, <1>4, <2>1, <2>2, <3>1, <3>3, <3>4, SMTT(30)
    <3>5. CASE ~ IsCall(inner)
      <4>1. ASSUME IsCall(Frame(p, n))
            PROVE  IsCall(Frame(p, j)) /\ ~ IsBase(p, j)
        <5>1. j + 1 \in 1..Depth(p) /\ (j + 1 < n \/ j + 1 = n)
          BY <3>1
        <5>2. IsCall(Frame(p, j)) /\ IsCall(Frame(p, j + 1))
          BY <4>1, <5>1 DEF Order
        <5>3. QED
          BY <3>1, <5>2, Zenon DEF IsBase, Waits
      <4>2. Rank[Frame(p, n).cache] < Rank[inner.cache]
        BY <3>5, Zenon
      <4>3. QED
        BY <1>2, <1>3, <1>4, <2>1, <2>2, <3>2, <3>3, <4>1, SMTT(30)
    <3>6. QED
      BY <3>4, <3>5, Zenon
  <2>5. QED
    BY <2>3, <2>4, Zenon
<1>9. QED
  BY <1>7, <1>8, Zenon

\* A step that changes no state leaves the lines alike.
LEMMA SameStates ==
    ASSUME CoherenceInv, NEW p \in Cores, UNCHANGED mesi
    PROVE  Alike(p) /\ \A c \in Caches : \A w \in 1..Ways[c] : mesi'[c][w] \in MESI
<1>1. Types
  BY Zenon DEF CoherenceInv
<1>2. Table(mesi)'
  BY <1>1, Zenon DEF Types, Table
<1>3. QED
  BY <1>1, <1>2, Zenon DEF Types, Alike

\* An upgrade goes on when the frames stay that may be at it.
LEMMA UpgradesKept ==
    ASSUME Stacks, NEW p \in Cores, KeptFrames(p),
           \A q \in Cores : 1..Depth(q) \subseteq 1..Depth(q)',
           NEW n \in Nat, n = Depth(p),
           n > 0 /\ Frame(p, n).pc = "grant" =>
             Frame(p, n)' = Frame(p, n) /\ ~ Waits(p, n)'
    PROVE  \A c, d, v : Upgrades(c, d, v) => Upgrades(c, d, v)'
<1>1. SUFFICES ASSUME NEW c, NEW d, NEW v, Upgrades(c, d, v)
               PROVE  Upgrades(c, d, v)'
  OBVIOUS
<1>2. PICK q \in Cores : \E k \in 1..Depth(q) :
        LET f == Frame(q, k)
        IN /\ f.pc = "grant" /\ ~ Waits(q, k) /\ f.type = "GETX"
           /\ f.cache = d /\ f.way = v /\ f.from = c
  BY <1>1, Zenon DEF Upgrades
<1>3. PICK k \in 1..Depth(q) :
        LET f == Frame(q, k)
        IN /\ f.pc = "grant" /\ ~ Waits(q, k) /\ f.type = "GETX"
           /\ f.cache = d /\ f.way = v /\ f.from = c
  BY <1>2, Zenon
<1>4. Frame(q, k)' = Frame(q, k) /\ ~ Waits(q, k)'
  <2>1. CASE q = p /\ k = n
    BY <1>3, <2>1
  <2>2. CASE q # p \/ k # n
    BY <1>3 DEF KeptFrames
  <2>3. QED
    BY <2>1, <2>2, Zenon
<1>5. QED
  BY <1>3, <1>4, Zenon DEF Upgrades

\* The other locks stay with their holders.
LEMMA FreeBcc ==
    ASSUME CoherenceInv, NEW t, t.cache \in Caches, UNCHANGED tcc,
           FreesBcc(t.cache) \/ UNCHANGED bcc
    PROVE  /\ bcc' \in [Caches -> Cores \cup {None}] /\ tcc' \in [Caches -> Cores \cup {None}]
           /\ LocksLeft(t)
<1>1. tcc \in [Caches -> Cores \cup {None}] /\ bcc \in [Caches -> Cores \cup {None}]
  BY Zenon DEF CoherenceInv, Types
<1>2. CASE UNCHANGED bcc
  BY <1>1, <1>2, Zenon DEF LocksLeft
<1>3. CASE FreesBcc(t.cache)
  BY <1>1, <1>3, Zenon DEF LocksLeft, FreesBcc
<1>4. QED
  BY <1>2, <1>3, Zenon

\* A step of an access at its cache, or at the child's line that it was asked
\* for, leaves what the other frames rely on.
LEMMA AccessOthers ==
    ASSUME CoherenceInv, NEW p \in Cores, NEW n \in 1..Depth(p), n = Depth(p),
           NEW t, t = Frame(p, n), t.pc \in Under,
           \A c \in Caches : c # t.cache => \A w \in 1..Ways[c] :
             /\ tag'[c][w] = tag[c][w] /\ dir'[c][w] = dir[c][w]
             /\ mesi'[c][w] = mesi[c][w] \/ (n > 1 /\ c = t.from),
           NEW q \in Cores, NEW k \in 1..Depth(q), q # p \/ k # n,
           Frame(q, k)' = Frame(q, k), k > 1 => Frame(q, k - 1)' = Frame(q, k - 1)
    PROVE  ShapeAt(q, k)' /\ ((Waits(q, k)' <=> Waits(q, k)) => AccessAt(q, k)')
<1>1. Stacks /\ Shape /\ Order /\ Locks /\ Accesses
  BY InvParts, Zenon
<1>2. Depth(p) \in Nat /\ Depth(q) \in Nat
  BY <1>1, FrameTypes, ZenonT(30)
<1>3. Holds(p, n)
  BY <1>2, SMTT(30) DEF Holds, Waits
<1>4. PICK f : f = Frame(q, k)
  OBVIOUS
<1>5. PICK h : h = Frame(q, k - 1)
  OBVIOUS
<1>6. f.cache \in Caches /\ ShapeAt(q, k) /\ AccessAt(q, k)
  BY <1>1, <1>4, FrameFields, Zenon DEF Shape, Accesses
<1>7. (f.pc \in Under => f.cache # t.cache) /\ (f.pc = "down" => f.cache # t.cache)
  <2>1. f.pc = "down" => Holds(q, k)
    BY <1>4, Zenon DEF Holds
  <2>2. f.pc \in Under => f.cache # t.cache
    BY <1>1, <1>4, OneAccess, Zenon
  <2>3. QED
    BY <1>1, <1>3, <1>4, <2>1, <2>2, OneHolder, Zenon
<1>8. ASSUME k > 1
      PROVE  /\ k - 1 \in 1..Depth(q) /\ h.cache \in Caches /\ h.cache # t.cache
             /\ IsCall(f) => Asks(f, h) /\ h.pc \in Under
             /\ ~ IsCall(f) => Tells(f, h)
  <2>1. k - 1 \in 1..Depth(q) /\ (q # p \/ k - 1 # n)
    BY <1>2, <1>8, SMTT(30)
  <2>2. /\ IsCall(f) => Asks(f, h) /\ h.pc \in Under
        /\ ~ IsCall(f) => Tells(f, h) /\ Holds(q, k - 1)
    BY <1>1, <1>4, <1>5, <1>8, CallerOf, Zenon
  <2>3. h.cache \in Caches
    BY <1>1, <1>5, <2>1, FrameFields, ZenonT(30)
  <2>4. h.pc \in Under => h.cache # t.cache
    BY <1>1, <1>5, <2>1, OneAccess, ZenonT(30)
  <2>5. Holds(q, k - 1) => h.cache # t.cache
    BY <1>1, <1>3, <1>5, <2>1, OneHolder, SMTT(30)
  <2>6. QED
    BY <2>1, <2>2, <2>3, <2>4, <2>5, Zenon
<1>9. ASSUME n > 1
      PROVE  n - 1 \in 1..Depth(p) /\ Frame(p, n - 1).cache = t.from
             /\ Frame(p, n - 1).pc \in Under /\ Waits(p, n - 1)
  BY <1>1, <1>9, CallerOf, Zenon DEF Asks, IsCall, Under
<1>10. ShapeAt(q, k)'
  <2>1. f.pc # "panic" /\ (IsCall(f) /\ k = 1 => Outermost(q, f))
    BY <1>4, <1>6, Zenon DEF ShapeAt
  <2>2. ~ IsCall(f) => k > 1
    BY <1>4, <1>6, ZenonT(30) DEF ShapeAt
  <2>3. ASSUME k > 1, IsCall(f)
        PROVE  Asks(Frame(q, k), Frame(q, k - 1))'
    BY <1>4, <1>5, <1>8, <2>3, SMTT(40) DEF Asks, Absent
  <2>4. ASSUME k > 1, ~ IsCall(f)
        PROVE  Tells(Frame(q, k), Frame(q, k - 1))'
    BY <1>4, <1>5, <1>6, <1>7, <1>8, <2>4, SMTT(40) DEF Tells
  <2>5. QED
    BY <1>4, <2>1, <2>2, <2>3, <2>4, Zenon DEF ShapeAt, Outermost, IsCall
<1>11. ASSUME Waits(q, k)' <=> Waits(q, k), IsCall(f)
       PROVE  Progress(Frame(q, k), k, Waits(q, k))'
  <2>1. Progress(f, k, Waits(q, k))
    BY <1>4, <1>6, <1>11, ZenonT(30) DEF AccessAt
  <2>2. ASSUME f.pc \in Under, f.way \in 1..Ways[f.cache], ~ Waits(q, k)
        PROVE  mesi'[f.cache][f.way] = mesi[f.cache][f.way]
    <3>1. SUFFICES ASSUME n > 1, f.cache = t.from
                   PROVE  FALSE
      BY <1>6, <1>7, <2>2, ZenonT(30)
    <3>2. q = p /\ k = n - 1
      BY <1>1, <1>4, <1>9, <2>2, <3>1, OneAccess, SMTT(30)
    <3>3. QED
      BY <1>9, <2>2, <3>2, SMTT(40)
  <2>3. ASSUME f.pc \in Under
        PROVE  \A w \in 1..Ways[f.cache] : /\ tag'[f.cache][w] = tag[f.cache][w]
                                           /\ dir'[f.cache][w] = dir[f.cache][w]
    BY <1>6, <1>7, <2>3, Zenon
  <2>4. Progress(f, k, Waits(q, k))'
    <3>1. CASE f.pc \in Under
      BY <1>11, <2>1, <2>2, <2>3, Zenon DEF Progress, Absent, Under
    <3>2. CASE f.pc \notin Under
      BY <3>2, ZenonT(30) DEF Progress, Under
    <3>3. QED
      BY <3>1, <3>2, Zenon
  <2>5. QED
    BY <1>4, <2>4, Zenon
<1>12. ASSUME k > 1, IsCall(f)
       PROVE  Asked(Frame(q, k))'
  <2>1. Asked(f) /\ f.from = h.cache /\ f.slot \in 1..Ways[f.from] /\ h.pc \in Under
    BY <1>4, <1>6, <1>8, <1>12, Zenon DEF AccessAt, Asks
  <2>2. mesi'[f.from][f.slot] = mesi[f.from][f.slot]
    <3>1. SUFFICES ASSUME n > 1, h.cache = t.from
                   PROVE  FALSE
      BY <1>8, <1>12, <2>1, ZenonT(30)
    <3>2. q = p /\ k - 1 = n - 1
      BY <1>1, <1>5, <1>8, <1>9, <1>12, <2>1, <3>1, OneAccess, SMTT(30)
    <3>3. QED
      BY <3>2
  <2>3. QED
    BY <1>4, <2>1, <2>2, ZenonT(30) DEF Asked
<1>13. (Waits(q, k)' <=> Waits(q, k)) => AccessAt(q, k)'
  BY <1>4, <1>11, <1>12, Zenon DEF AccessAt
<1>14. QED
  BY <1>10, <1>13, Zenon

\* The locks of the other frames, when p gives up locks of its own cache.
LEMMA LockOthers ==
    ASSUME CoherenceInv, NEW p \in Cores, NEW n \in 1..Depth(p), n = Depth(p),
           NEW t, t = Frame(p, n), Holds(p, n), t.pc \in Under \/ UNCHANGED tcc,
           \A c \in Caches : c # t.cache => \A q \in Cores :
             (tcc[c] = q => tcc'[c] = q) /\ (bcc[c] = q => bcc'[c] = q),
           NEW q \in Cores, NEW k \in 1..Depth(q), q # p \/ k # n,
           Frame(q, k)' = Frame(q, k), Holds(q, k)' => Holds(q, k)
    PROVE  LockAt(q, k)'
<1>1. Stacks /\ Shape /\ Order /\ Locks
  BY InvParts, Zenon
<1>2. PICK f : f = Frame(q, k)
  OBVIOUS
<1>3. f.cache \in Caches /\ LockAt(q, k)
  BY <1>1, <1>2, FrameFields, Zenon DEF Locks
<1>4. Holds(q, k)' => bcc'[f.cache] = q
  <2>1. HAVE Holds(q, k)'
  <2>2. f.cache # t.cache
    BY <1>1, <1>2, <2>1, OneHolder, SMTT(30)
  <2>3. QED
    BY <1>2, <1>3, <2>1, <2>2, Zenon DEF LockAt
<1>5. f.pc \in {"bcc"} \cup Under /\ f.cache \notin Terminals => tcc'[f.cache] = q
  <2>1. HAVE f.pc \in {"bcc"} \cup Under /\ f.cache \notin Terminals
  <2>2. tcc[f.cache] = q
    BY <1>2, <1>3, <2>1, Zenon DEF LockAt
  <2>3. t.pc \in Under => f.cache # t.cache
    BY <1>1, <1>2, <2>1, OneAccess, Zenon
  <2>4. QED
    BY <1>3, <2>2, <2>3, Zenon
<1>6. QED
  BY <1>2, <1>4, <1>5, Zenon DEF LockAt

\* The recalls of the other cores: p makes no line exclusive that another core
\* is invalidating, and takes no line from its access.
LEMMA RecallOthers ==
    ASSUME CoherenceInv, NEW p \in Cores, NEW n \in 1..Depth(p), n = Depth(p),
           NEW t, t = Frame(p, n), Holds(p, n),
           Elsewhere(t, n), FewExclusive(t),
           NEW q \in Cores, q # p, wback'[q] = wback[q], Depth(q)' = Depth(q),
           \A k \in 1..Depth(q) :
             Frame(q, k)' = Frame(q, k) /\ (Waits(q, k)' <=> Waits(q, k))
    PROVE  RecallAt(q)'
<1>1. Stacks /\ Shape /\ Order /\ Locks
  BY InvParts, Zenon
<1>2. Depth(q) \in Nat /\ RecallAt(q)
  BY <1>1, FrameTypes, Zenon DEF CoherenceInv, Recalls
<1>3. ASSUME n > 1, t.pc \in Under
      PROVE  n - 1 \in 1..Depth(p) /\ Frame(p, n - 1).cache = t.from
             /\ Frame(p, n - 1).pc \in Under
  BY <1>1, <1>3, CallerOf, Zenon DEF Asks, IsCall, Under
<1>4. ASSUME NEW k \in 1..Depth(q), IsBase(q, k), NEW f, f = Frame(q, k),
             f.pc \in {"evict", "grant"}
      PROVE  /\ f.cache \in Caches /\ f.way \in 1..Ways[f.cache]
             /\ tag'[f.cache][f.way] = tag[f.cache][f.way]
             /\ mesi[f.cache][f.way] \in Exclusive => mesi'[f.cache][f.way] \in Exclusive
  <2>1. f.cache \in Caches /\ f.way \in 1..Ways[f.cache]
    BY <1>4, BaseWays, Zenon
  <2>2. Holds(q, k) /\ f.pc \in Under
    BY <1>4, Zenon DEF IsBase, Holds, Under
  <2>3. f.cache # t.cache
    BY <1>1, <1>4, <2>2, OneHolder, ZenonT(30)
  <2>4. ~ (n > 1 /\ t.pc \in Under /\ f.cache = t.from)
    BY <1>1, <1>3, <1>4, <2>2, OneAccess, ZenonT(30)
  <2>5. QED
    BY <2>1, <2>3, <2>4, ZenonT(30) DEF Elsewhere
<1>5. \A k \in 1..Depth(q) : IsBase(q, k)' <=> IsBase(q, k)
  BY Zenon DEF IsBase
<1>6. wback'[q] => Depth(q)' > 0
  BY <1>2, Zenon DEF RecallAt
<1>7. \A k \in 1..Depth(q) : \A j \in k + 1 .. Depth(q) : j \in 1..Depth(q)
  BY <1>2, SMTT(30)
<1>8. SUFFICES ASSUME NEW k \in 1..Depth(q), IsBase(q, k), NEW f, f = Frame(q, k)
               PROVE  /\ wback[q] => /\ f.pc \in {"evict", "grant"}
                                     /\ mesi'[f.cache][f.way] \in Exclusive
                      /\ \A j \in k + 1 .. Depth(q) :
                           LET g == Frame(q, j)
                           IN /\ g.line = tag'[f.cache][f.way]
                              /\ \A w \in 1..Ways[g.cache] :
                                   /\ tag'[g.cache][w] = g.line
                                   /\ mesi'[g.cache][w] \in Exclusive
                                   => mesi'[f.cache][f.way] \in Exclusive
  BY <1>5, <1>6, SMTT(40) DEF RecallAt
<1>9. wback[q] => /\ f.pc \in {"evict", "grant"}
                  /\ mesi'[f.cache][f.way] \in Exclusive
  BY <1>2, <1>4, <1>8, Zenon DEF RecallAt
<1>10. ASSUME NEW j \in k + 1 .. Depth(q), NEW g, g = Frame(q, j)
       PROVE  /\ g.line = tag'[f.cache][f.way]
              /\ \A w \in 1..Ways[g.cache] :
                   tag'[g.cache][w] = g.line /\ mesi'[g.cache][w] \in Exclusive
                   => mesi'[f.cache][f.way] \in Exclusive
  <2>1. /\ j \in 1..Depth(q) /\ j > 1 /\ k + 1 \in 1..Depth(q) /\ k + 1 > 1
        /\ k + 1 - 1 = k /\ k + 1 \in k + 1 .. Depth(q)
    BY <1>2, SMTT(40)
  <2>2. ~ IsCall(g) /\ ~ IsCall(Frame(q, k + 1)) /\ g.cache \in Caches
    BY <1>8, <1>10, <2>1, BaseWays, Zenon
  <2>3. f.pc \in {"evict", "grant"}
    <3>1. Tells(Frame(q, k + 1), f) /\ IsCall(f)
      <4>1. Frame(q, k + 1 - 1) = f /\ IsCall(f)
        BY <1>8, <2>1, Zenon DEF IsBase
      <4>2. \A m \in 1..Depth(q) : m > 1 /\ ~ IsCall(Frame(q, m)) =>
              Tells(Frame(q, m), Frame(q, m - 1))
        BY ONLY <1>1, q \in Cores, CallerOf, Zenon
      <4>3. QED
        BY ONLY <2>1, <2>2, <4>1, <4>2
    <3>2. QED
      BY <3>1, ZenonT(30) DEF Tells, IsCall
  <2>4. /\ tag'[f.cache][f.way] = tag[f.cache][f.way]
        /\ mesi[f.cache][f.way] \in Exclusive => mesi'[f.cache][f.way] \in Exclusive
    BY <1>4, <1>8, <2>3, Zenon
  <2>5. /\ g.line = tag[f.cache][f.way]
        /\ \A w \in 1..Ways[g.cache] :
             tag[g.cache][w] = g.line /\ mesi[g.cache][w] \in Exclusive
             => mesi[f.cache][f.way] \in Exclusive
    BY <1>2, <1>8, <1>10, Zenon DEF RecallAt
  <2>6. Parent[g.cache][g.line] \notin {t.cache, Mem}
    <3>1. PICK h : h = Frame(q, j - 1)
      OBVIOUS
    <3>2. j - 1 \in 1..Depth(q) /\ Tells(g, h) /\ Holds(q, j - 1) /\ h.cache \in Caches
      BY <1>1, <1>10, <2>1, <2>2, <3>1, CallerOf, FrameFields, ZenonT(30)
    <3>3. Parent[g.cache][g.line] = h.cache
      BY <3>2, ListedCopy DEF Tells
    <3>4. h.cache # t.cache
      BY <1>1, <3>1, <3>2, OneHolder, ZenonT(30)
    <3>5. QED
      BY <3>2, <3>3, <3>4, CoherenceAssumption, ZenonT(30)
  <2>7. QED
    BY <2>2, <2>4, <2>5, <2>6, ZenonT(30) DEF FewExclusive
<1>11. QED
  BY <1>9, <1>10, Zenon

\* ... and neither have the arrays and directories, if no upgrade ends.
LEMMA QuietData ==
    ASSUME CoherenceInv, NEW p \in Cores, UNCHANGED <<tag, dir>>, Alike(p),
           \A c, d, v : Upgrades(c, d, v) => Upgrades(c, d, v)'
    PROVE  Arrays' /\ Listed' /\ Inclusive' /\ Alone'
<1>1. \A c \in Caches : \A w \in 1..Ways[c] :
        /\ mesi'[c][w] = "I" <=> mesi[c][w] = "I"
        /\ mesi'[c][w] \in Exclusive <=> mesi[c][w] \in Exclusive
  BY Zenon DEF Alike, Exclusive
<1>2. Arrays'
  BY <1>1, Zenon DEF CoherenceInv, Arrays
<1>3. Listed'
  <2>1. \A d \in Caches : \A v \in 1..Ways[d] : dir[d][v].sharers \subseteq Caches
    BY Zenon DEF CoherenceInv, Types, Entries
  <2>2. QED
    BY <1>1, <2>1 DEF CoherenceInv, Listed
<1>4. Inclusive'
  <2>1. \A c, d \in Caches : \A w \in 1..Ways[c], v \in 1..Ways[d] :
          Covers(d, v, c, w) => Covers(d, v, c, w)'
    BY <1>1 DEF Covers
  <2>2. SUFFICES ASSUME NEW c \in Caches, NEW w \in 1..Ways[c],
                        mesi[c][w] # "I", Parent[c][tag[c][w]] # Mem
                 PROVE  \E v \in 1..Ways[Parent[c][tag[c][w]]] :
                          Covers(Parent[c][tag[c][w]], v, c, w)'
    BY <1>1, ZenonT(30) DEF Inclusive
  <2>3. Parent[c][tag[c][w]] \in Caches
    <3>1. tag[c][w] \in Lines \cup {None} /\ tag[c][w] # None
      BY <2>2, Zenon DEF CoherenceInv, Types, Arrays
    <3>2. tag[c][w] \in Lines
      BY <3>1, Zenon
    <3> QED
      BY <2>2, <3>2, TreeFacts, Zenon
  <2>4. QED
    BY <2>1, <2>2, <2>3, ZenonT(30) DEF CoherenceInv, Inclusive
<1>5. Alone'
  BY <1>1 DEF CoherenceInv, Alone
<1>6. QED
  BY <1>2, <1>3, <1>4, <1>5, Zenon

\* In particular the call that waits for the innermost one.
LEMMA KeptCaller ==
    ASSUME NEW p \in Cores, NEW n \in Nat \ {0}, n = Depth(p), KeptFrames(p)
    PROVE  n > 1 => Frame(p, n - 1)' = Frame(p, n - 1)
<1>1. SUFFICES ASSUME n > 1
               PROVE  Frame(p, n - 1)' = Frame(p, n - 1)
  BY Zenon
<1>2. n - 1 \in 1..n /\ n - 1 # n
  BY <1>1
<1>3. QED
  BY <1>2, Zenon DEF KeptFrames

\* When a call returns its caller waits no more, and the other frames stay.
LEMMA PopKept ==
    ASSUME Stacks, NEW p \in Cores, NEW n \in Nat \ {0}, n = Depth(p), StackPop(p)
    PROVE  /\ \A q \in Cores : Depth(q)' = IF q = p THEN n - 1 ELSE Depth(q)
           /\ \A q \in Cores : \A k \in 1..Depth(q)' :
                /\ k \in 1..Depth(q) /\ Frame(q, k)' = Frame(q, k)
                /\ q # p \/ k # n - 1 => (Waits(q, k)' <=> Waits(q, k))
           /\ n > 1 => ~ Waits(p, n - 1)'
<1>1. \A q \in Cores : /\ Depth(q)' = IF q = p THEN n - 1 ELSE Depth(q)
                       /\ Depth(q) \in Nat
  BY FrameTypes, Zenon DEF StackPop
<1>2. n > 1 => ~ Waits(p, n - 1)'
  BY <1>1 DEF Waits
<1>3. ASSUME NEW q \in Cores, NEW k \in 1..Depth(q)'
      PROVE  /\ k \in 1..Depth(q) /\ Frame(q, k)' = Frame(q, k)
             /\ q # p \/ k # n - 1 => (Waits(q, k)' <=> Waits(q, k))
  <2>1. k \in 1..Depth(q) /\ Frame(q, k)' = Frame(q, k)
    BY DEF StackPop
  <2>2. CASE k < Depth(q)'
    <3>1. k + 1 \in 1..Depth(q)'
      BY <1>1, <2>2
    <3>2. IsCall(Frame(q, k + 1)') <=> IsCall(Frame(q, k + 1))
      BY <3>1, Zenon DEF StackPop
    <3>3. k < Depth(q)
      BY <1>1, <2>2
    <3>4. QED
      BY <2>1, <2>2, <3>2, <3>3, Zenon DEF Waits
  <2>3. CASE ~ k < Depth(q)'
    <3>1. q # p \/ k # n - 1 => ~ k < Depth(q)
      BY <1>1, <2>3, SMTT(30)
    <3>2. QED
      BY <2>1, <2>3, <3>1, Zenon DEF Waits
  <2>4. QED
    BY <2>2, <2>3, Zenon
<1>4. QED
  BY <1>1, <1>2, <1>3, Zenon

\* ... and when it returns.
LEMMA OrderPop ==
    ASSUME Stacks, Order, NEW p \in Cores, NEW n \in Nat \ {0}, n = Depth(p), StackPop(p)
    PROVE  Order'
<1>1. /\ \A q \in Cores : Depth(q)' = IF q = p THEN n - 1 ELSE Depth(q)
      /\ \A q \in Cores : \A k \in 1..Depth(q)' :
           /\ k \in 1..Depth(q) /\ Frame(q, k)' = Frame(q, k)
           /\ q # p \/ k # n - 1 => (Waits(q, k)' <=> Waits(q, k))
  BY PopKept, Zenon
<1>2. SUFFICES ASSUME NEW q \in Cores, NEW j \in 1..Depth(q)', NEW k \in 1..Depth(q)', j < k
               PROVE  /\ IsCall(Frame(q, k)') =>
                           /\ IsCall(Frame(q, j)')
                           /\ Rank[Frame(q, k)'.cache] < Rank[Frame(q, j)'.cache]
                      /\ ~ IsCall(Frame(q, k)') /\ (IsCall(Frame(q, j)') => IsBase(q, j)') =>
                           Rank[Frame(q, j)'.cache] < Rank[Frame(q, k)'.cache]
  BY Zenon DEF Order
<1>3. q # p \/ j # n - 1
  BY <1>1, <1>2
<1>4. IsBase(q, j)' <=> IsBase(q, j)
  BY <1>1, <1>3, Zenon DEF IsBase
<1>5. QED
  BY <1>1, <1>2, <1>4 DEF Order

-----------------------------------------------------------------------------
(* A step of an access that holds the bcc                                  *)

\* An access at `t` goes on as `call`.
LEMMA AccessGoto ==
    ASSUME CoherenceInv, NEW p \in Cores, NEW n \in 1..Depth(p), n = Depth(p),
           NEW t, t = Frame(p, n), t.pc \in Under, NEW h, h = Frame(p, n - 1),
           NEW call \in Calls, call.pc \in Under, call.cache = t.cache,
           stack[p] # <<>>, Goto(p, call), DataTypes',
           Local(t, n), LocksLeft(t), FewExclusive(t),
           \A q \in Cores : q # p => wback'[q] = wback[q], ~ wback'[p],
           tcc'[t.cache] = tcc[t.cache], bcc'[t.cache] = p,
           n = 1 => Outermost(p, call), n > 1 => Asks(call, h)' /\ Asked(call)',
           Progress(call, n, FALSE)'
    PROVE  /\ Types' /\ Shape' /\ Order' /\ Locks' /\ Accesses' /\ Recalls'
           /\ \A c, d, v : Upgrades(c, d, v) =>
                \/ Upgrades(c, d, v)'
                \/ t.pc = "grant" /\ c = t.from /\ d = t.cache /\ v = t.way
<1>1. Stacks /\ Shape /\ Order /\ Locks /\ Accesses
  BY InvParts, Zenon
<1>2. /\ n \in Nat \ {0} /\ ~ Waits(p, n) /\ Holds(p, n) /\ IsCall(t) /\ IsCall(call)
      /\ IsBase(p, n) /\ LockAt(p, n)
  <2>1. n \in Nat \ {0} /\ ~ Waits(p, n)
    BY <1>1, FrameTypes DEF Waits
  <2>2. QED
    BY <1>1, <2>1, Zenon DEF Holds, Under, IsCall, IsBase, Locks
<1>3. Stacks' /\ StackGoto(p, call)
  BY <1>1, GotoFrames, Zenon
<1>4. /\ KeptFrames(p)
      /\ \A q \in Cores : Depth(q)' = Depth(q)
      /\ Depth(p)' = n /\ Frame(p, n)' = call /\ ~ Waits(p, n)'
  BY <1>1, <1>2, <1>3, GotoKept, Zenon
<1>5. Types'
  BY <1>3, Zenon DEF Types, DataTypes, Stacks
<1>6. ASSUME NEW q \in Cores, NEW k \in 1..Depth(q)
      PROVE  k > 1 => k - 1 \in 1..Depth(q) /\ Frame(q, k - 1)' = Frame(q, k - 1)
  <2>1. HAVE k > 1
  <2>2. k - 1 \in 1..Depth(q) /\ (q # p \/ k - 1 # n)
    BY <1>1, <2>1, FrameTypes
  <2>3. QED
    BY <1>4, <2>2, Zenon DEF KeptFrames
<1>7. ASSUME NEW q \in Cores, NEW k \in 1..Depth(q), q # p \/ k # n
      PROVE  Frame(q, k)' = Frame(q, k) /\ (Waits(q, k)' <=> Waits(q, k))
  BY <1>4, <1>7, ZenonT(60) DEF KeptFrames
<1>8. ASSUME NEW q \in Cores, NEW k \in 1..Depth(q), q # p \/ k # n
      PROVE  ShapeAt(q, k)' /\ AccessAt(q, k)'
  BY <1>6, <1>7, <1>8, AccessOthers DEF Local
<1>9. ShapeAt(p, n)'
  <2>1. call.pc # "panic"
    BY Zenon DEF Under
  <2>2. n = 1 => Outermost(p, Frame(p, n))'
    BY <1>4, Zenon DEF Outermost
  <2>3. n > 1 => Asks(Frame(p, n), Frame(p, n - 1))'
    <3>1. HAVE n > 1
    <3>2. Frame(p, n - 1)' = h
      BY <1>6, <3>1, Zenon
    <3>3. Asks(call, h)'
      BY <3>1, Zenon
    <3>4. QED
      BY <1>4, <3>2, <3>3, Zenon DEF Asks, Absent, IsCall, AfterFetch
  <2>4. QED
    BY <1>2, <1>4, <2>1, <2>2, <2>3, Zenon DEF ShapeAt, IsCall
<1>10. AccessAt(p, n)'
  <2>1. Progress(Frame(p, n), n, Waits(p, n))'
    BY <1>4, Zenon DEF Progress, Absent
  <2>2. n > 1 => Asked(Frame(p, n))'
    BY <1>4, Zenon DEF Asked
  <2>3. QED
    BY <2>1, <2>2, Zenon DEF AccessAt
<1>11. LockAt(p, n)'
  BY <1>2, <1>4, Zenon DEF LockAt
<1>12. Shape'
  BY <1>4, <1>8, <1>9, Zenon DEF Shape
<1>13. Accesses'
  BY <1>4, <1>8, <1>10, Zenon DEF Accesses
<1>14. Order'
  BY <1>1, <1>2, <1>3, OrderGoto, Zenon
<1>15. Locks'
  <2>1. SUFFICES ASSUME NEW q \in Cores, NEW k \in 1..Depth(q), q # p \/ k # n
                 PROVE  LockAt(q, k)'
    BY <1>4, <1>11, Zenon DEF Locks
  <2>2. Frame(q, k)' = Frame(q, k) /\ (Holds(q, k)' => Holds(q, k))
    BY <1>7, <2>1, Zenon DEF Holds
  <2>3. Holds(p, n)
    BY <1>2, Zenon
  <2>4. QED
    BY <2>1, <2>2, <2>3, LockOthers, ZenonT(60) DEF LocksLeft
<1>16. Recalls'
  <2>1. SUFFICES ASSUME NEW q \in Cores
                 PROVE  RecallAt(q)'
    BY Zenon DEF Recalls
  <2>2. CASE q # p
    <3>1. /\ \A k \in 1..Depth(q) :
               Frame(q, k)' = Frame(q, k) /\ (Waits(q, k)' <=> Waits(q, k))
          /\ Depth(q)' = Depth(q) /\ wback'[q] = wback[q]
      BY <1>4, <1>7, <2>2, Zenon
    <3>2. Holds(p, n)
      BY <1>2, Zenon
    <3>3. Elsewhere(t, n)
      BY ONLY Local(t, n), t.pc \in Under, Zenon DEF Local, Elsewhere
    <3>4. QED
      BY <2>2, <3>1, <3>2, <3>3, RecallOthers, Zenon
  <2>3. CASE q = p
    <3>1. \A k \in 1..n : IsBase(p, k)' => k = n
      <4>1. SUFFICES ASSUME NEW k \in 1..n, IsBase(p, k)', k # n
                     PROVE  FALSE
        BY Zenon
      <4>2. IsBase(p, k)
        BY <1>7, <4>1, Zenon DEF IsBase, IsCall
      <4>3. QED
        BY <1>1, <1>2, <4>1, <4>2, OneBase, Zenon
    <3>2. n + 1 .. n = {}
      BY ONLY <1>2
    <3>3. QED
      BY <1>4, <2>3, <3>1, <3>2, Zenon DEF RecallAt
  <2>4. QED
    BY <2>2, <2>3, Zenon
<1>17. ASSUME NEW c, NEW d, NEW v, Upgrades(c, d, v)
       PROVE  \/ Upgrades(c, d, v)'
              \/ t.pc = "grant" /\ c = t.from /\ d = t.cache /\ v = t.way
  <2>1. PICK q \in Cores : \E k \in 1..Depth(q) :
          /\ Frame(q, k).pc = "grant" /\ ~ Waits(q, k) /\ Frame(q, k).type = "GETX"
          /\ Frame(q, k).cache = d /\ Frame(q, k).way = v /\ Frame(q, k).from = c
    BY <1>17, Zenon DEF Upgrades
  <2>2. PICK k \in 1..Depth(q) :
          /\ Frame(q, k).pc = "grant" /\ ~ Waits(q, k) /\ Frame(q, k).type = "GETX"
          /\ Frame(q, k).cache = d /\ Frame(q, k).way = v /\ Frame(q, k).from = c
    BY <2>1, Zenon
  <2>3. CASE q = p /\ k = n
    BY <2>2, <2>3, Zenon
  <2>4. CASE q # p \/ k # n
    BY <1>4, <1>7, <2>2, <2>4, Zenon DEF Upgrades
  <2>5. QED
    BY <2>3, <2>4, Zenon
<1>18. QED
  BY <1>5, <1>12, <1>13, <1>14, <1>15, <1>16, <1>17, Zenon

\* The access at a cache is the only upgrade there.
LEMMA OwnUpgrade ==
    ASSUME CoherenceInv, NEW p \in Cores, NEW n \in 1..Depth(p),
           NEW t, t = Frame(p, n), t.pc \in {"bcc"} \cup Under,
           NEW x, NEW v, Upgrades(x, t.cache, v)
    PROVE  t.pc = "grant" /\ t.type = "GETX" /\ x = t.from /\ v = t.way /\ ~ Waits(p, n)
<1>1. Stacks /\ Shape /\ Order /\ Locks
  BY InvParts, Zenon
<1>2. PICK q \in Cores : \E k \in 1..Depth(q) :
        /\ Frame(q, k).pc = "grant" /\ ~ Waits(q, k) /\ Frame(q, k).type = "GETX"
        /\ Frame(q, k).cache = t.cache /\ Frame(q, k).way = v /\ Frame(q, k).from = x
  BY Zenon DEF Upgrades
<1>3. PICK k \in 1..Depth(q) :
        /\ Frame(q, k).pc = "grant" /\ ~ Waits(q, k) /\ Frame(q, k).type = "GETX"
        /\ Frame(q, k).cache = t.cache /\ Frame(q, k).way = v /\ Frame(q, k).from = x
  BY <1>2, Zenon
<1>4. Frame(q, k).pc \in {"bcc"} \cup Under
  BY <1>3, Zenon DEF Under
<1>5. q = p /\ k = n
  BY <1>1, <1>3, <1>4, OneAccess, Zenon
<1>6. QED
  BY <1>3, <1>5, Zenon

\* What the caller of an access knows of it as the access goes on.
LEMMA AsksOn ==
    ASSUME CoherenceInv, NEW p \in Cores, NEW n \in 1..Depth(p),
           NEW t, t = Frame(p, n), IsCall(t), NEW h, h = Frame(p, n - 1),
           NEW call, SameCall(call, t), call.type = t.type, Local(t, n)
    PROVE  (n = 1 => Outermost(p, call)) /\ (n > 1 => Asks(call, h)')
<1>1. ShapeAt(p, n)
  BY InvParts, Zenon DEF Shape
<1>2. n = 1 => Outermost(p, call)
  BY <1>1, ZenonT(30) DEF ShapeAt, Outermost, SameCall
<1>3. ASSUME n > 1
      PROVE  Asks(call, h)'
  <2>1. Asks(t, h) /\ h.cache \in Caches /\ h.cache # t.cache /\ h.way \in 1..Ways[h.cache]
    BY <1>3, Caller
  <2>2. Asks(call, h)
    BY <2>1, Zenon DEF Asks, SameCall
  <2>3. \A w \in 1..Ways[h.cache] : /\ tag'[h.cache][w] = tag[h.cache][w]
                                    /\ dir'[h.cache][w] = dir[h.cache][w]
    BY <2>1, Zenon DEF Local
  <2>4. /\ tag'[h.cache][h.way] = tag[h.cache][h.way]
        /\ dir'[h.cache][h.way] = dir[h.cache][h.way]
        /\ Absent(h.cache, h.line) => Absent(h.cache, h.line)'
    BY <2>1, <2>3, Zenon DEF Absent
  <2>5. QED
    BY ONLY <2>2, <2>4, ZenonT(30) DEF Asks
<1>4. QED
  BY <1>2, <1>3, Zenon

-----------------------------------------------------------------------------
(* The end of an invalidation                                              *)

\* Nobody but a frame that holds a cache's bcc upgrades a line there.
LEMMA HolderUpgrade ==
    ASSUME CoherenceInv, NEW p \in Cores, NEW n \in 1..Depth(p),
           NEW t, t = Frame(p, n), Holds(p, n), ~ IsCall(t)
    PROVE  \A x, v : ~ Upgrades(x, t.cache, v)
<1>1. Stacks /\ Order /\ Locks
  BY InvParts, Zenon
<1>2. SUFFICES ASSUME NEW q \in Cores, NEW k \in 1..Depth(q), ~ Waits(q, k),
                      Frame(q, k).pc = "grant", Frame(q, k).cache = t.cache
               PROVE  FALSE
  BY Zenon DEF Upgrades
<1>3. Holds(q, k) /\ IsCall(Frame(q, k))
  BY <1>2, Zenon DEF Holds, Under, IsCall
<1>4. q = p /\ k = n
  BY <1>1, <1>2, <1>3, OneHolder, Zenon
<1>5. QED
  BY <1>3, <1>4, Zenon

\* Child c of d answers an invalidation: its copy in way w becomes s, which is
\* "I" or "S", and the entry of d says so.
Loses(c, w, d, v, l, s) ==
    /\ tag[c][w] = l /\ tag[d][v] = l /\ c \in dir[d][v].sharers
    /\ s \in {"I", "S"} /\ UNCHANGED tag
    /\ \A a \in Caches : \A i \in 1..Ways[a] :
         mesi'[a][i] = IF a = c /\ i = w THEN s ELSE mesi[a][i]
    /\ \A a \in Caches : \A i \in 1..Ways[a] : ~ (a = d /\ i = v) => dir'[a][i] = dir[a][i]
    /\ dir'[d][v].sharers = IF s = "I" THEN dir[d][v].sharers \ {c} ELSE dir[d][v].sharers
    /\ s = "I" => dir[c][w].sharers = {}
    /\ \A y \in Caches : ~ (dir[c][w].exclusive /\ dir[c][w].sharers = {y})

\* The tree is as coherent after such an answer as before it.
LEMMA LoseLine ==
    ASSUME CoherenceInv, NEW c \in Caches, NEW w \in 1..Ways[c], NEW d \in Caches,
           NEW v \in 1..Ways[d], NEW l, NEW s, Loses(c, w, d, v, l, s),
           \A y : ~ Upgrades(y, c, w), \A y, a, i : Upgrades(y, a, i) => Upgrades(y, a, i)'
    PROVE  Arrays' /\ Listed' /\ Inclusive' /\ Alone'
<1>1. /\ l \in Lines /\ l # None /\ Parent[c][l] = d /\ c # d /\ mesi[c][w] # "I"
  BY ListedCopy, CoherenceAssumption DEF Loses
<1>2. \A a \in Caches : \A i \in 1..Ways[a] :
        /\ mesi'[a][i] # "I" => mesi[a][i] # "I"
        /\ ~ (a = c /\ i = w) => mesi'[a][i] = mesi[a][i]
        /\ mesi'[a][i] \in Exclusive => mesi[a][i] \in Exclusive /\ ~ (a = c /\ i = w)
  BY <1>1, ZenonT(60) DEF Loses, Exclusive
<1>3. Arrays'
  BY <1>1, <1>2, ZenonT(60) DEF CoherenceInv, Arrays, Loses
<1>4. Alone'
  <2>1. Alone /\ UNCHANGED tag
    BY Zenon DEF CoherenceInv, Loses
  <2>2. QED
    BY ONLY <1>2, <2>1 DEF Alone
<1>5. \A a \in Caches : \A i, j \in 1..Ways[a] : tag[a][i] = l /\ tag[a][j] = l => i = j
  BY <1>1 DEF CoherenceInv, Arrays
<1>6. Listed'
  <2>1. SUFFICES ASSUME NEW a \in Caches, NEW i \in 1..Ways[a], NEW y \in dir'[a][i].sharers
                 PROVE  /\ tag[a][i] # None /\ Parent[y][tag[a][i]] = a
                        /\ \E u \in 1..Ways[y] : tag[y][u] = tag[a][i] /\ mesi'[y][u] # "I"
    BY DEF Listed, Loses
  <2>2. y \in dir[a][i].sharers
    BY <2>1, Zenon DEF Loses
  <2>3. y \in Caches /\ tag[a][i] # None /\ Parent[y][tag[a][i]] = a
    BY <2>2, ListedCopy, Zenon DEF CoherenceInv, Listed
  <2>4. PICK u \in 1..Ways[y] : tag[y][u] = tag[a][i] /\ mesi[y][u] # "I"
    BY <2>2 DEF CoherenceInv, Listed
  <2>5. CASE y = c /\ u = w
    <3>1. a = d /\ tag[a][i] = l
      BY <1>1, <2>3, <2>4, <2>5, Zenon DEF Loses
    <3>2. i = v
      BY <1>5, <3>1, Zenon DEF Loses
    <3>3. mesi'[y][u] # "I"
      BY <2>1, <2>5, <3>1, <3>2, Zenon DEF Loses
    <3>4. QED
      BY <2>3, <2>4, <3>3, Zenon
  <2>6. CASE ~ (y = c /\ u = w)
    BY <1>2, <2>3, <2>4, <2>6, Zenon
  <2>7. QED
    BY <2>5, <2>6, Zenon
<1>7. Inclusive'
  <2>1. SUFFICES ASSUME NEW y \in Caches, NEW u \in 1..Ways[y], NEW a,
                        a = Parent[y][tag[y][u]], mesi'[y][u] # "I", a # Mem
                 PROVE  \E i \in 1..Ways[a] : Covers(a, i, y, u)'
    BY ZenonT(60) DEF Inclusive, Loses
  <2>2. mesi[y][u] # "I" /\ tag[y][u] \in Lines
    BY <1>2, <2>1 DEF CoherenceInv, Types, Arrays
  <2>3. PICK i \in 1..Ways[a] : Covers(a, i, y, u)
    BY <2>1, <2>2, Zenon DEF CoherenceInv, Inclusive
  <2>4. a \in Caches /\ tag[a][i] = tag[y][u]
    <3>1. a \in Caches
      BY <2>1, <2>2, TreeFacts, Zenon
    <3>2. tag[a][i] = tag[y][u]
      BY ONLY <2>3, Zenon DEF Covers
    <3>3. QED
      BY <3>1, <3>2, Zenon
  <2>5. UNCHANGED tag
    BY Zenon DEF Loses
  <2>6. CASE a = d /\ i = v
    <3>1. mesi'[a][i] = mesi[a][i]
      BY <1>1, <1>2, <2>4, <2>6, Zenon
    <3>2. mesi'[y][u] \notin Exclusive
      <4>1. SUFFICES ASSUME mesi'[y][u] \in Exclusive
                     PROVE  FALSE
        OBVIOUS
      <4>2. mesi[y][u] \in Exclusive /\ ~ (y = c /\ u = w)
        BY <1>2, <4>1, Zenon
      <4>3. y = c
        BY <2>3, <2>6, <4>2, ZenonT(60) DEF Covers, Loses
      <4>4. u = w
        BY <1>5, <2>4, <2>6, <4>3 DEF Loses
      <4>5. QED
        BY <4>2, <4>3, <4>4, Zenon
    <3>3. y \in dir'[a][i].sharers \/ Upgrades(y, a, i)'
      <4>1. CASE y = c
        <5>1. u = w
          BY <1>5, <2>4, <2>6, <4>1, SMTT(30) DEF Loses
        <5>2. QED
          BY <2>1, <2>6, <4>1, <5>1, Zenon DEF Loses
      <4>2. CASE y # c
        BY <2>3, <2>6, <4>2 DEF Covers, Loses
      <4>3. QED
        BY <4>1, <4>2, Zenon
    <3>4. Covers(a, i, y, u)'
      BY <2>3, <2>5, <3>1, <3>2, <3>3, Zenon DEF Covers
    <3>5. QED
      BY <3>4, Zenon
  <2>7. CASE a = c /\ i = w
    <3>1. y \in dir[c][w].sharers
      BY <2>3, <2>7, Zenon DEF Covers
    <3>2. s = "S" /\ mesi[y][u] \notin Exclusive
      BY <2>3, <2>7, <3>1, Zenon DEF Covers, Loses
    <3>3. mesi'[a][i] = "S" /\ dir'[a][i] = dir[a][i] /\ mesi'[y][u] \notin Exclusive
      BY <1>1, <1>2, <2>7, <3>2 DEF Loses
    <3>4. Covers(a, i, y, u)'
      BY <2>3, <2>5, <2>7, <3>1, <3>3, Zenon DEF Covers
    <3>5. QED
      BY <3>4, Zenon
  <2>8. CASE ~ (a = d /\ i = v) /\ ~ (a = c /\ i = w)
    <3>1. mesi'[a][i] = mesi[a][i] /\ dir'[a][i] = dir[a][i]
      BY <1>2, <2>4, <2>8, Zenon DEF Loses
    <3>2. mesi'[y][u] \in Exclusive => mesi[y][u] \in Exclusive
      BY <1>2, Zenon
    <3>3. Covers(a, i, y, u)'
      BY <2>3, <2>5, <3>1, <3>2, Zenon DEF Covers
    <3>4. QED
      BY <3>3, Zenon
  <2>9. QED
    BY <2>6, <2>7, <2>8, Zenon
<1>8. QED
  BY <1>3, <1>4, <1>6, <1>7, ZenonT(30)

\* An access that has a request out is neither at its end nor a PUT, unless it
\* is an L1's or a walker's.
LEMMA WaitingAccess ==
    ASSUME CoherenceInv, NEW q \in Cores, NEW k \in 1..Depth(q), Waits(q, k), k > 1,
           NEW f, f = Frame(q, k)
    PROVE  f.pc # "end" /\ f.type \in Gets
<1>1. Stacks /\ Shape
  BY InvParts, Zenon
<1>2. PICK m : m = k + 1
  OBVIOUS
<1>3. m \in 1..Depth(q) /\ m > 1 /\ m - 1 = k /\ IsCall(Frame(q, m)) /\ Depth(q) \in Nat
  BY <1>1, <1>2, FrameTypes DEF Waits
<1>4. Asks(Frame(q, m), f) /\ IsCall(f) /\ Frame(q, m) \in Calls
  <2>1. Asks(Frame(q, m), Frame(q, m - 1))
    BY <1>1, <1>3, CallerOf, Zenon
  <2>2. QED
    BY <1>1, <1>3, <2>1, FrameFields, Zenon DEF Asks
<1>5. k - 1 \in 1..Depth(q) /\ Asks(f, Frame(q, k - 1)) /\ Frame(q, k - 1).cache \in Caches
      /\ f.line \in Lines
  <2>1. k - 1 \in 1..Depth(q) /\ Asks(f, Frame(q, k - 1))
    BY <1>1, <1>4, CallerOf, ZenonT(30)
  <2>2. QED
    BY <1>1, <2>1, FrameFields, Zenon
<1>6. f.cache \notin Terminals /\ "PTW" \notin f.flags
  BY <1>5, TreeFacts DEF Asks
<1>7. QED
  BY <1>4, <1>6, Zenon DEF Asks, AfterFetch, Calls, Gets, Puts

\* As a child answers an invalidation, the frames around it find what they
\* rely on.
LEMMA InvalOthers ==
    ASSUME CoherenceInv, NEW p \in Cores, NEW n \in 1..Depth(p), n = Depth(p), n > 1,
           NEW t, t = Frame(p, n), t.pc = "down", NEW h, h = Frame(p, n - 1),
           NEW s, Loses(t.cache, t.way, h.cache, h.way, t.line, s),
           NEW q \in Cores, NEW k \in 1..Depth(q), q # p \/ k # n,
           Frame(q, k)' = Frame(q, k), k > 1 => Frame(q, k - 1)' = Frame(q, k - 1),
           Waits(q, k)' <=> Waits(q, k)
    PROVE  ShapeAt(q, k)' /\ AccessAt(q, k)'
<1>1. Stacks /\ Shape /\ Order /\ Locks /\ Accesses
  BY InvParts, Zenon
<1>2. PICK f : f = Frame(q, k)
  OBVIOUS
<1>3. PICK g : g = Frame(q, k - 1)
  OBVIOUS
<1>4. /\ f.cache \in Caches /\ ShapeAt(q, k) /\ AccessAt(q, k) /\ k \in Nat
      /\ (IsCall(f) => f \in Calls)
  BY <1>1, <1>2, FrameFields DEF Shape, Accesses
<1>5. ~ IsCall(t) /\ Holds(p, n) /\ t.cache \in Caches
  BY <1>1, FrameFields, Zenon DEF Holds, IsCall
<1>6. /\ n - 1 \in 1..Depth(p) /\ Tells(t, h) /\ Holds(p, n - 1) /\ h.cache \in Caches
  BY <1>1, <1>5, CallerOf, FrameFields, Zenon
<1>7. /\ t.way \in 1..Ways[t.cache] /\ h.way \in 1..Ways[h.cache]
      /\ h.pc \in {"evict", "grant", "down"} /\ (h.pc = "grant" => h.type \in Gets)
  BY <1>6, Zenon DEF Tells
<1>8. /\ UNCHANGED tag
      /\ \A a \in Caches : \A i \in 1..Ways[a] : dir'[a][i].sharers \subseteq dir[a][i].sharers
      /\ \A a \in Caches : \A i \in 1..Ways[a] : a # h.cache => dir'[a][i] = dir[a][i]
      /\ \A a \in Caches : \A i \in 1..Ways[a] : a # t.cache => mesi'[a][i] = mesi[a][i]
      /\ \A a \in Caches : \A i \in 1..Ways[a] :
           mesi'[a][i] = mesi[a][i] \/ (a = t.cache /\ i = t.way /\ mesi'[a][i] \in {"I", "S"})
  <2>1. /\ UNCHANGED tag
        /\ \A a \in Caches : \A i \in 1..Ways[a] :
             ~ (a = h.cache /\ i = h.way) => dir'[a][i] = dir[a][i]
        /\ dir'[h.cache][h.way].sharers \subseteq dir[h.cache][h.way].sharers
    BY ZenonT(30) DEF Loses
  <2>2. \A a \in Caches : \A i \in 1..Ways[a] : dir'[a][i].sharers \subseteq dir[a][i].sharers
    BY ONLY <2>1, Zenon
  <2>3. \A a \in Caches : \A i \in 1..Ways[a] :
          mesi'[a][i] = mesi[a][i] \/ (a = t.cache /\ i = t.way /\ mesi'[a][i] \in {"I", "S"})
    BY ZenonT(30) DEF Loses
  <2>4. QED
    BY ONLY <2>1, <2>2, <2>3, Zenon
<1>9. Holds(q, k) => f.cache # t.cache
  BY <1>1, <1>2, <1>5, OneHolder, Zenon
<1>10. Holds(q, k) /\ f.cache = h.cache => f = h
  BY <1>1, <1>2, <1>6, OneHolder, Zenon
<1>11. ASSUME k > 1
       PROVE  k - 1 \in 1..Depth(q) /\ g.cache \in Caches
  <2>1. k - 1 \in 1..Depth(q)
    BY <1>1, <1>11, FrameTypes
  <2>2. QED
    BY <1>1, <1>3, <2>1, FrameFields, Zenon
<1>12. ShapeAt(q, k)'
  <2>1. f.pc # "panic" /\ (IsCall(f) /\ k = 1 => Outermost(q, f))
    BY <1>2, <1>4, Zenon DEF ShapeAt
  <2>2. ASSUME IsCall(f), k > 1
        PROVE  Asks(f, g)'
    <3>1. Asks(f, g)
      BY <1>2, <1>3, <1>4, <2>2, Zenon DEF ShapeAt
    <3>2. g.cache \in Caches /\ g.way \in 1..Ways[g.cache]
      BY <1>11, <2>2, <3>1, Zenon DEF Asks
    <3>3. dir[g.cache][g.way].sharers = {} => dir'[g.cache][g.way].sharers = {}
      BY <1>8, <3>2, Zenon
    <3>4. QED
      BY <1>8, <3>1, <3>3, Zenon DEF Asks, Absent, AfterFetch, IsCall
  <2>3. ASSUME ~ IsCall(f)
        PROVE  k > 1 /\ Tells(f, g)'
    <3>1. k > 1 /\ Tells(f, g)
      BY <1>2, <1>3, <1>4, <2>3, Zenon DEF ShapeAt
    <3>2. k - 1 \in 1..Depth(q) /\ Holds(q, k - 1) /\ g.cache \in Caches
      BY <1>1, <1>2, <1>3, <2>3, <3>1, CallerOf, FrameFields, Zenon
    <3>3. g.cache # h.cache
      <4>1. SUFFICES ASSUME g.cache = h.cache
                     PROVE  FALSE
        OBVIOUS
      <4>2. q = p /\ k - 1 = n - 1
        BY <1>1, <1>3, <1>6, <3>2, <4>1, OneHolder, Zenon
      <4>3. k = n
        BY <1>4, <4>2, <1>1, FrameTypes
      <4>4. QED
        BY <4>2, <4>3, Zenon
    <3>4. g.way \in 1..Ways[g.cache]
      BY <3>1, Zenon DEF Tells
    <3>5. dir'[g.cache][g.way] = dir[g.cache][g.way]
      BY <1>8, <3>2, <3>3, <3>4, Zenon
    <3>6. QED
      BY <1>8, <3>1, <3>5, Zenon DEF Tells
  <2>4. QED
    BY <1>2, <1>3, <2>1, <2>2, <2>3, Zenon DEF ShapeAt, IsCall
<1>13. AccessAt(q, k)'
  <2>1. SUFFICES ASSUME IsCall(f)
                 PROVE  Progress(f, k, Waits(q, k))' /\ (k > 1 => Asked(f)')
    BY <1>2, Zenon DEF AccessAt, IsCall
  <2>2. Progress(f, k, Waits(q, k)) /\ (k > 1 => Asked(f))
    BY <1>2, <1>4, <2>1, Zenon DEF AccessAt
  <2>3. Progress(f, k, Waits(q, k))'
    <3>1. CASE Waits(q, k) \/ f.pc \notin Under
      BY <1>8, <2>2, <3>1, Zenon DEF Progress, Absent, Under
    <3>2. CASE ~ Waits(q, k) /\ f.pc \in Under
      <4>1. Holds(q, k)
        BY <1>2, <3>2, Zenon DEF Holds
      <4>2. f.cache # t.cache
        BY <1>9, <4>1, Zenon
      <4>3. f.way \in 1..Ways[f.cache] =>
              /\ mesi'[f.cache][f.way] = mesi[f.cache][f.way]
              /\ dir[f.cache][f.way].sharers = {} => dir'[f.cache][f.way].sharers = {}
        BY <1>4, <1>8, <4>2, Zenon
      <4>4. QED
        BY <1>8, <2>2, <4>3, Zenon DEF Progress, Absent, Under
    <3>3. QED
      BY <3>1, <3>2, Zenon
  <2>4. ASSUME k > 1
        PROVE  Asked(f)'
    <3>1. /\ Asks(f, g) /\ f.from = g.cache /\ f.slot = g.way /\ g.cache \in Caches
          /\ g.way \in 1..Ways[g.cache] /\ f.cache = Parent[g.cache][f.line]
          /\ tag[g.cache][g.way] = f.line
      BY <1>2, <1>3, <1>4, <1>11, <2>1, <2>4, Zenon DEF ShapeAt, Asks
    <3>2. CASE mesi'[f.from][f.slot] = mesi[f.from][f.slot]
      BY <2>2, <2>4, <3>2, Zenon DEF Asked
    <3>3. CASE mesi'[f.from][f.slot] # mesi[f.from][f.slot]
      <4>1. /\ g.cache = t.cache /\ g.way = t.way /\ mesi'[f.from][f.slot] \in {"I", "S"}
        BY <1>8, <3>1, <3>3
      <4>2. f.line = t.line /\ tag[h.cache][h.way] = t.line
            /\ t.cache \in dir[h.cache][h.way].sharers
        <5>1. /\ tag[t.cache][t.way] = t.line /\ tag[h.cache][h.way] = t.line
              /\ t.cache \in dir[h.cache][h.way].sharers
          BY ZenonT(30) DEF Loses
        <5>2. QED
          BY ONLY <3>1, <4>1, <5>1, Zenon
      <4>3. f.cache = h.cache /\ mesi[f.from][f.slot] # "I"
        <5>1. /\ Parent[t.cache][t.line] = h.cache
              /\ \A w \in 1..Ways[t.cache] : tag[t.cache][w] = t.line => mesi[t.cache][w] # "I"
          BY <1>6, <1>7, <4>2, ListedCopy, SMTT(30)
        <5>2. QED
          BY <3>1, <4>1, <4>2, <5>1, ZenonT(60)
      <4>4. Asked(f)
        BY <2>2, <2>4, Zenon
      <4>5. f.pc # "end"
        <5>1. SUFFICES ASSUME f.pc = "end"
                       PROVE  FALSE
          OBVIOUS
        <5>2. ~ Waits(q, k)
          BY <1>2, <2>4, <5>1, WaitingAccess, Zenon
        <5>3. Holds(q, k)
          BY <1>2, <5>1, <5>2, Zenon DEF Holds, Under
        <5>4. QED
          BY <1>7, <1>10, <4>3, <5>1, <5>3, ZenonT(30)
      <4>6. ~ (f.type \in Puts /\ f.pc = "grant")
        <5>1. SUFFICES ASSUME f.type \in Puts, f.pc = "grant"
                       PROVE  FALSE
          OBVIOUS
        <5>2. ~ Waits(q, k)
          <6>1. f.type \notin Gets
            BY <5>1, Zenon DEF Gets, Puts
          <6>2. QED
            BY <1>2, <2>4, <6>1, WaitingAccess, Zenon
        <5>3. Holds(q, k)
          BY <1>2, <5>1, <5>2, Zenon DEF Holds, Under
        <5>4. f = h /\ f.type \in Gets
          BY <1>7, <1>10, <4>3, <5>1, <5>3, Zenon
        <5>5. QED
          BY <5>1, <5>4, Zenon DEF Gets, Puts
      <4>7. QED
        BY <4>1, <4>3, <4>4, <4>5, <4>6, ZenonT(30) DEF Asked, Puts
    <3>4. QED
      BY <3>2, <3>3, Zenon
  <2>5. QED
    BY <2>3, <2>4, Zenon
<1>14. QED
  BY <1>12, <1>13, Zenon

\* The types of the data, when a state and another cache's entry change.
LEMMA SetAnswer ==
    ASSUME CoherenceInv, NEW c \in Caches, NEW w \in 1..Ways[c], NEW s \in MESI,
           NEW d \in Caches, NEW v \in 1..Ways[d], NEW e \in Entries,
           SetsWay(dir', dir, d, v, e), SetsWay(mesi', mesi, c, w, s), UNCHANGED tag,
           bcc' \in [Caches -> Cores \cup {None}], tcc' \in [Caches -> Cores \cup {None}],
           wback' \in [Cores -> BOOLEAN]
    PROVE  /\ DataTypes'
           /\ \A a \in Caches : \A i \in 1..Ways[a] :
                /\ mesi'[a][i] = IF a = c /\ i = w THEN s ELSE mesi[a][i]
                /\ dir'[a][i] = IF a = d /\ i = v THEN e ELSE dir[a][i]
<1>1. Types
  BY Zenon DEF CoherenceInv
<1>2. Table(tag) /\ Table(mesi) /\ Table(dir)
  BY <1>1, Zenon DEF Types
<1>3. /\ Table(dir')
      /\ \A a \in Caches : \A i \in 1..Ways[a] :
           dir'[a][i] = IF a = d /\ i = v THEN e ELSE dir[a][i]
  BY <1>2, TableUpdate, SMTT(30)
<1>4. /\ Table(mesi')
      /\ \A a \in Caches : \A i \in 1..Ways[a] :
           mesi'[a][i] = IF a = c /\ i = w THEN s ELSE mesi[a][i]
  BY <1>2, TableUpdate
<1>5. Table(tag)' /\ Table(dir)' /\ Table(mesi)'
  BY <1>2, <1>3, <1>4, ZenonT(30) DEF Table
<1>6. \A a \in Caches : \A i \in 1..Ways[a] :
        tag'[a][i] \in Lines \cup {None} /\ mesi'[a][i] \in MESI /\ dir'[a][i] \in Entries
  BY <1>1, <1>3, <1>4, SMTT(30) DEF Types
<1>7. QED
  BY <1>3, <1>4, <1>5, <1>6, Zenon DEF DataTypes

\* MESIBottomCC::processInval and, in the caller, the rest of sendInvalidates.
LEMMA FinishInvalidateKeeps ==
    ASSUME CoherenceInv, Counting, NEW p \in Cores, FinishInvalidate(p)
    PROVE  CoherenceInv'
<1>1. PICK n : n = Depth(p)
  OBVIOUS
<1>2. PICK t : t = Frame(p, n)
  OBVIOUS
<1>3. PICK h : h = Frame(p, n - 1)
  OBVIOUS
<1>4. InCall(p, "down")
  BY Zenon DEF FinishInvalidate
<1>5. /\ Stacks /\ stack[p] # <<>> /\ n \in Nat \ {0} /\ n \in 1..Depth(p)
      /\ t = Call(p) /\ t.pc = "down" /\ ~ Waits(p, n) /\ t.cache \in Caches
      /\ t.line \in Lines /\ ~ IsCall(t) /\ t \in Invs /\ Holds(p, n) /\ ShapeAt(p, n)
  BY <1>1, <1>2, <1>4, Top, ZenonT(30) DEF Under
<1>6. n > 1 /\ Tells(t, h)
  BY <1>2, <1>3, <1>5, Zenon DEF ShapeAt
<1>7. /\ n - 1 \in 1..Depth(p) /\ h.cache \in Caches
      /\ (IsCall(h) => IsBase(p, n - 1)) /\ ~ Waits(p, n - 1) /\ h = stack[p][2]
  <2>1. n \in 1..Depth(p) /\ ~ IsCall(Frame(p, n)) /\ n - 1 + 1 = n /\ Shape
    BY <1>2, <1>5, InvParts
  <2>2. n - 1 \in 1..Depth(p) /\ (IsCall(Frame(p, n - 1)) => IsBase(p, n - 1))
    BY <1>5, <1>6, <2>1, CallerOf, Zenon
  <2>3. QED
    BY <1>1, <1>3, <1>5, <1>6, <2>1, <2>2, FrameFields, TopFrame, ZenonT(30) DEF Waits
<1>8. /\ t.way \in 1..Ways[t.cache] /\ tag[t.cache][t.way] = t.line
      /\ h.way \in 1..Ways[h.cache] /\ tag[h.cache][h.way] = t.line
      /\ t.cache \in dir[h.cache][h.way].sharers /\ t.way # 0
      /\ h.pc \in {"evict", "grant", "down"}
  <2>1. t.way \in 1..Ways[t.cache]
    BY <1>5, <1>6, Zenon DEF Tells
  <2>2. t.way # 0
    BY <1>5, <2>1, CoherenceAssumption
  <2>3. QED
    BY <1>5, <1>6, <2>1, <2>2, Zenon DEF Tells
<1>9. PICK s : s = IF t.type = "INV" THEN "I" ELSE "S"
  OBVIOUS
<1>10. PICK e : e = dir[h.cache][h.way]
  OBVIOUS
<1>11. PICK e2 : e2 = Answered(e, t.cache, t.type)
  OBVIOUS
<1>12. /\ MustForward(t) = {} /\ UNCHANGED <<tag, tcc>> /\ FreesBcc(t.cache) /\ Pop(p)
       /\ wback' = [wback EXCEPT ![p] = @ \/ mesi[t.cache][t.way] = "M"]
       /\ SetsWay(mesi', mesi, t.cache, t.way, s)
       /\ SetsWay(dir', dir, h.cache, h.way, e2)
  BY <1>5, <1>7, <1>8, <1>9, <1>10, <1>11, Zenon DEF FinishInvalidate, FreesBcc, SetsWay
<1>13. s \in {"I", "S"} /\ s \in MESI /\ (s = "I" <=> t.type = "INV")
  BY <1>9, Zenon DEF MESI
<1>14. /\ e2 \in Entries
       /\ e2.sharers = IF s = "I" THEN e.sharers \ {t.cache} ELSE e.sharers
  <2>1. e \in Entries
    BY <1>7, <1>8, <1>10, Zenon DEF CoherenceInv, Types
  <2>2. QED
    BY <1>11, <1>13, <2>1, Zenon DEF Answered, Entries
<1>15. /\ s = "I" => dir[t.cache][t.way].sharers = {}
       /\ \A y \in Caches :
            ~ (dir[t.cache][t.way].exclusive /\ dir[t.cache][t.way].sharers = {y})
  <2>1. \A y \in Caches : Cardinality({y}) = 1
    BY DEF Counting, Zenon
  <2>2. t.type \in {"INV", "INVX"}
    BY <1>5, Zenon DEF Invs
  <2>3. QED
    BY <1>8, <1>12, <1>13, <2>1, <2>2, Zenon DEF MustForward, IsExclusive
<1>16. /\ bcc' \in [Caches -> Cores \cup {None}] /\ tcc' \in [Caches -> Cores \cup {None}]
       /\ LocksLeft(t)
  BY <1>5, <1>12, FreeBcc, Zenon
<1>17. /\ wback' \in [Cores -> BOOLEAN]
       /\ wback'[p] => wback[p] \/ mesi[t.cache][t.way] = "M"
       /\ \A q \in Cores : q # p => wback'[q] = wback[q]
  <2>1. wback \in [Cores -> BOOLEAN]
    BY Zenon DEF CoherenceInv, Types
  <2>2. QED
    BY <1>12, <2>1, Zenon
<1>18. /\ DataTypes'
       /\ \A a \in Caches : \A i \in 1..Ways[a] :
            /\ mesi'[a][i] = IF a = t.cache /\ i = t.way THEN s ELSE mesi[a][i]
            /\ dir'[a][i] = IF a = h.cache /\ i = h.way THEN e2 ELSE dir[a][i]
  <2>1. /\ t.cache \in Caches /\ t.way \in 1..Ways[t.cache] /\ h.cache \in Caches
        /\ h.way \in 1..Ways[h.cache] /\ UNCHANGED tag /\ s \in MESI /\ e2 \in Entries
        /\ SetsWay(mesi', mesi, t.cache, t.way, s) /\ SetsWay(dir', dir, h.cache, h.way, e2)
    BY <1>5, <1>7, <1>8, <1>12, <1>13, <1>14, ZenonT(30)
  <2>2. bcc' \in [Caches -> Cores \cup {None}] /\ tcc' \in [Caches -> Cores \cup {None}]
        /\ wback' \in [Cores -> BOOLEAN]
    BY <1>16, <1>17, Zenon
  <2>3. QED
    BY ONLY CoherenceInv, <2>1, <2>2, SetAnswer, SMTT(30)
<1>19. Loses(t.cache, t.way, h.cache, h.way, t.line, s)
  <2>1. \A a \in Caches : \A i \in 1..Ways[a] :
          mesi'[a][i] = IF a = t.cache /\ i = t.way THEN s ELSE mesi[a][i]
    BY <1>18, Zenon
  <2>2. \A a \in Caches : \A i \in 1..Ways[a] :
          ~ (a = h.cache /\ i = h.way) => dir'[a][i] = dir[a][i]
    BY <1>18, Zenon
  <2>3. dir'[h.cache][h.way] = e2
    BY <1>7, <1>8, <1>18, Zenon
  <2>4. QED
    BY ONLY <1>8, <1>10, <1>12, <1>13, <1>14, <1>15, <2>1, <2>2, <2>3, ZenonT(30) DEF
       Loses
<1>20. Stacks' /\ StackPop(p)
  BY <1>5, <1>12, PopFrames, Zenon
<1>21. /\ \A q \in Cores : Depth(q)' = IF q = p THEN n - 1 ELSE Depth(q)
       /\ \A q \in Cores : \A k \in 1..Depth(q)' :
            /\ k \in 1..Depth(q) /\ Frame(q, k)' = Frame(q, k)
            /\ Waits(q, k)' <=> Waits(q, k)
  <2>1. /\ \A q \in Cores : Depth(q)' = IF q = p THEN n - 1 ELSE Depth(q)
        /\ \A q \in Cores : \A k \in 1..Depth(q)' :
             /\ k \in 1..Depth(q) /\ Frame(q, k)' = Frame(q, k)
             /\ q # p \/ k # n - 1 => (Waits(q, k)' <=> Waits(q, k))
        /\ ~ Waits(p, n - 1)'
    BY <1>1, <1>5, <1>6, <1>20, PopKept, Zenon
  <2>2. QED
    BY <1>7, <2>1, Zenon
<1>22. ASSUME NEW q \in Cores, NEW k \in 1..Depth(q)'
       PROVE  /\ k \in 1..Depth(q) /\ (q # p \/ k # n) /\ Frame(q, k)' = Frame(q, k)
              /\ (Waits(q, k)' <=> Waits(q, k)) /\ ShapeAt(q, k)' /\ AccessAt(q, k)'
  <2>1. Depth(q) \in Nat
    BY <1>5, FrameTypes, ZenonT(30)
  <2>2. /\ k \in 1..Depth(q) /\ (q # p \/ k # n) /\ (k > 1 => k - 1 \in 1..Depth(q)')
        /\ Frame(q, k)' = Frame(q, k) /\ (Waits(q, k)' <=> Waits(q, k))
    BY <1>1, <1>5, <1>21, <2>1, SMTT(30)
  <2>3. k > 1 => Frame(q, k - 1)' = Frame(q, k - 1)
    BY <1>21, <2>2, Zenon
  <2>4. ShapeAt(q, k)' /\ AccessAt(q, k)'
    <3>1. n \in 1..Depth(p) /\ t.pc = "down" /\ n > 1
      BY <1>5, <1>6, Zenon
    <3>2. QED
      BY ONLY CoherenceInv, p \in Cores, q \in Cores, <1>1, <1>2, <1>3, <1>19, <2>2,
         <2>3, <3>1, InvalOthers, SMTT(30)
  <2>5. QED
    BY <2>2, <2>4, Zenon
<1>23. Types' /\ Shape' /\ Accesses'
  BY <1>18, <1>20, <1>22, Zenon DEF Types, DataTypes, Stacks, Shape, Accesses
<1>24. Order'
  BY <1>1, <1>5, <1>20, OrderPop, Zenon DEF CoherenceInv
<1>25. Locks'
  <2>1. SUFFICES ASSUME NEW q \in Cores, NEW k \in 1..Depth(q)'
                 PROVE  LockAt(q, k)'
    BY Zenon DEF Locks
  <2>2. k \in 1..Depth(q) /\ (q # p \/ k # n) /\ Frame(q, k)' = Frame(q, k)
        /\ (Holds(q, k)' => Holds(q, k))
    BY <1>22, Zenon DEF Holds
  <2>3. n \in 1..Depth(p) /\ Holds(p, n) /\ UNCHANGED tcc
    BY <1>5, <1>12, Zenon
  <2>4. QED
    BY <1>1, <1>2, <1>16, <2>2, <2>3, LockOthers, ZenonT(30) DEF LocksLeft
<1>26. Arrays' /\ Listed' /\ Inclusive' /\ Alone'
  <2>1. \A y : ~ Upgrades(y, t.cache, t.way)
    BY <1>2, <1>5, HolderUpgrade, Zenon
  <2>2. ASSUME NEW q \in Cores, NEW k \in 1..Depth(q),
               Frame(q, k).pc = "grant", ~ Waits(q, k)
        PROVE  k \in 1..Depth(q)' /\ Frame(q, k)' = Frame(q, k) /\ ~ Waits(q, k)'
    <3>1. q # p \/ k # n
      BY <1>2, <1>5, <2>2, ZenonT(30)
    <3>2. k \in 1..Depth(q)'
      BY ONLY <1>1, <1>5, <1>21, <3>1, FrameTypes
    <3>3. QED
      BY <1>22, <2>2, <3>2, Zenon
  <2>3. \A y, a, i : Upgrades(y, a, i) => Upgrades(y, a, i)'
    BY <2>2 DEF Upgrades
  <2>4. /\ t.cache \in Caches /\ t.way \in 1..Ways[t.cache] /\ h.cache \in Caches
        /\ h.way \in 1..Ways[h.cache]
    BY <1>5, <1>7, <1>8, Zenon
  <2>5. QED
    BY ONLY CoherenceInv, <1>19, <2>1, <2>3, <2>4, LoseLine, ZenonT(30)
<1>27. ASSUME NEW a \in Caches, NEW i \in 1..Ways[a]
       PROVE  /\ a # t.cache => mesi'[a][i] = mesi[a][i]
              /\ mesi'[a][i] \in Exclusive => mesi[a][i] \in Exclusive
  BY <1>13, <1>18, ZenonT(30) DEF Exclusive
<1>28. ASSUME NEW q \in Cores, q # p
       PROVE  RecallAt(q)'
  <2>1. /\ wback'[q] = wback[q] /\ Depth(q)' = Depth(q)
        /\ \A k \in 1..Depth(q) :
             Frame(q, k)' = Frame(q, k) /\ (Waits(q, k)' <=> Waits(q, k))
    BY <1>17, <1>21, <1>28, Zenon
  <2>2. Elsewhere(t, n)
    BY <1>12, <1>27, Zenon DEF Elsewhere
  <2>3. FewExclusive(t)
    BY <1>12, <1>27, Zenon DEF FewExclusive
  <2>4. n \in 1..Depth(p) /\ Holds(p, n)
    BY <1>5, Zenon
  <2>5. QED
    BY ONLY CoherenceInv, p \in Cores, <1>1, <1>2, <1>28, <2>1, <2>2, <2>3, <2>4,
       RecallOthers, Zenon
<1>29. RecallAt(p)'
  <2>1. Depth(p)' = n - 1 /\ Depth(p)' > 0
    BY <1>5, <1>6, <1>21
  <2>2. ASSUME NEW k \in 1..n - 1, IsBase(p, k)'
        PROVE  LET f == Frame(p, k)
               IN /\ Frame(p, k)' = f
                  /\ wback'[p] => f.pc \in {"evict", "grant"}
                                  /\ mesi'[f.cache][f.way] \in Exclusive
                  /\ \A j \in k + 1 .. n - 1 :
                       LET g == Frame(p, j)
                       IN /\ Frame(p, j)' = g /\ g.line = tag'[f.cache][f.way]
                          /\ \A w \in 1..Ways[g.cache] :
                               tag'[g.cache][w] = g.line /\ mesi'[g.cache][w] \in Exclusive
                               => mesi'[f.cache][f.way] \in Exclusive
    <3>1. PICK f : f = Frame(p, k)
      BY SMTT(30)
    <3>2. /\ k \in 1..Depth(p)' /\ k \in 1..Depth(p) /\ Frame(p, k)' = f /\ k < Depth(p)
          /\ IsBase(p, k) /\ IsCall(f) /\ k \in Nat
      BY <1>1, <1>5, <1>22, <2>1, <2>2, <3>1, SMTT(30) DEF IsBase, IsCall
    <3>3. /\ f.cache \in Caches /\ f.way \in 1..Ways[f.cache]
          /\ \A j \in k + 1 .. Depth(p) :
               j \in 1..Depth(p) /\ ~ IsCall(Frame(p, j)) /\ Frame(p, j).cache \in Caches
      BY <3>1, <3>2, BaseWays, ZenonT(30)
    <3>4. f.cache # t.cache
      <4>1. k \in 1..Depth(p) /\ k < n /\ n \in 1..Depth(p) /\ Order
        BY <1>1, <1>5, <3>2, Zenon DEF CoherenceInv
      <4>2. ~ IsCall(Frame(p, n)) /\ IsBase(p, k)
        BY <1>2, <1>5, <3>2, Zenon
      <4>3. Rank[Frame(p, k).cache] < Rank[Frame(p, n).cache]
        BY <4>1, <4>2, Zenon DEF Order
      <4>4. Rank[f.cache] < Rank[t.cache] /\ Rank[f.cache] \in Nat
        BY <1>2, <3>1, <3>3, <4>3, RankFalls, ZenonT(30)
      <4>5. QED
        BY <4>4
    <3>5. mesi'[f.cache][f.way] = mesi[f.cache][f.way] /\ UNCHANGED tag
      BY <1>12, <1>27, <3>3, <3>4, Zenon
    <3>6. f.pc \in {"evict", "grant"}
      <4>1. PICK m : m = k + 1
        BY ZenonT(60)
      <4>2. m \in 1..Depth(p) /\ m > 1 /\ m - 1 = k /\ ~ IsCall(Frame(p, m))
        BY <1>1, <1>5, <3>2, <3>3, <4>1, SMTT(30)
      <4>3. Tells(Frame(p, m), f)
        BY <1>5, <3>1, <4>2, CallerOf, InvParts, ZenonT(30)
      <4>4. QED
        BY <3>2, <4>3, Zenon DEF Tells, IsCall
    <3>7. RecallAt(p)
      BY Zenon DEF CoherenceInv, Recalls
    <3>8. ASSUME NEW j \in k + 1 .. Depth(p)
          PROVE  /\ Frame(p, j).line = tag[f.cache][f.way]
                 /\ \A w \in 1..Ways[Frame(p, j).cache] :
                      /\ tag[Frame(p, j).cache][w] = Frame(p, j).line
                      /\ mesi[Frame(p, j).cache][w] \in Exclusive
                      => mesi[f.cache][f.way] \in Exclusive
      BY <3>1, <3>2, <3>7, Zenon DEF RecallAt
    <3>9. wback'[p] => mesi[f.cache][f.way] \in Exclusive
      <4>1. wback[p] => mesi[f.cache][f.way] \in Exclusive
        BY <3>1, <3>2, <3>7, ZenonT(30) DEF RecallAt
      <4>2. n \in k + 1 .. Depth(p)
        BY <1>1, <1>5, <3>2, SMTT(30)
      <4>3. mesi[t.cache][t.way] = "M" => mesi[f.cache][f.way] \in Exclusive
        BY <1>2, <1>8, <3>8, <4>2, Zenon DEF Exclusive
      <4>4. QED
        BY <1>17, <4>1, <4>3, Zenon
    <3>10. ASSUME NEW j \in k + 1 .. n - 1
           PROVE  LET g == Frame(p, j)
                  IN /\ Frame(p, j)' = g /\ g.line = tag'[f.cache][f.way]
                     /\ \A w \in 1..Ways[g.cache] :
                          tag'[g.cache][w] = g.line /\ mesi'[g.cache][w] \in Exclusive
                          => mesi'[f.cache][f.way] \in Exclusive
      <4>1. j \in k + 1 .. Depth(p) /\ j \in 1..Depth(p)'
        BY <1>1, <1>5, <2>1, <3>2, SMTT(30)
      <4>2. Frame(p, j)' = Frame(p, j) /\ Frame(p, j).cache \in Caches
        BY <1>22, <3>3, <4>1, ZenonT(30)
      <4>3. QED
        BY <1>27, <3>5, <3>8, <4>1, <4>2, ZenonT(30)
    <3>11. QED
      BY <3>1, <3>2, <3>5, <3>6, <3>9, <3>10, Zenon
  <2>3. QED
    BY <2>1, <2>2, ZenonT(60) DEF RecallAt
<1>30. QED
  BY <1>23, <1>24, <1>25, <1>26, <1>28, <1>29, Zenon DEF CoherenceInv, Recalls
=============================================================================
