--------------------------- MODULE CoherenceSteps ---------------------------
(***************************************************************************)
(* The invariant is kept by the steps that change lines and directories on *)
(* the way of an access: evicting, fetching and revoking.                  *)
(***************************************************************************)
EXTENDS CoherenceFacts

\* What p recalls while its access `call` has the invalidation `inner` out.
Recalling(p, call, inner) ==
    /\ wback'[p] => /\ call.pc \in {"evict", "grant"}
                    /\ mesi'[call.cache][call.way] \in Exclusive
    /\ inner.line = tag'[call.cache][call.way]
    /\ \A w \in 1..Ways[inner.cache] :
         tag'[inner.cache][w] = inner.line /\ mesi'[inner.cache][w] \in Exclusive
         => mesi'[call.cache][call.way] \in Exclusive

\* An access at `t` goes on as `call`, which sends a request up or an
\* invalidation down.
LEMMA AccessPush ==
    ASSUME CoherenceInv, NEW p \in Cores, NEW n \in 1..Depth(p), n = Depth(p),
           NEW t, t = Frame(p, n), t.pc \in Under, NEW h, h = Frame(p, n - 1),
           NEW call \in Calls, call.pc \in Under, call.cache = t.cache,
           NEW inner \in Calls \cup Invs, inner.pc \in {"tcc", "inv"},
           stack[p] # <<>>, Push(p, call, inner), DataTypes',
           Local(t, n), LocksLeft(t), FewExclusive(t),
           \A q \in Cores : q # p => wback'[q] = wback[q],
           tcc'[t.cache] = tcc[t.cache],
           n = 1 => Outermost(p, call), n > 1 => Asks(call, h)' /\ Asked(call)',
           Progress(call, n, IsCall(inner))',
           t.pc = "grant" => call = t /\ ~ IsCall(inner), inner.cache \in Caches,
           IsCall(inner) => /\ Rank[inner.cache] < Rank[t.cache]
                            /\ Asks(inner, call)' /\ Asked(inner)' /\ ~ wback'[p],
           ~ IsCall(inner) => /\ Rank[t.cache] < Rank[inner.cache]
                              /\ Tells(inner, call)' /\ Recalling(p, call, inner)
                              /\ bcc'[t.cache] = p
    PROVE  /\ Types' /\ Shape' /\ Order' /\ Locks' /\ Accesses' /\ Recalls'
           /\ \A c, d, v : Upgrades(c, d, v) => Upgrades(c, d, v)'
<1>1. Stacks /\ Shape /\ Order /\ Locks /\ Accesses
  BY InvParts, Zenon
<1>2. /\ n \in Nat \ {0} /\ ~ Waits(p, n) /\ Holds(p, n) /\ IsCall(t) /\ IsCall(call)
      /\ IsBase(p, n) /\ LockAt(p, n)
  <2>1. n \in Nat \ {0} /\ ~ Waits(p, n)
    BY <1>1, FrameTypes DEF Waits
  <2>2. QED
    BY <1>1, <2>1, Zenon DEF Holds, Under, IsCall, IsBase, Locks
<1>3. Stacks' /\ StackPush(p, call, inner)
  BY <1>1, PushFrames, Zenon
<1>4. /\ KeptFrames(p)
      /\ \A q \in Cores : Depth(q)' = IF q = p THEN n + 1 ELSE Depth(q)
      /\ Frame(p, n)' = call /\ (Waits(p, n)' <=> IsCall(inner))
      /\ Frame(p, n + 1)' = inner /\ ~ Waits(p, n + 1)'
  BY <1>1, <1>2, <1>3, PushKept
<1>5. Types'
  BY <1>3, Zenon DEF Types, DataTypes, Stacks
<1>6. ASSUME NEW q \in Cores, NEW k \in 1..Depth(q)
      PROVE  k > 1 => k - 1 \in 1..Depth(q) /\ Frame(q, k - 1)' = Frame(q, k - 1)
  <2>1. HAVE k > 1
  <2>2. k - 1 \in 1..Depth(q) /\ (q # p \/ k - 1 # n)
    BY <1>1, <2>1, FrameTypes
  <2>3. QED
    BY <1>4, <2>2, Zenon DEF KeptFrames
<1>7. ASSUME NEW q \in Cores, NEW k \in 1..Depth(q), q # p \/ k # n
      PROVE  Frame(q, k)' = Frame(q, k) /\ (Waits(q, k)' <=> Waits(q, k))
  BY <1>4, <1>7, Zenon DEF KeptFrames
<1>8. ASSUME NEW q \in Cores, NEW k \in 1..Depth(q), q # p \/ k # n
      PROVE  ShapeAt(q, k)' /\ AccessAt(q, k)'
  BY <1>6, <1>7, <1>8, AccessOthers, SMTT(30) DEF Local
<1>9. \A q \in Cores : \A k \in 1..Depth(q)' :
        \/ k \in 1..Depth(q) /\ (q # p \/ k # n)
        \/ q = p /\ k = n
        \/ q = p /\ k = n + 1
  <2>1. \A q \in Cores : Depth(q) \in Nat
    BY <1>1, FrameTypes, Zenon
  <2>2. QED
    BY <1>2, <1>4, <2>1
<1>10. ShapeAt(p, n)'
  <2>1. call.pc # "panic"
    BY Zenon DEF Under
  <2>2. n = 1 => Outermost(p, Frame(p, n))'
    BY <1>4, Zenon DEF Outermost
  <2>3. n > 1 => Asks(Frame(p, n), Frame(p, n - 1))'
    <3>1. HAVE n > 1
    <3>2. Frame(p, n - 1)' = h
      BY <1>6, <3>1, Zenon
    <3>3. Asks(call, h)'
      BY <3>1, Zenon
    <3>4. QED
      BY <1>4, <3>2, <3>3, ZenonT(60) DEF Asks, Absent, IsCall, AfterFetch
  <2>4. QED
    BY <1>2, <1>4, <2>1, <2>2, <2>3, Zenon DEF ShapeAt, IsCall
<1>11. AccessAt(p, n)'
  <2>1. Progress(Frame(p, n), n, Waits(p, n))'
    <3>1. CASE IsCall(inner)
      BY <1>4, <3>1, Zenon DEF Progress, Absent, IsCall
    <3>2. CASE ~ IsCall(inner)
      BY <1>4, <3>2, Zenon DEF Progress, Absent, IsCall
    <3>3. QED
      BY <3>1, <3>2, Zenon
  <2>2. n > 1 => Asked(Frame(p, n))'
    BY <1>4, SMTT(40) DEF Asked
  <2>3. QED
    BY <2>1, <2>2, Zenon DEF AccessAt
<1>12. LockAt(p, n)'
  BY <1>2, <1>4, Zenon DEF LockAt, Holds, Under
<1>13. PICK m : m = n + 1
  BY Zenon
<1>14. /\ m > 1 /\ m # 1 /\ m - 1 = n /\ Frame(p, m)' = inner /\ Frame(p, m - 1)' = call
       /\ ~ Waits(p, m)'
  BY <1>2, <1>4, <1>13
<1>15. ShapeAt(p, m)'
  <2>1. inner.pc # "panic"
    OBVIOUS
  <2>2. IsCall(inner) => Asks(Frame(p, m), Frame(p, m - 1))'
    BY <1>14, Zenon DEF Asks, Absent, IsCall, AfterFetch
  <2>3. ~ IsCall(inner) => Tells(Frame(p, m), Frame(p, m - 1))'
    BY <1>14, Zenon DEF Tells
  <2>4. QED
    BY <1>14, <2>1, <2>2, <2>3, ZenonT(30) DEF ShapeAt, IsCall
<1>16. AccessAt(p, m)' /\ LockAt(p, m)'
  <2>1. Progress(Frame(p, m), m, Waits(p, m))'
    BY <1>14, Zenon DEF Progress, Under
  <2>2. IsCall(inner) => Asked(Frame(p, m))'
    BY <1>14, ZenonT(60) DEF Asked
  <2>3. LockAt(p, m)'
    BY <1>14, Zenon DEF LockAt, Holds, Under
  <2>4. QED
    BY <1>14, <2>1, <2>2, <2>3, Zenon DEF AccessAt, IsCall
<1>17. Shape'
  BY <1>8, <1>9, <1>10, <1>13, <1>15, Zenon DEF Shape
<1>18. Accesses'
  BY <1>8, <1>9, <1>11, <1>13, <1>16, Zenon DEF Accesses
<1>19. Order'
  BY <1>1, <1>2, <1>3, OrderPush, ZenonT(30)
<1>20. Locks'
  <2>1. SUFFICES ASSUME NEW q \in Cores, NEW k \in 1..Depth(q), q # p \/ k # n
                 PROVE  LockAt(q, k)'
    BY <1>9, <1>12, <1>13, <1>16, Zenon DEF Locks
  <2>2. Frame(q, k)' = Frame(q, k) /\ (Holds(q, k)' => Holds(q, k))
    BY <1>7, <2>1, Zenon DEF Holds
  <2>3. Holds(p, n)
    BY <1>2, Zenon
  <2>4. QED
    BY <2>1, <2>2, <2>3, LockOthers, SMTT(30) DEF LocksLeft
<1>21. Recalls'
  <2>1. SUFFICES ASSUME NEW q \in Cores
                 PROVE  RecallAt(q)'
    BY ZenonT(30) DEF Recalls
  <2>2. CASE q # p
    <3>1. /\ \A k \in 1..Depth(q) :
               Frame(q, k)' = Frame(q, k) /\ (Waits(q, k)' <=> Waits(q, k))
          /\ Depth(q)' = Depth(q) /\ wback'[q] = wback[q]
      BY <1>4, <1>7, <2>2, Zenon
    <3>2. Holds(p, n)
      BY <1>2, Zenon
    <3>3. Elsewhere(t, n)
      BY ONLY Local(t, n), t.pc \in Under, Zenon DEF Local, Elsewhere
    <3>4. QED
      BY <2>2, <3>1, <3>2, <3>3, RecallOthers, Zenon
  <2>3. CASE q = p
    <3>1. \A k \in 1..n + 1 : IsBase(p, k)' => k = IF IsCall(inner) THEN n + 1 ELSE n
      <4>1. SUFFICES ASSUME NEW k \in 1..n + 1, IsBase(p, k)'
                     PROVE  k = IF IsCall(inner) THEN n + 1 ELSE n
        OBVIOUS
      <4>2. CASE k = n + 1
        BY <1>4, <4>1, <4>2, Zenon DEF IsBase, IsCall
      <4>3. CASE k = n
        BY <1>4, <4>1, <4>3, Zenon DEF IsBase, IsCall
      <4>4. CASE k # n + 1 /\ k # n
        <5>1. k \in 1..Depth(p)
          BY <1>2, <4>4
        <5>2. IsBase(p, k)
          BY <1>7, <4>1, <4>4, <5>1, ZenonT(30) DEF IsBase, IsCall
        <5>3. QED
          BY <1>1, <1>2, <4>4, <5>1, <5>2, OneBase, ZenonT(30)
      <4>5. QED
        BY <4>2, <4>3, <4>4, Zenon
    <3>2. Depth(p)' = n + 1 /\ Depth(p)' > 0
      BY <1>2, <1>4
    <3>3. CASE IsCall(inner)
      <4>1. (n + 1) + 1 .. n + 1 = {} /\ ~ wback'[p]
        BY <1>2, <3>3, SMTT(30)
      <4>2. QED
        BY <2>3, <3>1, <3>2, <3>3, <4>1, ZenonT(30) DEF RecallAt
    <3>4. CASE ~ IsCall(inner)
      <4>1. n + 1 .. n + 1 = {n + 1}
        BY <1>2
      <4>2. Recalling(p, call, inner)
        BY <3>4, Zenon
      <4>3. QED
        BY <1>4, <2>3, <3>1, <3>2, <3>4, <4>1, <4>2, SMTT(30) DEF RecallAt, Recalling
    <3>5. QED
      BY <3>3, <3>4, Zenon
  <2>4. QED
    BY <2>2, <2>3, Zenon
<1>22. \A c, d, v : Upgrades(c, d, v) => Upgrades(c, d, v)'
  <2>1. \A q \in Cores : 1..Depth(q) \subseteq 1..Depth(q)'
    <3>1. ASSUME NEW q \in Cores
          PROVE  1..Depth(q) \subseteq 1..Depth(q)'
      <4>1. CASE q = p
        <5>1. Depth(q)' = n + 1 /\ Depth(q) = n
          BY <1>4, <4>1, Zenon
        <5>2. QED
          BY <1>2, <5>1, SMTT(40)
      <4>2. CASE q # p
        BY <1>4, <4>2, Zenon
      <4>3. QED
        BY <4>1, <4>2, ZenonT(30)
    <3>2. QED
      BY <3>1, Zenon
  <2>2. n > 0 /\ Frame(p, n).pc = "grant" => Frame(p, n)' = Frame(p, n) /\ ~ Waits(p, n)'
    BY <1>4, Zenon
  <2>3. n \in Nat
    BY <1>2, Zenon
  <2>4. QED
    BY <1>1, <1>4, <2>1, <2>2, <2>3, UpgradesKept, Zenon
<1>23. QED
  BY <1>5, <1>17, <1>18, <1>19, <1>20, <1>21, <1>22, Zenon

\* What a GET finds of the child's line until it is granted.
LEMMA AskedOn ==
    ASSUME CoherenceInv, NEW p \in Cores, NEW n \in 1..Depth(p), n > 1,
           NEW t, t = Frame(p, n), IsCall(t), t.type \in Gets, t.pc # "end",
           NEW call, SameCall(call, t), call.type = t.type, call.pc # "end",
           mesi'[t.from][t.slot] = mesi[t.from][t.slot]
    PROVE  Asked(call)'
<1>1. Asked(t)
  BY InvParts, Zenon DEF Accesses, AccessAt
<1>2. QED
  BY <1>1, Zenon DEF Asked, SameCall, Gets, Puts

\* The line of way w of c goes back to memory.
LEMMA DropLine ==
    ASSUME CoherenceInv, NEW c \in Caches, NEW w \in 1..Ways[c],
           dir[c][w].sharers = {}, \A x : ~ Upgrades(x, c, w),
           tag[c][w] \in Lines, Parent[c][tag[c][w]] = Mem, UNCHANGED <<tag, dir>>,
           \A d \in Caches : \A v \in 1..Ways[d] :
             mesi'[d][v] = IF d = c /\ v = w THEN "I" ELSE mesi[d][v],
           \A x, d, v : Upgrades(x, d, v) => Upgrades(x, d, v)'
    PROVE  Arrays' /\ Listed' /\ Inclusive' /\ Alone'
<1>1. Arrays'
  BY DEF CoherenceInv, Arrays
<1>2. Listed'
  <2>1. SUFFICES ASSUME NEW d \in Caches, NEW v \in 1..Ways[d],
                        NEW x \in dir[d][v].sharers
                 PROVE  /\ tag[d][v] # None /\ Parent[x][tag[d][v]] = d
                        /\ \E u \in 1..Ways[x] : tag[x][u] = tag[d][v] /\ mesi'[x][u] # "I"
    BY SMTT(30) DEF Listed
  <2>2. x \in Caches /\ tag[d][v] # None /\ Parent[x][tag[d][v]] = d
    BY ListedCopy, SMTT(30) DEF CoherenceInv, Listed
  <2>3. PICK u \in 1..Ways[x] : tag[x][u] = tag[d][v] /\ mesi[x][u] # "I"
    BY DEF CoherenceInv, Listed
  <2>4. ~ (x = c /\ u = w)
    BY <2>2, <2>3, CoherenceAssumption
  <2>5. QED
    BY <2>2, <2>3, <2>4, Zenon
<1>3. Inclusive'
  <2>1. SUFFICES ASSUME NEW x \in Caches, NEW u \in 1..Ways[x],
                        mesi'[x][u] # "I", Parent[x][tag[x][u]] # Mem
                 PROVE  \E v \in 1..Ways[Parent[x][tag[x][u]]] :
                          Covers(Parent[x][tag[x][u]], v, x, u)'
    BY Zenon DEF Inclusive
  <2>2. PICK d : d = Parent[x][tag[x][u]]
    OBVIOUS
  <2>3. mesi[x][u] # "I" /\ mesi'[x][u] = mesi[x][u]
    BY <2>1, Zenon
  <2>4. d \in Caches
    BY <2>1, <2>2, <2>3, TreeFacts, SMTT(30) DEF CoherenceInv, Types, Arrays
  <2>5. PICK v \in 1..Ways[d] : Covers(d, v, x, u)
    BY <2>1, <2>2, <2>3, Zenon DEF CoherenceInv, Inclusive
  <2>6. ~ (d = c /\ v = w)
    BY <2>5, Zenon DEF Covers
  <2>7. mesi'[d][v] = mesi[d][v]
    BY <2>4, <2>6, Zenon
  <2>8. Covers(d, v, x, u)'
    BY <2>3, <2>5, <2>7, Zenon DEF Covers
  <2>9. QED
    BY <2>2, <2>8, Zenon
<1>4. Alone'
  BY DEF CoherenceInv, Alone, Exclusive
<1>5. QED
  BY <1>1, <1>2, <1>3, <1>4, Zenon

\* The types of the data, when one line's state or nothing changes.
LEMMA SetState ==
    ASSUME CoherenceInv, NEW c \in Caches, NEW w \in 1..Ways[c], NEW x \in MESI,
           SetsWay(mesi', mesi, c, w, x), UNCHANGED <<tag, dir>>,
           bcc' \in [Caches -> Cores \cup {None}], tcc' \in [Caches -> Cores \cup {None}],
           wback' \in [Cores -> BOOLEAN]
    PROVE  /\ DataTypes'
           /\ \A d \in Caches : \A v \in 1..Ways[d] :
                mesi'[d][v] = IF d = c /\ v = w THEN x ELSE mesi[d][v]
<1>1. Types
  BY Zenon DEF CoherenceInv
<1>2. /\ Table(mesi')
      /\ \A d \in Caches : \A v \in 1..Ways[d] :
           mesi'[d][v] = IF d = c /\ v = w THEN x ELSE mesi[d][v]
  <2>1. Table(mesi)
    BY <1>1, Zenon DEF Types
  <2>2. QED
    BY <2>1, TableUpdate
<1>3. Table(tag)' /\ Table(dir)' /\ Table(mesi)'
  BY <1>1, <1>2, Zenon DEF Types, Table
<1>4. \A d \in Caches : \A v \in 1..Ways[d] :
        tag'[d][v] \in Lines \cup {None} /\ mesi'[d][v] \in MESI /\ dir'[d][v] \in Entries
  BY <1>1, <1>2, ZenonT(30) DEF Types
<1>5. QED
  BY <1>2, <1>3, <1>4, Zenon DEF DataTypes

\* A step that changes no line satisfies what is asked of those that do.
LEMMA SameData ==
    ASSUME CoherenceInv, UNCHANGED <<tag, mesi, dir>>,
           bcc' \in [Caches -> Cores \cup {None}], tcc' \in [Caches -> Cores \cup {None}],
           wback' \in [Cores -> BOOLEAN], NEW t, NEW n
    PROVE  DataTypes' /\ Local(t, n) /\ FewExclusive(t)
<1>1. Types
  BY Zenon DEF CoherenceInv
<1>2. Table(tag)' /\ Table(dir)' /\ Table(mesi)'
  BY <1>1, Zenon DEF Types, Table
<1>3. DataTypes'
  BY <1>1, <1>2, Zenon DEF Types, DataTypes
<1>4. QED
  BY <1>3, Zenon DEF Local, FewExclusive

\* MESIBottomCC::processEviction: a clean or modified victim leaves, and the
\* way is kept for the line that is coming.
LEMMA EvictKeeps ==
    ASSUME CoherenceInv, NEW p \in Cores, Evict(p)
    PROVE  CoherenceInv'
<1>1. PICK n : n = Depth(p)
  OBVIOUS
<1>2. PICK t : t = Frame(p, n)
  OBVIOUS
<1>3. PICK h : h = Frame(p, n - 1)
  OBVIOUS
<1>4. PICK s : s = IF wback[p] THEN "M" ELSE mesi[t.cache][t.way]
  OBVIOUS
<1>5. PICK l : l = tag[t.cache][t.way]
  OBVIOUS
<1>6. PICK call : call = [t EXCEPT !.pc = "fetch"]
  BY Zenon
<1>7. InCall(p, "evict")
  BY Zenon DEF Evict
<1>8. /\ stack[p] # <<>> /\ n \in 1..Depth(p) /\ t = Call(p) /\ t.pc = "evict"
      /\ t.cache \in Caches /\ IsCall(t) /\ t \in Calls /\ IsBase(p, n) /\ Holds(p, n)
      /\ ~ Waits(p, n) /\ AccessAt(p, n) /\ t.pc \in Under
  BY <1>1, <1>2, <1>7, Top DEF Under
<1>9. /\ dir[t.cache][t.way].sharers = {} /\ UNCHANGED <<tag, dir, tcc>>
      /\ wback' = [wback EXCEPT ![p] = FALSE]
      /\ IF s = "I" THEN Goto(p, call) /\ UNCHANGED <<mesi, bcc, dirty>>
         ELSE GoUp(p, t, "fetch", l, t.way, IF s = "M" THEN "PUTX" ELSE "PUTS", {}, s)
  BY <1>4, <1>5, <1>6, <1>8, Zenon DEF Evict
<1>10. /\ call \in Calls /\ SameCall(call, t) /\ call.pc = "fetch" /\ call.pc \in Under
       /\ call.cache = t.cache /\ call.way = t.way /\ call.type = t.type
       /\ call.line = t.line /\ IsCall(call)
  BY <1>6, <1>8, Zenon DEF Calls, IsCall, SameCall, Under
<1>11. t.way \in 1..Ways[t.cache] /\ t.type \in Gets /\ Absent(t.cache, t.line)
  BY <1>2, <1>8, Zenon DEF AccessAt, Progress
<1>12. /\ wback' \in [Cores -> BOOLEAN] /\ ~ wback'[p]
       /\ \A q \in Cores : q # p => wback'[q] = wback[q]
  BY <1>9, Zenon DEF CoherenceInv, Types
<1>13. /\ mesi[t.cache][t.way] \in MESI
       /\ wback[p] => mesi[t.cache][t.way] \in Exclusive
  BY <1>2, <1>8, <1>11, Zenon DEF CoherenceInv, Types, Recalls, RecallAt
<1>14. /\ s \in MESI /\ (s = "I" => mesi[t.cache][t.way] = "I")
       /\ (s # "I" => mesi[t.cache][t.way] # "I")
       /\ (s # mesi[t.cache][t.way] => mesi[t.cache][t.way] \in Exclusive /\ s = "M")
  BY <1>4, <1>13, Zenon DEF MESI, Exclusive
<1>15. \A x : ~ Upgrades(x, t.cache, t.way)
  BY <1>2, <1>8, OwnUpgrade, Zenon
<1>16. ASSUME n > 1
       PROVE  t.from \in Caches /\ t.slot \in 1..Ways[t.from] /\ t.from # t.cache
  <2>1. n \in 1..Depth(p) /\ IsCall(t)
    BY <1>8, Zenon
  <2>2. QED
    BY <1>2, <1>3, <1>16, <2>1, Caller, SMTT(30)
<1>17. CASE s = "I"
  <2>1. Goto(p, call) /\ UNCHANGED <<tag, dir, tcc, mesi, bcc>>
    BY <1>9, <1>17, Zenon
  <2>2. /\ bcc' \in [Caches -> Cores \cup {None}] /\ tcc' \in [Caches -> Cores \cup {None}]
        /\ LocksLeft(t)
    BY <1>8, <2>1, FreeBcc, Zenon
  <2>3. DataTypes' /\ Local(t, n) /\ FewExclusive(t)
    BY <1>12, <2>1, <2>2, SameData, Zenon
  <2>4. (n = 1 => Outermost(p, call)) /\ (n > 1 => Asks(call, h)')
    BY <1>2, <1>3, <1>8, <1>10, <2>3, AsksOn, Zenon
  <2>5. n > 1 => Asked(call)'
    BY <1>2, <1>8, <1>10, <1>11, <2>1, AskedOn, Zenon
  <2>6. Progress(call, n, FALSE)'
    <3>1. MustFetch(t.type, "I") /\ t.type \notin Puts
      BY <1>11, Zenon DEF MustFetch, Gets, Puts
    <3>2. QED
      BY <1>9, <1>10, <1>11, <1>14, <1>17, <2>1, <3>1, Zenon DEF Progress, Absent
  <2>7. tcc'[t.cache] = tcc[t.cache] /\ bcc'[t.cache] = p
    BY <1>2, <1>8, <2>1, InvParts, Zenon DEF Locks, LockAt
  <2>8. /\ Types' /\ Shape' /\ Order' /\ Locks' /\ Accesses' /\ Recalls'
        /\ \A c, d, v : Upgrades(c, d, v) =>
             \/ Upgrades(c, d, v)'
             \/ t.pc = "grant" /\ c = t.from /\ d = t.cache /\ v = t.way
    BY ONLY CoherenceInv, p \in Cores, <1>1, <1>2, <1>3, <1>8, <1>10, <1>12, <2>1, <2>2,
       <2>3, <2>4, <2>5, <2>6, <2>7, AccessGoto, ZenonT(30)
  <2>9. Arrays' /\ Listed' /\ Inclusive' /\ Alone'
    <3>1. \A c, d, v : Upgrades(c, d, v) => Upgrades(c, d, v)'
      BY <1>8, <2>8, Zenon
    <3>2. Alike(p)
      BY <2>1, SameStates, Zenon
    <3>3. QED
      BY <2>1, <3>1, <3>2, QuietData, Zenon
  <2>10. QED
    BY <2>8, <2>9, Zenon DEF CoherenceInv
<1>18. CASE s # "I" /\ Parent[t.cache][l] = Mem
  <2>1. /\ Goto(p, call) /\ UNCHANGED <<tag, dir, tcc, bcc>>
        /\ SetsWay(mesi', mesi, t.cache, t.way, "I")
    <3>1. [t EXCEPT !.pc = "fetch", !.way = t.way] = call
      BY <1>6, <1>8, Zenon DEF Calls
    <3>2. \A type \in {"PUTX", "PUTS"} : MemGrants(type, {}) = "I"
      BY Zenon DEF MemGrants, Puts
    <3>3. QED
      BY <1>9, <1>18, <3>1, <3>2, Zenon DEF GoUp, SetsWay
  <2>2. /\ bcc' \in [Caches -> Cores \cup {None}] /\ tcc' \in [Caches -> Cores \cup {None}]
        /\ LocksLeft(t)
    BY <1>8, <2>1, FreeBcc, ZenonT(30)
  <2>3. /\ DataTypes'
        /\ \A d \in Caches : \A v \in 1..Ways[d] :
             mesi'[d][v] = IF d = t.cache /\ v = t.way THEN "I" ELSE mesi[d][v]
    BY <1>8, <1>11, <1>12, <2>1, <2>2, SetState, SMTT(30) DEF MESI
  <2>4. Local(t, n) /\ FewExclusive(t)
    BY <2>1, <2>3, Zenon DEF Local, FewExclusive, Exclusive
  <2>5. (n = 1 => Outermost(p, call)) /\ (n > 1 => Asks(call, h)')
    BY <1>2, <1>3, <1>8, <1>10, <2>4, AsksOn, Zenon
  <2>6. n > 1 => Asked(call)'
    BY <1>2, <1>8, <1>10, <1>11, <1>16, <2>3, AskedOn, ZenonT(30)
  <2>7. Progress(call, n, FALSE)'
    <3>1. MustFetch(t.type, "I") /\ t.type \notin Puts
      BY <1>11, Zenon DEF MustFetch, Gets, Puts
    <3>2. mesi'[t.cache][t.way] = "I"
      BY <1>8, <1>11, <2>3, Zenon
    <3>3. QED
      BY <1>9, <1>10, <1>11, <2>1, <3>1, <3>2, Zenon DEF Progress, Absent
  <2>8. tcc'[t.cache] = tcc[t.cache] /\ bcc'[t.cache] = p
    BY <1>2, <1>8, <2>1, InvParts, Zenon DEF Locks, LockAt
  <2>9. /\ Types' /\ Shape' /\ Order' /\ Locks' /\ Accesses' /\ Recalls'
        /\ \A c, d, v : Upgrades(c, d, v) =>
             \/ Upgrades(c, d, v)'
             \/ t.pc = "grant" /\ c = t.from /\ d = t.cache /\ v = t.way
    BY ONLY CoherenceInv, p \in Cores, <1>1, <1>2, <1>3, <1>8, <1>10, <1>12, <2>1, <2>2,
       <2>3, <2>4, <2>5, <2>6, <2>7, <2>8, AccessGoto, ZenonT(30)
  <2>10. Arrays' /\ Listed' /\ Inclusive' /\ Alone'
    <3>1. \A c, d, v : Upgrades(c, d, v) => Upgrades(c, d, v)'
      BY <1>8, <2>9, Zenon
    <3>2. l \in Lines
      BY <1>5, <1>8, <1>11, <1>14, <1>18, Zenon DEF CoherenceInv, Types, Arrays
    <3>3. QED
      BY <1>5, <1>8, <1>9, <1>11, <1>15, <1>18, <2>1, <2>3, <3>1, <3>2, DropLine,
         ZenonT(30)
  <2>11. QED
    BY <2>9, <2>10, Zenon DEF CoherenceInv
<1>19. CASE s # "I" /\ Parent[t.cache][l] # Mem
  <2>1. PICK d : d = Parent[t.cache][l]
    OBVIOUS
  <2>2. l \in Lines
    BY <1>5, <1>8, <1>11, <1>14, <1>19, Zenon DEF CoherenceInv, Types, Arrays
  <2>3. d \in Caches /\ d \notin Terminals /\ Rank[d] < Rank[t.cache]
    BY <1>8, <1>19, <2>1, <2>2, RankFalls, TreeFacts, Zenon
  <2>4. PICK type : type = IF s = "M" THEN "PUTX" ELSE "PUTS"
    OBVIOUS
  <2>5. PICK inner : inner = Request(d, l, type, {}, t.cache, t.way, s, None)
    OBVIOUS
  <2>6. /\ inner.pc = "tcc" /\ inner.cache = d /\ inner.line = l /\ inner.type = type
        /\ inner.flags = {} /\ inner.from = t.cache /\ inner.slot = t.way
        /\ inner.init = s /\ inner.vline = None /\ IsCall(inner) /\ inner \in Calls
    <3>1. t.way \in Nat
      BY <1>8, <1>11, CoherenceAssumption, SMTT(30)
    <3>2. QED
      BY <1>8, <1>14, <2>2, <2>3, <2>4, <2>5, <3>1, ZenonT(30) DEF Request, Calls,
         IsCall, Puts
  <2>7. /\ Push(p, call, inner) /\ UNCHANGED <<tag, dir, tcc>> /\ FreesBcc(t.cache)
        /\ SetsWay(mesi', mesi, t.cache, t.way, s)
    <3>1. [t EXCEPT !.pc = "fetch", !.way = t.way] = call
      BY <1>6, <1>8, Zenon DEF Calls
    <3>2. QED
      BY <1>9, <1>19, <2>1, <2>4, <2>5, <3>1, Zenon DEF GoUp, SetsWay, FreesBcc
  <2>8. /\ bcc' \in [Caches -> Cores \cup {None}] /\ tcc' \in [Caches -> Cores \cup {None}]
        /\ LocksLeft(t)
    BY <1>8, <2>7, FreeBcc, ZenonT(30)
  <2>9. /\ DataTypes'
        /\ \A e \in Caches : \A v \in 1..Ways[e] :
             mesi'[e][v] = IF e = t.cache /\ v = t.way THEN s ELSE mesi[e][v]
    <3>1. t.cache \in Caches /\ t.way \in 1..Ways[t.cache] /\ s \in MESI
      BY <1>8, <1>11, <1>14, Zenon
    <3>2. UNCHANGED <<tag, dir>> /\ SetsWay(mesi', mesi, t.cache, t.way, s)
      BY <2>7, Zenon
    <3>3. QED
      BY <1>12, <2>8, <3>1, <3>2, SetState, SMTT(30)
  <2>10. Local(t, n) /\ FewExclusive(t) /\ mesi'[t.cache][t.way] = s
    BY <1>8, <1>11, <1>14, <2>7, <2>9, Zenon DEF Local, FewExclusive, Exclusive
  <2>11. (n = 1 => Outermost(p, call)) /\ (n > 1 => Asks(call, h)')
    BY <1>2, <1>3, <1>8, <1>10, <2>10, AsksOn, Zenon
  <2>12. n > 1 => Asked(call)'
    BY <1>2, <1>8, <1>10, <1>11, <1>16, <2>9, AskedOn, ZenonT(30)
  <2>13. Progress(call, n, IsCall(inner))'
    <3>1. t.type \notin Puts
      BY <1>11, Zenon DEF Gets, Puts
    <3>2. QED
      BY <1>10, <1>11, <2>6, <3>1, Zenon DEF Progress, IsCall
  <2>14. Asks(inner, call)'
    <3>1. Absent(t.cache, t.line)'
      BY <1>11, <2>7, Zenon DEF Absent
    <3>2. inner.type \in Puts /\ inner.type \notin Gets
      BY <2>4, <2>6, Zenon DEF Gets, Puts
    <3>3. QED
      BY <1>5, <1>9, <1>10, <1>11, <2>1, <2>6, <2>7, <3>1, <3>2, ZenonT(30) DEF Asks,
         Absent
  <2>15. Asked(inner)'
    BY <1>14, <1>19, <2>4, <2>6, <2>10, Zenon DEF Asked, Pending, Puts, MESI
  <2>16. tcc'[t.cache] = tcc[t.cache]
    BY <2>7, Zenon
  <2>17. /\ Types' /\ Shape' /\ Order' /\ Locks' /\ Accesses' /\ Recalls'
         /\ \A c, e, v : Upgrades(c, e, v) => Upgrades(c, e, v)'
    BY ONLY CoherenceInv, p \in Cores, <1>1, <1>2, <1>3, <1>8, <1>10, <1>12, <2>3, <2>6,
       <2>7, <2>8, <2>9, <2>10, <2>11, <2>12, <2>13, <2>14, <2>15, <2>16, AccessPush,
       ZenonT(30)
  <2>18. Arrays' /\ Listed' /\ Inclusive' /\ Alone'
    <3>1. Alike(p)
      <4>1. Depth(p) > 0 /\ Frame(p, Depth(p)) = t
        BY <1>1, <1>2, <1>8, SMTT(30)
      <4>2. Table(mesi)'
        BY <2>9, Zenon DEF DataTypes
      <4>3. QED
        BY <1>8, <1>14, <2>9, <4>1, <4>2, ZenonT(30) DEF Alike
    <3>2. QED
      BY <2>7, <2>17, <3>1, QuietData, Zenon
  <2>19. QED
    BY <2>17, <2>18, Zenon DEF CoherenceInv
<1>20. QED
  BY <1>17, <1>18, <1>19, Zenon

\* Line l comes to way w of c: the way held l already, or a line that no cache
\* holds any more.  From memory it comes in a state that is better than before.
TakesLine(c, w, l, s) ==
    /\ \/ tag[c][w] = l
       \/ /\ Absent(c, l) /\ mesi[c][w] = "I" /\ dir[c][w].sharers = {}
          /\ \A x : ~ Upgrades(x, c, w)
    /\ \/ s = mesi[c][w] /\ Parent[c][l] # Mem
       \/ s # "I" /\ mesi[c][w] \in {"I", "S"} /\ Parent[c][l] = Mem /\ c = LLC(l)
    /\ UNCHANGED dir
    /\ \A d \in Caches : \A v \in 1..Ways[d] :
          /\ tag'[d][v] = IF d = c /\ v = w THEN l ELSE tag[d][v]
          /\ mesi'[d][v] = IF d = c /\ v = w THEN s ELSE mesi[d][v]
    /\ \A x, d, v : Upgrades(x, d, v) => Upgrades(x, d, v)'

LEMMA NewLine ==
    ASSUME CoherenceInv, NEW c \in Caches, NEW w \in 1..Ways[c], NEW l \in Lines, NEW s,
           TakesLine(c, w, l, s)
    PROVE  Arrays' /\ Listed' /\ Inclusive' /\ Alone'
<1>0. /\ \/ tag[c][w] = l
         \/ /\ Absent(c, l) /\ mesi[c][w] = "I" /\ dir[c][w].sharers = {}
            /\ \A x : ~ Upgrades(x, c, w)
      /\ \/ s = mesi[c][w] /\ Parent[c][l] # Mem
         \/ s # "I" /\ mesi[c][w] \in {"I", "S"} /\ Parent[c][l] = Mem /\ c = LLC(l)
      /\ UNCHANGED dir
      /\ \A d \in Caches : \A v \in 1..Ways[d] :
            /\ tag'[d][v] = IF d = c /\ v = w THEN l ELSE tag[d][v]
            /\ mesi'[d][v] = IF d = c /\ v = w THEN s ELSE mesi[d][v]
      /\ \A x, d, v : Upgrades(x, d, v) => Upgrades(x, d, v)'
  BY Zenon DEF TakesLine
<1> USE <1>0
<1>1. l # None
  BY CoherenceAssumption, Zenon
<1>2. Arrays'
  <2>1. \A d \in Caches : \A v, u \in 1..Ways[d] :
          tag'[d][u] = tag'[d][v] /\ tag'[d][v] # None => u = v
    BY <1>1, SMTT(30) DEF CoherenceInv, Arrays, Absent
  <2>2. \A d \in Caches : \A v \in 1..Ways[d] : tag'[d][v] = None => mesi'[d][v] = "I"
    BY <1>1, SMTT(30) DEF CoherenceInv, Arrays
  <2>3. \A d \in Caches : \A v \in 1..Ways[d] :
          tag'[d][v] # None /\ Parent[d][tag'[d][v]] = Mem => d = LLC(tag'[d][v])
    <3>1. Parent[c][l] = Mem => c = LLC(l)
      OBVIOUS
    <3>2. QED
      BY <3>1, SMTT(30) DEF CoherenceInv, Arrays
  <2>4. QED
    BY <2>1, <2>2, <2>3, ZenonT(30) DEF Arrays
<1>3. \A d \in Caches : \A v \in 1..Ways[d] : mesi[d][v] # "I" =>
        tag'[d][v] = tag[d][v] /\ mesi'[d][v] # "I"
  BY ZenonT(30) DEF CoherenceInv, Arrays
<1>4. Listed'
  <2>1. SUFFICES ASSUME NEW d \in Caches, NEW v \in 1..Ways[d],
                        NEW x \in dir[d][v].sharers
                 PROVE  /\ tag'[d][v] # None /\ Parent[x][tag'[d][v]] = d
                        /\ \E u \in 1..Ways[x] : tag'[x][u] = tag'[d][v] /\ mesi'[x][u] # "I"
    BY ZenonT(60) DEF Listed
  <2>2. x \in Caches /\ tag[d][v] # None /\ Parent[x][tag[d][v]] = d
    BY ListedCopy DEF CoherenceInv, Listed
  <2>3. tag'[d][v] = tag[d][v]
    BY SMTT(30)
  <2>4. PICK u \in 1..Ways[x] : tag[x][u] = tag[d][v] /\ mesi[x][u] # "I"
    BY DEF CoherenceInv, Listed
  <2>5. tag'[x][u] = tag[x][u] /\ mesi'[x][u] # "I"
    BY <1>3, <2>2, <2>4, Zenon
  <2>6. QED
    BY <2>2, <2>3, <2>4, <2>5, Zenon
<1>5. Inclusive'
  <2>1. SUFFICES ASSUME NEW x \in Caches, NEW u \in 1..Ways[x], NEW d,
                        d = Parent[x][tag'[x][u]], mesi'[x][u] # "I", d # Mem
                 PROVE  \E v \in 1..Ways[d] : Covers(d, v, x, u)'
    BY Zenon DEF Inclusive
  <2>2. mesi'[x][u] = mesi[x][u] /\ tag'[x][u] = tag[x][u]
    BY <2>1, Zenon
  <2>3. PICK v \in 1..Ways[d] : Covers(d, v, x, u)
    BY <2>1, <2>2, Zenon DEF CoherenceInv, Inclusive
  <2>4. tag[x][u] \in Lines
    BY <2>1, <2>2, ZenonT(30) DEF CoherenceInv, Types, Arrays
  <2>5. d \in Caches
    BY <2>1, <2>2, <2>4, TreeFacts, SMTT(30)
  <2>6. tag'[d][v] = tag[d][v] /\ (mesi'[d][v] = mesi[d][v] \/ mesi'[d][v] # "I")
    BY <2>5, <2>3 DEF Covers
  <2>7. mesi'[x][u] \in Exclusive => mesi'[d][v] \in Exclusive
    BY <2>2, <2>3, <2>5, ZenonT(60) DEF Covers, Exclusive
  <2>8. QED
    BY <2>2, <2>3, <2>6, <2>7, Zenon DEF Covers
<1>6. Alone'
  <2>1. SUFFICES ASSUME NEW x \in Caches, NEW d \in Caches, NEW u \in 1..Ways[x],
                        NEW v \in 1..Ways[d], mesi'[x][u] \in Exclusive, x # d,
                        tag'[x][u] = tag'[d][v],
                        Parent[x][tag'[x][u]] = Parent[d][tag'[x][u]]
                 PROVE  mesi'[d][v] = "I"
    BY DEF Alone
  <2>2. CASE /\ mesi'[x][u] = mesi[x][u] /\ mesi'[d][v] = mesi[d][v]
    <3>1. SUFFICES ASSUME mesi[d][v] # "I"
                   PROVE  FALSE
      BY <2>2, Zenon
    <3>2. tag'[x][u] = tag[x][u] /\ tag'[d][v] = tag[d][v]
      BY <1>3, <2>1, <2>2, <3>1, Zenon DEF Exclusive
    <3>3. QED
      <4>1. Alone
        BY Zenon DEF CoherenceInv
      <4>2. /\ mesi[x][u] \in Exclusive /\ tag[x][u] = tag[d][v]
            /\ Parent[x][tag[x][u]] = Parent[d][tag[x][u]]
        BY <2>1, <2>2, <3>2, Zenon
      <4>3. QED
        BY ONLY <2>1, <3>1, <4>1, <4>2, Zenon DEF Alone
  <2>3. CASE ~ (mesi'[x][u] = mesi[x][u] /\ mesi'[d][v] = mesi[d][v])
    <3>1. Parent[c][l] = Mem /\ (x = c \/ d = c) /\ tag'[x][u] = l
      BY <2>1, <2>3, ZenonT(30)
    <3>2. \A e \in Caches : \A y \in 1..Ways[e] :
            tag'[e][y] = l /\ Parent[e][l] = Mem => e = c
      BY <1>1, <1>2, <3>1, SMTT(30) DEF Arrays
    <3>3. QED
      BY <2>1, <3>1, <3>2, Zenon
  <2>4. QED
    BY <2>2, <2>3, ZenonT(30)
<1>7. QED
  BY <1>2, <1>4, <1>5, <1>6, Zenon

\* The types of the data, when one way's line and state change.
LEMMA SetLine ==
    ASSUME CoherenceInv, NEW c \in Caches, NEW w \in 1..Ways[c], NEW l \in Lines,
           NEW x \in MESI, SetsWay(tag', tag, c, w, l), SetsWay(mesi', mesi, c, w, x),
           UNCHANGED dir, bcc' \in [Caches -> Cores \cup {None}],
           tcc' \in [Caches -> Cores \cup {None}], wback' \in [Cores -> BOOLEAN]
    PROVE  /\ DataTypes'
           /\ \A d \in Caches : \A v \in 1..Ways[d] :
                /\ tag'[d][v] = IF d = c /\ v = w THEN l ELSE tag[d][v]
                /\ mesi'[d][v] = IF d = c /\ v = w THEN x ELSE mesi[d][v]
<1>1. Table(tag) /\ Table(mesi) /\ Table(dir)
  BY Zenon DEF CoherenceInv, Types
<1>2. /\ Table(mesi')
      /\ \A d \in Caches : \A v \in 1..Ways[d] :
           mesi'[d][v] = IF d = c /\ v = w THEN x ELSE mesi[d][v]
  BY <1>1, TableUpdate, SMTT(30)
<1>3. /\ Table(tag')
      /\ \A d \in Caches : \A v \in 1..Ways[d] :
           tag'[d][v] = IF d = c /\ v = w THEN l ELSE tag[d][v]
  BY <1>1, TableUpdate
<1>4. Table(tag)' /\ Table(dir)' /\ Table(mesi)'
  BY <1>1, <1>2, <1>3, ZenonT(30) DEF Table
<1>5. \A d \in Caches : \A v \in 1..Ways[d] :
        tag'[d][v] \in Lines \cup {None} /\ mesi'[d][v] \in MESI /\ dir'[d][v] \in Entries
  BY <1>2, <1>3, ZenonT(60) DEF CoherenceInv, Types
<1>6. QED
  BY <1>2, <1>3, <1>4, <1>5, Zenon DEF DataTypes

\* array->postinsert and MESIBottomCC::processAccess: memory answers at once,
\* a parent cache is sent a request.
LEMMA FetchKeeps ==
    ASSUME CoherenceInv, NEW p \in Cores, Fetch(p)
    PROVE  CoherenceInv'
<1>1. PICK n : n = Depth(p)
  OBVIOUS
<1>2. PICK t : t = Frame(p, n)
  OBVIOUS
<1>3. PICK h : h = Frame(p, n - 1)
  OBVIOUS
<1>4. PICK s : s = mesi[t.cache][t.way]
  OBVIOUS
<1>5. PICK call : call = [t EXCEPT !.pc = AfterFetch(t)]
  BY Zenon
<1>6. InCall(p, "fetch")
  BY ZenonT(30) DEF Fetch
<1>7. /\ stack[p] # <<>> /\ n \in 1..Depth(p) /\ t = Call(p) /\ t.pc = "fetch"
      /\ t.cache \in Caches /\ IsCall(t) /\ t \in Calls /\ IsBase(p, n) /\ Holds(p, n)
      /\ ~ Waits(p, n) /\ ShapeAt(p, n) /\ AccessAt(p, n) /\ t.pc \in Under /\ ~ wback[p]
      /\ t.line \in Lines
  BY <1>1, <1>2, <1>6, Top, SMTT(30) DEF Under
<1>8. /\ SetsWay(tag', tag, t.cache, t.way, t.line) /\ UNCHANGED <<dir, tcc, wback>>
      /\ GoUp(p, t, AfterFetch(t), t.line, t.way, t.type, t.flags, s)
  BY <1>4, <1>7, Zenon DEF Fetch, SetsWay
<1>9. /\ call \in Calls /\ SameCall(call, t) /\ call.pc = AfterFetch(t) /\ call.pc \in Under
      /\ call.cache = t.cache /\ call.way = t.way /\ call.type = t.type
      /\ call.line = t.line /\ call.flags = t.flags /\ IsCall(call)
      /\ call.pc \in {"grant", "end"}
      /\ call = [t EXCEPT !.pc = AfterFetch(t), !.way = t.way]
  BY <1>5, <1>7, ZenonT(30) DEF Calls, IsCall, SameCall, Under, AfterFetch
<1>10. /\ t.way \in 1..Ways[t.cache] /\ t.type \in Gets /\ MustFetch(t.type, s)
       /\ \/ tag[t.cache][t.way] = t.line
          \/ Absent(t.cache, t.line) /\ s = "I" /\ dir[t.cache][t.way].sharers = {}
  BY <1>2, <1>4, <1>7, Zenon DEF AccessAt, Progress
<1>11. /\ s \in {"I", "S"} /\ (t.type = "GETS" => s = "I") /\ t.type \notin Puts
       /\ t.type \in {"GETS", "GETX"} /\ s \in MESI
  BY <1>10, Zenon DEF MustFetch, Gets, Puts, MESI
<1>12. \A x : ~ Upgrades(x, t.cache, t.way)
  BY <1>2, <1>7, OwnUpgrade, Zenon
<1>13. ASSUME n > 1
       PROVE  /\ t.from \in Caches /\ t.slot \in 1..Ways[t.from] /\ t.from # t.cache
              /\ t.cache = Parent[t.from][t.line] /\ "PTW" \notin t.flags
              /\ t.cache \notin Terminals /\ call.pc = "grant"
  <2>1. n \in 1..Depth(p) /\ IsCall(t)
    BY <1>7, ZenonT(30)
  <2>2. /\ t.from \in Caches /\ t.slot \in 1..Ways[t.from] /\ t.from # t.cache
        /\ t.cache = Parent[t.from][t.line] /\ Asks(t, h)
    <3>1. /\ Asks(t, h) /\ h.cache \in Caches /\ t.from = h.cache /\ t.slot = h.way
          /\ h.way \in 1..Ways[h.cache] /\ t.cache = Parent[h.cache][t.line]
          /\ h.cache # t.cache
      <4>1. Asks(t, h)
        BY ONLY CoherenceInv, p \in Cores, <1>2, <1>3, <1>13, <2>1, Caller, Zenon
      <4>2. Stacks /\ Shape
        BY InvParts, Zenon
      <4>3. n - 1 \in 1..Depth(p)
        BY ONLY <1>13, <2>1, <4>2, p \in Cores, CallerOf, Zenon
      <4>4. h.cache \in Caches
        BY ONLY <1>3, <4>2, <4>3, p \in Cores, FrameFields, Zenon
      <4>5. h.cache # t.cache
        BY ONLY <1>7, <4>1, <4>4, NotAbove, ZenonT(60) DEF Asks
      <4>6. QED
        BY ONLY <4>1, <4>4, <4>5, Zenon DEF Asks
    <3>2. QED
      BY ONLY <3>1, Zenon
  <2>3. "PTW" \notin t.flags /\ t.cache \notin Terminals
    BY <1>7, <2>2, TreeFacts, SMTT(40) DEF Asks
  <2>4. QED
    BY <1>9, <2>2, <2>3, Zenon DEF AfterFetch
<1>14. ASSUME n = 1
       PROVE  Outermost(p, t) /\ call.pc = "end"
  <2>1. Outermost(p, t)
    BY <1>2, <1>7, <1>14, ZenonT(60) DEF ShapeAt
  <2>2. QED
    BY <1>9, <2>1, Zenon DEF Outermost, AfterFetch
<1>15. n = 1 \/ n > 1
  BY <1>7, SMTT(40)
<1>16. call.pc = "grant" => n > 1
  BY <1>14, <1>15, Zenon
<1>17. CASE Parent[t.cache][t.line] = Mem
  <2>1. PICK x : x = MemGrants(t.type, t.flags)
    OBVIOUS
  <2>2. x \in {"S", "E", "M"} /\ x \in MESI /\ x # "I" /\ (t.type = "GETX" => x = "M")
    BY <1>11, <2>1, Zenon DEF MemGrants, Puts, MESI
  <2>3. Goto(p, call) /\ UNCHANGED bcc /\ SetsWay(mesi', mesi, t.cache, t.way, x)
    BY <1>8, <1>9, <1>17, <2>1, Zenon DEF GoUp, SetsWay
  <2>4. /\ bcc' \in [Caches -> Cores \cup {None}] /\ tcc' \in [Caches -> Cores \cup {None}]
        /\ LocksLeft(t)
    BY <1>7, <1>8, <2>3, FreeBcc, Zenon
  <2>5. wback' \in [Cores -> BOOLEAN] /\ ~ wback'[p]
        /\ \A q \in Cores : q # p => wback'[q] = wback[q]
    BY <1>7, <1>8, ZenonT(30) DEF CoherenceInv, Types
  <2>6. /\ DataTypes'
        /\ \A d \in Caches : \A v \in 1..Ways[d] :
             /\ tag'[d][v] = IF d = t.cache /\ v = t.way THEN t.line ELSE tag[d][v]
             /\ mesi'[d][v] = IF d = t.cache /\ v = t.way THEN x ELSE mesi[d][v]
    <3>1. t.cache \in Caches /\ t.way \in 1..Ways[t.cache] /\ t.line \in Lines
      BY <1>7, <1>10, Zenon
    <3>2. UNCHANGED dir /\ SetsWay(tag', tag, t.cache, t.way, t.line)
      BY <1>8, Zenon
    <3>3. QED
      BY <2>2, <2>3, <2>4, <2>5, <3>1, <3>2, SetLine, SMTT(40)
  <2>7. Local(t, n) /\ FewExclusive(t)
    BY <1>8, <1>17, <2>6, ZenonT(30) DEF Local, FewExclusive
  <2>8. (n = 1 => Outermost(p, call)) /\ (n > 1 => Asks(call, h)')
    BY <1>2, <1>3, <1>7, <1>9, <2>7, AsksOn, Zenon
  <2>9. n > 1 => Asked(call)'
    BY <1>2, <1>7, <1>9, <1>10, <1>13, <2>6, AskedOn, Zenon
  <2>10. Progress(call, n, FALSE)'
    <3>1. /\ mesi'[t.cache][t.way] = x /\ tag'[t.cache][t.way] = t.line
      BY <1>7, <1>10, <2>6, Zenon
    <3>2. QED
      BY <1>9, <1>10, <1>11, <1>16, <2>2, <3>1, ZenonT(30) DEF Progress
  <2>11. tcc'[t.cache] = tcc[t.cache] /\ bcc'[t.cache] = p
    BY <1>2, <1>7, <1>8, <2>3, InvParts, ZenonT(30) DEF Locks, LockAt
  <2>12. /\ Types' /\ Shape' /\ Order' /\ Locks' /\ Accesses' /\ Recalls'
         /\ \A c, d, v : Upgrades(c, d, v) =>
              \/ Upgrades(c, d, v)'
              \/ t.pc = "grant" /\ c = t.from /\ d = t.cache /\ v = t.way
    BY ONLY CoherenceInv, p \in Cores, <1>1, <1>2, <1>3, <1>7, <1>9, <2>3, <2>4, <2>5,
       <2>6, <2>7, <2>8, <2>9, <2>10, <2>11, AccessGoto, ZenonT(30)
  <2>13. Arrays' /\ Listed' /\ Inclusive' /\ Alone'
    <3>1. \A c, d, v : Upgrades(c, d, v) => Upgrades(c, d, v)'
      BY <1>7, <2>12, Zenon
    <3>2. t.cache = LLC(t.line)
      <4>1. CASE n = 1
        BY <1>7, <1>14, <1>17, <4>1, TreeFacts, ZenonT(30) DEF Outermost
      <4>2. CASE n > 1
        BY <1>7, <1>13, <1>17, <4>2, TreeFacts, SMTT(30)
      <4>3. QED
        BY <1>15, <4>1, <4>2, Zenon
    <3>3. t.cache \in Caches /\ t.way \in 1..Ways[t.cache] /\ t.line \in Lines /\ UNCHANGED dir
      BY <1>7, <1>8, <1>10, Zenon
    <3>4. \/ tag[t.cache][t.way] = t.line
          \/ /\ Absent(t.cache, t.line) /\ mesi[t.cache][t.way] = "I"
             /\ dir[t.cache][t.way].sharers = {} /\ \A y : ~ Upgrades(y, t.cache, t.way)
      BY <1>4, <1>10, <1>12, Zenon
    <3>5. x # "I" /\ mesi[t.cache][t.way] \in {"I", "S"}
      BY <1>4, <1>11, <2>2, Zenon
    <3>6. \/ x = mesi[t.cache][t.way] /\ Parent[t.cache][t.line] # Mem
          \/ /\ x # "I" /\ mesi[t.cache][t.way] \in {"I", "S"}
             /\ Parent[t.cache][t.line] = Mem /\ t.cache = LLC(t.line)
      BY <1>17, <3>2, <3>5, Zenon
    <3>7. TakesLine(t.cache, t.way, t.line, x)
      BY ONLY <2>6, <3>1, <3>3, <3>4, <3>6, Zenon DEF TakesLine
    <3>8. QED
      BY ONLY CoherenceInv, <3>3, <3>7, NewLine, Zenon
  <2>14. QED
    BY <2>12, <2>13, Zenon DEF CoherenceInv
<1>18. CASE Parent[t.cache][t.line] # Mem
  <2>1. PICK d : d = Parent[t.cache][t.line]
    OBVIOUS
  <2>2. d \in Caches /\ d \notin Terminals /\ Rank[d] < Rank[t.cache]
    BY <1>7, <1>18, <2>1, RankFalls, TreeFacts, ZenonT(30)
  <2>3. PICK inner : inner = Request(d, t.line, t.type, t.flags, t.cache, t.way, s, None)
    OBVIOUS
  <2>4. /\ inner.pc = "tcc" /\ inner.cache = d /\ inner.line = t.line
        /\ inner.type = t.type /\ inner.flags = t.flags /\ inner.from = t.cache
        /\ inner.slot = t.way /\ inner.init = s /\ inner.vline = None
        /\ IsCall(inner) /\ inner \in Calls
    <3>1. t.way \in Nat
      <4>1. Ways[t.cache] \in Nat
        BY <1>7, CoherenceAssumption, Zenon
      <4>2. QED
        BY ONLY <1>10, <4>1
    <3>2. QED
      BY <1>7, <1>11, <2>2, <2>3, <3>1, ZenonT(60) DEF Request, Calls, IsCall
  <2>5. /\ Push(p, call, inner) /\ UNCHANGED tcc /\ FreesBcc(t.cache)
        /\ SetsWay(mesi', mesi, t.cache, t.way, s)
    BY <1>8, <1>9, <1>18, <2>1, <2>3, Zenon DEF GoUp, SetsWay, FreesBcc
  <2>6. /\ bcc' \in [Caches -> Cores \cup {None}] /\ tcc' \in [Caches -> Cores \cup {None}]
        /\ LocksLeft(t)
    BY <1>7, <2>5, FreeBcc, Zenon
  <2>7. wback' \in [Cores -> BOOLEAN] /\ ~ wback'[p]
        /\ \A q \in Cores : q # p => wback'[q] = wback[q]
    BY <1>7, <1>8, Zenon DEF CoherenceInv, Types
  <2>8. /\ DataTypes'
        /\ \A e \in Caches : \A v \in 1..Ways[e] :
             /\ tag'[e][v] = IF e = t.cache /\ v = t.way THEN t.line ELSE tag[e][v]
             /\ mesi'[e][v] = IF e = t.cache /\ v = t.way THEN s ELSE mesi[e][v]
    <3>1. t.cache \in Caches /\ t.way \in 1..Ways[t.cache] /\ t.line \in Lines /\ s \in MESI
      BY <1>7, <1>10, <1>11, Zenon
    <3>2. UNCHANGED dir /\ SetsWay(tag', tag, t.cache, t.way, t.line)
      BY <1>8, Zenon
    <3>3. QED
      BY ONLY CoherenceInv, <2>5, <2>6, <2>7, <3>1, <3>2, SetLine
  <2>9. Local(t, n) /\ FewExclusive(t)
    BY <1>8, <1>11, <2>8, ZenonT(30) DEF Local, FewExclusive, Exclusive
  <2>10. mesi'[t.cache][t.way] = s /\ tag'[t.cache][t.way] = t.line
    BY <1>7, <1>10, <2>8, Zenon
  <2>11. (n = 1 => Outermost(p, call)) /\ (n > 1 => Asks(call, h)')
    BY <1>2, <1>3, <1>7, <1>9, <2>9, AsksOn, Zenon
  <2>12. n > 1 => Asked(call)'
    BY <1>2, <1>7, <1>9, <1>10, <1>13, <2>8, AskedOn, ZenonT(30)
  <2>13. Progress(call, n, IsCall(inner))'
    BY <1>9, <1>10, <1>11, <1>16, <2>4, <2>10, ZenonT(30) DEF Progress, IsCall
  <2>14. Asks(inner, call)'
    <3>1. "PTW" \notin t.flags
      <4>1. CASE n = 1
        BY <1>7, <1>14, <1>18, <4>1, TreeFacts, SMTT(40) DEF Outermost
      <4>2. CASE n > 1
        BY <1>13, <4>2, Zenon
      <4>3. QED
        BY <1>15, <4>1, <4>2, ZenonT(30)
    <3>2. call.pc = AfterFetch(call)
      BY <1>9, Zenon DEF AfterFetch
    <3>3. QED
      BY <1>9, <1>10, <1>11, <2>1, <2>4, <2>10, <3>1, <3>2, Zenon DEF Asks, AfterFetch,
         IsCall
  <2>15. Asked(inner)'
    BY <1>11, <2>4, <2>10, Zenon DEF Asked, Puts
  <2>16. tcc'[t.cache] = tcc[t.cache]
    BY <2>5, Zenon
  <2>17. /\ Types' /\ Shape' /\ Order' /\ Locks' /\ Accesses' /\ Recalls'
         /\ \A c, e, v : Upgrades(c, e, v) => Upgrades(c, e, v)'
    BY ONLY CoherenceInv, p \in Cores, <1>1, <1>2, <1>3, <1>7, <1>9, <2>2, <2>4, <2>5,
       <2>6, <2>7, <2>8, <2>9, <2>11, <2>12, <2>13, <2>14, <2>15, <2>16, AccessPush,
       ZenonT(30)
  <2>18. Arrays' /\ Listed' /\ Inclusive' /\ Alone'
    <3>1. t.cache \in Caches /\ t.way \in 1..Ways[t.cache] /\ t.line \in Lines /\ UNCHANGED dir
      BY <1>7, <1>8, <1>10, Zenon
    <3>2. \/ tag[t.cache][t.way] = t.line
          \/ /\ Absent(t.cache, t.line) /\ mesi[t.cache][t.way] = "I"
             /\ dir[t.cache][t.way].sharers = {} /\ \A y : ~ Upgrades(y, t.cache, t.way)
      BY <1>4, <1>10, <1>12, Zenon
    <3>3. TakesLine(t.cache, t.way, t.line, s)
      BY ONLY <1>4, <1>18, <2>8, <2>17, <3>1, <3>2, Zenon DEF TakesLine
    <3>4. QED
      BY ONLY CoherenceInv, <3>1, <3>3, NewLine, Zenon
  <2>19. QED
    BY <2>17, <2>18, ZenonT(30) DEF CoherenceInv
<1>19. QED
  BY <1>17, <1>18, Zenon

\* The types of the data, when one directory entry changes.
LEMMA SetEntry ==
    ASSUME CoherenceInv, NEW c \in Caches, NEW w \in 1..Ways[c], NEW e \in Entries,
           SetsWay(dir', dir, c, w, e), UNCHANGED <<tag, mesi, tcc, bcc, wback>>
    PROVE  /\ DataTypes'
           /\ \A d \in Caches : \A v \in 1..Ways[d] :
                dir'[d][v] = IF d = c /\ v = w THEN e ELSE dir[d][v]
<1>1. Types
  BY Zenon DEF CoherenceInv
<1>2. Table(tag) /\ Table(mesi) /\ Table(dir)
  BY <1>1, ZenonT(30) DEF Types
<1>3. /\ Table(dir')
      /\ \A d \in Caches : \A v \in 1..Ways[d] :
           dir'[d][v] = IF d = c /\ v = w THEN e ELSE dir[d][v]
  BY <1>2, TableUpdate, SMTT(40)
<1>4. Table(tag)' /\ Table(dir)' /\ Table(mesi)'
  BY <1>2, <1>3, Zenon DEF Table
<1>5. \A d \in Caches : \A v \in 1..Ways[d] :
        tag'[d][v] \in Lines \cup {None} /\ mesi'[d][v] \in MESI /\ dir'[d][v] \in Entries
  BY <1>1, <1>3, Zenon DEF Types
<1>6. QED
  BY <1>1, <1>3, <1>4, <1>5, Zenon DEF DataTypes, Types

\* MESITopCC::processAccess: of the children that hold the line, those that
\* must give it up stay listed, and one of them is sent an invalidation.
LEMMA RevokeKeeps ==
    ASSUME CoherenceInv, Counting, NEW p \in Cores, Revoke(p)
    PROVE  CoherenceInv'
<1>1. PICK n : n = Depth(p)
  OBVIOUS
<1>2. PICK t : t = Frame(p, n)
  OBVIOUS
<1>3. PICK h : h = Frame(p, n - 1)
  BY SMTT(30)
<1>4. PICK e : e = dir[t.cache][t.way]
  OBVIOUS
<1>5. PICK R : R = MustRevoke(t, e)
  OBVIOUS
<1>6. PICK inner : inner = InvReq(FirstOf(R), t.line, IF t.type = "GETX" THEN "INV" ELSE "INVX")
  OBVIOUS
<1>7. InCall(p, "grant")
  BY Zenon DEF Revoke
<1>8. /\ stack[p] # <<>> /\ n \in 1..Depth(p) /\ t = Call(p) /\ t.pc = "grant"
      /\ t.cache \in Caches /\ IsCall(t) /\ t \in Calls /\ IsBase(p, n) /\ Holds(p, n)
      /\ ~ Waits(p, n) /\ AccessAt(p, n) /\ t.pc \in Under /\ t.line \in Lines
  BY <1>1, <1>2, <1>7, Top, SMTT(30) DEF Under
<1>9. /\ R # {} /\ Push(p, t, inner) /\ UNCHANGED <<tag, mesi, tcc, bcc, wback>>
      /\ dir' = [dir EXCEPT ![t.cache][t.way].sharers = R]
  BY <1>4, <1>5, <1>6, <1>8, Zenon DEF Revoke
<1>10. /\ t.way \in 1..Ways[t.cache] /\ n > 1 /\ tag[t.cache][t.way] = t.line
  BY <1>2, <1>8, Zenon DEF AccessAt, Progress, Under
<1>11. e \in Entries /\ mesi[t.cache][t.way] \in MESI
  BY <1>4, <1>8, <1>10, Zenon DEF CoherenceInv, Types
<1>12. /\ t.type \in Gets /\ R \subseteq e.sharers
       /\ (R = e.sharers \/ (t.type = "GETX" /\ R = e.sharers \ {t.from}))
  BY <1>5, <1>8, <1>9, Zenon DEF MustRevoke, Calls, Gets, Puts
<1>13. PICK e2 : e2 = [e EXCEPT !.sharers = R]
  BY Zenon
<1>14. e2 \in Entries /\ e2.sharers = R /\ e2.exclusive = e.exclusive
  BY <1>11, <1>12, <1>13, Zenon DEF Entries
<1>15. SetsWay(dir', dir, t.cache, t.way, e2)
  BY <1>4, <1>9, <1>13, ZenonT(30) DEF SetsWay
<1>16. /\ DataTypes'
       /\ \A d \in Caches : \A v \in 1..Ways[d] :
            dir'[d][v] = IF d = t.cache /\ v = t.way THEN e2 ELSE dir[d][v]
  <2>1. t.cache \in Caches /\ t.way \in 1..Ways[t.cache]
    BY <1>8, <1>10, Zenon
  <2>2. UNCHANGED <<tag, mesi, tcc, bcc, wback>>
    BY <1>9, Zenon
  <2>3. QED
    BY <1>14, <1>15, <2>1, <2>2, SetEntry, SMTT(30)
<1>17. Local(t, n) /\ FewExclusive(t) /\ LocksLeft(t)
  BY <1>9, <1>16 DEF Local, FewExclusive, LocksLeft
<1>18. SameCall(t, t)
  BY <1>8, Zenon DEF SameCall
<1>19. (n = 1 => Outermost(p, t)) /\ (n > 1 => Asks(t, h)')
  BY <1>2, <1>3, <1>8, <1>17, <1>18, AsksOn, ZenonT(30)
<1>20. n > 1 => Asked(t)'
  <2>1. /\ n \in 1..Depth(p) /\ IsCall(t) /\ t.pc # "end"
        /\ mesi'[t.from][t.slot] = mesi[t.from][t.slot] /\ t.type = t.type
    BY <1>8, <1>9, Zenon
  <2>2. t.type \in Gets
    BY <1>12, Zenon
  <2>3. QED
    BY <1>2, <1>10, <1>18, <2>1, <2>2, AskedOn, ZenonT(30)
<1>21. FirstOf(R) \in R /\ FirstOf(R) \in e.sharers /\ R \in SUBSET Caches
  BY <1>9, <1>11, <1>12, Zenon DEF Entries, Counting
<1>22. /\ inner.pc = "inv" /\ inner.cache = FirstOf(R) /\ inner.line = t.line
       /\ ~ IsCall(inner) /\ inner \in Invs /\ inner.cache \in Caches
  BY <1>6, <1>8, <1>21, Zenon DEF InvReq, IsCall, Invs
<1>23. Progress(t, n, IsCall(inner))'
  <2>1. Progress(t, n, FALSE)
    BY <1>2, <1>8, ZenonT(30) DEF AccessAt, Progress
  <2>2. UNCHANGED <<tag, mesi>> /\ t.pc = "grant"
    BY <1>8, <1>9, Zenon
  <2>3. Progress(t, n, FALSE)'
    BY <2>1, <2>2, Zenon DEF Progress, Absent
  <2>4. IsCall(inner)' = FALSE
    BY <1>22, ZenonT(30) DEF IsCall
  <2>5. QED
    BY <2>3, <2>4, Zenon
<1>24. Rank[t.cache] < Rank[inner.cache]
  BY <1>4, <1>8, <1>10, <1>21, <1>22, ListedCopy, SMTT(30)
<1>25. Tells(inner, t)'
  BY <1>8, <1>9, <1>10, <1>12, <1>14, <1>16, <1>21, <1>22, SMTT(30) DEF Tells
<1>26. Recalling(p, t, inner)
  <2>1. wback[p] => mesi[t.cache][t.way] \in Exclusive
    BY <1>2, <1>8, ZenonT(30) DEF CoherenceInv, Recalls, RecallAt
  <2>2. \A w \in 1..Ways[inner.cache] :
          tag[inner.cache][w] = tag[t.cache][t.way] /\ mesi[inner.cache][w] \in Exclusive
          => mesi[t.cache][t.way] \in Exclusive
    <3>1. /\ inner.cache \in Caches /\ tag[t.cache][t.way] \in Lines
          /\ Parent[inner.cache][tag[t.cache][t.way]] = t.cache
      BY <1>4, <1>8, <1>10, <1>21, <1>22, ListedCopy, SMTT(40)
    <3>2. SUFFICES ASSUME NEW w \in 1..Ways[inner.cache], mesi[inner.cache][w] \in Exclusive,
                          tag[inner.cache][w] = tag[t.cache][t.way]
                   PROVE  mesi[t.cache][t.way] \in Exclusive
      BY Zenon
    <3>3. mesi[inner.cache][w] # "I" /\ t.cache \in Caches /\ t.way \in 1..Ways[t.cache]
      BY <1>8, <1>10, <3>2, Zenon DEF Exclusive
    <3>4. Covers(t.cache, t.way, inner.cache, w)
      BY ONLY CoherenceInv, <3>1, <3>2, <3>3, Covered, Zenon
    <3>5. QED
      BY ONLY <3>2, <3>4, ZenonT(60) DEF Covers
  <2>3. QED
    BY <1>8, <1>9, <1>10, <1>22, <2>1, <2>2, ZenonT(30) DEF Recalling
<1>27. tcc'[t.cache] = tcc[t.cache] /\ bcc'[t.cache] = p
  BY <1>2, <1>8, <1>9, InvParts, Zenon DEF Locks, LockAt
<1>28. \A q \in Cores : q # p => wback'[q] = wback[q]
  BY <1>9, Zenon
<1>29. /\ Types' /\ Shape' /\ Order' /\ Locks' /\ Accesses' /\ Recalls'
       /\ \A c, d, v : Upgrades(c, d, v) => Upgrades(c, d, v)'
  BY ONLY CoherenceInv, p \in Cores, <1>1, <1>2, <1>3, <1>8, <1>9, <1>16, <1>17, <1>19,
     <1>20, <1>22, <1>23, <1>24, <1>25, <1>26, <1>27, <1>28, AccessPush, ZenonT(30)
<1>30. t.type = "GETX" => Upgrades(t.from, t.cache, t.way)'
  <2>1. t.type = "GETX" => Upgrades(t.from, t.cache, t.way)
    BY <1>2, <1>8, ZenonT(30) DEF Upgrades
  <2>2. QED
    BY <1>29, <2>1, Zenon
<1>31. Arrays' /\ Alone'
  BY <1>9, ZenonT(60) DEF CoherenceInv, Arrays, Alone
<1>32. \A d \in Caches : \A v \in 1..Ways[d] :
         dir'[d][v].sharers \subseteq dir[d][v].sharers /\ dir'[d][v].exclusive = dir[d][v].exclusive
  BY <1>4, <1>12, <1>14, <1>16, ZenonT(60)
<1>33. Listed'
  BY <1>9, <1>32, SMTT(30) DEF CoherenceInv, Listed
<1>34. Inclusive'
  <2>1. SUFFICES ASSUME NEW x \in Caches, NEW u \in 1..Ways[x], NEW d,
                        d = Parent[x][tag[x][u]], mesi[x][u] # "I", d # Mem
                 PROVE  \E v \in 1..Ways[d] : Covers(d, v, x, u)'
    BY <1>9, Zenon DEF Inclusive
  <2>2. PICK v \in 1..Ways[d] : Covers(d, v, x, u)
    BY <2>1, Zenon DEF CoherenceInv, Inclusive
  <2>3. tag[x][u] \in Lines
    BY <2>1, ZenonT(30) DEF CoherenceInv, Types, Arrays
  <2>4. d \in Caches
    BY <2>1, <2>3, TreeFacts, ZenonT(30)
  <2>5. CASE d = t.cache /\ v = t.way
    <3>1. dir'[d][v] = e2 /\ dir[d][v] = e
      BY <1>4, <1>16, <2>4, <2>5, Zenon
    <3>2. x \in R \/ Upgrades(x, d, v)'
      BY <1>12, <1>29, <1>30, <2>2, <2>5, <3>1, ZenonT(30) DEF Covers
    <3>3. mesi[x][u] \in Exclusive => e2.exclusive /\ R = {x}
      BY <1>9, <1>12, <1>14, <2>2, <3>1, Zenon DEF Covers
    <3>4. QED
      BY <1>9, <1>14, <2>2, <3>1, <3>2, <3>3, ZenonT(30) DEF Covers
  <2>6. CASE ~ (d = t.cache /\ v = t.way)
    <3>1. dir'[d][v] = dir[d][v]
      BY <1>16, <2>4, <2>6, ZenonT(30)
    <3>2. QED
      BY <1>9, <1>29, <2>2, <3>1, ZenonT(30) DEF Covers
  <2>7. QED
    BY <2>5, <2>6, Zenon
<1>35. QED
  BY <1>29, <1>31, <1>33, <1>34, Zenon DEF CoherenceInv
=============================================================================
