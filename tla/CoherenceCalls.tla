--------------------------- MODULE CoherenceCalls ---------------------------
(***************************************************************************)
(* The invariant is kept by the steps that enter, lock, send, grant and end *)
(* calls and by the steps of the program.                                  *)
(***************************************************************************)
EXTENDS CoherenceFacts

\* A bcc that is free is taken from nobody.
TakesBcc(p, c) == bcc[c] = None /\ bcc' = [bcc EXCEPT ![c] = p]

\* Taking it leaves the other locks with their holders.
LEMMA TakeBcc ==
    ASSUME CoherenceInv, NEW p \in Cores, NEW c \in Caches, TakesBcc(p, c)
    PROVE  /\ bcc' \in [Caches -> Cores \cup {None}] /\ bcc'[c] = p
           /\ \A q \in Cores : \A d \in Caches : bcc[d] = q => bcc'[d] = q
           /\ \A q \in Cores : \A k \in 1..Depth(q) :
                Holds(q, k) => Frame(q, k).cache # c
<1>1. bcc \in [Caches -> Cores \cup {None}] /\ Stacks
  BY Zenon DEF CoherenceInv, Types, Stacks
<1>2. \A q \in Cores : \A k \in 1..Depth(q) : Holds(q, k) => bcc[Frame(q, k).cache] = q
  BY Zenon DEF CoherenceInv, Locks, LockAt
<1>3. QED
  BY <1>1, <1>2, CoherenceAssumption, Zenon DEF TakesBcc

\* Then the other frames have nothing to fear ...
LEMMA QuietKept ==
    ASSUME Stacks, Shape, Order, Locks, Accesses, NEW p \in Cores, KeptFrames(p),
           UNCHANGED <<tag, dir>>, Alike(p),
           NEW q \in Cores, NEW k \in 1..Depth(q), q # p \/ k # Depth(p)
    PROVE  ShapeAt(q, k)' /\ AccessAt(q, k)'
<1>1. k \in Nat \ {0} /\ Depth(q) \in Nat /\ Depth(p) \in Nat
  BY FrameTypes
<1>2. Frame(q, k)' = Frame(q, k) /\ (Waits(q, k)' <=> Waits(q, k))
  BY Zenon DEF KeptFrames
<1>3. k > 1 => Frame(q, k - 1)' = Frame(q, k - 1)
  BY <1>1 DEF KeptFrames
<1>4. ShapeAt(q, k) /\ AccessAt(q, k)
  BY Zenon DEF Shape, Accesses
<1>5. ShapeAt(q, k)'
  BY <1>2, <1>3, <1>4, Zenon DEF ShapeAt, Asks, Tells, Absent, IsCall
<1>6. ASSUME NEW f, f = Frame(q, k), IsCall(f)
      PROVE  Progress(Frame(q, k), k, Waits(q, k))'
  <2>1. f.cache \in Caches /\ Progress(Frame(q, k), k, Waits(q, k))
    BY <1>4, <1>6, FrameFields, Zenon DEF AccessAt
  <2>2. ASSUME f.pc \in Under, f.way \in 1..Ways[f.cache]
        PROVE  mesi'[f.cache][f.way] = mesi[f.cache][f.way]
    <3>1. SUFFICES ASSUME Depth(p) > 0, Frame(p, Depth(p)).cache = f.cache,
                          Frame(p, Depth(p)).pc \in {"bcc"} \cup Under
                   PROVE  FALSE
      BY <2>1, <2>2, Zenon DEF Alike
    <3>2. Depth(p) \in 1..Depth(p)
      BY <1>1, <3>1, SMTT(30)
    <3>3. QED
      BY <1>6, <2>2, <3>1, <3>2, OneAccess, Zenon
  <2>3. QED
    BY <1>2, <1>6, <2>1, <2>2, Zenon DEF Progress, Absent, Under
<1>7. ASSUME NEW f, f = Frame(q, k), IsCall(f), k > 1
      PROVE  Asked(Frame(q, k))'
  <2>1. Asked(f) /\ f.from \in Caches /\ f.slot \in 1..Ways[f.from]
    BY <1>4, <1>7, CallerOf, FrameFields, ZenonT(30) DEF AccessAt, Asks
  <2>2. mesi'[f.from][f.slot] = mesi[f.from][f.slot]
    <3>1. SUFFICES ASSUME Depth(p) > 0, Frame(p, Depth(p)).cache = f.from,
                          Frame(p, Depth(p)).pc \in {"bcc"} \cup Under
                   PROVE  FALSE
      BY <2>1, Zenon DEF Alike
    <3>2. Depth(p) \in 1..Depth(p)
      BY <1>1, <3>1
    <3>3. /\ k - 1 \in 1..Depth(q) /\ Frame(q, k - 1).cache = f.from
          /\ Frame(q, k - 1).pc \in {"bcc"} \cup Under
      BY <1>7, CallerOf, Zenon DEF Asks
    <3>4. q = p /\ k - 1 = Depth(p)
      BY <3>1, <3>2, <3>3, OneAccess, Zenon
    <3>5. QED
      BY <1>1, <3>4
  <2>3. QED
    BY <1>2, <1>7, <2>1, <2>2, Zenon DEF Asked
<1>8. AccessAt(q, k)'
  BY <1>2, <1>6, <1>7, Zenon DEF AccessAt, IsCall
<1>9. QED
  BY <1>5, <1>8, Zenon

\* The recalls of the other cores.
LEMMA QuietRecall ==
    ASSUME CoherenceInv, NEW p \in Cores, NEW q \in Cores, q # p,
           UNCHANGED tag, Alike(p), wback'[q] = wback[q], Depth(q)' = Depth(q),
           \A k \in 1..Depth(q) :
             Frame(q, k)' = Frame(q, k) /\ (Waits(q, k)' <=> Waits(q, k))
    PROVE  RecallAt(q)'
<1>1. \A c \in Caches : \A w \in 1..Ways[c] :
        mesi'[c][w] \in Exclusive <=> mesi[c][w] \in Exclusive
  BY Zenon DEF Alike, Exclusive
<1>2. \A k \in 1..Depth(q) : IsBase(q, k)' <=> IsBase(q, k)
  BY Zenon DEF IsBase, IsCall
<1>3. RecallAt(q)
  BY ZenonT(30) DEF CoherenceInv, Recalls
<1>4. SUFFICES ASSUME NEW k \in 1..Depth(q), IsBase(q, k)
               PROVE  LET f == Frame(q, k)
                      IN /\ wback[q] => /\ f.pc \in {"evict", "grant"}
                                        /\ mesi'[f.cache][f.way] \in Exclusive
                         /\ \A j \in k + 1 .. Depth(q) :
                              LET g == Frame(q, j)
                              IN /\ g.line = tag[f.cache][f.way]
                                 /\ \A w \in 1..Ways[g.cache] :
                                      /\ tag[g.cache][w] = g.line
                                      /\ mesi'[g.cache][w] \in Exclusive
                                      => mesi'[f.cache][f.way] \in Exclusive
  <2>1. \A k \in 1..Depth(q) : \A j \in k + 1 .. Depth(q) : j \in 1..Depth(q)
    OBVIOUS
  <2>2. wback'[q] => Depth(q)' > 0
    BY <1>3, Zenon DEF RecallAt
  <2>3. QED
    BY <1>2, <2>2, SMTT(40) DEF RecallAt
<1>5. wback[q] => /\ Frame(q, k).pc \in {"evict", "grant"}
                  /\ mesi'[Frame(q, k).cache][Frame(q, k).way] \in Exclusive
  BY <1>1, <1>3, <1>4, BaseWays, Zenon DEF RecallAt
<1>6. ASSUME NEW j \in k + 1 .. Depth(q)
      PROVE  /\ Frame(q, j).line = tag[Frame(q, k).cache][Frame(q, k).way]
             /\ \A w \in 1..Ways[Frame(q, j).cache] :
                  /\ tag[Frame(q, j).cache][w] = Frame(q, j).line
                  /\ mesi'[Frame(q, j).cache][w] \in Exclusive
                  => mesi'[Frame(q, k).cache][Frame(q, k).way] \in Exclusive
  <2>1. /\ Frame(q, j).cache \in Caches /\ Frame(q, k).cache \in Caches
        /\ Frame(q, k).way \in 1..Ways[Frame(q, k).cache]
    <3>1. k < Depth(q)
      BY FrameTypes DEF CoherenceInv, Types, Stacks
    <3>2. QED
      BY <1>4, <3>1, BaseWays, ZenonT(30)
  <2>2. QED
    BY <1>1, <1>3, <1>4, <2>1, Zenon DEF RecallAt
<1>7. QED
  BY <1>5, <1>6, Zenon

-----------------------------------------------------------------------------
(* Steps that change no line                                               *)

\* A step that changes p's innermost frame alone.
LEMMA QuietGoto ==
    ASSUME CoherenceInv, NEW p \in Cores, NEW n \in Nat \ {0}, n = Depth(p),
           NEW call \in Calls \cup Invs, Goto(p, call), stack[p] # <<>>,
           IsCall(call) <=> IsCall(Frame(p, n)), call.cache = Frame(p, n).cache,
           UNCHANGED <<tag, dir, wback>>, Alike(p), Frame(p, n).pc # "grant",
           \A c \in Caches : \A w \in 1..Ways[c] : mesi'[c][w] \in MESI,
           tcc' \in [Caches -> Cores \cup {None}], bcc' \in [Caches -> Cores \cup {None}],
           ShapeAt(p, n)', AccessAt(p, n)', LockAt(p, n)',
           \A q \in Cores : \A k \in 1..Depth(q) : q # p \/ k # n =>
             /\ tcc[Frame(q, k).cache] = q => tcc'[Frame(q, k).cache] = q
             /\ bcc[Frame(q, k).cache] = q => bcc'[Frame(q, k).cache] = q,
           IsCall(call) => ~ wback[p],
           ~ IsCall(call) => call.line = Frame(p, n).line /\ UNCHANGED mesi
    PROVE  CoherenceInv'
<1>1. Stacks
  BY Zenon DEF CoherenceInv, Types, Stacks
<1>2. Stacks' /\ StackGoto(p, call)
  BY <1>1, GotoFrames, ZenonT(30)
<1>3. /\ KeptFrames(p)
      /\ \A q \in Cores : Depth(q)' = Depth(q)
      /\ Depth(p)' = n /\ Frame(p, n)' = call /\ ~ Waits(p, n)'
  BY <1>1, <1>2, GotoKept, SMTT(40)
<1>4. Types'
  <2>1. Types
    BY Zenon DEF CoherenceInv
  <2>2. Table(tag)' /\ Table(mesi)' /\ Table(dir)'
    BY <2>1, Zenon DEF Types, Alike
  <2>3. QED
    BY <1>2, <2>1, <2>2, Zenon DEF Types, Stacks
<1>5. Shape'
  <2>1. SUFFICES ASSUME NEW q \in Cores, NEW k \in 1..Depth(q)
                 PROVE  ShapeAt(q, k)'
    BY <1>3, Zenon DEF Shape
  <2>2. CASE q = p /\ k = n
    BY <1>3, <2>2, Zenon
  <2>3. CASE q # p \/ k # n
    BY <1>1, <1>3, QuietKept, Zenon DEF CoherenceInv
  <2>4. QED
    BY <2>3, Zenon
<1>6. Order'
  BY <1>1, <1>2, OrderGoto, Zenon DEF CoherenceInv
<1>7. Locks'
  <2>1. SUFFICES ASSUME NEW q \in Cores, NEW k \in 1..Depth(q)
                 PROVE  LockAt(q, k)'
    BY <1>3, Zenon DEF Locks
  <2>2. CASE q = p /\ k = n
    BY <1>3, <2>2, ZenonT(30)
  <2>3. CASE q # p \/ k # n
    <3>1. Frame(q, k)' = Frame(q, k) /\ (Waits(q, k)' <=> Waits(q, k)) /\ LockAt(q, k)
      BY <1>3, <2>3 DEF KeptFrames, CoherenceInv, Locks
    <3>2. Holds(q, k)' <=> Holds(q, k)
      BY <3>1, Zenon DEF Holds
    <3>3. QED
      BY <3>1, <3>2, SMTT(30) DEF LockAt
  <2>4. QED
    BY <2>2, <2>3, Zenon
<1>8. Accesses'
  <2>1. SUFFICES ASSUME NEW q \in Cores, NEW k \in 1..Depth(q)
                 PROVE  AccessAt(q, k)'
    BY <1>3, Zenon DEF Accesses
  <2>2. CASE q = p /\ k = n
    BY <1>3, <2>2, Zenon
  <2>3. CASE q # p \/ k # n
    BY <1>1, <1>3, QuietKept, Zenon DEF CoherenceInv
  <2>4. QED
    BY <2>2, <2>3, Zenon
<1>9. Arrays' /\ Listed' /\ Inclusive' /\ Alone'
  <2>1. \A c, d, v : Upgrades(c, d, v) => Upgrades(c, d, v)'
    BY <1>1, <1>3, UpgradesKept, Zenon
  <2>2. QED
    BY <2>1, QuietData, Zenon
<1>10. Recalls'
  <2>1. SUFFICES ASSUME NEW q \in Cores
                 PROVE  RecallAt(q)'
    BY Zenon DEF Recalls
  <2>2. CASE q # p
    BY <1>3, <2>2, QuietRecall, Zenon DEF KeptFrames
  <2>3. CASE q = p
    <3>1. RecallAt(p) /\ Order /\ n \in 1..Depth(p)
      BY DEF CoherenceInv, Recalls
    <3>2. \A k \in 1..n : IsBase(p, k)' <=> IsBase(p, k)
      <4>1. TAKE k \in 1..n
      <4>2. CASE k = n
        <5>1. ~ Waits(p, n)
          BY DEF Waits
        <5>2. QED
          BY <1>3, <4>2, <5>1, ZenonT(30) DEF IsBase
      <4>3. CASE k # n
        BY <1>3, <4>3, ZenonT(30) DEF IsBase, KeptFrames
      <4>4. QED
        BY <4>2, <4>3, Zenon
    <3>3. CASE IsCall(call)
      <4>1. \A k \in 1..n : IsBase(p, k)' => k = n
        <5>1. IsBase(p, n)
          BY <1>3, <3>2, <3>3, SMTT(30) DEF IsBase
        <5>2. QED
          BY <1>1, <3>1, <3>2, <5>1, OneBase, ZenonT(30)
      <4>2. QED
        BY <1>3, <2>3, <3>3, <4>1, SMTT(40) DEF RecallAt
    <3>4. CASE ~ IsCall(call)
      <4>1. \A k \in 1..n : IsBase(p, k)' => k # n
        BY <1>3, <3>4, Zenon DEF IsBase
      <4>2. \A k \in 1..n : k # n => Frame(p, k)' = Frame(p, k)
        BY <1>3, Zenon DEF KeptFrames
      <4>3. \A k \in 1..n : /\ Frame(p, k)'.line = Frame(p, k).line
                            /\ Frame(p, k)'.cache = Frame(p, k).cache
        BY <1>3, <3>4, <4>2, ZenonT(30)
      <4>4. \A k \in 1..n : \A j \in k + 1 .. n : j \in 1..n
        BY SMTT(40)
      <4>5. QED
        BY <1>3, <2>3, <3>1, <3>2, <3>4, <4>1, <4>2, <4>3, <4>4, SMTT(40) DEF RecallAt
    <3>5. QED
      BY <3>3, <3>4, ZenonT(30)
  <2>4. QED
    BY <2>2, <2>3, Zenon
<1>11. QED
  BY <1>4, <1>5, <1>6, <1>7, <1>8, <1>9, <1>10, ZenonT(30) DEF CoherenceInv

-----------------------------------------------------------------------------
(* The end of an access and the steps of a program                         *)

\* MESICC::endAccess: the child finds the state it asked for.
LEMMA EndAccessKeeps ==
    ASSUME CoherenceInv, NEW p \in Cores, EndAccess(p)
    PROVE  CoherenceInv'
<1>1. PICK n : n = Depth(p)
  OBVIOUS
<1>2. PICK t : t = Frame(p, n)
  OBVIOUS
<1>3. PICK h : h = Frame(p, n - 1)
  OBVIOUS
<1>4. InCall(p, "end")
  BY Zenon DEF EndAccess
<1>5. /\ Stacks /\ stack[p] # <<>> /\ n \in Nat \ {0} /\ n \in 1..Depth(p)
      /\ t = Call(p) /\ t.pc = "end" /\ ~ Waits(p, n) /\ t.cache \in Caches
      /\ t.line \in Lines /\ IsCall(t) /\ t \in Calls /\ IsBase(p, n)
      /\ Holds(p, n) /\ ~ wback[p]
  BY <1>1, <1>2, <1>4, Top DEF Under
<1>6. /\ UNCHANGED <<tag, mesi, dir, wback>> /\ Pop(p)
      /\ t.from # None => bcc[t.from] = None
      /\ bcc' = [d \in Caches |-> IF d = t.cache THEN None
                                  ELSE IF d = t.from THEN p ELSE bcc[d]]
      /\ tcc' = [tcc EXCEPT ![t.cache] = IF t.cache \in Terminals THEN @ ELSE None]
  BY <1>5, Zenon DEF EndAccess
<1>7. Stacks' /\ StackPop(p)
  BY <1>5, <1>6, PopFrames, Zenon
<1>8. /\ \A q \in Cores : Depth(q)' = IF q = p THEN n - 1 ELSE Depth(q)
      /\ \A q \in Cores : \A k \in 1..Depth(q)' :
           /\ k \in 1..Depth(q) /\ Frame(q, k)' = Frame(q, k)
           /\ q # p \/ k # n - 1 => (Waits(q, k)' <=> Waits(q, k))
      /\ n > 1 => ~ Waits(p, n - 1)'
  BY <1>1, <1>5, <1>7, PopKept, Zenon
<1>9. ASSUME n > 1
      PROVE  /\ n - 1 \in 1..Depth(p) /\ Asks(t, h) /\ Waits(p, n - 1)
             /\ h.pc \in Under /\ h.cache \in Caches /\ h \in Calls /\ IsCall(h)
             /\ t.from = h.cache /\ t.slot = h.way /\ h.way \in 1..Ways[h.cache]
             /\ h.cache # t.cache /\ Asked(t)
             /\ LockAt(p, n - 1) /\ AccessAt(p, n - 1)
  <2>1. n \in 1..Depth(p) /\ IsCall(t)
    BY <1>5, Zenon
  <2>2. QED
    BY <1>2, <1>3, <1>9, <2>1, Caller
<1>10. /\ tcc \in [Caches -> Cores \cup {None}] /\ bcc \in [Caches -> Cores \cup {None}]
       /\ \A q \in Cores : q # None
  <2>1. tcc \in [Caches -> Cores \cup {None}] /\ bcc \in [Caches -> Cores \cup {None}]
    BY Zenon DEF CoherenceInv, Types
  <2>2. QED
    BY <2>1, CoherenceAssumption, Zenon
<1>11. bcc' \in [Caches -> Cores \cup {None}] /\ tcc' \in [Caches -> Cores \cup {None}]
  <2>1. \A d \in Caches : bcc[d] \in Cores \cup {None}
    BY <1>10, Zenon
  <2>2. bcc' \in [Caches -> Cores \cup {None}]
    BY <1>6, <2>1, Zenon
  <2>3. tcc' \in [Caches -> Cores \cup {None}]
    BY <1>5, <1>6, <1>10, Zenon
  <2>4. QED
    BY <2>2, <2>3, Zenon
<1>12. \A c \in Caches : c # t.cache => \A q \in Cores :
         (tcc[c] = q => tcc'[c] = q) /\ (bcc[c] = q => bcc'[c] = q)
  <2>1. \A c \in Caches : c # t.cache => tcc'[c] = tcc[c]
    BY <1>5, <1>6, <1>10, Zenon
  <2>2. \A c \in Caches : c # t.cache => bcc'[c] = IF c = t.from THEN p ELSE bcc[c]
    BY <1>6, Zenon
  <2>3. \A c \in Caches : c = t.from => bcc[c] = None
    BY <1>6, CoherenceAssumption, Zenon
  <2>4. QED
    BY <1>10, <2>1, <2>2, <2>3, Zenon
<1>13. n > 1 => bcc'[h.cache] = p
  BY <1>6, <1>9, Zenon
<1>14. Types'
  <2>1. Types
    BY Zenon DEF CoherenceInv
  <2>2. Table(tag)' /\ Table(mesi)' /\ Table(dir)'
    BY <1>6, <2>1, Zenon DEF Types, Table
  <2>3. QED
    BY <1>6, <1>7, <1>11, <2>1, <2>2, Zenon DEF Types, Stacks
<1>15. ASSUME NEW q \in Cores, NEW k \in 1..Depth(q)'
       PROVE  /\ k \in 1..Depth(q) /\ (q # p \/ k # n) /\ Depth(q)' \in Nat
              /\ Frame(q, k)' = Frame(q, k)
              /\ ShapeAt(q, k)' /\ ((Waits(q, k)' <=> Waits(q, k)) => AccessAt(q, k)')
  <2>1. Depth(q) \in Nat
    BY <1>5, FrameTypes, Zenon
  <2>2. k \in 1..Depth(q) /\ (q # p \/ k # n) /\ Depth(q)' \in Nat
    BY <1>1, <1>5, <1>8, <2>1
  <2>3. k > 1 => k - 1 \in 1..Depth(q)'
    BY <2>2
  <2>4. Frame(q, k)' = Frame(q, k) /\ (k > 1 => Frame(q, k - 1)' = Frame(q, k - 1))
    BY <1>8, <2>3, Zenon
  <2>5. t.pc \in Under
    BY <1>5, Zenon DEF Under
  <2>6. QED
    BY <1>1, <1>2, <1>5, <1>6, <2>2, <2>4, <2>5, AccessOthers, Zenon
<1>16. Shape'
  BY <1>15, Zenon DEF Shape
<1>17. Order'
  BY <1>1, <1>5, <1>7, OrderPop, Zenon DEF CoherenceInv
<1>18. Locks'
  <2>1. SUFFICES ASSUME NEW q \in Cores, NEW k \in 1..Depth(q)'
                 PROVE  LockAt(q, k)'
    BY Zenon DEF Locks
  <2>2. CASE q = p /\ k = n - 1
    <3>1. n > 1 /\ Frame(p, n - 1)' = h
      BY <1>3, <1>5, <1>15, <2>1, <2>2
    <3>2. h.cache \notin Terminals => tcc'[h.cache] = p
      BY <1>3, <1>9, <1>12, <3>1 DEF LockAt
    <3>3. QED
      BY <1>13, <2>2, <3>1, <3>2, Zenon DEF LockAt
  <2>3. CASE q # p \/ k # n - 1
    <3>1. (Waits(q, k)' <=> Waits(q, k)) /\ Frame(q, k)' = Frame(q, k)
      BY <1>8, <2>1, <2>3, Zenon
    <3>2. Holds(q, k)' => Holds(q, k)
      BY <3>1, Zenon DEF Holds
    <3>3. k \in 1..Depth(q) /\ (q # p \/ k # n) /\ t.pc \in Under
      BY <1>5, <1>15, <2>1, Zenon DEF Under
    <3>4. QED
      <4>1. n \in 1..Depth(p) /\ Holds(p, n)
        BY <1>5, Zenon
      <4>2. QED
        BY <1>1, <1>2, <1>12, <3>1, <3>2, <3>3, <4>1, LockOthers, Zenon
  <2>4. QED
    BY <2>2, <2>3, Zenon
<1>19. Accesses'
  <2>1. SUFFICES ASSUME NEW q \in Cores, NEW k \in 1..Depth(q)'
                 PROVE  AccessAt(q, k)'
    BY Zenon DEF Accesses
  <2>2. CASE q = p /\ k = n - 1
    <3>1. n > 1 /\ Frame(p, n - 1)' = h /\ ~ Waits(p, n - 1)'
      BY <1>3, <1>5, <1>8, <1>15, <2>1, <2>2
    <3>2. Progress(h, n - 1, TRUE) /\ (n - 1 > 1 => Asked(h))
      <4>1. AccessAt(p, n - 1) /\ IsCall(h) /\ Waits(p, n - 1)
        BY <1>9, <3>1, Zenon
      <4>2. Progress(h, n - 1, Waits(p, n - 1)) /\ (n - 1 > 1 => Asked(h))
        BY <1>3, <4>1, Zenon DEF AccessAt
      <4>3. QED
        BY <4>1, <4>2, Zenon DEF Progress
    <3>3. Progress(h, n - 1, FALSE)
      <4>1. CASE t.type \in Gets
        <5>1. /\ h.type = t.type /\ tag[h.cache][h.way] = h.line
              /\ h.pc = AfterFetch(h)
              /\ mesi[h.cache][h.way] # "I"
              /\ h.type = "GETX" => mesi[h.cache][h.way] = "M"
          BY <1>5, <1>9, <3>1, <4>1, ZenonT(60) DEF Asks, Asked, Gets
        <5>2. h.type \notin Puts /\ h.type # "PUTX" /\ h.pc \in {"grant", "end"}
          BY <4>1, <5>1, Zenon DEF Gets, Puts, AfterFetch
        <5>3. QED
          BY <3>2, <5>1, <5>2, Zenon DEF Progress
      <4>2. CASE t.type \in Puts
        <5>1. /\ h.pc = "fetch" /\ Absent(h.cache, h.line) /\ h.type \in Gets
              /\ dir[h.cache][h.way].sharers = {}
              /\ mesi[h.cache][h.way] = "I"
          BY <1>5, <1>9, <3>1, <4>2, Zenon DEF Asks, Asked
        <5>2. MustFetch(h.type, "I")
          BY <5>1, Zenon DEF MustFetch, Gets
        <5>3. QED
          BY <3>2, <5>1, <5>2, Zenon DEF Progress
      <4>3. QED
        BY <1>5, <4>1, <4>2, Zenon DEF Calls
    <3>4. Progress(Frame(p, n - 1), n - 1, Waits(p, n - 1))'
      BY <1>6, <3>1, <3>3, Zenon DEF Progress, Absent
    <3>5. n - 1 > 1 => Asked(Frame(p, n - 1))'
      BY <1>6, <3>1, <3>2, Zenon DEF Asked
    <3>6. QED
      BY <2>2, <3>4, <3>5, Zenon DEF AccessAt
  <2>3. CASE q # p \/ k # n - 1
    BY <1>8, <1>15, <2>1, <2>3, Zenon
  <2>4. QED
    BY <2>2, <2>3, Zenon
<1>20. Arrays' /\ Listed' /\ Inclusive' /\ Alone'
  <2>1. ASSUME NEW q \in Cores, NEW k \in 1..Depth(q),
               Frame(q, k).pc = "grant", ~ Waits(q, k)
        PROVE  k \in 1..Depth(q)' /\ Frame(q, k)' = Frame(q, k) /\ ~ Waits(q, k)'
    <3>1. q # p \/ k # n
      BY <1>2, <1>5, <2>1, Zenon
    <3>2. k \in 1..Depth(q)'
      BY <1>1, <1>5, <1>8, <3>1, FrameTypes, SMTT(30)
    <3>3. QED
      BY <1>5, <1>8, <1>9, <2>1, <3>2
  <2>2. \A c, d, v : Upgrades(c, d, v) => Upgrades(c, d, v)'
    BY <2>1 DEF Upgrades
  <2>3. Alike(p)
    BY <1>6, SameStates, Zenon
  <2>4. QED
    BY <1>6, <2>2, <2>3, QuietData, Zenon
<1>21. Recalls'
  <2>1. SUFFICES ASSUME NEW q \in Cores
                 PROVE  RecallAt(q)'
    BY Zenon DEF Recalls
  <2>2. CASE q # p
    <3>1. /\ wback'[q] = wback[q] /\ Depth(q)' = Depth(q)
          /\ \A k \in 1..Depth(q) :
               Frame(q, k)' = Frame(q, k) /\ (Waits(q, k)' <=> Waits(q, k))
      BY <1>6, <1>8, <2>2, Zenon
    <3>2. Alike(p)
      BY <1>6, SameStates, Zenon
    <3>3. QED
      BY <1>6, <2>2, <3>1, <3>2, QuietRecall, Zenon
  <2>3. CASE q = p
    <3>1. \A k \in 1..n - 1 : IsBase(p, k)' => k = n - 1
      <4>1. SUFFICES ASSUME NEW k \in 1..n - 1, IsBase(p, k)', k # n - 1
                     PROVE  FALSE
        OBVIOUS
      <4>2. k \in 1..Depth(p)' /\ k \in 1..Depth(p) /\ k # n
        BY <1>1, <1>5, <1>8, <4>1
      <4>3. IsBase(p, k)
        BY <1>8, <4>1, <4>2, Zenon DEF IsBase, IsCall
      <4>4. QED
        BY <1>5, <4>2, <4>3, InvParts, OneBase, Zenon
    <3>2. ~ wback'[p] /\ Depth(p)' = n - 1
      BY <1>5, <1>6, <1>8, Zenon
    <3>3. \A k \in 1..n - 1 : k = n - 1 => k + 1 .. n - 1 = {}
      BY <1>5
    <3>4. QED
      BY <2>3, <3>1, <3>2, <3>3, Zenon DEF RecallAt
  <2>4. QED
    BY <2>2, <2>3, Zenon
<1>22. QED
  BY <1>14, <1>16, <1>17, <1>18, <1>19, <1>20, <1>21, Zenon DEF CoherenceInv

\* An outermost call that has not taken a lock breaks nothing.
LEMMA EnterKeeps ==
    ASSUME CoherenceInv, NEW p \in Cores, NEW f \in Calls, Enters(p, f),
           Outermost(p, f), f.pc \in Pending, f.pc = "bcc" => f.cache \in Terminals
    PROVE  CoherenceInv'
<1>1. /\ Stacks' /\ Depth(p) = 0 /\ Depth(p)' = 1 /\ Frame(p, 1)' = f
      /\ \A q \in Cores : q # p => Depth(q)' = Depth(q)
      /\ \A q \in Cores : q # p => \A k \in 1..Depth(q) :
           Frame(q, k)' = Frame(q, k) /\ (Waits(q, k)' <=> Waits(q, k))
      /\ ~ Waits(p, 1)'
  BY EnterFrames, InvParts, Zenon
<1>2. UNCHANGED <<tag, mesi, dir, tcc, bcc, wback>>
  BY Zenon DEF Enters
<1>3. Types'
  BY <1>1, <1>2, ZenonT(30) DEF CoherenceInv, Types, Stacks, Table
<1>4. f.pc \notin Under /\ f.pc \notin {"inv", "down", "panic"} /\ IsCall(f)
  BY ZenonT(30) DEF Pending, Under, IsCall
<1>5. ASSUME NEW q \in Cores, NEW k \in 1..Depth(q)', q # p
      PROVE  /\ k \in 1..Depth(q) /\ Frame(q, k)' = Frame(q, k)
             /\ (Waits(q, k)' <=> Waits(q, k))
             /\ k > 1 => Frame(q, k - 1)' = Frame(q, k - 1)
  <2>1. Depth(q) \in Nat
    BY InvParts, FrameTypes, ZenonT(30)
  <2>2. QED
    BY <1>1, <1>5, <2>1, SMTT(30)
<1>6. ASSUME NEW q \in Cores, NEW k \in 1..Depth(q)', q = p
      PROVE  k = 1 /\ Frame(q, k)' = f /\ ~ Waits(q, k)'
  BY <1>1, <1>6, SMTT(30)
<1>7. Shape'
  <2>1. SUFFICES ASSUME NEW q \in Cores, NEW k \in 1..Depth(q)'
                 PROVE  ShapeAt(q, k)'
    BY ZenonT(30) DEF Shape
  <2>2. CASE q = p
    BY <1>4, <1>6, <2>2, SMTT(40) DEF ShapeAt, Outermost
  <2>3. CASE q # p
    <3>1. /\ ShapeAt(q, k) /\ Frame(q, k)' = Frame(q, k)
          /\ k > 1 => Frame(q, k - 1)' = Frame(q, k - 1)
      BY <1>5, <2>3, InvParts, ZenonT(30) DEF Shape
    <3>2. QED
      BY <1>2, <3>1, Zenon DEF ShapeAt, Outermost, Asks, Tells, Absent
  <2>4. QED
    BY <2>2, <2>3, Zenon
<1>8. Accesses' /\ Locks'
  <2>1. SUFFICES ASSUME NEW q \in Cores, NEW k \in 1..Depth(q)'
                 PROVE  AccessAt(q, k)' /\ LockAt(q, k)'
    BY ZenonT(30) DEF Accesses, Locks
  <2>2. CASE q = p
    BY <1>4, <1>6, <2>2, SMTT(40) DEF AccessAt, Progress, LockAt, Holds, Under
  <2>3. CASE q # p
    <3>1. /\ AccessAt(q, k) /\ LockAt(q, k) /\ Frame(q, k)' = Frame(q, k)
          /\ (Waits(q, k)' <=> Waits(q, k))
      BY <1>5, <2>3, InvParts, Zenon DEF Accesses, Locks
    <3>2. AccessAt(q, k)'
      BY <1>2, <3>1, Zenon DEF AccessAt, Progress, Asked, Absent
    <3>3. LockAt(q, k)'
      BY <1>2, <3>1, ZenonT(30) DEF LockAt, Holds
    <3>4. QED
      BY <3>2, <3>3, ZenonT(30)
  <2>4. QED
    BY <2>2, <2>3, Zenon
<1>9. Order'
  <2>1. SUFFICES ASSUME NEW q \in Cores, NEW j \in 1..Depth(q)', NEW k \in 1..Depth(q)',
                        j < k
                 PROVE  /\ IsCall(Frame(q, k)') => IsCall(Frame(q, j)')
                             /\ Rank[Frame(q, k)'.cache] < Rank[Frame(q, j)'.cache]
                        /\ ~ IsCall(Frame(q, k)')
                           /\ (IsCall(Frame(q, j)') => IsBase(q, j)') =>
                             Rank[Frame(q, j)'.cache] < Rank[Frame(q, k)'.cache]
    BY Zenon DEF Order, IsCall, Rank
  <2>2. q # p
    BY <1>6, <2>1
  <2>3. j \in 1..Depth(q) /\ k \in 1..Depth(q) /\ Frame(q, j)' = Frame(q, j)
        /\ Frame(q, k)' = Frame(q, k) /\ (IsBase(q, j)' <=> IsBase(q, j))
    BY <1>5, <2>2, ZenonT(30) DEF IsBase, IsCall
  <2>4. QED
    BY <2>1, <2>3, InvParts, SMTT(40) DEF Order
<1>10. \A y, d, v : Upgrades(y, d, v) => Upgrades(y, d, v)'
  <2>1. ASSUME NEW q \in Cores, NEW k \in 1..Depth(q)
        PROVE  k \in 1..Depth(q)' /\ Frame(q, k)' = Frame(q, k)
               /\ (Waits(q, k)' <=> Waits(q, k))
    <3>1. q # p
      BY <1>1, <2>1, SMTT(30)
    <3>2. QED
      BY <1>1, <3>1, ZenonT(30)
  <2>2. QED
    BY <2>1, SMTT(30) DEF Upgrades
<1>11. Arrays' /\ Listed' /\ Alone'
  BY <1>2, SMTT(40) DEF CoherenceInv, Arrays, Listed, Alone
<1>12. Inclusive'
  <2>1. \A d, v, c, w : Covers(d, v, c, w) => Covers(d, v, c, w)'
    BY <1>2, <1>10, SMTT(40) DEF Covers
  <2>2. Inclusive
    BY Zenon DEF CoherenceInv
  <2>3. QED
    BY <1>2, <2>1, <2>2, Zenon DEF Inclusive
<1>13. Recalls'
  <2>1. SUFFICES ASSUME NEW q \in Cores
                 PROVE  RecallAt(q)'
    BY Zenon DEF Recalls
  <2>2. RecallAt(q)
    BY ZenonT(30) DEF CoherenceInv, Recalls
  <2>3. CASE q = p
    <3>1. ~ wback'[p] /\ Depth(p)' = 1 /\ wback' = wback
      BY <1>1, <1>2, <2>2, <2>3, SMTT(40) DEF RecallAt
    <3>2. QED
      BY <2>3, <3>1, SMTT(40) DEF RecallAt
  <2>4. CASE q # p
    <3>1. \A k \in 1..Depth(q) : /\ Frame(q, k)' = Frame(q, k)
                                 /\ IsBase(q, k)' <=> IsBase(q, k)
      BY <1>1, <2>4, ZenonT(30) DEF IsBase, IsCall
    <3>2. Depth(q)' = Depth(q) /\ Depth(q) \in Nat
      BY <1>1, <2>4, InvParts, FrameTypes, ZenonT(30)
    <3>3. \A k \in 1..Depth(q) : \A j \in k + 1 .. Depth(q) : j \in 1..Depth(q)
      BY <3>2
    <3>4. ASSUME NEW k \in 1..Depth(q), IsBase(q, k)'
          PROVE  LET b == Frame(q, k)'
                 IN /\ wback[q] => /\ b.pc \in {"evict", "grant"}
                                   /\ mesi[b.cache][b.way] \in Exclusive
                    /\ \A j \in k + 1 .. Depth(q) :
                         LET g == Frame(q, j)'
                         IN /\ g.line = tag[b.cache][b.way]
                            /\ \A w \in 1..Ways[g.cache] :
                                 tag[g.cache][w] = g.line /\ mesi[g.cache][w] \in Exclusive
                                 => mesi[b.cache][b.way] \in Exclusive
      BY <2>2, <3>1, <3>3, <3>4, ZenonT(30) DEF RecallAt
    <3>5. wback[q] => Depth(q) > 0
      BY <2>2, Zenon DEF RecallAt
    <3>6. QED
      BY <1>2, <3>2, <3>4, <3>5, ZenonT(30) DEF RecallAt
  <2>5. QED
    BY <2>3, <2>4, Zenon
<1>14. QED
  BY <1>3, <1>7, <1>8, <1>9, <1>11, <1>12, <1>13, ZenonT(30) DEF CoherenceInv

\* A step that leaves the hierarchy and the stacks alone.
LEMMA StillKeeps ==
    ASSUME CoherenceInv, UNCHANGED <<tag, mesi, dir, tcc, bcc, stack, wback>>
    PROVE  CoherenceInv'
<1>1. \A p, k : Depth(p)' = Depth(p) /\ Frame(p, k)' = Frame(p, k)
  BY Zenon DEF Depth, Frame
<1>2. \A p, k : /\ Waits(p, k)' <=> Waits(p, k)
                /\ IsBase(p, k)' <=> IsBase(p, k)
                /\ Holds(p, k)' <=> Holds(p, k)
  BY <1>1, ZenonT(30) DEF Waits, IsBase, Holds, IsCall
<1>3. Types' /\ Arrays' /\ Listed' /\ Alone'
  <2>1. Types'
    BY ZenonT(30) DEF CoherenceInv, Types, Table
  <2>2. Arrays' /\ Listed' /\ Alone'
    BY SMTT(40) DEF CoherenceInv, Arrays, Listed, Alone
  <2>3. QED
    BY <2>1, <2>2, ZenonT(30)
<1>4. Shape'
  <2>1. ASSUME NEW p \in Cores, NEW k \in 1..Depth(p), ShapeAt(p, k)
        PROVE  ShapeAt(p, k)'
    <3>1. PICK f, h : f = Frame(p, k) /\ h = Frame(p, k - 1)
      BY Zenon
    <3>2. f = Frame(p, k)' /\ h = Frame(p, k - 1)'
      BY <1>1, <3>1, Zenon
    <3>3. (Asks(f, h) => Asks(f, h)') /\ (Tells(f, h) => Tells(f, h)')
      BY ZenonT(30) DEF Asks, Tells, Absent
    <3>4. QED
      BY ONLY <2>1, <3>1, <3>2, <3>3, ZenonT(30) DEF ShapeAt
  <2>2. QED
    BY <1>1, <2>1, Zenon DEF CoherenceInv, Shape
<1>5. Order'
  <2>1. SUFFICES ASSUME NEW p \in Cores, NEW j \in 1..Depth(p), NEW k \in 1..Depth(p),
                        j < k
                 PROVE  /\ IsCall(Frame(p, k)) => IsCall(Frame(p, j))
                             /\ Rank[Frame(p, k).cache] < Rank[Frame(p, j).cache]
                        /\ ~ IsCall(Frame(p, k)) /\ (IsCall(Frame(p, j)) => IsBase(p, j)) =>
                             Rank[Frame(p, j).cache] < Rank[Frame(p, k).cache]
    BY <1>1, <1>2, ZenonT(30) DEF Order, IsCall, Rank
  <2>2. QED
    BY <2>1, Zenon DEF CoherenceInv, Order
<1>6. Locks' /\ Accesses'
  <2>1. \A p \in Cores : \A k \in 1..Depth(p) : LockAt(p, k) => LockAt(p, k)'
    BY <1>1, <1>2, ZenonT(30) DEF LockAt
  <2>2. ASSUME NEW p \in Cores, NEW k \in 1..Depth(p), AccessAt(p, k)
        PROVE  AccessAt(p, k)'
    <3>1. Frame(p, k)' = Frame(p, k) /\ (Waits(p, k)' <=> Waits(p, k))
      BY <1>1, <1>2, ZenonT(30)
    <3>2. QED
      BY <2>2, <3>1, ZenonT(30) DEF AccessAt, Progress, Asked, Absent
  <2>3. QED
    BY <1>1, <2>1, <2>2, Zenon DEF CoherenceInv, Locks, Accesses
<1>7. Inclusive'
  <2>1. \A y, d, v : Upgrades(y, d, v) => Upgrades(y, d, v)'
    BY <1>1, <1>2, SMTT(30) DEF Upgrades
  <2>2. \A d, v, c, w : Covers(d, v, c, w) => Covers(d, v, c, w)'
    BY <2>1, SMTT(40) DEF Covers
  <2>3. QED
    BY <2>2, ZenonT(30) DEF CoherenceInv, Inclusive
<1>8. Recalls'
  <2>1. \A p \in Cores : RecallAt(p) => RecallAt(p)'
    BY <1>1, <1>2, SMTT(40) DEF RecallAt
  <2>2. QED
    BY <2>1, Zenon DEF CoherenceInv, Recalls
<1>9. QED
  BY <1>3, <1>4, <1>5, <1>6, <1>7, <1>8, ZenonT(30) DEF CoherenceInv

\* FilterCache::load, store and fetch miss, and a walk begins.
LEMMA ProgramKeeps ==
    ASSUME CoherenceInv, NEW p \in Cores, Program(p)
    PROVE  CoherenceInv'
<1>1. ASSUME NEW op \in DOMAIN L1[p], NEW v \in Lines, Access(p, op, v)
      PROVE  CoherenceInv'
  <2>1. PICK f : f = Request(L1[p][op], Phys[v], IF op = "store" THEN "GETX" ELSE "GETS",
                             IF op = "fetch" THEN {"NOEXCL"} ELSE {}, None, 0, "I", v)
    BY SMTT(30)
  <2>2. Enters(p, f)
    BY <1>1, <2>1, ZenonT(30) DEF Access, Enters
  <2>3. L1[p][op] \in Caches /\ L1[p][op] \in Terminals /\ Phys[v] \in Lines
    BY CoherenceAssumption, TreeFacts, ZenonT(30)
  <2>4. f \in Calls /\ f.pc \in Pending /\ f.cache = L1[p][op]
    BY <2>1, <2>3, ZenonT(30) DEF Request, Calls, Pending, Gets, MESI
  <2>5. Outermost(p, f)
    BY <2>1, <2>3, ZenonT(30) DEF Request, Outermost, Gets
  <2>6. QED
    BY <2>2, <2>3, <2>4, <2>5, EnterKeeps, Zenon
<1>2. ASSUME NEW l \in Lines, Walk(p, l)
      PROVE  CoherenceInv'
  <2>1. PICK f : f = Request(LLC(l), l, "GETS", {"PTW"}, None, 0, "I", None)
    OBVIOUS
  <2>2. Enters(p, f)
    BY <1>2, <2>1, ZenonT(30) DEF Walk, Enters
  <2>3. LLC(l) \in Caches /\ LLC(l) \notin Terminals
    BY TreeFacts, Zenon
  <2>4. f \in Calls /\ f.pc \in Pending /\ f.pc # "bcc"
    BY <2>1, <2>3, ZenonT(30) DEF Request, Calls, Pending, Gets, MESI
  <2>5. Outermost(p, f)
    BY <2>1, <2>3, ZenonT(30) DEF Request, Outermost, Gets
  <2>6. QED
    BY <2>2, <2>4, <2>5, EnterKeeps, ZenonT(30)
<1>3. ASSUME ContextSwitch(p)
      PROVE  CoherenceInv'
  BY <1>3, StillKeeps, Zenon DEF ContextSwitch
<1>4. QED
  BY <1>1, <1>2, <1>3, Zenon DEF Program

\* MESICC::startAccess's first lock.
LEMMA LockTopKeeps ==
    ASSUME CoherenceInv, NEW p \in Cores, LockTop(p)
    PROVE  CoherenceInv'
<1>1. PICK n : n = Depth(p)
  OBVIOUS
<1>2. PICK t : t = Frame(p, n)
  OBVIOUS
<1>3. PICK call : call = [t EXCEPT !.pc = "bcc"]
  BY Zenon
<1>4. /\ Stacks /\ stack[p] # <<>> /\ n \in Nat \ {0} /\ n \in 1..Depth(p)
      /\ t = Call(p) /\ t.pc = "tcc" /\ ~ Waits(p, n) /\ t.cache \in Caches
      /\ IsCall(t) /\ t \in Calls /\ IsBase(p, n)
      /\ ShapeAt(p, n) /\ AccessAt(p, n) /\ ~ wback[p]
  BY <1>1, <1>2, Top DEF LockTop
<1>5. /\ call \in Calls /\ call.pc = "bcc" /\ IsCall(call) /\ call.cache = t.cache
      /\ call.line = t.line /\ call.type = t.type /\ call.flags = t.flags
      /\ call.from = t.from /\ call.slot = t.slot /\ call.init = t.init
      /\ call.way = t.way /\ call.vline = t.vline
  BY <1>3, <1>4, Zenon DEF Calls, IsCall
<1>6. Goto(p, call) /\ UNCHANGED <<tag, mesi, dir, wback, bcc>>
  BY <1>3, <1>4, Zenon DEF LockTop
<1>7. /\ tcc[t.cache] = None /\ tcc' = [tcc EXCEPT ![t.cache] = p]
      /\ tcc \in [Caches -> Cores \cup {None}] /\ bcc \in [Caches -> Cores \cup {None}]
  BY <1>4, Zenon DEF LockTop, CoherenceInv, Types
<1>8. /\ tcc' \in [Caches -> Cores \cup {None}] /\ bcc' \in [Caches -> Cores \cup {None}]
      /\ tcc'[t.cache] = p
      /\ \A c \in Caches : c # t.cache => tcc'[c] = tcc[c]
  BY <1>4, <1>6, <1>7, Zenon
<1>9. \A q \in Cores : \A k \in 1..Depth(q) : q # p \/ k # n =>
        /\ tcc[Frame(q, k).cache] = q => tcc'[Frame(q, k).cache] = q
        /\ bcc[Frame(q, k).cache] = q => bcc'[Frame(q, k).cache] = q
  BY <1>4, <1>6, <1>7, FrameFields, CoherenceAssumption, Zenon
<1>10. StackGoto(p, call)
  BY <1>4, <1>5, <1>6, GotoFrames, Zenon
<1>11. KeptFrames(p) /\ Frame(p, n)' = call /\ ~ Waits(p, n)'
  BY <1>1, <1>2, <1>4, <1>5, <1>10, GotoKept, ZenonT(30)
<1>12. n > 1 => Frame(p, n - 1)' = Frame(p, n - 1)
  BY <1>1, <1>4, <1>11, KeptCaller, Zenon
<1>13. ShapeAt(p, n)'
  <2>1. /\ n = 1 => Outermost(p, t)
        /\ n > 1 => Asks(t, Frame(p, n - 1))
    BY <1>2, <1>4, Zenon DEF ShapeAt
  <2>2. Outermost(p, t) => Outermost(p, call)
    BY <1>5, Zenon DEF Outermost
  <2>3. n > 1 /\ Asks(t, Frame(p, n - 1)) => Asks(call, Frame(p, n - 1))'
    BY <1>5, <1>6, <1>12, ZenonT(30) DEF Asks, Absent, AfterFetch
  <2>4. QED
    BY <1>5, <1>11, <2>1, <2>2, <2>3, ZenonT(30) DEF ShapeAt, Outermost
<1>14. AccessAt(p, n)'
  <2>1. Progress(Frame(p, n), n, Waits(p, n))'
    BY <1>5, <1>11, Zenon DEF Progress, Under
  <2>2. n > 1 => Asked(t)
    BY <1>2, <1>4, Zenon DEF AccessAt
  <2>3. n > 1 => Asked(Frame(p, n))'
    BY <1>4, <1>5, <1>6, <1>11, <2>2, Zenon DEF Asked, Pending
  <2>4. QED
    BY <2>1, <2>3, Zenon DEF AccessAt
<1>15. LockAt(p, n)'
  BY <1>5, <1>8, <1>11, Zenon DEF LockAt, Holds, Under
<1>16. QED
  <2>1. IsCall(call) <=> IsCall(Frame(p, n))
    BY <1>2, <1>4, <1>5, Zenon
  <2>2. call.cache = Frame(p, n).cache /\ Frame(p, n).pc # "grant"
    BY <1>2, <1>4, <1>5, Zenon
  <2>3. Alike(p) /\ \A c \in Caches : \A w \in 1..Ways[c] : mesi'[c][w] \in MESI
    BY <1>6, SameStates, Zenon
  <2>4. QED
    BY <1>1, <1>4, <1>5, <1>6, <1>8, <1>9, <1>13, <1>14, <1>15, <2>1, <2>2, <2>3,
       QuietGoto, ZenonT(60)

\* Cache::startInvalidate finds the line it was sent for.
LEMMA StartInvalidateKeeps ==
    ASSUME CoherenceInv, NEW p \in Cores, StartInvalidate(p)
    PROVE  CoherenceInv'
<1>1. PICK n : n = Depth(p)
  OBVIOUS
<1>2. PICK t : t = Frame(p, n)
  OBVIOUS
<1>3. PICK w : w = Lookup(t.cache, t.line)
  OBVIOUS
<1>4. PICK call : call = [t EXCEPT !.pc = "down", !.way = w]
  OBVIOUS
<1>5. PICK h : h = Frame(p, n - 1)
  OBVIOUS
<1>6. /\ Stacks /\ stack[p] # <<>> /\ n \in Nat \ {0} /\ n \in 1..Depth(p)
      /\ t = Call(p) /\ t.pc = "inv" /\ t.cache \in Caches /\ t.line \in Lines
      /\ ~ IsCall(t) /\ t \in Invs /\ ShapeAt(p, n)
  BY <1>1, <1>2, Top, ZenonT(30) DEF StartInvalidate
<1>7. n > 1 /\ Tells(t, h) /\ h.cache \in Caches
  BY <1>2, <1>5, <1>6, FrameFields DEF ShapeAt
<1>8. w \in 1..Ways[t.cache] /\ tag[t.cache][w] = t.line
  <2>1. \E v \in 1..Ways[t.cache] : tag[t.cache][v] = t.line
    BY <1>7, SMTT(40) DEF Tells, CoherenceInv, Listed
  <2>2. QED
    BY <1>3, <1>6, <2>1, LookupFinds, ZenonT(30) DEF Absent
<1>9. w \in Nat
  BY <1>8
<1>10. /\ call \in Invs /\ call.pc = "down" /\ ~ IsCall(call) /\ call.cache = t.cache
       /\ call.line = t.line /\ call.type = t.type /\ call.way = w
  BY <1>4, <1>6, <1>9, Zenon DEF Invs, IsCall
<1>11. /\ Goto(p, call) /\ UNCHANGED <<tag, mesi, dir, wback, tcc>>
       /\ TakesBcc(p, t.cache)
  BY <1>3, <1>4, <1>6, Zenon DEF StartInvalidate, TakesBcc
<1>12. /\ bcc' \in [Caches -> Cores \cup {None}] /\ bcc'[t.cache] = p
       /\ \A q \in Cores : \A d \in Caches : bcc[d] = q => bcc'[d] = q
       /\ tcc' \in [Caches -> Cores \cup {None}]
  BY <1>6, <1>11, TakeBcc, Zenon DEF CoherenceInv, Types
<1>13. StackGoto(p, call)
  BY <1>6, <1>10, <1>11, GotoFrames, Zenon
<1>14. KeptFrames(p) /\ Frame(p, n)' = call /\ ~ Waits(p, n)'
  BY <1>1, <1>2, <1>6, <1>10, <1>13, GotoKept, Zenon
<1>15. Frame(p, n - 1)' = h
  BY <1>1, <1>5, <1>6, <1>7, <1>14 DEF KeptFrames
<1>16. ShapeAt(p, n)'
  BY <1>7, <1>8, <1>10, <1>11, <1>14, <1>15, Zenon DEF ShapeAt, Tells
<1>17. AccessAt(p, n)'
  BY <1>10, <1>14, Zenon DEF AccessAt
<1>18. LockAt(p, n)'
  BY <1>10, <1>12, <1>14, Zenon DEF LockAt, Under
<1>19. \A q \in Cores : \A k \in 1..Depth(q) : q # p \/ k # n =>
        /\ tcc[Frame(q, k).cache] = q => tcc'[Frame(q, k).cache] = q
        /\ bcc[Frame(q, k).cache] = q => bcc'[Frame(q, k).cache] = q
  BY <1>6, <1>11, <1>12, FrameFields, ZenonT(30)
<1>20. QED
  <2>1. IsCall(call) <=> IsCall(Frame(p, n))
    BY <1>2, <1>6, <1>10, Zenon
  <2>2. /\ call.cache = Frame(p, n).cache /\ Frame(p, n).pc # "grant"
        /\ call.line = Frame(p, n).line
    BY <1>2, <1>6, <1>10, Zenon
  <2>3. Alike(p) /\ \A c \in Caches : \A v \in 1..Ways[c] : mesi'[c][v] \in MESI
    BY <1>11, SameStates, Zenon
  <2>4. QED
    BY <1>1, <1>6, <1>10, <1>11, <1>12, <1>16, <1>17, <1>18, <1>19, <2>1, <2>2, <2>3,
       QuietGoto, ZenonT(60)

\* An access that has taken bcc goes on as `call`.
LEMMA Started ==
    ASSUME CoherenceInv, NEW p \in Cores, InCall(p, "bcc"),
           NEW n, n = Depth(p), NEW t, t = Frame(p, n),
           NEW call, SameCall(call, t), call.pc \in Under, Goto(p, call),
           call.type = t.type \/ {call.type, t.type} \subseteq Puts,
           TakesBcc(p, t.cache), UNCHANGED <<tag, dir, tcc, wback>>, Alike(p),
           \A c \in Caches : \A w \in 1..Ways[c] : mesi'[c][w] \in MESI,
           Progress(call, n, FALSE)', n > 1 => Asked(call)'
    PROVE  CoherenceInv'
<1>1. /\ Stacks /\ stack[p] # <<>> /\ n \in Nat \ {0} /\ n \in 1..Depth(p)
      /\ t = Call(p) /\ t.pc = "bcc" /\ t.cache \in Caches
      /\ IsCall(t) /\ t \in Calls /\ ShapeAt(p, n) /\ LockAt(p, n) /\ ~ wback[p]
  BY ONLY CoherenceInv, p \in Cores, InCall(p, "bcc"), n = Depth(p), t = Frame(p, n),
     Top
<1>2. /\ call \in Calls /\ IsCall(call) /\ call.cache = t.cache /\ call.line = t.line
      /\ call.flags = t.flags /\ call.from = t.from /\ call.slot = t.slot
      /\ call.init = t.init /\ call.vline = t.vline
  BY Zenon DEF SameCall
<1>3. /\ bcc' \in [Caches -> Cores \cup {None}] /\ bcc'[t.cache] = p
      /\ \A q \in Cores : \A d \in Caches : bcc[d] = q => bcc'[d] = q
      /\ tcc' \in [Caches -> Cores \cup {None}]
  BY <1>1, TakeBcc, Zenon DEF CoherenceInv, Types
<1>4. StackGoto(p, call)
  BY <1>1, <1>2, GotoFrames, Zenon
<1>5. KeptFrames(p) /\ Frame(p, n)' = call /\ ~ Waits(p, n)'
  BY <1>1, <1>2, <1>4, GotoKept, Zenon
<1>6. n > 1 => Frame(p, n - 1)' = Frame(p, n - 1)
  BY <1>1, <1>5, KeptCaller, Zenon
<1>7. ShapeAt(p, n)'
  <2>1. call.pc # "panic" /\ (call.type \in Gets <=> t.type \in Gets)
        /\ (call.type \in Gets => call.type = t.type)
        /\ (call.type \in Puts <=> t.type \in Puts)
    BY <1>2, Zenon DEF Under, Gets, Puts
  <2>2. n = 1 => Outermost(p, call)
    BY <1>1, <1>2, <2>1, ZenonT(30) DEF ShapeAt, Outermost
  <2>3. n > 1 => Asks(call, Frame(p, n - 1))
    BY <1>1, <1>2, <2>1, ZenonT(30) DEF ShapeAt, Asks
  <2>4. n = 1 => Outermost(p, Frame(p, n))'
    BY <1>5, <2>2, Zenon
  <2>5. n > 1 => Asks(Frame(p, n), Frame(p, n - 1))'
    BY <1>5, <1>6, <2>3, ZenonT(60) DEF Asks, Absent, IsCall
  <2>6. QED
    BY <1>2, <1>5, <2>1, <2>4, <2>5, Zenon DEF ShapeAt, IsCall
<1>8. AccessAt(p, n)'
  <2>1. Progress(Frame(p, n), n, Waits(p, n))'
    BY <1>5, Zenon DEF Progress
  <2>2. n > 1 => Asked(Frame(p, n))'
    BY <1>5, ZenonT(30)
  <2>3. QED
    BY <2>1, <2>2, Zenon DEF AccessAt
<1>9. LockAt(p, n)'
  BY <1>1, <1>2, <1>3, <1>5, ZenonT(30) DEF LockAt
<1>10. \A q \in Cores : \A k \in 1..Depth(q) : q # p \/ k # n =>
        /\ tcc[Frame(q, k).cache] = q => tcc'[Frame(q, k).cache] = q
        /\ bcc[Frame(q, k).cache] = q => bcc'[Frame(q, k).cache] = q
  BY <1>1, <1>3, FrameFields, Zenon
<1>11. QED
  <2>1. IsCall(call) <=> IsCall(Frame(p, n))
    BY <1>1, <1>2, Zenon
  <2>2. call.cache = Frame(p, n).cache /\ Frame(p, n).pc # "grant"
    BY <1>1, <1>2, Zenon
  <2>3. UNCHANGED <<tag, dir, wback>> /\ call \in Calls \cup Invs
    BY <1>2, Zenon
  <2>4. /\ IsCall(call) => ~ wback[p]
        /\ ~ IsCall(call) => call.line = Frame(p, n).line /\ UNCHANGED mesi
    BY <1>1, <1>2, Zenon
  <2>5. /\ CoherenceInv /\ Goto(p, call) /\ Alike(p)
        /\ n \in Nat \ {0} /\ n = Depth(p) /\ stack[p] # <<>>
        /\ \A c \in Caches : \A w \in 1..Ways[c] : mesi'[c][w] \in MESI
    BY <1>1, ZenonT(30)
  <2>6. QED
    BY ONLY <1>3, <1>7, <1>8, <1>9, <1>10, <2>1, <2>2, <2>3, <2>4, <2>5, QuietGoto,
       SMTT(30)

\* A request that was not skipped, or is no writeback, finds its line in the
\* child as it left it or, for a PUTX, at least shared.
LEMMA StartAccessKeeps ==
    ASSUME CoherenceInv, NEW p \in Cores, StartAccess(p)
    PROVE  CoherenceInv'
<1>1. PICK n : n = Depth(p)
  OBVIOUS
<1>2. PICK t : t = Frame(p, n)
  OBVIOUS
<1>3. PICK type : type = Reduced(t)
  OBVIOUS
<1>4. PICK w : w = Lookup(t.cache, t.line)
  OBVIOUS
<1>5. /\ Stacks /\ n \in Nat \ {0} /\ n \in 1..Depth(p)
      /\ t = Call(p) /\ t.pc = "bcc" /\ t.cache \in Caches /\ t.line \in Lines
      /\ IsCall(t) /\ t \in Calls /\ ShapeAt(p, n) /\ AccessAt(p, n)
      /\ InCall(p, "bcc")
  BY <1>1, <1>2, Top, Zenon DEF StartAccess
<1>6. /\ TakesBcc(p, t.cache) /\ UNCHANGED <<tag, dir, tcc, wback>>
  BY <1>5, Zenon DEF StartAccess, TakesBcc
<1>7. \/ w = 0 /\ Absent(t.cache, t.line)
      \/ w \in 1..Ways[t.cache] /\ tag[t.cache][w] = t.line
  BY <1>4, <1>5, LookupFinds, Zenon
<1>8. w \in Nat /\ (w # 0 => w \in 1..Ways[t.cache] /\ tag[t.cache][w] = t.line)
  BY <1>7
<1>9. n = 1 => t.type \in Gets /\ t.from = None
  BY <1>2, <1>5, Zenon DEF ShapeAt, Outermost
<1>10. n > 1 => /\ Asked(t) /\ t.from \in Caches /\ t.slot \in 1..Ways[t.from]
                /\ ReqState(t) = mesi[t.from][t.slot] /\ "PTW" \notin t.flags
                /\ tag[t.from][t.slot] = t.line /\ t.cache = Parent[t.from][t.line]
  <2>1. HAVE n > 1
  <2>2. /\ n - 1 \in 1..Depth(p) /\ Asks(t, Frame(p, n - 1))
        /\ Frame(p, n - 1).cache \in Caches
    BY <1>2, <1>5, <2>1, CallerOf, FrameFields, Zenon DEF CoherenceInv
  <2>3. t.from \in Caches /\ t.from # None
    BY <2>2, CoherenceAssumption, Zenon DEF Asks
  <2>4. Asked(t)
    BY <1>2, <1>5, <2>1, Zenon DEF AccessAt
  <2>5. QED
    BY <2>2, <2>3, <2>4, Zenon DEF Asks, ReqState
<1>11. /\ type \in Gets \cup Puts
       /\ type = t.type \/ {type, t.type} \subseteq Puts
       /\ t.type \in Puts => n > 1
       /\ type # t.type => t.type = "PUTX" /\ type = "PUTS" /\ ReqState(t) # t.init
  BY <1>3, <1>5, <1>9 DEF Reduced, Gets, Puts, Calls
<1>12. CASE Skipped(t) /\ Goto(p, [t EXCEPT !.pc = "end"]) /\ UNCHANGED mesi
  <2>1. PICK call : call = [t EXCEPT !.pc = "end"]
    BY Zenon
  <2>2. SameCall(call, t) /\ call.pc = "end" /\ call.type = t.type /\ Goto(p, call)
    BY <1>5, <1>12, <2>1, Zenon DEF SameCall, Calls, IsCall
  <2>3. t.type \in Puts /\ ReqState(t) = "I" /\ n > 1
    BY <1>11, <1>12, Zenon DEF Skipped
  <2>4. Progress(call, n, FALSE)'
    BY <2>2, <2>3, Zenon DEF Progress
  <2>5. n > 1 => Asked(call)'
    BY <1>10, <1>12, <2>2, <2>3, Zenon DEF Asked, Puts, SameCall
  <2>6. Alike(p) /\ \A c \in Caches : \A v \in 1..Ways[c] : mesi'[c][v] \in MESI
    BY <1>12, SameStates, Zenon
  <2>7. QED
    BY <1>1, <1>2, <1>5, <1>6, <2>2, <2>4, <2>5, <2>6, Started, Zenon DEF Under
<1>13. CASE /\ w # 0 /\ MustFetch(type, mesi[t.cache][w]) /\ UNCHANGED mesi
            /\ Goto(p, [t EXCEPT !.type = type, !.way = w, !.pc = "fetch"])
  <2>1. PICK call : call = [t EXCEPT !.type = type, !.way = w, !.pc = "fetch"]
    OBVIOUS
  <2>2. /\ SameCall(call, t) /\ call.pc = "fetch" /\ call.type = type
        /\ call.way = w /\ Goto(p, call) /\ call.cache = t.cache /\ call.line = t.line
        /\ call.from = t.from /\ call.slot = t.slot /\ call.init = t.init
    BY <1>5, <1>8, <1>11, <1>13, <2>1, Zenon DEF SameCall, Calls, IsCall
  <2>3. type \in Gets /\ type = t.type
    BY <1>11, <1>13, Zenon DEF MustFetch, Puts
  <2>4. Progress(call, n, FALSE)'
    BY <1>6, <1>8, <1>13, <2>2, Zenon DEF Progress, MustFetch, Gets
  <2>5. n > 1 => Asked(call)'
    BY <1>5, <1>10, <1>13, <2>2, <2>3, Zenon DEF Asked, Gets, Puts
  <2>6. Alike(p) /\ \A c \in Caches : \A v \in 1..Ways[c] : mesi'[c][v] \in MESI
    BY <1>13, SameStates, Zenon
  <2>7. QED
    BY <1>1, <1>2, <1>5, <1>6, <1>11, <2>2, <2>4, <2>5, <2>6, Started, Zenon DEF Under
<1>14. CASE /\ w = 0 /\ type \in Gets /\ UNCHANGED mesi
            /\ \E v \in 1..Ways[t.cache] :
                 Goto(p, [t EXCEPT !.type = type, !.way = v, !.pc = "evict"])
  <2>1. PICK x \in 1..Ways[t.cache] :
          Goto(p, [t EXCEPT !.type = type, !.way = x, !.pc = "evict"])
    BY <1>14, Zenon
  <2>2. PICK call : call = [t EXCEPT !.type = type, !.way = x, !.pc = "evict"]
    OBVIOUS
  <2>3. /\ SameCall(call, t) /\ call.pc = "evict" /\ call.type = type
        /\ call.way = x /\ Goto(p, call) /\ call.cache = t.cache /\ call.line = t.line
        /\ call.from = t.from /\ call.slot = t.slot /\ call.init = t.init
    <3>1. x \in Nat
      OBVIOUS
    <3>2. QED
      BY <1>5, <1>11, <2>1, <2>2, <3>1, Zenon DEF SameCall, Calls, IsCall
  <2>4. type \in Gets /\ type = t.type
    BY <1>11, <1>14, Zenon DEF Gets
  <2>5. Progress(call, n, FALSE)'
    <3>1. Absent(t.cache, t.line)'
      BY <1>6, <1>7, <1>14 DEF Absent
    <3>2. QED
      BY <2>3, <2>4, <3>1, Zenon DEF Progress
  <2>6. n > 1 => Asked(call)'
    BY <1>5, <1>10, <1>14, <2>3, <2>4, Zenon DEF Asked, Gets, Puts, Pending
  <2>7. Alike(p) /\ \A c \in Caches : \A v \in 1..Ways[c] : mesi'[c][v] \in MESI
    BY <1>14, SameStates, Zenon
  <2>8. QED
    BY <1>1, <1>2, <1>5, <1>6, <1>11, <2>3, <2>5, <2>6, <2>7, Started, Zenon DEF Under
<1>15. n > 1 /\ mesi[t.from][t.slot] # "I" =>
         /\ w # 0 /\ mesi[t.cache][w] # "I"
         /\ mesi[t.from][t.slot] \in Exclusive => mesi[t.cache][w] \in Exclusive
  <2>1. HAVE n > 1 /\ mesi[t.from][t.slot] # "I"
  <2>2. t.cache # Mem
    BY <1>5, CoherenceAssumption, Zenon
  <2>3. PICK v \in 1..Ways[t.cache] : Covers(t.cache, v, t.from, t.slot)
    BY <1>10, <2>1, <2>2, Zenon DEF CoherenceInv, Inclusive
  <2>4. tag[t.cache][v] = t.line /\ t.line # None
    BY <1>5, <1>10, <2>1, <2>3, CoherenceAssumption, Zenon DEF Covers
  <2>5. w # 0
    BY <1>7, <2>4 DEF Absent
  <2>6. w = v
    BY <1>5, <1>8, <2>4, <2>5, Zenon DEF CoherenceInv, Arrays
  <2>7. QED
    BY <2>3, <2>5, <2>6, Zenon DEF Covers
<1>16. type \in Puts /\ ~ Skipped(t) =>
         /\ n > 1 /\ mesi[t.from][t.slot] # "I"
         /\ type = "PUTS" => mesi[t.from][t.slot] \in {"S", "E"}
         /\ type = "PUTX" => mesi[t.from][t.slot] = "M"
  BY <1>3, <1>5, <1>10, <1>11, Zenon DEF Skipped, Reduced, Asked, Puts, Gets
<1>17. CASE /\ ~ Skipped(t) /\ w # 0 /\ ~ MustFetch(type, mesi[t.cache][w])
            /\ mesi' = [mesi EXCEPT ![t.cache][w] =
                          IF type \in {"PUTX", "GETX"} THEN "M" ELSE @]
            /\ Goto(p, [t EXCEPT !.type = type, !.way = w, !.pc = AfterFetch(t)])
  <2>1. PICK call : call = [t EXCEPT !.type = type, !.way = w, !.pc = AfterFetch(t)]
    OBVIOUS
  <2>2. PICK x : x = IF type \in {"PUTX", "GETX"} THEN "M" ELSE mesi[t.cache][w]
    OBVIOUS
  <2>3. mesi[t.cache][w] \in MESI /\ Table(mesi)
    BY <1>5, <1>8, <1>17, Zenon DEF CoherenceInv, Types
  <2>4. /\ Table(mesi')
        /\ \A d \in Caches : \A v \in 1..Ways[d] :
             mesi'[d][v] = IF d = t.cache /\ v = w THEN x ELSE mesi[d][v]
    <3>1. SetsWay(mesi', mesi, t.cache, w, x)
      BY <1>17, <2>2, Zenon DEF SetsWay
    <3>2. w \in 1..Ways[t.cache]
      BY <1>8, <1>17, Zenon
    <3>3. QED
      BY ONLY <1>5, <2>3, <3>1, <3>2, TableUpdate, SMTT(30)
  <2>5. /\ mesi[t.cache][w] # "I"
        /\ type \in {"PUTX", "GETX"} => mesi[t.cache][w] \in Exclusive
    BY <1>11, <1>15, <1>16, <1>17, <2>3, Zenon DEF MustFetch, MESI, Exclusive, Gets,
       Puts
  <2>6. /\ x \in MESI /\ x # "I"
        /\ type \in {"PUTX", "GETX"} => x = "M"
        /\ x # mesi[t.cache][w] => mesi[t.cache][w] \in Exclusive /\ x = "M"
    <3>1. CASE type \in {"PUTX", "GETX"}
      BY <2>2, <2>5, <3>1, Zenon DEF MESI
    <3>2. CASE type \notin {"PUTX", "GETX"}
      BY <2>2, <2>3, <2>5, <3>2, ZenonT(30)
    <3>3. QED
      BY <3>1, <3>2, Zenon
  <2>7. AfterFetch(t) = IF n > 1 THEN "grant" ELSE "end"
    BY <1>2, <1>5, <1>10, TreeFacts DEF AfterFetch, ShapeAt, Outermost
  <2>8. /\ SameCall(call, t) /\ call.pc = AfterFetch(t) /\ call.type = type
        /\ call.way = w /\ Goto(p, call) /\ call.cache = t.cache /\ call.line = t.line
        /\ call.from = t.from /\ call.slot = t.slot /\ call.init = t.init
    BY <1>5, <1>8, <1>11, <1>17, <2>1, <2>7, Zenon DEF SameCall, Calls, IsCall
  <2>9. n > 1 => mesi'[t.from][t.slot] = mesi[t.from][t.slot]
    <3>1. HAVE n > 1
    <3>2. /\ t.from \in Caches /\ t.slot \in 1..Ways[t.from]
          /\ t.cache = Parent[t.from][t.line]
      BY <1>10, <3>1, Zenon
    <3>3. t.from # t.cache
      BY <1>5, <3>2, NotAbove, Zenon
    <3>4. QED
      BY <2>4, <3>2, <3>3, Zenon
  <2>10. Progress(call, n, FALSE)'
    <3>1. mesi'[t.cache][w] = x /\ tag'[t.cache][w] = t.line /\ w \in 1..Ways[t.cache]
      BY <1>5, <1>6, <1>8, <1>17, <2>4
    <3>2. type \in Puts => n > 1
      BY <1>11, Zenon
    <3>3. QED
      BY <2>6, <2>7, <2>8, <3>1, Zenon DEF Progress
  <2>11. n > 1 => Asked(call)'
    <3>1. HAVE n > 1
    <3>2. call.pc = "grant" /\ Asked(t) /\ mesi'[call.from][call.slot] = mesi[t.from][t.slot]
      BY <1>10, <2>7, <2>8, <2>9, <3>1, Zenon
    <3>3. type = "GETS" => mesi[t.from][t.slot] = "I" /\ t.init = "I"
      BY <1>5, <1>11, <3>2, Zenon DEF Asked
    <3>4. type = "GETX" => /\ t.init \in {"I", "S"}
                           /\ mesi[t.from][t.slot] \in {"I", t.init}
      BY <1>5, <1>11, <3>2, Zenon DEF Asked
    <3>5. QED
      BY <1>16, <1>17, <2>8, <3>2, <3>3, <3>4, Zenon DEF Asked, Pending, Puts
  <2>12. Alike(p) /\ \A c \in Caches : \A v \in 1..Ways[c] : mesi'[c][v] \in MESI
    <3>1. \A c \in Caches : \A v \in 1..Ways[c] : mesi'[c][v] \in MESI
      BY <2>4, <2>6 DEF CoherenceInv, Types
    <3>2. Frame(p, Depth(p)).cache = t.cache /\ Frame(p, Depth(p)).pc = "bcc" /\ Depth(p) > 0
      BY <1>1, <1>2, <1>5
    <3>3. QED
      BY <2>4, <2>6, <3>1, <3>2, Zenon DEF Alike
  <2>13. QED
    <3>1. call.pc \in Under
      BY <2>7, <2>8, Zenon DEF Under
    <3>2. call.type = t.type \/ {call.type, t.type} \subseteq Puts
      BY <1>11, <2>8, Zenon
    <3>3. SameCall(call, t) /\ Goto(p, call)
      BY <2>8, Zenon
    <3>4. QED
      BY ONLY p \in Cores, CoherenceInv, <1>1, <1>2, <1>5, <1>6, <2>10, <2>11, <2>12,
         <3>1, <3>2, <3>3, Started, ZenonT(30)
<1>18. CASE ~ Skipped(t) /\ w = 0 /\ type \in Puts
  BY <1>15, <1>16, <1>18, Zenon
<1>19. QED
  BY <1>3, <1>4, <1>5, <1>12, <1>13, <1>14, <1>17, <1>18, Zenon DEF StartAccess

\* An invalidation of a child by call t: p's base access holds the line
\* exclusively if the child does.
LEMMA RecallDown ==
    ASSUME CoherenceInv, NEW p \in Cores, NEW n \in 1..Depth(p), n = Depth(p),
           NEW t, t = Frame(p, n), t.cache \in Caches, t.way \in 1..Ways[t.cache],
           t.pc \in {"evict", "grant", "down"},
           ~ IsCall(t) => tag[t.cache][t.way] = t.line,
           NEW d \in dir[t.cache][t.way].sharers,
           NEW k \in 1..n, IsBase(p, k), NEW f, f = Frame(p, k)
    PROVE  /\ tag[t.cache][t.way] = tag[f.cache][f.way]
           /\ \A w \in 1..Ways[d] :
                tag[d][w] = tag[t.cache][t.way] /\ mesi[d][w] \in Exclusive
                => mesi[f.cache][f.way] \in Exclusive
<1>1. /\ d \in Caches /\ tag[t.cache][t.way] \in Lines
      /\ Parent[d][tag[t.cache][t.way]] = t.cache
      /\ \A w \in 1..Ways[d] : tag[d][w] = tag[t.cache][t.way] => mesi[d][w] # "I"
  BY ListedCopy, SMTT(30)
<1>2. \A w \in 1..Ways[d] :
        tag[d][w] = tag[t.cache][t.way] /\ mesi[d][w] \in Exclusive
        => mesi[t.cache][t.way] \in Exclusive
  BY <1>1, Covered DEF Covers
<1>3. CASE IsCall(t)
  <2>1. Stacks /\ Order
    BY Zenon DEF CoherenceInv, Types, Stacks
  <2>2. Depth(p) \in Nat
    OBVIOUS
  <2>3. IsBase(p, n)
    BY <1>3 DEF IsBase, Waits
  <2>4. k = n
    BY <2>1, <2>3, OneBase, Zenon
  <2>5. QED
    BY <1>2, <2>4, Zenon
<1>4. CASE ~ IsCall(t)
  <2>1. Depth(p) \in Nat
    BY DEF CoherenceInv, Types, Stacks
  <2>2. k # n
    BY <1>4, Zenon DEF IsBase
  <2>3. n \in k + 1 .. Depth(p) /\ k \in 1..Depth(p)
    BY <2>2
  <2>4. /\ t.line = tag[f.cache][f.way]
        /\ tag[t.cache][t.way] = t.line /\ mesi[t.cache][t.way] \in Exclusive
           => mesi[f.cache][f.way] \in Exclusive
    BY <2>3, Zenon DEF CoherenceInv, Recalls, RecallAt
  <2>5. QED
    BY <1>2, <1>4, <2>4, Zenon
<1>5. QED
  BY <1>3, <1>4, Zenon

\* A step that only sends an invalidation down.
LEMMA QuietPush ==
    ASSUME CoherenceInv, NEW p \in Cores, NEW n \in Nat \ {0}, n = Depth(p),
           NEW t, t = Frame(p, n), stack[p] # <<>>, t.pc \in {"evict", "down"},
           t.way \in 1..Ways[t.cache], t.pc = "down" => tag[t.cache][t.way] = t.line,
           NEW call \in Invs, call.pc = "inv", Push(p, t, call),
           call.line = tag[t.cache][t.way],
           call.cache \in dir[t.cache][t.way].sharers,
           UNCHANGED <<tag, mesi, dir, tcc, bcc, wback>>
    PROVE  CoherenceInv'
<1>1. Stacks /\ n \in 1..Depth(p)
  BY DEF CoherenceInv, Types, Stacks
<1>2. t \in Calls \cup Invs /\ t.cache \in Caches
  BY <1>1, FrameFields, Zenon
<1>3. Stacks' /\ StackPush(p, t, call)
  BY <1>1, <1>2, PushFrames, Zenon
<1>4. ~ IsCall(call) /\ call.cache \in Caches
  BY ZenonT(30) DEF IsCall, Invs
<1>5. /\ KeptFrames(p)
      /\ \A q \in Cores : Depth(q)' = IF q = p THEN n + 1 ELSE Depth(q)
      /\ Frame(p, n)' = t /\ ~ Waits(p, n)'
      /\ Frame(p, n + 1)' = call /\ ~ Waits(p, n + 1)'
  BY <1>1, <1>3, <1>4, PushKept, ZenonT(30)
<1>6. ~ Waits(p, n)
  BY SMTT(40) DEF Waits
<1>7. \A q \in Cores : /\ Depth(q) \in Nat
                       /\ \A k \in 1..Depth(q) :
                            /\ Frame(q, k)' = Frame(q, k)
                            /\ Waits(q, k)' <=> Waits(q, k)
  <2>1. \A q \in Cores : Depth(q) \in Nat
    BY <1>1, FrameTypes, Zenon
  <2>2. QED
    BY <1>5, <1>6, <2>1, Zenon DEF KeptFrames
<1>8. \A q \in Cores : \A k \in 1..Depth(q)' :
        k \in 1..Depth(q) \/ (q = p /\ k = n + 1)
  BY <1>5, SMTT(40)
<1>9. Alike(p) /\ \A c \in Caches : \A w \in 1..Ways[c] : mesi'[c][w] \in MESI
  BY SameStates, Zenon
<1>10. Types'
  <2>1. Types
    BY Zenon DEF CoherenceInv
  <2>2. Table(tag)' /\ Table(mesi)' /\ Table(dir)'
    BY <2>1, Zenon DEF Types
  <2>3. QED
    BY <1>3, <2>1, Zenon DEF Types, Stacks
<1>11. Shape'
  <2>1. SUFFICES ASSUME NEW q \in Cores, NEW k \in 1..Depth(q)'
                 PROVE  ShapeAt(q, k)'
    BY Zenon DEF Shape
  <2>2. CASE k \in 1..Depth(q)
    <3>1. ShapeAt(q, k)
      BY <2>2, Zenon DEF CoherenceInv, Shape
    <3>2. k > 1 => k - 1 \in 1..Depth(q)
      BY <1>7, <2>2
    <3>3. k > 1 => Frame(q, k - 1)' = Frame(q, k - 1)
      BY <1>7, <3>2, Zenon
    <3>4. Frame(q, k)' = Frame(q, k)
      BY <1>7, <2>2, Zenon
    <3>5. QED
      BY <3>1, <3>3, <3>4, ZenonT(30) DEF ShapeAt, Asks, Tells, Absent, AfterFetch
  <2>3. CASE q = p /\ k = n + 1
    <3>1. Tells(call, t)
      BY Zenon DEF Tells
    <3>2. k > 1 /\ k - 1 = n /\ Frame(q, k)' = call /\ Frame(q, k - 1)' = t
      BY <1>5, <2>3
    <3>3. QED
      BY <3>2, Zenon DEF ShapeAt, Tells, IsCall
  <2>4. QED
    BY <1>8, <2>2, <2>3, Zenon
<1>12. Order'
  <2>1. Rank[t.cache] < Rank[call.cache]
    BY <1>2, ListedCopy, Zenon
  <2>2. QED
    BY <1>1, <1>3, <1>4, <2>1, OrderPush, Zenon DEF CoherenceInv
<1>13. Locks' /\ Accesses'
  <2>1. SUFFICES ASSUME NEW q \in Cores, NEW k \in 1..Depth(q)'
                 PROVE  LockAt(q, k)' /\ AccessAt(q, k)'
    BY Zenon DEF Locks, Accesses
  <2>2. CASE k \in 1..Depth(q)
    <3>1. Frame(q, k)' = Frame(q, k) /\ (Waits(q, k)' <=> Waits(q, k))
      BY <1>7, <2>2, Zenon
    <3>2. LockAt(q, k) /\ AccessAt(q, k)
      BY <2>2, Zenon DEF CoherenceInv, Locks, Accesses
    <3>3. LockAt(q, k)'
      BY <3>1, <3>2, Zenon DEF LockAt, Holds
    <3>4. AccessAt(q, k)'
      BY <3>1, <3>2, ZenonT(30) DEF AccessAt, Progress, Asked, Absent, IsCall
    <3>5. QED
      BY <3>3, <3>4, Zenon
  <2>3. CASE q = p /\ k = n + 1
    BY <1>5, <2>3, Zenon DEF LockAt, Holds, AccessAt, IsCall, Under
  <2>4. QED
    BY <1>8, <2>2, <2>3, Zenon
<1>14. Arrays' /\ Listed' /\ Inclusive' /\ Alone'
  <2>1. \A q \in Cores : 1..Depth(q) \subseteq 1..Depth(q)'
    BY <1>5
  <2>2. \A c, d, v : Upgrades(c, d, v) => Upgrades(c, d, v)'
    BY <1>1, <1>5, <2>1, UpgradesKept, Zenon
  <2>3. QED
    BY <1>9, <2>2, QuietData, Zenon
<1>15. Recalls'
  <2>1. SUFFICES ASSUME NEW q \in Cores
                 PROVE  RecallAt(q)'
    BY Zenon DEF Recalls
  <2>2. CASE q # p
    BY <1>5, <1>7, <1>9, <2>2, QuietRecall, Zenon
  <2>3. CASE q = p
    <3>1. RecallAt(p)
      BY Zenon DEF CoherenceInv, Recalls
    <3>2. Depth(p)' = n + 1 /\ Depth(p)' > 0
      <4>1. Depth(p)' = n + 1
        BY <1>5, Zenon
      <4>2. QED
        BY ONLY <4>1, n \in Nat
    <3>3. SUFFICES ASSUME NEW k \in 1..Depth(p)', IsBase(p, k)', NEW f, f = Frame(p, k)'
                   PROVE  /\ wback[p] => /\ f.pc \in {"evict", "grant"}
                                         /\ mesi[f.cache][f.way] \in Exclusive
                          /\ \A j \in k + 1 .. Depth(p)' :
                              LET g == Frame(p, j)'
                              IN /\ g.line = tag[f.cache][f.way]
                                 /\ \A w \in 1..Ways[g.cache] :
                                      /\ tag[g.cache][w] = g.line
                                      /\ mesi[g.cache][w] \in Exclusive
                                      => mesi[f.cache][f.way] \in Exclusive
      <4>1. wback' = wback /\ mesi' = mesi /\ tag' = tag
        BY Zenon
      <4>2. QED
        BY ONLY <2>3, <3>2, <3>3, <4>1, ZenonT(120) DEF RecallAt
    <3>4. k \in 1..n /\ k \in 1..Depth(p)
      <4>1. k # n + 1
        BY <1>4, <1>5, <3>3, Zenon DEF IsBase, IsCall
      <4>2. k \in 1..n
        BY ONLY <3>2, <4>1, k \in 1..Depth(p)', n \in Nat
      <4>3. QED
        BY <4>2, Zenon
    <3>5. f = Frame(p, k) /\ IsBase(p, k)
      BY <1>7, <3>3, <3>4, Zenon DEF IsBase, IsCall
    <3>6. wback[p] => /\ f.pc \in {"evict", "grant"}
                      /\ mesi[f.cache][f.way] \in Exclusive
      BY <3>1, <3>4, <3>5, Zenon DEF RecallAt
    <3>7. ASSUME NEW j \in k + 1 .. Depth(p)', NEW g, g = Frame(p, j)'
          PROVE  /\ g.line = tag[f.cache][f.way]
                 /\ \A w \in 1..Ways[g.cache] :
                      tag[g.cache][w] = g.line /\ mesi[g.cache][w] \in Exclusive
                      => mesi[f.cache][f.way] \in Exclusive
      <4>1. CASE j = n + 1
        <5>1. g = call
          BY <1>5, <3>7, <4>1, Zenon
        <5>2. t.pc \in {"evict", "grant", "down"} /\ (~ IsCall(t) => tag[t.cache][t.way] = t.line)
          BY ZenonT(30) DEF IsCall
        <5>3. /\ tag[t.cache][t.way] = tag[f.cache][f.way]
              /\ \A w \in 1..Ways[call.cache] :
                   /\ tag[call.cache][w] = tag[t.cache][t.way]
                   /\ mesi[call.cache][w] \in Exclusive
                   => mesi[f.cache][f.way] \in Exclusive
          BY ONLY CoherenceInv, p \in Cores, n = Depth(p), t = Frame(p, n),
             t.way \in 1..Ways[t.cache], call.cache \in dir[t.cache][t.way].sharers,
             <1>1, <1>2, <3>4, <3>5, <5>2, RecallDown
        <5>4. QED
          BY <5>1, <5>3, Zenon
      <4>2. CASE j # n + 1
        <5>1. j \in k + 1 .. n /\ j \in 1..n
          BY ONLY <3>2, <3>4, <4>2, j \in k + 1 .. Depth(p)', n \in Nat
        <5>2. j \in k + 1 .. Depth(p) /\ j \in 1..Depth(p)
          BY <5>1, Zenon
        <5>3. g = Frame(p, j)
          BY <1>7, <3>7, <5>2, Zenon
        <5>4. QED
          BY <3>1, <3>4, <3>5, <5>2, <5>3, ZenonT(30) DEF RecallAt
      <4>3. QED
        BY <4>1, <4>2, Zenon
    <3>8. QED
      BY <3>6, <3>7, Zenon
  <2>4. QED
    BY <2>2, <2>3, Zenon
<1>16. QED
  BY <1>10, <1>11, <1>12, <1>13, <1>14, <1>15, ZenonT(30) DEF CoherenceInv

\* MESITopCC::processEviction's invalidations.
LEMMA EvictChildKeeps ==
    ASSUME CoherenceInv, Counting, NEW p \in Cores, EvictChild(p)
    PROVE  CoherenceInv'
<1>1. PICK n : n = Depth(p)
  OBVIOUS
<1>2. PICK t : t = Frame(p, n)
  OBVIOUS
<1>3. /\ stack[p] # <<>> /\ n \in Nat \ {0} /\ t = Call(p) /\ t.pc = "evict"
      /\ t.cache \in Caches /\ IsCall(t) /\ AccessAt(p, n)
  <2>1. InCall(p, "evict")
    BY Zenon DEF EvictChild
  <2>2. "evict" \notin {"inv", "down"}
    BY Zenon
  <2>3. /\ stack[p] # <<>> /\ n \in Nat \ {0} /\ t = Call(p) /\ t.pc = "evict"
        /\ t.cache \in Caches
    BY ONLY CoherenceInv, p \in Cores, <1>1, <1>2, <2>1, Top, Zenon
  <2>4. IsCall(t) /\ AccessAt(p, n)
    BY ONLY CoherenceInv, p \in Cores, <1>1, <1>2, <2>1, <2>2, Top, Zenon
  <2>5. QED
    BY <2>3, <2>4, Zenon
<1>4. t.way \in 1..Ways[t.cache]
  BY <1>2, <1>3, Zenon DEF AccessAt, Progress, Under
<1>5. PICK d : d = FirstOf(dir[t.cache][t.way].sharers)
  OBVIOUS
<1>6. dir[t.cache][t.way].sharers \subseteq Caches
  BY <1>3, <1>4, Zenon DEF CoherenceInv, Types, Entries
<1>7. d \in dir[t.cache][t.way].sharers
  BY <1>3, <1>5, <1>6, Zenon DEF EvictChild, Counting
<1>8. tag[t.cache][t.way] \in Lines /\ d \in Caches
  BY <1>3, <1>4, <1>7, ListedCopy, Zenon
<1>9. PICK call : call = InvReq(d, tag[t.cache][t.way], "INV")
  OBVIOUS
<1>10. /\ call \in Invs /\ call.pc = "inv" /\ call.line = tag[t.cache][t.way]
       /\ call.cache \in dir[t.cache][t.way].sharers
  BY <1>7, <1>8, <1>9, Zenon DEF InvReq, Invs
<1>11. Push(p, t, call) /\ UNCHANGED <<tag, mesi, dir, tcc, bcc, wback>>
  BY <1>3, <1>5, <1>9, Zenon DEF EvictChild
<1>12. QED
  BY <1>1, <1>2, <1>3, <1>4, <1>10, <1>11, QuietPush, Zenon

\* MESITopCC::processInval's.
LEMMA ForwardInvalKeeps ==
    ASSUME CoherenceInv, Counting, NEW p \in Cores, ForwardInval(p)
    PROVE  CoherenceInv'
<1>1. PICK n : n = Depth(p)
  OBVIOUS
<1>2. PICK t : t = Frame(p, n)
  OBVIOUS
<1>3. /\ stack[p] # <<>> /\ n \in Nat \ {0} /\ t = Call(p) /\ t.pc = "down"
      /\ t.cache \in Caches /\ ~ IsCall(t) /\ ShapeAt(p, n) /\ t \in Invs
  BY <1>1, <1>2, Top, Zenon DEF ForwardInval
<1>4. t.way \in 1..Ways[t.cache] /\ tag[t.cache][t.way] = t.line
  BY <1>2, <1>3, Zenon DEF ShapeAt, Tells
<1>5. PICK d : d = FirstOf(MustForward(t))
  OBVIOUS
<1>6. dir[t.cache][t.way].sharers \subseteq Caches
  BY <1>3, <1>4, Zenon DEF CoherenceInv, Types, Entries
<1>7. MustForward(t) \subseteq dir[t.cache][t.way].sharers /\ MustForward(t) # {}
  BY <1>3, Zenon DEF MustForward, ForwardInval
<1>8. d \in dir[t.cache][t.way].sharers
  BY <1>5, <1>6, <1>7, Zenon DEF Counting
<1>9. d \in Caches
  BY <1>6, <1>8, Zenon
<1>10. PICK call : call = InvReq(d, t.line, t.type)
  OBVIOUS
<1>11. /\ call \in Invs /\ call.pc = "inv" /\ call.line = tag[t.cache][t.way]
       /\ call.cache \in dir[t.cache][t.way].sharers
  BY <1>3, <1>4, <1>8, <1>9, <1>10, Zenon DEF InvReq, Invs
<1>12. Push(p, t, call) /\ UNCHANGED <<tag, mesi, dir, tcc, bcc, wback>>
  BY <1>3, <1>5, <1>10, Zenon DEF ForwardInval
<1>13. QED
  BY <1>1, <1>2, <1>3, <1>4, <1>11, <1>12, QuietPush, Zenon

-----------------------------------------------------------------------------
(* Granting                                                                *)

\* A directory answers child c, whose copy of line l is in way w: it takes the
\* line back (s = "I") or gives it in state s; the directory's own state becomes
\* x, and the entry e2 says who holds the line now.
Answers(c, w, d, v, l, s, x, e2) ==
    /\ tag[c][w] = l /\ tag[d][v] = l /\ Parent[c][l] = d /\ UNCHANGED tag
    /\ \A a \in Caches : \A i \in 1..Ways[a] :
         /\ mesi'[a][i] = IF a = c /\ i = w THEN s
                          ELSE IF a = d /\ i = v THEN x ELSE mesi[a][i]
         /\ dir'[a][i] = IF a = d /\ i = v THEN e2 ELSE dir[a][i]
    /\ mesi[d][v] # "I" /\ x # "I" /\ (x \in Exclusive <=> mesi[d][v] \in Exclusive)

AnswerFits(c, w, d, v, s, x, e, e2) ==
    /\ s = "I" => /\ e2.sharers = e.sharers \ {c} /\ e2.exclusive = e.exclusive
                  /\ dir[c][w].sharers = {} /\ \A y : ~ Upgrades(y, c, w)
    /\ s # "I" => /\ e2.sharers = e.sharers \cup {c}
                  /\ \A y \in Caches : y # c => ~ (e.sharers = {y} /\ e.exclusive)
    /\ s \in Exclusive => e.sharers \subseteq {c} /\ e2.exclusive /\ x \in Exclusive
    /\ s # "I" /\ s \notin Exclusive => mesi[c][w] = "I"

\* The tree is as coherent after such an answer as before it.
LEMMA GrantLine ==
    ASSUME CoherenceInv, NEW c \in Caches, NEW w \in 1..Ways[c], NEW d \in Caches,
           NEW v \in 1..Ways[d], d # c, NEW l \in Lines, NEW s, NEW x, NEW e2,
           Answers(c, w, d, v, l, s, x, e2), AnswerFits(c, w, d, v, s, x, dir[d][v], e2),
           \A y : Upgrades(y, d, v) => y = c,
           \A y, a, i : Upgrades(y, a, i) /\ ~ (a = d /\ i = v) => Upgrades(y, a, i)'
    PROVE  Arrays' /\ Listed' /\ Inclusive' /\ Alone'
<1>1. l # None /\ d # Mem
  BY CoherenceAssumption, Zenon
<1>2. Arrays'
  <2>1. tag' = tag /\ tag[c][w] = l /\ tag[d][v] = l
    BY Zenon DEF Answers
  <2>2. \A a \in Caches : \A i \in 1..Ways[a] :
          mesi'[a][i] # "I" => mesi[a][i] # "I" \/ tag[a][i] = l
    <3>1. ASSUME NEW a \in Caches, NEW i \in 1..Ways[a], mesi'[a][i] # "I", tag[a][i] # l
          PROVE  mesi[a][i] # "I"
      <4>1. ~ (a = c /\ i = w) /\ ~ (a = d /\ i = v)
        BY <2>1, <3>1, Zenon
      <4>2. QED
        BY <3>1, <4>1, Zenon DEF Answers
    <3>2. QED
      BY <3>1, Zenon
  <2>3. QED
    BY ONLY CoherenceInv, <1>1, <2>1, <2>2 DEF CoherenceInv, Arrays
<1>3. \A a \in Caches : \A i, j \in 1..Ways[a] : tag[a][i] = l /\ tag[a][j] = l => i = j
  BY ONLY CoherenceInv, <1>1 DEF CoherenceInv, Arrays
<1>4. \A a \in Caches : \A i \in 1..Ways[a] : ~ (a = c /\ i = w) =>
        /\ mesi'[a][i] # "I" => mesi[a][i] # "I"
        /\ mesi[a][i] # "I" => mesi'[a][i] # "I"
        /\ mesi'[a][i] \in Exclusive <=> mesi[a][i] \in Exclusive
  BY ONLY Answers(c, w, d, v, l, s, x, e2) DEF Answers
<1>0. PICK e : e = dir[d][v]
  OBVIOUS
<1> USE <1>0 DEF Answers, AnswerFits
<1>5. ASSUME NEW y \in Caches, y # c, NEW u \in 1..Ways[y], tag[y][u] = l,
             Parent[y][l] = d, mesi[y][u] # "I"
      PROVE  /\ y \in e.sharers /\ s \notin Exclusive
             /\ mesi[y][u] \in Exclusive => /\ s = "I" /\ mesi[d][v] \in Exclusive
                                            /\ e.exclusive /\ e.sharers = {y}
  <2>1. Covers(d, v, y, u)
    BY <1>5, Covered, ZenonT(30)
  <2>2. y \in e.sharers
    BY <1>5, <2>1, Zenon DEF Covers
  <2>3. QED
    BY <1>5, <2>1, <2>2, Zenon DEF Covers
<1>6. Listed'
  <2>1. SUFFICES ASSUME NEW a \in Caches, NEW i \in 1..Ways[a], NEW y \in dir'[a][i].sharers
                 PROVE  /\ tag[a][i] # None /\ Parent[y][tag[a][i]] = a
                        /\ \E u \in 1..Ways[y] : tag[y][u] = tag[a][i] /\ mesi'[y][u] # "I"
    BY SMTT(30) DEF Listed
  <2>2. CASE a = d /\ i = v /\ y = c
    <3>1. s # "I"
      BY <2>1, <2>2, Zenon
    <3>2. mesi'[c][w] # "I"
      BY <3>1, Zenon
    <3>3. QED
      BY <1>1, <2>2, <3>2, SMTT(30)
  <2>3. CASE ~ (a = d /\ i = v /\ y = c)
    <3>1. y \in dir[a][i].sharers
      <4>1. dir'[a][i] = IF a = d /\ i = v THEN e2 ELSE dir[a][i]
        BY ONLY Answers(c, w, d, v, l, s, x, e2), a \in Caches, i \in 1..Ways[a], Zenon
           DEF Answers
      <4>2. e2.sharers \subseteq e.sharers \cup {c}
        BY Zenon
      <4>3. QED
        BY ONLY <1>0, <2>1, <2>3, <4>1, <4>2, Zenon
    <3>2. y \in Caches /\ tag[a][i] # None /\ Parent[y][tag[a][i]] = a
      <4>1. y \in Caches /\ tag[a][i] \in Lines /\ Parent[y][tag[a][i]] = a
        BY ONLY CoherenceInv, a \in Caches, i \in 1..Ways[a], <3>1, ListedCopy, Zenon
      <4>2. QED
        BY ONLY <4>1, CoherenceAssumption, Zenon
    <3>3. PICK u \in 1..Ways[y] : tag[y][u] = tag[a][i] /\ mesi[y][u] # "I"
      <4>1. Listed
        BY Zenon DEF CoherenceInv
      <4>2. QED
        BY ONLY <4>1, a \in Caches, i \in 1..Ways[a], <3>1, ZenonT(60) DEF Listed
    <3>4. ~ (y = c /\ u = w)
      <4>1. SUFFICES ASSUME y = c, u = w
                     PROVE  FALSE
        BY Zenon
      <4>2. a = d /\ tag[a][i] = l
        BY <3>2, <3>3, <4>1, ZenonT(60)
      <4>3. QED
        BY <1>3, <2>3, <4>1, <4>2, SMTT(30)
    <3>5. mesi'[y][u] # "I"
      BY <1>4, <3>2, <3>3, <3>4, SMTT(30)
    <3>6. QED
      BY <3>2, <3>3, <3>5, ZenonT(30)
  <2>4. QED
    BY <2>2, <2>3, ZenonT(30)
<1>7. Inclusive'
  <2>1. SUFFICES ASSUME NEW y \in Caches, NEW u \in 1..Ways[y], NEW a,
                        a = Parent[y][tag[y][u]], mesi'[y][u] # "I", a # Mem
                 PROVE  \E i \in 1..Ways[a] : Covers(a, i, y, u)'
    BY Zenon DEF Inclusive
  <2>2. CASE y = c /\ u = w
    <3>1. a = d /\ mesi'[y][u] = s /\ mesi'[d][v] = x /\ dir'[d][v] = e2
      BY <2>1, <2>2
    <3>2. c \in e2.sharers /\ (s \in Exclusive => e2.sharers = {c})
      BY <2>1, <3>1, Zenon
    <3>3. Covers(d, v, y, u)'
      BY <2>2, <3>1, <3>2, Zenon DEF Covers
    <3>4. QED
      BY <3>1, <3>3, ZenonT(30)
  <2>3. CASE ~ (y = c /\ u = w)
    <3>1. mesi[y][u] # "I" /\ (mesi'[y][u] \in Exclusive <=> mesi[y][u] \in Exclusive)
      BY <1>4, <2>1, <2>3, SMTT(30)
    <3>2. tag[y][u] \in Lines
      BY <3>1, ZenonT(30) DEF CoherenceInv, Types, Arrays
    <3>3. PICK i \in 1..Ways[a] : Covers(a, i, y, u)
      BY <2>1, <3>1, Zenon DEF CoherenceInv, Inclusive
    <3>4. a \in Caches /\ a # y
      BY <2>1, <3>2, TreeFacts, NotAbove, SMTT(40)
    <3>5. CASE a = d /\ i = v
      <4>1. tag[y][u] = l /\ Parent[y][l] = d
        <5>1. tag[a][i] = tag[y][u]
          BY ONLY <3>3, ZenonT(30) DEF Covers
        <5>2. QED
          <6>1. tag[d][v] = l
            BY Zenon
          <6>2. QED
            BY ONLY <2>1, <3>5, <5>1, <6>1, Zenon
      <4>2. y # c
        BY <1>3, <2>3, <4>1, SMTT(40)
      <4>3. /\ y \in e.sharers /\ s \notin Exclusive
            /\ mesi[y][u] \in Exclusive => /\ s = "I" /\ mesi[d][v] \in Exclusive
                                           /\ e.exclusive /\ e.sharers = {y}
        BY <1>5, <3>1, <4>1, <4>2, ZenonT(60)
      <4>4. mesi'[d][v] = x /\ dir'[d][v] = e2
        BY ZenonT(60)
      <4>5. /\ y \in e2.sharers
            /\ mesi[y][u] \in Exclusive => e2.exclusive /\ e2.sharers = {y} /\ x \in Exclusive
        BY <4>2, <4>3, SMTT(30)
      <4>6. Covers(d, v, y, u)'
        BY <3>1, <4>1, <4>4, <4>5, ZenonT(30) DEF Covers
      <4>7. QED
        BY <3>5, <4>6, Zenon
    <3>6. CASE a = c /\ i = w
      <4>1. s \in Exclusive
        <5>1. mesi[c][w] # "I" /\ (y \in dir[c][w].sharers \/ Upgrades(y, c, w))
          BY <3>3, <3>6, ZenonT(30) DEF Covers
        <5>2. QED
          BY <5>1, Zenon
      <4>2. mesi'[c][w] = s /\ dir'[c][w] = dir[c][w]
        BY SMTT(30)
      <4>3. Upgrades(y, c, w) => Upgrades(y, c, w)'
        OBVIOUS
      <4>4. Covers(a, i, y, u)'
        BY <3>1, <3>3, <3>6, <4>1, <4>2, <4>3, ZenonT(30) DEF Covers, Exclusive
      <4>5. QED
        BY <4>4, Zenon
    <3>7. CASE ~ (a = d /\ i = v) /\ ~ (a = c /\ i = w)
      <4>1. mesi'[a][i] = mesi[a][i] /\ dir'[a][i] = dir[a][i]
        BY <3>4, <3>7, SMTT(30)
      <4>2. Upgrades(y, a, i) => Upgrades(y, a, i)'
        BY <3>7, Zenon
      <4>3. Covers(a, i, y, u)'
        BY <3>1, <3>3, <4>1, <4>2, ZenonT(30) DEF Covers
      <4>4. QED
        BY <4>3, ZenonT(30)
    <3>8. QED
      BY <3>5, <3>6, <3>7, ZenonT(30)
  <2>4. QED
    BY <2>2, <2>3, Zenon
<1>8. Alone'
  <2>1. SUFFICES ASSUME NEW y \in Caches, NEW a \in Caches, NEW u \in 1..Ways[y],
                        NEW i \in 1..Ways[a], mesi'[y][u] \in Exclusive, y # a,
                        tag[y][u] = tag[a][i], mesi'[a][i] # "I",
                        Parent[y][tag[y][u]] = Parent[a][tag[y][u]]
                 PROVE  FALSE
    <3>1. tag' = tag
      BY Zenon
    <3>2. QED
      BY ONLY <2>1, <3>1, ZenonT(60) DEF Alone
  <2>2. CASE y = c /\ u = w
    BY <1>4, <1>5, <2>1, <2>2, SMTT(40)
  <2>3. CASE a = c /\ i = w
    <3>1. mesi[y][u] \in Exclusive /\ mesi[y][u] # "I"
      BY <1>4, <2>1, <2>3, Zenon DEF Exclusive
    <3>2. s = "I"
      BY <1>5, <2>1, <2>3, <3>1, SMTT(40)
    <3>3. QED
      BY <2>1, <2>3, <3>2, Zenon
  <2>4. CASE ~ (y = c /\ u = w) /\ ~ (a = c /\ i = w)
    <3>1. mesi[y][u] \in Exclusive /\ mesi[a][i] # "I" /\ Alone
      BY <1>4, <2>1, <2>4, ZenonT(30) DEF CoherenceInv
    <3>2. QED
      BY ONLY <2>1, <3>1, Zenon DEF Alone
  <2>5. QED
    BY <2>2, <2>3, <2>4, ZenonT(30)
<1>9. QED
  BY <1>2, <1>6, <1>7, <1>8, ZenonT(30)

\* The types of the data, when two states and a directory entry change.
LEMMA SetGrant ==
    ASSUME CoherenceInv, NEW c \in Caches, NEW w \in 1..Ways[c], NEW s \in MESI,
           NEW d \in Caches, NEW v \in 1..Ways[d], NEW x \in MESI, c # d,
           NEW e \in Entries, SetsWay(dir', dir, d, v, e),
           NEW m, SetsWay(m, mesi, c, w, s), SetsWay(mesi', m, d, v, x),
           UNCHANGED <<tag, tcc, bcc>>, wback' \in [Cores -> BOOLEAN]
    PROVE  /\ DataTypes'
           /\ \A a \in Caches : \A i \in 1..Ways[a] :
                /\ mesi'[a][i] = IF a = c /\ i = w THEN s
                                 ELSE IF a = d /\ i = v THEN x ELSE mesi[a][i]
                /\ dir'[a][i] = IF a = d /\ i = v THEN e ELSE dir[a][i]
<1>1. Types
  BY Zenon DEF CoherenceInv
<1>2. Table(tag) /\ Table(mesi) /\ Table(dir)
  BY <1>1, ZenonT(30) DEF Types
<1>3. /\ Table(dir')
      /\ \A a \in Caches : \A i \in 1..Ways[a] :
           dir'[a][i] = IF a = d /\ i = v THEN e ELSE dir[a][i]
  BY <1>2, TableUpdate, SMTT(30)
<1>4. /\ Table(m)
      /\ \A a \in Caches : \A i \in 1..Ways[a] :
           m[a][i] = IF a = c /\ i = w THEN s ELSE mesi[a][i]
  BY <1>2, TableUpdate, SMTT(30)
<1>5. /\ Table(mesi')
      /\ \A a \in Caches : \A i \in 1..Ways[a] :
           mesi'[a][i] = IF a = d /\ i = v THEN x ELSE m[a][i]
  BY <1>4, TableUpdate, SMTT(30)
<1>6. \A a \in Caches : \A i \in 1..Ways[a] :
        mesi'[a][i] = IF a = c /\ i = w THEN s
                      ELSE IF a = d /\ i = v THEN x ELSE mesi[a][i]
  BY <1>4, <1>5
<1>7. Table(tag)' /\ Table(dir)' /\ Table(mesi)'
  BY <1>2, <1>3, <1>5, ZenonT(30) DEF Table
<1>8. \A a \in Caches : \A i \in 1..Ways[a] :
        tag'[a][i] \in Lines \cup {None} /\ mesi'[a][i] \in MESI /\ dir'[a][i] \in Entries
  BY <1>1, <1>3, <1>6, SMTT(30) DEF Types
<1>9. QED
  BY <1>1, <1>3, <1>6, <1>7, <1>8, Zenon DEF DataTypes, Types

\* What a directory whose state is s answers a request: state and entry of g.
Gives(t, e, s, g) ==
    /\ g.state \in MESI /\ g.entry \in Entries
    /\ t.type \in Puts <=> g.state = "I"
    /\ t.type = "GETX" => g.state = "M"
    /\ g.state = "I" => /\ g.entry.sharers = e.sharers \ {t.from}
                        /\ g.entry.exclusive = e.exclusive
    /\ g.state # "I" =>
         /\ g.entry.sharers = e.sharers \cup {t.from}
         /\ \A y \in Caches : y # t.from => ~ (e.sharers = {y} /\ e.exclusive)
    /\ g.state \in Exclusive => e.sharers \subseteq {t.from} /\ g.entry.exclusive
    /\ g.state \in Exclusive /\ t.type # "GETX" => s \in Exclusive

\* What MESITopCC::processAccess answers, from what it finds.
LEMMA GrantedFacts ==
    ASSUME Counting, NEW t \in Calls, NEW e \in Entries, NEW s, NEW g,
           g = Granted(t, e, s \in Exclusive), MustRevoke(t, e) = {}, t.from \in Caches
    PROVE  Gives(t, e, s, g)
<1>1. e.sharers \in SUBSET Caches /\ e.exclusive \in BOOLEAN
  BY Zenon DEF Entries
<1>2. CASE t.type \in Puts
  <2>1. g = [entry |-> [e EXCEPT !.sharers = @ \ {t.from}], state |-> "I"]
    BY <1>2, Zenon DEF Granted, Puts
  <2>2. QED
    BY <1>1, <1>2, <2>1 DEF Gives, Puts, Entries, MESI, Exclusive
<1>3. CASE t.type = "GETX"
  <2>1. /\ g = [entry |-> [sharers |-> {t.from}, exclusive |-> TRUE], state |-> "M"]
        /\ e.sharers \subseteq {t.from}
    BY <1>3, Zenon DEF Granted, Puts, MustRevoke
  <2>2. e.sharers \cup {t.from} = {t.from}
        /\ \A y : y # t.from => e.sharers # {y}
    BY <2>1, Zenon
  <2>3. g.entry \in Entries /\ g.entry.sharers = {t.from} /\ g.entry.exclusive
        /\ g.state = "M"
    BY ONLY <2>1, t.from \in Caches, Zenon DEF Entries
  <2>4. QED
    BY <1>3, <2>1, <2>2, <2>3, Zenon DEF Gives, Puts, MESI
<1>4. CASE t.type = "GETS"
  <2>1. CASE e.sharers = {} /\ s \in Exclusive /\ "NOEXCL" \notin t.flags
    <3>1. g = [entry |-> [sharers |-> {t.from}, exclusive |-> TRUE], state |-> "E"]
      BY <1>4, <2>1, Zenon DEF Granted, Puts
    <3>2. /\ e.sharers \cup {t.from} = {t.from} /\ e.sharers \subseteq {t.from}
          /\ \A y : e.sharers # {y}
      BY <2>1, Zenon
    <3>3. g.entry \in Entries /\ g.entry.sharers = {t.from} /\ g.entry.exclusive
          /\ g.state = "E"
      BY ONLY <3>1, t.from \in Caches, Zenon DEF Entries
    <3>4. QED
      BY <1>4, <2>1, <3>2, <3>3, Zenon DEF Gives, Puts, MESI
  <2>2. CASE ~ (e.sharers = {} /\ s \in Exclusive /\ "NOEXCL" \notin t.flags)
    <3>1. g = [entry |-> [sharers |-> e.sharers \cup {t.from}, exclusive |-> FALSE],
               state |-> "S"]
      BY <1>4, <2>2, Zenon DEF Granted, Puts
    <3>2. \A y \in Caches : ~ (e.sharers = {y} /\ e.exclusive)
      <4>1. IsExclusive(e) => e.sharers = {}
        BY <1>4, Zenon DEF MustRevoke, Puts
      <4>2. \A y \in Caches : Cardinality({y}) = 1
        BY Zenon DEF Counting
      <4>3. QED
        BY <4>1, <4>2, Zenon DEF IsExclusive
    <3>3. QED
      <4>1. g.entry \in Entries /\ g.entry.sharers = e.sharers \cup {t.from} /\ g.state = "S"
        BY ONLY <1>1, <3>1, t.from \in Caches, Zenon DEF Entries
      <4>2. QED
        BY ONLY <1>4, <3>2, <4>1, Zenon DEF Gives, Puts, MESI, Exclusive
  <2>3. QED
    BY <2>1, <2>2, Zenon
<1>5. QED
  BY <1>2, <1>3, <1>4, Zenon DEF Calls, Gets, Puts

\* The rest of MESITopCC::processAccess, and processWritebackOnAccess.
LEMMA GrantKeeps ==
    ASSUME CoherenceInv, Counting, NEW p \in Cores, Grant(p)
    PROVE  CoherenceInv'
<1>1. PICK n : n = Depth(p)
  OBVIOUS
<1>2. PICK t : t = Frame(p, n)
  OBVIOUS
<1>3. PICK h : h = Frame(p, n - 1)
  OBVIOUS
<1>4. PICK e : e = dir[t.cache][t.way]
  OBVIOUS
<1>5. PICK s : s = mesi[t.cache][t.way]
  OBVIOUS
<1>6. PICK g : g = Granted(t, e, s \in Exclusive)
  OBVIOUS
<1>7. PICK call : call = [t EXCEPT !.pc = "end"]
  BY Zenon
<1>8. InCall(p, "grant")
  BY ZenonT(30) DEF Grant
<1>9. /\ stack[p] # <<>> /\ n \in 1..Depth(p) /\ t = Call(p) /\ t.pc = "grant"
      /\ t.cache \in Caches /\ IsCall(t) /\ t \in Calls /\ IsBase(p, n) /\ Holds(p, n)
      /\ ~ Waits(p, n) /\ AccessAt(p, n) /\ t.pc \in Under /\ t.line \in Lines
  BY <1>1, <1>2, <1>8, Top, SMTT(30) DEF Under
<1>10. PICK m : SetsWay(m, mesi, t.from, t.slot, g.state)
  BY Zenon DEF SetsWay
<1>11. PICK x : x = IF wback[p] THEN "M" ELSE mesi[t.cache][t.way]
  OBVIOUS
<1>12. /\ MustRevoke(t, e) = {} /\ SetsWay(dir', dir, t.cache, t.way, g.entry)
       /\ SetsWay(mesi', m, t.cache, t.way, x)
       /\ wback' = [wback EXCEPT ![p] = FALSE] /\ Goto(p, call) /\ UNCHANGED <<tag, tcc, bcc>>
  <2>1. /\ MustRevoke(t, e) = {} /\ dir' = [dir EXCEPT ![t.cache][t.way] = g.entry]
        /\ wback' = [wback EXCEPT ![p] = FALSE] /\ Goto(p, call) /\ UNCHANGED <<tag, tcc, bcc>>
        /\ mesi' = [mesi EXCEPT ![t.from][t.slot] = g.state, ![t.cache][t.way] = x]
    BY <1>4, <1>5, <1>6, <1>7, <1>9, <1>11, Zenon DEF Grant
  <2>2. mesi' = [m EXCEPT ![t.cache][t.way] = x]
    BY <1>10, <2>1, Zenon DEF SetsWay
  <2>3. QED
    BY <2>1, <2>2, Zenon DEF SetsWay
<1>13. /\ t.way \in 1..Ways[t.cache] /\ n > 1 /\ tag[t.cache][t.way] = t.line
       /\ mesi[t.cache][t.way] # "I"
       /\ t.type \in {"GETX", "PUTX"} => mesi[t.cache][t.way] = "M"
  BY <1>2, <1>9, ZenonT(30) DEF AccessAt, Progress, Under
<1>14. /\ n - 1 \in 1..Depth(p) /\ Asks(t, h) /\ h.pc \in Under /\ h.cache = t.from
       /\ t.from \in Caches /\ t.slot \in 1..Ways[t.from] /\ t.from # t.cache
       /\ tag[t.from][t.slot] = t.line /\ Parent[t.from][t.line] = t.cache /\ Asked(t)
       /\ h.way = t.slot
  <2>1. n \in 1..Depth(p) /\ IsCall(t)
    BY <1>9, Zenon
  <2>2. QED
    BY <1>2, <1>3, <1>13, <2>1, Caller, SMTT(40)
<1>15. /\ e \in Entries /\ mesi[t.cache][t.way] \in MESI
       /\ wback[p] => mesi[t.cache][t.way] \in Exclusive
  BY <1>2, <1>4, <1>9, <1>13, ZenonT(60) DEF CoherenceInv, Types, Recalls, RecallAt
<1>16. /\ g.state \in MESI /\ g.entry \in Entries
       /\ t.type \in Puts <=> g.state = "I"
       /\ t.type = "GETX" => g.state = "M"
       /\ g.state = "I" => /\ g.entry.sharers = e.sharers \ {t.from}
                           /\ g.entry.exclusive = e.exclusive
       /\ g.state # "I" =>
            /\ g.entry.sharers = e.sharers \cup {t.from}
            /\ \A y \in Caches : y # t.from => ~ (e.sharers = {y} /\ e.exclusive)
       /\ g.state \in Exclusive => e.sharers \subseteq {t.from} /\ g.entry.exclusive
       /\ g.state \in Exclusive /\ t.type # "GETX" => mesi[t.cache][t.way] \in Exclusive
  <2>1. t \in Calls /\ e \in Entries /\ MustRevoke(t, e) = {} /\ t.from \in Caches
    BY <1>9, <1>12, <1>14, <1>15, Zenon
  <2>2. Gives(t, e, s, g)
    BY ONLY Counting, <1>6, <2>1, GrantedFacts, Zenon
  <2>3. QED
    BY ONLY <1>5, <2>2, Zenon DEF Gives
<1>17. /\ x \in MESI /\ x # "I" /\ (x \in Exclusive <=> mesi[t.cache][t.way] \in Exclusive)
       /\ t.type = "GETX" => x = "M"
  BY <1>11, <1>13, <1>15, ZenonT(30) DEF MESI, Exclusive
<1>18. /\ wback' \in [Cores -> BOOLEAN] /\ ~ wback'[p]
       /\ \A q \in Cores : q # p => wback'[q] = wback[q]
  BY <1>12, ZenonT(30) DEF CoherenceInv, Types
<1>19. /\ DataTypes'
       /\ \A a \in Caches : \A i \in 1..Ways[a] :
            /\ mesi'[a][i] = IF a = t.from /\ i = t.slot THEN g.state
                             ELSE IF a = t.cache /\ i = t.way THEN x ELSE mesi[a][i]
            /\ dir'[a][i] = IF a = t.cache /\ i = t.way THEN g.entry ELSE dir[a][i]
  <2>1. /\ t.cache \in Caches /\ t.way \in 1..Ways[t.cache] /\ t.from \in Caches
        /\ t.slot \in 1..Ways[t.from] /\ t.from # t.cache
    BY <1>9, <1>13, <1>14, Zenon
  <2>2. g.state \in MESI /\ g.entry \in Entries /\ x \in MESI
    BY <1>16, <1>17, Zenon
  <2>3. UNCHANGED <<tag, tcc, bcc>> /\ wback' \in [Cores -> BOOLEAN]
    BY <1>12, <1>18, Zenon
  <2>4. SetsWay(dir', dir, t.cache, t.way, g.entry) /\ SetsWay(mesi', m, t.cache, t.way, x)
    BY <1>12, ZenonT(30)
  <2>5. QED
    BY ONLY CoherenceInv, <1>10, <2>1, <2>2, <2>3, <2>4, SetGrant, SMTT(40)
<1>20. Local(t, n) /\ LocksLeft(t)
  BY <1>12, <1>13, <1>19, ZenonT(60) DEF Local, LocksLeft
<1>21. FewExclusive(t)
  BY <1>12, <1>14, <1>17, <1>19, SMTT(40) DEF FewExclusive
<1>22. /\ call \in Calls /\ SameCall(call, t) /\ call.pc = "end" /\ call.pc \in Under
       /\ call.cache = t.cache /\ call.way = t.way /\ call.type = t.type
       /\ call.line = t.line /\ IsCall(call) /\ call.from = t.from /\ call.slot = t.slot
  BY <1>7, <1>9, Zenon DEF Calls, IsCall, SameCall, Under
<1>23. (n = 1 => Outermost(p, call)) /\ (n > 1 => Asks(call, h)')
  BY <1>2, <1>3, <1>9, <1>20, <1>22, AsksOn, Zenon
<1>24. mesi'[t.from][t.slot] = g.state /\ mesi'[t.cache][t.way] = x
  BY <1>9, <1>13, <1>14, <1>19, Zenon
<1>25. Asked(call)'
  BY <1>16, <1>22, <1>24, ZenonT(30) DEF Asked, Puts, Pending
<1>26. Progress(call, n, FALSE)'
  BY <1>12, <1>13, <1>17, <1>22, <1>24, ZenonT(30) DEF Progress, Puts
<1>27. tcc'[t.cache] = tcc[t.cache] /\ bcc'[t.cache] = p
  BY <1>2, <1>9, <1>12, InvParts, ZenonT(30) DEF Locks, LockAt
<1>28. /\ Types' /\ Shape' /\ Order' /\ Locks' /\ Accesses' /\ Recalls'
       /\ \A c, d, v : Upgrades(c, d, v) =>
            \/ Upgrades(c, d, v)'
            \/ t.pc = "grant" /\ c = t.from /\ d = t.cache /\ v = t.way
  <2>1. n \in 1..Depth(p) /\ t.pc \in Under /\ stack[p] # <<>> /\ Goto(p, call)
    BY <1>9, <1>12, Zenon
  <2>2. call \in Calls /\ call.pc \in Under /\ call.cache = t.cache
    BY <1>22, Zenon
  <2>3. DataTypes' /\ (n > 1 => Asks(call, h)' /\ Asked(call)')
    BY <1>19, <1>23, <1>25, Zenon
  <2>4. QED
    BY ONLY CoherenceInv, p \in Cores, <1>1, <1>2, <1>3, <1>18, <1>20, <1>21, <1>23, <1>26,
            <1>27, <2>1, <2>2, <2>3, AccessGoto, ZenonT(120)
<1>29. Arrays' /\ Listed' /\ Inclusive' /\ Alone'
  <2>1. \A y : Upgrades(y, t.cache, t.way) => y = t.from
    BY <1>2, <1>9, OwnUpgrade, ZenonT(30)
  <2>2. \A y, a, i : Upgrades(y, a, i) /\ ~ (a = t.cache /\ i = t.way) => Upgrades(y, a, i)'
    BY <1>28, Zenon
  <2>3. ASSUME t.type \in Puts
        PROVE  /\ dir[t.from][t.slot].sharers = {}
               /\ \A y : ~ Upgrades(y, t.from, t.slot)
    <3>1. h.pc = "fetch" /\ dir[t.from][t.slot].sharers = {}
      BY <1>14, <2>3, ZenonT(30) DEF Asks
    <3>2. \A y : ~ Upgrades(y, h.cache, t.slot)
      <4>1. n - 1 \in 1..Depth(p) /\ h.pc \in {"bcc"} \cup Under
        BY <1>14, ZenonT(30)
      <4>2. QED
        BY <1>3, <3>1, <4>1, OwnUpgrade, ZenonT(30)
    <3>3. QED
      BY <1>14, <3>1, <3>2, Zenon
  <2>4. g.state # "I" /\ g.state \notin Exclusive => mesi[t.from][t.slot] = "I"
    <3>1. t.type \notin Puts /\ t.type # "GETX" => t.type = "GETS"
      BY <1>9, ZenonT(30) DEF Calls, Gets, Puts
    <3>2. t.type = "GETS" => mesi[t.from][t.slot] = "I"
      BY <1>9, <1>14, ZenonT(30) DEF Asked
    <3>3. QED
      BY <1>16, <3>1, <3>2, ZenonT(30) DEF Exclusive
  <2>5. g.state \in Exclusive => x \in Exclusive
    BY <1>16, <1>17, ZenonT(30) DEF Exclusive
  <2>6. /\ g.state = "I" => /\ g.entry.sharers = e.sharers \ {t.from}
                            /\ g.entry.exclusive = e.exclusive
                            /\ dir[t.from][t.slot].sharers = {}
                            /\ \A y : ~ Upgrades(y, t.from, t.slot)
        /\ g.state # "I" =>
             /\ g.entry.sharers = e.sharers \cup {t.from}
             /\ \A y \in Caches : y # t.from => ~ (e.sharers = {y} /\ e.exclusive)
        /\ g.state \in Exclusive => /\ e.sharers \subseteq {t.from} /\ g.entry.exclusive
                                    /\ x \in Exclusive
    BY <1>16, <2>3, <2>5, ZenonT(30)
  <2>7. /\ t.cache \in Caches /\ t.way \in 1..Ways[t.cache] /\ t.from \in Caches
        /\ t.slot \in 1..Ways[t.from] /\ t.cache # t.from /\ t.line \in Lines
        /\ tag[t.from][t.slot] = t.line /\ tag[t.cache][t.way] = t.line
        /\ Parent[t.from][t.line] = t.cache /\ mesi[t.cache][t.way] # "I" /\ UNCHANGED tag
        /\ x # "I" /\ (x \in Exclusive <=> mesi[t.cache][t.way] \in Exclusive)
    BY <1>9, <1>12, <1>13, <1>14, <1>17, ZenonT(30)
  <2>8. Answers(t.from, t.slot, t.cache, t.way, t.line, g.state, x, g.entry)
    BY <1>19, <2>7, Zenon DEF Answers
  <2>9. AnswerFits(t.from, t.slot, t.cache, t.way, g.state, x, dir[t.cache][t.way], g.entry)
    BY <1>4, <2>4, <2>6, Zenon DEF AnswerFits
  <2>10. QED
    BY ONLY CoherenceInv, <2>1, <2>2, <2>7, <2>8, <2>9, GrantLine, Zenon
<1>30. QED
  BY <1>28, <1>29, Zenon DEF CoherenceInv
=============================================================================
