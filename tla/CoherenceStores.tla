--------------------------- MODULE CoherenceStores --------------------------
(***************************************************************************)
(* What the invariant says of the lines (one writer, exact directories, only *)
(* the foreseen races), and two more invariants that rest on it: a stored  *)
(* value is never lost, and what a filter answers for is backed by its     *)
(* cache.                                                                  *)
(***************************************************************************)
EXTENDS CoherenceFacts

-----------------------------------------------------------------------------
(* What the invariant means for the lines                                  *)

\* State is the state of the way that has the line, if one does.
LEMMA StateOf ==
    ASSUME CoherenceInv, NEW c \in Caches, NEW l \in Lines
    PROVE  /\ State(c, l) # "I" => \E w \in 1..Ways[c] :
                tag[c][w] = l /\ mesi[c][w] = State(c, l)
           /\ \A w \in 1..Ways[c] : tag[c][w] = l =>
                State(c, l) = mesi[c][w] /\ Lookup(c, l) = w
<1>1. Arrays /\ l # None
  BY CoherenceAssumption, Zenon DEF CoherenceInv
<1>2. \A w \in 1..Ways[c] : w # 0
  BY CoherenceAssumption
<1>3. CASE Lookup(c, l) = 0 /\ Absent(c, l)
  BY <1>3, Zenon DEF State, Absent
<1>4. CASE Lookup(c, l) \in 1..Ways[c] /\ tag[c][Lookup(c, l)] = l
  <2>1. State(c, l) = mesi[c][Lookup(c, l)]
    BY <1>2, <1>4, Zenon DEF State
  <2>2. QED
    BY <1>1, <1>4, <2>1, Zenon DEF Arrays
<1>5. QED
  BY <1>3, <1>4, LookupFinds, Zenon

\* A line that a child holds is in a way of the parent that covers the copy.
LEMMA ParentHolds ==
    ASSUME CoherenceInv, NEW c \in Caches, NEW l \in Lines, State(c, l) # "I",
           NEW d, d = Parent[c][l], d # Mem
    PROVE  /\ d \in Caches /\ Lookup(d, l) \in 1..Ways[d] /\ Lookup(d, l) # 0
           /\ State(d, l) # "I" /\ tag[d][Lookup(d, l)] = l
           /\ c \in dir[d][Lookup(d, l)].sharers \/ Upgrades(c, d, Lookup(d, l))
           /\ State(c, l) \in Exclusive =>
                /\ State(d, l) \in Exclusive
                /\ dir[d][Lookup(d, l)].exclusive /\ dir[d][Lookup(d, l)].sharers = {c}
<1>1. PICK w \in 1..Ways[c] : tag[c][w] = l /\ mesi[c][w] = State(c, l)
  BY StateOf, Zenon
<1>2. d \in Caches
  BY TreeFacts
<1>3. PICK v \in 1..Ways[d] : Covers(d, v, c, w)
  BY <1>1, Zenon DEF CoherenceInv, Inclusive
<1>4. tag[d][v] = l
  BY <1>1, <1>3, ZenonT(30) DEF Covers
<1>5. State(d, l) = mesi[d][v] /\ Lookup(d, l) = v /\ v # 0
  BY <1>2, <1>4, StateOf, CoherenceAssumption, SMTT(30)
<1>6. QED
  BY <1>1, <1>2, <1>3, <1>4, <1>5, Zenon DEF Covers

\* The caches on the way from c to memory: in every set that has c and the
\* parents of its members.
Closed(S, l) == \A x \in S : Parent[x][l] # Mem => Parent[x][l] \in S

Path(c, l) ==
    {x \in Caches : \A S \in SUBSET Caches : c \in S /\ Closed(S, l) => x \in S}

\* Each of them but c is the parent of another.
LEMMA PathFacts ==
    ASSUME NEW c \in Caches, NEW l \in Lines
    PROVE  /\ c \in Path(c, l) /\ Closed(Path(c, l), l)
           /\ \A z \in Path(c, l) : z # c => \E x \in Path(c, l) : Parent[x][l] = z
<1>1. c \in Path(c, l)
  BY Zenon DEF Path
<1>2. Closed(Path(c, l), l)
  <2>1. SUFFICES ASSUME NEW x \in Path(c, l), Parent[x][l] # Mem
                 PROVE  Parent[x][l] \in Path(c, l)
    BY Zenon DEF Closed
  <2>2. x \in Caches /\ Parent[x][l] \in Caches
    BY <2>1, TreeFacts DEF Path
  <2>3. QED
    BY <2>1, <2>2, Zenon DEF Path, Closed
<1>3. ASSUME NEW z \in Path(c, l), z # c
      PROVE  \E x \in Path(c, l) : Parent[x][l] = z
  <2>1. SUFFICES ASSUME \A x \in Path(c, l) : Parent[x][l] # z
                 PROVE  FALSE
    OBVIOUS
  <2>2. PICK S : S = Path(c, l) \ {z}
    BY Zenon
  <2>3. S \in SUBSET Caches /\ c \in S
    BY <1>1, <1>3, <2>2, Zenon DEF Path
  <2>4. Closed(S, l)
    BY <1>2, <2>1, <2>2, Zenon DEF Closed
  <2>5. z \in S
    BY <1>3, <2>3, <2>4, Zenon DEF Path
  <2>6. QED
    BY <2>2, <2>5, Zenon
<1>4. QED
  BY <1>1, <1>2, <1>3, Zenon

\* Of some caches one is the nearest to memory.
LEMMA Nearest ==
    ASSUME Counting, NEW Y \in SUBSET Caches, Y # {}
    PROVE  \E y \in Y : \A x \in Y : ~ (Rank[x] < Rank[y])
<1>1. PICK R : R = {Rank[y] : y \in Y}
  BY Zenon
<1>2. R \in SUBSET Nat /\ R # {}
  BY <1>1, RankFalls, Zenon
<1>3. PICK r \in R : \A s \in R : ~ (s < r)
  BY <1>2, ZenonT(30) DEF Counting
<1>4. QED
  BY <1>1, <1>3, Zenon

\* An exclusive line of an L1 is held by the caches on its way to memory only.
LEMMA OnePath ==
    ASSUME CoherenceInv, Counting, NEW l \in Lines, NEW c \in Caches, c \in Terminals,
           State(c, l) \in Exclusive, NEW d \in Caches, State(d, l) # "I"
    PROVE  d \in Path(c, l)
<1>1. PICK P : P = Path(c, l)
  BY SMTT(30)
<1>2. /\ P \in SUBSET Caches /\ c \in P
      /\ \A x \in P : Parent[x][l] # Mem => Parent[x][l] \in P
      /\ \A z \in P : z # c => \E x \in P : Parent[x][l] = z
  BY <1>1, PathFacts, Zenon DEF Path, Closed
<1>3. \A x \in P : State(x, l) \in Exclusive
  <2>1. PICK S : S = {x \in Caches : State(x, l) \in Exclusive}
    BY Zenon
  <2>2. c \in S /\ S \in SUBSET Caches
    BY <2>1, Zenon
  <2>3. Closed(S, l)
    BY <2>1, ParentHolds, Zenon DEF Closed, Exclusive
  <2>4. QED
    BY <1>1, <2>1, <2>2, <2>3, Zenon DEF Path
<1>4. \A x \in Caches : State(x, l) # "I" /\ Parent[x][l] = Mem => x = LLC(l)
  BY StateOf, CoherenceAssumption DEF CoherenceInv, Arrays
<1>5. LLC(l) \in P
  <2>1. PICK y \in P : \A x \in P : ~ (Rank[x] < Rank[y])
    BY <1>2, Nearest, Zenon
  <2>2. Parent[y][l] = Mem
    BY <1>2, <2>1, RankFalls, Zenon
  <2>3. QED
    BY <1>2, <1>3, <1>4, <2>2, Zenon DEF Exclusive
<1>6. SUFFICES ASSUME d \notin P
               PROVE  FALSE
  BY <1>1, Zenon
<1>7. PICK Y : Y = {y \in Caches : State(y, l) # "I" /\ y \notin P}
  BY Zenon
<1>8. PICK y \in Y : \A x \in Y : ~ (Rank[x] < Rank[y])
  BY <1>6, <1>7, Nearest, Zenon
<1>9. y \in Caches /\ State(y, l) # "I" /\ y \notin P /\ Parent[y][l] # Mem
  BY <1>4, <1>5, <1>7, <1>8, Zenon
<1>10. PICK z : z = Parent[y][l]
  OBVIOUS
<1>11. z \in P
  <2>1. z \in Caches /\ State(z, l) # "I" /\ Rank[z] < Rank[y]
    BY <1>9, <1>10, ParentHolds, RankFalls, SMTT(30)
  <2>2. QED
    BY <1>7, <1>8, <2>1, ZenonT(30)
<1>12. z # c
  BY <1>9, <1>10, TreeFacts, SMTT(30)
<1>13. PICK x \in P : Parent[x][l] = z
  BY <1>2, <1>11, <1>12, Zenon
<1>14. x \in Caches /\ x # y /\ State(x, l) \in Exclusive
  BY <1>2, <1>3, <1>9, <1>13, ZenonT(30)
<1>15. PICK w \in 1..Ways[x] : tag[x][w] = l /\ mesi[x][w] = State(x, l)
  BY <1>14, StateOf, Zenon DEF Exclusive
<1>16. PICK v \in 1..Ways[y] : tag[y][v] = l /\ mesi[y][v] = State(y, l)
  BY <1>9, StateOf, Zenon
<1>17. Alone
  BY Zenon DEF CoherenceInv
<1>18. QED
  BY <1>9, <1>10, <1>13, <1>14, <1>15, <1>16, <1>17, SMTT(30) DEF Alone

\* A line that one cache may write is held by no cache beside it.
LEMMA OneWriter ==
    ASSUME CoherenceInv, Counting
    PROVE  SingleWriter
<1>1. SUFFICES ASSUME NEW l \in Lines, NEW c \in Caches, State(c, l) \in Exclusive,
                      NEW d \in Caches \ {c}, State(d, l) # "I"
               PROVE  /\ Parent[c][l] # Parent[d][l]
                      /\ ~ ({c, d} \subseteq Terminals)
  BY DEF SingleWriter, States
<1>2. PICK w \in 1..Ways[c] : tag[c][w] = l /\ mesi[c][w] = State(c, l)
  BY <1>1, StateOf, Zenon DEF Exclusive
<1>3. PICK v \in 1..Ways[d] : tag[d][v] = l /\ mesi[d][v] = State(d, l)
  BY <1>1, StateOf, Zenon
<1>4. Parent[c][l] # Parent[d][l]
  <2>1. Alone
    BY Zenon DEF CoherenceInv
  <2>2. QED
    BY <1>1, <1>2, <1>3, <2>1, SMTT(30) DEF Alone
<1>5. ASSUME c \in Terminals, d \in Terminals
      PROVE  FALSE
  <2>1. d \in Path(c, l) /\ d # c
    BY <1>1, <1>5, OnePath, Zenon
  <2>2. PICK x \in Path(c, l) : Parent[x][l] = d
    BY <1>1, <2>1, PathFacts, Zenon
  <2>3. x \in Caches
    BY <2>2, Zenon DEF Path
  <2>4. QED
    BY <1>5, <2>2, <2>3, TreeFacts, Zenon
<1>6. QED
  BY <1>4, <1>5, ZenonT(30)

\* The sharers of a line are the children that hold it.
LEMMA ExactDirectories ==
    ASSUME CoherenceInv
    PROVE  DirectoryExact
<1>1. \A p \in Cores : ~ InCall(p, "panic")
  <2>1. SUFFICES ASSUME NEW p \in Cores, InCall(p, "panic")
                 PROVE  FALSE
    OBVIOUS
  <2>2. Stacks /\ Shape /\ stack[p] # <<>> /\ stack[p][1].pc = "panic"
    BY <2>1, InvParts, Zenon DEF InCall
  <2>3. Depth(p) \in 1..Depth(p) /\ Frame(p, Depth(p)).pc = "panic"
    BY <2>2, TopFrame
  <2>4. QED
    BY <2>2, <2>3, Zenon DEF Shape, ShapeAt
<1>2. ASSUME NEW l \in Lines, NEW d \in Caches \ Terminals
      PROVE  LET st == [c \in Children[d] |-> State(c, l)]
                 holders == {c \in Children[d] : Parent[c][l] = d /\ st[c] # "I"}
                 w == Lookup(d, l)
                 listed == IF w = 0 THEN {} ELSE dir[d][w].sharers
             IN /\ listed \subseteq holders
                /\ \A c \in holders \ listed : Upgrading(c, l)
                /\ holders # {} => State(d, l) # "I"
                /\ \A c \in holders : st[c] \in Exclusive =>
                     /\ State(d, l) \in Exclusive
                     /\ dir[d][w].exclusive /\ holders = {c}
  <2>1. Children[d] = {c \in Caches : \E k \in Lines : Parent[c][k] = d}
    BY Zenon DEF Children
  <2>2. PICK holders : holders = {c \in Caches : Parent[c][l] = d /\ State(c, l) # "I"}
    BY Zenon
  <2>3. holders = {c \in Children[d] : Parent[c][l] = d
                     /\ [y \in Children[d] |-> State(y, l)][c] # "I"}
    BY <2>1, <2>2, Zenon
  <2>4. PICK w : w = Lookup(d, l)
    OBVIOUS
  <2>5. PICK listed : listed = IF w = 0 THEN {} ELSE dir[d][w].sharers
    BY Zenon
  <2>6. d # Mem /\ l # None
    BY CoherenceAssumption, Zenon
  <2>7. listed \subseteq holders
    <3>1. SUFFICES ASSUME NEW c \in listed
                   PROVE  c \in holders
      OBVIOUS
    <3>2. w # 0 /\ c \in dir[d][w].sharers
      BY <2>5, <3>1, Zenon
    <3>3. w \in 1..Ways[d] /\ tag[d][w] = l
      BY <2>4, <3>2, LookupFinds, Zenon
    <3>4. c \in Caches
      BY <3>2, <3>3, Zenon DEF CoherenceInv, Types, Entries
    <3>5. Parent[c][l] = d /\ \E v \in 1..Ways[c] : tag[c][v] = l /\ mesi[c][v] # "I"
      BY <3>2, <3>3, SMTT(30) DEF CoherenceInv, Listed
    <3>6. State(c, l) # "I"
      BY <3>4, <3>5, StateOf, Zenon
    <3>7. QED
      BY <2>2, <3>4, <3>5, <3>6, Zenon
  <2>8. ASSUME NEW c \in holders
        PROVE  /\ State(d, l) # "I" /\ w \in 1..Ways[d] /\ w # 0 /\ tag[d][w] = l
               /\ c \in listed \/ Upgrades(c, d, w)
               /\ State(c, l) \in Exclusive =>
                    State(d, l) \in Exclusive /\ dir[d][w].exclusive
    <3>1. c \in Caches /\ State(c, l) # "I" /\ Parent[c][l] = d
      BY <2>2, <2>8, ZenonT(30)
    <3>2. /\ State(d, l) # "I" /\ w \in 1..Ways[d] /\ w # 0 /\ tag[d][w] = l
          /\ c \in dir[d][w].sharers \/ Upgrades(c, d, w)
          /\ State(c, l) \in Exclusive =>
               State(d, l) \in Exclusive /\ dir[d][w].exclusive
      BY <2>4, <2>6, <3>1, ParentHolds, SMTT(30)
    <3>3. QED
      BY <2>5, <3>2, Zenon
  <2>9. ASSUME NEW c \in holders \ listed
        PROVE  Upgrading(c, l)
    <3>1. Upgrades(c, d, w) /\ tag[d][w] = l
      BY <2>8, <2>9, Zenon
    <3>2. PICK p \in Cores : \E k \in 1..Depth(p) :
            /\ Frame(p, k).pc = "grant" /\ ~ Waits(p, k) /\ Frame(p, k).type = "GETX"
            /\ Frame(p, k).cache = d /\ Frame(p, k).way = w /\ Frame(p, k).from = c
      BY <3>1, Zenon DEF Upgrades
    <3>3. PICK k \in 1..Depth(p) :
            /\ Frame(p, k).pc = "grant" /\ ~ Waits(p, k) /\ Frame(p, k).type = "GETX"
            /\ Frame(p, k).cache = d /\ Frame(p, k).way = w /\ Frame(p, k).from = c
      BY <3>2, Zenon
    <3>4. Frame(p, k).line = l
      <4>1. AccessAt(p, k) /\ IsCall(Frame(p, k))
        BY <3>3, InvParts, Zenon DEF Accesses, IsCall
      <4>2. tag[d][w] = Frame(p, k).line
        BY <3>3, <4>1, Zenon DEF AccessAt, Progress, Puts
      <4>3. QED
        BY <3>1, <4>2, Zenon
    <3>5. \E i \in DOMAIN stack[p] : stack[p][i] = Frame(p, k)
      BY InvParts, SMTT(30) DEF Stacks, Depth, Frame
    <3>6. QED
      BY <3>3, <3>4, <3>5, Zenon DEF Upgrading
  <2>10. ASSUME NEW c \in holders, NEW y \in holders, State(c, l) \in Exclusive
         PROVE  y = c
    <3>1. /\ c \in Caches /\ Parent[c][l] = d /\ State(c, l) # "I"
          /\ y \in Caches /\ Parent[y][l] = d /\ State(y, l) # "I"
      BY <2>2, <2>10, Zenon
    <3>2. PICK i \in 1..Ways[c] : tag[c][i] = l /\ mesi[c][i] = State(c, l)
      BY <3>1, StateOf, Zenon
    <3>3. PICK j \in 1..Ways[y] : tag[y][j] = l /\ mesi[y][j] = State(y, l)
      BY <3>1, StateOf, Zenon
    <3>4. Alone
      BY Zenon DEF CoherenceInv
    <3>5. QED
      BY <2>10, <3>1, <3>2, <3>3, <3>4, SMTT(30) DEF Alone
  <2>11. QED
    <3>1. holders # {} => State(d, l) # "I"
      BY <2>8, Zenon
    <3>2. \A c \in holders : State(c, l) \in Exclusive =>
            State(d, l) \in Exclusive /\ dir[d][w].exclusive /\ holders = {c}
      BY <2>8, <2>10, Zenon
    <3>3. \A c \in holders : [y \in Children[d] |-> State(y, l)][c] = State(c, l)
      BY <2>1, <2>2, Zenon
    <3>4. QED
      BY <2>3, <2>4, <2>5, <2>7, <2>9, <3>1, <3>2, <3>3, ZenonT(30)
<1>3. QED
  BY <1>1, <1>2, Zenon DEF DirectoryExact

\* Of the states a waiting request may find, CheckForMESIRace names all.
LEMMA OnlyForeseen ==
    ASSUME CoherenceInv
    PROVE  RacesForeseen
<1>1. SUFFICES ASSUME NEW p \in Cores, stack[p] # <<>>, Call(p).pc \in {"tcc", "bcc"},
                      ReqState(Call(p)) # Call(p).init
               PROVE  \/ Call(p).type = "PUTX" /\ ReqState(Call(p)) \in {"I", "S"}
                      \/ Call(p).type = "PUTS" /\ ReqState(Call(p)) \in {"I", "S"}
                      \/ /\ Call(p).type = "GETX" /\ Call(p).init = "S"
                         /\ ReqState(Call(p)) = "I"
  BY Zenon DEF RacesForeseen
<1>2. PICK n : n = Depth(p)
  OBVIOUS
<1>3. PICK f : f = Frame(p, n)
  OBVIOUS
<1>4. /\ f = Call(p) /\ n \in 1..Depth(p) /\ n \in Nat \ {0} /\ f.pc \in Pending
      /\ IsCall(f) /\ f \in Calls /\ ShapeAt(p, n) /\ AccessAt(p, n)
  <2>1. f = Call(p) /\ n \in 1..Depth(p) /\ n \in Nat \ {0}
    BY <1>1, <1>2, <1>3, InvParts, TopFrame, SMTT(30)
  <2>2. f.pc \in Pending /\ IsCall(f)
    BY <1>1, <2>1, ZenonT(30) DEF Pending, IsCall
  <2>3. QED
    BY <1>3, <2>1, <2>2, InvParts, FrameFields, ZenonT(30) DEF Shape, Accesses
<1>5. n > 1
  <2>1. n = 1 => Outermost(p, f)
    BY <1>3, <1>4, Zenon DEF ShapeAt
  <2>2. QED
    BY <1>1, <1>4, <2>1, SMTT(30) DEF Outermost, ReqState
<1>6. ReqState(f) = mesi[f.from][f.slot]
  <2>1. n - 1 \in 1..Depth(p) /\ Asks(f, Frame(p, n - 1))
    BY <1>2, <1>3, <1>4, <1>5, SMTT(30) DEF ShapeAt
  <2>2. f.from \in Caches
    BY <2>1, InvParts, FrameFields, Zenon DEF Asks
  <2>3. QED
    BY <2>2, CoherenceAssumption, Zenon DEF ReqState
<1>7. Asked(f)
  BY <1>3, <1>4, <1>5, Zenon DEF AccessAt
<1>8. f.type \in {"GETS", "GETX", "PUTS", "PUTX"} /\ f.pc # "end"
  BY <1>4, Zenon DEF Calls, Gets, Puts, Pending
<1>9. QED
  BY <1>1, <1>4, <1>6, <1>7, <1>8, ZenonT(30) DEF Asked

-----------------------------------------------------------------------------
(* What a step makes of the stack and the line it works on                 *)

\* What a step of p makes of the frames, whatever the step: the innermost one
\* stays at its cache and line, and may make a call, or it returns.
SameSite(f, t) ==
    /\ f.cache = t.cache /\ f.line = t.line /\ (IsCall(f) <=> IsCall(t))
    /\ IsCall(t) => f.vline = t.vline

Moves(p, n, t) ==
    /\ \A q \in Cores : q # p => stack'[q] = stack[q]
    /\ \A k \in 1 .. n - 1 : Frame(p, k)' = Frame(p, k)
    /\ \/ /\ Depth(p)' \in {n, n + 1} /\ SameSite(Frame(p, n)', t)
          /\ Depth(p)' = n + 1 => Frame(p, n + 1)'.pc # "down"
       \/ Depth(p)' = n - 1 /\ (n = 1 => t.pc = "end")

\* The same for the three forms a step can take.
LEMMA GotoMoves ==
    ASSUME CoherenceInv, CoherenceInv', NEW p \in Cores, stack[p] # <<>>,
           NEW n, n = Depth(p), NEW t, t = Frame(p, n),
           NEW call, Goto(p, call), SameSite(call, t)
    PROVE  Moves(p, n, t) /\ Frame(p, n)' = call /\ Depth(p)' = n
<1>1. Stacks /\ Stacks'
  BY Zenon DEF CoherenceInv, Types, Stacks
<1>2. call \in Calls \cup Invs
  <2>1. stack'[p] = <<call>> \o Tail(stack[p])
    BY <1>1, Zenon DEF Goto, Stacks
  <2>2. stack'[p] \in Seq(Calls \cup Invs)
    BY <1>1, Zenon DEF Stacks
  <2>3. stack'[p][1] = call /\ Len(stack'[p]) > 0
    BY <1>1, <2>1 DEF Stacks
  <2>4. QED
    BY <2>2, <2>3
<1>3. StackGoto(p, call) /\ n \in Nat \ {0}
  BY <1>1, <1>2, GotoFrames, TopFrame, Zenon
<1>4. \A q \in Cores : q # p => stack'[q] = stack[q]
  BY <1>1, Zenon DEF Goto, Stacks
<1>5. Depth(p)' = n /\ Frame(p, n)' = call /\ \A k \in 1 .. n - 1 : Frame(p, k)' = Frame(p, k)
  BY <1>3 DEF StackGoto
<1>6. QED
  BY <1>3, <1>4, <1>5, SMTT(30) DEF Moves

\* ... it makes a call ...
LEMMA PushMoves ==
    ASSUME CoherenceInv, CoherenceInv', NEW p \in Cores, stack[p] # <<>>,
           NEW n, n = Depth(p), NEW t, t = Frame(p, n),
           NEW call, NEW inner, Push(p, call, inner), SameSite(call, t), inner.pc # "down"
    PROVE  Moves(p, n, t) /\ Frame(p, n)' = call /\ Depth(p)' = n + 1
           /\ Frame(p, n + 1)' = inner
<1>1. Stacks /\ Stacks'
  BY Zenon DEF CoherenceInv, Types, Stacks
<1>2. call \in Calls \cup Invs /\ inner \in Calls \cup Invs
  <2>1. stack'[p] = <<inner, call>> \o Tail(stack[p])
    BY <1>1, Zenon DEF Push, Stacks
  <2>2. stack'[p] \in Seq(Calls \cup Invs)
    BY <1>1, Zenon DEF Stacks
  <2>3. stack'[p][1] = inner /\ stack'[p][2] = call /\ Len(stack'[p]) > 1
    BY <1>1, <2>1 DEF Stacks
  <2>4. QED
    BY <2>2, <2>3
<1>3. StackPush(p, call, inner) /\ n \in Nat \ {0}
  BY <1>1, <1>2, PushFrames, TopFrame, Zenon
<1>4. \A q \in Cores : q # p => stack'[q] = stack[q]
  BY <1>1, Zenon DEF Push, Stacks
<1>5. /\ Depth(p)' = n + 1 /\ Frame(p, n)' = call /\ Frame(p, n + 1)' = inner
      /\ \A k \in 1 .. n - 1 : Frame(p, k)' = Frame(p, k)
  BY <1>3 DEF StackPush
<1>6. QED
  BY <1>3, <1>4, <1>5, Zenon DEF Moves

\* ... or it returns.
LEMMA PopMoves ==
    ASSUME CoherenceInv, NEW p \in Cores, stack[p] # <<>>,
           NEW n, n = Depth(p), NEW t, t = Frame(p, n), Pop(p), n = 1 => t.pc = "end"
    PROVE  Moves(p, n, t) /\ Depth(p)' = n - 1
<1>1. Stacks
  BY Zenon DEF CoherenceInv, Types, Stacks
<1>2. StackPop(p) /\ n \in Nat \ {0}
  BY <1>1, PopFrames, TopFrame, Zenon
<1>3. \A q \in Cores : q # p => stack'[q] = stack[q]
  BY <1>1, Zenon DEF Pop, Stacks
<1>4. Depth(p)' = n - 1 /\ \A k \in 1 .. n - 1 : Frame(p, k)' = Frame(p, k)
  BY <1>2, Zenon DEF StackPop
<1>5. QED
  BY <1>2, <1>3, <1>4, Zenon DEF Moves

\* What it makes of the lines: a fetch changes a tag; a state changes in the
\* cache of an access, in the way of an invalidation, or in the child's way
\* that is granted a state.
Touches(t) ==
    \A c \in Caches : \A i \in 1..Ways[c] :
        /\ tag'[c][i] # tag[c][i] => c = t.cache /\ t.pc = "fetch"
        /\ mesi'[c][i] # mesi[c][i] =>
             \/ c = t.cache /\ IsCall(t)
             \/ c = t.cache /\ i = t.way /\ t.pc = "down"
             \/ c = t.from /\ i = t.slot /\ t.pc = "grant"

\* A modified line stays so, and so does the access it is recalled for.
Quietly(p, n, t) ==
    /\ UNCHANGED <<tag, wback, dirty>>
    /\ \A c \in Caches : \A i \in 1..Ways[c] : mesi[c][i] = "M" => mesi'[c][i] = "M"
    /\ wback[p] => /\ \/ Depth(p)' = n
                      \/ Depth(p)' = n + 1 /\ ~ IsCall(Frame(p, n + 1))'
                   /\ IsCall(t) => Frame(p, n)' = t

\* What the steps that wait for no other cache do, and those that send an
\* invalidation.
LEMMA LockTopDoes ==
    ASSUME CoherenceInv, CoherenceInv', NEW p \in Cores, LockTop(p),
           NEW n, n = Depth(p), NEW t, t = Frame(p, n)
    PROVE  Moves(p, n, t) /\ Touches(t) /\ Quietly(p, n, t) /\ UNCHANGED filter
<1>1. /\ stack[p] # <<>> /\ t = Call(p) /\ t.pc = "tcc" /\ IsCall(t) /\ t \in Calls /\ ~ wback[p]
  BY Top DEF LockTop
<1>2. PICK call : call = [t EXCEPT !.pc = "bcc"]
  BY Zenon
<1>3. SameSite(call, t)
  BY <1>1, <1>2, Zenon DEF Calls, SameSite, IsCall
<1>4. Goto(p, call) /\ UNCHANGED <<tag, mesi, wback, dirty, filter>>
  BY <1>1, <1>2, Zenon DEF LockTop
<1>5. Moves(p, n, t)
  BY <1>1, <1>3, <1>4, GotoMoves, Zenon
<1>6. QED
  BY <1>1, <1>4, <1>5, Zenon DEF Touches, Quietly

\* MESICC::startInvalidate and the filter of an L1.
LEMMA StartInvalidateDoes ==
    ASSUME CoherenceInv, CoherenceInv', NEW p \in Cores, StartInvalidate(p),
           NEW n, n = Depth(p), NEW t, t = Frame(p, n)
    PROVE  Moves(p, n, t) /\ Touches(t) /\ Quietly(p, n, t)
<1>1. /\ stack[p] # <<>> /\ t = Call(p) /\ t.pc = "inv" /\ ~ IsCall(t) /\ t \in Invs
  BY Top, Zenon DEF StartInvalidate
<1>2. PICK call : call = [t EXCEPT !.pc = "down", !.way = Lookup(t.cache, t.line)]
  BY Zenon
<1>3. SameSite(call, t)
  BY <1>1, <1>2, Zenon DEF Invs, SameSite, IsCall
<1>4. Goto(p, call) /\ UNCHANGED <<tag, mesi, wback, dirty>>
  BY <1>1, <1>2, Zenon DEF StartInvalidate
<1>5. Moves(p, n, t) /\ Depth(p)' = n
  BY <1>1, <1>3, <1>4, GotoMoves, Zenon
<1>6. QED
  BY <1>1, <1>4, <1>5, Zenon DEF Touches, Quietly

\* An invalidation is sent to a child.
LEMMA SendDoes ==
    ASSUME CoherenceInv, CoherenceInv', NEW p \in Cores,
           EvictChild(p) \/ Revoke(p) \/ ForwardInval(p),
           NEW n, n = Depth(p), NEW t, t = Frame(p, n)
    PROVE  Moves(p, n, t) /\ Touches(t) /\ Quietly(p, n, t) /\ UNCHANGED filter
<1>1. stack[p] # <<>> /\ t = Call(p)
  BY Top, Zenon DEF EvictChild, Revoke, ForwardInval
<1>2. \E c, l, x : Push(p, t, InvReq(c, l, x))
  <2>1. CASE EvictChild(p)
    BY <1>1, <2>1, Zenon DEF EvictChild
  <2>2. CASE Revoke(p)
    BY <1>1, <2>2, Zenon DEF Revoke
  <2>3. CASE ForwardInval(p)
    BY <1>1, <2>3, Zenon DEF ForwardInval
  <2>4. QED
    BY <2>1, <2>2, <2>3, Zenon
<1>3. PICK inner : Push(p, t, inner) /\ inner.pc = "inv"
  BY <1>2 DEF InvReq
<1>4. UNCHANGED <<tag, mesi, wback, dirty, filter>>
  BY Zenon DEF EvictChild, Revoke, ForwardInval
<1>5. SameSite(t, t)
  BY Zenon DEF SameSite
<1>6. Moves(p, n, t) /\ Depth(p)' = n + 1 /\ Frame(p, n)' = t /\ Frame(p, n + 1)' = inner
  BY <1>1, <1>3, <1>5, PushMoves, Zenon
<1>7. ~ IsCall(Frame(p, n + 1))'
  BY <1>3, <1>6, ZenonT(30) DEF IsCall
<1>8. QED
  BY <1>4, <1>6, <1>7, Zenon DEF Touches, Quietly

\* MESICC::startAccess and the lookup.
LEMMA StartAccessDoes ==
    ASSUME CoherenceInv, CoherenceInv', NEW p \in Cores, StartAccess(p),
           NEW n, n = Depth(p), NEW t, t = Frame(p, n)
    PROVE  Moves(p, n, t) /\ Touches(t) /\ Quietly(p, n, t) /\ UNCHANGED filter
<1>1. /\ stack[p] # <<>> /\ t = Call(p) /\ t.pc = "bcc" /\ IsCall(t) /\ t \in Calls
      /\ t.cache \in Caches /\ ~ wback[p]
  <2>1. InCall(p, "bcc")
    BY Zenon DEF StartAccess
  <2>2. QED
    BY <2>1, Top, SMTT(30)
<1>2. PICK type : type = Reduced(t)
  OBVIOUS
<1>3. PICK w : w = Lookup(t.cache, t.line)
  OBVIOUS
<1>4. w # 0 => w \in 1..Ways[t.cache]
  BY <1>1, <1>3, LookupFinds, Zenon
<1>5. /\ UNCHANGED <<tag, wback, dirty, filter>>
      /\ \/ UNCHANGED mesi
         \/ w # 0 /\ mesi' = [mesi EXCEPT ![t.cache][w] =
                                IF type \in {"PUTX", "GETX"} THEN "M" ELSE @]
  BY <1>1, <1>2, <1>3, Zenon DEF StartAccess
<1>6. \/ Goto(p, [t EXCEPT !.pc = "end"])
      \/ \E v, x : Goto(p, [t EXCEPT !.type = type, !.way = v, !.pc = x])
                   /\ x \in {"fetch", "evict", "panic", AfterFetch(t)}
  BY <1>1, <1>2, <1>3, Zenon DEF StartAccess
<1>7. PICK call : Goto(p, call) /\ SameSite(call, t)
  <2>1. CASE Goto(p, [t EXCEPT !.pc = "end"])
    <3>1. PICK call : call = [t EXCEPT !.pc = "end"]
      BY Zenon
    <3>2. SameSite(call, t)
      BY <1>1, <3>1, Zenon DEF Calls, SameSite, IsCall
    <3>3. QED
      BY <2>1, <3>1, <3>2, Zenon
  <2>2. ASSUME NEW v, NEW x, Goto(p, [t EXCEPT !.type = type, !.way = v, !.pc = x]),
               x \in {"fetch", "evict", "panic", AfterFetch(t)}
        PROVE  \E call : Goto(p, call) /\ SameSite(call, t)
    <3>1. PICK call : call = [t EXCEPT !.type = type, !.way = v, !.pc = x]
      BY Zenon
    <3>2. SameSite(call, t)
      BY <1>1, <2>2, <3>1, Zenon DEF Calls, SameSite, IsCall, AfterFetch
    <3>3. QED
      BY <2>2, <3>1, <3>2, ZenonT(30)
  <2>3. QED
    BY <1>6, <2>1, <2>2, Zenon
<1>8. Moves(p, n, t)
  BY <1>1, <1>7, GotoMoves, Zenon
<1>9. \A c \in Caches : \A i \in 1..Ways[c] :
        mesi'[c][i] = mesi[c][i] \/ (c = t.cache /\ mesi'[c][i] = "M")
  <2>1. CASE UNCHANGED mesi
    BY <2>1, Zenon
  <2>2. CASE w # 0 /\ mesi' = [mesi EXCEPT ![t.cache][w] =
                                 IF type \in {"PUTX", "GETX"} THEN "M" ELSE @]
    <3>1. PICK x : x = IF type \in {"PUTX", "GETX"} THEN "M" ELSE mesi[t.cache][w]
      OBVIOUS
    <3>2. SetsWay(mesi', mesi, t.cache, w, x)
      BY <2>2, <3>1, Zenon DEF SetsWay
    <3>3. Table(mesi)
      BY Zenon DEF CoherenceInv, Types
    <3>4. \A c \in Caches : \A i \in 1..Ways[c] :
            mesi'[c][i] = IF c = t.cache /\ i = w THEN x ELSE mesi[c][i]
      <4>1. w \in 1..Ways[t.cache] /\ t.cache \in Caches
        BY <1>1, <1>4, <2>2, Zenon
      <4>2. QED
        BY ONLY <3>2, <3>3, <4>1, TableUpdate, SMTT(30)
    <3>5. QED
      BY <3>1, <3>4, SMTT(30)
  <2>3. QED
    BY <1>5, <2>1, <2>2, Zenon
<1>10. QED
  BY <1>1, <1>5, <1>8, <1>9, ZenonT(30) DEF Touches, Quietly

\* A request that goes up: memory's answer, or the state the parent will see.
LEMMA GoUpDoes ==
    ASSUME CoherenceInv, CoherenceInv', NEW p \in Cores, stack[p] # <<>>,
           NEW n, n = Depth(p), NEW t \in Calls, t = Frame(p, n),
           NEW w \in 1..Ways[t.cache], NEW pc \in Under, NEW l, NEW type, NEW flags, NEW s,
           GoUp(p, t, pc, l, w, type, flags, s)
    PROVE  /\ Moves(p, n, t)
           /\ \A c \in Caches : \A i \in 1..Ways[c] : mesi'[c][i] =
                IF c = t.cache /\ i = w
                THEN IF Parent[t.cache][l] = Mem THEN MemGrants(type, flags) ELSE s
                ELSE mesi[c][i]
           /\ dirty' = IF Parent[t.cache][l] = Mem /\ type = "PUTX"
                       THEN dirty \ {l} ELSE dirty
<1>1. PICK call : call = [t EXCEPT !.pc = pc, !.way = w]
  BY Zenon
<1>2. SameSite(call, t)
  BY <1>1, ZenonT(30) DEF Calls, SameSite, IsCall, Under
<1>3. PICK x : x = IF Parent[t.cache][l] = Mem THEN MemGrants(type, flags) ELSE s
  OBVIOUS
<1>4. SetsWay(mesi', mesi, t.cache, w, x)
  BY <1>3, Zenon DEF GoUp, SetsWay
<1>5. dirty' = IF Parent[t.cache][l] = Mem /\ type = "PUTX" THEN dirty \ {l} ELSE dirty
  BY Zenon DEF GoUp
<1>6. Moves(p, n, t)
  <2>1. CASE Parent[t.cache][l] = Mem
    <3>1. Goto(p, call)
      BY <1>1, <2>1, Zenon DEF GoUp
    <3>2. QED
      BY <1>2, <3>1, GotoMoves, Zenon
  <2>2. CASE Parent[t.cache][l] # Mem
    <3>1. PICK inner : inner = Request(Parent[t.cache][l], l, type, flags, t.cache, w, s, None)
      OBVIOUS
    <3>2. Push(p, call, inner)
      BY <1>1, <2>2, <3>1, Zenon DEF GoUp
    <3>3. inner.pc # "down"
      BY <3>1, Zenon DEF Request
    <3>4. QED
      BY <1>2, <3>2, <3>3, PushMoves, ZenonT(30)
  <2>3. QED
    BY <2>1, <2>2, Zenon
<1>7. Table(mesi) /\ t.cache \in Caches
  BY ZenonT(30) DEF CoherenceInv, Types, Calls
<1>8. \A c \in Caches : \A i \in 1..Ways[c] :
        mesi'[c][i] = IF c = t.cache /\ i = w THEN x ELSE mesi[c][i]
  BY <1>4, <1>7, TableUpdate, SMTT(30)
<1>9. QED
  BY <1>3, <1>5, <1>6, <1>8, Zenon

\* The victim leaves: its modified data goes to memory, or stays until the
\* parent has taken the PUTX.
LEMMA EvictDoes ==
    ASSUME CoherenceInv, CoherenceInv', NEW p \in Cores, Evict(p),
           NEW n, n = Depth(p), NEW t, t = Frame(p, n)
    PROVE  /\ Moves(p, n, t) /\ Touches(t) /\ UNCHANGED <<tag, filter>>
           /\ IsBase(p, n) /\ n \in 1..Depth(p)
           /\ \A q \in Cores : q # p => wback'[q] = wback[q]
           /\ t.cache \in Caches /\ t.way \in 1..Ways[t.cache]
           /\ \A c \in Caches : \A i \in 1..Ways[c] :
                ~ (c = t.cache /\ i = t.way) => mesi'[c][i] = mesi[c][i]
           /\ \/ dirty' = dirty /\ mesi'[t.cache][t.way] = "M"
              \/ dirty' = dirty /\ mesi[t.cache][t.way] # "M" /\ ~ wback[p]
              \/ dirty' = dirty \ {tag[t.cache][t.way]}
<1>1. /\ stack[p] # <<>> /\ t = Call(p) /\ t.pc = "evict" /\ IsCall(t) /\ t \in Calls
      /\ t.cache \in Caches /\ AccessAt(p, n) /\ IsBase(p, n) /\ n \in 1..Depth(p)
  <2>1. InCall(p, "evict")
    BY Zenon DEF Evict
  <2>2. QED
    BY <2>1, Top, Zenon
<1>2. t.way \in 1..Ways[t.cache]
  BY <1>1, Zenon DEF AccessAt, Progress, Under
<1>3. PICK s : s = IF wback[p] THEN "M" ELSE mesi[t.cache][t.way]
  OBVIOUS
<1>4. PICK call : call = [t EXCEPT !.pc = "fetch"]
  BY Zenon
<1>5. PICK type : type = IF s = "M" THEN "PUTX" ELSE "PUTS"
  OBVIOUS
<1>6. /\ UNCHANGED <<tag, filter>> /\ wback' = [wback EXCEPT ![p] = FALSE]
      /\ IF s = "I" THEN Goto(p, call) /\ UNCHANGED <<mesi, dirty>>
         ELSE GoUp(p, t, "fetch", tag[t.cache][t.way], t.way, type, {}, s)
  BY <1>1, <1>3, <1>4, <1>5, Zenon DEF Evict
<1>7. \A q \in Cores : q # p => wback'[q] = wback[q]
  BY <1>6, Zenon DEF CoherenceInv, Types
<1>8. CASE s = "I"
  <2>1. SameSite(call, t)
    BY <1>1, <1>4, Zenon DEF Calls, SameSite, IsCall
  <2>2. Moves(p, n, t)
    BY <1>1, <1>6, <1>8, <2>1, GotoMoves, ZenonT(30)
  <2>3. QED
    BY <1>1, <1>2, <1>3, <1>6, <1>7, <1>8, <2>2, Zenon DEF Touches
<1>9. CASE s # "I"
  <2>1. PICK l : l = tag[t.cache][t.way]
    OBVIOUS
  <2>2. GoUp(p, t, "fetch", l, t.way, type, {}, s) /\ "fetch" \in Under
    BY <1>6, <1>9, <2>1, ZenonT(30) DEF Under
  <2>3. /\ Moves(p, n, t)
        /\ \A c \in Caches : \A i \in 1..Ways[c] : mesi'[c][i] =
             IF c = t.cache /\ i = t.way
             THEN IF Parent[t.cache][l] = Mem THEN MemGrants(type, {}) ELSE s
             ELSE mesi[c][i]
        /\ dirty' = IF Parent[t.cache][l] = Mem /\ type = "PUTX" THEN dirty \ {l} ELSE dirty
    <3>1. t \in Calls /\ stack[p] # <<>> /\ "fetch" \in Under /\ t.way \in 1..Ways[t.cache]
      BY <1>1, <1>2, <2>2, Zenon
    <3>2. QED
      BY ONLY CoherenceInv, CoherenceInv', p \in Cores, n = Depth(p), t = Frame(p, n),
         <2>2, <3>1, GoUpDoes, SMTT(40)
  <2>4. \/ dirty' = dirty /\ mesi'[t.cache][t.way] = "M"
        \/ dirty' = dirty /\ mesi[t.cache][t.way] # "M" /\ ~ wback[p]
        \/ dirty' = dirty \ {tag[t.cache][t.way]}
    BY <1>1, <1>2, <1>3, <1>5, <2>1, <2>3, ZenonT(30)
  <2>5. Touches(t)
    BY <1>1, <1>6, <2>3, ZenonT(30) DEF Touches
  <2>6. QED
    BY <1>1, <1>2, <1>6, <1>7, <2>3, <2>4, <2>5, ZenonT(30)
<1>10. QED
  BY <1>8, <1>9, Zenon

\* The new line comes: neither it nor the way it comes to was modified.
LEMMA FetchDoes ==
    ASSUME CoherenceInv, CoherenceInv', NEW p \in Cores, Fetch(p),
           NEW n, n = Depth(p), NEW t, t = Frame(p, n)
    PROVE  /\ Moves(p, n, t) /\ Touches(t) /\ UNCHANGED <<filter, wback, dirty>> /\ ~ wback[p]
           /\ \A c \in Caches : \A i \in 1..Ways[c] : mesi[c][i] = "M" =>
                mesi'[c][i] = "M" /\ tag'[c][i] = tag[c][i]
<1>1. /\ stack[p] # <<>> /\ t = Call(p) /\ t.pc = "fetch" /\ IsCall(t) /\ t \in Calls
      /\ t.cache \in Caches /\ AccessAt(p, n) /\ ~ Waits(p, n) /\ ~ wback[p]
  <2>1. InCall(p, "fetch")
    BY Zenon DEF Fetch
  <2>2. QED
    BY <2>1, Top, SMTT(40)
<1>2. /\ t.way \in 1..Ways[t.cache] /\ mesi[t.cache][t.way] \in {"I", "S"}
      /\ t.type \in Gets
  BY <1>1, Zenon DEF AccessAt, Progress, Under, MustFetch
<1>3. PICK s : s = mesi[t.cache][t.way]
  OBVIOUS
<1>4. /\ SetsWay(tag', tag, t.cache, t.way, t.line) /\ UNCHANGED <<filter, wback>>
      /\ GoUp(p, t, AfterFetch(t), t.line, t.way, t.type, t.flags, s)
  BY <1>1, <1>3, Zenon DEF Fetch, SetsWay
<1>5. AfterFetch(t) \in Under
  BY ZenonT(30) DEF AfterFetch, Under
<1>6. /\ Moves(p, n, t)
      /\ \A c \in Caches : \A i \in 1..Ways[c] : mesi'[c][i] =
           IF c = t.cache /\ i = t.way
           THEN IF Parent[t.cache][t.line] = Mem THEN MemGrants(t.type, t.flags) ELSE s
           ELSE mesi[c][i]
      /\ dirty' = IF Parent[t.cache][t.line] = Mem /\ t.type = "PUTX"
                  THEN dirty \ {t.line} ELSE dirty
  <2>1. t \in Calls /\ stack[p] # <<>> /\ t.way \in 1..Ways[t.cache]
    BY <1>1, <1>2, Zenon
  <2>2. GoUp(p, t, AfterFetch(t), t.line, t.way, t.type, t.flags, s)
    BY <1>4, Zenon
  <2>3. QED
    BY ONLY CoherenceInv, CoherenceInv', p \in Cores, n = Depth(p), t = Frame(p, n),
       <1>5, <2>1, <2>2, GoUpDoes, SMTT(40)
<1>7. UNCHANGED dirty
  BY <1>2, <1>6, ZenonT(30) DEF Gets
<1>8. \A c \in Caches : \A i \in 1..Ways[c] :
        ~ (c = t.cache /\ i = t.way) => tag'[c][i] = tag[c][i]
  <2>1. Table(tag)
    BY Zenon DEF CoherenceInv, Types
  <2>2. QED
    BY <1>1, <1>2, <1>4, <2>1, TableUpdate, SMTT(40)
<1>9. Touches(t)
  BY <1>1, <1>6, <1>8, Zenon DEF Touches
<1>10. QED
  BY <1>1, <1>2, <1>4, <1>6, <1>7, <1>8, <1>9, ZenonT(30)

\* The directory answers: what a child gives up, or gave up, the parent has.
LEMMA GrantDoes ==
    ASSUME CoherenceInv, CoherenceInv', NEW p \in Cores, Grant(p),
           NEW n, n = Depth(p), NEW t, t = Frame(p, n)
    PROVE  /\ Moves(p, n, t) /\ Touches(t) /\ UNCHANGED <<tag, filter, dirty>>
           /\ IsBase(p, n) /\ n \in 1..Depth(p)
           /\ \A q \in Cores : q # p => wback'[q] = wback[q]
           /\ t.cache \in Caches /\ t.way \in 1..Ways[t.cache]
           /\ wback[p] => mesi'[t.cache][t.way] = "M"
           /\ \A c \in Caches : \A i \in 1..Ways[c] : mesi[c][i] = "M" =>
                \/ mesi'[c][i] = "M"
                \/ tag[c][i] = tag[t.cache][t.way] /\ mesi'[t.cache][t.way] = "M"
<1>1. /\ stack[p] # <<>> /\ t = Call(p) /\ t.pc = "grant" /\ IsCall(t) /\ t \in Calls
      /\ t.cache \in Caches /\ AccessAt(p, n) /\ IsBase(p, n) /\ n \in 1..Depth(p)
      /\ ~ Waits(p, n)
  <2>1. InCall(p, "grant")
    BY ZenonT(30) DEF Grant
  <2>2. QED
    BY <2>1, Top, Zenon
<1>2. PICK g : g = Granted(t, dir[t.cache][t.way], mesi[t.cache][t.way] \in Exclusive)
  BY Zenon
<1>3. PICK call : call = [t EXCEPT !.pc = "end"]
  BY ZenonT(30)
<1>4. PICK x : x = IF wback[p] THEN "M" ELSE mesi[t.cache][t.way]
  BY Zenon
<1>5. PICK m : SetsWay(m, mesi, t.from, t.slot, g.state)
  BY Zenon DEF SetsWay
<1>6. /\ UNCHANGED <<tag, filter, dirty>> /\ wback' = [wback EXCEPT ![p] = FALSE]
      /\ Goto(p, call) /\ SetsWay(mesi', m, t.cache, t.way, x)
  <2>1. /\ UNCHANGED <<tag, filter, dirty>> /\ wback' = [wback EXCEPT ![p] = FALSE]
        /\ Goto(p, call)
        /\ mesi' = [mesi EXCEPT ![t.from][t.slot] = g.state, ![t.cache][t.way] = x]
    BY <1>1, <1>2, <1>3, <1>4, ZenonT(30) DEF Grant
  <2>2. mesi' = [m EXCEPT ![t.cache][t.way] = x]
    BY <1>5, <2>1, Zenon DEF SetsWay
  <2>3. QED
    BY <2>1, <2>2, ZenonT(30) DEF SetsWay
<1>7. /\ t.way \in 1..Ways[t.cache] /\ n > 1 /\ tag[t.cache][t.way] = t.line
      /\ t.type \in {"GETX", "PUTX"} => mesi[t.cache][t.way] = "M"
  BY <1>1, ZenonT(30) DEF AccessAt, Progress, Under
<1>8. /\ t.from \in Caches /\ t.slot \in 1..Ways[t.from] /\ t.from # t.cache
      /\ tag[t.from][t.slot] = t.line /\ Asked(t)
  <2>1. n \in 1..Depth(p) /\ IsCall(t)
    BY <1>1, Zenon
  <2>2. PICK h : h = Frame(p, n - 1)
    BY SMTT(30)
  <2>3. QED
    BY <1>7, <2>1, <2>2, Caller, SMTT(30)
<1>9. \A a \in Caches : \A i \in 1..Ways[a] :
        mesi'[a][i] = IF a = t.from /\ i = t.slot THEN g.state
                      ELSE IF a = t.cache /\ i = t.way THEN x ELSE mesi[a][i]
  <2>1. Table(mesi)
    BY ZenonT(30) DEF CoherenceInv, Types
  <2>2. /\ Table(m)
        /\ \A a \in Caches : \A i \in 1..Ways[a] :
             m[a][i] = IF a = t.from /\ i = t.slot THEN g.state ELSE mesi[a][i]
    BY <1>5, <1>8, <2>1, TableUpdate, SMTT(30)
  <2>3. \A a \in Caches : \A i \in 1..Ways[a] :
          mesi'[a][i] = IF a = t.cache /\ i = t.way THEN x ELSE m[a][i]
    BY <1>1, <1>6, <1>7, <2>2, TableUpdate, SMTT(40)
  <2>4. QED
    BY <1>8, <2>2, <2>3, SMTT(30)
<1>10. SameSite(call, t)
  BY <1>1, <1>3, Zenon DEF Calls, SameSite, IsCall
<1>11. Moves(p, n, t)
  BY <1>1, <1>6, <1>10, GotoMoves, Zenon
<1>12. \A q \in Cores : q # p => wback'[q] = wback[q]
  BY <1>6, Zenon DEF CoherenceInv, Types
<1>13. mesi'[t.cache][t.way] = x /\ mesi'[t.from][t.slot] = g.state
  BY <1>1, <1>7, <1>8, <1>9, Zenon
<1>14. mesi[t.from][t.slot] = "M" => mesi'[t.from][t.slot] = "M" \/ x = "M"
  <2>1. t.type = "GETX" \/ t.type = "GETS" \/ t.type = "PUTX" \/ t.type = "PUTS"
    BY <1>1, Zenon DEF Calls, Gets, Puts
  <2>2. t.type \in {"GETX", "PUTX"} => x = "M"
    BY <1>4, <1>7, Zenon
  <2>3. t.type \in {"GETS", "PUTS"} => mesi[t.from][t.slot] # "M"
    BY <1>1, <1>8, Zenon DEF Asked, Puts
  <2>4. QED
    BY <2>1, <2>2, <2>3, Zenon
<1>15. Touches(t)
  BY <1>1, <1>6, <1>9, Zenon DEF Touches
<1>16. ASSUME NEW c \in Caches, NEW i \in 1..Ways[c], mesi[c][i] = "M"
       PROVE  \/ mesi'[c][i] = "M"
              \/ tag[c][i] = tag[t.cache][t.way] /\ mesi'[t.cache][t.way] = "M"
  <2>1. CASE c = t.from /\ i = t.slot
    BY <1>7, <1>8, <1>13, <1>14, <1>16, <2>1, ZenonT(30)
  <2>2. CASE ~ (c = t.from /\ i = t.slot)
    BY <1>4, <1>9, <1>16, <2>2, SMTT(30)
  <2>3. QED
    BY <2>1, <2>2, Zenon
<1>17. QED
  BY <1>1, <1>4, <1>6, <1>7, <1>11, <1>12, <1>13, <1>15, <1>16, ZenonT(30)

\* An access comes back: a store has made its line modified.
LEMMA EndAccessDoes ==
    ASSUME CoherenceInv, NEW p \in Cores, EndAccess(p),
           NEW n, n = Depth(p), NEW t, t = Frame(p, n)
    PROVE  /\ Moves(p, n, t) /\ Touches(t) /\ UNCHANGED <<tag, mesi, wback>> /\ ~ wback[p]
           /\ t.vline = None => UNCHANGED <<filter, dirty>>
           /\ t.vline # None =>
                /\ filter' = [filter EXCEPT ![t.cache] = Filtered(t)]
                /\ dirty' \subseteq dirty \cup {l \in {t.line} : t.type = "GETX"}
           /\ t \in Calls /\ IsCall(t) /\ t.pc = "end" /\ Depth(p)' = n - 1
           /\ n \in Nat \ {0} /\ n \in 1..Depth(p) /\ Holds(p, n) /\ ShapeAt(p, n)
           /\ t.type \in Gets =>
                /\ t.way \in 1..Ways[t.cache] /\ tag[t.cache][t.way] = t.line
                /\ mesi[t.cache][t.way] # "I"
                /\ t.type = "GETX" => mesi[t.cache][t.way] = "M"
<1>1. /\ stack[p] # <<>> /\ t = Call(p) /\ t.pc = "end" /\ IsCall(t) /\ t \in Calls
      /\ t.cache \in Caches /\ AccessAt(p, n) /\ ~ Waits(p, n) /\ ~ wback[p]
      /\ n \in Nat \ {0} /\ n \in 1..Depth(p) /\ Holds(p, n) /\ ShapeAt(p, n)
  <2>1. InCall(p, "end")
    BY Zenon DEF EndAccess
  <2>2. QED
    BY <2>1, Top, SMTT(30) DEF Under
<1>2. /\ Pop(p) /\ UNCHANGED <<tag, mesi, wback>>
      /\ t.vline = None => UNCHANGED <<filter, dirty>>
      /\ t.vline # None => /\ filter' = [filter EXCEPT ![t.cache] = Filtered(t)]
                           /\ dirty' = IF t.type = "GETX"
                                       THEN dirty \cup ({t.line} \cap Tracked) ELSE dirty
  BY <1>1, Zenon DEF EndAccess
<1>3. Moves(p, n, t) /\ Depth(p)' = n - 1
  BY <1>1, <1>2, PopMoves, Zenon
<1>4. t.type \in Gets =>
        /\ t.way \in 1..Ways[t.cache] /\ tag[t.cache][t.way] = t.line
        /\ mesi[t.cache][t.way] # "I"
        /\ t.type = "GETX" => mesi[t.cache][t.way] = "M"
  BY <1>1, Zenon DEF AccessAt, Progress, Under, Gets, Puts
<1>5. Touches(t)
  BY <1>2, Zenon DEF Touches
<1>6. QED
  BY <1>1, <1>2, <1>3, <1>4, <1>5, ZenonT(30)

\* A copy is given up: if it was modified, the caller learns of it.
LEMMA FinishInvalidateDoes ==
    ASSUME CoherenceInv, NEW p \in Cores, FinishInvalidate(p),
           NEW n, n = Depth(p), NEW t, t = Frame(p, n)
    PROVE  /\ Moves(p, n, t) /\ Touches(t) /\ UNCHANGED <<tag, filter, dirty>>
           /\ ~ IsCall(t) /\ n \in 1..Depth(p) /\ n > 1 /\ Depth(p)' = n - 1
           /\ t.cache \in Caches /\ t.way \in 1..Ways[t.cache]
           /\ tag[t.cache][t.way] = t.line
           /\ \A q \in Cores : q # p => wback'[q] = wback[q]
           /\ wback'[p] <=> wback[p] \/ mesi[t.cache][t.way] = "M"
           /\ \A c \in Caches : \A i \in 1..Ways[c] :
                ~ (c = t.cache /\ i = t.way) => mesi'[c][i] = mesi[c][i]
<1>1. /\ stack[p] # <<>> /\ t = Call(p) /\ t.pc = "down" /\ ~ IsCall(t)
      /\ t.cache \in Caches /\ ShapeAt(p, n) /\ n \in 1..Depth(p) /\ n \in Nat \ {0}
  <2>1. InCall(p, "down")
    BY Zenon DEF FinishInvalidate
  <2>2. QED
    BY <2>1, Top, Zenon
<1>2. n > 1 /\ t.way \in 1..Ways[t.cache] /\ tag[t.cache][t.way] = t.line
  BY <1>1, ZenonT(30) DEF ShapeAt, Tells
<1>3. t.way # 0
  BY <1>1, <1>2, CoherenceAssumption, SMTT(30)
<1>4. PICK s : s = IF t.type = "INV" THEN "I" ELSE "S"
  OBVIOUS
<1>5. /\ Pop(p) /\ UNCHANGED <<tag, filter, dirty>>
      /\ wback' = [wback EXCEPT ![p] = @ \/ mesi[t.cache][t.way] = "M"]
      /\ SetsWay(mesi', mesi, t.cache, t.way, s)
  BY <1>1, <1>3, <1>4, ZenonT(30) DEF FinishInvalidate, SetsWay
<1>6. Moves(p, n, t) /\ Depth(p)' = n - 1
  <2>1. n = 1 => t.pc = "end"
    BY <1>2
  <2>2. stack[p] # <<>> /\ Pop(p)
    BY <1>1, <1>5, ZenonT(30)
  <2>3. QED
    BY ONLY CoherenceInv, p \in Cores, n = Depth(p), t = Frame(p, n), <2>1, <2>2,
       PopMoves, ZenonT(30)
<1>7. \A c \in Caches : \A i \in 1..Ways[c] :
        ~ (c = t.cache /\ i = t.way) => mesi'[c][i] = mesi[c][i]
  <2>1. Table(mesi)
    BY Zenon DEF CoherenceInv, Types
  <2>2. QED
    BY <1>1, <1>2, <1>5, <2>1, TableUpdate, SMTT(30)
<1>8. /\ \A q \in Cores : q # p => wback'[q] = wback[q]
      /\ wback'[p] <=> wback[p] \/ mesi[t.cache][t.way] = "M"
  <2>1. wback \in [Cores -> BOOLEAN]
    BY Zenon DEF CoherenceInv, Types
  <2>2. QED
    BY <1>5, <2>1, ZenonT(30)
<1>9. Touches(t)
  BY <1>1, <1>5, <1>7, ZenonT(30) DEF Touches
<1>10. QED
  BY <1>1, <1>2, <1>5, <1>6, <1>7, <1>8, <1>9, ZenonT(30)

-----------------------------------------------------------------------------
(* Stores                                                                  *)

\* A line stored to is modified in some cache, or the access that recalled it
\* has been told so.
Kept(l) ==
    \/ \E c \in Caches : \E i \in 1..Ways[c] : tag[c][i] = l /\ mesi[c][i] = "M"
    \/ \E p \in Cores : \E k \in 1..Depth(p) :
         wback[p] /\ IsBase(p, k) /\ tag[Frame(p, k).cache][Frame(p, k).way] = l

\* The accesses of other cores that have been told of modified data keep it.
LEMMA OthersRecall ==
    ASSUME CoherenceInv, NEW p \in Cores, stack[p] # <<>>,
           NEW n, n = Depth(p), NEW t, t = Frame(p, n), Moves(p, n, t), Touches(t),
           NEW q \in Cores, q # p, wback[q], wback'[q] = wback[q],
           NEW k \in 1..Depth(q), IsBase(q, k),
           NEW l, tag[Frame(q, k).cache][Frame(q, k).way] = l
    PROVE  Kept(l)'
<1>1. Stacks /\ Locks /\ Recalls /\ Accesses
  BY InvParts, ZenonT(30) DEF CoherenceInv
<1>2. PICK f : f = Frame(q, k)
  OBVIOUS
<1>3. f.pc \in {"evict", "grant"}
  BY <1>1, <1>2, Zenon DEF Recalls, RecallAt
<1>4. /\ f.cache \in Caches /\ f.way \in 1..Ways[f.cache] /\ bcc[f.cache] = q
      /\ IsCall(f) /\ ~ Waits(q, k)
  <2>1. f.cache \in Caches /\ IsCall(f) /\ ~ Waits(q, k)
    BY <1>1, <1>2, FrameFields, Zenon DEF IsBase
  <2>2. AccessAt(q, k) /\ LockAt(q, k)
    BY <1>1, Zenon DEF Locks, Accesses
  <2>3. f.way \in 1..Ways[f.cache]
    BY <1>2, <1>3, <2>1, <2>2, ZenonT(30) DEF AccessAt, Progress, Under, Puts
  <2>4. Holds(q, k)
    BY <1>2, <1>3, <2>1, ZenonT(30) DEF Holds, Under
  <2>5. QED
    BY <1>2, <2>1, <2>2, <2>3, <2>4, ZenonT(30) DEF LockAt
<1>5. ~ (f.cache = t.cache /\ t.pc = "fetch")
  <2>1. SUFFICES ASSUME f.cache = t.cache, t.pc = "fetch" PROVE FALSE
    OBVIOUS
  <2>2. InCall(p, "fetch")
    BY <1>1, <2>1, TopFrame, ZenonT(30) DEF InCall
  <2>3. LockAt(p, n) /\ Holds(p, n)
    BY <2>2, Top, ZenonT(30) DEF Under
  <2>4. QED
    BY <1>4, <2>1, <2>3, ZenonT(30) DEF LockAt
<1>6. tag'[f.cache][f.way] = l
  BY <1>2, <1>4, <1>5 DEF Touches
<1>7. Depth(q)' = Depth(q) /\ Frame(q, k)' = f /\ (IsBase(q, k)' <=> IsBase(q, k))
  BY <1>2, ZenonT(30) DEF Moves, Depth, Frame, IsBase, Waits, IsCall
<1>8. QED
  BY <1>6, <1>7, Zenon DEF Kept

DirtyInv == \A l \in dirty : Kept(l)

\* Steps that leave modified lines modified.
LEMMA QuietDirty ==
    ASSUME CoherenceInv, CoherenceInv', DirtyInv, NEW p \in Cores, stack[p] # <<>>,
           NEW n, n = Depth(p), NEW t, t = Frame(p, n), Moves(p, n, t), Touches(t),
           Quietly(p, n, t)
    PROVE  DirtyInv'
<1>1. SUFFICES ASSUME NEW l \in dirty PROVE Kept(l)'
  BY Zenon DEF DirtyInv, Quietly
<1>2. n \in Nat \ {0}
  BY TopFrame, Zenon DEF CoherenceInv, Types, Stacks
<1>3. ASSUME NEW c \in Caches, NEW i \in 1..Ways[c], tag[c][i] = l, mesi[c][i] = "M"
      PROVE  Kept(l)'
  BY <1>3, Zenon DEF Kept, Quietly
<1>4. ASSUME NEW q \in Cores, NEW k \in 1..Depth(q), wback[q], IsBase(q, k),
             tag[Frame(q, k).cache][Frame(q, k).way] = l
      PROVE  Kept(l)'
  <2>1. CASE q # p
    <3>1. wback'[q] = wback[q]
      BY Zenon DEF Quietly
    <3>2. QED
      BY <1>4, <2>1, <3>1, OthersRecall, ZenonT(30)
  <2>2. CASE q = p
    <3>1. /\ Depth(p)' = n \/ (Depth(p)' = n + 1 /\ ~ IsCall(Frame(p, n + 1))')
          /\ IsCall(t) => Frame(p, n)' = t
          /\ SameSite(Frame(p, n)', t)
          /\ \A j \in 1 .. n - 1 : Frame(p, j)' = Frame(p, j)
      BY <1>2, <1>4, <2>2, SMTT(30) DEF Moves, Quietly
    <3>2. k \in 1..n /\ IsCall(Frame(p, k)) /\ ~ Waits(p, k)
      BY <1>4, <2>2, ZenonT(30) DEF IsBase
    <3>3. Frame(p, k)' = Frame(p, k)
      BY <1>2, <3>1, <3>2, SMTT(30)
    <3>4. ~ Waits(p, k)'
      <4>1. CASE k = n
        BY <1>2, <3>1, <4>1, SMTT(30) DEF Waits
      <4>2. CASE k < n
        <5>1. k + 1 \in 1..n /\ ~ IsCall(Frame(p, k + 1))
          BY <1>2, <3>2, <4>2, SMTT(30) DEF Waits
        <5>2. ~ IsCall(Frame(p, k + 1))'
          <6>1. CASE k + 1 = n
            BY <3>1, <5>1, <6>1, Zenon DEF SameSite, IsCall
          <6>2. CASE k + 1 # n
            <7>1. Frame(p, k + 1)' = Frame(p, k + 1)
              BY <1>2, <3>1, <5>1, <6>2, SMTT(30)
            <7>2. QED
              BY <5>1, <7>1, ZenonT(30) DEF IsCall
          <6>3. QED
            BY <6>1, <6>2, Zenon
        <5>3. QED
          BY <5>2, ZenonT(30) DEF Waits
      <4>3. QED
        BY <1>2, <3>2, <4>1, <4>2, SMTT(30)
    <3>5. IsBase(p, k)' /\ k \in 1..Depth(p)'
      BY <1>2, <3>1, <3>2, <3>3, <3>4, SMTT(30) DEF IsBase, IsCall
    <3>6. QED
      BY <1>4, <2>2, <3>3, <3>5, ZenonT(30) DEF Kept, Quietly
  <2>3. QED
    BY <2>1, <2>2, Zenon
<1>5. QED
  BY <1>3, <1>4, SMTT(40) DEF DirtyInv, Kept

\* Invalidations are sent for an access, which holds their line.
LEMMA RecalledFor ==
    ASSUME CoherenceInv, Counting, NEW p \in Cores, NEW n \in 1..Depth(p),
           ~ IsCall(Frame(p, n))
    PROVE  \E k \in 1 .. n - 1 :
             /\ IsBase(p, k) /\ ~ IsCall(Frame(p, k + 1))
             /\ tag[Frame(p, k).cache][Frame(p, k).way] = Frame(p, n).line
<1>1. Stacks /\ Shape /\ Recalls
  BY InvParts, Zenon DEF CoherenceInv
<1>2. Depth(p) \in Nat
  BY <1>1, FrameTypes, Zenon
<1>3. PICK S : S = {k \in 1..n : ~ IsCall(Frame(p, k))}
  BY Zenon
<1>4. S \subseteq Nat /\ n \in S
  BY <1>2, <1>3
<1>6. PICK m \in S : \A y \in S : ~ (y < m)
  BY <1>4, Zenon DEF Counting
<1>7. m \in 1..Depth(p) /\ m <= n /\ ~ IsCall(Frame(p, m)) /\ ShapeAt(p, m)
  BY <1>1, <1>2, <1>3 DEF Shape
<1>8. m > 1
  BY <1>7, Zenon DEF ShapeAt
<1>9. m - 1 \in 1 .. n - 1 /\ m - 1 + 1 = m /\ m - 1 < m /\ m - 1 \in 1..n
  BY <1>2, <1>7, <1>8, SMTT(30)
<1>10. IsCall(Frame(p, m - 1))
  BY <1>3, <1>6, <1>9, Zenon
<1>11. IsBase(p, m - 1)
  BY <1>7, <1>9, <1>10, Zenon DEF IsBase, Waits
<1>12. tag[Frame(p, m - 1).cache][Frame(p, m - 1).way] = Frame(p, n).line
  <2>1. m - 1 \in 1..Depth(p) /\ n \in m - 1 + 1 .. Depth(p) /\ RecallAt(p)
    BY <1>1, <1>2, <1>7, <1>9, SMTT(30) DEF Recalls
  <2>2. QED
    BY <1>11, <2>1, Zenon DEF RecallAt
<1>13. QED
  BY <1>7, <1>9, <1>11, <1>12, Zenon

\* Every step of an access keeps DirtyInv.
LEMMA DirtyStep ==
    ASSUME CoherenceInv, CoherenceInv', Counting, DirtyInv, NEW p \in Cores, Step(p)
    PROVE  DirtyInv'
<1>1. PICK n : n = Depth(p)
  OBVIOUS
<1>2. PICK t : t = Frame(p, n)
  OBVIOUS
<1>3. stack[p] # <<>> /\ Stacks
  <2>1. \E pc : InCall(p, pc)
    BY Zenon DEF Step, LockTop, StartAccess, EvictChild, Evict, Fetch, Revoke, Grant,
       EndAccess, StartInvalidate, ForwardInval, FinishInvalidate
  <2>2. QED
    BY <2>1, Zenon DEF InCall, CoherenceInv, Types, Stacks
<1>4. CASE LockTop(p) \/ StartAccess(p) \/ StartInvalidate(p)
           \/ EvictChild(p) \/ Revoke(p) \/ ForwardInval(p)
  <2>1. Moves(p, n, t) /\ Touches(t) /\ Quietly(p, n, t)
    BY <1>1, <1>2, <1>4, LockTopDoes, StartAccessDoes, StartInvalidateDoes, SendDoes,
       ZenonT(30)
  <2>2. QED
    BY <1>1, <1>2, <1>3, <2>1, QuietDirty, ZenonT(30)
<1>5. CASE Evict(p)
  <2>1. /\ Moves(p, n, t) /\ Touches(t) /\ UNCHANGED tag
        /\ IsBase(p, n) /\ n \in 1..Depth(p)
        /\ \A q \in Cores : q # p => wback'[q] = wback[q]
        /\ t.cache \in Caches /\ t.way \in 1..Ways[t.cache]
        /\ \A c \in Caches : \A i \in 1..Ways[c] :
             ~ (c = t.cache /\ i = t.way) => mesi'[c][i] = mesi[c][i]
        /\ \/ dirty' = dirty /\ mesi'[t.cache][t.way] = "M"
           \/ dirty' = dirty /\ mesi[t.cache][t.way] # "M" /\ ~ wback[p]
           \/ dirty' = dirty \ {tag[t.cache][t.way]}
    BY <1>1, <1>2, <1>5, EvictDoes, SMTT(40)
  <2>2. SUFFICES ASSUME NEW l \in dirty, l \in dirty' PROVE Kept(l)'
    BY <2>1, Zenon DEF DirtyInv
  <2>3. CASE mesi'[t.cache][t.way] = "M" /\ l = tag[t.cache][t.way]
    BY <2>1, <2>3, ZenonT(60) DEF Kept
  <2>4. CASE \/ mesi[t.cache][t.way] # "M" /\ ~ wback[p]
             \/ l # tag[t.cache][t.way]
    <3>1. ASSUME NEW c \in Caches, NEW i \in 1..Ways[c], tag[c][i] = l, mesi[c][i] = "M"
          PROVE  Kept(l)'
      BY <2>1, <2>4, <3>1, SMTT(40) DEF Kept
    <3>2. ASSUME NEW q \in Cores, NEW k \in 1..Depth(q), wback[q], IsBase(q, k),
                 tag[Frame(q, k).cache][Frame(q, k).way] = l
          PROVE  Kept(l)'
      <4>1. q # p
        <5>1. q = p => k = n
          BY <1>3, <2>1, <3>2, OneBase, ZenonT(30) DEF CoherenceInv
        <5>2. QED
          BY <1>2, <2>4, <3>2, <5>1, ZenonT(30)
      <4>2. wback'[q] = wback[q] /\ Moves(p, n, t) /\ Touches(t)
        BY <2>1, <4>1, ZenonT(30)
      <4>3. QED
        BY <1>1, <1>2, <1>3, <3>2, <4>1, <4>2, OthersRecall, ZenonT(60)
    <3>3. QED
      BY <3>1, <3>2, SMTT(40) DEF DirtyInv, Kept
  <2>5. QED
    BY <2>1, <2>2, <2>3, <2>4, ZenonT(30)
<1>6. CASE Fetch(p)
  <2>1. /\ Moves(p, n, t) /\ Touches(t) /\ UNCHANGED <<wback, dirty>> /\ ~ wback[p]
        /\ \A c \in Caches : \A i \in 1..Ways[c] : mesi[c][i] = "M" =>
             mesi'[c][i] = "M" /\ tag'[c][i] = tag[c][i]
    BY <1>1, <1>2, <1>6, FetchDoes, Zenon
  <2>2. SUFFICES ASSUME NEW l \in dirty PROVE Kept(l)'
    BY <2>1, Zenon DEF DirtyInv
  <2>3. ASSUME NEW c \in Caches, NEW i \in 1..Ways[c], tag[c][i] = l, mesi[c][i] = "M"
        PROVE  Kept(l)'
    BY <2>1, <2>3, Zenon DEF Kept
  <2>4. ASSUME NEW q \in Cores, NEW k \in 1..Depth(q), wback[q], IsBase(q, k),
               tag[Frame(q, k).cache][Frame(q, k).way] = l
        PROVE  Kept(l)'
    <3>1. q # p /\ wback'[q] = wback[q] /\ Moves(p, n, t) /\ Touches(t)
      BY <2>1, <2>4, ZenonT(30)
    <3>2. QED
      BY <1>1, <1>2, <1>3, <2>4, <3>1, OthersRecall, ZenonT(30)
  <2>5. QED
    BY <2>3, <2>4, SMTT(40) DEF DirtyInv, Kept
<1>7. CASE Grant(p)
  <2>1. /\ Moves(p, n, t) /\ Touches(t) /\ UNCHANGED <<tag, dirty>>
        /\ IsBase(p, n) /\ n \in 1..Depth(p)
        /\ \A q \in Cores : q # p => wback'[q] = wback[q]
        /\ t.cache \in Caches /\ t.way \in 1..Ways[t.cache]
        /\ wback[p] => mesi'[t.cache][t.way] = "M"
        /\ \A c \in Caches : \A i \in 1..Ways[c] : mesi[c][i] = "M" =>
             \/ mesi'[c][i] = "M"
             \/ tag[c][i] = tag[t.cache][t.way] /\ mesi'[t.cache][t.way] = "M"
    BY <1>1, <1>2, <1>7, GrantDoes, SMTT(30)
  <2>2. SUFFICES ASSUME NEW l \in dirty PROVE Kept(l)'
    BY <2>1, Zenon DEF DirtyInv
  <2>3. ASSUME NEW c \in Caches, NEW i \in 1..Ways[c], tag[c][i] = l, mesi[c][i] = "M"
        PROVE  Kept(l)'
    BY <2>1, <2>3, Zenon DEF Kept
  <2>4. ASSUME NEW q \in Cores, NEW k \in 1..Depth(q), wback[q], IsBase(q, k),
               tag[Frame(q, k).cache][Frame(q, k).way] = l
        PROVE  Kept(l)'
    <3>1. CASE q = p
      <4>1. k = n
        BY <1>3, <2>1, <2>4, <3>1, OneBase, ZenonT(30) DEF CoherenceInv
      <4>2. tag'[t.cache][t.way] = l /\ mesi'[t.cache][t.way] = "M"
        BY <1>2, <2>1, <2>4, <3>1, <4>1, ZenonT(30)
      <4>3. QED
        BY <2>1, <4>2, Zenon DEF Kept
    <3>2. CASE q # p
      <4>1. wback'[q] = wback[q] /\ Moves(p, n, t) /\ Touches(t)
        BY <2>1, <3>2, ZenonT(30)
      <4>2. QED
        BY <1>1, <1>2, <1>3, <2>4, <3>2, <4>1, OthersRecall, ZenonT(30)
    <3>3. QED
      BY <3>1, <3>2, Zenon
  <2>5. QED
    BY <2>3, <2>4, SMTT(30) DEF DirtyInv, Kept

<1>8. CASE EndAccess(p)
  <2>1. /\ Moves(p, n, t) /\ Touches(t) /\ UNCHANGED <<tag, mesi, wback>> /\ ~ wback[p]
        /\ t.vline = None => UNCHANGED dirty
        /\ t.vline # None => dirty' \subseteq dirty \cup {l \in {t.line} : t.type = "GETX"}
        /\ t \in Calls
        /\ t.type \in Gets =>
             /\ t.way \in 1..Ways[t.cache] /\ tag[t.cache][t.way] = t.line
             /\ t.type = "GETX" => mesi[t.cache][t.way] = "M"
    BY <1>1, <1>2, <1>8, EndAccessDoes, SMTT(40)
  <2>2. \A l \in dirty' : l \in dirty \/ (l = t.line /\ t.type = "GETX")
    BY <2>1, Zenon
  <2>3. ASSUME t.type = "GETX" PROVE Kept(t.line)'
    <3>1. t.cache \in Caches
      BY <2>1, ZenonT(30) DEF Calls
    <3>2. QED
      BY <2>1, <2>3, <3>1, Zenon DEF Kept, Gets
  <2>4. SUFFICES ASSUME NEW l \in dirty PROVE Kept(l)'
    BY <2>2, <2>3, ZenonT(30) DEF DirtyInv
  <2>5. ASSUME NEW c \in Caches, NEW i \in 1..Ways[c], tag[c][i] = l, mesi[c][i] = "M"
        PROVE  Kept(l)'
    BY <2>1, <2>5, Zenon DEF Kept
  <2>6. ASSUME NEW q \in Cores, NEW k \in 1..Depth(q), wback[q], IsBase(q, k),
               tag[Frame(q, k).cache][Frame(q, k).way] = l
        PROVE  Kept(l)'
    <3>1. q # p /\ wback'[q] = wback[q] /\ Moves(p, n, t) /\ Touches(t)
      BY <2>1, <2>6, ZenonT(30)
    <3>2. QED
      BY <1>1, <1>2, <1>3, <2>6, <3>1, OthersRecall, ZenonT(30)
  <2>7. QED
    BY <2>5, <2>6, SMTT(40) DEF DirtyInv, Kept
<1>9. CASE FinishInvalidate(p)
  <2>1. /\ Moves(p, n, t) /\ Touches(t) /\ UNCHANGED <<tag, dirty>>
        /\ ~ IsCall(t) /\ n \in 1..Depth(p) /\ n > 1 /\ Depth(p)' = n - 1
        /\ tag[t.cache][t.way] = t.line
        /\ \A q \in Cores : q # p => wback'[q] = wback[q]
        /\ wback'[p] <=> wback[p] \/ mesi[t.cache][t.way] = "M"
        /\ \A c \in Caches : \A i \in 1..Ways[c] :
             ~ (c = t.cache /\ i = t.way) => mesi'[c][i] = mesi[c][i]
    BY <1>1, <1>2, <1>9, FinishInvalidateDoes, SMTT(40)
  <2>2. PICK b \in 1 .. n - 1 :
          /\ IsBase(p, b) /\ ~ IsCall(Frame(p, b + 1))
          /\ tag[Frame(p, b).cache][Frame(p, b).way] = t.line
    BY <1>2, <2>1, RecalledFor, Zenon
  <2>3. Frame(p, b)' = Frame(p, b) /\ b \in 1..Depth(p)' /\ IsCall(Frame(p, b))
    BY <2>1, <2>2, ZenonT(30) DEF Moves, IsBase
  <2>4. ~ Waits(p, b)'
    <3>1. CASE b = n - 1
      BY <2>1, <2>2, <3>1, SMTT(40) DEF Waits
    <3>2. CASE b < n - 1
      <4>1. n \in Nat /\ b + 1 \in 1 .. n - 1
        BY <1>3, <2>1, <2>2, <3>2, FrameTypes, SMTT(40)
      <4>2. Frame(p, b + 1)' = Frame(p, b + 1)
        BY <2>1, <4>1, Zenon DEF Moves
      <4>3. QED
        BY <2>2, <4>2, ZenonT(60) DEF Waits, IsCall
    <3>3. n \in Nat
      BY <1>1, <1>3, FrameTypes, Zenon
    <3>4. QED
      BY <2>2, <3>1, <3>2, <3>3, SMTT(30)
  <2>5. wback'[p] => Kept(t.line)'
    <3>1. IsBase(p, b)'
      BY <2>3, <2>4, ZenonT(30) DEF IsBase, IsCall
    <3>2. tag'[Frame(p, b)'.cache][Frame(p, b)'.way] = t.line
      BY <2>1, <2>2, <2>3, ZenonT(30)
    <3>3. QED
      BY <2>3, <3>1, <3>2, ZenonT(30) DEF Kept
  <2>6. SUFFICES ASSUME NEW l \in dirty PROVE Kept(l)'
    BY <2>1, ZenonT(30) DEF DirtyInv
  <2>7. ASSUME NEW c \in Caches, NEW i \in 1..Ways[c], tag[c][i] = l, mesi[c][i] = "M"
        PROVE  Kept(l)'
    <3>1. CASE c = t.cache /\ i = t.way
      BY <2>1, <2>5, <2>7, <3>1, ZenonT(30)
    <3>2. CASE ~ (c = t.cache /\ i = t.way)
      BY <2>1, <2>7, <3>2, SMTT(30) DEF Kept
    <3>3. QED
      BY <3>1, <3>2, ZenonT(30)
  <2>8. ASSUME NEW q \in Cores, NEW k \in 1..Depth(q), wback[q], IsBase(q, k),
               tag[Frame(q, k).cache][Frame(q, k).way] = l
        PROVE  Kept(l)'
    <3>1. CASE q = p
      <4>1. k = b
        <5>1. b \in 1..Depth(p)
          BY <1>1, <1>3, <2>2, FrameTypes, SMTT(30)
        <5>2. QED
          BY <1>3, <2>2, <2>8, <3>1, <5>1, OneBase, ZenonT(30) DEF CoherenceInv
      <4>2. QED
        BY <2>1, <2>2, <2>5, <2>8, <3>1, <4>1, ZenonT(30)
    <3>2. CASE q # p
      <4>1. wback'[q] = wback[q] /\ Moves(p, n, t) /\ Touches(t)
        BY <2>1, <3>2, ZenonT(30)
      <4>2. QED
        BY <1>1, <1>2, <1>3, <2>8, <3>2, <4>1, OthersRecall, ZenonT(30)
    <3>3. QED
      BY <3>1, <3>2, Zenon
  <2>9. QED
    BY <2>7, <2>8, SMTT(40) DEF DirtyInv, Kept
<1>10. QED
  BY <1>4, <1>5, <1>6, <1>7, <1>8, <1>9, ZenonT(30) DEF Step

\* No access is made or taken away while an idle core goes on.
LEMMA DirtyRest ==
    ASSUME CoherenceInv, DirtyInv, UNCHANGED <<tag, mesi, wback, dirty>>,
           \A p \in Cores : stack[p] # <<>> => stack'[p] = stack[p]
    PROVE  DirtyInv'
<1>1. SUFFICES ASSUME NEW l \in dirty PROVE Kept(l)'
  BY Zenon DEF DirtyInv
<1>2. ASSUME NEW q \in Cores, NEW k \in 1..Depth(q), wback[q], IsBase(q, k),
             tag[Frame(q, k).cache][Frame(q, k).way] = l
      PROVE  Kept(l)'
  <2>1. stack[q] # <<>>
    BY <1>2, FrameTypes, SMTT(40) DEF CoherenceInv, Types, Stacks, Depth
  <2>2. Depth(q)' = Depth(q) /\ Frame(q, k)' = Frame(q, k) /\ IsBase(q, k)'
    BY <1>2, <2>1, Zenon DEF Depth, Frame, IsBase, Waits, IsCall
  <2>3. QED
    BY <1>2, <2>2, Zenon DEF Kept
<1>3. QED
  BY <1>2, SMTT(40) DEF DirtyInv, Kept

\* DirtyInv is kept.
LEMMA DirtyKeeps ==
    ASSUME CoherenceInv, CoherenceInv', Counting, DirtyInv, [Next]_vars
    PROVE  DirtyInv'
<1>1. CASE UNCHANGED vars
  BY <1>1, DirtyRest, Zenon DEF vars
<1>2. ASSUME NEW p \in Cores, Program(p)
      PROVE  DirtyInv'
  <2>1. UNCHANGED <<tag, mesi, wback, dirty>>
    BY <1>2, ZenonT(30) DEF Program, Access, Walk, ContextSwitch
  <2>2. \/ UNCHANGED stack
        \/ stack[p] = <<>> /\ \E f : stack' = [stack EXCEPT ![p] = <<f>>]
    BY <1>2, ZenonT(30) DEF Program, Access, Walk, ContextSwitch
  <2>3. \A q \in Cores : stack[q] # <<>> => stack'[q] = stack[q]
    BY <2>2, Zenon DEF CoherenceInv, Types
  <2>4. QED
    BY <2>1, <2>3, DirtyRest, ZenonT(30)
<1>3. QED
  BY <1>1, <1>2, DirtyStep, Zenon DEF Next

\* What is kept is in a modified line, or on its way up.
LEMMA KeptDirty ==
    ASSUME CoherenceInv, DirtyInv
    PROVE  DirtyKept
<1>1. SUFFICES ASSUME NEW l \in dirty
               PROVE  \/ \E c \in Caches : State(c, l) = "M"
                      \/ \E p \in Cores : wback[p] /\ \E i \in DOMAIN stack[p] :
                           LET f == stack[p][i]
                           IN \/ f.line = l
                              \/ f.pc = "evict" /\ tag[f.cache][f.way] = l
  BY Zenon DEF DirtyKept
<1>2. Kept(l)
  BY <1>1, Zenon DEF DirtyInv
<1>3. ASSUME NEW c \in Caches, NEW i \in 1..Ways[c], tag[c][i] = l, mesi[c][i] = "M"
      PROVE  State(c, l) = "M"
  <2>1. Arrays /\ l # None
    BY <1>1, <1>3, ZenonT(30) DEF CoherenceInv, Arrays
  <2>2. Lookup(c, l) \in 1..Ways[c] /\ tag[c][Lookup(c, l)] = l
    BY <1>3, LookupFinds, ZenonT(30) DEF Absent
  <2>3. Lookup(c, l) = i
    BY <1>3, <2>1, <2>2, ZenonT(30) DEF Arrays
  <2>4. i # 0
    BY <1>3, CoherenceAssumption, SMTT(30)
  <2>5. QED
    BY <1>3, <2>3, <2>4, ZenonT(30) DEF State
<1>4. ASSUME NEW p \in Cores, NEW k \in 1..Depth(p), wback[p], IsBase(p, k),
             tag[Frame(p, k).cache][Frame(p, k).way] = l
      PROVE  \E i \in DOMAIN stack[p] :
               LET f == stack[p][i]
               IN f.line = l \/ (f.pc = "evict" /\ tag[f.cache][f.way] = l)
  <2>1. PICK f : f = Frame(p, k)
    OBVIOUS
  <2>2. Stacks /\ AccessAt(p, k) /\ RecallAt(p)
    BY <1>1, <1>4, InvParts, ZenonT(30) DEF CoherenceInv, Accesses, Recalls
  <2>3. f.pc \in {"evict", "grant"}
    BY <1>4, <2>1, <2>2, ZenonT(30) DEF RecallAt
  <2>4. f.pc = "grant" => f.line = l
    BY <1>4, <2>1, <2>2, ZenonT(30) DEF AccessAt, Progress, IsBase, Puts
  <2>5. PICK i : i = Depth(p) + 1 - k
    BY SMTT(30)
  <2>6. i \in DOMAIN stack[p] /\ stack[p][i] = f
    BY <1>4, <2>1, <2>2, <2>5, FrameTypes, SMTT(30) DEF Frame, Depth, Stacks
  <2>7. QED
    BY <1>4, <2>1, <2>3, <2>4, <2>6, ZenonT(30)
<1>5. QED
  BY <1>2, <1>3, <1>4, Zenon DEF Kept

-----------------------------------------------------------------------------
(* The filters                                                             *)

\* c is an L1 of p; p has an access under way there; c holds what filter
\* entry e lets its core do.
Owns(p, c) == \E op \in DOMAIN L1[p] : c = L1[p][op]

Busy(p, c) == Depth(p) > 0 /\ Frame(p, 1).cache = c

\* An L1 is its core's, and only outermost calls work there.
LEMMA OwnCall ==
    ASSUME CoherenceInv, NEW p \in Cores, NEW c \in Caches, Owns(p, c),
           NEW q \in Cores, NEW k \in 1..Depth(q), IsCall(Frame(q, k)), Frame(q, k).cache = c
    PROVE  q = p /\ k = 1 /\ Busy(p, c)
<1>1. Stacks /\ Shape
  BY InvParts, Zenon
<1>2. c \in Terminals
  BY TreeFacts, ZenonT(60) DEF Owns
<1>3. k = 1
  <2>1. SUFFICES ASSUME k # 1 PROVE FALSE
    OBVIOUS
  <2>2. Depth(q) \in Nat /\ Frame(q, k).line \in Lines /\ k > 1
    BY <1>1, <2>1, FrameFields
  <2>3. Asks(Frame(q, k), Frame(q, k - 1)) /\ k - 1 \in 1..Depth(q)
    BY <1>1, <2>2, CallerOf, Zenon
  <2>4. Frame(q, k - 1).cache \in Caches
    BY <1>1, <2>3, FrameFields, Zenon
  <2>5. QED
    BY <1>2, <2>2, <2>3, <2>4, TreeFacts DEF Asks
<1>4. Outermost(q, Frame(q, k))
  BY <1>1, <1>3, Zenon DEF Shape, ShapeAt
<1>5. PICK op \in DOMAIN L1[q] : c = L1[q][op]
  BY <1>2, <1>4, Zenon DEF Outermost
<1>6. PICK r \in DOMAIN L1[p] : c = L1[p][r]
  BY Zenon DEF Owns
<1>7. q = p
  <2>1. \A a, b \in Cores : \A o \in DOMAIN L1[a], u \in DOMAIN L1[b] :
          L1[a][o] = L1[b][u] => a = b
    BY TreeAssumption, Zenon
  <2>2. QED
    BY ONLY p \in Cores, q \in Cores, <1>5, <1>6, <2>1, Zenon
<1>8. QED
  BY <1>1, <1>3, <1>7, FrameTypes DEF Busy

Backs(c, e) ==
    \E w \in 1..Ways[c] :
        tag[c][w] = e.rd /\ mesi[c][w] # "I" /\ (e.wr # None => mesi[c][w] = "M")

\* A core that is not at its L1 loses no line there but to an invalidation.
LEMMA BackedStill ==
    ASSUME CoherenceInv, NEW p \in Cores, NEW c \in Caches, Owns(p, c), ~ Busy(p, c),
           NEW q \in Cores, stack[q] # <<>>, NEW n, n = Depth(q), NEW t, t = Frame(q, n),
           Touches(t), NEW e, e.rd # None, Backs(c, e),
           t.pc = "down" /\ t.cache = c => t.line # e.rd
    PROVE  Backs(c, e)'
<1>1. /\ Stacks /\ n \in Nat \ {0} /\ n \in 1..Depth(q) /\ ShapeAt(q, n)
      /\ t.cache \in Caches
  <2>1. Stacks /\ Shape
    BY InvParts, Zenon
  <2>2. QED
    BY <2>1, TopFrame, FrameFields DEF Shape
<1>2. ~ (IsCall(t) /\ t.cache = c)
  BY <1>1, OwnCall, Zenon
<1>3. ~ (t.pc = "grant" /\ t.from = c)
  <2>1. SUFFICES ASSUME t.pc = "grant", t.from = c PROVE FALSE
    OBVIOUS
  <2>2. IsCall(t)
    BY <2>1, Zenon DEF IsCall
  <2>3. n > 1
    <3>1. AccessAt(q, n)
      BY <1>1, Zenon DEF CoherenceInv, Accesses
    <3>2. QED
      BY <2>1, <2>2, <3>1, Zenon DEF AccessAt, Progress
  <2>4. PICK h : h = Frame(q, n - 1)
    BY ZenonT(60)
  <2>5. n - 1 \in 1..Depth(q) /\ IsCall(h) /\ t.from = h.cache
    BY <1>1, <2>2, <2>3, <2>4, Caller
  <2>6. QED
    BY <2>1, <2>4, <2>5, OwnCall, Zenon
<1>4. PICK w \in 1..Ways[c] :
        tag[c][w] = e.rd /\ mesi[c][w] # "I" /\ (e.wr # None => mesi[c][w] = "M")
  BY Zenon DEF Backs
<1>5. tag'[c][w] = tag[c][w]
  BY <1>2, <1>4, Zenon DEF Touches, IsCall
<1>6. ~ (t.pc = "down" /\ t.cache = c /\ t.way = w)
  <2>1. SUFFICES ASSUME t.pc = "down", t.cache = c, t.way = w PROVE FALSE
    OBVIOUS
  <2>2. tag[t.cache][t.way] = t.line
    BY <1>1, <2>1, Zenon DEF ShapeAt, Tells, IsCall
  <2>3. QED
    BY <1>4, <2>1, <2>2, ZenonT(60)
<1>7. mesi'[c][w] = mesi[c][w]
  BY <1>2, <1>3, <1>4, <1>6, ZenonT(60) DEF Touches
<1>8. QED
  BY <1>4, <1>5, <1>7, ZenonT(60) DEF Backs

\* The outermost call of a core, after a step of q that returns to no core.
LEMMA BusyStill ==
    ASSUME CoherenceInv, NEW q \in Cores, stack[q] # <<>>, NEW n, n = Depth(q),
           NEW t, t = Frame(q, n), Moves(q, n, t), Depth(q)' > 0,
           NEW p \in Cores, NEW c \in Caches, Owns(p, c)
    PROVE  /\ Busy(p, c)' <=> Busy(p, c)
           /\ Busy(p, c) => /\ Frame(p, 1)'.vline = Frame(p, 1).vline
                            /\ Frame(p, 1)'.line = Frame(p, 1).line
<1>1. Stacks /\ n \in Nat \ {0} /\ Shape
  BY InvParts, TopFrame, Zenon
<1>2. CASE p # q
  BY <1>2, Zenon DEF Moves, Busy, Depth, Frame
<1>3. CASE p = q /\ n > 1
  <2>1. Frame(p, 1)' = Frame(p, 1)
    BY <1>1, <1>3 DEF Moves
  <2>2. QED
    BY <1>1, <1>3, <2>1 DEF Busy
<1>4. CASE p = q /\ n = 1
  <2>1. SameSite(Frame(p, 1)', t)
    BY <1>4 DEF Moves
  <2>2. IsCall(t)
    <3>1. ShapeAt(q, n)
      BY <1>1, TopFrame DEF Shape
    <3>2. QED
      BY <1>4, <3>1 DEF ShapeAt
  <2>3. QED
    BY <1>4, <2>1, <2>2 DEF Busy, SameSite
<1>5. QED
  BY <1>1, <1>2, <1>3, <1>4

\* The invalidations under way, after a step that begins none.
LEMMA DownStill ==
    ASSUME CoherenceInv, NEW q \in Cores, stack[q] # <<>>, NEW n, n = Depth(q),
           NEW t, t = Frame(q, n), Moves(q, n, t),
           NEW r \in Cores, NEW k \in 1..Depth(r)', Frame(r, k)'.pc = "down"
    PROVE  \/ k \in 1..Depth(r) /\ Frame(r, k)' = Frame(r, k)
           \/ r = q /\ k = n /\ ~ IsCall(t) /\ SameSite(Frame(q, n)', t)
<1>1. Stacks /\ n \in Nat \ {0}
  BY InvParts, TopFrame, Zenon
<1>2. CASE r # q
  BY <1>2, Zenon DEF Moves, Depth, Frame
<1>3. CASE r = q /\ k < n
  BY <1>1, <1>3 DEF Moves
<1>4. CASE r = q /\ k = n
  <2>1. SameSite(Frame(q, n)', t)
    BY <1>1, <1>4 DEF Moves
  <2>2. QED
    BY <1>4, <2>1, Zenon DEF SameSite, IsCall
<1>5. CASE r = q /\ k > n
  BY <1>1, <1>5 DEF Moves
<1>6. QED
  BY <1>1, <1>2, <1>3, <1>4, <1>5

\* No invalidation that has cleared the filter is about to take the line of
\* the filter from the L1, and outside an access to it the L1 has that line.
FilterAt(p, c) ==
    /\ filter[c].wr \in {None, filter[c].rd}
    /\ filter[c].rd # None /\ ~ Busy(p, c) => Backs(c, filter[c])
    /\ Busy(p, c) => Frame(p, 1).vline \in Lines /\ Frame(p, 1).line = Frame(p, 1).vline
    /\ \A q \in Cores : \A k \in 1..Depth(q) :
         Frame(q, k).pc = "down" /\ Frame(q, k).cache = c => Frame(q, k).line # filter[c].rd

FilterInv ==
    /\ filter \in [Terminals -> [rd : Lines \cup {None}, wr : Lines \cup {None}]]
    /\ \A p \in Cores : \A c \in Caches : Owns(p, c) => FilterAt(p, c)

\* Every step that neither sets nor clears a filter, nor begins an
\* invalidation, keeps FilterInv.
LEMMA FilterQuiet ==
    ASSUME CoherenceInv, FilterInv, NEW q \in Cores, stack[q] # <<>>, NEW n, n = Depth(q),
           NEW t, t = Frame(q, n), Moves(q, n, t), Touches(t), Depth(q)' > 0,
           t.pc # "inv", UNCHANGED filter
    PROVE  FilterInv'
<1>1. SUFFICES ASSUME NEW p \in Cores, NEW c \in Caches, Owns(p, c) PROVE FilterAt(p, c)'
  BY Zenon DEF FilterInv, Owns
<1>2. FilterAt(p, c) /\ Stacks /\ n \in 1..Depth(q)
  BY <1>1, InvParts, TopFrame DEF FilterInv
<1>3. /\ Busy(p, c)' <=> Busy(p, c)
      /\ Busy(p, c) => Frame(p, 1)'.vline = Frame(p, 1).vline
                       /\ Frame(p, 1)'.line = Frame(p, 1).line
  BY <1>1, BusyStill, Zenon
<1>4. filter[c].rd # None /\ ~ Busy(p, c) => Backs(c, filter[c])'
  <2>1. t.pc = "down" /\ t.cache = c => t.line # filter[c].rd
    BY <1>2, Zenon DEF FilterAt
  <2>2. filter[c].rd # None /\ ~ Busy(p, c) => Backs(c, filter[c])
    BY <1>2, Zenon DEF FilterAt
  <2>3. PICK e : e = filter[c]
    OBVIOUS
  <2>4. e.rd # None /\ ~ Busy(p, c) => Backs(c, e)'
    BY <1>1, <2>1, <2>2, <2>3, BackedStill
  <2>5. QED
    BY <2>3, <2>4, Zenon DEF Backs
<1>5. ASSUME NEW r \in Cores, NEW k \in 1..Depth(r)', Frame(r, k)'.pc = "down",
             Frame(r, k)'.cache = c
      PROVE  Frame(r, k)'.line # filter[c].rd
  <2>1. \/ k \in 1..Depth(r) /\ Frame(r, k)' = Frame(r, k)
        \/ r = q /\ k = n /\ ~ IsCall(t) /\ SameSite(Frame(q, n)', t)
    BY <1>5, DownStill, Zenon
  <2>2. CASE k \in 1..Depth(r) /\ Frame(r, k)' = Frame(r, k)
    BY <1>2, <1>5, <2>2, Zenon DEF FilterAt
  <2>3. CASE r = q /\ k = n /\ ~ IsCall(t) /\ SameSite(Frame(q, n)', t)
    <3>1. t.pc = "down" /\ t.cache = c /\ Frame(q, n)'.line = t.line
      BY <1>5, <2>3, ZenonT(60) DEF SameSite, IsCall
    <3>2. QED
      BY <1>2, <2>3, <3>1, Zenon DEF FilterAt
  <2>4. QED
    BY <2>1, <2>2, <2>3, Zenon
<1>6. QED
  <2>1. filter'[c].wr \in {None, filter'[c].rd}
    BY <1>2, Zenon DEF FilterAt
  <2>2. filter'[c].rd # None /\ ~ Busy(p, c)' => Backs(c, filter[c])'
    BY <1>3, <1>4, Zenon
  <2>3. Busy(p, c)' => Frame(p, 1)'.vline \in Lines /\ Frame(p, 1)'.line = Frame(p, 1)'.vline
    BY <1>2, <1>3, Zenon DEF FilterAt
  <2>4. \A r \in Cores : \A k \in 1..Depth(r)' :
          Frame(r, k)'.pc = "down" /\ Frame(r, k)'.cache = c => Frame(r, k)'.line # filter'[c].rd
    BY <1>5, Zenon
  <2>5. QED
    BY <2>1, <2>2, <2>3, <2>4, Zenon DEF FilterAt

\* An access comes back to its core.
LEMMA FilterEnd ==
    ASSUME CoherenceInv, FilterInv, NEW p \in Cores, EndAccess(p)
    PROVE  FilterInv'
<1>1. PICK n : n = Depth(p)
  OBVIOUS
<1>2. PICK t : t = Frame(p, n)
  BY ZenonT(60)
<1>3. /\ Moves(p, n, t) /\ Touches(t) /\ UNCHANGED <<tag, mesi>>
      /\ t.vline = None => UNCHANGED filter
      /\ t.vline # None => filter' = [filter EXCEPT ![t.cache] = Filtered(t)]
      /\ t \in Calls /\ IsCall(t) /\ t.pc = "end" /\ Depth(p)' = n - 1
      /\ n \in Nat \ {0} /\ n \in 1..Depth(p) /\ Holds(p, n) /\ ShapeAt(p, n)
      /\ t.type \in Gets =>
           /\ t.way \in 1..Ways[t.cache] /\ tag[t.cache][t.way] = t.line
           /\ mesi[t.cache][t.way] # "I"
           /\ t.type = "GETX" => mesi[t.cache][t.way] = "M"
  BY <1>1, <1>2, EndAccessDoes
<1>4. stack[p] # <<>> /\ Stacks
  BY InvParts, Zenon DEF EndAccess, InCall
<1>5. CASE n > 1
  <2>1. Asks(t, Frame(p, n - 1))
    BY <1>2, <1>3, <1>5, Zenon DEF ShapeAt
  <2>2. UNCHANGED filter /\ t.pc # "inv"
    BY <1>3, <2>1, ZenonT(60) DEF Asks
  <2>3. Depth(p)' > 0
    BY <1>3, <1>5
  <2>4. QED
    BY <1>1, <1>2, <1>3, <1>4, <2>2, <2>3, FilterQuiet, Zenon
<1>6. CASE n = 1
  <2>1. Outermost(p, t) /\ t.cache \in Caches /\ t.type \in Gets
    BY <1>2, <1>3, <1>6, ZenonT(60) DEF ShapeAt, Outermost, Calls
  <2>2. /\ \A q \in Cores : q # p => stack'[q] = stack[q]
        /\ Depth(p)' = 0
    BY <1>3, <1>6 DEF Moves
  <2>3. ASSUME NEW q \in Cores, NEW c \in Caches, Owns(q, c),
               filter'[c] = filter[c], q = p => ~ Busy(p, c)
        PROVE  FilterAt(q, c)'
    <3>1. FilterAt(q, c) /\ (q = p => ~ Busy(p, c) /\ ~ Busy(p, c)')
      BY <2>2, <2>3 DEF FilterInv, Busy
    <3>2. q # p => (Busy(q, c)' <=> Busy(q, c)) /\ Frame(q, 1)' = Frame(q, 1)
      BY <2>2, Zenon DEF Busy, Depth, Frame
    <3>3. Backs(c, filter[c])' <=> Backs(c, filter[c])
      BY <1>3, <2>3, Zenon DEF Backs
    <3>4. \A r \in Cores : \A k \in 1..Depth(r)' :
            k \in 1..Depth(r) /\ Frame(r, k)' = Frame(r, k)
      BY <2>2 DEF Depth, Frame
    <3>5. filter'[c].wr \in {None, filter'[c].rd}
      BY <2>3, <3>1, Zenon DEF FilterAt
    <3>6. filter'[c].rd # None /\ ~ Busy(q, c)' => Backs(c, filter[c])'
      BY <2>3, <3>1, <3>2, <3>3, Zenon DEF FilterAt
    <3>7. Busy(q, c)' => Frame(q, 1)'.vline \in Lines /\ Frame(q, 1)'.line = Frame(q, 1)'.vline
      BY <3>1, <3>2, Zenon DEF FilterAt
    <3>8. \A r \in Cores : \A k \in 1..Depth(r)' :
            Frame(r, k)'.pc = "down" /\ Frame(r, k)'.cache = c => Frame(r, k)'.line # filter'[c].rd
      BY <2>3, <3>1, <3>4, Zenon DEF FilterAt
    <3>9. QED
      BY <3>5, <3>6, <3>7, <3>8, Zenon DEF FilterAt
  <2>4. CASE t.cache \notin Terminals
    <3>1. UNCHANGED filter
      BY <1>3, <2>1, <2>4, Zenon DEF Outermost
    <3>2. ASSUME NEW q \in Cores, NEW c \in Caches, Owns(q, c)
          PROVE  FilterAt(q, c)'
      <4>1. c \in Terminals
        BY <3>2, TreeFacts DEF Owns
      <4>2. ~ Busy(p, c)
        BY <1>2, <1>6, <2>4, <4>1, Zenon DEF Busy
      <4>3. QED
        BY <2>3, <3>1, <3>2, <4>2, Zenon
    <3>3. QED
      BY <3>1, <3>2, Zenon DEF FilterInv, Owns
  <2>5. CASE t.cache \in Terminals
    <3>1. Owns(p, t.cache) /\ Busy(p, t.cache)
      BY <1>1, <1>2, <1>6, <2>1, <2>5 DEF Outermost, Owns, Busy
    <3>2. t.vline \in Lines /\ t.line = t.vline /\ t.vline # None
      <4>1. FilterAt(p, t.cache)
        BY <2>1, <3>1, Zenon DEF FilterInv
      <4>2. QED
        BY <1>2, <1>6, <3>1, <4>1, CoherenceAssumption, Zenon DEF FilterAt
    <3>3. /\ filter'[t.cache] = Filtered(t)
          /\ \A c \in Terminals : c # t.cache => filter'[c] = filter[c]
          /\ filter' \in [Terminals -> [rd : Lines \cup {None}, wr : Lines \cup {None}]]
      <4>1. Filtered(t) \in [rd : Lines \cup {None}, wr : Lines \cup {None}]
        BY <3>2, Zenon DEF Filtered
      <4>2. filter' = [filter EXCEPT ![t.cache] = Filtered(t)]
        BY <1>3, <3>2, Zenon
      <4>3. QED
        BY <2>5, <4>1, <4>2, Zenon DEF FilterInv
    <3>4. filter'[t.cache].rd = t.line
          /\ filter'[t.cache].wr = IF t.type = "GETX" THEN t.line ELSE None
      BY <3>2, <3>3 DEF Filtered
    <3>5. ~ Busy(p, t.cache)'
      BY <2>2 DEF Busy
    <3>6. Backs(t.cache, filter[t.cache])'
      BY <1>3, <2>1, <3>4, Zenon DEF Backs
    <3>7. ASSUME NEW r \in Cores, NEW k \in 1..Depth(r)', Frame(r, k)'.pc = "down",
                 Frame(r, k)'.cache = t.cache
          PROVE  FALSE
      <4>1. r # p /\ k \in 1..Depth(r) /\ Frame(r, k)' = Frame(r, k)
        BY <2>2, <3>7 DEF Depth, Frame
      <4>2. Holds(r, k)
        BY <3>7, <4>1, Zenon DEF Holds
      <4>3. LockAt(r, k) /\ LockAt(p, n)
        BY <1>3, <4>1, Zenon DEF CoherenceInv, Locks
      <4>4. QED
        BY <1>2, <1>3, <3>7, <4>1, <4>2, <4>3, ZenonT(60) DEF LockAt
    <3>8. FilterAt(p, t.cache)'
      BY <3>4, <3>5, <3>6, <3>7, Zenon DEF FilterAt
    <3>9. ASSUME NEW q \in Cores, NEW c \in Caches, Owns(q, c)
          PROVE  FilterAt(q, c)'
      <4>1. CASE c = t.cache
        <5>1. q = p
          BY <1>2, <1>3, <3>9, <4>1, OwnCall, ZenonT(120)
        <5>2. QED
          BY <3>8, <4>1, <5>1, Zenon
      <4>2. CASE c # t.cache
        <5>1. c \in Terminals /\ ~ Busy(p, c)
          BY <1>2, <1>6, <3>9, <4>2, TreeFacts DEF Owns, Busy
        <5>2. QED
          BY <2>3, <3>3, <3>9, <4>2, <5>1, Zenon
      <4>3. QED
        BY <4>1, <4>2, Zenon
    <3>10. QED
      BY <3>3, <3>9, Zenon DEF FilterInv, Owns
  <2>6. QED
    BY <2>4, <2>5, Zenon
<1>7. QED
  BY <1>3, <1>5, <1>6

\* An invalidation reaches an L1 and clears its filter, if it has the line.
LEMMA FilterClear ==
    ASSUME CoherenceInv, CoherenceInv', FilterInv, NEW q \in Cores, StartInvalidate(q)
    PROVE  FilterInv'
<1>1. PICK n : n = Depth(q)
  OBVIOUS
<1>2. PICK t : t = Frame(q, n)
  OBVIOUS
<1>3. /\ stack[q] # <<>> /\ t = Call(q) /\ t.pc = "inv" /\ ~ IsCall(t)
      /\ t.cache \in Caches /\ t.line \in Lines /\ n \in Nat \ {0}
  BY <1>1, <1>2, Top, Zenon DEF StartInvalidate
<1>4. Moves(q, n, t) /\ Touches(t) /\ UNCHANGED <<tag, mesi>> /\ Depth(q)' > 0
  <2>1. Moves(q, n, t) /\ Touches(t) /\ UNCHANGED <<tag, mesi>>
    BY <1>1, <1>2, StartInvalidateDoes, Zenon DEF StartInvalidate
  <2>2. \E call : stack' = [stack EXCEPT ![q] = <<call>> \o Tail(@)]
    BY Zenon DEF StartInvalidate, Goto
  <2>3. PICK call : stack' = [stack EXCEPT ![q] = <<call>> \o Tail(@)]
    BY <2>2, Zenon
  <2>4. stack'[q] = <<call>> \o Tail(stack[q]) /\ stack[q] \in Seq(Calls \cup Invs)
    BY <2>3, Zenon DEF CoherenceInv, Types
  <2>5. Depth(q)' > 0
    BY <1>3, <2>4 DEF Depth
  <2>6. QED
    BY <2>1, <2>5, Zenon
<1>5. filter' = Unfilter(t.cache, t.line)
  BY <1>3, Zenon DEF StartInvalidate
<1>6. /\ filter' \in [Terminals -> [rd : Lines \cup {None}, wr : Lines \cup {None}]]
      /\ \A c \in Terminals :
           \/ filter'[c] = Unfiltered
           \/ filter'[c] = filter[c] /\ (c = t.cache => filter[c].rd # t.line)
  <2>1. Unfiltered \in [rd : Lines \cup {None}, wr : Lines \cup {None}]
    BY Zenon DEF Unfiltered
  <2>2. QED
    BY <1>5, <2>1, Zenon DEF FilterInv, Unfilter
<1>7. ASSUME NEW p \in Cores, NEW c \in Caches, Owns(p, c)
      PROVE  FilterAt(p, c)'
  <2>1. FilterAt(p, c) /\ c \in Terminals
    BY <1>7, TreeFacts DEF FilterInv, Owns
  <2>2. /\ Busy(p, c)' <=> Busy(p, c)
        /\ Busy(p, c) => Frame(p, 1)'.vline = Frame(p, 1).vline
                         /\ Frame(p, 1)'.line = Frame(p, 1).line
    BY <1>1, <1>2, <1>3, <1>4, <1>7, BusyStill, Zenon
  <2>3. Busy(p, c)' => Frame(p, 1)'.vline \in Lines /\ Frame(p, 1)'.line = Frame(p, 1)'.vline
    BY <2>1, <2>2, Zenon DEF FilterAt
  <2>4. ASSUME NEW r \in Cores, NEW k \in 1..Depth(r)', Frame(r, k)'.pc = "down",
               Frame(r, k)'.cache = c
        PROVE  Frame(r, k)'.line # filter'[c].rd
    <3>1. \/ k \in 1..Depth(r) /\ Frame(r, k)' = Frame(r, k)
          \/ r = q /\ k = n /\ ~ IsCall(t) /\ SameSite(Frame(q, n)', t)
      BY <1>1, <1>2, <1>3, <1>4, <2>4, DownStill, Zenon
    <3>2. Frame(r, k)'.line \in Lines
      <4>1. Stacks'
        BY InvParts, ZenonT(60) DEF CoherenceInv, Types, Stacks
      <4>2. Frame(r, k)' \in Calls \cup Invs
        BY <2>4, <4>1 DEF Frame, Depth, Stacks
      <4>3. QED
        BY <4>2, Zenon DEF Calls, Invs
    <3>3. CASE filter'[c] = Unfiltered
      BY <3>2, <3>3, CoherenceAssumption DEF Unfiltered
    <3>4. CASE filter'[c] = filter[c] /\ (c = t.cache => filter[c].rd # t.line)
      <4>1. CASE k \in 1..Depth(r) /\ Frame(r, k)' = Frame(r, k)
        BY <2>1, <2>4, <3>4, <4>1, Zenon DEF FilterAt
      <4>2. CASE r = q /\ k = n /\ SameSite(Frame(q, n)', t)
        BY <2>4, <3>4, <4>2, Zenon DEF SameSite
      <4>3. QED
        BY <3>1, <4>1, <4>2, Zenon
    <3>5. QED
      BY <1>6, <2>1, <3>3, <3>4, Zenon
  <2>5. CASE filter'[c] = Unfiltered
    <3>1. filter'[c].rd = None /\ filter'[c].wr = None
      BY <2>5 DEF Unfiltered
    <3>2. QED
      BY <2>3, <2>4, <3>1, Zenon DEF FilterAt
  <2>6. CASE filter'[c] = filter[c]
    <3>1. Backs(c, filter[c])' <=> Backs(c, filter[c])
      BY <1>4, <2>6, Zenon DEF Backs
    <3>2. filter'[c].wr \in {None, filter'[c].rd}
      BY <2>1, <2>6, Zenon DEF FilterAt
    <3>3. filter'[c].rd # None /\ ~ Busy(p, c)' => Backs(c, filter[c])'
      BY <2>1, <2>2, <2>6, <3>1, Zenon DEF FilterAt
    <3>4. QED
      BY <2>3, <2>4, <3>2, <3>3, Zenon DEF FilterAt
  <2>7. QED
    BY <1>6, <2>1, <2>5, <2>6, ZenonT(60)
<1>8. QED
  BY <1>6, <1>7, Zenon DEF FilterInv, Owns

\* A core with no access under way makes one, or changes its thread.
LEMMA FilterRest ==
    ASSUME CoherenceInv, CoherenceInv', FilterInv, UNCHANGED <<tag, mesi>>, NEW p \in Cores,
           \A q \in Cores : q # p => stack'[q] = stack[q],
           \A k \in 1..Depth(p)' : Frame(p, k)'.pc = "down" =>
             k \in 1..Depth(p) /\ Frame(p, k)' = Frame(p, k),
           filter' \in [Terminals -> [rd : Lines \cup {None}, wr : Lines \cup {None}]],
           \A q \in Cores : \A c \in Caches : Owns(q, c) =>
             filter'[c] = filter[c] \/ filter'[c] = Unfiltered,
           \A c \in Caches : Owns(p, c) =>
             /\ Busy(p, c) => Busy(p, c)'
             /\ Busy(p, c)' => /\ Frame(p, 1)'.vline \in Lines
                               /\ Frame(p, 1)'.line = Frame(p, 1)'.vline
    PROVE  FilterInv'
<1>1. SUFFICES ASSUME NEW q \in Cores, NEW c \in Caches, Owns(q, c) PROVE FilterAt(q, c)'
  BY Zenon DEF FilterInv, Owns
<1>2. FilterAt(q, c)
  BY <1>1, Zenon DEF FilterInv
<1>3. /\ Busy(q, c) => Busy(q, c)'
      /\ Busy(q, c)' => Frame(q, 1)'.vline \in Lines /\ Frame(q, 1)'.line = Frame(q, 1)'.vline
  <2>1. CASE q = p
    BY <1>1, <2>1, Zenon
  <2>2. CASE q # p
    <3>1. Depth(q)' = Depth(q) /\ Frame(q, 1)' = Frame(q, 1)
      BY <2>2, Zenon DEF Depth, Frame
    <3>2. QED
      BY <1>2, <3>1, Zenon DEF Busy, FilterAt
  <2>3. QED
    BY <2>1, <2>2, Zenon
<1>4. ASSUME NEW r \in Cores, NEW k \in 1..Depth(r)', Frame(r, k)'.pc = "down",
             Frame(r, k)'.cache = c
      PROVE  Frame(r, k)'.line # filter'[c].rd
  <2>1. k \in 1..Depth(r) /\ Frame(r, k)' = Frame(r, k)
    <3>1. CASE r = p
      BY <1>4, <3>1, Zenon
    <3>2. CASE r # p
      BY <1>4, <3>2, Zenon DEF Depth, Frame
    <3>3. QED
      BY <3>1, <3>2, Zenon
  <2>2. Frame(r, k).line \in Lines
    BY <2>1, InvParts, FrameFields, Zenon
  <2>3. CASE filter'[c] = filter[c]
    BY <1>2, <1>4, <2>1, <2>3, ZenonT(60) DEF FilterAt
  <2>4. CASE filter'[c] = Unfiltered
    BY <2>1, <2>2, <2>4, CoherenceAssumption DEF Unfiltered
  <2>5. QED
    BY <1>1, <2>3, <2>4, Zenon
<1>5. CASE filter'[c] = Unfiltered
  <2>1. filter'[c].rd = None /\ filter'[c].wr = None
    BY <1>5 DEF Unfiltered
  <2>2. QED
    BY <1>3, <1>4, <2>1, ZenonT(60) DEF FilterAt
<1>6. CASE filter'[c] = filter[c]
  <2>1. Backs(c, filter[c])' <=> Backs(c, filter[c])
    BY <1>6, Zenon DEF Backs
  <2>2. filter'[c].wr \in {None, filter'[c].rd}
    BY <1>2, <1>6, Zenon DEF FilterAt
  <2>3. filter'[c].rd # None /\ ~ Busy(q, c)' => Backs(c, filter[c])'
    BY <1>2, <1>3, <1>6, <2>1, Zenon DEF FilterAt
  <2>4. QED
    BY <1>3, <1>4, <2>2, <2>3, Zenon DEF FilterAt
<1>7. QED
  BY <1>1, <1>5, <1>6, Zenon

\* Every step inside a call keeps FilterInv.
LEMMA FilterStep ==
    ASSUME CoherenceInv, CoherenceInv', FilterInv, NEW p \in Cores, Step(p)
    PROVE  FilterInv'
<1>1. PICK n : n = Depth(p)
  OBVIOUS
<1>2. PICK t : t = Frame(p, n)
  OBVIOUS
<1>3. CASE EndAccess(p)
  BY <1>3, FilterEnd, Zenon
<1>4. CASE StartInvalidate(p)
  BY <1>4, FilterClear, Zenon
<1>5. ASSUME \/ LockTop(p) \/ StartAccess(p) \/ EvictChild(p) \/ Revoke(p) \/ ForwardInval(p)
             \/ Evict(p) \/ Fetch(p) \/ Grant(p) \/ FinishInvalidate(p)
      PROVE  FilterInv'
  <2>1. Moves(p, n, t) /\ Touches(t) /\ UNCHANGED filter
    <3>1. CASE LockTop(p) \/ StartAccess(p) \/ EvictChild(p) \/ Revoke(p) \/ ForwardInval(p)
      BY <1>1, <1>2, <3>1, LockTopDoes, StartAccessDoes, SendDoes, ZenonT(60)
    <3>2. CASE Evict(p) \/ Fetch(p) \/ Grant(p) \/ FinishInvalidate(p)
      BY <1>1, <1>2, <3>2, EvictDoes, FetchDoes, GrantDoes, FinishInvalidateDoes, ZenonT(60)
    <3>3. QED
      BY <1>5, <3>1, <3>2, Zenon
  <2>2. \E pc \in {"tcc", "bcc", "evict", "fetch", "grant", "down"} : InCall(p, pc)
    BY <1>5, Zenon DEF LockTop, StartAccess, EvictChild, Revoke, ForwardInval, Evict, Fetch,
       Grant, FinishInvalidate
  <2>3. stack[p] # <<>> /\ t.pc \notin {"inv", "end"} /\ n \in Nat \ {0}
    BY <1>1, <1>2, <2>2, Top, ZenonT(60)
  <2>4. Depth(p)' > 0
    BY <2>1, <2>3 DEF Moves
  <2>5. QED
    BY <1>1, <1>2, <2>1, <2>3, <2>4, FilterQuiet, Zenon
<1>6. QED
  BY <1>3, <1>4, <1>5, Zenon DEF Step

\* The filters compare virtual with physical lines: they are the same.
Untranslated == \A v \in Lines : Phys[v] = v

\* And so does what a core does between two calls.
LEMMA FilterProgram ==
    ASSUME CoherenceInv, CoherenceInv', FilterInv, Untranslated, NEW p \in Cores, Program(p)
    PROVE  FilterInv'
<1>1. ASSUME NEW f \in Calls, Enters(p, f), UNCHANGED filter,
             (f.vline \in Lines /\ f.line = f.vline) \/ f.cache \notin Terminals
      PROVE  FilterInv'
  <2>1. /\ Depth(p) = 0 /\ Depth(p)' = 1 /\ Frame(p, 1)' = f
    BY <1>1, InvParts, EnterFrames, Zenon
  <2>2. \A q \in Cores : q # p => stack'[q] = stack[q]
    BY <1>1, Zenon DEF Enters, CoherenceInv, Types
  <2>3. \A k \in 1..Depth(p)' : Frame(p, k)'.pc # "down"
    BY <2>1 DEF Calls
  <2>4. \A c \in Caches : Owns(p, c) =>
          /\ Busy(p, c) => Busy(p, c)'
          /\ Busy(p, c)' => Frame(p, 1)'.vline \in Lines /\ Frame(p, 1)'.line = Frame(p, 1)'.vline
    BY <1>1, <2>1, TreeFacts DEF Owns, Busy
  <2>5. UNCHANGED <<tag, mesi>>
    BY <1>1, Zenon DEF Enters
  <2>6. QED
    BY <1>1, <2>2, <2>3, <2>4, <2>5, FilterRest, ZenonT(60) DEF FilterInv
<1>2. ASSUME NEW op \in DOMAIN L1[p], NEW v \in Lines, Access(p, op, v)
      PROVE  FilterInv'
  <2>1. PICK f : f = Request(L1[p][op], Phys[v], IF op = "store" THEN "GETX" ELSE "GETS",
                             IF op = "fetch" THEN {"NOEXCL"} ELSE {}, None, 0, "I", v)
    OBVIOUS
  <2>2. Enters(p, f) /\ UNCHANGED filter
    BY <1>2, <2>1, Zenon DEF Access, Enters
  <2>3. L1[p][op] \in Caches /\ L1[p][op] \in Terminals /\ Phys[v] = v
    BY TreeFacts, Zenon DEF Untranslated
  <2>4. f \in Calls /\ f.vline \in Lines /\ f.line = f.vline
    BY <2>1, <2>3, Zenon DEF Request, Calls, Gets, MESI
  <2>5. QED
    BY <1>1, <2>2, <2>4, ZenonT(60)
<1>3. ASSUME NEW l \in Lines, Walk(p, l)
      PROVE  FilterInv'
  <2>1. PICK f : f = Request(LLC(l), l, "GETS", {"PTW"}, None, 0, "I", None)
    OBVIOUS
  <2>2. Enters(p, f) /\ UNCHANGED filter
    BY <1>3, <2>1, Zenon DEF Walk, Enters
  <2>3. LLC(l) \in Caches /\ LLC(l) \notin Terminals
    BY TreeFacts, Zenon
  <2>4. f \in Calls /\ f.cache \notin Terminals
    BY <2>1, <2>3, ZenonT(60) DEF Request, Calls, Gets, MESI
  <2>5. QED
    BY <1>1, <2>2, <2>4, Zenon
<1>4. ASSUME ContextSwitch(p)
      PROVE  FilterInv'
  <2>1. UNCHANGED <<tag, mesi, stack>>
    BY <1>4, Zenon DEF ContextSwitch
  <2>2. filter' = [c \in Terminals |-> IF Owns(p, c) THEN Unfiltered ELSE filter[c]]
    BY <1>4, ZenonT(60) DEF ContextSwitch, Owns
  <2>3. /\ filter' \in [Terminals -> [rd : Lines \cup {None}, wr : Lines \cup {None}]]
        /\ \A q \in Cores : \A c \in Caches : Owns(q, c) =>
             filter'[c] = filter[c] \/ filter'[c] = Unfiltered
    BY <2>2, TreeFacts DEF FilterInv, Owns, Unfiltered
  <2>4. /\ Depth(p)' = Depth(p) /\ \A k : Frame(p, k)' = Frame(p, k)
    BY <2>1, Zenon DEF Depth, Frame
  <2>5. \A c \in Caches : Owns(p, c) =>
          /\ Busy(p, c)' <=> Busy(p, c)
          /\ Busy(p, c) => Frame(p, 1).vline \in Lines /\ Frame(p, 1).line = Frame(p, 1).vline
    BY <2>4, ZenonT(60) DEF Busy, FilterInv, FilterAt
  <2>6. QED
    BY <2>1, <2>3, <2>4, <2>5, FilterRest
<1>5. QED
  BY <1>2, <1>3, <1>4, Zenon DEF Program

\* The filters are empty at first.
LEMMA FilterInit ==
    ASSUME Init
    PROVE  FilterInv
<1>2. /\ \A c \in Terminals : filter[c].rd = None /\ filter[c].wr = None
      /\ \A p \in Cores : Depth(p) = 0
      /\ filter \in [Terminals -> [rd : Lines \cup {None}, wr : Lines \cup {None}]]
  BY Zenon DEF Init, Unfiltered, Depth
<1>3. QED
  BY <1>2, TreeFacts DEF FilterInv, FilterAt, Owns, Busy

\* Every step keeps the filters backed.
LEMMA FilterKeeps ==
    ASSUME Untranslated, CoherenceInv, CoherenceInv', FilterInv, [Next]_vars
    PROVE  FilterInv'
<1>3. CASE UNCHANGED vars
  BY <1>3 DEF vars, FilterInv, FilterAt, Owns, Busy, Backs, Depth, Frame
<1>4. QED
  BY <1>3, FilterStep, FilterProgram, ZenonT(60) DEF Next

\* While a core is between accesses its filters hold what its L1s hold.
LEMMA BackedFilter ==
    ASSUME Untranslated, CoherenceInv, FilterInv
    PROVE  FilterCovered
<1>1. SUFFICES ASSUME NEW p \in Cores, stack[p] = <<>>,
                      NEW op \in DOMAIN L1[p], NEW c, c = L1[p][op]
               PROVE  /\ filter[c].rd # None => State(c, Phys[filter[c].rd]) # "I"
                      /\ filter[c].wr # None => State(c, Phys[filter[c].wr]) = "M"
  BY ZenonT(60) DEF FilterCovered
<1>2. c \in Caches /\ c \in Terminals /\ Owns(p, c) /\ FilterAt(p, c) /\ ~ Busy(p, c)
  BY <1>1, TreeFacts DEF FilterInv, Owns, Busy, Depth
<1>3. filter[c].rd \in Lines \cup {None} /\ filter[c].wr \in {None, filter[c].rd}
  BY <1>1, <1>2, Zenon DEF FilterInv, FilterAt
<1>4. SUFFICES ASSUME filter[c].rd # None
               PROVE  /\ State(c, Phys[filter[c].rd]) # "I"
                      /\ filter[c].wr # None => State(c, Phys[filter[c].wr]) = "M"
  BY <1>3, Zenon
<1>5. PICK w \in 1..Ways[c] : /\ tag[c][w] = filter[c].rd /\ mesi[c][w] # "I"
                              /\ filter[c].wr # None => mesi[c][w] = "M"
  BY <1>2, <1>4, Zenon DEF FilterAt, Backs
<1>6. Phys[filter[c].rd] = filter[c].rd /\ filter[c].rd \in Lines
  BY <1>3, <1>4, Zenon DEF Untranslated
<1>7. State(c, filter[c].rd) = mesi[c][w]
  BY <1>1, <1>2, <1>5, <1>6, StateOf, ZenonT(60)
<1>8. QED
  BY <1>3, <1>5, <1>6, <1>7, Zenon
=============================================================================
