---------------------------- MODULE MemoryProofs ----------------------------
(***************************************************************************)
(* Proofs about the memory system.  First the flow control of the links,   *)
(* for every topology, set of requests and size of the buffers: tokens are *)
(* neither lost nor invented, and a packet is never sent to a full input   *)
(* buffer.  The counters of a link are moved by send() at one end and by   *)
(* link_inject() at the other; everything else leaves them alone or, like  *)
(* a request of the processor, concerns links that have no other end.      *)
(* Then address translation, for any number of cores, processes, TLBs,     *)
(* table levels and pages.                                                 *)
(***************************************************************************)
EXTENDS MemoryNetwork, VirtualMemory, WellFoundedInduction, TLAPS

(* The inductive invariant: the counters are integers of the right sign.   *)
(* That an input buffer's counter is not negative is not needed.           *)
FlowInv ==
    /\ tokens \in [Links -> Int] /\ inOccupied \in [Links -> Int]
    /\ extracted \in [Links -> Nat]
    /\ \A l \in Links : tokens[l] >= 0
    /\ TokensConserved

flowVars == <<tokens, inOccupied, extracted>>

(* A packet has at least one flit. *)
LEMMA FlitsPositive == \A p : Flits(p) \in Nat /\ Flits(p) > 0
  BY FlitAssumption DEF Flits

(* Only tokens that were extracted are returned. *)
LEMMA LeftmostBitBound == \A n \in Nat : LeftmostBit(n) \in Nat /\ LeftmostBit(n) <= n
  BY DEF LeftmostBit

(* Initially the sender has tokens for the whole, empty buffer. *)
LEMMA FlowInit == NetworkInit => FlowInv
  BY LinkAssumption, FlitAssumption DEF NetworkInit, FlowInv, TokensConserved

(* A data packet takes its flits off the sender's tokens, adds them to the *)
(* receiver's buffer, and carries tokens the other way.                    *)
LEMMA SendPacketKeeps ==
  ASSUME FlowInv, NEW l \in Links, SendPacket(l) PROVE FlowInv'
  <1> DEFINE p == Head(output[l])
             rtc == LeftmostBit(extracted[l])
  <1>1. Flits(p) \in Nat /\ Flits(p) <= tokens[l]
    BY FlitsPositive, Zenon DEF SendPacket, CanSend
  <1>2. rtc \in Nat /\ rtc <= extracted[l]
    BY LeftmostBitBound, Zenon DEF FlowInv
  <1>3. extracted' = [extracted EXCEPT ![l] = @ - rtc]
    BY Zenon DEF SendPacket
  <1>4. extracted' \in [Links -> Nat]
    BY <1>2, <1>3 DEF FlowInv
  <1>5. CASE l \in CpuLinks
    <2>1. UNCHANGED <<tokens, inOccupied>>
      BY <1>5, Zenon DEF SendPacket
    <2> QED
      BY <2>1, <1>3, <1>4, <1>5, LinkAssumption DEF FlowInv, TokensConserved
  <1>6. CASE l \notin CpuLinks
    <2>1. /\ tokens' = [tokens EXCEPT ![l] = @ - Flits(p), ![Peer[l]] = @ + rtc]
          /\ inOccupied' = [inOccupied EXCEPT ![Peer[l]] = @ + Flits(p)]
      BY <1>6, Zenon DEF SendPacket
    <2>2. Peer[l] \in Links /\ Peer[l] # l /\ Peer[Peer[l]] = l
      BY <1>6, LinkAssumption, Zenon
    <2> HIDE DEF p, rtc
    <2>3. tokens' \in [Links -> Int] /\ inOccupied' \in [Links -> Int]
      BY <1>1, <1>2, <2>1, <2>2 DEF FlowInv
    <2>4. \A x \in Links : tokens'[x] >= 0
      BY <1>1, <1>2, <2>1, <2>2 DEF FlowInv
    <2>5. TokensConserved'
      <3> SUFFICES ASSUME NEW x \in Links \ CpuLinks
                   PROVE  tokens'[x] + inOccupied'[Peer[x]] + extracted'[Peer[x]] = BufferMax
        BY Zenon DEF TokensConserved
      <3>1. /\ Peer[x] \in Links /\ Peer[x] # x /\ Peer[Peer[x]] = x
            /\ tokens[x] + inOccupied[Peer[x]] + extracted[Peer[x]] = BufferMax
        BY LinkAssumption, Zenon DEF FlowInv, TokensConserved
      <3>2. CASE x = l
        BY <3>1, <3>2, <1>1, <1>2, <1>3, <2>1, <2>2 DEF FlowInv
      <3>3. CASE x = Peer[l]
        BY <3>1, <3>3, <1>1, <1>2, <1>3, <2>1, <2>2 DEF FlowInv
      <3>4. CASE x # l /\ x # Peer[l]
        BY <3>1, <3>4, <1>1, <1>2, <1>3, <2>1, <2>2, Zenon DEF FlowInv
      <3> QED BY <3>2, <3>3, <3>4
    <2> QED
      BY <1>4, <2>3, <2>4, <2>5, Zenon DEF FlowInv
  <1> QED BY <1>5, <1>6

(* A TRET packet carries tokens and takes no room. *)
LEMMA SendTokensKeeps ==
  ASSUME FlowInv, NEW l \in Links, SendTokens(l) PROVE FlowInv'
  <1> DEFINE rtc == LeftmostBit(extracted[l])
  <1>2. rtc \in Nat /\ rtc <= extracted[l]
    BY LeftmostBitBound, Zenon DEF FlowInv
  <1>3. extracted' = [extracted EXCEPT ![l] = @ - rtc] /\ inOccupied' = inOccupied
    BY Zenon DEF SendTokens
  <1>4. tokens' = IF l \in CpuLinks THEN tokens ELSE [tokens EXCEPT ![Peer[l]] = @ + rtc]
    BY Zenon DEF SendTokens
  <1> HIDE DEF rtc
  <1>5. extracted' \in [Links -> Nat]
    BY <1>2, <1>3 DEF FlowInv
  <1>6. tokens' \in [Links -> Int] /\ \A x \in Links : tokens'[x] >= 0
    BY <1>2, <1>4, LinkAssumption DEF FlowInv
  <1>7. TokensConserved'
    <2> SUFFICES ASSUME NEW x \in Links \ CpuLinks
                 PROVE  tokens'[x] + inOccupied'[Peer[x]] + extracted'[Peer[x]] = BufferMax
      BY Zenon DEF TokensConserved
    <2>1. /\ Peer[x] \in Links \ CpuLinks /\ Peer[x] # x /\ Peer[Peer[x]] = x
          /\ tokens[x] + inOccupied[Peer[x]] + extracted[Peer[x]] = BufferMax
      BY LinkAssumption, Zenon DEF FlowInv, TokensConserved
    <2>2. CASE Peer[x] = l
      BY <2>1, <2>2, <1>2, <1>3, <1>4 DEF FlowInv
    <2>3. CASE Peer[x] # l
      <3>1. tokens'[x] = tokens[x]
        BY <2>1, <2>3, <1>4, LinkAssumption, Zenon DEF FlowInv
      <3> QED BY <3>1, <2>1, <2>3, <1>2, <1>3 DEF FlowInv
    <2> QED BY <2>2, <2>3
  <1> QED BY <1>3, <1>5, <1>6, <1>7 DEF FlowInv

(* The flits of a packet that leaves an input buffer become tokens. *)
LEMMA LinkInjectKeeps ==
  ASSUME FlowInv, NEW l \in Links, LinkInject(l) PROVE FlowInv'
  <1> DEFINE f == Flits(Head(input[l]))
  <1>1. f \in Nat
    BY FlitsPositive, Zenon
  <1>2. /\ inOccupied' = [inOccupied EXCEPT ![l] = @ - f]
        /\ extracted' = [extracted EXCEPT ![l] = @ + f]
        /\ tokens' = tokens
    BY Zenon DEF LinkInject
  <1> HIDE DEF f
  <1>3. inOccupied' \in [Links -> Int] /\ extracted' \in [Links -> Nat]
    BY <1>1, <1>2 DEF FlowInv
  <1>4. TokensConserved'
    <2> SUFFICES ASSUME NEW x \in Links \ CpuLinks
                 PROVE  tokens'[x] + inOccupied'[Peer[x]] + extracted'[Peer[x]] = BufferMax
      BY Zenon DEF TokensConserved
    <2>1. /\ Peer[x] \in Links
          /\ tokens[x] + inOccupied[Peer[x]] + extracted[Peer[x]] = BufferMax
      BY LinkAssumption, Zenon DEF FlowInv, TokensConserved
    <2> QED BY <2>1, <1>1, <1>2 DEF FlowInv
  <1> QED BY <1>2, <1>3, <1>4 DEF FlowInv

(* A request of the processor enters the input buffer of a link that no    *)
(* stack is at the other end of.                                           *)
LEMMA SendHostKeeps ==
  ASSUME FlowInv, NEW req, CpuRoute[StackOf[req.vault]] \in CpuLinks, SendHost(req)
  PROVE  FlowInv'
  <1> DEFINE l == CpuRoute[StackOf[req.vault]]
             f == Flits([type |-> "REQUEST", req |-> req, slid |-> l, hops |-> 0])
  <1>1. f \in Nat
    BY FlitsPositive, Zenon
  <1>2. /\ inOccupied' = inOccupied \/ inOccupied' = [inOccupied EXCEPT ![l] = @ + f]
        /\ extracted' = extracted /\ tokens' = tokens
    BY Zenon DEF SendHost, linkVars
  <1>3. l \in CpuLinks
    OBVIOUS
  <1> HIDE DEF f, l
  <1>4. \A x \in Links \ CpuLinks : inOccupied'[x] = inOccupied[x]
    BY <1>1, <1>2, <1>3, LinkAssumption, Zenon DEF FlowInv
  <1>5. inOccupied' \in [Links -> Int]
    BY <1>1, <1>2, <1>3, LinkAssumption DEF FlowInv
  <1> QED BY <1>2, <1>4, <1>5, LinkAssumption DEF FlowInv, TokensConserved

(* Whatever moves none of the three counters keeps the invariant. *)
LEMMA FlowStutter ==
  ASSUME FlowInv, UNCHANGED flowVars PROVE FlowInv'
  BY Zenon DEF FlowInv, TokensConserved, flowVars

(* The numbered request of a kind has the kind's vault. *)
LEMMA EnqueueKeeps ==
  ASSUME FlowInv, workload \in Workloads, NEW kind \in workload, Enqueue(kind) PROVE FlowInv'
  <1> DEFINE req == Numbered(kind)
  <1>1. CpuRoute[StackOf[req.vault]] \in CpuLinks
    BY HostAssumption, Zenon DEF Numbered
  <1>2. CASE SendHost(req)
    <2> HIDE DEF req
    <2> QED BY <1>1, <1>2, SendHostKeeps
  <1>3. CASE SendPim(req)
    <2>1. UNCHANGED linkVars
      BY <1>3, Zenon DEF SendPim
    <2> QED BY <2>1, FlowStutter DEF linkVars, flowVars
  <1> QED BY <1>2, <1>3 DEF Enqueue

(* Every step keeps the invariant. *)
LEMMA FlowNext ==
  ASSUME FlowInv, workload \in Workloads, [NetworkNext]_networkVars
  PROVE  FlowInv' /\ workload' \in Workloads
  <1>1. CASE UNCHANGED networkVars
    <2>1. UNCHANGED linkVars /\ UNCHANGED workload
      BY <1>1, Zenon DEF networkVars
    <2> QED BY <2>1, FlowStutter DEF linkVars, flowVars
  <1>2. CASE NetworkNext
    <2>1. workload' = workload
      BY <1>2, Zenon DEF NetworkNext
    <2>2. ASSUME NEW kind \in workload, Enqueue(kind) PROVE FlowInv'
      BY <2>2, EnqueueKeeps, Zenon
    <2>3. ASSUME NEW l \in Links, LinkTick(l) PROVE FlowInv'
      BY <2>3, SendPacketKeeps, SendTokensKeeps, Zenon DEF LinkTick
    <2>4. ASSUME NEW l \in Links, LinkEject(l) PROVE FlowInv'
      <3>1. UNCHANGED flowVars
        BY <2>4, Zenon DEF LinkEject, Buffer, flowVars
      <3> QED BY <3>1, FlowStutter
    <2>5. ASSUME NEW l \in Links, LinkInject(l) PROVE FlowInv'
      BY <2>5, LinkInjectKeeps, Zenon
    <2>6. ASSUME NEW v \in Vaults, VaultEject(v) PROVE FlowInv'
      <3>1. UNCHANGED flowVars
        BY <2>6, Zenon DEF VaultEject, linkVars, flowVars
      <3> QED BY <3>1, FlowStutter
    <2>7. ASSUME NEW v \in Vaults, VaultInject(v) PROVE FlowInv'
      <3>1. UNCHANGED flowVars
        BY <2>7, Zenon DEF VaultInject, Buffer, linkVars, flowVars
      <3> QED BY <3>1, FlowStutter
    <2>8. ASSUME NEW v \in Vaults, VaultServe(v) \/ VaultIssue(v) \/ VaultWait(v)
          PROVE  FlowInv'
      <3>1. UNCHANGED flowVars
        BY <2>8, Zenon DEF VaultServe, VaultIssue, VaultWait, VaultTick, linkVars,
           flowVars
      <3> QED BY <3>1, FlowStutter
    <2>9. ASSUME NEW d \in Ports, Transfer(d) PROVE FlowInv'
      <3>1. UNCHANGED flowVars
        BY <2>9, Zenon DEF Transfer, linkVars, flowVars
      <3> QED BY <3>1, FlowStutter
    <2> QED
      BY <1>2, <2>1, <2>2, <2>3, <2>4, <2>5, <2>6, <2>7, <2>8, <2>9, Zenon DEF
         NetworkNext
  <1> QED BY <1>1, <1>2

(* For every topology, routing, traffic and buffer size up to 32 flits:    *)
(* the tokens of LinkMaster, the flits in the LinkSlave at the other end   *)
(* and the tokens it has not returned always make up its buffer.           *)
THEOREM FlowControl == NetworkSpec => []TokensConserved
  <1>1. NetworkInit => FlowInv /\ workload \in Workloads
    BY FlowInit, Zenon DEF NetworkInit
  <1>2. FlowInv /\ workload \in Workloads /\ [NetworkNext]_networkVars
        => (FlowInv /\ workload \in Workloads)'
    BY FlowNext, Zenon
  <1>3. FlowInv => TokensConserved
    BY Zenon DEF FlowInv
  <1> QED BY <1>1, <1>2, <1>3, PTL DEF NetworkSpec

(* The assertion of LinkMaster::send(): a packet it has the tokens for     *)
(* fits the input buffer at the other end.                                 *)
SendFits ==
    \A l \in Links \ CpuLinks :
        CanSend(l) => Flits(Head(output[l])) <= BufferMax - inOccupied[Peer[l]]

(* LinkMaster::send() never meets a full buffer at the other end, though   *)
(* it looks only at its own count of tokens.                               *)
THEOREM SendAssertion == NetworkSpec => []SendFits
  <1>1. NetworkInit => FlowInv /\ workload \in Workloads
    BY FlowInit, Zenon DEF NetworkInit
  <1>2. FlowInv /\ workload \in Workloads /\ [NetworkNext]_networkVars
        => (FlowInv /\ workload \in Workloads)'
    BY FlowNext, Zenon
  <1>3. FlowInv => SendFits
    <2> SUFFICES ASSUME FlowInv, NEW l \in Links \ CpuLinks, CanSend(l)
                 PROVE  Flits(Head(output[l])) <= BufferMax - inOccupied[Peer[l]]
      BY Zenon DEF SendFits
    <2>1. Flits(Head(output[l])) \in Nat /\ Flits(Head(output[l])) <= tokens[l]
      BY FlitsPositive, Zenon DEF CanSend
    <2>2. tokens[l] + inOccupied[Peer[l]] + extracted[Peer[l]] = BufferMax
      BY Zenon DEF FlowInv, TokensConserved
    <2>3. tokens[l] \in Int /\ inOccupied[Peer[l]] \in Int /\ extracted[Peer[l]] \in Nat
      BY LinkAssumption, Zenon DEF FlowInv
    <2> QED BY <2>1, <2>2, <2>3, FlitAssumption
  <1> QED BY <1>1, <1>2, <1>3, PTL DEF NetworkSpec

-----------------------------------------------------------------------------
(* The steps of a walk that hold the page table's lock, and those of them   *)
(* between the page fault and the new mapping.                              *)
Faulting == {"fault", "shoot", "invalidate", "erase", "erase_pa", "release", "map"}
Locking == Faulting \cup {"unlock"}
Labels == Locking \cup {"idle", "hit", "miss", "insert", "panic"}

WalkTypes ==
    /\ mode \in Modes
    /\ running \in [Cores -> Procs]
    /\ pc \in [Cores -> Labels]
    /\ vpn \in [Cores -> VirtualPages \cup {None}]
    /\ DOMAIN page = Cores
    /\ table_lock \in [Procs -> Cores \cup {None}]
    /\ DOMAIN tables = Procs /\ DOMAIN ptes = Procs

(* The lock is held by the core whose walk is past it, so two walks of one  *)
(* table never overlap; the page a fault is about is not mapped; and the    *)
(* tables that lead to a mapped page exist.                                 *)
WalkInv ==
    /\ WalkTypes
    /\ \A c \in Cores : pc[c] \in Locking => table_lock[running[c]] = c
    /\ \A c \in Cores : pc[c] \in Faulting => vpn[c] \notin DOMAIN ptes[running[c]]
    /\ \A p \in Procs : \A v \in DOMAIN ptes[p] : TablesOf(v) \subseteq DOMAIN tables[p]

(* The constructors leave every page table unlocked and with no page. *)
LEMMA WalkInit == Init => WalkInv
<1> SUFFICES ASSUME Init PROVE WalkInv
  OBVIOUS
<1>1. WalkTypes
  BY Zenon DEF Init, WalkTypes, Labels
<1>2. \A p \in Procs : DOMAIN ptes[p] = {}
  BY Zenon DEF Init, NoMap
<1> QED
  BY <1>1, <1>2, Zenon DEF Init, WalkInv, Locking, Faulting

(* A step of a core that stays at the lock it has, or has none before and   *)
(* after, and changes no table, keeps what is said of the others.           *)
LEMMA WalkKept ==
    ASSUME WalkInv, NEW c \in Cores,
           pc' = [pc EXCEPT ![c] = pc'[c]], pc'[c] \in Labels,
           mode' = mode, running' = running, DOMAIN page' = Cores,
           vpn' \in [Cores -> VirtualPages \cup {None}],
           \A d \in Cores \ {c} : vpn'[d] = vpn[d],
           table_lock' = table_lock, tables' = tables, ptes' = ptes,
           pc'[c] \in Locking => pc[c] \in Locking,
           pc'[c] \in Faulting => pc[c] \in Faulting /\ vpn'[c] = vpn[c]
    PROVE  WalkInv'
<1>1. WalkTypes'
  BY Zenon DEF WalkInv, WalkTypes
<1>2. \A d \in Cores : pc'[d] \in Locking => table_lock'[running'[d]] = d
  BY Zenon DEF WalkInv, WalkTypes
<1>3. \A d \in Cores : pc'[d] \in Faulting => vpn'[d] \notin DOMAIN ptes'[running'[d]]
  BY Zenon DEF WalkInv, WalkTypes
<1>4. \A p \in Procs : \A v \in DOMAIN ptes'[p] : TablesOf(v) \subseteq DOMAIN tables'[p]
  BY Zenon DEF WalkInv, WalkTypes
<1> QED
  BY <1>1, <1>2, <1>3, <1>4, Zenon DEF WalkInv, TablesOf

(* Every step keeps the invariant: the page table's lock is what keeps two  *)
(* walks of one table apart, from the lookup to the new mapping.            *)
LEMMA WalkStep == WalkInv /\ [Next]_vars => WalkInv'
<1> SUFFICES ASSUME WalkInv, [Next]_vars PROVE WalkInv'
  OBVIOUS
<1> USE TranslationAssumption DEF WalkTypes, Goto, tlbVars, pagingVars, buddyVars
<1>1. ASSUME NEW c \in Cores, NEW t \in AllTlbs, NEW p \in Procs,
             NEW v \in mode.uses[p], Access(c, t, v)
      PROVE  WalkInv'
  <2>1. v \in VirtualPages
    BY <1>1 DEF WalkInv
  <2>2. pc'[c] \in {"hit", "miss"} /\ pc' = [pc EXCEPT ![c] = pc'[c]]
    BY <1>1, Zenon DEF Access, WalkInv
  <2>3. /\ vpn' \in [Cores -> VirtualPages \cup {None}]
        /\ \A d \in Cores \ {c} : vpn'[d] = vpn[d]
    BY <1>1, <2>1, Zenon DEF Access, WalkInv
  <2>4. /\ mode' = mode /\ running' = running /\ DOMAIN page' = Cores
        /\ table_lock' = table_lock /\ tables' = tables /\ ptes' = ptes
    BY <1>1, Zenon DEF Access, WalkInv
  <2> QED
    BY <2>2, <2>3, <2>4, WalkKept, Zenon DEF Labels, Locking, Faulting
<1>2. ASSUME NEW c \in Cores, NEW p \in Procs, Switch(c, p)
      PROVE  WalkInv'
  <2>1. /\ running' = [running EXCEPT ![c] = p] /\ pc[c] = "idle"
        /\ UNCHANGED <<mode, pc, vpn, table_lock, tables, ptes>> /\ DOMAIN page' = Cores
    BY <1>2, Zenon DEF Switch, WalkInv
  <2>2. WalkTypes'
    BY <2>1, Zenon DEF WalkInv
  <2>3. \A d \in Cores : pc[d] \in Locking => d # c
    BY <2>1, Zenon DEF Locking, Faulting
  <2> QED
    BY <2>1, <2>2, <2>3, Zenon DEF WalkInv, Locking, TablesOf
<1>3. ASSUME NEW c \in Cores, Hit(c) PROVE WalkInv'
  BY <1>3, WalkKept, Zenon DEF Hit, WalkInv, Labels, Locking, Faulting
<1>4. ASSUME NEW c \in Cores, Walk(c) PROVE WalkInv'
  <2> DEFINE p == running[c]
  <2>1. /\ p \in Procs /\ table_lock[p] = None
        /\ table_lock' = [table_lock EXCEPT ![p] = c]
        /\ UNCHANGED <<mode, running, vpn, tables, ptes>> /\ DOMAIN page' = Cores
        /\ pc'[c] \in {"unlock", "fault"} /\ pc' = [pc EXCEPT ![c] = pc'[c]]
    BY <1>4, Zenon DEF Walk, WalkInv
  <2>2. pc'[c] = "fault" => vpn[c] \notin DOMAIN ptes[p]
    <3> SUFFICES ASSUME pc'[c] = "fault", vpn[c] \in DOMAIN ptes[p] PROVE FALSE
      OBVIOUS
    <3>1. ~Mapped(p, vpn[c])
      BY <1>4, Zenon DEF Walk, WalkInv
    <3>2. TablesOf(vpn[c]) \subseteq DOMAIN tables[p]
      BY <2>1, Zenon DEF WalkInv
    <3> QED
      BY <3>1, <3>2, Zenon DEF Mapped, MissingTables
  <2>3. \A d \in Cores : pc[d] \in Locking => running[d] # p
    BY <2>1 DEF WalkInv
  <2>4. WalkTypes'
    BY <2>1 DEF WalkInv, Labels, Locking, Faulting
  <2>5. \A d \in Cores : pc'[d] \in Locking => table_lock'[running'[d]] = d
    BY <2>1, <2>3, Zenon DEF WalkInv
  <2>6. \A d \in Cores : pc'[d] \in Faulting => vpn'[d] \notin DOMAIN ptes'[running'[d]]
    BY <2>1, <2>2, Zenon DEF WalkInv, Faulting
  <2> QED
    BY <2>1, <2>4, <2>5, <2>6 DEF WalkInv, TablesOf
<1>5. ASSUME NEW c \in Cores, Fault(c) PROVE WalkInv'
  BY <1>5, WalkKept, Zenon DEF Fault, WalkInv, Labels, Locking, Faulting
<1>6. ASSUME NEW c \in Cores, Panic(c) PROVE WalkInv'
  BY <1>6, WalkKept, Zenon DEF Panic, WalkInv, Labels, Locking, Faulting
<1>7. ASSUME NEW c \in Cores, ShootLookup(c) PROVE WalkInv'
  <2>1. /\ pc[c] = "shoot" /\ pc'[c] \in {"shoot", "invalidate", "map"}
        /\ pc' = [pc EXCEPT ![c] = pc'[c]]
        /\ UNCHANGED <<mode, running, vpn, page, table_lock, tables, ptes>>
    BY <1>7, Zenon DEF ShootLookup, NextTarget, WalkInv
  <2> QED
    BY <2>1, WalkKept, Zenon DEF WalkInv, Labels, Locking, Faulting
<1>8. ASSUME NEW c \in Cores, ShootInvalidate(c) \/ ShootErase(c) \/ ShootErasePa(c)
      PROVE  WalkInv'
  BY <1>8, WalkKept, Zenon DEF ShootInvalidate, ShootErase, ShootErasePa, WalkInv,
     Labels, Locking, Faulting
<1>9. ASSUME NEW c \in Cores, ShootRelease(c) PROVE WalkInv'
  <2>1. /\ pc[c] = "release" /\ pc'[c] \in {"shoot", "map"}
        /\ pc' = [pc EXCEPT ![c] = pc'[c]]
        /\ UNCHANGED <<mode, running, vpn, page, table_lock, tables, ptes>>
    BY <1>9, Zenon DEF ShootRelease, NextTarget, WalkInv
  <2> QED
    BY <2>1, WalkKept, Zenon DEF WalkInv, Labels, Locking, Faulting
<1>10. ASSUME NEW c \in Cores, MapTable(c) PROVE WalkInv'
  <2> DEFINE p == running[c]
             top == TopMissing(p, vpn[c])
             added == With(tables[p], top, FirstPage(block_list))
  <2>1. tables' = [tables EXCEPT ![p] = added]
    BY <1>10, Zenon DEF MapTable, NewTable
  <2>2. UNCHANGED <<mode, running, pc, vpn, page, table_lock, ptes>>
    BY <1>10, Zenon DEF MapTable
  <2>3. DOMAIN tables[p] \subseteq DOMAIN added
    BY Zenon DEF With
  <2> QED
    BY <2>1, <2>2, <2>3, Zenon DEF WalkInv, TablesOf
<1>11. ASSUME NEW c \in Cores, MapPage(c) PROVE WalkInv'
  <2> DEFINE p == running[c]
             added == With(ptes[p], vpn[c], page[c])
  <2>1. /\ pc[c] = "map" /\ p \in Procs /\ MissingTables(p, vpn[c]) = {}
        /\ ptes' = [ptes EXCEPT ![p] = added]
        /\ UNCHANGED <<mode, running, vpn, page, table_lock, tables>>
        /\ pc' = [pc EXCEPT ![c] = "unlock"]
    BY <1>11, Zenon DEF MapPage, WalkInv
  <2>2. DOMAIN added = DOMAIN ptes[p] \cup {vpn[c]}
    BY Zenon DEF With
  <2>3. table_lock[p] = c
    BY <2>1, Zenon DEF WalkInv, Locking, Faulting
  <2>4. \A d \in Cores : d # c /\ pc[d] \in Faulting => running[d] # p
    BY <2>3, Zenon DEF WalkInv, Locking
  <2>5. WalkTypes'
    BY <2>1, Zenon DEF WalkInv, Labels, Locking
  <2>6. \A d \in Cores : pc'[d] \in Locking => table_lock'[running'[d]] = d
    BY <2>1, <2>3, Zenon DEF WalkInv
  <2>7. \A d \in Cores : pc'[d] \in Faulting => vpn'[d] \notin DOMAIN ptes'[running'[d]]
    BY <2>1, <2>4, Zenon DEF WalkInv, Faulting
  <2>8. TablesOf(vpn[c]) \subseteq DOMAIN tables[p]
    BY <2>1, Zenon DEF MissingTables
  <2>9. \A q \in Procs : \A v \in DOMAIN ptes'[q] : TablesOf(v) \subseteq DOMAIN tables'[q]
    BY <2>1, <2>2, <2>8, Zenon DEF WalkInv
  <2> QED
    BY <2>5, <2>6, <2>7, <2>9, Zenon DEF WalkInv, TablesOf
<1>12. ASSUME NEW c \in Cores, Unlock(c) PROVE WalkInv'
  <2>1. /\ pc[c] = "unlock" /\ running[c] \in Procs
        /\ table_lock' = [table_lock EXCEPT ![running[c]] = None]
        /\ UNCHANGED <<mode, running, vpn, page, tables, ptes>>
        /\ pc' = [pc EXCEPT ![c] = "insert"]
    BY <1>12, Zenon DEF Unlock, WalkInv
  <2>2. \A d \in Cores : d # c /\ pc[d] \in Locking => running[d] # running[c]
    BY <2>1, Zenon DEF WalkInv, Locking
  <2>3. "insert" \notin Locking /\ Faulting \subseteq Locking
    BY Zenon DEF Locking, Faulting
  <2>4. \A d \in Cores : pc'[d] \in Locking => table_lock'[running'[d]] = d
    BY <2>1, <2>2, <2>3, Zenon DEF WalkInv
  <2> QED
    BY <2>1, <2>3, <2>4 DEF WalkInv, Labels, TablesOf
<1>13. ASSUME NEW c \in Cores, Insert(c) PROVE WalkInv'
  BY <1>13, WalkKept, Zenon DEF Insert, WalkInv, Labels, Locking, Faulting
<1>14. CASE UNCHANGED vars
  BY <1>14, Zenon DEF vars, WalkInv, TablesOf
<1> QED
  BY <1>1, <1>2, <1>3, <1>4, <1>5, <1>6, <1>7, <1>8, <1>9, <1>10, <1>11, <1>12, <1>13,
     <1>14, Zenon DEF Next, Step

(* No step takes a mapping away or changes it. *)
Kept == \A p \in Procs : \A v \in DOMAIN ptes[p] :
            v \in DOMAIN ptes'[p] /\ ptes'[p][v] = ptes[p][v]

\* Whatever the cores do: a fault maps a page only where the table has none.
LEMMA MappingKept == WalkInv /\ Next => Kept
<1> SUFFICES ASSUME WalkInv, Next PROVE Kept
  OBVIOUS
<1> USE DEF Kept, tlbVars, pagingVars, buddyVars
<1>1. ASSUME NEW c \in Cores, MapPage(c) PROVE Kept
  <2>1. /\ vpn[c] \notin DOMAIN ptes[running[c]] /\ DOMAIN ptes = Procs
        /\ ptes' = [ptes EXCEPT ![running[c]] = With(@, vpn[c], page[c])]
    BY <1>1, Zenon DEF WalkInv, WalkTypes, MapPage, Faulting
  <2> QED
    BY <2>1, Zenon DEF With
<1>2. ASSUME NEW c \in Cores,
             \/ Hit(c) \/ Walk(c) \/ Fault(c) \/ Panic(c)
             \/ ShootLookup(c) \/ ShootInvalidate(c) \/ ShootErase(c) \/ ShootErasePa(c)
             \/ ShootRelease(c) \/ MapTable(c) \/ Unlock(c) \/ Insert(c)
      PROVE  ptes' = ptes
  BY <1>2, Zenon DEF Hit, Walk, Fault, Panic, ShootLookup, ShootInvalidate, ShootErase,
     ShootErasePa, ShootRelease, MapTable, Unlock, Insert
<1>3. ASSUME NEW c \in Cores,
             \/ \E t \in AllTlbs : \E p \in Procs : \E v \in mode.uses[p] : Access(c, t, v)
             \/ \E p \in Procs : Switch(c, p)
      PROVE  ptes' = ptes
  BY <1>3, Zenon DEF Access, Switch
<1> QED
  BY <1>1, <1>2, <1>3, Zenon DEF Next, Step

(* A mapped page stays where it is: do_page_fault() maps a page only when   *)
(* the walk that holds the table's lock did not find it.                    *)
THEOREM MappingIsStable == Spec => MappingStable
<1>1. WalkInv /\ [Next]_vars => [Kept]_vars
  BY MappingKept, Zenon
<1> QED
  BY <1>1, WalkInit, WalkStep, PTL DEF Spec, MappingStable, Kept
-----------------------------------------------------------------------------
(* The processes of different cores have no virtual page in common.  Without *)
(* this a shootdown for one process meets the TLB entries of another, and    *)
(* changes them without the TLB's lock.                                      *)
Apart ==
    \A m \in Modes : \A c, d \in Cores : \A p \in m.hosts[c] : \A q \in m.hosts[d] :
        c # d /\ p # q => m.uses[p] \cap m.uses[q] = {}

Own(t) == running[CoreOf[t]]
Slots == 1 .. mode.entries

TlbTypes ==
    /\ tlb \in [Cores -> AllTlbs \cup {None}]
    /\ DOMAIN slot = Cores /\ at \in [Cores -> Nat]
    /\ DOMAIN trie = AllTlbs /\ DOMAIN entry = AllTlbs
    /\ free \in [AllTlbs -> Seq(Slots)] /\ recent \in [AllTlbs -> Seq(Slots)]
    /\ \A t \in AllTlbs : DOMAIN entry[t] = Slots

(* The core has, or has returned, the page of a translation. *)
Resolved(c) ==
    \/ pc[c] \in {"unlock", "insert"}
    \/ pc[c] = "idle" /\ page[c] # None

(* What a core is at: a page of its process in a TLB of its own; a hit has   *)
(* the map's entry in hand; a finished walk has the page the table gives.    *)
CoreInv(c) ==
    /\ running[c] \in mode.hosts[c]
    /\ pc[c] \notin {"idle", "panic"} => /\ vpn[c] \in mode.uses[running[c]]
                                        /\ tlb[c] \in AllTlbs /\ CoreOf[tlb[c]] = c
    /\ pc[c] \notin {"invalidate", "erase", "erase_pa", "release"}
    /\ pc[c] = "shoot" => at[c] \in DOMAIN Tlbs
    /\ pc[c] = "hit" => /\ vpn[c] \in DOMAIN trie[tlb[c]]
                        /\ slot[c] = trie[tlb[c]][vpn[c]]
    /\ Resolved(c) =>
           /\ vpn[c] \in DOMAIN ptes[running[c]]
           /\ page[c] = ptes[running[c]][vpn[c]]

(* What a TLB holds: each page in the map is in its entry, with the place    *)
(* that the page table of the core's process gives it; an entry in use is    *)
(* not free, and one that is not free has been used.                         *)
TlbInv(t) ==
    /\ \A v \in DOMAIN trie[t] :
           /\ v \in mode.uses[Own(t)] /\ v \in DOMAIN ptes[Own(t)]
           /\ trie[t][v] \in Slots /\ trie[t][v] \notin ToSet(free[t])
           /\ entry[t][trie[t][v]].vpn = v
           /\ entry[t][trie[t][v]].ppn = ptes[Own(t)][v]
    /\ \A i, j \in DOMAIN free[t] : free[t][i] = free[t][j] => i = j
    /\ Slots \subseteq ToSet(free[t]) \cup ToSet(recent[t])

TranslationInv ==
    /\ WalkInv /\ TlbTypes
    /\ \A c \in Cores : CoreInv(c)
    /\ \A t \in AllTlbs : TlbInv(t)
-----------------------------------------------------------------------------
(* A set of naturals that is not empty has a least element, Min. *)
LEMMA LeastElement ==
    ASSUME NEW S, S \subseteq Nat, S # {}
    PROVE  Min(S) \in S /\ \A x \in S : Min(S) <= x
<1>1. \E x \in S : \A y \in S : ~(<<y, x>> \in OpToRel(<, Nat))
  BY WFMin, NatLessThanWellFounded, Zenon
<1>2. PICK x \in S : \A y \in S : ~(<<y, x>> \in OpToRel(<, Nat))
  BY <1>1, Zenon
<1>3. \A y \in S : ~(y < x)
  BY <1>2, Zenon DEF OpToRel
<1>4. \A y \in S : x <= y
  BY <1>3
<1> QED
  BY <1>4, Zenon DEF Min

(* Joining two sequences, and dropping the first element of one. *)
LEMMA Joined ==
    ASSUME NEW S, NEW a \in Seq(S), NEW b \in Seq(S)
    PROVE  a \o b \in Seq(S) /\ Len(a \o b) = Len(a) + Len(b)
  OBVIOUS

LEMMA Dropped ==
    ASSUME NEW S, NEW q \in Seq(S), q # <<>>
    PROVE  /\ Tail(q) \in Seq(S) /\ Len(Tail(q)) = Len(q) - 1
           /\ \A i \in 1 .. Len(q) - 1 : Tail(q)[i] = q[i + 1]
           /\ Head(q) = q[1] /\ q[1] \in S /\ Len(q) \in Nat \ {0}
           /\ DOMAIN q = 1 .. Len(q) /\ DOMAIN Tail(q) = 1 .. Len(q) - 1
  OBVIOUS

LEMMA EmptyOrder ==
    /\ ToSet(<<>>) = {} /\ DOMAIN <<>> = {}
    /\ \A S : <<>> \in Seq(S)
  BY DEF ToSet

(* Taking the first of some different entries leaves the others. *)
LEMMA DroppedEntry ==
    ASSUME NEW S, NEW q \in Seq(S), q # <<>>,
           \A i, j \in DOMAIN q : q[i] = q[j] => i = j
    PROVE  /\ Tail(q) \in Seq(S) /\ Head(q) \in ToSet(q)
           /\ ToSet(Tail(q)) \subseteq ToSet(q) /\ Head(q) \notin ToSet(Tail(q))
           /\ ToSet(q) \subseteq ToSet(Tail(q)) \cup {Head(q)}
           /\ \A i, j \in DOMAIN Tail(q) : Tail(q)[i] = Tail(q)[j] => i = j
<1>1. PICK n : n = Len(q)
  BY Zenon
<1>2. PICK r : r = Tail(q)
  BY Zenon
<1>3. /\ r \in Seq(S) /\ Head(q) = q[1] /\ n \in Nat \ {0}
      /\ DOMAIN q = 1 .. n /\ DOMAIN r = 1 .. n - 1
      /\ \A i \in 1 .. n - 1 : r[i] = q[i + 1]
  BY <1>1, <1>2, Dropped, Zenon
<1>4. ASSUME NEW i \in DOMAIN r
      PROVE  i \in Nat /\ i + 1 \in DOMAIN q /\ i + 1 # 1 /\ r[i] = q[i + 1]
  BY ONLY <1>3, <1>4
<1>5. ASSUME NEW i \in DOMAIN q, i # 1
      PROVE  i - 1 \in DOMAIN r /\ r[i - 1] = q[i]
  BY ONLY <1>3, <1>5
<1>6. 1 \in DOMAIN q
  BY ONLY <1>3
<1>7. ToSet(r) \subseteq ToSet(q) /\ Head(q) \in ToSet(q)
  BY <1>3, <1>4, <1>6 DEF ToSet
<1>8. Head(q) \notin ToSet(r)
  BY <1>3, <1>4, <1>6 DEF ToSet
<1>9. ToSet(q) \subseteq ToSet(r) \cup {Head(q)}
  BY <1>3, <1>5 DEF ToSet
<1>10. ASSUME NEW i \in DOMAIN r, NEW j \in DOMAIN r, r[i] = r[j] PROVE i = j
  <2>1. i \in Nat /\ j \in Nat /\ i + 1 = j + 1
    BY <1>4, <1>10, Zenon
  <2> QED
    BY ONLY <2>1
<1> QED
  BY <1>2, <1>3, <1>7, <1>8, <1>9, <1>10, Zenon

(* The entry to evict is one of those in the order of use. *)
LEMMA OldestEntry ==
    ASSUME NEW t, recent[t] \in Seq(Slots), 1 \in ToSet(recent[t])
    PROVE  Oldest(t) \in Slots
<1> DEFINE r == recent[t]
           I == {i \in 1 .. Len(r) : r[i] = 1 \/ entry[t][r[i]].valid}
<1>1. DOMAIN r = 1 .. Len(r) /\ Len(r) \in Nat /\ \A i \in 1 .. Len(r) : r[i] \in Slots
  OBVIOUS
<1>2. I \subseteq Nat
  BY <1>1
<1>3. I # {}
  BY <1>1, Zenon DEF ToSet
<1>4. Min(I) \in I
  BY <1>2, <1>3, LeastElement, Zenon
<1>5. r[Min(I)] \in Slots
  BY <1>1, <1>4, Zenon
<1> QED
  BY <1>5, Zenon DEF Oldest

(* The entry used last comes last; the others keep their places. *)
LEMMA UsedEntries ==
    ASSUME NEW S, NEW order \in Seq(S), NEW s \in S
    PROVE  /\ Used(order, s) \in Seq(S)
           /\ ToSet(order) \cup {s} \subseteq ToSet(Used(order, s))
<1> DEFINE I == {i \in 1 .. Len(order) : order[i] = s}
           n == Min(I)
           rest == RemoveFirst(order, s)
<1>1. rest \in Seq(S) /\ ToSet(order) \subseteq ToSet(rest) \cup {s}
  <2>1. CASE I = {}
    BY <2>1, Zenon DEF RemoveFirst
  <2>2. CASE I # {}
    <3>1. rest = SubSeq(order, 1, n - 1) \o SubSeq(order, n + 1, Len(order))
      BY <2>2, Zenon DEF RemoveFirst
    <3>2. n \in 1 .. Len(order) /\ order[n] = s
      <4>1. I \subseteq Nat
        OBVIOUS
      <4>2. n \in I
        BY <2>2, <4>1, LeastElement, Zenon
      <4> QED
        BY <4>2, Zenon
    <3> HIDE DEF n, I
    <3>3. rest \in Seq(S) /\ Len(rest) = Len(order) - 1
          /\ \A i \in 1 .. Len(order) - 1 :
                 rest[i] = IF i < n THEN order[i] ELSE order[i + 1]
      <4> DEFINE left == SubSeq(order, 1, n - 1)
                 right == SubSeq(order, n + 1, Len(order))
      <4>1. left \in Seq(S) /\ Len(left) = n - 1 /\ \A i \in 1 .. n - 1 : left[i] = order[i]
        BY <3>2
      <4>2. /\ right \in Seq(S) /\ Len(right) = Len(order) - n
            /\ \A i \in 1 .. Len(order) - n : right[i] = order[n + i]
        BY <3>2
      <4> HIDE DEF left, right
      <4>3. rest = left \o right
        BY <3>1, Zenon DEF left, right
      <4> HIDE DEF rest
      <4>4. rest \in Seq(S) /\ Len(rest) = Len(order) - 1
        <5>1. rest \in Seq(S) /\ Len(rest) = Len(left) + Len(right)
          BY <4>1, <4>2, <4>3, Joined, Zenon
        <5>2. Len(order) \in Nat /\ n \in Nat
          BY <3>2
        <5> QED
          BY <4>1, <4>2, <5>1, <5>2
      <4>5. ASSUME NEW i \in 1 .. Len(order) - 1
            PROVE  rest[i] = IF i < n THEN order[i] ELSE order[i + 1]
        <5>1. CASE i < n
          BY <3>2, <4>1, <4>2, <4>3, <5>1
        <5>2. CASE i >= n
          <6>1. i - (n - 1) \in 1 .. Len(order) - n
            BY <3>2, <5>2
          <6>2. rest[i] = right[i - (n - 1)]
            BY <3>2, <4>1, <4>2, <4>3, <5>2
          <6> QED
            BY <3>2, <4>2, <5>2, <6>1, <6>2
        <5> QED
          BY <5>1, <5>2, <3>2
      <4> QED
        BY <4>4, <4>5, Zenon
    <3>4. ASSUME NEW i \in 1 .. Len(order) PROVE order[i] \in ToSet(rest) \cup {s}
      <4>1. CASE i < n
        <5>1. i \in DOMAIN rest /\ rest[i] = order[i]
          BY <3>2, <3>3, <4>1
        <5> QED
          BY <5>1, Zenon DEF ToSet
      <4>2. CASE i = n
        BY <3>2, <4>2, Zenon
      <4>3. CASE i > n
        <5>1. i - 1 \in DOMAIN rest /\ rest[i - 1] = order[i]
          BY <3>2, <3>3, <4>3
        <5> QED
          BY <5>1, Zenon DEF ToSet
      <4> QED
        BY <4>1, <4>2, <4>3, <3>2
    <3> QED
      BY <3>3, <3>4 DEF ToSet
  <2> QED
    BY <2>1, <2>2, Zenon
<1>2. Append(rest, s) \in Seq(S) /\ ToSet(Append(rest, s)) = ToSet(rest) \cup {s}
  <2>1. \A i \in DOMAIN rest : Append(rest, s)[i] = rest[i]
    BY <1>1
  <2>2. DOMAIN Append(rest, s) = DOMAIN rest \cup {Len(rest) + 1}
    BY <1>1
  <2>3. Append(rest, s)[Len(rest) + 1] = s
    BY <1>1
  <2> QED
    BY <1>1, <2>1, <2>2, <2>3 DEF ToSet
<1> QED
  BY <1>1, <1>2, Zenon DEF Used

(* What is said of a core depends on its own state, on the maps of its TLBs  *)
(* and on mappings that exist.                                               *)
LEMMA OtherCore ==
    ASSUME TranslationInv, Kept, NEW d \in Cores, mode' = mode,
           UNCHANGED <<running[d], pc[d], vpn[d], tlb[d], slot[d], at[d], page[d]>>,
           \A t \in AllTlbs : CoreOf[t] = d => trie'[t] = trie[t]
    PROVE  CoreInv(d)'
<1>1. running[d] \in Procs
  BY Zenon DEF TranslationInv, WalkInv, WalkTypes
<1>2. CoreInv(d)
  BY Zenon DEF TranslationInv
<1>3. pc[d] = "hit" => trie'[tlb[d]] = trie[tlb[d]]
  BY <1>2, Zenon DEF CoreInv
<1>4. Resolved(d)' <=> Resolved(d)
  BY Zenon DEF Resolved
<1>5. Resolved(d)' => /\ vpn'[d] \in DOMAIN ptes'[running'[d]]
                      /\ page'[d] = ptes'[running'[d]][vpn'[d]]
  BY <1>1, <1>2, <1>4, Zenon DEF CoreInv, Kept
<1> QED
  BY <1>2, <1>3, <1>5, Zenon DEF CoreInv

(* What is said of a TLB depends on its own state and its core's process. *)
LEMMA SameTlb ==
    ASSUME TranslationInv, Kept, NEW t \in AllTlbs, mode' = mode,
           running'[CoreOf[t]] = running[CoreOf[t]],
           UNCHANGED <<trie[t], entry[t], free[t]>>,
           ToSet(recent[t]) \subseteq ToSet(recent'[t])
    PROVE  TlbInv(t)'
<1>1. Own(t) \in Procs /\ Own(t)' = Own(t)
  BY TranslationAssumption, Zenon DEF TranslationInv, WalkInv, WalkTypes, Own
<1>2. TlbInv(t)
  BY Zenon DEF TranslationInv
<1>3. \A v \in DOMAIN trie[t] : v \in DOMAIN ptes'[Own(t)] /\ ptes'[Own(t)][v] = ptes[Own(t)][v]
  BY <1>1, <1>2, Zenon DEF TlbInv, Kept
<1> QED
  BY <1>1, <1>2, <1>3 DEF TlbInv, Slots, ToSet

(* A step of core c that changes no TLB, except for the order of use. *)
LEMMA CoreStep ==
    ASSUME TranslationInv, Kept, WalkInv', TlbTypes', NEW c \in Cores, CoreInv(c)',
           mode' = mode, running' = running,
           \A d \in Cores \ {c} :
               UNCHANGED <<pc[d], vpn[d], tlb[d], slot[d], at[d], page[d]>>,
           trie' = trie, entry' = entry, free' = free,
           \A t \in AllTlbs : ToSet(recent[t]) \subseteq ToSet(recent'[t])
    PROVE  TranslationInv'
<1>1. \A d \in Cores \ {c} : CoreInv(d)'
  BY OtherCore, Zenon
<1>2. \A t \in AllTlbs : TlbInv(t)'
  BY SameTlb, Zenon
<1> QED
  BY <1>1, <1>2, Zenon DEF TranslationInv

(* look_up() moves a valid entry to the end of the order. *)
LEMMA TouchedOrder ==
    ASSUME TranslationInv, NEW t \in AllTlbs, NEW v, recent' = Touched(t, v)
    PROVE  /\ recent' \in [AllTlbs -> Seq(Slots)]
           /\ \A u \in AllTlbs : ToSet(recent[u]) \subseteq ToSet(recent'[u])
<1>1. CASE v \in DOMAIN trie[t] /\ entry[t][trie[t][v]].valid
  <2>1. recent' = [recent EXCEPT ![t] = Used(recent[t], trie[t][v])]
    BY <1>1, Zenon DEF Touched
  <2>2. trie[t][v] \in Slots /\ recent \in [AllTlbs -> Seq(Slots)]
    BY <1>1, Zenon DEF TranslationInv, TlbInv, TlbTypes
  <2>3. /\ Used(recent[t], trie[t][v]) \in Seq(Slots)
        /\ ToSet(recent[t]) \subseteq ToSet(Used(recent[t], trie[t][v]))
    BY <2>2, UsedEntries, Zenon
  <2> QED
    BY <2>1, <2>2, <2>3, Zenon
<1>2. CASE ~(v \in DOMAIN trie[t] /\ entry[t][trie[t][v]].valid)
  BY <1>2, Zenon DEF Touched, TranslationInv, TlbTypes
<1> QED
  BY <1>1, <1>2, Zenon

(* A page that is being mapped is in no TLB: it is not mapped for its own    *)
(* process, and the pages of the processes elsewhere are others.             *)
LEMMA NothingToShoot ==
    ASSUME Apart, TranslationInv, NEW c \in Cores, pc[c] = "shoot", NEW t \in AllTlbs
    PROVE  vpn[c] \notin DOMAIN trie[t]
<1> SUFFICES ASSUME vpn[c] \in DOMAIN trie[t] PROVE FALSE
  OBVIOUS
<1> DEFINE d == CoreOf[t]
<1>1. d \in Cores /\ mode \in Modes
  BY TranslationAssumption, Zenon DEF TranslationInv, WalkInv, WalkTypes
<1>2. /\ running[c] \in mode.hosts[c] /\ running[d] \in mode.hosts[d]
      /\ vpn[c] \in mode.uses[running[c]]
  BY <1>1, Zenon DEF TranslationInv, CoreInv
<1>3. vpn[c] \in mode.uses[running[d]] /\ vpn[c] \in DOMAIN ptes[running[d]]
  BY Zenon DEF TranslationInv, TlbInv, Own
<1>4. vpn[c] \notin DOMAIN ptes[running[c]]
  BY Zenon DEF TranslationInv, WalkInv, Faulting
<1>5. c # d /\ running[c] # running[d]
  BY <1>3, <1>4, Zenon
<1> QED
  BY <1>1, <1>2, <1>3, <1>5 DEF Apart

(* At first no core has a page, and every entry is free. *)
LEMMA TranslationInit == Init => TranslationInv
<1> SUFFICES ASSUME Init PROVE TranslationInv
  OBVIOUS
<1>1. mode.entries \in Nat
  BY TranslationAssumption, Zenon DEF Init
<1>2. [s \in Slots |-> s] \in Seq(Slots) /\ <<>> \in Seq(Slots)
  BY <1>1 DEF Slots
<1>3. TlbTypes
  BY <1>2, Zenon DEF Init, TlbTypes, Slots
<1>4. \A c \in Cores : CoreInv(c)
  BY Zenon DEF Init, CoreInv, Resolved
<1>5. ASSUME NEW t \in AllTlbs PROVE TlbInv(t)
  <2>1. DOMAIN trie[t] = {} /\ free[t] = [s \in Slots |-> s]
    BY Zenon DEF Init, NoMap, Slots
  <2>2. ToSet(free[t]) = Slots
    BY <2>1 DEF ToSet
  <2> QED
    BY <2>1, <2>2 DEF TlbInv
<1> QED
  BY <1>3, <1>4, <1>5, WalkInit, Zenon DEF TranslationInv

(* access(): a page of the core's process is looked up in a TLB of the core. *)
LEMMA AccessKeeps ==
    ASSUME TranslationInv, Kept, WalkInv', NEW c \in Cores, NEW t \in AllTlbs, NEW v,
           Access(c, t, v)
    PROVE  TranslationInv'
<1>0. /\ pc \in [Cores -> Labels] /\ vpn \in [Cores -> VirtualPages \cup {None}]
      /\ DOMAIN slot = Cores /\ tlb \in [Cores -> AllTlbs \cup {None}]
      /\ TlbTypes /\ CoreInv(c)
  BY Zenon DEF TranslationInv, WalkInv, WalkTypes, TlbTypes
<1>1. /\ mode' = mode /\ running' = running /\ page' = page /\ at' = at
      /\ trie' = trie /\ entry' = entry /\ free' = free
      /\ tlb' = [tlb EXCEPT ![c] = t] /\ vpn' = [vpn EXCEPT ![c] = v]
      /\ pc[c] = "idle" /\ v \in mode.uses[running[c]] /\ CoreOf[t] = c
  BY Zenon DEF Access
<1>2. /\ DOMAIN slot' = Cores /\ \A d \in Cores \ {c} : UNCHANGED <<pc[d], slot[d]>>
      /\ pc'[c] \in {"hit", "miss"}
      /\ pc'[c] = "hit" => v \in DOMAIN trie[t] /\ slot'[c] = trie[t][v]
  <2>1. CASE v \in DOMAIN trie[t]
    <3>1. slot' = [slot EXCEPT ![c] = trie[t][v]] /\ pc' = [pc EXCEPT ![c] = "hit"]
      BY <2>1, Zenon DEF Access, Goto
    <3> QED
      BY <1>0, <2>1, <3>1, Zenon
  <2>2. CASE v \notin DOMAIN trie[t]
    <3>1. slot' = slot /\ pc' = [pc EXCEPT ![c] = "miss"]
      BY <2>2, Zenon DEF Access, Goto
    <3> QED
      BY <1>0, <3>1, Zenon
  <2> QED
    BY <2>1, <2>2, Zenon
<1>3. /\ recent' \in [AllTlbs -> Seq(Slots)]
      /\ \A u \in AllTlbs : ToSet(recent[u]) \subseteq ToSet(recent'[u])
  BY TouchedOrder, Zenon DEF Access
<1>4. TlbTypes'
  BY <1>0, <1>1, <1>2, <1>3, Zenon DEF TlbTypes, Slots
<1>5. CoreInv(c)'
  BY <1>0, <1>1, <1>2, Zenon DEF CoreInv, Resolved
<1>6. \A d \in Cores \ {c} : UNCHANGED <<pc[d], vpn[d], tlb[d], slot[d], at[d], page[d]>>
  BY <1>0, <1>1, <1>2, Zenon
<1> QED
  BY <1>1, <1>3, <1>4, <1>5, <1>6, CoreStep, Zenon

(* Steps of a walk, and a hit, which change no TLB. *)
LEMMA WalkingKeeps ==
    ASSUME Apart, TranslationInv, Kept, WalkInv', NEW c \in Cores,
           \/ Hit(c) \/ Walk(c) \/ Fault(c) \/ Panic(c) \/ MapTable(c) \/ MapPage(c)
           \/ Unlock(c)
    PROVE  TranslationInv'
<1>0. /\ pc \in [Cores -> Labels] /\ running \in [Cores -> Procs] /\ DOMAIN page = Cores
      /\ at \in [Cores -> Nat] /\ DOMAIN ptes = Procs
      /\ TlbTypes /\ CoreInv(c) /\ \A t \in AllTlbs : TlbInv(t)
  BY Zenon DEF TranslationInv, WalkInv, WalkTypes, TlbTypes
<1>1. /\ mode' = mode /\ running' = running /\ vpn' = vpn /\ tlb' = tlb /\ slot' = slot
      /\ trie' = trie /\ entry' = entry /\ free' = free /\ recent' = recent
  BY Zenon DEF Hit, Walk, Fault, Panic, MapTable, MapPage, Unlock, tlbVars
<1>2. /\ at' \in [Cores -> Nat]
      /\ \A d \in Cores \ {c} : UNCHANGED <<pc[d], at[d], page[d]>>
  <2>1. CASE Fault(c)
    <3>1. /\ at' = [at EXCEPT ![c] = 1] /\ pc' = [pc EXCEPT ![c] = "shoot"]
          /\ \A d \in Cores \ {c} : UNCHANGED page[d]
      BY <1>0, <2>1, Zenon DEF Fault, Goto
    <3> QED
      BY <1>0, <3>1, Zenon
  <2>2. CASE Walk(c)
    BY <1>0, <2>2, Zenon DEF Walk, Goto
  <2>3. CASE Hit(c)
    BY <1>0, <2>3, Zenon DEF Hit, Goto
  <2>4. CASE Panic(c) \/ MapTable(c) \/ MapPage(c) \/ Unlock(c)
    BY <1>0, <2>4, Zenon DEF Panic, MapTable, MapPage, Unlock, Goto
  <2> QED
    BY <2>1, <2>2, <2>3, <2>4, Zenon
<1>3. TlbTypes'
  BY <1>0, <1>1, <1>2, Zenon DEF TlbTypes, Slots
<1>4. \A d \in Cores \ {c} : UNCHANGED <<pc[d], vpn[d], tlb[d], slot[d], at[d], page[d]>>
  BY <1>1, <1>2, Zenon
<1>5. CoreInv(c)'
  <2>1. CASE Hit(c)
    <3>1. /\ pc[c] = "hit" /\ pc'[c] = "idle" /\ ptes' = ptes
          /\ page'[c] = entry[tlb[c]][slot[c]].ppn
      BY <1>0, <2>1, Zenon DEF Hit, Goto, pagingVars
    <3>2. /\ tlb[c] \in AllTlbs /\ CoreOf[tlb[c]] = c
          /\ vpn[c] \in DOMAIN trie[tlb[c]] /\ slot[c] = trie[tlb[c]][vpn[c]]
      BY <1>0, <3>1, Zenon DEF CoreInv
    <3>3. /\ vpn[c] \in DOMAIN ptes[running[c]]
          /\ page'[c] = ptes[running[c]][vpn[c]]
      <4>1. TlbInv(tlb[c]) /\ Own(tlb[c]) = running[c]
        BY <1>0, <3>2, Zenon DEF Own
      <4>2. /\ vpn[c] \in DOMAIN ptes[running[c]]
            /\ entry[tlb[c]][trie[tlb[c]][vpn[c]]].ppn = ptes[running[c]][vpn[c]]
        BY <3>2, <4>1, Zenon DEF TlbInv
      <4> QED
        BY <3>1, <3>2, <4>2, Zenon
    <3> QED
      BY <1>0, <1>1, <3>1, <3>3, Zenon DEF CoreInv, Resolved
  <2>2. CASE Walk(c)
    <3>1. /\ pc[c] = "miss" /\ pc'[c] \in {"unlock", "fault"} /\ ptes' = ptes
          /\ pc'[c] = "unlock" => /\ vpn[c] \in DOMAIN ptes[running[c]]
                                  /\ page'[c] = ptes[running[c]][vpn[c]]
      BY <1>0, <2>2, Zenon DEF Walk, Mapped, Goto, pagingVars
    <3> QED
      BY <1>0, <1>1, <3>1, Zenon DEF CoreInv, Resolved
  <2>3. CASE Fault(c)
    <3>1. pc[c] = "fault" /\ pc'[c] = "shoot" /\ at'[c] = 1
      BY <1>0, <2>3, Zenon DEF Fault, Goto
    <3>2. 1 \in DOMAIN Tlbs
      <4>1. tlb[c] \in AllTlbs
        BY <1>0, <3>1, Zenon DEF CoreInv
      <4> QED
        BY <4>1, TranslationAssumption DEF AllTlbs, ToSet
    <3> QED
      BY <1>0, <1>1, <3>1, <3>2, Zenon DEF CoreInv, Resolved
  <2>4. CASE Panic(c)
    BY <1>0, <1>1, <2>4, Zenon DEF Panic, Goto, CoreInv, Resolved
  <2>5. CASE MapTable(c)
    <3>1. pc[c] = "map" /\ pc'[c] = "map"
      BY <1>0, <2>5, Zenon DEF MapTable, Goto
    <3> QED
      BY <1>0, <1>1, <3>1, Zenon DEF CoreInv, Resolved
  <2>6. CASE MapPage(c)
    <3>1. /\ pc[c] = "map" /\ pc'[c] = "unlock" /\ page'[c] = page[c]
          /\ ptes' = [ptes EXCEPT ![running[c]] = With(@, vpn[c], page[c])]
      BY <1>0, <2>6, Zenon DEF MapPage, Goto
    <3>2. vpn[c] \in DOMAIN ptes'[running[c]] /\ ptes'[running[c]][vpn[c]] = page[c]
      BY <1>0, <3>1, Zenon DEF With
    <3> QED
      BY <1>0, <1>1, <3>1, <3>2, Zenon DEF CoreInv, Resolved
  <2>7. CASE Unlock(c)
    <3>1. /\ pc[c] = "unlock" /\ pc'[c] = "insert" /\ page'[c] = page[c]
          /\ ptes' = ptes
      BY <1>0, <2>7, Zenon DEF Unlock, Goto, pagingVars
    <3> QED
      BY <1>0, <1>1, <3>1, Zenon DEF CoreInv, Resolved
  <2> QED
    BY <2>1, <2>2, <2>3, <2>4, <2>5, <2>6, <2>7, Zenon
<1> QED
  BY <1>1, <1>3, <1>4, <1>5, CoreStep, Zenon

(* tlb_shootdown() finds the page in no TLB. *)
LEMMA ShootKeeps ==
    ASSUME Apart, TranslationInv, Kept, WalkInv', NEW c \in Cores, ShootLookup(c)
    PROVE  TranslationInv'
<1>0. /\ pc \in [Cores -> Labels] /\ at \in [Cores -> Nat] /\ TlbTypes /\ CoreInv(c)
  BY Zenon DEF TranslationInv, WalkInv, WalkTypes, TlbTypes
<1>1. pc[c] = "shoot" /\ at[c] \in DOMAIN Tlbs /\ Target(c) \in AllTlbs
  <2>1. pc[c] = "shoot"
    BY Zenon DEF ShootLookup
  <2>2. at[c] \in DOMAIN Tlbs
    BY <1>0, <2>1, Zenon DEF CoreInv
  <2> QED
    BY <2>1, <2>2, Zenon DEF Target, AllTlbs, ToSet
<1>2. vpn[c] \notin DOMAIN trie[Target(c)]
  BY <1>1, NothingToShoot, Zenon
<1>3. /\ mode' = mode /\ running' = running /\ vpn' = vpn /\ tlb' = tlb /\ slot' = slot
      /\ page' = page /\ trie' = trie /\ entry' = entry /\ free' = free /\ ptes' = ptes
      /\ at' = [at EXCEPT ![c] = @ + 1]
      /\ pc' = [pc EXCEPT ![c] = IF at[c] = Len(Tlbs) THEN "map" ELSE "shoot"]
  BY <1>0, <1>2, Zenon DEF ShootLookup, NextTarget, Goto, pagingVars, tlbVars
<1>4. /\ recent' \in [AllTlbs -> Seq(Slots)]
      /\ \A u \in AllTlbs : ToSet(recent[u]) \subseteq ToSet(recent'[u])
  BY <1>1, TouchedOrder, Zenon DEF ShootLookup
<1>5. TlbTypes'
  BY <1>0, <1>3, <1>4 DEF TlbTypes, Slots
<1>6. pc'[c] = "shoot" => at'[c] \in DOMAIN Tlbs
  BY <1>0, <1>1, <1>3, TranslationAssumption
<1>7. CoreInv(c)'
  <2>1. pc'[c] \in {"map", "shoot"}
    BY <1>0, <1>3, Zenon
  <2> QED
    BY <1>0, <1>1, <1>3, <1>6, <2>1, Zenon DEF CoreInv, Resolved
<1>8. \A d \in Cores \ {c} : UNCHANGED <<pc[d], vpn[d], tlb[d], slot[d], at[d], page[d]>>
  BY <1>0, <1>3, Zenon
<1> QED
  BY <1>3, <1>4, <1>5, <1>7, <1>8, CoreStep, Zenon

(* insert() puts the page into an entry that the map no longer refers to:    *)
(* a free one, or the evicted one, whose page leaves the map.                *)
LEMMA InsertKeeps ==
    ASSUME TranslationInv, Kept, WalkInv', NEW c \in Cores, Insert(c)
    PROVE  TranslationInv'
<1> DEFINE t == tlb[c]
           full == free[t] = <<>>
           s == IF full THEN Oldest(t) ELSE Head(free[t])
           kept == IF full THEN Without(trie[t], entry[t][s].vpn) ELSE trie[t]
<1>1. /\ mode' = mode /\ running' = running /\ tlb' = tlb /\ vpn' = vpn /\ slot' = slot
      /\ at' = at /\ page' = page /\ ptes' = ptes
      /\ pc[c] = "insert" /\ pc' = [pc EXCEPT ![c] = "idle"]
      /\ free' = [free EXCEPT ![t] = IF full THEN <<>> ELSE Tail(@)]
      /\ entry' = [entry EXCEPT ![t][s] = [vpn |-> vpn[c], ppn |-> page[c], valid |-> TRUE]]
      /\ trie' = [trie EXCEPT ![t] = With(kept, vpn[c], s)]
      /\ recent' = [recent EXCEPT ![t] = Used(@, s)]
  BY Zenon DEF Insert, Goto, pagingVars
<1>0. /\ pc \in [Cores -> Labels] /\ running \in [Cores -> Procs] /\ mode \in Modes
      /\ TlbTypes /\ CoreInv(c) /\ \A u \in AllTlbs : TlbInv(u)
  BY Zenon DEF TranslationInv, WalkInv, WalkTypes
<1>2. t \in AllTlbs /\ CoreOf[t] = c /\ vpn[c] \in mode.uses[running[c]]
  BY <1>0, <1>1, Zenon DEF CoreInv
<1>3. vpn[c] \in DOMAIN ptes[running[c]] /\ page[c] = ptes[running[c]][vpn[c]]
  BY <1>0, <1>1, Zenon DEF CoreInv, Resolved
<1>4. TlbInv(t) /\ free[t] \in Seq(Slots) /\ recent[t] \in Seq(Slots)
  BY <1>0, <1>2, Zenon DEF TlbTypes
<1>5. s \in Slots
  <2>1. CASE full
    <3>1. 1 \in Slots
      <4>1. mode \in Modes
        BY <1>0, Zenon
      <4> QED
        BY <4>1, TranslationAssumption DEF Slots
    <3>2. 1 \in ToSet(recent[t])
      BY <1>4, <2>1, <3>1, EmptyOrder, Zenon DEF TlbInv
    <3> QED
      BY <1>4, <2>1, <3>2, OldestEntry, Zenon
  <2>2. CASE ~full
    <3>1. s = Head(free[t])
      BY <2>2, Zenon
    <3> QED
      BY <1>4, <2>2, <3>1, Dropped, Zenon
  <2> QED
    BY <2>1, <2>2, Zenon
<1>6. /\ \A v \in DOMAIN kept : v \in DOMAIN trie[t] /\ kept[v] = trie[t][v]
      /\ \A v \in DOMAIN kept : kept[v] # s
  <2>1. CASE full
    <3>1. kept = [v \in DOMAIN trie[t] \ {entry[t][s].vpn} |-> trie[t][v]]
      BY <2>1, Zenon DEF Without
    <3>2. \A v \in DOMAIN trie[t] : trie[t][v] = s => v = entry[t][s].vpn
      BY <1>4, Zenon DEF TlbInv
    <3> HIDE DEF s, kept
    <3> QED
      BY <3>1, <3>2, Zenon
  <2>2. CASE ~full
    <3>1. s = Head(free[t])
      BY <2>2, Zenon
    <3>3. s \in ToSet(free[t])
      BY <1>4, <2>2, <3>1, DroppedEntry, Zenon DEF TlbInv
    <3>2. kept = trie[t]
      BY <2>2, Zenon
    <3> HIDE DEF s, kept
    <3> QED
      BY <1>4, <3>2, <3>3, Zenon DEF TlbInv
  <2> QED
    BY <2>1, <2>2, Zenon
<1>7. /\ free'[t] \in Seq(Slots) /\ ToSet(free'[t]) \subseteq ToSet(free[t])
      /\ s \notin ToSet(free'[t]) /\ ToSet(free[t]) \subseteq ToSet(free'[t]) \cup {s}
      /\ \A i, j \in DOMAIN free'[t] : free'[t][i] = free'[t][j] => i = j
  <2>1. CASE full
    <3>1. free'[t] = <<>> /\ free[t] = <<>>
      BY <1>0, <1>1, <1>2, <2>1, Zenon DEF TlbTypes
    <3> QED
      BY <3>1, EmptyOrder, Zenon
  <2>2. CASE ~full
    <3>1. free'[t] = Tail(free[t]) /\ s = Head(free[t])
      BY <1>0, <1>1, <1>2, <2>2, Zenon DEF TlbTypes
    <3>2. \A i, j \in DOMAIN free[t] : free[t][i] = free[t][j] => i = j
      BY <1>4, Zenon DEF TlbInv
    <3>3. /\ Tail(free[t]) \in Seq(Slots)
          /\ ToSet(Tail(free[t])) \subseteq ToSet(free[t])
          /\ Head(free[t]) \notin ToSet(Tail(free[t]))
          /\ ToSet(free[t]) \subseteq ToSet(Tail(free[t])) \cup {Head(free[t])}
          /\ \A i, j \in DOMAIN Tail(free[t]) : Tail(free[t])[i] = Tail(free[t])[j] => i = j
      BY <1>4, <2>2, <3>2, DroppedEntry, Zenon
    <3> HIDE DEF s
    <3> QED
      BY <3>1, <3>3, Zenon
  <2> QED
    BY <2>1, <2>2, Zenon
<1> HIDE DEF s, kept
<1>8. /\ recent'[t] \in Seq(Slots)
      /\ ToSet(recent[t]) \cup {s} \subseteq ToSet(recent'[t])
  <2>1. recent'[t] = Used(recent[t], s)
    BY <1>0, <1>1, <1>2, Zenon DEF TlbTypes
  <2> QED
    BY <1>4, <1>5, <2>1, UsedEntries, Zenon
<1>9. TlbTypes'
  <2>1. free' \in [AllTlbs -> Seq(Slots)] /\ recent' \in [AllTlbs -> Seq(Slots)]
    BY <1>0, <1>1, <1>2, <1>7, <1>8, Zenon DEF TlbTypes
  <2>2. DOMAIN entry' = AllTlbs /\ \A u \in AllTlbs : DOMAIN entry'[u] = Slots
    BY <1>0, <1>1, <1>2, Zenon DEF TlbTypes
  <2> QED
    BY <1>0, <1>1, <2>1, <2>2, Zenon DEF TlbTypes, Slots
<1>10. /\ entry'[t][s].vpn = vpn[c] /\ entry'[t][s].ppn = page[c]
       /\ \A u \in Slots \ {s} : entry'[t][u] = entry[t][u]
  BY <1>0, <1>1, <1>2, <1>5, Zenon DEF TlbTypes
<1>11. /\ DOMAIN trie'[t] = DOMAIN kept \cup {vpn[c]} /\ trie'[t][vpn[c]] = s
       /\ \A v \in DOMAIN kept : v # vpn[c] => trie'[t][v] = kept[v]
  BY <1>0, <1>1, <1>2, Zenon DEF With, TlbTypes
<1>12. Own(t)' = Own(t) /\ Own(t) = running[c] /\ Slots' = Slots
  BY <1>1, <1>2, Zenon DEF Own, Slots
<1>13. ASSUME NEW v \in DOMAIN trie'[t]
       PROVE  /\ v \in mode.uses[Own(t)] /\ v \in DOMAIN ptes[Own(t)]
              /\ trie'[t][v] \in Slots /\ trie'[t][v] \notin ToSet(free'[t])
              /\ entry'[t][trie'[t][v]].vpn = v
              /\ entry'[t][trie'[t][v]].ppn = ptes[Own(t)][v]
  <2>1. CASE v = vpn[c]
    BY <1>2, <1>3, <1>5, <1>7, <1>10, <1>11, <1>12, <2>1, Zenon
  <2>2. CASE v # vpn[c]
    <3>1. /\ v \in DOMAIN trie[t] /\ trie'[t][v] = trie[t][v] /\ trie[t][v] # s
      BY <1>6, <1>11, <2>2, Zenon
    <3>2. trie[t][v] \in Slots /\ entry'[t][trie[t][v]] = entry[t][trie[t][v]]
      BY <1>4, <1>10, <3>1, Zenon DEF TlbInv
    <3>3. /\ v \in mode.uses[Own(t)] /\ v \in DOMAIN ptes[Own(t)]
          /\ trie[t][v] \notin ToSet(free[t])
          /\ entry[t][trie[t][v]].vpn = v /\ entry[t][trie[t][v]].ppn = ptes[Own(t)][v]
      BY <1>4, <3>1, Zenon DEF TlbInv
    <3>4. trie[t][v] \notin ToSet(free'[t])
      BY <1>7, <3>3, Zenon
    <3> QED
      BY <3>1, <3>2, <3>3, <3>4, Zenon
  <2> QED
    BY <2>1, <2>2, Zenon
<1>14. Slots \subseteq ToSet(free'[t]) \cup ToSet(recent'[t])
  BY <1>4, <1>7, <1>8, Zenon DEF TlbInv
<1>15. ASSUME NEW u, u = t PROVE TlbInv(u)'
  <2>1. \A v \in DOMAIN trie'[u] :
            /\ v \in mode'.uses[Own(u)'] /\ v \in DOMAIN ptes'[Own(u)']
            /\ trie'[u][v] \in Slots' /\ trie'[u][v] \notin ToSet(free'[u])
            /\ entry'[u][trie'[u][v]].vpn = v
            /\ entry'[u][trie'[u][v]].ppn = ptes'[Own(u)'][v]
    <3>1. Own(u)' = Own(t)
      BY <1>1, <1>15, Zenon DEF Own
    <3> SUFFICES ASSUME NEW v \in DOMAIN trie'[u]
                 PROVE  /\ v \in mode'.uses[Own(u)'] /\ v \in DOMAIN ptes'[Own(u)']
                        /\ trie'[u][v] \in Slots' /\ trie'[u][v] \notin ToSet(free'[u])
                        /\ entry'[u][trie'[u][v]].vpn = v
                        /\ entry'[u][trie'[u][v]].ppn = ptes'[Own(u)'][v]
      BY Zenon
    <3>2. v \in DOMAIN trie'[t] /\ trie'[u][v] = trie'[t][v]
      BY <1>15, Zenon
    <3>3. /\ v \in mode.uses[Own(t)] /\ v \in DOMAIN ptes[Own(t)]
          /\ trie'[u][v] \in Slots /\ trie'[u][v] \notin ToSet(free'[t])
          /\ entry'[t][trie'[u][v]].vpn = v
          /\ entry'[t][trie'[u][v]].ppn = ptes[Own(t)][v]
      BY <1>13, <3>2, Zenon
    <3> QED
      BY <1>1, <1>12, <1>15, <3>1, <3>3, Zenon
  <2>2. Slots' \subseteq ToSet(free'[u]) \cup ToSet(recent'[u])
    BY <1>12, <1>14, <1>15, Zenon
  <2>3. \A i, j \in DOMAIN free'[u] : free'[u][i] = free'[u][j] => i = j
    BY <1>7, <1>15, Zenon
  <2> QED
    BY <2>1, <2>2, <2>3, Zenon DEF TlbInv
<1>16. \A u \in AllTlbs \ {t} : TlbInv(u)'
  <2>1. \A u \in AllTlbs \ {t} : UNCHANGED <<trie[u], entry[u], free[u], recent[u]>>
    BY <1>0, <1>1, Zenon DEF TlbTypes
  <2> QED
    BY <1>1, <2>1, SameTlb, Zenon
<1>17. CoreInv(c)'
  BY <1>0, <1>1, <1>3, Zenon DEF CoreInv, Resolved
<1>18. \A d \in Cores \ {c} : CoreInv(d)'
  <2>1. \A d \in Cores \ {c} :
            /\ UNCHANGED <<running[d], pc[d], vpn[d], tlb[d], slot[d], at[d], page[d]>>
            /\ \A u \in AllTlbs : CoreOf[u] = d => trie'[u] = trie[u]
    BY <1>0, <1>1, <1>2, Zenon DEF TlbTypes
  <2> QED
    BY <1>1, <2>1, OtherCore, Zenon
<1>19. /\ \A d \in Cores : CoreInv(d)'
       /\ \A u \in AllTlbs : TlbInv(u)'
  BY <1>1, <1>15, <1>16, <1>17, <1>18, Zenon
<1> QED
  BY <1>9, <1>19, Zenon DEF TranslationInv

(* setCid(): the TLBs of a core that changes its process are emptied. *)
LEMMA SwitchKeeps ==
    ASSUME TranslationInv, Kept, WalkInv', NEW c \in Cores, NEW p \in Procs, Switch(c, p)
    PROVE  TranslationInv'
<1>1. /\ mode' = mode /\ pc' = pc /\ tlb' = tlb /\ vpn' = vpn /\ slot' = slot /\ at' = at
      /\ ptes' = ptes /\ recent' = recent /\ pc[c] = "idle" /\ p \in mode.hosts[c]
      /\ running' = [running EXCEPT ![c] = p] /\ page' = [page EXCEPT ![c] = None]
      /\ trie' = [t \in AllTlbs |-> IF CoreOf[t] = c THEN NoMap ELSE trie[t]]
      /\ free' = [t \in AllTlbs |-> IF CoreOf[t] = c THEN [s \in Slots |-> s] ELSE free[t]]
      /\ entry' = [t \in AllTlbs |-> IF CoreOf[t] # c THEN entry[t]
                       ELSE [s \in Slots |-> [entry[t][s] EXCEPT !.valid = FALSE]]]
  BY Zenon DEF Switch, Flushed, Slots, pagingVars
<1>2. /\ pc \in [Cores -> Labels] /\ running \in [Cores -> Procs] /\ mode \in Modes
      /\ DOMAIN page = Cores /\ TlbTypes
      /\ \A d \in Cores : CoreInv(d)
  BY Zenon DEF TranslationInv, WalkInv, WalkTypes
<1>3. [s \in Slots |-> s] \in Seq(Slots)
  BY <1>2, TranslationAssumption DEF Slots
<1>4. TlbTypes'
  BY <1>1, <1>2, <1>3, Zenon DEF TlbTypes, Slots
<1>5. CoreInv(c)'
  BY <1>1, <1>2, Zenon DEF CoreInv, Resolved
<1>6. \A d \in Cores \ {c} : CoreInv(d)'
  <2>1. \A d \in Cores \ {c} :
            /\ UNCHANGED <<running[d], pc[d], vpn[d], tlb[d], slot[d], at[d], page[d]>>
            /\ \A u \in AllTlbs : CoreOf[u] = d => trie'[u] = trie[u]
    BY <1>1, <1>2, Zenon
  <2> QED
    BY <1>1, <2>1, OtherCore, Zenon
<1>7. ASSUME NEW t \in AllTlbs PROVE TlbInv(t)'
  <2>1. CASE CoreOf[t] = c
    <3>1. DOMAIN trie'[t] = {} /\ free'[t] = [s \in Slots |-> s] /\ Slots' = Slots
      BY <1>1, <2>1, Zenon DEF NoMap, Slots
    <3>2. ToSet(free'[t]) = Slots
      BY <3>1 DEF ToSet
    <3>3. \A i, j \in DOMAIN free'[t] : free'[t][i] = free'[t][j] => i = j
      BY <3>1
    <3>4. \A v \in DOMAIN trie'[t] : FALSE
      BY <3>1, Zenon
    <3>5. Slots' \subseteq ToSet(free'[t]) \cup ToSet(recent'[t])
      BY <3>1, <3>2, Zenon
    <3> QED
      BY <3>3, <3>4, <3>5, Zenon DEF TlbInv
  <2>2. CASE CoreOf[t] # c
    <3>1. /\ running'[CoreOf[t]] = running[CoreOf[t]]
          /\ UNCHANGED <<trie[t], entry[t], free[t], recent[t]>>
      BY <1>1, <1>2, <2>2, TranslationAssumption, Zenon
    <3> QED
      BY <1>1, <3>1, SameTlb, Zenon
  <2> QED
    BY <2>1, <2>2, Zenon
<1>8. \A d \in Cores : CoreInv(d)'
  BY <1>5, <1>6, Zenon
<1> QED
  BY <1>4, <1>7, <1>8, Zenon DEF TranslationInv

(* Every step keeps the invariant. *)
LEMMA TranslationStep ==
    ASSUME Apart, TranslationInv, [Next]_vars
    PROVE  TranslationInv'
<1>1. WalkInv'
  BY WalkStep, Zenon DEF TranslationInv
<1>2. CASE Next
  <2>1. Kept
    BY <1>2, MappingKept, Zenon DEF TranslationInv
  <2>2. ASSUME NEW c \in Cores, Step(c) PROVE TranslationInv'
    <3>1. CASE ShootInvalidate(c) \/ ShootErase(c) \/ ShootErasePa(c) \/ ShootRelease(c)
      BY <3>1, Zenon DEF ShootInvalidate, ShootErase, ShootErasePa, ShootRelease,
         TranslationInv, CoreInv
    <3> QED
      BY <1>1, <2>1, <2>2, <3>1, WalkingKeeps, ShootKeeps, InsertKeeps, Zenon DEF Step
  <2> QED
    BY <1>1, <1>2, <2>1, <2>2, AccessKeeps, SwitchKeeps, Zenon DEF Next
<1>3. CASE UNCHANGED vars
  <2>1. /\ UNCHANGED <<mode, running, pc, tlb, vpn, slot, at, page, trie, entry, free,
                       recent, ptes>>
    BY <1>3, Zenon DEF vars, tlbVars, pagingVars
  <2>2. TlbTypes'
    BY <2>1, Zenon DEF TranslationInv, TlbTypes, Slots
  <2>3. \A c \in Cores : CoreInv(c)'
    BY <2>1, Zenon DEF TranslationInv, CoreInv, Resolved
  <2>4. \A t \in AllTlbs : TlbInv(t)'
    <3> SUFFICES ASSUME NEW t \in AllTlbs PROVE TlbInv(t)'
      OBVIOUS
    <3>1. TlbInv(t)
      BY Zenon DEF TranslationInv
    <3> QED
      BY <2>1, <3>1, Zenon DEF TlbInv, Own, Slots
  <2> QED
    BY <1>1, <2>2, <2>3, <2>4, Zenon DEF TranslationInv
<1> QED
  BY <1>2, <1>3, Zenon

(* A translation returns the page that the process's page table gives,       *)
(* although a hit reads its entry after the TLB's lock is released, as long  *)
(* as processes on different cores have no virtual page in common.           *)
THEOREM TranslationIsRight ==
    ASSUME Apart
    PROVE  Spec => []TranslationRight
<1>1. TranslationInv => TranslationRight
  BY Zenon DEF TranslationInv, CoreInv, Resolved, TranslationRight
<1>2. TranslationInv /\ [Next]_vars => TranslationInv'
  BY TranslationStep, Zenon
<1> QED
  BY <1>1, <1>2, TranslationInit, PTL DEF Spec
=============================================================================
