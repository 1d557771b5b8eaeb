---------------------------- MODULE MemoryNetwork ----------------------------
(***************************************************************************)
(* The memory network of MultiPIM: stacks of vaults joined by serial links *)
(* (ramulator/LogicLayer.*, HMC_Memory.h), and the controller that issues  *)
(* the requests of the weave phase to it (ramulator_mem_ctrl.cpp).         *)
(*                                                                         *)
(* A stack has a switch with a port for every vault and link.  A link to   *)
(* another stack sends a packet only with tokens for its flits, which the  *)
(* other side returns when the packet leaves its input buffer.  Vaults and *)
(* links of one quadrant are joined without the switch.                    *)
(*                                                                         *)
(* A tick visits every port of every stack in a fixed order; here each     *)
(* visit is an action and they come in any order, so that the bandwidth    *)
(* limits (one packet per port and tick, link clocks) do not matter.  The  *)
(* network inside a switch (booksim) is external: packets of one input     *)
(* port leave in order and are put anywhere in the buffer of their output  *)
(* port, which has two virtual channels.                                   *)
(***************************************************************************)
EXTENDS VaultController

CONSTANTS
    Stacks, Links,
    StackOf,    \* the stack of a link or vault
    CpuLinks,   \* the links to the processor (HOST_SOURCE_MODE)
    Peer,       \* the other end of a link between stacks
    Route,      \* Route[s][d]: the link of s towards stack d
    CpuRoute,   \* the link the processor reaches a stack by
    Near,       \* the pairs <<link, vault>> of one quadrant
    NoLink, NoUnit,
    BufferMax,  \* flits in a link's input and output buffers, 32 in the code
    Payload,    \* flits of data in a packet
    PortMax,    \* packets in an input or output buffer of a switch port
    MaxTags,    \* tags of a link
    Workloads,  \* sets of requests [addr, vault, write, pu, ideal]: a run has
                \* processor cores or processing units, not both
    MaxReqs     \* bound: requests accepted in a behaviour

ASSUME LinkAssumption ==
    /\ CpuLinks \subseteq Links /\ NoLink \notin Links
    /\ Peer \in [Links \ CpuLinks -> Links \ CpuLinks]
    /\ \A l \in Links \ CpuLinks : Peer[Peer[l]] = l /\ Peer[l] # l
ASSUME FlitAssumption ==
    /\ Payload \in Nat /\ BufferMax \in Nat
    /\ Payload < BufferMax /\ BufferMax <= 32
ASSUME HostAssumption ==
    \A m \in Workloads : \A kind \in m : CpuRoute[StackOf[kind.vault]] \in CpuLinks

VARIABLES
    output, outOccupied,  \* LinkMaster: packets to send, and their flits
    tokens,               \* LinkMaster: flits the other side has room for
    input, inOccupied,    \* LinkSlave: packets received, and their flits
    extracted,            \* LinkSlave: tokens to return
    inject, eject,        \* the buffers of the switch ports
    queued, routeQueued,  \* packets in a switch; those on the way through
    tags,                 \* free tags of a link
    inflight,             \* requests without an answer (inflightRequests)
    total,                \* requests accepted (num_incoming_requests)
    workload              \* the set of requests of this run

linkVars == <<output, outOccupied, tokens, input, inOccupied, extracted>>
switchVars == <<inject, eject, queued, routeQueued>>
hostVars == <<tags, inflight, total>>
networkVars == <<queueVars, portVars, linkVars, switchVars, hostVars, workload>>

Ports == Links \cup Vaults

Flits(p) == IF (p.type = "REQUEST") = p.req.write THEN 1 + Payload ELSE 1

(* Hops up to the second one are told apart. *)
Hop(p) == [p EXCEPT !.hops = IF @ = 0 THEN 1 ELSE 2]

NetworkInit ==
    /\ VaultInit
    /\ output = [l \in Links |-> <<>>] /\ outOccupied = [l \in Links |-> 0]
    /\ tokens = [l \in Links |-> BufferMax]
    /\ input = [l \in Links |-> <<>>] /\ inOccupied = [l \in Links |-> 0]
    /\ extracted = [l \in Links |-> 0]
    /\ inject = [d \in Ports |-> <<>>] /\ eject = [d \in Ports |-> <<>>]
    /\ queued = [s \in Stacks |-> 0] /\ routeQueued = [s \in Stacks |-> 0]
    /\ tags = [l \in Links |-> MaxTags]
    /\ inflight = {} /\ total = 0
    /\ workload \in Workloads

------------------------------------------------------------------------------
(* RamulatorMemory::readComplete(), which asserts that each of the         *)
(* requests is in flight.                                                  *)
readComplete(reqs) == inflight' = inflight \ reqs

(* leftmostbit(): the greatest power of two that is not above n. *)
LeftmostBit(n) ==
    CASE n = 0 -> 0 [] n = 1 -> 1 [] n \in 2..3 -> 2 [] n \in 4..7 -> 4
      [] n \in 8..15 -> 8 [] n \in 16..31 -> 16 [] OTHER -> 32

CanSend(l) == output[l] # <<>> /\ tokens[l] >= Flits(Head(output[l]))

(* LinkMaster::send() with a packet: to the other stack or the processor.  *)
(* The tokens to return travel with it; the processor ignores them.        *)
SendPacketKept(l) ==  \* mutant: the tokens that travel are not taken off
    LET p == Head(output[l])
        rtc == LeftmostBit(extracted[l])
    IN  /\ CanSend(l)
        /\ output' = [output EXCEPT ![l] = Tail(@)]
        /\ outOccupied' = [outOccupied EXCEPT ![l] = @ - Flits(p)]
        /\ UNCHANGED extracted
        /\ IF l \in CpuLinks
           THEN /\ readComplete({p.req})
                /\ tags' = [tags EXCEPT ![p.slid] = @ + 1]
                /\ UNCHANGED <<tokens, input, inOccupied>>
           ELSE /\ tokens' = [tokens EXCEPT ![l] = @ - Flits(p), ![Peer[l]] = @ + rtc]
                /\ input' = [input EXCEPT ![Peer[l]] = Append(@, p)]
                /\ inOccupied' = [inOccupied EXCEPT ![Peer[l]] = @ + Flits(p)]
                /\ UNCHANGED <<tags, inflight>>
        /\ UNCHANGED <<queueVars, portVars, switchVars, total>>
SendPacket(l) ==
    LET p == Head(output[l])
        rtc == LeftmostBit(extracted[l])
    IN  /\ CanSend(l)
        /\ output' = [output EXCEPT ![l] = Tail(@)]
        /\ outOccupied' = [outOccupied EXCEPT ![l] = @ - Flits(p)]
        /\ extracted' = [extracted EXCEPT ![l] = @ - rtc]
        /\ IF l \in CpuLinks
           THEN /\ readComplete({p.req})
                /\ tags' = [tags EXCEPT ![p.slid] = @ + 1]
                /\ UNCHANGED <<tokens, input, inOccupied>>
           ELSE /\ tokens' = [tokens EXCEPT ![l] = @ - Flits(p), ![Peer[l]] = @ + rtc]
                /\ input' = [input EXCEPT ![Peer[l]] = Append(@, p)]
                /\ inOccupied' = [inOccupied EXCEPT ![Peer[l]] = @ + Flits(p)]
                /\ UNCHANGED <<tags, inflight>>
        /\ UNCHANGED <<queueVars, portVars, switchVars, total>>

(* LinkMaster::send() without one: tokens are returned by a TRET packet,   *)
(* which takes no room on the other side.                                  *)
SendTokensDropped(l) ==  \* mutant: the receiver takes no tokens from a TRET
    LET rtc == LeftmostBit(extracted[l])
    IN  /\ ~CanSend(l) /\ extracted[l] > 0
        /\ extracted' = [extracted EXCEPT ![l] = @ - rtc]
        /\ UNCHANGED <<tokens, output, outOccupied, input, inOccupied,
                       queueVars, portVars, switchVars, hostVars>>
SendTokens(l) ==
    LET rtc == LeftmostBit(extracted[l])
    IN  /\ ~CanSend(l) /\ extracted[l] > 0
        /\ extracted' = [extracted EXCEPT ![l] = @ - rtc]
        /\ tokens' = IF l \in CpuLinks THEN tokens
                     ELSE [tokens EXCEPT ![Peer[l]] = @ + rtc]
        /\ UNCHANGED <<output, outOccupied, input, inOccupied,
                       queueVars, portVars, switchVars, hostVars>>

LinkTick(l) == SendPacket(l) \/ SendTokens(l)

------------------------------------------------------------------------------
(* The port of stack s that a packet goes to: the target vault of a        *)
(* request, the link to the processor or the unit of a response, or the    *)
(* link towards their stack.                                               *)
TargetIn(s, p) ==
    LET d == IF p.type = "REQUEST" THEN StackOf[p.req.vault]
             ELSE IF p.slid = NoLink THEN s ELSE StackOf[p.slid]
    IN  IF d # s THEN Route[s][d]
        ELSE IF p.type = "REQUEST" THEN p.req.vault
        ELSE IF p.slid \in CpuLinks THEN p.slid ELSE p.req.pu

HasRoom(l, p) == Flits(p) <= BufferMax - outOccupied[l]

(* A packet enters the switch at port d, or the output buffer of link l. *)
Inject(d, p) ==
    /\ Len(inject[d]) < PortMax
    /\ inject' = [inject EXCEPT ![d] = Append(@, Hop(p))]
    /\ queued' = [queued EXCEPT ![StackOf[d]] = @ + 1]
    /\ UNCHANGED eject
Buffer(l, p) ==
    /\ HasRoom(l, p)
    /\ output' = [output EXCEPT ![l] = Append(@, p)]
    /\ outOccupied' = [outOccupied EXCEPT ![l] = @ + Flits(p)]
    /\ UNCHANGED <<tokens, input, inOccupied, extracted>>

(* Switch::link_eject() for a link: on the way through are requests of the *)
(* processor, and packets that came from another stack.                    *)
EjectsRouted(p) ==
    IF p.type = "REQUEST" /\ p.req.pu = NoUnit THEN TRUE ELSE p.hops > 1
LinkEject(l) ==
    LET p == Head(eject[l])
        s == StackOf[l]
    IN  /\ eject[l] # <<>>
        /\ Buffer(l, p)
        /\ eject' = [eject EXCEPT ![l] = Tail(@)]
        /\ queued' = [queued EXCEPT ![s] = @ - 1]
        /\ routeQueued' = [routeQueued EXCEPT ![s] =
                               IF EjectsRouted(p) THEN @ - 1 ELSE @]
        /\ UNCHANGED <<inject, queueVars, portVars, hostVars>>

(* Switch::vault_eject() for a vault: a request waits at the head of the   *)
(* buffer until its queue has room, a response goes to the unit.           *)
VaultEject(v) ==
    LET p == Head(eject[v])
    IN  /\ eject[v] # <<>>
        /\ IF p.type = "REQUEST"
           THEN can_receive(v, p.req) /\ Receive(v, p) /\ UNCHANGED inflight
           ELSE readComplete({p.req}) /\ UNCHANGED queueVars
        /\ eject' = [eject EXCEPT ![v] = Tail(@)]
        /\ queued' = [queued EXCEPT ![StackOf[v]] = @ - 1]
        /\ UNCHANGED <<inject, routeQueued, portVars, linkVars, tags, total>>

(* Switch::vault_inject() for a vault: responses and requests of the unit  *)
(* take turns, and the turn passes on even if the packet has to stay.      *)
VaultInject(v) ==
    LET next == next_response_packet[v]
        isResp == IF next THEN responses[v] # <<>> ELSE remote[v] = <<>>
        p == Head(IF isResp THEN responses[v] ELSE remote[v])
        t == TargetIn(StackOf[v], p)
        direct == <<t, v>> \in Near
        fits == IF direct THEN HasRoom(t, p) ELSE Len(inject[v]) < PortMax
    IN  /\ responses[v] # <<>> \/ remote[v] # <<>>
        /\ next_response_packet' = [next_response_packet EXCEPT ![v] =
               IF isResp = next THEN ~next ELSE next]
        /\ IF fits
           THEN /\ responses' = [responses EXCEPT ![v] = IF isResp THEN Tail(@) ELSE @]
                /\ remote' = [remote EXCEPT ![v] = IF isResp THEN @ ELSE Tail(@)]
                /\ IF direct
                   THEN Buffer(t, Hop(p)) /\ UNCHANGED <<inject, eject, queued>>
                   ELSE Inject(v, p) /\ UNCHANGED linkVars
           ELSE UNCHANGED <<responses, remote, linkVars, inject, eject, queued>>
        /\ UNCHANGED <<routeQueued, queueVars, hostVars>>

(* Switch::link_inject() for a link: a packet for a vault of the quadrant  *)
(* goes straight there, any other one into the switch.  It leaves the      *)
(* input buffer, and its flits become tokens to return.                    *)
LinkInject(l) ==
    LET p == Head(input[l])
        s == StackOf[l]
        t == TargetIn(s, p)
    IN  /\ input[l] # <<>>
        /\ IF <<l, t>> \in Near
           THEN /\ IF p.type = "REQUEST"
                   THEN can_receive(t, p.req) /\ Receive(t, p) /\ UNCHANGED inflight
                   ELSE readComplete({p.req}) /\ UNCHANGED queueVars
                /\ UNCHANGED switchVars
           ELSE /\ Inject(l, p)
                /\ routeQueued' = [routeQueued EXCEPT ![s] =
                                       IF t \in Links THEN @ + 1 ELSE @]
                /\ UNCHANGED <<inflight, queueVars>>
        /\ input' = [input EXCEPT ![l] = Tail(@)]
        /\ inOccupied' = [inOccupied EXCEPT ![l] = @ - Flits(p)]
        /\ extracted' = [extracted EXCEPT ![l] = @ + Flits(p)]
        /\ UNCHANGED <<output, outOccupied, tokens, portVars, tags, total>>

(* icnt_transfer(): a packet crosses the switch. *)
Transfer(d) ==
    LET p == Head(inject[d])
        t == TargetIn(StackOf[d], p)
    IN  /\ inject[d] # <<>> /\ Len(eject[t]) < PortMax
        /\ inject' = [inject EXCEPT ![d] = Tail(@)]
        /\ \E i \in 1..(Len(eject[t]) + 1) :
               eject' = [eject EXCEPT ![t] = SubSeq(@, 1, i - 1) \o <<p>> \o SubSeq(@, i, Len(@))]
        /\ UNCHANGED <<queued, routeQueued, queueVars, portVars, linkVars, hostVars>>

(* Controller<HMC>::tick() and its answers to the unit of the vault. *)
VaultTick(v, serve, issued) ==
    /\ tick(v, serve, issued)
    /\ readComplete(SentToPu(v, serve, issued))
    /\ UNCHANGED <<linkVars, switchVars, tags, total>>
VaultServe(v) == \E issued \in Issuable(v) : VaultTick(v, TRUE, issued)
VaultIssue(v) ==
    \E serve \in BOOLEAN : \E issued \in Issuable(v) \ {<<>>} : VaultTick(v, serve, issued)
VaultWait(v) == VaultTick(v, FALSE, <<>>)

------------------------------------------------------------------------------
(* Memory<HMC>::send() of a request of the processor.  form_request_packet *)
(* takes the tag before the link is known to have room, and nobody puts it *)
(* back.                                                                   *)
Accept(req) == inflight' = inflight \cup {req} /\ total' = total + 1
SendHost(req) ==
    LET l == CpuRoute[StackOf[req.vault]]
        p == [type |-> "REQUEST", req |-> req, slid |-> l, hops |-> 0]
    IN  /\ req.pu = NoUnit /\ tags[l] > 0
        /\ tags' = [tags EXCEPT ![l] = @ - 1]
        /\ IF Flits(p) <= BufferMax - inOccupied[l]
           THEN /\ input' = [input EXCEPT ![l] = Append(@, p)]
                /\ inOccupied' = [inOccupied EXCEPT ![l] = @ + Flits(p)]
                /\ Accept(req)
                /\ UNCHANGED <<output, outOccupied, tokens, extracted>>
           ELSE UNCHANGED <<linkVars, inflight, total>>
        /\ UNCHANGED <<queueVars, portVars, switchVars>>

(* send() of a request of a processing unit: to its own vault, or, with an *)
(* ideal network, straight to the target's; else through its buffer of     *)
(* remote requests.  A tag is taken if there is one, and never given back. *)
SendPim(req) ==
    LET s == StackOf[req.pu]
        l == IF StackOf[req.vault] = s THEN NoLink ELSE Route[s][StackOf[req.vault]]
        p == [type |-> "REQUEST", req |-> req, slid |-> l, hops |-> 0]
        ToVault == /\ AnsweredHere(req.vault, req) /\ can_receive(req.vault, req)
                   /\ Receive(req.vault, p) /\ Accept(req)
                   /\ UNCHANGED remote
        ToRemote == /\ ~AnsweredHere(req.vault, req) /\ HasRemoteRoom(req.pu)
                    /\ receive_remote_request(req.pu, p) /\ Accept(req)
                    /\ UNCHANGED queueVars
        Refused == /\ IF AnsweredHere(req.vault, req)
                      THEN ~can_receive(req.vault, req) ELSE ~HasRemoteRoom(req.pu)
                   /\ UNCHANGED <<queueVars, remote, inflight, total>>
    IN  /\ req.pu # NoUnit
        /\ tags' = [x \in Links |-> IF x = l /\ tags[x] > 0 THEN tags[x] - 1 ELSE tags[x]]
        /\ ToVault \/ ToRemote \/ Refused
        /\ UNCHANGED <<responses, next_response_packet, linkVars, switchVars>>

(* RamulatorMemory::enqueue() of an event: its request is numbered with    *)
(* the count of accepted ones; one that is refused is tried again later.   *)
Numbered(kind) ==
    [id |-> total, addr |-> kind.addr, vault |-> kind.vault, write |-> kind.write,
     pu |-> kind.pu, ideal |-> kind.ideal]
Enqueue(kind) ==
    /\ total < MaxReqs
    /\ SendHost(Numbered(kind)) \/ SendPim(Numbered(kind))

NetworkNext ==
    /\ \/ \E kind \in workload : Enqueue(kind)
       \/ \E l \in Links : LinkTick(l) \/ LinkEject(l) \/ LinkInject(l)
       \/ \E v \in Vaults : \/ VaultEject(v) \/ VaultInject(v)
                            \/ VaultServe(v) \/ VaultIssue(v) \/ VaultWait(v)
       \/ \E d \in Ports : Transfer(d)
    /\ UNCHANGED workload

NetworkSpec == NetworkInit /\ [][NetworkNext]_networkVars

(* A tick visits every port, and the DRAM lets every command pass in time. *)
NetworkFairSpec ==
    /\ NetworkSpec
    /\ \A l \in Links : /\ WF_networkVars(LinkTick(l) /\ UNCHANGED workload)
                        /\ WF_networkVars(LinkEject(l) /\ UNCHANGED workload)
                        /\ WF_networkVars(LinkInject(l) /\ UNCHANGED workload)
    /\ \A v \in Vaults : /\ WF_networkVars(VaultEject(v) /\ UNCHANGED workload)
                         /\ WF_networkVars(VaultInject(v) /\ UNCHANGED workload)
                         /\ WF_networkVars(VaultServe(v) /\ UNCHANGED workload)
                         /\ WF_networkVars(VaultIssue(v) /\ UNCHANGED workload)
    /\ \A d \in Ports : WF_networkVars(Transfer(d) /\ UNCHANGED workload)

------------------------------------------------------------------------------
(* The flow control of a link between stacks loses and invents no token:   *)
(* those of the sender, the flits in the receiver's input buffer, and the  *)
(* tokens the receiver has not yet returned make up the buffer, whichever  *)
(* way packets and TRETs cross.  So send() never meets a full buffer,      *)
(* which it asserts.                                                       *)
TokensConserved ==
    \A l \in Links \ CpuLinks :
        tokens[l] + inOccupied[Peer[l]] + extracted[Peer[l]] = BufferMax

(* The places of a request: packets, and entries of the vaults' queues. *)
Packets(buffer, req) ==
    {c \in (DOMAIN buffer) \X (1..MaxReqs) :
        c[2] <= Len(buffer[c[1]]) /\ buffer[c[1]][c[2]].req = req}
Entries(queue, req) ==
    {c \in Vaults \X (1..MaxReqs) : c[2] <= Len(queue[c[1]]) /\ queue[c[1]][c[2]] = req}
Places(req) ==
    Cardinality(Packets(output, req)) + Cardinality(Packets(input, req))
    + Cardinality(Packets(inject, req)) + Cardinality(Packets(eject, req))
    + Cardinality(Packets(responses, req)) + Cardinality(Packets(remote, req))
    + Cardinality(Entries(readq, req)) + Cardinality(Entries(writeq, req))
    + Cardinality(Entries(pending, req))
InVault(v) == Members(readq[v]) \cup Members(writeq[v]) \cup Members(pending[v])
OnTheWay ==
    UNION {UNION {{p.req : p \in Members(b[x])} : x \in DOMAIN b} :
               b \in {output, input, inject, eject, responses, remote}}

(* No request is lost, answered twice, or answered without its packet: one *)
(* in flight is in exactly one buffer or queue, nothing else is, and a     *)
(* vault keeps the packets of exactly the requests it holds.               *)
EachInOnePlace ==
    /\ \A req \in inflight : Places(req) = 1
    /\ OnTheWay \cup UNION {InVault(v) : v \in Vaults} = inflight
    /\ \A v \in Vaults : {p.req : p \in incoming[v]} = InVault(v)
                         /\ Cardinality(incoming[v]) = Cardinality(InVault(v))

(* A free tag is missing from the pool of a link to the processor only     *)
(* while a request that took it is on its way ("may return -1 when no      *)
(* available tag // TODO recycle tags when request callback").             *)
TagsRecycled ==
    \A l \in CpuLinks :
        tags[l] + Cardinality({r \in inflight : CpuRoute[StackOf[r.vault]] = l
                                                /\ r.pu = NoUnit}) = MaxTags

(* Every accepted request is answered, whatever is in its way: packets and *)
(* responses share links and buffers, and a request that finds its queue   *)
(* full holds up everything behind it.  As the requests are bounded, the   *)
(* network becomes empty.                                                  *)
RequestsAnswered == inflight # {} ~> inflight = {}
==============================================================================
