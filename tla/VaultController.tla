--------------------------- MODULE VaultController ---------------------------
(***************************************************************************)
(* The controllers of the HMC vaults (ramulator/HMC_Controller.h).  A      *)
(* vault takes request packets into a read and a write queue, issues       *)
(* requests to its DRAM, and answers: to its own processing unit at once,  *)
(* to anybody else with a response packet.  It also buffers the requests   *)
(* of its own processing unit for other vaults.                            *)
(*                                                                         *)
(* DRAM timing is left open: in any tick the first pending read may or may *)
(* not be due, and any request of the scheduled queue, or none, may be     *)
(* ready.  A request's bursts are one command; refresh traffic shows as    *)
(* ticks that issue nothing.                                               *)
(***************************************************************************)
EXTENDS Naturals, Sequences, FiniteSets

CONSTANTS Vaults,    \* the vaults, which are also the processing units
          QueueMax,  \* entries of a read or write queue, 32 in the code
          RemoteMax  \* entries of the buffer of remote requests

VARIABLES
    readq, writeq,         \* requests waiting for the DRAM
    pending,               \* reads about to receive their data
    write_mode,            \* writes are scheduled before reads
    incoming,              \* the request packets of the requests in the vault
    responses,             \* response packets that wait for the switch
    remote,                \* packets of the own unit for other vaults
    next_response_packet   \* the switch takes a response next

Members(seq) == {seq[i] : i \in DOMAIN seq}

queueVars == <<readq, writeq, pending, write_mode, incoming>>
portVars == <<responses, remote, next_response_packet>>

VaultInit ==
    /\ readq = [v \in Vaults |-> <<>>] /\ writeq = [v \in Vaults |-> <<>>]
    /\ pending = [v \in Vaults |-> <<>>]
    /\ write_mode = [v \in Vaults |-> FALSE]
    /\ incoming = [v \in Vaults |-> {}]
    /\ responses = [v \in Vaults |-> <<>>] /\ remote = [v \in Vaults |-> <<>>]
    /\ next_response_packet = [v \in Vaults |-> TRUE]

(* can_receive(): the queue for the request has room. *)
can_receive(v, req) == Len((IF req.write THEN writeq ELSE readq)[v]) < QueueMax

(* A queued write to the address answers the read without the DRAM. *)
Forwarded(v, req) ==
    ~req.write /\ \E w \in Members(writeq[v]) : w.addr = req.addr

(* receive(), with enqueue(), once the queue is known to have room. *)
ReceiveUnbuffered(v, packet) ==  \* mutant: forwarded reads keep no packet
    LET req == packet.req
    IN  /\ incoming' = [incoming EXCEPT ![v] =
                            IF Forwarded(v, req) THEN @ ELSE @ \cup {packet}]
        /\ writeq' = [writeq EXCEPT ![v] = IF req.write THEN Append(@, req) ELSE @]
        /\ pending' = [pending EXCEPT ![v] =
                           IF Forwarded(v, req) THEN Append(@, req) ELSE @]
        /\ readq' = [readq EXCEPT ![v] =
                         IF req.write \/ Forwarded(v, req) THEN @ ELSE Append(@, req)]
        /\ UNCHANGED write_mode
Receive(v, packet) ==
    LET req == packet.req
    IN  /\ incoming' = [incoming EXCEPT ![v] = @ \cup {packet}]
        /\ writeq' = [writeq EXCEPT ![v] = IF req.write THEN Append(@, req) ELSE @]
        /\ pending' = [pending EXCEPT ![v] =
                           IF Forwarded(v, req) THEN Append(@, req) ELSE @]
        /\ readq' = [readq EXCEPT ![v] =
                         IF req.write \/ Forwarded(v, req) THEN @ ELSE Append(@, req)]
        /\ UNCHANGED write_mode

(* The packet of a request in the vault, and the response to it. *)
PacketOf(v, req) == CHOOSE p \in incoming[v] : p.req.id = req.id
form_response_packet(v, req) ==
    [PacketOf(v, req) EXCEPT !.type = "RESPONSE", !.hops = 0]

(* Writes go first when their queue is almost full or there are no reads,  *)
(* until it is almost empty and there are reads.                           *)
WriteModeNext(v) ==
    IF write_mode[v]
    THEN ~(Len(writeq[v]) <= (2 * QueueMax) \div 10 /\ readq[v] # <<>>)
    ELSE Len(writeq[v]) >= (8 * QueueMax) \div 10 \/ readq[v] = <<>>

(* The response goes to the unit of this vault, without the switch. *)
AnsweredHere(v, req) == req.pu = v \/ req.ideal

(* tick(): serve tells whether the first pending read is due, issued is    *)
(* the sequence of the at most one request that the DRAM accepts.          *)
tick(v, serve, issued) ==
    LET read == IF serve THEN <<Head(pending[v])>> ELSE <<>>
        done == read \o SelectSeq(issued, LAMBDA r : r.write)
        away == SelectSeq(done, LAMBDA r : ~AnsweredHere(v, r))
        Out(q) == SelectSeq(q, LAMBDA r : r \notin Members(issued))
    IN  /\ serve => pending[v] # <<>>
        /\ write_mode' = [write_mode EXCEPT ![v] = WriteModeNext(v)]
        /\ readq' = [readq EXCEPT ![v] = Out(@)]
        /\ writeq' = [writeq EXCEPT ![v] = Out(@)]
        /\ pending' = [pending EXCEPT ![v] =
                           (IF serve THEN Tail(@) ELSE @)
                           \o SelectSeq(issued, LAMBDA r : ~r.write)]
        /\ incoming' = [incoming EXCEPT ![v] =
                            {p \in @ : p.req \notin Members(done)}]
        /\ responses' = [responses EXCEPT ![v] =
                @ \o [i \in 1..Len(away) |-> form_response_packet(v, away[i])]]
        /\ UNCHANGED <<remote, next_response_packet>>

(* What tick() may issue: nothing, or a request of the scheduled queue. *)
Issuable(v) ==
    {<<>>} \cup {<<r>> : r \in Members((IF WriteModeNext(v) THEN writeq ELSE readq)[v])}

(* The requests that tick() hands to the unit of the vault: send_to_pu(). *)
SentToPu(v, serve, issued) ==
    {r \in (IF serve THEN {Head(pending[v])} ELSE {})
            \cup {s \in Members(issued) : s.write} : AnsweredHere(v, r)}

(* receive_remote_request(), which fails when the buffer is full. *)
HasRemoteRoom(v) == Len(remote[v]) < RemoteMax
receive_remote_request(v, packet) ==
    /\ HasRemoteRoom(v)
    /\ remote' = [remote EXCEPT ![v] = Append(@, packet)]
==============================================================================
