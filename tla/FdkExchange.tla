----------------------------- MODULE FdkExchange -----------------------------
(***************************************************************************)
(* One connection, call by call: a client's executeFunction (lib/packet.c) *)
(* against the server loop handleIncomingConnection (src_fdkd/fdkd.c) and  *)
(* its handleRequestPacket (src_fdkd/handler.c), with every operation and  *)
(* the sizes at the edges of the fields and of the packet buffer.          *)
(*                                                                         *)
(* The server reads a request into the connection's buffer and answers     *)
(* from the same buffer, so `packet' is the request while pc = "sent" and  *)
(* the response while pc = "answered".  Framing (FDK_MAXSZ_PKT, short and  *)
(* broken transfers) is the business of PacketStream.                      *)
(***************************************************************************)
EXTENDS FdkPacket, Sequences, FiniteSets

CONSTANTS Payloads,    \* payload tokens
          Calls,       \* the calls the programs make: [op, addr, size, data]
          PeerPackets  \* what any other peer may send: a packet of pktLen bytes

VARIABLES link,    \* the connection: "open" or "closed"
          pc,      \* "idle", "sent" or "answered"
          sender,  \* who is on the connection: "client" (ours) or "peer"
          call,    \* the current or last call of the client
          packet,  \* request, then response, in the connection's buffer
          access,  \* the hardware accesses made for the current request
          result   \* how the last call ended: "none", "ok", "refused", "failed"

vars == <<link, pc, sender, call, packet, access, result>>

NoCall   == [op |-> 0, addr |-> 0, size |-> 0, data |-> NoData]
NoPacket == [opCode |-> 0, errorCode |-> 0, pktLen |-> HdrSize,
             address |-> 0, size |-> 0, data |-> NoData]

CallRecord   == [op : Nat, addr : Nat, size : Nat, data : Payloads \cup {NoData}]
PacketRecord == [opCode : Nat, errorCode : Nat, pktLen : HdrSize..FDK_MAXSZ_PKT,
                 address : Nat, size : Nat,
                 data : Payloads \cup {NoData}]

AccessRecord == [op : Nat, addr : Nat, size : Nat, data : Payloads \cup {NoData}, ok : BOOLEAN,
                 got : Nat, used : Nat, end : Nat]

\* cfdk and memvr stay inside the fields of the packets they use: CMOS calls
\* are a 256-byte page or one byte, I/O addresses are ports.
ASSUME CallsAssumption ==
  \A c \in Calls :
    /\ c \in CallRecord
    /\ c.op \in CmosOps => c.addr < 256 /\ c.size \in 1..FDK_CMOS_SIZE
    /\ c.op \in {FDK_REQ_IO_READ, FDK_REQ_IO_WRITE} => c.addr < 65536
    /\ c.op \in {FDK_REQ_PCI_READ, FDK_REQ_PCI_WRITE} => c.size < 65536

\* readPacket only lets packets through that fit the buffer, and the fields
\* hold what their width allows.
ASSUME PeerPacketsAssumption ==
  \A p \in PeerPackets :
    /\ p \in PacketRecord
    /\ p.opCode \in CmosOps => p.address < 256 /\ p.size < 256
    /\ p.opCode \in {FDK_REQ_IO_READ, FDK_REQ_IO_WRITE} => p.address < 65536
    /\ p.opCode \in {FDK_REQ_PCI_READ, FDK_REQ_PCI_WRITE} => p.size < 65536

Init ==
  /\ link = "open" /\ pc = "idle" /\ sender \in {"client", "peer"}
  /\ call = NoCall /\ packet = NoPacket /\ access = <<>> /\ result = "none"

-----------------------------------------------------------------------------
(* The client builds and sends a request, or gives up before sending.       *)

Call(c) ==
  /\ link = "open" /\ pc = "idle" /\ sender = "client"
  /\ RequestLen(c.op, c.size, c.data) > 0
  /\ call' = c /\ pc' = "sent" /\ access' = <<>> /\ result' = "none"
  /\ packet' = BuildRequest(c.op, c.addr, c.size, c.data)
  /\ UNCHANGED <<link, sender>>

CallRejected(c) ==
  /\ pc = "idle" /\ sender = "client"
  /\ RequestLen(c.op, c.size, c.data) = 0
  /\ call' = c /\ access' = <<>> /\ result' = "failed"
  /\ UNCHANGED <<link, pc, sender, packet>>

\* A peer that is not our client sends whatever readPacket accepts.  Fields
\* past pktLen stand for what earlier requests left in the buffer.
PeerSends(p) ==
  /\ link = "open" /\ pc = "idle" /\ sender = "peer"
  /\ packet' = p /\ pc' = "sent" /\ access' = <<>>
  /\ UNCHANGED <<link, sender, call, result>>

-----------------------------------------------------------------------------
(* The server handles the request in its buffer.                            *)

\* The access functions refuse ports and CMOS cells past the end of their space
\* and empty disk transfers; anything else may succeed or fail.
Servable(op, addr, size) ==
  /\ op \in {FDK_REQ_IO_READ, FDK_REQ_IO_WRITE} => addr + size <= 65536
  /\ op \in CmosOps => addr + size <= FDK_CMOS_SIZE
  /\ op \in {FDK_REQ_IDE_READ, FDK_REQ_IDE_WRITE} => size > 0

\* The access of a well-formed request: what was asked of the hardware, the
\* request bytes it was taken from (got of them received), and how far it
\* filled the buffer.
AccessOf(p, ok, n) ==
  LET op == p.opCode
      sz == ServedSize(p)
  IN  [op |-> op, addr |-> p.address, size |-> sz, data |-> p.data, ok |-> ok,
       got  |-> p.pktLen,
       used |-> IF op \in WriteOps \cup {FDK_REQ_CMOS_WRITE} THEN ContentOffset(op) + sz
                ELSE IF op \in ListOps THEN HdrSize ELSE ContentOffset(op),
       end  |-> IF op \in ReadOps \cup {FDK_REQ_CMOS_READ} THEN ContentOffset(op) + sz
                ELSE IF op \in ListOps THEN ContentOffset(op) + n * RecordSize(op)
                ELSE HdrSize]

\* A list answer carries as many records as were found, up to what fits.
RecordCounts(op) == IF op \in ListOps THEN 0..MaxRecords(op) ELSE {0}

Serve ==
  /\ link = "open" /\ pc = "sent"
  /\ \E ok \in BOOLEAN, n \in RecordCounts(packet.opCode) :
       /\ IF packet.opCode \in ListOps THEN ok
          ELSE ok => Servable(packet.opCode, packet.address, ServedSize(packet))
       /\ packet' = HandleRequestPacket(packet, packet.pktLen, ok, n)
       /\ access' = IF WellFormed(packet, packet.pktLen) /\ packet.opCode \notin LinkOps
                    THEN Append(access, AccessOf(packet, ok, n))
                    ELSE access
  /\ pc' = "answered"
  /\ UNCHANGED <<link, sender, call, result>>

-----------------------------------------------------------------------------
(* The response arrives.  Callers look at errorCode after executeFunction;  *)
(* DISCONNECT is answered and then closed by the server.                    *)

ClosesLink(rsp) == rsp.opCode = FDK_REQ_DISCONNECT + 1

Return ==
  /\ pc = "answered"
  /\ result' = IF sender = "peer" THEN result
               ELSE IF ~VerifyResponse(packet, call.op) THEN "failed"
               ELSE IF packet.errorCode = FDK_SUCCESS THEN "ok" ELSE "refused"
  /\ pc' = "idle"
  /\ link' = IF ClosesLink(packet) THEN "closed" ELSE link
  /\ packet' = NoPacket  \* what stays in the buffer is in PeerPackets' fields
  /\ access' = IF sender = "peer" THEN <<>> ELSE access
  /\ UNCHANGED <<sender, call>>

\* The connection breaks: a call that waits fails.
Break ==
  /\ link = "open"
  /\ link' = "closed" /\ pc' = "idle"
  /\ result' = IF pc # "idle" /\ sender = "client" THEN "failed" ELSE result
  /\ packet' = NoPacket
  /\ UNCHANGED <<sender, call, access>>

\* The next connection, ours or another peer's, starts with a zeroed buffer.
Connect(s) ==
  /\ link = "closed"
  /\ link' = "open" /\ pc' = "idle" /\ sender' = s
  /\ call' = NoCall /\ packet' = NoPacket /\ access' = <<>> /\ result' = "none"

Next ==
  \/ \E c \in Calls : Call(c) \/ CallRejected(c)
  \/ \E p \in PeerPackets : PeerSends(p)
  \/ Serve
  \/ Return
  \/ Break
  \/ \E s \in {"client", "peer"} : Connect(s)

Spec == Init /\ [][Next]_vars

-----------------------------------------------------------------------------
(* Properties.                                                              *)

\* Type invariant.
TypeOK ==
  /\ link \in {"open", "closed"} /\ pc \in {"idle", "sent", "answered"}
  /\ sender \in {"client", "peer"} /\ result \in {"none", "ok", "refused", "failed"}
  /\ call \in CallRecord /\ packet \in PacketRecord
  /\ access \in Seq(AccessRecord)

\* The access the server makes for a call is the one the client asked for:
\* same operation, address, payload and number of bytes, although address
\* and size cross narrower fields and 256 travels as 0, and at most one.
AccessAsCalled ==
  sender = "client" =>
    /\ Len(access) <= 1
    /\ access # <<>> =>
         LET a == access[1]
         IN  /\ a.op = call.op
             /\ a.op \notin ListOps =>
                  /\ a.addr = call.addr /\ a.size = call.size /\ a.data = call.data

\* A call that returns with errorCode FDK_SUCCESS was carried out by the
\* hardware access of that call; one that returns FDK_FAILURE was not.
ResultTellsOutcome ==
  (pc = "idle" /\ sender = "client" /\ call.op \notin LinkOps) =>
    /\ result = "ok"      => access # <<>> /\ access[1].ok
    /\ result = "refused" => access # <<>> /\ ~access[1].ok

\* Whatever a peer sends, the handler takes an access only from bytes received
\* in this request, never from what an earlier one left in the buffer, and
\* never runs past the end of the buffer.
OnlyReceivedBytes ==
  \A i \in 1..Len(access) :
    access[i].used <= access[i].got /\ access[i].end <= FDK_MAXSZ_PKT

\* Every byte of a response was received with the request or written by its
\* access: nothing older in the buffer is sent out.
ReplyIsOfThisRequest ==
  pc = "answered" =>
    /\ packet.pktLen <= FDK_MAXSZ_PKT
    /\ \/ packet.pktLen = HdrSize
       \/ access # <<>> /\ \/ packet.pktLen <= access[1].got
                           \/ packet.pktLen <= access[1].end

\* A request the server refuses with NACK touched no hardware, and any other
\* answer repeats the operation that was carried out.
NackMeansUntouched ==
  pc = "answered" =>
    IF packet.opCode = FDK_RSP_NACK
    THEN access = <<>> /\ packet.errorCode = FDK_FAILURE
    ELSE access = <<>> \/ access[1].op = packet.opCode - 1

\* What the client is willing to send the server is willing to serve: it only
\* answers NACK to a read larger than a response can carry.
ClientRequestsAreServed ==
  (pc = "answered" /\ sender = "client" /\ packet.opCode = FDK_RSP_NACK) =>
    call.op \in ReadOps /\ call.size > MaxPayload(call.op)

=============================================================================
