-------------------------- MODULE FdkExchangeProofs --------------------------
(* The properties of FdkExchange, for every packet size, every set of calls *)
(* and every peer.                                                          *)
EXTENDS FdkExchange, TLAPS

\* The fields of a request hold no more than their width.
FitsFields(p) ==
  /\ p.opCode \in CmosOps => p.address < 256 /\ p.size < 256
  /\ p.opCode \in {FDK_REQ_IO_READ, FDK_REQ_IO_WRITE} => p.address < 65536
  /\ p.opCode \in {FDK_REQ_PCI_READ, FDK_REQ_PCI_WRITE} => p.size < 65536

\* A request on its way has made no access yet; the client's is the one it built.
RequestOnItsWay ==
  pc = "sent" =>
    /\ access = <<>> /\ FitsFields(packet)
    /\ sender = "client" =>
         /\ call \in Calls /\ RequestLen(call.op, call.size, call.data) > 0
         /\ packet = BuildRequest(call.op, call.addr, call.size, call.data)

\* The response to a client tells the operation and the outcome of the access.
ResponseTellsOutcome ==
  (pc = "answered" /\ sender = "client") =>
    /\ packet.opCode # FDK_RSP_NACK => packet.opCode = call.op + 1
    /\ access = <<>> => packet.opCode = FDK_RSP_NACK \/ call.op \in LinkOps
    /\ access # <<>> => (access[1].ok <=> packet.errorCode = FDK_SUCCESS)

\* The inductive invariant.
IInv ==
  /\ TypeOK
  /\ Len(access) <= 1
  /\ RequestOnItsWay
  /\ ResponseTellsOutcome
  /\ AccessAsCalled
  /\ ResultTellsOutcome
  /\ OnlyReceivedBytes
  /\ ReplyIsOfThisRequest
  /\ NackMeansUntouched
  /\ ClientRequestsAreServed

\* The operation codes are numbers; the sets of operations are cited by name.
USE DEF FDK_REQ_CONNECT, FDK_REQ_DISCONNECT, FDK_REQ_MEM_READ, FDK_REQ_MEM_WRITE,
        FDK_REQ_IO_READ, FDK_REQ_IO_WRITE, FDK_REQ_PCI_READ, FDK_REQ_PCI_WRITE,
        FDK_REQ_IDE_READ, FDK_REQ_IDE_WRITE, FDK_REQ_CMOS_READ, FDK_REQ_CMOS_WRITE,
        FDK_REQ_PCI_LIST, FDK_REQ_E820_LIST, FDK_RSP_NACK, FDK_RSP_CPU_EXCEPTION,
        FDK_SUCCESS, FDK_FAILURE, HdrSize, FDK_CMOS_SIZE

-----------------------------------------------------------------------------
(* Lemmas about the packet operators.                                       *)

\* The fixed fields of every operation are between a header and 20 bytes, and
\* payload limits and list capacities are numbers (packet.h, the structures).
LEMMA LayoutBounds ==
  ASSUME NEW op \in Nat
  PROVE  /\ ContentOffset(op) \in Nat
         /\ ContentOffset(op) \in HdrSize..20
         /\ MaxPayload(op) \in Nat
         /\ ContentOffset(op) + MaxPayload(op) = FDK_MAXSZ_PKT
         /\ op \in LinkOps => ContentOffset(op) = HdrSize
BY MaxSzAssumption DEF ContentOffset, MaxPayload, CmosOps, ListOps, LinkOps

\* Every list answer fits the packet (handler.c, PCI_LIST and E820_LIST).
LEMMA ListFits ==
  ASSUME NEW op \in ListOps, NEW n \in 0..MaxRecords(op)
  PROVE  /\ n * RecordSize(op) \in Nat
         /\ ContentOffset(op) + n * RecordSize(op) <= FDK_MAXSZ_PKT
<1>1. op \in Nat
  BY DEF ListOps
<1>2. MaxPayload(op) \in Nat /\ ContentOffset(op) + MaxPayload(op) = FDK_MAXSZ_PKT
      /\ ContentOffset(op) \in Nat
  BY <1>1, LayoutBounds
<1>3. CASE op = FDK_REQ_PCI_LIST
  <2>1. RecordSize(op) = 8 BY <1>3 DEF RecordSize
  <2>2. n \in 0..(MaxPayload(op) \div 8) BY <2>1 DEF MaxRecords
  <2>3. n * 8 <= MaxPayload(op) BY <2>2, <1>2
  <2> QED BY <2>1, <2>2, <2>3, <1>2, MaxSzAssumption
<1>4. CASE op = FDK_REQ_E820_LIST
  <2>1. RecordSize(op) = 24
    BY <1>4 DEF RecordSize
  <2>2. n \in 0..(MaxPayload(op) \div 24) BY <2>1 DEF MaxRecords
  <2>3. n * 24 <= MaxPayload(op) BY <2>2, <1>2
  <2> QED BY <2>1, <2>2, <2>3, <1>2, MaxSzAssumption
<1> QED BY <1>3, <1>4 DEF ListOps

\* A well-formed request is answered with the next operation code, by an access
\* taken from received bytes and kept, like the response, inside the buffer.
LEMMA WellFormedAnswer ==
  ASSUME NEW p \in PacketRecord, FitsFields(p), WellFormed(p, p.pktLen),
         NEW ok \in BOOLEAN, NEW n \in RecordCounts(p.opCode)
  PROVE  LET r == HandleRequestPacket(p, p.pktLen, ok, n)
             a == AccessOf(p, ok, n)
         IN  /\ r \in PacketRecord /\ r.opCode = p.opCode + 1
             /\ r.errorCode = (IF ok \/ p.opCode \in LinkOps \cup ListOps
                               THEN FDK_SUCCESS ELSE FDK_FAILURE)
             /\ a \in AccessRecord
             /\ a.op = p.opCode /\ a.ok = ok /\ a.used <= a.got /\ a.end <= FDK_MAXSZ_PKT
             /\ r.pktLen = HdrSize \/ r.pktLen <= a.got \/ r.pktLen <= a.end
             /\ p.opCode \in LinkOps => r.pktLen = HdrSize
             /\ p.opCode \in LinkOps \cup ListOps \cup ReadOps \cup WriteOps \cup CmosOps
<1> DEFINE op == p.opCode
           sz == ServedSize(p)
           r == HandleRequestPacket(p, p.pktLen, ok, n)
           a == AccessOf(p, ok, n)
<1>1. /\ op \in Nat /\ p.errorCode \in Nat /\ p.pktLen \in HdrSize..FDK_MAXSZ_PKT
      /\ p.address \in Nat /\ p.size \in Nat /\ p.data \in Payloads \cup {NoData}
  BY DEF PacketRecord
<1>2. sz \in Nat /\ (op \in CmosOps => sz \in 1..256)
  BY <1>1 DEF ServedSize, CmosReqSize, FitsFields
<1>3. /\ ContentOffset(op) \in 8..20 /\ MaxPayload(op) \in Nat
      /\ ContentOffset(op) + MaxPayload(op) = FDK_MAXSZ_PKT
      /\ op \in LinkOps => ContentOffset(op) = HdrSize
  BY <1>1, LayoutBounds
<1>4. op \in CmosOps => ContentOffset(op) + sz <= FDK_MAXSZ_PKT
  BY <1>2, <1>3, MaxSzAssumption DEF ContentOffset, CmosOps, ListOps
<1>5. op \in ListOps => /\ n * RecordSize(op) \in Nat
                        /\ ContentOffset(op) + n * RecordSize(op) <= FDK_MAXSZ_PKT
  BY ListFits DEF RecordCounts
<1>6. /\ op \in ReadOps => ContentOffset(op) + sz <= FDK_MAXSZ_PKT
                           /\ p.pktLen >= ContentOffset(op)
      /\ op \in WriteOps \cup {FDK_REQ_CMOS_WRITE} => p.pktLen >= ContentOffset(op) + sz
      /\ op = FDK_REQ_CMOS_READ => p.pktLen >= ContentOffset(op)
      /\ op \in LinkOps \cup ListOps \cup ReadOps \cup WriteOps \cup CmosOps
  BY <1>1, <1>2, <1>3, MaxSzAssumption
     DEF WellFormed, ReadOps, WriteOps, CmosOps, LinkOps, ListOps
<1>7. /\ ReplyLen(p, n) \in HdrSize..FDK_MAXSZ_PKT
      /\ \/ ReplyLen(p, n) = HdrSize
         \/ ReplyLen(p, n) <= p.pktLen
         \/ ReplyLen(p, n) <= a.end
      /\ op \in LinkOps => ReplyLen(p, n) = HdrSize
  BY <1>1, <1>2, <1>3, <1>4, <1>5, <1>6, MaxSzAssumption
     DEF ReplyLen, AccessOf, ReadOps, WriteOps, CmosOps, LinkOps, ListOps
<1>8. /\ r \in PacketRecord /\ r.opCode = op + 1 /\ r.pktLen = ReplyLen(p, n)
      /\ r.errorCode = (IF ok \/ op \in LinkOps \cup ListOps THEN FDK_SUCCESS ELSE FDK_FAILURE)
  BY <1>1, <1>7 DEF HandleRequestPacket, SetResponse, PacketRecord
<1>9. /\ a.used \in Nat /\ a.used <= p.pktLen
      /\ a.end \in Nat /\ a.end <= FDK_MAXSZ_PKT
  <2>1. CASE op \in LinkOps
    BY <2>1, <1>1, <1>3 DEF AccessOf, ReadOps, WriteOps, LinkOps, ListOps
  <2>2. CASE op \in ListOps
    BY <2>2, <1>1, <1>3, <1>5, MaxSzAssumption DEF AccessOf, ReadOps, WriteOps, ListOps
  <2>3. CASE op \in ReadOps \cup {FDK_REQ_CMOS_READ}
    BY <2>3, <1>1, <1>2, <1>3, <1>4, <1>6, MaxSzAssumption
       DEF AccessOf, ReadOps, WriteOps, CmosOps, ListOps
  <2>4. CASE op \in WriteOps \cup {FDK_REQ_CMOS_WRITE}
    BY <2>4, <1>1, <1>2, <1>3, <1>6, MaxSzAssumption DEF AccessOf, ReadOps, WriteOps, ListOps
  <2> QED BY <1>6, <2>1, <2>2, <2>3, <2>4 DEF CmosOps
<1>10. /\ a.op = op /\ a.ok = ok /\ a.got = p.pktLen
       /\ a \in AccessRecord
  BY <1>1, <1>2, <1>9, MaxSzAssumption DEF AccessOf, AccessRecord
<1> QED BY <1>6, <1>7, <1>8, <1>9, <1>10

\* A call inside the fields of its packet: the request carries its address and
\* payload, and the server reads its size back (packet.c and CMOS_REQ_SIZE).
LEMMA RequestCarriesCall ==
  ASSUME NEW c \in Calls, RequestLen(c.op, c.size, c.data) > 0,
         NEW p, p = BuildRequest(c.op, c.addr, c.size, c.data)
  PROVE  /\ p \in PacketRecord /\ FitsFields(p) /\ p.opCode = c.op /\ c.op \in RequestOps
         /\ c.op \notin LinkOps \cup ListOps =>
              p.address = c.addr /\ ServedSize(p) = c.size /\ p.data = c.data
         /\ p.pktLen = RequestLen(c.op, c.size, c.data)
<1>1. /\ c \in CallRecord
      /\ c.op \in Nat /\ c.addr \in Nat /\ c.size \in Nat /\ c.data \in Payloads \cup {NoData}
      /\ c.op \in CmosOps => c.addr < 256 /\ c.size \in 1..256
      /\ c.op \in {FDK_REQ_IO_READ, FDK_REQ_IO_WRITE} => c.addr < 65536
      /\ c.op \in {FDK_REQ_PCI_READ, FDK_REQ_PCI_WRITE} => c.size < 65536
  BY CallsAssumption DEF CallRecord
<1>2. /\ ContentOffset(c.op) \in 8..20 /\ MaxPayload(c.op) \in Nat
      /\ ContentOffset(c.op) + MaxPayload(c.op) = FDK_MAXSZ_PKT
  BY <1>1, LayoutBounds
<1>3. c.op \in RequestOps
  BY <1>1 DEF RequestLen, RequestOps, LinkOps, ListOps, ReadOps, WriteOps
<1>4. RequestLen(c.op, c.size, c.data) \in HdrSize..FDK_MAXSZ_PKT
  BY <1>1, <1>2, MaxSzAssumption DEF RequestLen, FillPayload
<1>5. /\ NarrowAddr(c.op, c.addr) \in Nat
      /\ NarrowAddr(c.op, c.addr) = c.addr
  BY <1>1 DEF NarrowAddr
<1>6. /\ NarrowSize(c.op, c.size) \in Nat
      /\ c.op \in CmosOps => /\ NarrowSize(c.op, c.size) < 256
                             /\ CmosReqSize(NarrowSize(c.op, c.size)) = c.size
      /\ c.op \notin CmosOps => NarrowSize(c.op, c.size) = c.size
  BY <1>1 DEF NarrowSize, CmosReqSize, CmosOps
<1>7. /\ p.opCode = c.op /\ p.data = c.data /\ p.errorCode = 0
      /\ p.pktLen = RequestLen(c.op, c.size, c.data)
      /\ p.address = IF c.op \in LinkOps \cup ListOps THEN 0 ELSE NarrowAddr(c.op, c.addr)
      /\ p.size = IF c.op \in LinkOps \cup ListOps THEN 0 ELSE NarrowSize(c.op, c.size)
      /\ p = [opCode |-> p.opCode, errorCode |-> p.errorCode, pktLen |-> p.pktLen,
              address |-> p.address, size |-> p.size, data |-> p.data]
  BY DEF BuildRequest
<1>8. p.address \in Nat /\ p.size \in Nat
  BY <1>5, <1>6, <1>7
<1>9. p \in PacketRecord
  BY <1>1, <1>4, <1>7, <1>8 DEF PacketRecord
<1>10. FitsFields(p)
  BY <1>1, <1>5, <1>6, <1>7 DEF FitsFields
<1>11. c.op \notin LinkOps \cup ListOps =>
         p.address = c.addr /\ ServedSize(p) = c.size /\ p.data = c.data
  BY <1>5, <1>6, <1>7 DEF ServedSize
<1> QED BY <1>3, <1>7, <1>9, <1>10, <1>11

\* The server refuses only one kind of request a client can send.
LEMMA ClientRequestWellFormed ==
  ASSUME NEW c \in Calls, RequestLen(c.op, c.size, c.data) > 0,
         NEW p, p = BuildRequest(c.op, c.addr, c.size, c.data),
         ~WellFormed(p, p.pktLen)
  PROVE  c.op \in ReadOps /\ c.size > MaxPayload(c.op)
<1>1. /\ p.opCode = c.op /\ c.op \in RequestOps
      /\ c.op \notin LinkOps \cup ListOps => ServedSize(p) = c.size
      /\ p.pktLen = RequestLen(c.op, c.size, c.data)
  BY RequestCarriesCall
<1>2. c.op \in Nat /\ c.size \in Nat
  BY CallsAssumption DEF CallRecord
<1>3. ContentOffset(c.op) \in Nat /\ MaxPayload(c.op) \in Nat
  BY <1>2, LayoutBounds
<1>4. c.op \notin LinkOps \cup ListOps
  BY <1>1 DEF WellFormed
<1>5. c.op \notin WriteOps \cup {FDK_REQ_CMOS_WRITE}
  BY <1>1, <1>2, <1>3, <1>4
     DEF WellFormed, RequestLen, FillPayload, LinkOps, ListOps, ReadOps, WriteOps
<1>6. c.op # FDK_REQ_CMOS_READ
  BY <1>1, <1>2, <1>3, <1>4 DEF WellFormed, RequestLen, LinkOps, ListOps, ReadOps
<1>7. c.op \in ReadOps
  BY <1>1, <1>4, <1>5, <1>6 DEF RequestOps, LinkOps, ListOps, ReadOps, WriteOps
<1> QED
  BY <1>1, <1>2, <1>3, <1>4, <1>7 DEF WellFormed, RequestLen, LinkOps, ListOps

-----------------------------------------------------------------------------
(* The inductive invariant.                                                 *)

\* A fresh connection satisfies the invariant (main's calloc, fdkd.c).
LEMMA InitIInv == Init => IInv
<1> SUFFICES ASSUME Init PROVE IInv
  OBVIOUS
<1>1. NoCall \in CallRecord
  BY DEF NoCall, CallRecord
<1>2. FDK_MAXSZ_PKT \in Nat /\ FDK_MAXSZ_PKT >= HdrSize
  BY MaxSzAssumption, LayoutBounds
<1>3. NoPacket \in PacketRecord
  BY <1>2 DEF NoPacket, PacketRecord
<1>4. TypeOK
  BY <1>1, <1>3 DEF Init, TypeOK
<1> QED
  BY <1>4 DEF Init, IInv, RequestOnItsWay, ResponseTellsOutcome, AccessAsCalled, NoCall,
     ResultTellsOutcome, OnlyReceivedBytes, ReplyIsOfThisRequest, NackMeansUntouched,
     ClientRequestsAreServed

\* The server's step, with the facts it needs about request and answer.
LEMMA ServeIInv == IInv /\ Serve => IInv'
<1> SUFFICES ASSUME IInv, Serve PROVE IInv'
  OBVIOUS
<1> PICK ok \in BOOLEAN, n \in RecordCounts(packet.opCode) :
      /\ packet.opCode \in ListOps => ok
      /\ packet' = HandleRequestPacket(packet, packet.pktLen, ok, n)
      /\ access' = IF WellFormed(packet, packet.pktLen) /\ packet.opCode \notin LinkOps
                   THEN Append(access, AccessOf(packet, ok, n))
                   ELSE access
  BY DEF Serve
<1> DEFINE a == AccessOf(packet, ok, n)
<1>1. /\ TypeOK /\ access = <<>> /\ FitsFields(packet) /\ packet \in PacketRecord
      /\ pc = "sent" /\ pc' = "answered" /\ UNCHANGED <<link, sender, call, result>>
  BY DEF IInv, RequestOnItsWay, Serve, TypeOK
<1>2. sender = "client" =>
        /\ call \in Calls /\ RequestLen(call.op, call.size, call.data) > 0
        /\ packet = BuildRequest(call.op, call.addr, call.size, call.data)
  BY <1>1 DEF IInv, RequestOnItsWay
<1>3. CASE WellFormed(packet, packet.pktLen)
  <2>2. /\ packet' \in PacketRecord /\ packet'.opCode = packet.opCode + 1
        /\ packet'.errorCode = (IF ok \/ packet.opCode \in LinkOps \cup ListOps
                                THEN FDK_SUCCESS ELSE FDK_FAILURE)
        /\ a \in AccessRecord
        /\ a.op = packet.opCode /\ a.ok = ok
        /\ a.used <= a.got /\ a.end <= FDK_MAXSZ_PKT
        /\ packet'.pktLen = HdrSize \/ packet'.pktLen <= a.got \/ packet'.pktLen <= a.end
        /\ packet.opCode \in LinkOps => packet'.pktLen = HdrSize
    BY <1>1, <1>3, WellFormedAnswer
  <2>3. access' = IF packet.opCode \notin LinkOps THEN Append(<<>>, a) ELSE <<>>
    BY <1>1, <1>3
  <2>5. packet'.opCode # FDK_RSP_NACK
    <3>1. packet.opCode \in LinkOps \cup ListOps \cup ReadOps \cup WriteOps \cup CmosOps
      BY <1>1, <1>3, WellFormedAnswer
    <3> QED BY <2>2, <3>1, SMTT(40) DEF LinkOps, ListOps, ReadOps, WriteOps, CmosOps
  <2>6. sender = "client" =>
          /\ packet.opCode = call.op
          /\ call.op \notin LinkOps \cup ListOps =>
               packet.address = call.addr /\ ServedSize(packet) = call.size /\ packet.data = call.data
    BY <1>2, RequestCarriesCall
  <2>1. a.addr = packet.address /\ a.size = ServedSize(packet) /\ a.data = packet.data
    BY DEF AccessOf
  <2> HIDE DEF a
  <2>4. /\ packet.opCode \in LinkOps => access' = <<>> /\ Len(access') = 0
        /\ packet.opCode \notin LinkOps => access' = <<a>> /\ Len(access') = 1 /\ access'[1] = a
    <3>1. Append(<<>>, a) = <<a>>
      OBVIOUS
    <3>2. Len(<<a>>) = 1 /\ <<a>>[1] = a /\ Len(<<>>) = 0
      OBVIOUS
    <3> QED BY <2>3, <3>1, <3>2
  <2>8. TypeOK' /\ (Len(access) <= 1)'
    <3>1. <<a>> \in Seq(AccessRecord) /\ <<>> \in Seq(AccessRecord)
      BY <2>2
    <3>2. access' \in Seq(AccessRecord)
      BY <2>4, <3>1
    <3>3. Len(access') <= 1
      BY <2>4
    <3> QED BY <1>1, <2>2, <3>2, <3>3 DEF TypeOK
  <2>9. RequestOnItsWay' /\ ResultTellsOutcome' /\ ClientRequestsAreServed'
    BY <1>1, <2>5 DEF RequestOnItsWay, ResultTellsOutcome, ClientRequestsAreServed
  <2>10. ResponseTellsOutcome'
    BY <1>1, <2>2, <2>4, <2>6 DEF ResponseTellsOutcome, LinkOps, ListOps
  <2>11. AccessAsCalled'
    BY <1>1, <2>1, <2>2, <2>4, <2>6 DEF AccessAsCalled
  <2>12. OnlyReceivedBytes'
    BY <2>2, <2>4 DEF OnlyReceivedBytes, AccessRecord
  <2>13. ReplyIsOfThisRequest'
    BY <1>1, <2>2, <2>4, SMTT(40) DEF ReplyIsOfThisRequest, PacketRecord, AccessRecord
  <2>14. NackMeansUntouched'
    BY <1>1, <2>2, <2>4, <2>5 DEF NackMeansUntouched, PacketRecord
  <2> QED
    BY <2>8, <2>9, <2>10, <2>11, <2>12, <2>13, <2>14 DEF IInv
<1>4. CASE ~WellFormed(packet, packet.pktLen)
  <2>1. access' = <<>>
    BY <1>1, <1>4
  <2>2. /\ packet' \in PacketRecord /\ packet'.opCode = FDK_RSP_NACK
        /\ packet'.errorCode = FDK_FAILURE /\ packet'.pktLen = HdrSize
    BY <1>1, <1>4, MaxSzAssumption, LayoutBounds DEF HandleRequestPacket, SetResponse, PacketRecord
  <2>3. TypeOK' /\ (Len(access) <= 1)'
    BY <1>1, <2>1, <2>2 DEF TypeOK
  <2>4. ReplyIsOfThisRequest'
    BY <2>2, MaxSzAssumption, LayoutBounds DEF ReplyIsOfThisRequest, PacketRecord
  <2>5. ClientRequestsAreServed'
    BY <1>1, <1>2, <1>4, ClientRequestWellFormed DEF ClientRequestsAreServed
  <2>6. NackMeansUntouched' /\ ResponseTellsOutcome'
    BY <1>1, <2>1, <2>2 DEF NackMeansUntouched, ResponseTellsOutcome
  <2> QED
    BY <1>1, <2>1, <2>3, <2>4, <2>5, <2>6
       DEF IInv, RequestOnItsWay, AccessAsCalled, ResultTellsOutcome, OnlyReceivedBytes
<1> QED BY <1>3, <1>4

\* Every other step preserves the invariant.
LEMMA NextIInv == IInv /\ [Next]_vars => IInv'
<1> SUFFICES ASSUME IInv, [Next]_vars PROVE IInv'
  OBVIOUS
<1>0. /\ NoCall \in CallRecord /\ NoPacket \in PacketRecord
      /\ <<>> \in Seq(AccessRecord) /\ Len(<<>>) = 0
  <2>1. FDK_MAXSZ_PKT \in Nat /\ FDK_MAXSZ_PKT >= HdrSize
    BY MaxSzAssumption, LayoutBounds
  <2> QED BY <2>1 DEF NoCall, NoPacket, CallRecord, PacketRecord
<1> USE DEF IInv
<1>1. ASSUME NEW c \in Calls, Call(c) PROVE IInv'
  <2>1. packet' \in PacketRecord /\ FitsFields(packet') /\ call' \in CallRecord
    BY <1>1, RequestCarriesCall, CallsAssumption DEF Call
  <2>2. TypeOK'
    BY <1>0, <1>1, <2>1 DEF Call, TypeOK
  <2> QED
    BY <1>0, <1>1, <2>1, <2>2 DEF Call, RequestOnItsWay, ResponseTellsOutcome, AccessAsCalled,
       ResultTellsOutcome, OnlyReceivedBytes, ReplyIsOfThisRequest, NackMeansUntouched,
       ClientRequestsAreServed
<1>2. ASSUME NEW c \in Calls, CallRejected(c) PROVE IInv'
  <2>1. TypeOK'
    BY <1>0, <1>2, CallsAssumption DEF CallRejected, TypeOK
  <2> QED
    BY <1>0, <1>2, <2>1 DEF CallRejected, RequestOnItsWay, ResponseTellsOutcome, AccessAsCalled,
       ResultTellsOutcome, OnlyReceivedBytes, ReplyIsOfThisRequest, NackMeansUntouched,
       ClientRequestsAreServed
<1>3. ASSUME NEW p \in PeerPackets, PeerSends(p) PROVE IInv'
  <2>1. p \in PacketRecord /\ FitsFields(p)
    BY PeerPacketsAssumption DEF FitsFields
  <2>2. TypeOK'
    BY <1>0, <1>3, <2>1 DEF PeerSends, TypeOK
  <2> QED
    BY <1>0, <1>3, <2>1, <2>2 DEF PeerSends, RequestOnItsWay, ResponseTellsOutcome, AccessAsCalled,
       ResultTellsOutcome, OnlyReceivedBytes, ReplyIsOfThisRequest, NackMeansUntouched,
       ClientRequestsAreServed
<1>4. CASE Serve
  BY <1>4, ServeIInv
<1>5. CASE Return
  <2>1. TypeOK'
    BY <1>0, <1>5 DEF Return, TypeOK
  <2>2. RequestOnItsWay' /\ ResponseTellsOutcome' /\ ReplyIsOfThisRequest'
        /\ NackMeansUntouched' /\ ClientRequestsAreServed' /\ (Len(access) <= 1)'
    BY <1>0, <1>5 DEF Return, RequestOnItsWay, ResponseTellsOutcome, ReplyIsOfThisRequest,
       NackMeansUntouched, ClientRequestsAreServed
  <2>3. AccessAsCalled' /\ OnlyReceivedBytes'
    BY <1>0, <1>5 DEF Return, AccessAsCalled, OnlyReceivedBytes
  <2>4. ResultTellsOutcome'
    BY <1>5 DEF Return, ResultTellsOutcome, ResponseTellsOutcome, VerifyResponse
  <2> QED BY <2>1, <2>2, <2>3, <2>4
<1>6. CASE Break
  <2>1. TypeOK'
    BY <1>0, <1>6 DEF Break, TypeOK
  <2> QED
    BY <1>0, <1>6, <2>1 DEF Break, RequestOnItsWay, ResponseTellsOutcome, AccessAsCalled,
       ResultTellsOutcome, OnlyReceivedBytes, ReplyIsOfThisRequest, NackMeansUntouched,
       ClientRequestsAreServed
<1>7. ASSUME NEW s \in {"client", "peer"}, Connect(s) PROVE IInv'
  <2>1. TypeOK'
    BY <1>0, <1>7 DEF Connect, TypeOK
  <2> QED
    BY <1>0, <1>7, <2>1 DEF Connect, RequestOnItsWay, ResponseTellsOutcome, AccessAsCalled, NoCall,
       ResultTellsOutcome, OnlyReceivedBytes, ReplyIsOfThisRequest, NackMeansUntouched,
       ClientRequestsAreServed
<1>8. CASE UNCHANGED vars
  BY <1>8 DEF vars, TypeOK, RequestOnItsWay, ResponseTellsOutcome, AccessAsCalled,
     ResultTellsOutcome, OnlyReceivedBytes, ReplyIsOfThisRequest, NackMeansUntouched,
     ClientRequestsAreServed
<1> QED
  BY <1>1, <1>2, <1>3, <1>4, <1>5, <1>6, <1>7, <1>8 DEF Next

-----------------------------------------------------------------------------
(* The theorems.                                                            *)

\* The conjunction of the properties below is inductive as IInv states it.
THEOREM Inductive == Spec => []IInv
BY InitIInv, NextIInv, PTL DEF Spec

\* Type correctness of one connection.
THEOREM TypeCorrect == Spec => []TypeOK
BY Inductive, PTL DEF IInv

\* The server carries out the call the client made, or nothing: narrowed
\* fields and the 0 that stands for 256 lose no call inside the fields.
THEOREM AccessesAreCalls == Spec => []AccessAsCalled
BY Inductive, PTL DEF IInv

\* A call reported as successful was carried out, one reported as refused was not.
THEOREM ResultsAreOutcomes == Spec => []ResultTellsOutcome
BY Inductive, PTL DEF IInv

\* Whatever a peer sends, the handler stays inside the received bytes and the
\* buffer, for every buffer that holds a full CMOS reply.
THEOREM HandlerStaysInBuffer == Spec => []OnlyReceivedBytes
BY Inductive, PTL DEF IInv

\* No response carries bytes of an earlier request.
THEOREM RepliesCarryNothingOld == Spec => []ReplyIsOfThisRequest
BY Inductive, PTL DEF IInv

\* A refused request touched no hardware.
THEOREM RefusalsAreHarmless == Spec => []NackMeansUntouched
BY Inductive, PTL DEF IInv

\* The only requests of cfdk and memvr the server refuses are reads of more than
\* a response holds: the client's other limits are within the server's.
THEOREM ClientsAreServed == Spec => []ClientRequestsAreServed
BY Inductive, PTL DEF IInv

=============================================================================
