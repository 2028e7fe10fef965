------------------------------ MODULE FdkPacket ------------------------------
(***************************************************************************)
(* The fdk wire protocol: operation codes, packet layout, how a client     *)
(* builds a request (lib/packet.c, executeFunction), how the server judges *)
(* and answers it (src_fdkd/handler.c, handleRequestPacket), and how the   *)
(* client recognises the answer (lib/packet.c, verifyResponsePacket).      *)
(*                                                                         *)
(* A packet is a record of the header fields and of the address and size   *)
(* fields its operation defines.  Payload bytes are a token: the           *)
(* properties tell apart whose payload it is and how many bytes of it      *)
(* there are, never their values.                                          *)
(***************************************************************************)
EXTENDS Integers

CONSTANTS FDK_MAXSZ_PKT,   \* largest packet either side sends or accepts
          NoData           \* the NULL payload pointer of a read or list call

FDK_REQ_CONNECT    == 1
FDK_REQ_DISCONNECT == 3
FDK_REQ_MEM_READ   == 5
FDK_REQ_MEM_WRITE  == 7
FDK_REQ_IO_READ    == 9
FDK_REQ_IO_WRITE   == 11
FDK_REQ_PCI_READ   == 13
FDK_REQ_PCI_WRITE  == 15
FDK_REQ_IDE_READ   == 17
FDK_REQ_IDE_WRITE  == 19
FDK_REQ_CMOS_READ  == 21
FDK_REQ_CMOS_WRITE == 23
FDK_REQ_PCI_LIST   == 25
FDK_REQ_E820_LIST  == 27
FDK_RSP_CPU_EXCEPTION == 29
FDK_RSP_NACK          == 30

FDK_SUCCESS == 0
FDK_FAILURE == 1

RequestOps == {op \in FDK_REQ_CONNECT..FDK_REQ_E820_LIST : op % 2 = 1}
LinkOps    == {FDK_REQ_CONNECT, FDK_REQ_DISCONNECT}
ListOps    == {FDK_REQ_PCI_LIST, FDK_REQ_E820_LIST}
CmosOps    == {FDK_REQ_CMOS_READ, FDK_REQ_CMOS_WRITE}
\* Reads and writes whose size field is as wide as the sizes in use.
ReadOps    == {FDK_REQ_MEM_READ, FDK_REQ_IO_READ, FDK_REQ_PCI_READ, FDK_REQ_IDE_READ}
WriteOps   == {FDK_REQ_MEM_WRITE, FDK_REQ_IO_WRITE, FDK_REQ_PCI_WRITE, FDK_REQ_IDE_WRITE}

-----------------------------------------------------------------------------
(* Layout.  The structures are packed; a read request and a write response  *)
(* of an operation end where the payload of its other packets starts.       *)

FDK_CMOS_SIZE == 256
HdrSize       == 8

ContentOffset(op) ==
  IF op \in {FDK_REQ_MEM_READ, FDK_REQ_MEM_WRITE,
               FDK_REQ_IDE_READ, FDK_REQ_IDE_WRITE} THEN HdrSize + 12
  ELSE IF op \in {FDK_REQ_IO_READ, FDK_REQ_IO_WRITE,
               FDK_REQ_PCI_READ, FDK_REQ_PCI_WRITE} THEN HdrSize + 6
  ELSE IF op \in CmosOps THEN HdrSize + 2
  ELSE IF op \in ListOps THEN HdrSize + 4
  ELSE HdrSize

MaxPayload(op) == FDK_MAXSZ_PKT - ContentOffset(op)

RecordSize(op) == IF op = FDK_REQ_PCI_LIST THEN 8 ELSE 24
MaxRecords(op) == MaxPayload(op) \div RecordSize(op)

\* CMOS replies are built without a size check: the largest must fit.
ASSUME MaxSzAssumption ==
  /\ FDK_MAXSZ_PKT \in Nat
  /\ FDK_MAXSZ_PKT >= ContentOffset(FDK_REQ_CMOS_READ) + FDK_CMOS_SIZE

-----------------------------------------------------------------------------
(* The client: executeFunction.  Address and size are narrowed to the       *)
(* fields of the packet; 64- and 32-bit fields hold every value in use.     *)

NarrowAddr(op, addr) ==
  IF op \in CmosOps THEN addr % 256
  ELSE IF op \in {FDK_REQ_IO_READ, FDK_REQ_IO_WRITE} THEN addr % 65536
  ELSE addr

NarrowSize(op, size) ==
  IF op \in CmosOps THEN size % 256
  ELSE IF op \in {FDK_REQ_PCI_READ, FDK_REQ_PCI_WRITE} THEN size % 65536
  ELSE size

\* Mutant: the limit forgets the fixed fields before the payload.
FillPayloadNoOffset(op, size, data) ==
  IF data = NoData \/ size = 0 \/ size > FDK_MAXSZ_PKT
  THEN 0 ELSE ContentOffset(op) + size

\* Length of a write request, 0 when its payload is missing, empty or too large.
FillPayload(op, size, data) ==
  IF data = NoData \/ size = 0 \/ size > MaxPayload(op)
  THEN 0 ELSE ContentOffset(op) + size

\* Length of the request, 0 when the operation is not one or has no valid payload.
RequestLen(op, size, data) ==
  IF op \in LinkOps \cup ListOps THEN HdrSize
  ELSE IF op \in ReadOps \cup {FDK_REQ_CMOS_READ} THEN ContentOffset(op)
  ELSE IF op \in WriteOps \cup {FDK_REQ_CMOS_WRITE} THEN FillPayload(op, size, data)
  ELSE 0

BuildRequest(op, addr, size, data) ==
  [opCode    |-> op,
   errorCode |-> FDK_SUCCESS,
   pktLen    |-> RequestLen(op, size, data),
   address   |-> IF op \in LinkOps \cup ListOps THEN 0 ELSE NarrowAddr(op, addr),
   size      |-> IF op \in LinkOps \cup ListOps THEN 0 ELSE NarrowSize(op, size),
   data      |-> data]

VerifyResponse(rsp, op) ==
  /\ rsp.opCode \notin {FDK_RSP_NACK, FDK_RSP_CPU_EXCEPTION}
  /\ op \in RequestOps
  /\ rsp.opCode = op + 1

-----------------------------------------------------------------------------
(* The server: handleRequestPacket, for a request of rByte received bytes.  *)

\* Mutant: the 0 that stands for 256 is taken literally.
CmosReqSizeLiteral(sz) == sz

CmosReqSize(sz) == IF sz = 0 THEN FDK_CMOS_SIZE ELSE sz

ServedSize(pkt) == IF pkt.opCode \in CmosOps THEN CmosReqSize(pkt.size) ELSE pkt.size

\* Mutant: a write is not checked against the bytes received.
WellFormedAnyLength(pkt, rByte) ==
  LET op == pkt.opCode
      sz == ServedSize(pkt)
  IN  \/ op \in LinkOps \cup ListOps
      \/ op \in ReadOps            /\ rByte >= ContentOffset(op) /\ sz <= MaxPayload(op)
      \/ op \in WriteOps           /\ sz <= MaxPayload(op)
      \/ op \in CmosOps            /\ rByte >= ContentOffset(op)

\* Mutant: the length check is off by one.
WellFormedOffByOne(pkt, rByte) ==
  LET op == pkt.opCode
      sz == ServedSize(pkt)
  IN  \/ op \in LinkOps \cup ListOps
      \/ op \in ReadOps            /\ rByte >= ContentOffset(op) /\ sz < MaxPayload(op)
      \/ op \in WriteOps           /\ sz < MaxPayload(op) /\ rByte >= ContentOffset(op) + sz
      \/ op = FDK_REQ_CMOS_READ    /\ rByte >= ContentOffset(op)
      \/ op = FDK_REQ_CMOS_WRITE   /\ rByte >= ContentOffset(op) + sz

WellFormed(pkt, rByte) ==
  LET op == pkt.opCode
      sz == ServedSize(pkt)
  IN  \/ op \in LinkOps \cup ListOps
      \/ op \in ReadOps            /\ rByte >= ContentOffset(op) /\ sz <= MaxPayload(op)
      \/ op \in WriteOps           /\ sz <= MaxPayload(op) /\ rByte >= ContentOffset(op) + sz
      \/ op = FDK_REQ_CMOS_READ    /\ rByte >= ContentOffset(op)
      \/ op = FDK_REQ_CMOS_WRITE   /\ rByte >= ContentOffset(op) + sz

\* Mutant: a list answer is sent at its full capacity.
ReplyLenFull(pkt, n) ==
  LET op == pkt.opCode
  IN  IF op \in LinkOps THEN HdrSize
      ELSE IF op \in ReadOps \cup {FDK_REQ_CMOS_READ} THEN ContentOffset(op) + ServedSize(pkt)
      ELSE IF op \in ListOps THEN FDK_MAXSZ_PKT
      ELSE ContentOffset(op)

ReplyLen(pkt, n) ==
  LET op == pkt.opCode
  IN  IF op \in LinkOps THEN HdrSize
      ELSE IF op \in ReadOps \cup {FDK_REQ_CMOS_READ} THEN ContentOffset(op) + ServedSize(pkt)
      ELSE IF op \in ListOps THEN ContentOffset(op) + n * RecordSize(op)
      ELSE ContentOffset(op)

\* Mutant: the error code of the request stays in the response.
SetResponseKeepsError(pkt, op, len, success) ==
  [opCode |-> op, errorCode |-> pkt.errorCode, pktLen |-> len,
   address |-> pkt.address, size |-> pkt.size, data |-> pkt.data]

\* The request buffer becomes the response; address and size stay in place.
SetResponse(pkt, op, len, success) ==
  [opCode |-> op, errorCode |-> IF success THEN FDK_SUCCESS ELSE FDK_FAILURE, pktLen |-> len,
   address |-> pkt.address, size |-> pkt.size, data |-> pkt.data]

\* Mutant: a refused request is reported as a success.
HandleRequestPacketNoFailure(pkt, rByte, ok, n) ==
  IF WellFormed(pkt, rByte)
  THEN SetResponse(pkt, pkt.opCode + 1, ReplyLen(pkt, n),
                   ok \/ pkt.opCode \in LinkOps \cup ListOps)
  ELSE SetResponse(pkt, FDK_RSP_NACK, HdrSize, TRUE)

\* ok: outcome of the hardware access; n: number of records of a list.
HandleRequestPacket(pkt, rByte, ok, n) ==
  IF WellFormed(pkt, rByte)
  THEN SetResponse(pkt, pkt.opCode + 1, ReplyLen(pkt, n),
                   ok \/ pkt.opCode \in LinkOps \cup ListOps)
  ELSE SetResponse(pkt, FDK_RSP_NACK, HdrSize, FALSE)

=============================================================================
