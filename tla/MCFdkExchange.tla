---------------------------- MODULE MCFdkExchange ----------------------------
(* FdkExchange with the real packet size, every operation, and sizes on both *)
(* sides of every limit.                                                     *)
EXTENDS FdkExchange

MCMaxSz == 8192
MCPayloads == {"bytes", "junk"}

\* 16 and 300 are no operations; sizes surround 0, a page and the largest payload.
MCSizes == {0, 1, 256, MCMaxSz - 20, MCMaxSz - 14, MCMaxSz - 13, MCMaxSz - 10}

MCCalls ==
  {c \in [op : RequestOps \cup {16}, addr : {0, 1, 255, 65535}, size : MCSizes,
          data : {NoData, "bytes"}] :
     /\ c.op \in CmosOps => c.addr < 256 /\ c.size \in 1..256
     /\ c.op \in LinkOps \cup ListOps \cup {16} => c.addr = 0 /\ c.size = 0 /\ c.data = NoData
     /\ c.op \in ReadOps \cup {FDK_REQ_CMOS_READ} => c.data = NoData}

\* Packets as long as a header, as the fixed fields of each operation, and one
\* byte around the payloads of the sizes below.
MCPeerPackets ==
  {p \in [opCode : RequestOps \cup {0, 2, 29, 30}, errorCode : {0},
          pktLen : {8, 9, 10, 11, 13, 14, 15, 19, 20, 21, 265, 266, 276, MCMaxSz},
          address : {0, 255, 65535},
          size : {0, 1, 255, 256, MCMaxSz - 20, MCMaxSz - 14, MCMaxSz - 13, MCMaxSz},
          data : {"junk"}] :
     /\ p.opCode \in CmosOps => p.address < 256 /\ p.size < 256
     /\ p.opCode \notin CmosOps => p.address # 255
     /\ p.opCode \in LinkOps \cup ListOps => p.address = 0 /\ p.size = 0}

=============================================================================
