CONSTANTS
  FDK_MAXSZ_PKT <- MCMaxSz
  NoData = NoData
  Payloads <- MCPayloads
  Calls <- MCCalls
  PeerPackets <- MCPeerPackets

SPECIFICATION Spec
INVARIANTS
  TypeOK
  AccessAsCalled
  ResultTellsOutcome
  OnlyReceivedBytes
  ReplyIsOfThisRequest
  
  ClientRequestsAreServed
