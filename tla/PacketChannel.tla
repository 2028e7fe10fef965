---------------------------- MODULE PacketChannel ----------------------------
(***************************************************************************)
(* What readPacket and writePacket (include/packet.h, the comments at the  *)
(* end) promise their callers over one direction of a connection: whole    *)
(* packets, in order, each at most once, of acceptable length only, and    *)
(* nothing more after the first 0 or -1.                                   *)
(***************************************************************************)
EXTENDS Naturals, Sequences

CONSTANTS Lengths,     \* lengths a header may claim
          Acceptable   \* those the receiver takes

VARIABLES sent,      \* lengths of the packets handed to writePacket
          received,  \* lengths of the packets readPacket returned
          verdict    \* its last result: "none" yet, "packet", "end" (0) or "error" (-1)

vars == <<sent, received, verdict>>

Init == sent = <<>> /\ received = <<>> /\ verdict = "none"

Send(len) == sent' = Append(sent, len) /\ UNCHANGED <<received, verdict>>

Deliver ==
  /\ verdict \in {"none", "packet"} /\ Len(received) < Len(sent)
  /\ sent[Len(received) + 1] \in Acceptable
  /\ received' = Append(received, sent[Len(received) + 1]) /\ verdict' = "packet"
  /\ UNCHANGED sent

Stop ==
  /\ verdict \in {"none", "packet"}
  /\ verdict' \in {"end", "error"}
  /\ UNCHANGED <<sent, received>>

Next == (\E len \in Lengths : Send(len)) \/ Deliver \/ Stop

Spec == Init /\ [][Next]_vars

=============================================================================
