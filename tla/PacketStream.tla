----------------------------- MODULE PacketStream -----------------------------
(***************************************************************************)
(* One direction of a connection, byte by byte (lib/packet.c): writePacket *)
(* and readPacket on top of transferAll, which moves as many bytes as the  *)
(* socket takes or has, tries again after EINTR, and gives up at the end   *)
(* of the stream or at an error.  The socket is the kernel's: a bounded    *)
(* buffer that keeps the order of bytes, can be closed by the sender at    *)
(* any byte (the process ends) and can be reset, which drops its content.  *)
(*                                                                         *)
(* A byte is <<n, i>>, the i-th of the n-th packet; a header is HdrLen     *)
(* bytes and carries pktLen.  A result EINTR changes nothing and is a      *)
(* stuttering step.                                                        *)
(***************************************************************************)
EXTENDS Integers, Sequences

CONSTANTS HdrLen,     \* sizeof(fdkCommHdr_t)
          BufLen,     \* lenPktBuf, the receiver's buffer
          Lengths,    \* pktLen values that are sent
          MaxPackets, \* bound: packets sent
          Capacity    \* bytes the socket holds

ASSUME PacketStreamAssumption ==
  /\ HdrLen \in Nat \ {0} /\ BufLen \in Nat /\ BufLen >= HdrLen
  /\ Lengths \subseteq Nat /\ MaxPackets \in Nat /\ Capacity \in Nat \ {0}

VARIABLES sent,      \* pktLen of the packets whose writing has begun
          written,   \* bytes of the last of them written so far (`done')
          sender,    \* "idle", "writing", "failed" (writePacket -1) or "closed"
          stream,    \* bytes in the socket
          link,      \* "up" or "reset"
          phase,     \* the receiver: in the "header", in the "body" or "stopped"
          buf,       \* pktBuf: the bytes of the current packet read so far
          received,  \* pktLen of the packets readPacket returned
          verdict    \* its last result, as in PacketChannel

vars == <<sent, written, sender, stream, link, phase, buf, received, verdict>>

\* A sender puts pktLen bytes on the wire, and at least a header.
WireLen(len) == IF len < HdrLen THEN HdrLen ELSE len

\* Type invariant.
TypeOK ==
  /\ sent \in Seq(Lengths) /\ Len(sent) <= MaxPackets
  /\ written \in Nat /\ (sent # <<>> => written <= WireLen(sent[Len(sent)]))
  /\ sender \in {"idle", "writing", "failed", "closed"}
  /\ Len(stream) <= Capacity /\ \A i \in 1..Len(stream) : stream[i][1] \in 1..Len(sent)
  /\ link \in {"up", "reset"} /\ phase \in {"header", "body", "stopped"}
  /\ received \in Seq(HdrLen..BufLen)
  /\ verdict \in {"none", "packet", "end", "error"}

Init ==
  /\ sent = <<>> /\ written = 0 /\ sender = "idle" /\ stream = <<>> /\ link = "up"
  /\ phase = "header" /\ buf = <<>> /\ received = <<>> /\ verdict = "none"

Least(a, b) == IF a < b THEN a ELSE b

-----------------------------------------------------------------------------
(* writePacket.                                                             *)

BeginWrite(len) ==
  /\ sender = "idle" /\ Len(sent) < MaxPackets
  /\ sent' = Append(sent, len) /\ written' = 0 /\ sender' = "writing"
  /\ UNCHANGED <<stream, link, phase, buf, received, verdict>>

\* Mutant: a short write is taken for a complete one.
WriteSomeOnce ==
  LET n == Len(sent)
      left == WireLen(sent[n]) - written
  IN  /\ sender = "writing" /\ link = "up" /\ phase # "stopped"
      /\ \E k \in 1..Least(left, Capacity - Len(stream)) :
           /\ stream' = stream \o [i \in 1..k |-> <<n, written + i>>]
           /\ written' = written + k
           /\ sender' = "idle"
      /\ UNCHANGED <<sent, link, phase, buf, received, verdict>>

\* write() takes some of the remaining bytes, as many as there is room for.
WriteSome ==
  LET n == Len(sent)
      left == WireLen(sent[n]) - written
  IN  /\ sender = "writing" /\ link = "up" /\ phase # "stopped"
      /\ \E k \in 1..Least(left, Capacity - Len(stream)) :
           /\ stream' = stream \o [i \in 1..k |-> <<n, written + i>>]
           /\ written' = written + k
           /\ sender' = IF k = left THEN "idle" ELSE "writing"
      /\ UNCHANGED <<sent, link, phase, buf, received, verdict>>

\* write() fails: the connection is reset or the receiver has closed it.
WriteFails ==
  /\ sender = "writing" /\ (link = "reset" \/ phase = "stopped")
  /\ sender' = "failed"
  /\ UNCHANGED <<sent, written, stream, link, phase, buf, received, verdict>>

-----------------------------------------------------------------------------
(* readPacket.                                                              *)

ClaimedLen(bytes) == sent[bytes[1][1]]

\* Mutant: only the lower bound of pktLen is checked.
LengthOKNoUpper(len) == len >= HdrLen

LengthOK(len) == len >= HdrLen /\ len <= BufLen

\* Where the reader goes with these bytes in its buffer: it returns a complete
\* packet, stops at a bad length, or reads on.
ReaderTakes(bytes) ==
  LET complete == Len(bytes) >= HdrLen /\ Len(bytes) = ClaimedLen(bytes)
      bad      == Len(bytes) = HdrLen /\ ~LengthOK(ClaimedLen(bytes))
  IN  /\ buf'      = IF complete /\ ~bad THEN <<>> ELSE bytes
      /\ received' = IF complete /\ ~bad THEN Append(received, Len(bytes)) ELSE received
      /\ verdict'  = IF bad THEN "error" ELSE IF complete THEN "packet" ELSE verdict
      /\ phase'    = IF bad THEN "stopped"
                     ELSE IF complete \/ Len(bytes) < HdrLen THEN "header" ELSE "body"

\* Mutant: the header is asked for together with whatever follows it.
WantedGreedy == IF phase = "header" THEN BufLen - Len(buf) ELSE ClaimedLen(buf) - Len(buf)

\* Bytes transferAll still asks for.
Wanted == IF phase = "header" THEN HdrLen - Len(buf) ELSE ClaimedLen(buf) - Len(buf)

\* read() returns some of the bytes wanted.
ReadSome ==
  /\ phase # "stopped"
  /\ \E k \in 1..Least(Wanted, Len(stream)) :
       /\ ReaderTakes(buf \o SubSeq(stream, 1, k))
       /\ stream' = SubSeq(stream, k + 1, Len(stream))
  /\ UNCHANGED <<sent, written, sender, link>>

\* Mutant: a packet cut short by the end of the stream counts as the end.
ReadEndsQuietly ==
  /\ phase # "stopped" /\ stream = <<>> /\ (sender = "closed" \/ link = "reset")
  /\ verdict' = "end"
  /\ phase' = "stopped"
  /\ UNCHANGED <<sent, written, sender, stream, link, buf, received>>

\* read() returns 0 or an error: 0 before the first byte of a packet, else -1.
ReadEnds ==
  /\ phase # "stopped" /\ stream = <<>> /\ (sender = "closed" \/ link = "reset")
  /\ verdict' = IF buf = <<>> THEN "end" ELSE "error"
  /\ phase' = "stopped"
  /\ UNCHANGED <<sent, written, sender, stream, link, buf, received>>

-----------------------------------------------------------------------------
(* The environment: the sender's process ends, the connection is reset.     *)

SenderCloses ==
  /\ sender \in {"idle", "writing"} /\ sender' = "closed"
  /\ UNCHANGED <<sent, written, stream, link, phase, buf, received, verdict>>

Reset ==
  /\ link = "up" /\ phase # "stopped"
  /\ link' = "reset" /\ stream' = <<>>
  /\ UNCHANGED <<sent, written, sender, phase, buf, received, verdict>>

Next ==
  \/ \E len \in Lengths : BeginWrite(len)
  \/ WriteSome \/ WriteFails \/ ReadSome \/ ReadEnds \/ SenderCloses \/ Reset

\* A sender in the middle of a packet and a receiver with bytes to read run on;
\* signals that interrupt every single call for ever are left out.
Fairness == WF_vars(WriteSome) /\ WF_vars(WriteFails) /\ WF_vars(ReadSome) /\ WF_vars(ReadEnds)

Spec == Init /\ [][Next]_vars /\ Fairness

-----------------------------------------------------------------------------
(* Properties.                                                              *)

\* However the bytes were cut, the buffer holds the first bytes of exactly the
\* next packet, and never more than it has room for.
FramingNeverSlips ==
  /\ Len(buf) <= BufLen
  /\ \A i \in 1..Len(buf) : buf[i] = <<Len(received) + 1, i>>

\* readPacket reports the end of the stream (0) only between packets: what was
\* completely sent on a connection that was not reset has been received.
EndIsBetweenPackets ==
  verdict = "end" =>
    /\ buf = <<>>
    /\ link = "up" =>
         \/ Len(received) = Len(sent)
         \/ Len(received) = Len(sent) - 1 /\ written = 0  \* not a byte of it was sent

\* The stream gives its callers what PacketChannel promises.
Channel == INSTANCE PacketChannel WITH Acceptable <- HdrLen..BufLen
ImplementsChannel == Channel!Spec

\* A packet whose writing has begun is received, unless its sender ends, the
\* connection breaks, or the receiver has stopped at an earlier packet.
BegunIsReceived ==
  \A n \in 1..MaxPackets :
    (Len(sent) >= n) ~> (Len(received) >= n \/ phase = "stopped")

=============================================================================
