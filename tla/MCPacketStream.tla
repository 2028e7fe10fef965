---------------------------- MODULE MCPacketStream ----------------------------
(* PacketStream with headers of two bytes and a buffer of four: lengths below  *)
(* the header, equal to it, inside, at and above the buffer.                   *)
EXTENDS PacketStream

=============================================================================
