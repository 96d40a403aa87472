--------------------------- MODULE MCPacketBuffer ---------------------------
(***************************************************************************)
(* PacketBuffer for TLC: a full block, one with the same seqnum 256        *)
(* packets later, the short last one and the end of the file, in a buffer  *)
(* of 28 bytes, so that a block has 4.                                     *)
(***************************************************************************)
EXTENDS PacketBuffer

SomeIds == {0, 256, 257, 258}
TwoStamps == {0, 500001}

(* No length, one within a block, two that pkt_set_length would take but   *)
(* that reach past the buffer's end, and one it would not.                 *)
SomeLengths == {0, 3, MaxBuffer - 15, MaxPayload, MaxPayload + 1}
=============================================================================
