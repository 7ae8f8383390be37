--------------------------- MODULE MCPacketReader ---------------------------
(***************************************************************************)
(* A small instance of PacketReader: packets of different lengths, in a    *)
(* buffer that holds one and the start of the next; a header may also say  *)
(* nothing, its own size, more than the buffer, or less than nothing.      *)
(***************************************************************************)
EXTENDS PacketReader

MCPacketLengths == <<5, 3, 4, 3>>

MCBadLengths == {0, 2, 8, -1}
=============================================================================
