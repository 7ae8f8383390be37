--------------------------- MODULE MCPacketWriter ---------------------------
(***************************************************************************)
(* Small instances of PacketWriter.                                        *)
(***************************************************************************)
EXTENDS PacketWriter
=============================================================================
