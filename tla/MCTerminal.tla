----------------------------- MODULE MCTerminal -----------------------------
(***************************************************************************)
(* A small instance of Terminal: three packets, of which the first two fit *)
(* into one recv and the third is longer than the buffer.                  *)
(***************************************************************************)
EXTENDS Terminal

MCPacketLengths == <<3, 4, 9>>
=============================================================================
