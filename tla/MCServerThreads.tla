--------------------------- MODULE MCServerThreads ---------------------------
(***************************************************************************)
(* A small instance of ServerThreads.                                      *)
(***************************************************************************)
EXTENDS ServerThreads
=============================================================================
