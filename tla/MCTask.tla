-------------------------------- MODULE MCTask --------------------------------
(***************************************************************************)
(* A small instance of Task.                                               *)
(***************************************************************************)
EXTENDS Task
=============================================================================
