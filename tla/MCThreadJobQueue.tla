-------------------------- MODULE MCThreadJobQueue --------------------------
(***************************************************************************)
(* A small instance of ThreadJobQueue: two jobs tell every wrong order     *)
(* apart when more of them are pushed than two.                            *)
(***************************************************************************)
EXTENDS ThreadJobQueue
=============================================================================
