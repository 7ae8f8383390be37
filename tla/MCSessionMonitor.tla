-------------------------- MODULE MCSessionMonitor --------------------------
(***************************************************************************)
(* Small instances of SessionMonitor.                                      *)
(***************************************************************************)
EXTENDS SessionMonitor
=============================================================================
