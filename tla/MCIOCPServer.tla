---------------------------- MODULE MCIOCPServer ----------------------------
(***************************************************************************)
(* Small instances of IOCPServer.  Workers and addresses are               *)
(* interchangeable.                                                        *)
(***************************************************************************)
EXTENDS IOCPServer, TLC

Symmetry == Permutations(Sessions) \cup Permutations(Workers)
=============================================================================
