-------------------------- MODULE MCSessionManager --------------------------
(***************************************************************************)
(* Small instances of SessionManager.  Threads and addresses are           *)
(* interchangeable, so that the safety runs use their permutations.        *)
(***************************************************************************)
EXTENDS SessionManager, TLC

Symmetry == Permutations(Sessions) \cup Permutations(Closers)
=============================================================================
