---------------------------- MODULE MCBridgePool ----------------------------
(***************************************************************************)
(* Small pools for TLC.  Threads and connections are interchangeable, and   *)
(* the run that checks no liveness uses their permutations as symmetry.      *)
(***************************************************************************)
EXTENDS BridgePool, TLC

Symmetry == Permutations(Worker) \cup Permutations(Conn)
=============================================================================
