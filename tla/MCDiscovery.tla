---------------------------- MODULE MCDiscovery ----------------------------
(* Three pids, the command's not the lowest, so that a child's can be lower. *)
EXTENDS Discovery

MCProc == 1..3
MCAddress == 1..2
=============================================================================
