---------------------------- MODULE MCServeRoute ----------------------------
(***************************************************************************)
(* A small instance of ServeRoute: two runs that compete for two ports, of   *)
(* which Funnel has one.                                                    *)
(***************************************************************************)
EXTENDS ServeRoute
=============================================================================
