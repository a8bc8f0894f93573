------------------------------ MODULE MCRunner ------------------------------
(***************************************************************************)
(* Small instances of Runner: a termination signal and SIGCHLD, with one or  *)
(* two handler activations at a time.                                       *)
(***************************************************************************)
EXTENDS Runner, TLC

\* For the liveness run the terminal does not matter.
LiveSetting == {g \in AnySetting : g.tty = "none"}

Symmetry == Permutations(Handler) \cup Permutations(TermSig)
=============================================================================
