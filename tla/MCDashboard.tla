----------------------------- MODULE MCDashboard -----------------------------
(***************************************************************************)
(* A Porthmeus run (1), its dev server (2), which leads the command's        *)
(* group, and a helper of the dev server (3) that may share its socket.      *)
(***************************************************************************)
EXTENDS Dashboard

MCParent == <<0, 1, 2>>
MCLeader == <<1, 2, 2>>
MCPortOf == <<1, 2, 2>>

\* `porthmeus ... | tee`: a Porthmeus run (1), its dev server (2) and another
\* process (3) of the group that the shell made for the pipeline.
PipelineParent == <<0, 1, 0>>
PipelineLeader == <<1, 2, 1>>
PipelinePortOf == <<1, 2, 3>>
=============================================================================
