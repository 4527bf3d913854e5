---------------------------- MODULE MCDeployment ----------------------------
(***************************************************************************)
(* The installers of both agents, the sources edited once.                 *)
(***************************************************************************)
EXTENDS Deployment

CONSTANTS schedule, web

MCAgents == {schedule, web}
MCWebAgents == {web}
=============================================================================
