--------------------------- MODULE MCDeployRunner ---------------------------
(***************************************************************************)
(* The instance of DeployRunner for TLC takes its constants from the cfg:  *)
(* a deployment with its build, which may reach Home Assistant, and a      *)
(* smoke run beside it, which may not and takes the controller's only      *)
(* journal after it or before it.                                          *)
(***************************************************************************)
EXTENDS DeployRunner
=============================================================================
