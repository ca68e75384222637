-------------------------- MODULE MCReleaseDriver --------------------------
(***************************************************************************)
(* The instance of ReleaseDriver for TLC takes its constants from the cfg. *)
(***************************************************************************)
EXTENDS ReleaseDriver
=============================================================================
