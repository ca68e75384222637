------------------------- MODULE MCIssueController -------------------------
(* A small instance of IssueController for TLC.                             *)
EXTENDS IssueController
=============================================================================
