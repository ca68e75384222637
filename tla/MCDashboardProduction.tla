----------------------- MODULE MCDashboardProduction -----------------------
(***************************************************************************)
(* The instance of DashboardProduction for TLC: two CI deployments and a   *)
(* run of the release machine, over a short history of master.  The commit *)
(* of the release machine lies between theirs and changes Home Assistant   *)
(* files; the last commit builds the same bundle as it.                    *)
(***************************************************************************)
EXTENDS DashboardProduction

CONSTANTS c1, c2, r1

Commits == [w \in Workflow |-> CASE w = c1 -> 3 [] w = c2 -> 5 [] OTHER -> 4]
Bundles == <<1, 2, 2, 4, 4>>
=============================================================================
