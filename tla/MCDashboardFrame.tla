------------------------- MODULE MCDashboardFrame -------------------------
(* The card's frame with two interchangeable cards.                        *)
EXTENDS DashboardFrame, TLC
=============================================================================
