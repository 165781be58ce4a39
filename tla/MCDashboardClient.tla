------------------------- MODULE MCDashboardClient -------------------------
(* Instances of DashboardClient for TLC.                                   *)
EXTENDS DashboardClient

\* The requests of the tab are alike.
Alike == Permutations(Chats)
=============================================================================
