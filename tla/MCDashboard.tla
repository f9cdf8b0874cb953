------------------------------ MODULE MCDashboard ------------------------------
(* Small instances of Dashboard for TLC.                                   *)
EXTENDS Dashboard, TLC

CONSTANTS e1, e2, e3, e4

MCTriggeredAt == e1 :> 2 @@ e2 :> 1 @@ e3 :> 2 @@ e4 :> 3

=============================================================================
