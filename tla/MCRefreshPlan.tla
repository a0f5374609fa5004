----------------------------- MODULE MCRefreshPlan ------------------------------
(* The profile and the candidates of MCProviderData, and renames to undo.     *)
EXTENDS RefreshPlan, MCProviderData

Renames == {"merchant.label"}
================================================================================
