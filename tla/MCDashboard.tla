---------------------------- MODULE MCDashboard ----------------------------
(* Values for the constants of Dashboard. *)
EXTENDS Dashboard

OneAsset == {"BTC"}

BothAssets == {"BTC", "ETH"}
=============================================================================
