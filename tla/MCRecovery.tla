----------------------------- MODULE MCRecovery -----------------------------
(* Instances of Recovery for TLC.                                          *)
EXTENDS Recovery, TLC

CONSTANTS res, api

MCReports == {[status |-> "running", pressure |-> "critical"]}
=============================================================================
