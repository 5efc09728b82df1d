----------------------------- MODULE MCAnomaly -----------------------------
(* A small instance of AnomalyDetection for TLC.                             *)
EXTENDS AnomalyDetection, TLC

CONSTANTS ip1, ip2
=============================================================================
