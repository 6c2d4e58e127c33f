------------------------- MODULE MCMonitorEvidence -------------------------
(***************************************************************************)
(* Instances of MonitorEvidence.                                           *)
(***************************************************************************)
EXTENDS MonitorEvidence, TLC

CONSTANTS q1, q2
=============================================================================
