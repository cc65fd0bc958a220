--------------------------- MODULE MCDeviceRegistry ---------------------------
(* One device and two requests that overlap.  Telemetry has no verdict, or *)
(* one of a quarantine; on traffic, the second model takes back what the   *)
(* first said of the risk.                                                 *)
EXTENDS DeviceRegistry

CONSTANTS d1, r1, r2

MCDevice   == {d1}
MCRequest  == {r1, r2}
MCVerdicts == {0, 95}
MCScores   == {<<0, 0>>, <<95, 60>>}
=============================================================================
