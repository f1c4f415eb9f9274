------------------------------ MODULE MCPairing -------------------------------
(* Pairing for TLC.  Boards tell their sensorId in every advertisement, but *)
(* for "windows", whose advertisements have the name of the computer.       *)
EXTENDS Pairing

MCGattId == [b \in Boards |-> IF b = "beacon" THEN "air-2" ELSE "air-1"]
MCAdvertId == [b \in Boards |-> IF b = "windows" THEN "desktop" ELSE MCGattId[b]]
=============================================================================
