--------------------------- MODULE MCTelemetryDrv ---------------------------
(* Instances of TelemetryDrv for TLC. *)
EXTENDS TelemetryDrv

RecordSet == 0 .. MaxRecords
=============================================================================
